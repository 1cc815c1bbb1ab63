--------------------------- MODULE StudioJobProofs ----------------------------
(***************************************************************************)
(* For every number of operations and every retention: one heavy task at a *)
(* time, and an outcome in the ledger is that of the operation's own child.*)
(*                                                                         *)
(* The outcome is computed from fields that belong to whatever ran last,   *)
(* so the invariant says where in the frame an operation whose child has   *)
(* ended may still be active, and that the exit code, the cancel mark and  *)
(* the log lines are its own until then.                                   *)
(***************************************************************************)
EXTENDS AgentRecipe, TLAPS

JobTypes ==
  /\ running_ \in BOOLEAN /\ paused_ \in BOOLEAN /\ completion_pending_ \in BOOLEAN
  /\ exit_code_ \in ExitCodes \cup {-1}
  /\ child \in Child
  /\ active_job \in BOOLEAN
  /\ owner \in Ops \cup {None}
  /\ fate \in [Ops -> Fates]

FrameTypes ==
  /\ pc \in Steps
  /\ unread_error \in BOOLEAN /\ last_error \in BOOLEAN
  /\ prepare \in {"none", "working", "ready", "error"} /\ cancelled \in BOOLEAN
  /\ clicked \in {"none", "train", "stop"}
  /\ iconified \in BOOLEAN

LedgerTypes ==
  /\ active_operation_ \in Ops \cup {None} /\ operation_cancelled_ \in BOOLEAN
  /\ next_operation_id_ \in 1..(MaxOps + 1)
  /\ completed_order_ \in Seq(Ops)
  /\ completed_operations_ \in [Ops -> Outcomes \cup {"unknown"}]

\* The completion flag lives from the poll that reaps to the step that consumes
\* it, and App::active_job is set while the child runs and until that step.
Flags ==
  /\ completion_pending_ => ~running_ /\ pc \in {"log", "finish"}
  /\ active_job => running_ \/ completion_pending_
  /\ running_ => active_job

\* The child belongs to the active operation, or to none.
Owned == owner # None => owner = active_operation_ /\ running_

\* Operations beyond the counter are untouched, and the active one has no outcome.
Fresh ==
  /\ active_operation_ < next_operation_id_
  /\ active_operation_ # None => ~Known(active_operation_)
  /\ \A op \in Ops : Known(op) \/ fate[op] # "no child" => op < next_operation_id_

\* The cancel mark of an active operation does not outlive the sync after it.
Marked == operation_cancelled_ /\ active_operation_ # None => pc = "sync" /\ NothingInProgress

\* An active operation whose child has ended: nothing else goes on, and what
\* Status reads tells how the child ended.
Settled ==
  active_operation_ # None /\ fate[active_operation_] # "no child" =>
    LET how == fate[active_operation_]
    IN  /\ ~running_ /\ prepare = "none"
        /\ how = "stopped" => /\ pc \in {"post", "sync"} /\ ~active_job
                              /\ exit_code_ \in {2, -1} \/ operation_cancelled_
        /\ how # "stopped" => pc \in {"log", "finish", "main"}
        /\ how \in {"exit 0", "exit 0 with errors"} => exit_code_ = 0
        /\ how = "exit 0" => ~last_error /\ ~unread_error
        /\ how = "exit 1" => exit_code_ = 1
        /\ how = "exit 2" => exit_code_ = 2
        /\ how = "exit 0 with errors" => last_error \/ (unread_error /\ pc = "log")

\* A success is that of a child that exited with 0, or nothing was launched.
SuccessIsOwn ==
  \A op \in Ops : completed_operations_[op] = "succeeded" => fate[op] \in {"no child", "exit 0"}

IInv ==
  /\ JobTypes /\ FrameTypes /\ LedgerTypes
  /\ OneTask /\ Flags /\ Owned /\ Fresh /\ Marked /\ Settled /\ OutcomeReported /\ SuccessIsOwn

LEMMA Start == Init => IInv
<1> SUFFICES ASSUME Init PROVE IInv
  OBVIOUS
<1>1. JobTypes
  BY DEF Init, JobTypes, Child, NoChild, Fates
<1>2. FrameTypes
  BY DEF Init, FrameTypes, Steps
<1>3. LedgerTypes
  <2>1. /\ next_operation_id_ = 1 /\ active_operation_ = None /\ completed_order_ = <<>>
        /\ operation_cancelled_ = FALSE /\ completed_operations_ = [op \in Ops |-> "unknown"]
    BY DEF Init
  <2>2. /\ next_operation_id_ \in 1..(MaxOps + 1) /\ active_operation_ \in Ops \cup {None}
        /\ completed_order_ \in Seq(Ops)
    BY ONLY <2>1, StudioJobAssumption
  <2> QED
    BY <2>1, <2>2 DEF LedgerTypes
<1>4. OneTask /\ Flags /\ Owned /\ Marked /\ Settled
  BY DEF Init, OneTask, Flags, Owned, Marked, Settled
<1>5. OutcomeReported /\ SuccessIsOwn
  BY DEF Init, OutcomeReported, SuccessIsOwn
<1>6. Fresh
  <2>1. active_operation_ < next_operation_id_
    <3>1. active_operation_ = 0 /\ next_operation_id_ = 1
      BY DEF Init, None
    <3> QED
      BY ONLY <3>1
  <2>2. \A op \in Ops : ~Known(op) /\ fate[op] = "no child"
    BY DEF Init, Known
  <2> QED
    BY <2>1, <2>2 DEF Fresh, Init
<1> QED
  BY <1>1, <1>2, <1>3, <1>4, <1>5, <1>6 DEF IInv

\* The processes that there are.
LEMMA Children == NoChild \in Child /\ Alive \in Child /\ Alive # NoChild
  BY DEF NoChild, Alive, Child

LEMMA TrimKeeps == ASSUME NEW order \in Seq(Ops) PROVE Trim(order) \in Seq(Ops)
  BY StudioJobAssumption DEF Trim

LEMMA NoneIsNoOperation == None \notin Ops
  BY DEF None, Ops

\* The operation that owns the child learns its end, and only that one.
LEMMA EndedFate ==
  ASSUME JobTypes, NEW how \in Fates, Ended(how)
  PROVE  /\ fate' \in [Ops -> Fates]
         /\ \A op \in Ops : fate'[op] = IF op = owner THEN how ELSE fate[op]
  BY DEF JobTypes, Ended, None, Ops

\* What finish_operation_if_done does: the outcome of the active operation is
\* recorded, and others may be dropped.
LEMMA Recorded ==
  ASSUME LedgerTypes, JobTypes, FinishOperation
  PROVE  /\ LedgerTypes'
         /\ \/ UNCHANGED ledger /\ ~(active_operation_ # None /\ NothingInProgress)
            \/ /\ active_operation_ # None /\ NothingInProgress /\ active_operation_' = None
               /\ UNCHANGED <<operation_cancelled_, next_operation_id_>>
               /\ \A op \in Ops :
                    \/ completed_operations_'[op] = "unknown"
                    \/ op = active_operation_ /\ completed_operations_'[op] = Status
                    \/ op # active_operation_ /\ completed_operations_'[op] = completed_operations_[op]
<1>1. CASE ~(active_operation_ # None /\ NothingInProgress)
  BY <1>1 DEF FinishOperation, LedgerTypes, ledger
<1>2. CASE active_operation_ # None /\ NothingInProgress
  <2> DEFINE order == Trim(Append(completed_order_, active_operation_))
  <2>1. order \in Seq(Ops)
    <3>1. active_operation_ \in Ops
      BY <1>2 DEF LedgerTypes
    <3>2. Append(completed_order_, active_operation_) \in Seq(Ops)
      BY <3>1 DEF LedgerTypes
    <3> QED
      BY <3>2, TrimKeeps
  <2>2. /\ completed_order_' = order
        /\ completed_operations_' =
               [op \in Ops |-> IF \A i \in DOMAIN order : order[i] # op THEN "unknown"
                               ELSE IF op = active_operation_ THEN Status
                               ELSE completed_operations_[op]]
        /\ active_operation_' = None
        /\ UNCHANGED <<operation_cancelled_, next_operation_id_>>
    BY <1>2 DEF FinishOperation
  <2>3. Status \in Outcomes
    BY DEF Status, Outcomes
  <2>4. completed_operations_' \in [Ops -> Outcomes \cup {"unknown"}]
    BY <2>2, <2>3 DEF LedgerTypes
  <2>5. LedgerTypes'
    BY <2>1, <2>2, <2>4 DEF LedgerTypes
  <2> QED
    BY <1>2, <2>2, <2>5
<1> QED
  BY <1>1, <1>2

LEMMA LoggedError ==
  ASSUME IInv, ChildLogsError
  PROVE  IInv'
<1>1. JobTypes' /\ FrameTypes' /\ LedgerTypes'
  BY DEF IInv, ChildLogsError, process, ledger, preparation, JobTypes, FrameTypes, LedgerTypes
<1>2. OneTask' /\ Flags' /\ Owned'
  BY DEF IInv, ChildLogsError, process, ledger, preparation, OneTask, Flags, Owned
<1>3. Fresh' /\ Marked'
  BY DEF IInv, ChildLogsError, process, ledger, preparation, Fresh, Known, Marked,
     NothingInProgress
<1>4. Settled'
  BY Children DEF IInv, ChildLogsError, process, ledger, Settled, OneTask
<1>5. OutcomeReported' /\ SuccessIsOwn'
  BY DEF IInv, ChildLogsError, process, ledger, OutcomeReported, Known, SuccessIsOwn
<1> QED
  BY <1>1, <1>2, <1>3, <1>4, <1>5 DEF IInv

LEMMA Exited ==
  ASSUME IInv, ChildExits
  PROVE  IInv'
<1>1. JobTypes' /\ FrameTypes' /\ LedgerTypes'
  BY DEF IInv, ChildExits, ledger, preparation, JobTypes, Child, FrameTypes, LedgerTypes
<1>2. OneTask' /\ Flags' /\ Owned'
  BY DEF IInv, ChildExits, ledger, preparation, OneTask, NoChild, Alive, Flags, Owned
<1>3. Fresh' /\ Marked'
  BY DEF IInv, ChildExits, ledger, preparation, Fresh, Known, Marked, NothingInProgress
<1>4. Settled'
  BY DEF IInv, ChildExits, ledger, preparation, Settled
<1>5. OutcomeReported' /\ SuccessIsOwn'
  BY DEF IInv, ChildExits, ledger, OutcomeReported, Known, SuccessIsOwn
<1> QED
  BY <1>1, <1>2, <1>3, <1>4, <1>5 DEF IInv

LEMMA Prepared ==
  ASSUME IInv, PrepareEnds
  PROVE  IInv'
<1>1. JobTypes' /\ FrameTypes' /\ LedgerTypes'
  BY DEF IInv, PrepareEnds, ledger, process, JobTypes, FrameTypes, LedgerTypes
<1>2. OneTask' /\ Flags' /\ Owned'
  BY DEF IInv, PrepareEnds, process, OneTask, Flags, Owned
<1>3. Fresh' /\ Marked'
  BY DEF IInv, PrepareEnds, ledger, process, Fresh, Known, Marked, NothingInProgress
<1>4. Settled'
  BY DEF IInv, PrepareEnds, ledger, process, Settled
<1>5. OutcomeReported' /\ SuccessIsOwn'
  BY DEF IInv, PrepareEnds, ledger, process, OutcomeReported, Known, SuccessIsOwn
<1> QED
  BY <1>1, <1>2, <1>3, <1>4, <1>5 DEF IInv

LEMMA Iconified ==
  ASSUME IInv, Iconify
  PROVE  IInv'
<1>1. JobTypes' /\ FrameTypes' /\ LedgerTypes'
  BY DEF IInv, Iconify, ledger, process, preparation, JobTypes, FrameTypes, LedgerTypes
<1>2. OneTask' /\ Flags' /\ Owned'
  BY DEF IInv, Iconify, ledger, process, preparation, OneTask, Flags, Owned
<1>3. Fresh' /\ Marked'
  BY DEF IInv, Iconify, ledger, process, Fresh, Known, Marked
<1>4. Settled'
  BY DEF IInv, Iconify, ledger, process, Settled
<1>5. OutcomeReported' /\ SuccessIsOwn'
  BY DEF IInv, Iconify, ledger, process, OutcomeReported, Known, SuccessIsOwn
<1> QED
  BY <1>1, <1>2, <1>3, <1>4, <1>5 DEF IInv

LEMMA Polled ==
  ASSUME IInv, Poll
  PROVE  IInv'
<1>1. JobTypes'
  BY Children DEF IInv, Poll, process, Ended, JobTypes, Child, Fates, ExitFate
<1>2. FrameTypes'
  BY DEF IInv, Poll, preparation, FrameTypes, Steps
<1>3. LedgerTypes'
  BY DEF IInv, Poll, ledger, LedgerTypes
<1>4. OneTask' /\ Flags' /\ Owned'
  BY DEF IInv, Poll, ledger, process, preparation, OneTask, Flags, Owned
<1>5. Fresh' /\ Marked'
  BY DEF IInv, Poll, ledger, process, Ended, Fresh, Known, Owned, JobTypes, Marked
<1>6. Settled'
  BY DEF IInv, Poll, ledger, process, preparation, Ended, Settled, Owned, OneTask,
     ExitFate, JobTypes, Child, ExitCodes
<1>7. OutcomeReported' /\ SuccessIsOwn'
  BY NoneIsNoOperation DEF IInv, Poll, ledger, process, Ended, OutcomeReported, Known,
     Owned, Fresh, JobTypes, SuccessIsOwn
<1> QED
  BY <1>1, <1>2, <1>3, <1>4, <1>5, <1>6, <1>7 DEF IInv

LEMMA LogRead ==
  ASSUME IInv, ReadLog
  PROVE  IInv'
<1>1. JobTypes'
  BY DEF IInv, ReadLog, process, JobTypes
<1>2. FrameTypes'
  BY DEF IInv, ReadLog, preparation, FrameTypes, Steps
<1>3. LedgerTypes'
  BY DEF IInv, ReadLog, ledger, LedgerTypes
<1>4. OneTask' /\ Flags' /\ Owned'
  BY DEF IInv, ReadLog, ledger, process, preparation, OneTask, Flags, Owned
<1>5. Fresh' /\ Marked'
  BY DEF IInv, ReadLog, ledger, process, Fresh, Known, Marked
<1>6. Settled'
  BY DEF IInv, ReadLog, ledger, process, preparation, Settled
<1>7. OutcomeReported' /\ SuccessIsOwn'
  BY DEF IInv, ReadLog, ledger, process, OutcomeReported, Known, SuccessIsOwn
<1> QED
  BY <1>1, <1>2, <1>3, <1>4, <1>5, <1>6, <1>7 DEF IInv

LEMMA Finished ==
  ASSUME IInv, FinishJob
  PROVE  IInv'
<1>1. JobTypes'
  BY DEF IInv, FinishJob, JobTypes
<1>2. FrameTypes'
  BY DEF IInv, FinishJob, preparation, FrameTypes, Steps
<1>3. LedgerTypes'
  BY DEF IInv, FinishJob, ledger, LedgerTypes
<1>4. OneTask' /\ Flags' /\ Owned'
  BY DEF IInv, FinishJob, ledger, preparation, OneTask, Flags, Owned
<1>5. Fresh' /\ Marked'
  BY DEF IInv, FinishJob, ledger, Fresh, Known, Marked
<1>6. Settled'
  BY DEF IInv, FinishJob, ledger, preparation, Settled
<1>7. OutcomeReported' /\ SuccessIsOwn'
  BY DEF IInv, FinishJob, ledger, OutcomeReported, Known, SuccessIsOwn
<1> QED
  BY <1>1, <1>2, <1>3, <1>4, <1>5, <1>6, <1>7 DEF IInv

\* The outcome that Status yields is that of the operation's own child.
LEMMA OwnStatus ==
  ASSUME IInv, active_operation_ # None, pc \in {"main", "sync"}
  PROVE  LET how == fate[active_operation_]
         IN  /\ how = "exit 0" => Status = "succeeded"
             /\ how \in {"exit 1", "exit 0 with errors"} => Status = "failed"
             /\ how = "exit 2" => Status = "cancelled"
             /\ how = "stopped" => Status # "succeeded"
<1>1. ~operation_cancelled_ \/ pc = "sync"
  BY DEF IInv, Marked
<1>2. CASE fate[active_operation_] = "exit 0"
  <2>1. exit_code_ = 0 /\ ~last_error /\ pc = "main"
    BY <1>2 DEF IInv, Settled
  <2>2. Status = "succeeded"
    BY <1>1, <2>1 DEF Status
  <2> QED
    BY <1>2, <2>2
<1>3. CASE fate[active_operation_] = "exit 1"
  <2>1. exit_code_ = 1 /\ pc = "main"
    BY <1>3 DEF IInv, Settled
  <2>2. Status = "failed"
    BY <1>1, <2>1 DEF Status
  <2> QED
    BY <1>3, <2>2
<1>4. CASE fate[active_operation_] = "exit 0 with errors"
  <2>1. exit_code_ = 0 /\ last_error /\ pc = "main"
    BY <1>4 DEF IInv, Settled
  <2>2. Status = "failed"
    BY <1>1, <2>1 DEF Status
  <2> QED
    BY <1>4, <2>2
<1>5. CASE fate[active_operation_] = "exit 2"
  <2>1. exit_code_ = 2
    BY <1>5 DEF IInv, Settled
  <2>2. Status = "cancelled"
    BY <2>1 DEF Status
  <2> QED
    BY <1>5, <2>2
<1>6. CASE fate[active_operation_] = "stopped"
  BY <1>6 DEF IInv, Settled, Status
<1> QED
  BY <1>2, <1>3, <1>4, <1>5, <1>6

\* A sync records the outcome of an operation whose child has ended.
LEMMA LedgerSynced ==
  ASSUME IInv, FinishOperation, pc \in {"main", "sync"}, UNCHANGED <<running_, owner, fate>>
  PROVE  /\ LedgerTypes' /\ Owned' /\ Fresh' /\ OutcomeReported' /\ SuccessIsOwn'
         /\ active_operation_' # None =>
              ~operation_cancelled_' /\ fate[active_operation_'] = "no child"
<1>1. LedgerTypes'
  BY Recorded DEF IInv
<1>2. CASE UNCHANGED ledger /\ ~(active_operation_ # None /\ NothingInProgress)
  <2>1. Owned' /\ Fresh' /\ OutcomeReported' /\ SuccessIsOwn'
    BY <1>2 DEF IInv, ledger, Owned, Fresh, OutcomeReported, SuccessIsOwn, Known
  <2>2. active_operation_ # None => ~operation_cancelled_
    BY <1>2 DEF IInv, Marked
  <2>3. active_operation_ # None => fate[active_operation_] = "no child"
    BY <1>2 DEF IInv, Settled, Flags, NothingInProgress
  <2> QED
    BY <1>1, <1>2, <2>1, <2>2, <2>3 DEF ledger
<1>3. CASE active_operation_ # None /\ NothingInProgress
  <2>1. /\ active_operation_' = None /\ next_operation_id_' = next_operation_id_
        /\ \A op \in Ops :
             \/ completed_operations_'[op] = "unknown"
             \/ op = active_operation_ /\ completed_operations_'[op] = Status
             \/ op # active_operation_ /\ completed_operations_'[op] = completed_operations_[op]
    BY <1>3, Recorded DEF IInv
  <2>2. Owned'
    BY <1>3 DEF IInv, Owned, NothingInProgress
  <2>3. Fresh'
    <3>1. active_operation_' < next_operation_id_'
      BY <2>1, StudioJobAssumption DEF IInv, LedgerTypes, None
    <3>2. active_operation_ \in Ops /\ active_operation_ < next_operation_id_
      BY <1>3 DEF IInv, LedgerTypes, Fresh
    <3>3. \A op \in Ops : Known(op)' => Known(op) \/ op = active_operation_
      BY <2>1 DEF Known
    <3> QED
      BY <2>1, <3>1, <3>2, <3>3 DEF IInv, Fresh
  <2>4. OutcomeReported'
    BY <1>3, <2>1, OwnStatus DEF IInv, OutcomeReported, Known
  <2>5. SuccessIsOwn'
    <3>1. active_operation_ \in Ops /\ fate[active_operation_] \in Fates
      BY <1>3 DEF IInv, LedgerTypes, JobTypes
    <3>2. Status = "succeeded" => fate[active_operation_] \in {"no child", "exit 0"}
      BY <1>3, <3>1, OwnStatus DEF Fates
    <3> QED
      BY <2>1, <3>2 DEF IInv, SuccessIsOwn
  <2> QED
    BY <1>1, <2>1, <2>2, <2>3, <2>4, <2>5
<1> QED
  BY <1>2, <1>3, Recorded DEF IInv

LEMMA Pumped ==
  ASSUME IInv, PumpMain
  PROVE  IInv'
<1>1. /\ LedgerTypes' /\ Owned' /\ Fresh' /\ OutcomeReported' /\ SuccessIsOwn'
      /\ active_operation_' # None =>
           ~operation_cancelled_' /\ fate'[active_operation_'] = "no child"
  BY LedgerSynced DEF PumpMain, Pause, Resume, process
<1>2. Marked' /\ Settled'
  BY <1>1 DEF Marked, Settled
<1>3. JobTypes'
  BY DEF IInv, PumpMain, Pause, Resume, process, JobTypes
<1>4. FrameTypes'
  BY DEF IInv, PumpMain, preparation, FrameTypes, Steps
<1>5. OneTask'
  BY DEF IInv, PumpMain, Pause, Resume, process, preparation, OneTask
<1>6. Flags'
  BY DEF IInv, PumpMain, Pause, Resume, process, Flags
<1> QED
  BY <1>1, <1>2, <1>3, <1>4, <1>5, <1>6 DEF IInv

LEMMA Synced ==
  ASSUME IInv, SyncPost
  PROVE  IInv'
<1>1. /\ LedgerTypes' /\ Owned' /\ Fresh' /\ OutcomeReported' /\ SuccessIsOwn'
      /\ active_operation_' # None =>
           ~operation_cancelled_' /\ fate'[active_operation_'] = "no child"
  BY LedgerSynced DEF SyncPost, process
<1>2. Marked' /\ Settled'
  BY <1>1 DEF Marked, Settled
<1>3. JobTypes'
  BY DEF IInv, SyncPost, process, JobTypes
<1>4. FrameTypes'
  BY DEF IInv, SyncPost, preparation, FrameTypes, Steps
<1>5. OneTask'
  BY DEF IInv, SyncPost, process, preparation, OneTask
<1>6. Flags'
  BY DEF IInv, SyncPost, process, Flags
<1> QED
  BY <1>1, <1>2, <1>3, <1>4, <1>5, <1>6 DEF IInv

LEMMA UiStep ==
  ASSUME IInv, Ui
  PROVE  IInv'
<1>1. JobTypes'
  BY Children DEF IInv, Ui, GuiStartDirect, Launch, LaunchThrows, StartRefused, GuiClick,
     GuiPause, Pause, Resume, GuiCancelPreparation, process, JobTypes
<1>2. FrameTypes'
  BY DEF IInv, Ui, GuiStartDirect, Launch, LaunchThrows, StartRefused, GuiClick, GuiPause,
     GuiCancelPreparation, preparation, FrameTypes, Steps
<1>3. LedgerTypes'
  BY DEF IInv, Ui, ledger, preparation, LedgerTypes
<1>4. OneTask' /\ Flags' /\ Owned'
  BY DEF IInv, Ui, GuiStartDirect, Launch, LaunchThrows, StartRefused, GuiClick, GuiPause,
     Pause, Resume, GuiCancelPreparation, ledger, process, OneTask, NoChild, Alive, Flags,
     Owned
<1>5. Fresh' /\ Marked'
  BY DEF IInv, Ui, GuiStartDirect, Launch, LaunchThrows, StartRefused, GuiClick, GuiPause,
     Pause, Resume, GuiCancelPreparation, ledger, process, Fresh, Known, Marked
<1>6. Settled'
  BY DEF IInv, Ui, GuiStartDirect, Launch, LaunchThrows, StartRefused, GuiClick, GuiPause,
     Pause, Resume, GuiCancelPreparation, ledger, process, Settled
<1>7. OutcomeReported' /\ SuccessIsOwn'
  BY DEF IInv, Ui, GuiStartDirect, Launch, LaunchThrows, StartRefused, GuiClick, GuiPause,
     Pause, Resume, GuiCancelPreparation, ledger, process, preparation, OutcomeReported,
     Known, SuccessIsOwn
<1> QED
  BY <1>1, <1>2, <1>3, <1>4, <1>5, <1>6, <1>7 DEF IInv

LEMMA TrainPolled ==
  ASSUME IInv, PollTrainStart
  PROVE  IInv'
<1>1. JobTypes'
  BY Children DEF IInv, PollTrainStart, Launch, LaunchThrows, StartRefused, process,
     JobTypes, LedgerTypes
<1>2. FrameTypes'
  BY DEF IInv, PollTrainStart, Launch, LaunchThrows, StartRefused, preparation,
     FrameTypes, Steps
<1>3. LedgerTypes'
  BY DEF IInv, PollTrainStart, ledger, LedgerTypes
<1>4. OneTask' /\ Flags' /\ Owned'
  BY DEF IInv, PollTrainStart, Launch, LaunchThrows, StartRefused, ledger, process,
     preparation, OneTask, NoChild, Alive, Flags, Owned
<1>5. Fresh' /\ Marked'
  BY DEF IInv, PollTrainStart, Launch, LaunchThrows, StartRefused, ledger, process, Fresh,
     Known, Marked
<1>6. Settled'
  BY DEF IInv, PollTrainStart, Launch, LaunchThrows, StartRefused, ledger, process, Settled
<1>7. OutcomeReported' /\ SuccessIsOwn'
  BY DEF IInv, PollTrainStart, Launch, LaunchThrows, StartRefused, ledger, process,
     OutcomeReported, Known, SuccessIsOwn
<1> QED
  BY <1>1, <1>2, <1>3, <1>4, <1>5, <1>6, <1>7 DEF IInv

LEMMA Stopped ==
  ASSUME IInv, running_, StopChild, pc' \in {"post", "sync"},
         clicked' \in {clicked, "none"}, operation_cancelled_' \in BOOLEAN,
         operation_cancelled_' => operation_cancelled_ \/ pc' = "sync",
         UNCHANGED <<active_operation_, next_operation_id_, completed_operations_,
                     completed_order_, preparation, iconified>>
  PROVE  IInv'
<1>a. /\ fate' \in [Ops -> Fates]
      /\ \A op \in Ops : fate'[op] = IF op = owner THEN "stopped" ELSE fate[op]
  BY EndedFate DEF IInv, StopChild, Fates
<1>b. /\ running_' = FALSE /\ prepare' = "none" /\ active_job' = FALSE /\ exit_code_' = 2
      /\ completion_pending_' = FALSE
  BY DEF StopChild, preparation, IInv, OneTask
<1>1. JobTypes' /\ FrameTypes' /\ LedgerTypes'
  BY Children, <1>a DEF IInv, StopChild, preparation, JobTypes, None, ExitCodes,
     FrameTypes, Steps, LedgerTypes
<1>2. OneTask' /\ Flags' /\ Owned'
  BY DEF StopChild, OneTask, Flags, Owned
<1>3. Fresh' /\ Marked'
  BY <1>a, NoneIsNoOperation, <1>b DEF IInv, Fresh, Known, Owned, Marked, NothingInProgress
<1>4. Settled'
  BY <1>a, <1>b DEF IInv, Settled, LedgerTypes
<1>5. OutcomeReported' /\ SuccessIsOwn'
  BY <1>a, NoneIsNoOperation DEF IInv, OutcomeReported, Known, Owned, Fresh, SuccessIsOwn
<1> QED
  BY <1>1, <1>2, <1>3, <1>4, <1>5 DEF IInv

LEMMA ClickTaken ==
  ASSUME IInv, Clicked
  PROVE  IInv'
<1>1. CASE clicked = "stop" /\ running_
  BY <1>1, Stopped DEF Clicked, ledger, IInv, LedgerTypes
<1>2. CASE ~(clicked = "stop" /\ running_)
  <2>1. JobTypes'
    BY <1>2 DEF IInv, Clicked, StartTrain, process, JobTypes
  <2>2. FrameTypes'
    BY <1>2 DEF IInv, Clicked, StartTrain, preparation, FrameTypes, Steps
  <2>3. LedgerTypes'
    BY <1>2 DEF IInv, Clicked, ledger, LedgerTypes
  <2>4. OneTask' /\ Flags' /\ Owned'
    BY <1>2 DEF IInv, Clicked, StartTrain, ledger, process, preparation, OneTask, Flags, Owned
  <2>5. Fresh' /\ Marked'
    BY <1>2 DEF IInv, Clicked, StartTrain, ledger, process, Fresh, Known, Marked
  <2>6. Settled'
    BY <1>2 DEF IInv, Clicked, StartTrain, ledger, process, Settled
  <2>7. OutcomeReported' /\ SuccessIsOwn'
    BY <1>2 DEF IInv, Clicked, StartTrain, ledger, process, OutcomeReported, Known,
       SuccessIsOwn
  <2> QED
    BY <2>1, <2>2, <2>3, <2>4, <2>5, <2>6, <2>7 DEF IInv
<1> QED
  BY <1>1, <1>2

LEMMA ApiStarted ==
  ASSUME IInv, ApiStart, pc = "post", pc' = "sync", UNCHANGED <<clicked, iconified>>
  PROVE  IInv'
<1> DEFINE op == next_operation_id_
<1>1. op \in Ops /\ fate[op] = "no child" /\ ~Known(op)
  <2>1. op \in Ops
    BY StudioJobAssumption DEF ApiStart, IInv, LedgerTypes, Ops
  <2>2. ~(op < op)
    BY <2>1 DEF Ops
  <2> QED
    BY <2>1, <2>2 DEF IInv, Fresh
<1>2. /\ ~running_ /\ prepare = "none" /\ owner = None /\ child = NoChild
      /\ completion_pending_ = FALSE /\ active_job = FALSE
      /\ operation_cancelled_ => active_operation_ = None
  BY DEF ApiStart, IInv, Owned, OneTask, Flags, Marked
<1>3. \/ Launch(op) /\ UNCHANGED preparation
      \/ LaunchThrows /\ UNCHANGED preparation
      \/ UNCHANGED <<process, active_job, last_error, unread_error, preparation>>
      \/ /\ prepare' = "working" /\ cancelled' = FALSE
         /\ UNCHANGED <<process, active_job, last_error, unread_error>>
  BY DEF ApiStart, StartTrain, StartRefused
<1>4. JobTypes'
  BY <1>1, <1>3, Children DEF IInv, JobTypes, Launch, LaunchThrows, process
<1>5. FrameTypes'
  BY <1>3 DEF IInv, FrameTypes, Steps, Launch, LaunchThrows, preparation
<1>6. OneTask' /\ Flags' /\ fate' = fate /\ owner' \in {None, op} /\ (owner' = op => running_')
  <2>1. OneTask'
    BY <1>2, <1>3, Children DEF OneTask, Launch, LaunchThrows, process, preparation
  <2>2. Flags'
    BY <1>2, <1>3 DEF Flags, Launch, LaunchThrows, process
  <2>3. fate' = fate /\ owner' \in {None, op}
    BY <1>2, <1>3 DEF Launch, LaunchThrows, process
  <2>4. owner' = op => running_'
    <3>1. op # None
      BY <1>1, NoneIsNoOperation
    <3> QED
      BY <1>2, <1>3, <3>1 DEF Launch, LaunchThrows, process
  <2> QED
    BY <2>1, <2>2, <2>3, <2>4
<1>7. CASE Begun
  <2>1. /\ active_operation_' = op /\ next_operation_id_' = op + 1 /\ operation_cancelled_' = FALSE
        /\ UNCHANGED <<completed_operations_, completed_order_>>
    BY <1>7 DEF ApiStart, BeginOperation
  <2>2. op \in 1..MaxOps
    BY <1>1 DEF Ops
  <2>3. op + 1 \in 1..(MaxOps + 1) /\ op < op + 1 /\ \A o \in Ops : o < op => o < op + 1
    BY <2>2, StudioJobAssumption DEF Ops
  <2>4. LedgerTypes'
    BY <1>1, <2>1, <2>3 DEF IInv, LedgerTypes
  <2>5. Owned' /\ Marked'
    BY <1>6, <2>1 DEF Owned, Marked
  <2>6. Fresh'
    BY <1>1, <1>6, <2>1, <2>3 DEF IInv, Fresh, Known
  <2>7. Settled' /\ OutcomeReported' /\ SuccessIsOwn'
    BY <1>1, <1>6, <2>1 DEF IInv, Settled, OutcomeReported, SuccessIsOwn, Known
  <2> QED
    BY <1>4, <1>5, <1>6, <2>4, <2>5, <2>6, <2>7 DEF IInv
<1>8. CASE ~Begun
  <2>1. UNCHANGED ledger /\ ~running_' /\ prepare' = "none"
    BY <1>5, <1>8 DEF ApiStart, Begun
  <2>2. owner' = None /\ active_job' = FALSE /\ (exit_code_' = exit_code_ \/ exit_code_' = -1)
    BY <1>2, <1>3, <1>6, <2>1 DEF Launch, LaunchThrows, process
  <2>3. LedgerTypes' /\ Owned' /\ Fresh' /\ OutcomeReported' /\ SuccessIsOwn'
    BY <1>6, <2>1, <2>2 DEF IInv, ledger, LedgerTypes, Owned, Fresh, OutcomeReported,
       SuccessIsOwn, Known
  <2>4. Marked'
    BY <1>2, <2>1 DEF ledger, Marked
  <2>5. Settled'
    BY <1>2, <1>6, <2>1, <2>2 DEF IInv, Settled, ledger
  <2> QED
    BY <1>4, <1>5, <1>6, <2>3, <2>4, <2>5 DEF IInv
<1> QED
  BY <1>7, <1>8

LEMMA CommandRun ==
  ASSUME IInv, RunPostCommand
  PROVE  IInv'
<1>1. CASE ApiStart
  BY <1>1, ApiStarted DEF RunPostCommand
<1>2. CASE ApiStop
  BY <1>2, Stopped DEF RunPostCommand, ApiStop
<1>3. CASE UNCHANGED <<process, active_job, last_error, unread_error, preparation, ledger>>
  <2>1. JobTypes' /\ FrameTypes' /\ LedgerTypes'
    BY <1>3 DEF IInv, RunPostCommand, ledger, process, preparation, JobTypes, FrameTypes,
       Steps, LedgerTypes
  <2>2. OneTask' /\ Flags' /\ Owned'
    BY <1>3 DEF IInv, RunPostCommand, ledger, process, preparation, OneTask, Flags, Owned
  <2>3. Fresh' /\ Marked'
    BY <1>3 DEF IInv, RunPostCommand, ledger, process, Fresh, Known, Marked
  <2>4. Settled'
    BY <1>3 DEF IInv, RunPostCommand, ledger, process, preparation, Settled
  <2>5. OutcomeReported' /\ SuccessIsOwn'
    BY <1>3 DEF IInv, ledger, process, OutcomeReported, Known, SuccessIsOwn
  <2> QED
    BY <2>1, <2>2, <2>3, <2>4, <2>5 DEF IInv
<1> QED
  BY <1>1, <1>2, <1>3 DEF RunPostCommand

LEMMA Inductive == ASSUME IInv, [Next]_vars PROVE IInv'
<1>1. CASE UNCHANGED vars
  <2>1. JobTypes' /\ FrameTypes' /\ LedgerTypes'
    BY <1>1 DEF IInv, vars, ledger, process, preparation, JobTypes, FrameTypes, LedgerTypes
  <2>2. OneTask' /\ Flags' /\ Owned'
    BY <1>1 DEF IInv, vars, ledger, process, preparation, OneTask, Flags, Owned
  <2>3. Fresh' /\ Marked'
    BY <1>1 DEF IInv, vars, ledger, process, preparation, Fresh, Known, Marked,
       NothingInProgress
  <2>4. Settled'
    BY <1>1 DEF IInv, vars, ledger, process, preparation, Settled, Flags
  <2>5. OutcomeReported' /\ SuccessIsOwn'
    BY <1>1 DEF IInv, vars, ledger, process, OutcomeReported, Known, SuccessIsOwn
  <2> QED
    BY <2>1, <2>2, <2>3, <2>4, <2>5 DEF IInv
<1>2. CASE Next
  BY <1>2, LoggedError, Exited, Prepared, Iconified, Polled, LogRead, Finished, Pumped,
     UiStep, TrainPolled, ClickTaken, CommandRun, Synced DEF Next, MainThread
<1> QED
  BY <1>1, <1>2

\* The types that the parts of the invariant need are those of the whole state.
THEOREM TypeCorrect == Spec => []TypeOK
<1>1. IInv => TypeOK
  BY DEF IInv, JobTypes, FrameTypes, LedgerTypes, TypeOK
<1> QED
  BY <1>1, Start, Inductive, PTL DEF Spec

\* One heavy task at a time: ProcessJob::running_ is true exactly while there is
\* a child to reap, and no child runs while training inputs are prepared.
THEOREM OneHeavyTask == Spec => []OneTask
<1>1. IInv => OneTask
  BY DEF IInv
<1> QED
  BY <1>1, Start, Inductive, PTL DEF Spec

\* An operation's recorded outcome is that of its own child.
THEOREM OutcomesAreOwn == Spec => []OutcomeReported
<1>1. IInv => OutcomeReported
  BY DEF IInv
<1> QED
  BY <1>1, Start, Inductive, PTL DEF Spec

-----------------------------------------------------------------------------
(***************************************************************************)
(* For every cast and every bound: the theorems about Spec hold for        *)
(* RecipeSpec, too, and a recipe trains its own alignment.                 *)
(*                                                                         *)
(* Operation numbers start again with every Studio, so the invariant is    *)
(* about the session that the recipe was made in: in that session the      *)
(* operation that the recipe waits for was begun, as a child if it is an   *)
(* alignment, and the alignment it has seen succeed had a child that ended *)
(* with 0.  Sessions only grow, so in any other nothing is claimed.        *)
(***************************************************************************)

\* A process of the recipe was started after a state call that matched.
Calling ==
  /\ recipe.status = "none" => call.at = "none" /\ recipe.step = 0 /\ recipe.op = None
  /\ call.at \in {"wait", "start", "quality"} => checked = recipe.input
  /\ call.at = "wait" => recipe.op # None

Home == recipe.input.session = session

\* What the recipe waits for was begun in this session, an alignment as a child.
Waiting ==
  Home /\ recipe.op # None =>
    /\ recipe.op \in Ops /\ recipe.op < next_operation_id_
    /\ recipe.step = 0 => owner = recipe.op \/ fate[recipe.op] # "no child"

\* The alignment that the recipe has seen succeed.
Aligned ==
  Home /\ recipe.step # 0 => aligned \in Ops /\ fate[aligned] = "exit 0"

RecipeTypes ==
  /\ session \in Nat \ {0}
  /\ recipe.step \in Nat
  /\ recipe.input.session \in 0..session
  /\ recipe = [status |-> recipe.status, step |-> recipe.step, op |-> recipe.op, input |-> recipe.input]
  /\ call = [at |-> call.at, session |-> call.session]

RInv == IInv /\ RecipeTypes /\ Calling /\ Waiting /\ Aligned

-----------------------------------------------------------------------------
\* Every step of the composition is one of Studio's, or restarts it.
LEMMA StudioSteps == ASSUME RecipeNext PROVE [Next]_vars \/ Restart
<1>1. ASSUME RunStart PROVE RunPostCommand
  <2>1. ApiStart \/ UNCHANGED <<process, active_job, last_error, unread_error, preparation, ledger>>
    BY <1>1 DEF RunStart
  <2> QED
    BY <1>1, <2>1 DEF RunStart, RunPostCommand
<1>2. Frame => Next
  BY <1>1 DEF Frame, Pump, RunOther, Next, MainThread
<1>3. Surroundings => Next \/ UNCHANGED vars
  BY DEF Surroundings, Next
<1>4. Advance \/ Bind \/ SessionChanged \/ TimesOut \/ OpenProject \/ Save \/ Export \/ ExportEnds
        => UNCHANGED vars
  BY DEF Advance, Bind, SessionChanged, TimesOut, OpenProject, Save, Export, ExportEnds, vars
<1> QED
  BY <1>2, <1>3, <1>4 DEF RecipeNext

LEMMA RestartStarts == ASSUME IInv, Restart PROVE IInv'
<1>1. JobTypes'
  BY Children DEF Restart, JobTypes, Fates
<1>2. FrameTypes'
  BY DEF Restart, IInv, FrameTypes
<1>3. LedgerTypes'
  <2>1. next_operation_id_' = 1 /\ completed_order_' = <<>>
    BY DEF Restart
  <2>2. next_operation_id_' \in 1..(MaxOps + 1) /\ completed_order_' \in Seq(Ops)
    BY ONLY <2>1, StudioJobAssumption
  <2> QED
    BY <2>2 DEF Restart, LedgerTypes
<1>4. OneTask' /\ Flags' /\ Owned' /\ Marked' /\ Settled'
  BY DEF Restart, OneTask, Flags, Owned, Marked, Settled
<1>5. /\ active_operation_' = 0 /\ next_operation_id_' = 1
      /\ \A op \in Ops : completed_operations_'[op] = "unknown" /\ fate'[op] = "no child"
  BY DEF Restart, None
<1>6. OutcomeReported' /\ SuccessIsOwn'
  BY <1>5 DEF OutcomeReported, SuccessIsOwn, Known
<1>7. Fresh'
  <2>1. active_operation_' < next_operation_id_'
    <3>1. active_operation_' = 0 /\ next_operation_id_' = 1
      BY <1>5
    <3> QED
      BY <3>1
  <2> QED
    BY <1>5, <2>1 DEF Fresh, Known, None
<1> QED
  BY <1>1, <1>2, <1>3, <1>4, <1>6, <1>7 DEF IInv

\* What is known of an operation's child is not lost while Studio runs.
LEMMA HistoryKept ==
  ASSUME IInv, [Next]_vars, NEW op \in Ops
  PROVE  /\ fate[op] # "no child" => fate'[op] = fate[op]
         /\ owner = op => owner' = op \/ fate'[op] # "no child"
         /\ next_operation_id_' \in {next_operation_id_, next_operation_id_ + 1}
<1>1. owner = op => running_ /\ op = active_operation_ /\ fate[op] = "no child" /\ owner # None
  BY NoneIsNoOperation DEF IInv, Owned, Settled
<1>2. CASE Poll
  <2>1. CASE running_ /\ child.at = "exited"
    <3>1. ExitFate(child.code) \in Fates \ {"no child"} /\ Ended(ExitFate(child.code))
      BY <1>2, <2>1 DEF Poll, ExitFate, Fates
    <3>2. fate'[op] = IF op = owner THEN ExitFate(child.code) ELSE fate[op]
      BY <3>1, EndedFate DEF IInv
    <3> QED
      BY <1>1, <1>2, <3>1, <3>2 DEF Poll, ledger
  <2>2. CASE ~(running_ /\ child.at = "exited")
    BY <1>2, <2>2 DEF Poll, process, ledger
  <2> QED
    BY <2>1, <2>2
<1>3. CASE StopChild /\ next_operation_id_' = next_operation_id_
  <2>1. fate'[op] = IF op = owner THEN "stopped" ELSE fate[op]
    BY <1>3, EndedFate DEF IInv, StopChild, Fates
  <2> QED
    BY <1>1, <1>3, <2>1
<1>4. CASE Clicked
  <2>1. CASE StopChild
    BY <1>3, <1>4, <2>1 DEF Clicked, ledger
  <2>2. CASE ~StopChild
    BY <1>4, <2>2 DEF Clicked, StartTrain, process, ledger
  <2> QED
    BY <2>1, <2>2
<1>5. CASE RunPostCommand
  <2>1. CASE ApiStop
    BY <1>3, <2>1 DEF ApiStop
  <2>2. CASE ApiStart
    BY <1>1, <2>2 DEF ApiStart, Launch, LaunchThrows, StartRefused, StartTrain, BeginOperation,
       process, ledger
  <2>3. CASE UNCHANGED <<process, ledger>>
    BY <2>3 DEF process, ledger
  <2> QED
    BY <1>5, <2>1, <2>2, <2>3 DEF RunPostCommand
<1>6. CASE PollTrainStart
  <2>1. prepare # "none" => ~running_
    BY DEF IInv, OneTask
  <2> QED
    BY <1>1, <1>6, <2>1 DEF PollTrainStart, Launch, LaunchThrows, StartRefused, process, ledger
<1>7. CASE Ui
  BY <1>1, <1>7 DEF Ui, GuiStartDirect, Launch, LaunchThrows, StartRefused, GuiClick, GuiPause,
     Pause, Resume, GuiCancelPreparation, process, ledger
<1>8. CASE PumpMain \/ SyncPost
  BY <1>8, Recorded DEF PumpMain, SyncPost, Pause, Resume, process, ledger, IInv
<1>9. CASE ReadLog \/ FinishJob \/ ChildLogsError \/ ChildExits \/ PrepareEnds \/ Iconify
  BY <1>9 DEF ReadLog, FinishJob, ChildLogsError, ChildExits, PrepareEnds, Iconify, process, ledger
<1>10. CASE UNCHANGED vars
  BY <1>10 DEF vars, process, ledger
<1> QED
  BY <1>2, <1>4, <1>5, <1>6, <1>7, <1>8, <1>9, <1>10 DEF Next, MainThread

-----------------------------------------------------------------------------
\* What is known of the operation waited for and of the alignment is kept.
LEMMA HomeKept ==
  ASSUME RInv, [Next]_vars, session' = session, aligned' = aligned,
         recipe'.step = recipe.step, recipe'.op = recipe.op, recipe'.input = recipe.input
  PROVE  Waiting' /\ Aligned'
<1>1. Waiting'
  <2>1. CASE Home /\ recipe.op # None
    <3>1. recipe.op \in Ops /\ recipe.op < next_operation_id_
      BY <2>1 DEF RInv, Waiting
    <3>2. recipe.op < next_operation_id_'
      <4>1. next_operation_id_' \in {next_operation_id_, next_operation_id_ + 1}
        BY <3>1, HistoryKept DEF RInv
      <4>2. next_operation_id_ \in Int /\ recipe.op \in Int
        BY <3>1 DEF RInv, IInv, LedgerTypes, Ops
      <4> QED
        BY <3>1, <4>1, <4>2
    <3>3. recipe.step = 0 => owner' = recipe.op \/ fate'[recipe.op] # "no child"
      BY <2>1, <3>1, HistoryKept DEF RInv, Waiting
    <3> QED
      BY <3>1, <3>2, <3>3 DEF Waiting
  <2> QED
    BY <2>1 DEF Waiting, Home
<1>2. Aligned'
  BY HistoryKept DEF RInv, Aligned, Home
<1> QED
  BY <1>1, <1>2

\* A step of Studio that the recipe takes no part in.
LEMMA Undisturbed ==
  ASSUME RInv, [Next]_vars, UNCHANGED <<session, recipe, call, checked, aligned>>
  PROVE  RInv'
<1>1. RecipeTypes' /\ Calling'
  BY DEF RInv, RecipeTypes, Calling
<1> QED
  BY <1>1, HomeKept, Inductive DEF RInv

\* The client alone.
LEMMA ClientMoves ==
  ASSUME RInv, Advance \/ Bind \/ SessionChanged \/ TimesOut
  PROVE  RInv'
<1>1. UNCHANGED <<vars, session, checked, aligned>>
  BY DEF Advance, Bind, SessionChanged, TimesOut, env
<1>2. /\ recipe'.step = recipe.step /\ recipe'.op = recipe.op /\ recipe'.input = recipe.input
      /\ recipe' = [status |-> recipe'.status, step |-> recipe'.step, op |-> recipe'.op,
                    input |-> recipe'.input]
      /\ call' = [at |-> call'.at, session |-> call'.session]
  BY DEF RInv, RecipeTypes, Advance, Bind, SessionChanged, TimesOut, CallError, Failed, Idle, Ctl
<1>3. Calling'
  BY <1>1, <1>2 DEF RInv, RecipeTypes, Calling, Advance, Bind, SessionChanged, TimesOut, CallError,
     Failed, Idle, Ctl
<1>4. RecipeTypes'
  BY <1>1, <1>2 DEF RInv, RecipeTypes
<1> QED
  BY <1>1, <1>2, <1>3, <1>4, HomeKept, Inductive DEF RInv

LEMMA Restarted == ASSUME RInv, Restart PROVE RInv'
<1>1. IInv'
  BY RestartStarts DEF RInv
<1>2. session' = session + 1 /\ UNCHANGED <<recipe, call, checked, aligned>>
  BY DEF Restart, client
<1>3. RecipeTypes'
  BY <1>2 DEF RInv, RecipeTypes
<1>4. ~Home'
  BY <1>2 DEF RInv, RecipeTypes, Home
<1>5. Calling' /\ Waiting' /\ Aligned'
  BY <1>2, <1>4 DEF RInv, Calling, Waiting, Aligned
<1> QED
  BY <1>1, <1>3, <1>5 DEF RInv

-----------------------------------------------------------------------------
\* The answers, in a pump that leaves the history of the children alone.

LEMMA RecipeMade ==
  ASSUME RInv, [Next]_vars, Create, session' = session
  PROVE  RInv'
<1>1. /\ recipe' = [recipe EXCEPT !.status = "ready", !.input = Input]
      /\ UNCHANGED <<call, checked, aligned>>
      /\ call.at = "none" /\ recipe.step = 0 /\ recipe.op = None
  BY DEF Create, RInv, Calling
<1>2. /\ recipe' = [status |-> "ready", step |-> 0, op |-> None, input |-> Input]
      /\ Input.session = session
  BY <1>1 DEF RInv, RecipeTypes, Input
<1>3. RecipeTypes'
  <2>1. recipe'.input.session = session /\ recipe'.step = 0
    BY <1>2
  <2>2. session' \in Nat \ {0} /\ recipe'.step \in Nat /\ recipe'.input.session \in 0..session'
    BY <2>1 DEF RInv, RecipeTypes
  <2> QED
    BY <1>1, <1>2, <2>2 DEF RInv, RecipeTypes
<1>4. Calling' /\ Waiting' /\ Aligned'
  BY <1>1, <1>2 DEF Calling, Waiting, Aligned
<1> QED
  BY <1>3, <1>4, Inductive DEF RInv

LEMMA StateAnswered ==
  ASSUME RInv, [Next]_vars, AnswerState, session' = session
  PROVE  RInv'
<1>1. /\ recipe' = [status |-> recipe'.status, step |-> recipe.step, op |-> recipe.op,
                    input |-> recipe.input]
      /\ recipe'.status \in {recipe.status, "failed"}
  BY DEF AnswerState, RInv, RecipeTypes, Failed
<1>2. /\ call' = [at |-> call'.at, session |-> NoSession]
      /\ recipe.status # "none"
      /\ call'.at # "none" => checked' = recipe.input /\ call'.at = NextCall(recipe)
  <2>1. recipe.status # "none"
    BY DEF AnswerState, RInv, Calling
  <2>2. CASE Input = recipe.input
    BY <2>1, <2>2 DEF AnswerState, Ctl
  <2>3. CASE Input # recipe.input
    <3>1. call' = Idle
      BY <2>3 DEF AnswerState
    <3>2. call' = [at |-> "none", session |-> NoSession]
      BY <3>1 DEF Idle
    <3>3. call'.at = "none"
      BY <3>2
    <3>4. call' = [at |-> call'.at, session |-> NoSession]
      BY <3>2, <3>3
    <3> QED
      BY <2>1, <3>3, <3>4
  <2> QED
    BY <2>2, <2>3
<1>3. RecipeTypes'
  BY <1>1, <1>2 DEF RInv, RecipeTypes
<1>4. Calling'
  BY <1>1, <1>2 DEF Calling, NextCall
<1> QED
  BY <1>1, <1>3, <1>4, HomeKept, Inductive DEF RInv, AnswerState

\* An operation whose success is known has no child any more, so an alignment
\* had one that ended with 0.
LEMMA WaitAnswered ==
  ASSUME RInv, [Next]_vars, AnswerWait, UNCHANGED <<session, owner, fate>>
  PROVE  RInv'
<1>1. recipe.status # "none" /\ checked = recipe.input /\ checked' = checked /\ recipe.op # None
  BY DEF AnswerWait, RInv, Calling
<1>2. IInv'
  BY Inductive DEF RInv
<1>3. CASE recipe' = recipe /\ call' \in {call, Idle} /\ aligned' = aligned
  <2>1. RecipeTypes' /\ Calling'
    BY <1>1, <1>3 DEF RInv, RecipeTypes, Calling, Idle
  <2> QED
    BY <1>2, <1>3, <2>1, HomeKept DEF RInv
<1>4. CASE recipe' = Failed /\ call' = Idle /\ aligned' = aligned
  <2>1. recipe' = [status |-> "failed", step |-> recipe.step, op |-> recipe.op,
                   input |-> recipe.input]
    BY <1>4 DEF RInv, RecipeTypes, Failed
  <2>2. RecipeTypes' /\ Calling'
    BY <1>4, <2>1 DEF RInv, RecipeTypes, Calling, Idle
  <2> QED
    BY <1>2, <1>4, <2>1, <2>2, HomeKept DEF RInv
<1>5. CASE /\ completed_operations_'[recipe.op] = "succeeded"
           /\ recipe' = [recipe EXCEPT !.step = @ + 1, !.op = None]
           /\ call' = Ctl(NextCall(recipe'))
           /\ aligned' = IF recipe.step = 0 THEN recipe.op ELSE aligned
  <2>1. recipe' = [status |-> recipe.status, step |-> recipe.step + 1, op |-> None,
                   input |-> recipe.input]
    BY <1>5 DEF RInv, RecipeTypes
  <2>2. call' = [at |-> NextCall(recipe'), session |-> NoSession] /\ call'.at \in {"quality", "start"}
    BY <1>5, <2>1 DEF Ctl, NextCall
  <2>3. RecipeTypes'
    <3>1. recipe'.step \in Nat /\ recipe'.input = recipe.input
      BY <2>1 DEF RInv, RecipeTypes
    <3> QED
      BY <2>1, <2>2, <3>1 DEF RInv, RecipeTypes
  <2>5. Calling' /\ Waiting'
    BY <1>1, <2>1, <2>2 DEF Calling, Waiting
  <2>4. Aligned'
    <3>1. CASE Home /\ recipe.step = 0
      <4>1. recipe.op \in Ops /\ (owner' = recipe.op \/ fate'[recipe.op] # "no child")
        BY <1>1, <3>1 DEF RInv, Waiting
      <4>2. fate'[recipe.op] = "exit 0"
        <5>1. owner' # recipe.op
          BY <1>2, <1>5, <4>1, NoneIsNoOperation DEF IInv, Owned, Fresh, Known
        <5> QED
          BY <1>2, <1>5, <4>1, <5>1 DEF IInv, SuccessIsOwn
      <4> QED
        BY <1>5, <3>1, <4>1, <4>2 DEF Aligned
    <3>2. CASE Home /\ recipe.step # 0
      BY <1>5, <3>2 DEF RInv, Aligned
    <3>3. CASE ~Home
      BY <2>1, <3>3 DEF Aligned, Home
    <3> QED
      BY <3>1, <3>2, <3>3
  <2> QED
    BY <1>2, <2>3, <2>4, <2>5 DEF RInv
<1> QED
  BY <1>3, <1>4, <1>5 DEF AnswerWait

LEMMA QualityAnswered ==
  ASSUME RInv, [Next]_vars, AnswerQuality, session' = session
  PROVE  RInv'
<1>1. /\ recipe' = [status |-> "succeeded", step |-> recipe.step, op |-> recipe.op,
                    input |-> recipe.input]
      /\ call' = Idle /\ aligned' = aligned
  BY DEF AnswerQuality, RInv, RecipeTypes
<1>2. RecipeTypes' /\ Calling'
  BY <1>1 DEF RInv, RecipeTypes, Calling, Idle
<1> QED
  BY <1>1, <1>2, HomeKept, Inductive DEF RInv

LEMMA Answered == ASSUME RInv, Pump PROVE RInv'
<1>1. [Next]_vars /\ UNCHANGED <<session, owner, fate>>
  BY DEF Pump, Next, MainThread, PumpMain, Pause, Resume, process
<1>2. CASE UNCHANGED client
  BY <1>1, <1>2, Undisturbed DEF client
<1> QED
  BY <1>1, <1>2, RecipeMade, StateAnswered, WaitAnswered, QualityAnswered DEF Pump

LEMMA StartAnswered == ASSUME RInv, RunStart PROVE RInv'
<1>1. [Next]_vars /\ session' = session
  BY StudioSteps DEF RecipeNext, Frame, RunStart, env, Restart
<1>2. IInv'
  BY <1>1, Inductive DEF RInv
<1>3. call' = Idle /\ UNCHANGED <<checked, aligned>> /\ recipe.status # "none" /\ call.at = "start"
  BY DEF RunStart, AnswerStart, RInv, Calling
<1>4. CASE recipe' = recipe
  <2>1. RecipeTypes' /\ Calling'
    BY <1>1, <1>3, <1>4 DEF RInv, RecipeTypes, Calling, Idle
  <2> QED
    BY <1>1, <1>2, <1>3, <1>4, <2>1, HomeKept DEF RInv
<1>5. CASE /\ recipe' = [recipe EXCEPT !.op = active_operation_', !.status = "running"]
           /\ active_operation_' # active_operation_
  <2>1. recipe' = [status |-> "running", step |-> recipe.step, op |-> active_operation_',
                   input |-> recipe.input]
    BY <1>5 DEF RInv, RecipeTypes
  <2>2. RecipeTypes' /\ Calling'
    BY <1>1, <1>3, <2>1 DEF RInv, RecipeTypes, Calling, Idle
  <2>3. ApiStart /\ Starts
    BY <1>5 DEF RunStart, ledger
  <2>4. active_operation_' = next_operation_id_ /\ next_operation_id_' = next_operation_id_ + 1 /\ Begun
    BY <1>5, <2>3 DEF ApiStart, BeginOperation, ledger
  <2>5. active_operation_' \in Ops /\ active_operation_' < next_operation_id_'
    BY <2>3, <2>4, StudioJobAssumption DEF ApiStart, RInv, IInv, LedgerTypes, Ops
  <2>6. recipe.step = 0 => owner' = active_operation_'
    <3>1. ~running_ /\ prepare = "none"
      BY <2>3 DEF ApiStart
    <3>2. recipe.step = 0 => running_'
      BY <2>3, <2>4, <3>1 DEF Starts, Begun, preparation
    <3> QED
      <4>1. recipe.step = 0 =>
              \/ Launch(next_operation_id_) \/ LaunchThrows \/ StartRefused \/ StartTrain
        BY <2>3 DEF ApiStart
      <4> QED
        BY <2>4, <3>1, <3>2, <4>1 DEF Launch, LaunchThrows, StartRefused, StartTrain, process
  <2>7. Waiting'
    BY <2>1, <2>5, <2>6 DEF Waiting
  <2>8. Aligned'
    BY <1>1, <1>3, <2>1, HistoryKept DEF RInv, Aligned, Home
  <2> QED
    BY <1>2, <2>2, <2>7, <2>8 DEF RInv
<1> QED
  BY <1>4, <1>5 DEF RunStart, AnswerStart

LEMMA RecipeInductive == ASSUME RInv, [RecipeNext]_recipeVars PROVE RInv'
<1>1. CASE UNCHANGED recipeVars
  BY <1>1, Undisturbed DEF recipeVars, env, client
<1>2. CASE Pump
  BY <1>2, Answered
<1>3. CASE RunStart
  BY <1>3, StartAnswered
<1>4. CASE Restart
  BY <1>4, Restarted
<1>5. CASE Advance \/ Bind \/ SessionChanged \/ TimesOut
  BY <1>5, ClientMoves
<1>6. CASE /\ RecipeNext
           /\ ~(Pump \/ RunStart \/ Restart \/ Advance \/ Bind \/ SessionChanged \/ TimesOut)
  <2>1. [Next]_vars
    BY <1>6, StudioSteps
  <2>2. UNCHANGED <<session, recipe, call, checked, aligned>>
    BY <1>6 DEF RecipeNext, Frame, Surroundings, RunOther, OpenProject, Save, Export, ExportEnds,
       studio, env, client
  <2> QED
    BY <2>1, <2>2, Undisturbed
<1> QED
  BY <1>1, <1>2, <1>3, <1>4, <1>5, <1>6

LEMMA RecipeStart == RecipeInit => RInv
<1> SUFFICES ASSUME RecipeInit PROVE RInv
  OBVIOUS
<1>1. IInv
  BY Start DEF RecipeInit
<1>2. /\ recipe = [status |-> "none", step |-> 0, op |-> None, input |-> NoInput]
      /\ call = Idle /\ session = 1
  BY DEF RecipeInit
<1>3. RecipeTypes /\ Calling
  BY <1>2 DEF RecipeTypes, Calling, Idle, NoInput
<1>4. Waiting /\ Aligned
  BY <1>2 DEF Waiting, Aligned
<1> QED
  BY <1>1, <1>3, <1>4 DEF RInv

LEMMA RecipeInvariant == RecipeSpec => []RInv
  BY RecipeStart, RecipeInductive, PTL DEF RecipeSpec

-----------------------------------------------------------------------------
\* Beside a recipe, other agents, the user, restarts and lost answers: still at
\* most one heavy task, and none left behind.
THEOREM OneHeavyTaskInAll == RecipeSpec => []OneTask
<1>1. RInv => OneTask
  BY DEF RInv, IInv
<1> QED
  BY <1>1, RecipeInvariant, PTL

\* And every operation's recorded outcome is that of its own child.
THEOREM OutcomesAreOwnInAll == RecipeSpec => []OutcomeReported
<1>1. RInv => OutcomeReported
  BY DEF RInv, IInv
<1> QED
  BY <1>1, RecipeInvariant, PTL

\* The training that a recipe starts follows an alignment of its own, in the
\* same session and project, whose child ended with 0.
THEOREM RecipeTrainsItsOwn == RecipeSpec => TrainsItsOwnAlignment
<1> DEFINE Step == recipe.step = 1 /\ recipe.op = None /\ recipe'.op # None /\ Same(checked) =>
                      Same(recipe.input) /\ fate[aligned] = "exit 0"
<1>1. RInv /\ [RecipeNext]_recipeVars => [Step]_recipeVars
  <2> SUFFICES ASSUME RInv, RecipeNext, recipe.step = 1, recipe.op = None, recipe'.op # None,
                      Same(checked)
               PROVE  Same(recipe.input) /\ fate[aligned] = "exit 0"
    OBVIOUS
  <2>1. call.at = "start"
    <3>1. CASE RunStart
      BY <3>1 DEF RunStart
    <3>2. CASE Pump
      BY <3>2 DEF RInv, RecipeTypes, Pump, client, Create, AnswerState, AnswerWait, AnswerQuality, Failed
    <3>3. CASE Advance \/ Bind \/ SessionChanged \/ TimesOut
      BY <3>3 DEF RInv, RecipeTypes, Advance, Bind, SessionChanged, TimesOut, CallError, Failed
    <3>4. CASE ~(RunStart \/ Pump \/ Advance \/ Bind \/ SessionChanged \/ TimesOut)
      BY <3>4 DEF RecipeNext, Frame, Surroundings, RunOther, OpenProject, Save, Export, ExportEnds,
         Restart, client
    <3> QED
      BY <3>1, <3>2, <3>3, <3>4
  <2>2. checked = recipe.input
    BY <2>1 DEF RInv, Calling
  <2>3. Same(recipe.input) /\ Home
    BY <2>2 DEF Same, Home
  <2>4. recipe.step # 0
    BY SMT
  <2>5. fate[aligned] = "exit 0"
    BY <2>3, <2>4 DEF RInv, Aligned
  <2> QED
    BY <2>3, <2>5
<1> QED
  BY <1>1, RecipeInvariant, PTL DEF RecipeSpec, TrainsItsOwnAlignment
=============================================================================
