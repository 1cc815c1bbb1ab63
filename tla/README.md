# Photara Studio in TLA+

This directory specifies the concurrent and crash-prone core of Photara Studio:
how an agent's commands reach the main thread, how jobs start and end, what an
agent's recipe may rely on, how a project is saved while it trains, what the
files on disk look like when a process dies, which results belong together, how
edits are undone, and how training images move through caches and streams. TLC
checks the modules on small instances; TLAPS proves the most important
properties of ten of them for every value of the constants.

    tlc -workers 2 -config MCControlBus.cfg MCControlBus
    tlapm ControlBusProofs.tla

## 1. The system

Photara is a photogrammetry and Gaussian-splatting suite. `photara` is the
command-line driver (align, dense, mesh, texture, train); `photara_studio` is
the editor, which runs every heavy task as a child `photara` process;
`photara-ctl` and an MCP bridge drive the editor over a loopback HTTP service.

| Component | State | Operations | Talks to | What is hard | Module |
|---|---|---|---|---|---|
| Control service (`apps/editor/control`) | two command queues, retry cache, promises, `stopping_`, event ring | submit, pump (main / post-present), resolve, stop | HTTP handler thread ↔ main thread through futures | time-outs against late execution, retries, full queue and cache, shutdown with a waiting handler | `ControlBus` |
| Studio job (`pipeline.cpp`, `app_commands.cpp`) | `ProcessJob` flags, child, log cursor, training preparation, operation ledger | launch, poll, pause, resume, stop, prepare, finish | child, control service, panels | the order of steps inside a frame; exits seen late; two ways to start | `StudioJob` |
| `photara-ctl`, MCP bridge (`apps/ctl`, `tools/photara_mcp`) | recipe state, operation id, session binding | bind, state, start, wait, quality | control service | every call is a process of its own; restarts, lost answers, other users | `AgentRecipe` |
| Project save during training (`app_commands.cpp`, `trainer.cpp`) | control file, reply file, checkpoint, archive, pause flags | request, reply, freeze, cancel, close | editor ↔ trainer through files | stale replies, pause kept over a save, end of training during a save | `SaveHandshake` |
| Training checkpoint (`splat/checkpoint.cpp`) | manifest, model files, lease | save, load, remove, inspect | trainers, editor | kill between two file operations, several writers | `TrainingCheckpoint` |
| Thread pool (`parallel/thread_pool.hpp`) | task queue, threads, a counter per call | parallel_for, submit | everything numeric | claims, exceptions, nesting | `ParallelFor` |
| Model download (`model_download.cpp`) | destination, partial file, receipt, worker, curl | start, cancel, verify, publish, resume | editor, curl | crash or cancel anywhere, an orphaned curl | `ModelDownload` |
| Project archive (`project/archive.cpp`) | directory, replaced and lazily read chunks, file | open, chunk, set, erase, save | driver, editor, loaders | a save while others read, a shared temporary name | `ProjectArchive` |
| Reconstruction driver (`tools/reconstruct.cpp`) | project chunks, working copies, sidecars, checkpoint | the stages of a run and what each stores | archive, trainer | failure or kill between stages, old results beside new cameras | `ReconstructDriver` |
| Studio and its project (`app_commands.cpp`) | models in memory, working copies, dirty flags | start jobs, take results, edit, import, save, open | driver, archive | which of several copies is current, saved, or shown | `StudioProject` |
| Splat editing (`splat_edit.cpp`) | cloud, selection, undo and redo stacks, revisions | strokes, volumes, delete, undo, redo, Simplify | viewport, save | indices against changes that are not recorded; refused uploads | `SplatEdit` |
| Training image caches (`training_data_loader.cpp`) | device, decoded and packed caches, futures, epoch plan, budgets | prefetch, get, collect, rescale | trainer loop, worker threads | eviction during a lookup, results of an earlier resolution | `TrainingCache` |
| Asynchronous uploads (`training_data_loader.cpp`) | staging pool, slot ring, events, two streams | schedule, consume, drain, clear | GPU copy and compute streams | reuse of memory that a stream still reads; failing calls | `UploadRing` |
| Model handoff (`splat/model_handoff.cpp`) | shared-memory segment | publish, open, drop | trainer → viewport | lifetime across processes | – |
| Viewport, preview, panels | GPU state | draw, load | main thread | load generations | partly, as the user's choices |
| SfM, MVS, features, BA, texture, io, SAM, inference | images, poses, points | numeric stages | thread pool, files | numeric | – |

What makes each correct:

- *Control service*: a command is executed at most once per request id; one that
  the client was told nothing about does not start afterwards; commands of a
  kind keep their order; exit never hangs.
- *Studio job*: one heavy task at a time; no child left behind; the recorded
  outcome of an operation is that of its own job.
- *Recipe*: it trains the alignment that it ran itself, of the project it was
  made for, and every step it starts is settled.
- *Project save*: what is archived comes from one checkpoint that is no older
  than the request; the job's pause survives; nobody waits for ever.
- *Checkpoint*: whatever the manifest names can be loaded, at every instant.
- *parallel_for*: every index once, no task outlives the frame it refers to,
  every exception arrives, no deadlock.
- *Download*: a certified file is the model; the cached copy is not given up.
- *Archive*: a loader finds the chunks of the file it opened, and an object its
  own, whatever is being saved; a save publishes exactly the object.
- *Driver and Studio*: results that are stored or shown together were computed
  from each other; a success is stored; nothing is lost without a question.
- *Editing*: undo brings back exactly what was there; a refused deletion leaves
  no trace; unsaved edits are noticed.
- *Training data*: the trainer gets the view it asks for, at the current
  resolution, within the budgets, from memory nobody writes.

`PROJECT.json` lists each component with its sources, and each hazard with its
line and the properties that cover it.

## 2. Modules

| Module | What it is | Checked with |
|---|---|---|
| `ControlBus` | the command path of the control service | `MCControlBus` |
| `RetryWindow` | the abstract promise to a client; refined by `ControlBus` | (same run) |
| `StudioJob` | jobs, training preparation and the operation ledger | through `AgentRecipe` |
| `AgentRecipe` | `StudioJob` composed with an agent's recipe | `MCAgentRecipe` |
| `SaveHandshake` | saving while training | itself |
| `TrainingCheckpoint` | the checkpoint's files | `MCTrainingCheckpoint` |
| `ParallelFor` | the pool and `parallel_for` | `MCParallelFor` |
| `ModelDownload` | the model cache | itself |
| `ProjectArchive` | the `.ascan` file and the objects that read and write it | `MCProjectArchive` |
| `ReconstructDriver` | the stages of a command-line run | through `StudioProject` |
| `StudioProject` | `ReconstructDriver` composed with Studio | `MCStudioProject` |
| `SplatEdit` | editing, undo and redo | `MCSplatEdit` |
| `TrainingCache` | image caches under the trainer's loop | `MCTrainingCache` |
| `UploadRing` | staging memory and streams below `TrainingCache` | itself |
| `TrainingViews` | the constants that these two share | (same runs) |
| `ControlBusProofs` | theorems about `ControlBus`, and that it refines `RetryWindow` | TLAPS |
| `StudioJobProofs` | theorems about `StudioJob` and, as its composition, `AgentRecipe` | TLAPS |
| `StudioProjectProofs` | theorems about `StudioProject` with `ReconstructDriver` | TLAPS |
| `EditAndSaveProofs` | theorems about `ProjectArchive`, `SaveHandshake` and `SplatEdit` | TLAPS |
| `TrainingLoaderProofs` | theorems about `TrainingCache` and `UploadRing` | TLAPS |
| `TrainingCheckpointProofs`, `ParallelForProofs`, `ModelDownloadProofs` | theorems about the module of that name | TLAPS |

Variables and actions carry the names of the code where TLA+ allows it.
Operators named `Fault...` stand before the definition they would break; the
specifications do not use them. They are the seeded faults that show that each
property can fail.

Several modules choose a *session* in `Init` that then never changes (`crew`,
`conf`, `session`, `Uses`): which actors exist or what the user does in this
behaviour. One run then covers several small worlds whose union would be far
too large, and the properties are checked in each.

### ControlBus

A *ticket* is one `std::promise` that `submit` made. `main_queue_`,
`post_present_queue_`, `requests_`, `request_order_` and `stopping_` are the
members of that name; `batch` is the local queue a pump has swapped out; `conn`
is the single connection handler (the server serves one client at a time) and
`pc` the main thread's place in the frame loop. `Submit` is the whole of
`ControlBus::submit`: retry, conflict, shutdown, full queue, eviction, full
cache, admission. `PumpMain`, `Defer`, `Expire`, `Start`, `Finish`, `EndMain`,
`PumpPost`, `EndPost` are the two pumps, one step per critical section;
`StopBus`, `Drain`, `StopServer`, `Join` are the exit. A command that executes
takes two steps (`Start`, `Finish`), so the clock may pass its deadline while
it runs. Time is an integer; the 5 s lifetime in the queue and the 5 s wait of
the handler are `QueueTtl` and `ReplyWait`, and `QueueTtl <= ReplyWait` is the
only thing assumed of them.

### StudioJob

One frame of `main.cpp` is a cycle of `pc`: poll the child, read the log,
finish the job, pump, panels, take up a finished preparation, act on a click,
pump after presentation, sync. The minimised window leaves the frame early, as
the code does. The child (`child`) is separate from what `ProcessJob` believes
of it (`running_`, `exit_code_`, ...). The ledger (`active_operation_`,
`completed_operations_`, ...) is `ControlBus::begin_operation` and
`finish_operation_if_done`. A pump executes at most one command with an effect;
this is `AtMostOneLive` of `ControlBus`, proved there. `owner` and `fate` are
history variables that record whose child ran and how it ended.

### AgentRecipe

`recipe` and `call` are one run of `advance` in `recipes.py` and the
`photara-ctl` process it has started; `Bind` is that process finding a running
Studio. `Pump`, `RunStart` and `RunOther` are the frame steps of `StudioJob` in
which such a call, or another client's, is executed. Around them, the user opens
another project, saves, exports splats, or Studio is restarted with an empty
ledger. The iterations patch appears only as what it does to the project's
`dirty` field, and the verdict of the quality call is a choice.

### SaveHandshake

`request_project_save`, `poll_project_save`, `cancel_project_save` and the close
of the window on one side; `checkpoint_step` and the end of
`run_splat_training` on the other, one step per file operation that the other
side can see. A model is known by its iteration. A save of the checkpoint is
one step here, which `TrainingCheckpoint` justifies: a reader sees the old or
the new checkpoint. The archive is written in one step after the reads that
precede it, except that the checkpoint is opened twice (`PollSave`, `EndSave`).
One training run is modelled, and an agent does not start a job during a save.

### TrainingCheckpoint

Each process (`Procs`: a studio, a CLI) trains, resumes, saves, removes. A save
is write model, stage manifest, publish by rename, unlink the old model; each
is a step at which the process may be killed (the operating system then drops
its lease) and the failing ones have the code's error path. A reader without
the lease reads the manifest and loads the model in two steps.

### ParallelFor

Task `<<c, w>>` is worker `w` of call `c`. `caller`, `width`, `next`, `error`
are the locals of `parallel_for`; `tasks` and `thread` the pool. `Claim` is one
`fetch_add`; an invocation returns, throws, or calls `parallel_for` again, in
the region its thread is in. A call on one thread is a worker 0 that owns every
index from the start. `Nest` fixes which index makes which nested call.

### ModelDownload

Files are inodes with a length in blocks and a quality, named by the
destination, the `.part` file and the receipt. The worker thread goes through
`verified_download_ready`, the transfer, verification, receipt and publication,
one step per file operation; the curl it starts is an actor of its own, which
outlives a Studio that crashes (`OrphanStep`). A partial file that is longer
than the model, a bad block, and a failed rename have the code's paths.

### ProjectArchive

An `Archive` object is `source` and `slots`: per chunk type, a replacement in
memory or an offset in the file. A file is a sequence of cells (directory, then
payloads in the order of their types), and the offset of a chunk the number of
cells that those before it take (`Room`), so a stale offset reads the wrong cells, which the length and
checksum of the directory entry may or may not notice, as in the code. `save` is
begin, one step per chunk copied, publish by rename, refresh of the lazy slots;
it may fail or be killed at each. The temporary name is shared by all processes.
Reading a chunk changes nothing, so it is not an action: `Readable` says whether
`chunk` would open the file, find the cells of the slot and accept their checksum.

### ReconstructDriver and StudioProject

A result (cameras, splats, mesh, texture) is a number and `made[n]` its kind and
ancestry, so that "this mesh fits these cameras" is a fact about numbers.
`ReconstructDriver` is the order of stages of `reconstruct.cpp`, which inputs
each takes from flags, project, working copies or checkpoint, and what it
stores when; each step may fail and the run may be killed. `StudioProject`
adds Studio: it starts the driver with `--gui`, takes up results
(`on_job_finished`), edits, imports, removes, saves and opens. A save may fail to
read a working copy, which it then leaves out (`left`), an opening may fail to
write the texture (`Open`) or stop because the models do not fit (`OpenFails`).

### SplatEdit

A Gaussian is a number and a cloud the sequence of them, standing for the seven
arrays that the code edits in step. The undo stack holds what the code's entries
hold (indices and removed Gaussians, selections, volume poses) and, as a history
variable, what was there (`was`); undo rebuilds the cloud from the indices. The
indices ascend because `Sorted` puts each member of a set at its rank. The volume
changes by a drag, which is recorded, and by the brackets, Alt and the wheel or a
change of the tool, which is not (`AdjustVolume`). An upload may be refused in two
ways, by an exception and by what it returns; each operation deals with them
differently (`DeleteFails`, `FinishSimplify`, `SimplifyFails`, `Marked`).

### TrainingCache and UploadRing

`TrainingCache` is the trainer's loop (`Iterate`, `Call`, `NextScale`,
`Priors`, `Headroom`) around `prefetch`, `get` and `collect` of the loader, with
the caches as sequences in their order of use. Every view has size 1; a budget is
a number of views. The loop that evicts is a recursive function of the number of
entries still to go. An upload is in flight or consumed there. `UploadRing` opens
that up: pinned buffers, ring slots, the copy stream and the compute stream,
events, and the paths on which a CUDA call fails after a transfer was enqueued.

## 3. Runs

| Run | Configuration | Question |
|---|---|---|
| `bus` | `MCControlBus.cfg` | is a command doubled, reordered, or started after it was given up; does exit complete; is `RetryWindow` implemented? |
| `job_outcomes` | `MCAgentRecipe.cfg` | one task at a time, own outcomes, and a recipe that trains its own alignment and is settled? |
| `save_handshake` | `SaveHandshake.cfg` | is a save consistent and current, is the pause kept, is everybody released? |
| `save_finished` | `SaveHandshakeFinished.cfg` | the statement on saving that the code does not keep (section 6) |
| `checkpoint_files` | `MCTrainingCheckpoint.cfg` | is the checkpoint loadable at every instant, and how much is left behind? |
| `parallel_for` | `MCParallelFor.cfg` | every index once, exceptions, nesting, termination? |
| `model_download` | `ModelDownload.cfg` | is only verified content certified, is the cached model kept, do downloads end? |
| `project_archive` | `MCProjectArchive.cfg` | does a loader find its file's chunks, an object its own, and are saves exact? |
| `studio_project` | `MCStudioProject.cfg` | do stored and shown results belong together, and is anything lost unasked? |
| `splat_edit` | `MCSplatEdit.cfg` | do undo and redo restore, refused deletions and failed runs of Simplify vanish, unsaved edits show? |
| `training_cache` | `MCTrainingCache.cfg` | is what is served what was asked, current and within the budgets? |
| `upload_ring` | `UploadRing.cfg` | does an entry get its own view, is staging memory never reused early? |

Bounds, and why they are enough:

- *bus*: `QueueCap` 2 and `CacheCap` 1 instead of 256 and 1024, so that both are
  reached; three submissions over two keys and an anonymous one suffice for a
  retry, a conflict and an eviction beside a command in flight; the clock runs
  to 2, twice the deadline.
- *job_outcomes*: at most three operations, two in most casts: an align and a
  train of the recipe and one of somebody else. One retained outcome, so that
  older ones are forgotten. Six casts: the recipe alone on a project with and
  without unsaved changes, beside the window, beside another agent, with splat
  exports, with a restart or another project, with a lost answer.
- *save*: two iterations and two requests: a stale reply needs a second request,
  and a save at the end of training needs one iteration before the last.
- *checkpoint*: two symmetric processes, three model files, two faults: a kill,
  then the resume by the other process, then a second kill.
- *parallel_for*: three calls, one of them nested, three indices in grains of two
  (a full and a cut chunk), one pool thread beside two callers: a nested call
  that waited for the pool would find it occupied by its own thread.
- *model_download*: one Studio, a model of two blocks (an empty, partial,
  complete and too long file), two crashes and two faults; five inodes:
  destination, partial file, receipt, the file of an orphaned curl and a new one,
  so that a transfer always finds one. Two Studios at once keep neither
  `CacheKept` nor `ReadyIsVerified` (section 6).
- *project_archive*: a writer and a reader on two names, and two writers on one;
  chunks of one and two cells, so that a changed size moves what follows; three
  saves and one fault: the second save reads what the first refreshed, and the
  third may fail while a loader holds the second.
- *studio_project*: four sessions: command lines with every combination of
  flags but `--splat-mesh-only` (section 6); jobs, edits and saves in Studio (four
  uses); edits, imports and trainings (five uses): a save between the end of a
  training and the loading of its model needs an edit before it. Each of these
  starts without a project, with a complete one, and with one whose training was
  interrupted. The fourth opens the interrupted one and has seven uses: open, edit,
  resume, save, import and two removals are what it takes to give up saved edits
  with an imported model (section 6, 18). Nine results are two full runs; one
  failure at any step of a run, a save or an opening, or a kill.
- *splat_edit*: clouds of three and two Gaussians, an undo limit of 3 instead of
  12 so that the stack overflows within five operations; two runs of Simplify,
  because the second is not recorded (section 6).
- *training_cache*: three views, so that one is wanted, one cached and one
  evicted; a device cache of one growing to three, a training with neighbours and
  without a device cache, and one with both; two resolutions, two rare events.
- *upload_ring*: three views contend for two slots and three buffers, at most two
  uploads pending.

`CHECK_DEADLOCK FALSE` appears where the system really stops: in
`MCParallelFor.cfg` when every call has ended (`CallsEnd` says that it stops
nowhere else), and in `MCProjectArchive.cfg`, `MCSplatEdit.cfg` and
`MCStudioProject.cfg` when the user has used up the bounded number of saves,
edits or operations. The other models stutter explicitly when the program has
exited (`Terminated`, `Closed`) or never stop.

## 4. Fairness

- The main thread is weakly fair: the frame loop polls and never blocks on the
  models' other actors (except in `Join`, which is guarded).
- The connection handler reads under a 5 s socket time-out and answers a ready
  future; waiting for a *new* connection is not fair.
- The trainer and the child are scheduled while they are not suspended; a child
  that is not suspended ends; the preparation thread ends. That training
  terminates is assumed: it counts iterations.
- The host goes on calling `advance`, and the processes it starts run.
- Pool threads run, and every invocation returns or throws.
- The download worker runs and curl ends: it is started with `--connect-timeout`,
  `--speed-limit` and `--speed-time`.
- Nothing is assumed of the user, of other agents, of kills or of failures. The
  modules about files, results, edits and training data have safety properties
  only and state no fairness.

Liveness properties name their exceptions where the code really waits for
somebody: a suspended job, a minimised window with a finished preparation, an
agent that pauses the job during a save, an outcome recorded during a splat
export (section 6).

## 5. What is proved

The proof modules follow one plan: an inductive invariant `IInv` of named parts,
`Init => IInv`, `IInv /\ [Next]_vars => IInv'` with a lemma per action (or per
part), and the theorems as consequences. Where one module speaks of several
components the names carry the component (`RingInv`, `ArchiveInv`, `EditInv`). No
bound of the runs is assumed: queues, processes, operations, views, slots, files,
models, histories, indices and nestings are arbitrary.

**ControlBus** (`ControlBusAssumption`: capacities at least 1,
`QueueTtl <= ReplyWait`). `TypeCorrect`; `InFlightStaysCached`, which rests on
the eviction loop stopping at the first unsettled entry and on a key being queued
only when it has no entry; `AbandonedCommandsAreDead` and
`AbandonedCommandsNeverStart`, which need that a ticket's deadline is not after
the end of the wait on it; `OneLiveCommand`, which needs that every unsettled
queued ticket but the one waited for has been abandoned.

The second half of the module adds where promises are held.
`InOrder`: each queue and the pump's batch are in the order of submission, a
batch lies before its queue, and what was deferred lies before both.
`PlaceOfKind`: which of them may be non-empty where in the frame, and that
nothing is queued after `stop()`. `HeldWaits`: what is held has not begun, but
for the head of the batch. `UnsettledIsHeld`: nothing is lost on the way. From it
`KindsStayInOrder`. With `CacheOrdered` (`request_order_` lists the keys of
`requests_`, each once, within the capacity) every step of the bus is a step of
`RetryWindow` or leaves its variables alone: `ImplementsPromise`, the safety half
of `ImplementsRetryWindow`. A bus that queued a promise twice, began one after
`stop()` refused it, or evicted a key in flight would have a step that is neither.

**StudioJob** (any number of operations and retained outcomes).
`TypeCorrect`, `OneHeavyTask`, `OutcomesAreOwn`. `OneTask` is kept by every step
together with `Flags` (what `running_`, `paused_`, `completion_pending_` and
`exit_code_` may be of each other). Outcomes need more: `Owned` (whose child
runs or has just ended, and that its fate is not yet decided), `Fresh` (nothing
is known of operations not begun), `Marked` (a stopped operation carries its
cancellation until it is recorded or replaced) and `Settled`: where in the
frame an operation whose child has ended may still be active, with `exit_code_`
still that of its own child. That last part is the core: without it the exit
code of the next job could be taken for this one's.

**AgentRecipe** (any casts). `RInv` adds to `IInv` what the recipe knows. It is
relative to the session: `Home` says that Studio has not been restarted since
the recipe was made. At home, what the recipe waits for was begun in this
session, an alignment with a child of its own (`Waiting`), and the alignment it
has seen succeed ended with 0 (`Aligned`); `Calling` keeps what the state call
of this advance has checked. Every step of the composition is a step of
`StudioJob` or a restart, and a restart re-establishes `Init`'s part of `IInv`.
From it follow `OneHeavyTaskInAll`, `OutcomesAreOwnInAll` and
`RecipeTrainsItsOwn`.

**TrainingCheckpoint** (any processes, saves and faults). `Fresh` (numbers not
used yet name no file), `Published` (the manifest names a complete model),
`Holds` (what a process at each step of its save or load has written and knows,
if it holds the lease) and `Reader`. From it `CheckpointSurvives` and
`ResumeSucceeds`. `LeaksAreCounted` is by counting: the files that are neither
published nor in use grow by at most one in a step, and only in a step that
raises the bound, which needs cardinality facts beside the invariant.

**ParallelFor** (`ParallelForAssumption`: at least one index, grain and worker;
any nesting). `Queue`: a task is queued once. `Placed`: how far a task is,
against its call (in particular, none is alive when the call has ended).
`Chunks`: chunks lie below the counter and are disjoint. `Invocations`: an index
in a chunk has not been invoked unless its task is at it. `Covered`: without an
exception a claimed index is invoked or in a chunk, and a worker left only when
the counter had passed the count. `Outcome`: the stored error and the raised
exceptions agree. `AtMostOnce` alone is not inductive: it takes disjointness to
keep it, and the bound by the counter to keep disjointness. From it follow
`TypeCorrect`, `IndicesInvokedOnce`, `ReturnedCallsAreComplete`,
`FrameOutlivesTasks` and `ExceptionsArrive`.

**UploadRing** (any views, slots and buffers). `Owns`: the pool, the pending
uploads and the failed one share no buffer and no slot. `Belongs`: a transfer in
flight is a pending upload's or the failed one. `Arrives`: a pending upload whose
transfer is over has its view in its slot. `Hopping`: a slot that is read holds
the view and is not handed out as a target. From it (`RingInv`)
`EntriesGetTheirView` and `BuffersStayQuiet`, also on the paths on which a CUDA call
fails.

**TrainingCache** (`TrainingCacheAssumption`: finitely many views, at least one; a
device budget within its ceiling, a decoded budget within the host's).
`LoopTypes`, `HostInv` and `DeviceInv` say that every image in a list, in flight or
in a background task is `Current`, that is of the resolution of now, and that each
list keeps its budget (one decoded image is always kept); the device list keeps it
*together with* the uploads in flight, since those join it without a further eviction. `Places` is what
serving the right view needs: where the trainer's loop stands against the plan of the
epoch, so that what `get` asks for is what the plan needs next, and the feedback
that evicts during a hit takes it last. The loop that evicts is a recursive function, and what it
leaves is proved by induction: a set of numbers that has 0 and with each member the
next is `Nat` (`SetInduction`), from which follow that the iterates of a function
exist (`Iterates`) and that the loop ends within the budget. `CurrentImages`,
`BudgetsKept` and `RightViewServed` follow, the last with the exception that
section 6 describes.

**ProjectArchive** (`ProjectArchiveAssumption`: chunk types are numbers, finitely
many of them and of writers). The invariant has two layers. `FilesInv` holds for every crew: an object
that holds a lazy chunk has a file, a file being written is not one that has a name
already (`Distinct`), and an object that saves is a writer. The second layer is for
one writer. `SavesProgress` says
what a save under way has written: the temporary file is still its own, begins with
its directory, and holds every chunk copied so far at the offset announced, those to
come being of higher types. A copied chunk does not overwrite another because the
offsets are cardinalities of disjoint sets of cells. `FilesIntact` (every named file is a
complete container) and `OwnRead` (a lazy chunk is where its object looks for it) are
kept through kills, failed saves and saves under another name, and give
`LoadersFindChunks` (a loader opens the file anew for each chunk, and finds it until
a save has put another container there), `OwnChunksKept` and, for every step,
`SavesPublish`.

**SplatEdit** (`SplatEditAssumption`: models have at least one Gaussian, the undo
limit is at least 1; any models and sessions). `Spliced` is the heart: for every
cloud and selection, splicing what `take_strided` took into what `keep_strided` kept
gives the cloud again. It rests on ranks: the number of members below `i` of a set
and of its complement add up to `i - 1` (`Complement`), and a set's members have
the ranks from 0 on, each once (`Enumerated`). An undo and a redo stack are
two chains (`Chain`): each step, applied where the step above it led, leads to the
Gaussians that its history variable recorded (`LeadsTo`); a deletion knows both directions, because
redo erases what undo put back. `Recorded` says so of both stacks and the
model on display; a push may drop the oldest step, undo and redo move one across
(`Travels`). It holds until a second run of Simplify replaces the model without a
step, so `HistoryRestores` is stated until then. The volume is in no chain, because
it also changes without a step (section 6, 24): undo of a drag brings it back to
where that drag began, other steps leave it. A Simplify whose upload throws clears
the selection without a step; undo of a deletion therefore promises the selection
that was taken out, which may differ from the one shown before a redo: TLC needs six
operations to find the difference. `Noticed` relates the revision of the last save to
that of the editor. From these `HistoryKept`, `RefusedEditsVanish`,
`UnsavedNoticed`, and with the length of the stacks `EditTyped`: undo and redo
together never hold more than the limit.

**SaveHandshake** (`SaveHandshakeAssumption`; any iterations and requests).
`ArchiveConsistent` says that two readings of the checkpoint found the same one,
so the invariant must say that nobody writes in between. `Answered` does: if the
pending request has its answer, the trainer stands frozen at that very request,
or is dead. `Pending` (the control file asks for what the editor waits for),
`Trainer` (a trainer that has answered has just stored its iteration) and
`Writing` (what the editor has read so far against what is there) carry it through
cancels, late replies and the end of the job; `Saved` compares a reported success
with the iteration at the request, and `Paused` what the user last wanted with
what the editor remembers. From it `TypeCorrect`, `ArchiveIsConsistent`,
`AcknowledgedSavesAreCurrent` and `PauseSurvivesSave`.

**ModelDownload** (any model size, bounds and inodes, at least four more than
processes, so that a transfer finds an unused one; `Alone`: one Studio at a
time, section 6). A curl that has lost its Studio goes on writing, so the invariant
cannot say that a hashed file stays what it was: `Hashed` says that it was the
model and may have *grown* since (`Sound`). `Certified` says the same of the inode
the receipt names, and that its content is right as long as its length is. `Open`
ties each curl to a file, `Replacing` says that a download never passes the first
check with a complete destination. From it `AloneReadyIsVerified` and, for every
step, `AloneCacheIsKept`.

**StudioProject** (any commands, sessions, earlier results, projects and bounds).
A run loads the project's chunks once, works on its copy and saves it several
times; the properties are about file and results. `Running` therefore says, for
every place of a run, which of its results exist (`RunHas`), that its cameras are
those of its chunks (`RunCameras`), and which of its results the file has by then
(`RunStored`). It is kept by each of the seventeen steps of a run and gives
`SuccessStores`. On top of it `Fitting` (every stage of the copy and of the file,
and every result in hand, comes from the one alignment beside it) gives
`StagesFitCameras`; its hypotheses are that earlier projects fit, too, and that no
command line asks for a mesh from a model file (section 6). `Progressed` pairs
progress and Gaussians through the same steps and through the saves of Studio:
`ProgressMatches`. For a Studio the invariant is small (`Owner`: its runs do
not write the project), and `ShownModelIsSaved` follows from what a save does; it
excepts a save that could not read its model file (section 6, 20).
`ProgressMatchesModel` speaks of projects that still have Gaussians: a new
alignment drops them and leaves the record of their training
(`project/document.cpp:727`), which the readers ignore without Gaussians
(`checkpoint.cpp:213`, 231).

`NothingIsLost` needs what Studio holds at every moment. That Studio does not ask
says that nothing has changed since a save or an opening (`Clean`), so `Kept` is
stated for exactly those states, without those after a save or an opening that
was incomplete (`st.partial`; section 6, 12 and 20): the project has the working
copies, a model at least as new as the one shown, and the progress or a model that
came after it. The
last of these is what saves lean on: they store the progress only when no model
was handed over, so `Later` says that a checkpoint is older than the model of its
own training wherever that model is (in the run, being loaded, loaded), and
`Training` that only a training leaves one, after dropping the model before.
`OneSource` (cameras that Studio imported into a project are known by their file)
justifies the test that keeps them.

Imported models make this hard, because Studio compares the list with the one it
saved by file, name and placement: a list that was changed and changed back is not
asked about, and neither what it holds nor what is shown below it need be what was
saved. `Listing` relates a list to its names: a name that is not the model's own
stands for edits, and for nothing else. It holds of the models in memory and, as
long as Studio does not ask, of the project's models under the names in memory;
that gives `SameModels`. What is shown over a list is its first model, which
`Embedded` bounds for every project that has the same models. Over an empty list
it is the working copy or the project's Gaussians: there `Plain` says that a save
without edits had covered the working copy and the checkpoint below, which `Newest`
supports (until a trained model is loaded it is newer than the working copy, the
edits and the first model listed before it). After a save *with* edits nothing of
the kind holds, and TLC found that the property did not either: it now excepts that
case, and edits listed under the name of a saved model (section 6, 18 and 19).
`Readable` carries all this through an opening: a project that can be opened has
settings that fit its models. Imports and removals share one lemma, `GivenUp`.
`Tended` is the whole, and every step of Studio and of its jobs keeps it. The
hypothesis `EarlierModels` asks of the projects that exist before the session what
`Tended` says of those it leaves.

Only model-checked: the liveness properties (`ShutdownCompletes`, `StepSettles`,
`SaveEnds`, `FrozenIsReleased`, `CallsEnd`, `DownloadEnds`) and the fairness half of
`ImplementsRetryWindow`, because TLAPS does not reason about fairness and `ENABLED`.
Every other property of a passing run is a theorem.

Induction is available only over sets that can be written down: the induction
theorems of the library take an operator as a parameter, which no installed prover
instantiates. The proofs above state the set (of numbers for which a claim holds, of
lengths that a loop reaches) or count with cardinalities instead.

## 6. Where the code and its documents disagree

A run shows the first of these; the others were met while modelling and are
described so that the properties above, which state what does hold, are read
rightly. Files are under `src/apps/editor` unless a path is given.

*Saving*

1. `save_finished` (run). A second save of a run that is pending when the
   training finishes stores the progress of the first save, not the final model,
   and reports success (`app_commands.cpp:933`); with *Exit after saving* the
   final model is deleted with the session cache. `FinishedTrainingIsSaved` speaks of
   the step that ends a save: one that ends with success after the training has
   stored its final model has that model. In the trace that TLC finds the first save
   is answered at iteration 1 and ends; the training runs to its end, removes the
   checkpoint and exits; the second save, requested before the editor has reaped the
   job, ends with "saved" and the model of iteration 1 in the archive.

*Operations* (`docs/AGENT_CONTROL.md:14-15`)

2. An operation whose training preparation fails or is cancelled launches no
   child, and `finish_operation_if_done` (`control/control_bus.cpp:211`) judges
   it by the exit code of the job before. A recipe whose preparation fails after
   a good alignment therefore ends as *succeeded*.
3. `begin_operation` (`control/control_bus.cpp:170`) overwrites the active
   operation: a job that ends after the first sync of a frame and a start in the
   second pump of that frame lose the first operation from the history.
4. The driver returns 2 when a reconstruction fails (`tools/reconstruct.cpp:5025`
   of `photara`); the editor takes 2 for a cancellation (`pipeline.cpp:1069`).
5. A recorded outcome keeps `splat_export.running` (`control/control_bus.cpp:209`,
   `control_state.cpp:400`), so `job wait --op` (`photara_ctl.cpp:724`) for an
   operation that ended during a splat export never ends. `StepSettles` excepts it.

*Recipes* (`src/tools/photara_mcp`)

6. `recipes.py:36` compares the whole `project` record, with `dirty`
   (`control_state.cpp:1172`), which a running job and the iterations patch set:
   on a project without unsaved changes the recipe fails as "input changed" at
   the first advance that finds its own alignment running, although the README
   says that plans run align, then train.
7. Session and project are checked once per advance; the `photara-ctl` processes
   that follow look for a Studio anew, so a restart in between goes unnoticed
   unless the process is pinned (`PHOTARA_STUDIO_PID`), although
   `docs/AGENT_CONTROL.md:1002` asks the bridge to detect it.
   `TrainsItsOwnAlignment` is therefore stated for an unchanged session and
   project since that check.
8. An advance may observe one stage and start the next, although `recipes.py:3`
   says "starts or observes at most one job"; and `client.py:18` makes a new
   request id for each call, so a lost answer to a start lets the next advance
   start the stage again.

*Model cache*

9. Two Studios that download the same model can lose the cached copy: both
   remove the destination and rename the one partial file
   (`model_download.cpp:343`). A receipt may even certify what was never hashed: one
   Studio hashes the partial file, the other starts it anew before the rename. For one Studio the tests check that a failed
   download keeps it (`tests/model_download_test.cpp:105` of `photara`).

*Training images* (`training_data_loader.cpp`)

10. On a hit in the device cache `get` moves the entry to the front and then lets
    the budget feedback evict entries before it returns the front; the comment at
    1268 takes the entry at the front for safe. The victim is chosen by the epoch
    plan, not by the order, so a neighbour that the plan needs last is evicted and
    the image of another view is returned (1273). A change of resolution right
    after the first step of an epoch makes this possible for the step's own view:
    the views are shuffled anew (`trainer.cpp:1917`), but the cursor was 0 before
    too, so `set_epoch_plan` keeps the positions of the old order (1450, against
    the comment at 1447). It needs a cache that shrinks in the very window of such
    a hit, and steps that ask for neighbours; `ServedIsAsked` excepts exactly this.

*Results* (`reconstruct.cpp`, `app_commands.cpp`)

11. `--splat-mesh-only` takes a model file beside the project before the project's
    own model (`reconstruct.cpp:2480`), also one of an earlier alignment, although
    a new SfM stage drops the stages that depended on the old one
    (`document.hpp:197`). A new training from the command line leaves the mesh and
    texture of the model before; `--dense --mesh` with internal SfM leaves its mesh
    beside the project only (`docs/PIPELINE.md:136`), which `SuccessIsStored` excepts.
12. A run of the command line writes settings without the list of imported models
    (`reconstruct.cpp:2684`) but keeps their sources; so does a save of Studio
    after a training beside imported models (`app_commands.cpp:941`). Studio then
    refuses to open the project: "source count does not match" (3229), after it has
   given up what was open; a save then keeps the project's Gaussians but not the
   models, because the list is empty (`OpenFails`). A save of
    training progress stores no imported models either (1007), yet Studio counts
    them as saved (882); `NothingLostUnasked` says nothing of the list beside
    progress.
13. Before a new alignment is saved, a job of Studio takes the project's older
    cameras (`reconstruct.cpp:4872`, against "from aligned cameras",
    `app_commands.cpp:4686`). Studio keeps the working splats, mesh and texture of
    the alignment before, and the next save stores them beside the new cameras.
14. A save after any other job drops the training progress that only the project
    file holds (`app_commands.cpp:933`, 1059).
15. *Extract Mesh* starts a training when the model is in the viewport but not in
    a file (4593), although its tooltip says that training is not started again
    (`ui_inspector.cpp:1450`).
16. A save between the end of a training and the loading of its model stores the
    edits of the model before, also into the working copy that the trainer has
    just written (`app_commands.cpp:972`, 986), and counts as a save of everything
    (882). The trained model is then loaded, shown and not asked about when Studio
    closes. `NothingLostUnasked` excepts these saves (`st.early`).
17. *Delete Generated Results* leaves the working cameras if their folder is
    neither in the project, in the configured cache nor in the temporary folder
    (3587), the case that the comment at 3574 warns of.

18. Edits take the place of training progress in a save of a stopped training
    (937). If a model is then imported and all models are removed, the edits are
    given up (1904) and the list is the saved one again: Studio does not ask (862),
    and neither the progress nor the model that the working copy holds is in the
    project. `NothingLostUnasked` excepts these states (`st.rev`).

19. The import of a model over edits lists the edits under the file and name of the
    model that was first (1855). If that is a saved name and the imported model is
    removed again, the list is the saved one by name (434, 869) while its model is
    the later edits: Studio does not ask. `NothingLostUnasked` excepts such a list
    (`SameModels`, `Listed = file.srcs`).

20. A save that cannot read the model, mesh or texture of the working folder swallows
    the error (1004, 1033, 1055), keeps what the project has of it and reports
    success; Studio then counts it as saved (882). `NothingLostUnasked` and
    `SaveStoresShownModel` except such a save (`st.partial`).

*Editing* (`splat_edit.cpp`)

21. Undo of a deletion does not make a new revision (1230, unlike 1243), and the
    editor that a reload swaps in counts revisions from its own start
    (`app_commands.cpp:5055` against 868): a change after a save may not be noticed
    as unsaved. `UnsavedIsSeen` is stated for models in memory and without undo.
22. Only the first Simplify of a model is recorded for undo (`app_commands.cpp:2379`),
    and the baseline it starts from is not renewed when another model is opened
    (2276), although the tooltip promises that undo restores the previous model
    (`ui_inspector.cpp:1068`).
23. The renderer refuses an upload by an exception or by returning false
    (`splat_render/src/renderer.cpp:563`, 660). `delete_selected` handles both (1511,
    1523); `replace_from_model` only the first (1465): after a refusal it keeps the
    new Gaussians, marks them as edited, pushes undo and reports success, and the
    view shows something else. `FailedEditIsUndone` therefore promises nothing of a
    Simplify whose result is refused that way. Undo and redo do not look at the result
    either, and an upload that throws there (1241, 1272, 1282) leaves changed
    Gaussians and stacks without a new revision; an agent's undo goes on after it
    (`control/control_commands.cpp:221`). `UnsavedIsSeen` is stated without undo.
24. Box and sphere also change without a step for undo: by the brackets (1783), by
    Alt and the wheel (1812), and by a change of the tool, which places the volume or
    adopts its kind (1618). Undo of an earlier drag goes back to before the drag and
    undo of anything else leaves the volume, so `HistoryRestores` promises the volume
    only to the undo of a drag.

## 7. What is abstracted and what is not modelled

Abstracted inside the modules, beside what section 2 names:

- *AgentRecipe*: one recipe; operations of others are bounded per cast.
- *ModelDownload*: the receipt's time stamp is inode and length.
- *StudioProject*: dense cloud, masks, videos, settings other than the list of
  models, `--mask-mesh`, `--mvs-mesh-only`, mesh import, new projects and external
  datasets in Studio; listed models are visible and where they were imported, and
  the first stands for their composition; a session is either command lines or
  Studio, not both at once. A project file can be read; a save either stores
  everything else or fails as a whole, before it has written a model file back.
- *SplatEdit*: the move tool (no button selects it), lists of managed models and
  placements; a merged Gaussian is known by one part; nothing is edited while a
  reload is pending.
- *TrainingCache*: the Vulkan path and the moving average of times (the choices
  they drive are free); the order of `unordered_map` is arbitrary; a budget is at
  least one view.
- *UploadRing*: a failing event record and sticky device errors; operations in
  flight are a set, because nothing relies on the order of a stream; a slot that
  cannot grow is passed over.

Not modelled: rendering and GPU kernels, the numeric pipeline, neural inference,
encodings and formats, HTTP parsing and authorisation, layout and translation.
They hold no protocol between actors, or their data is beyond enumeration, and
they are by far the larger part of the code. Power loss, the death of the editor
during a save, reuse of process numbers and failure of allocation are
environment events left out. Two listed hazards have no property: the event ring
drops old events without telling the client, and a manifest may be empty after a
power loss; `PROJECT.json` says why.

## 8. Plan

Done: the command path, jobs, recipes, saves, checkpoints, the pool, downloads,
the archive, the driver with Studio, editing, caches and uploads. Next:

1. Abstract specifications: a loadable register for `TrainingCheckpoint`, a
   cache of views for `TrainingCache` over `UploadRing`.
2. `EditorFrame`: `StudioJob` and `SaveHandshake` composed, so that an agent may
   stop and start a job in one frame with a save pending, over several runs.
3. `ModelHandoff`: publication and adoption of the final model, with the load
   generations of the viewport.
4. `SfmCheckpoint` (staged checkpoints) and the request queue of the SAM worker.
