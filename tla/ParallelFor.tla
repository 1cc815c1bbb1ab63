---------------------------- MODULE ParallelFor ----------------------------
(***************************************************************************)
(* The thread pool and parallel_for (photara/include/parallel/             *)
(* thread_pool.hpp), on which reconstruction and training run: calls of    *)
(* parallel_for share the pool, claim chunks of their indices with an      *)
(* atomic counter, and may be made again from within an invocation.        *)
(*                                                                         *)
(* Task <<c, w>> is worker w of call c; worker 0 runs on the caller.  A    *)
(* call on one thread is a worker 0 that owns every index from the start.  *)
(* Allocation failure and the destruction of the pool are not modelled.    *)
(* Operators named Fault... are seeded faults that the specification does  *)
(* not use.                                                                *)
(***************************************************************************)
EXTENDS Integers, Sequences, FiniteSets

CONSTANTS
    Calls,      \* calls of parallel_for
    NoCall,
    Nest,       \* the call that an invocation makes, or NoCall
    Count,      \* indices of a call
    Grain,      \* indices claimed at once
    Threads,    \* threads of the pool
    NoTask,
    MaxWorkers  \* hardware_threads

Indices == 0..(Count - 1)
Tasks == Calls \X (0..(MaxWorkers - 1))

ASSUME ParallelForAssumption ==
    /\ NoCall \notin Calls /\ NoTask \notin Tasks
    /\ Count \in Nat \ {0} /\ Grain \in Nat \ {0} /\ MaxWorkers \in Nat \ {0}
    /\ Cardinality(Threads) = MaxWorkers - 1
    /\ Nest \in [Calls \X Indices -> Calls \cup {NoCall}]

VARIABLES
    caller,     \* where each call stands
    width,      \* its thread_count
    region,     \* it was made in a parallel region
    next,       \* its counter
    error,      \* it has stored an exception
    ws,         \* where each task stands
    chunk,      \* claimed indices whose invocation has not ended
    tasks,      \* queue of the pool
    thread,     \* the task each thread of the pool runs, or NoTask
    times,      \* history: invocations of every index
    raised      \* history: calls with an invocation that raised

calls == <<caller, width, region>>
pool == <<tasks, thread>>
vars == <<calls, next, error, ws, chunk, pool, times, raised>>

-----------------------------------------------------------------------------
Ended == {"returned", "threw"}
Running == {"loop", "nested", "raised"}

TypeOK ==
    /\ caller \in [Calls -> {"idle", "submit", "work"} \cup Ended]
    /\ width \in [Calls -> 1..MaxWorkers]
    /\ region \in [Calls -> BOOLEAN]
    /\ next \in [Calls -> Nat]
    /\ error \in [Calls -> BOOLEAN]
    /\ ws \in [Tasks -> {"new", "queued", "done"} \cup Running]
    /\ chunk \in [Tasks -> SUBSET Indices]
    /\ tasks \in Seq(Tasks)
    /\ thread \in [Threads -> Tasks \cup {NoTask}]
    /\ times \in [Calls -> [Indices -> Nat]]
    /\ raised \in SUBSET Calls

Init ==
    /\ caller = [c \in Calls |-> "idle"]
    /\ width = [c \in Calls |-> 1]
    /\ region = [c \in Calls |-> FALSE]
    /\ next = [c \in Calls |-> 0]
    /\ error = [c \in Calls |-> FALSE]
    /\ ws = [t \in Tasks |-> "new"]
    /\ chunk = [t \in Tasks |-> {}]
    /\ tasks = <<>>
    /\ thread = [th \in Threads |-> NoTask]
    /\ times = [c \in Calls |-> [i \in Indices |-> 0]]
    /\ raised = {}

Nested(c) == \E place \in Calls \X Indices : Nest[place] = c

-----------------------------------------------------------------------------
\* resolve_thread_count, bounded by the pool, the caller and the indices; the
\* caller asks for any number of threads.
FaultIgnoreRegion(inRegion) == 1..MaxWorkers
ThreadCount(inRegion) == IF inRegion THEN {1} ELSE {n \in 1..MaxWorkers : n <= Count}

\* parallel_for begins.
Enter(c, inRegion) ==
    /\ caller[c] = "idle"
    /\ caller' = [caller EXCEPT ![c] = "submit"]
    /\ region' = [region EXCEPT ![c] = inRegion]
    /\ \E n \in ThreadCount(inRegion) : width' = [width EXCEPT ![c] = n]

Call(c) ==
    /\ ~Nested(c)
    /\ Enter(c, FALSE)
    /\ UNCHANGED <<next, error, ws, chunk, pool, times, raised>>

\* ThreadPool::submit for the next worker.
Submit(c, w) ==
    /\ caller[c] = "submit"
    /\ w \in 1..(width[c] - 1)
    /\ ws[<<c, w>>] = "new" /\ \A v \in 1..(w - 1) : ws[<<c, v>>] # "new"
    /\ ws' = [ws EXCEPT ![<<c, w>>] = "queued"]
    /\ tasks' = Append(tasks, <<c, w>>)
    /\ UNCHANGED <<calls, next, error, chunk, thread, times, raised>>

\* worker(0), or the plain loop of a call on one thread.
WorkAlone(c) ==
    /\ caller[c] = "submit"
    /\ \A w \in 1..(width[c] - 1) : ws[<<c, w>>] # "new"
    /\ caller' = [caller EXCEPT ![c] = "work"]
    /\ ws' = [ws EXCEPT ![<<c, 0>>] = "loop"]
    /\ IF width[c] = 1
       THEN /\ chunk' = [chunk EXCEPT ![<<c, 0>>] = Indices]
            /\ next' = [next EXCEPT ![c] = Count]
       ELSE UNCHANGED <<chunk, next>>
    /\ UNCHANGED <<width, region, error, pool, times, raised>>

\* A thread of the pool takes the oldest task.
Take(th) ==
    /\ thread[th] = NoTask /\ tasks # <<>>
    /\ thread' = [thread EXCEPT ![th] = Head(tasks)]
    /\ tasks' = Tail(tasks)
    /\ ws' = [ws EXCEPT ![Head(tasks)] = "loop"]
    /\ UNCHANGED <<calls, next, error, chunk, times, raised>>

\* The indices of a claim that starts at begin.
Chunk(begin) == {i \in Indices : begin <= i /\ i < begin + Grain}

\* The task returns to its thread.
Leave(t) ==
    /\ ws' = [ws EXCEPT ![t] = "done"]
    /\ thread' = [th \in Threads |-> IF thread[th] = t THEN NoTask ELSE thread[th]]

\* next.fetch_add(grain).
FaultAddOne(t) ==
    LET c == t[1]
    IN  /\ ws[t] = "loop" /\ chunk[t] = {}
        /\ next' = [next EXCEPT ![c] = @ + 1]
        /\ IF next[c] >= Count
           THEN Leave(t) /\ UNCHANGED chunk
           ELSE chunk' = [chunk EXCEPT ![t] = Chunk(next[c])] /\ UNCHANGED <<ws, thread>>
        /\ UNCHANGED <<calls, error, tasks, times, raised>>
Claim(t) ==
    LET c == t[1]
    IN  /\ ws[t] = "loop" /\ chunk[t] = {}
        /\ next' = [next EXCEPT ![c] = @ + Grain]
        /\ IF next[c] >= Count
           THEN Leave(t) /\ UNCHANGED chunk
           ELSE chunk' = [chunk EXCEPT ![t] = Chunk(next[c])] /\ UNCHANGED <<ws, thread>>
        /\ UNCHANGED <<calls, error, tasks, times, raised>>

\* The index whose invocation is next or under way.
At(t, i) == i \in chunk[t] /\ \A j \in chunk[t] : i <= j

Invoke(t, i) ==
    /\ ws[t] = "loop" /\ At(t, i)
    /\ times' = [times EXCEPT ![t[1]][i] = @ + 1]

\* The invocation returns.
Invoked(t) ==
    /\ \E i \in Indices :
          /\ Invoke(t, i) /\ Nest[<<t[1], i>>] = NoCall
          /\ chunk' = [chunk EXCEPT ![t] = @ \ {i}]
    /\ UNCHANGED <<calls, next, error, ws, pool, raised>>

\* It throws.
Raise(t) ==
    /\ \E i \in Indices : Invoke(t, i) /\ Nest[<<t[1], i>>] = NoCall
    /\ ws' = [ws EXCEPT ![t] = "raised"]
    /\ raised' = raised \cup {t[1]}
    /\ UNCHANGED <<calls, next, error, chunk, pool>>

\* It calls parallel_for, in the region that the thread is in.
InvokeNested(t) ==
    /\ \E i \in Indices :
          /\ Invoke(t, i) /\ Nest[<<t[1], i>>] \in Calls
          /\ Enter(Nest[<<t[1], i>>], region[t[1]] \/ width[t[1]] > 1)
    /\ ws' = [ws EXCEPT ![t] = "nested"]
    /\ UNCHANGED <<next, error, chunk, pool, raised>>

\* That call returns to the invocation, or throws into it.
Return(t) ==
    /\ ws[t] = "nested"
    /\ \E i \in Indices, inner \in Calls :
          /\ At(t, i) /\ inner = Nest[<<t[1], i>>]
          /\ \/ /\ caller[inner] = "returned"
                /\ ws' = [ws EXCEPT ![t] = "loop"]
                /\ chunk' = [chunk EXCEPT ![t] = @ \ {i}]
                /\ UNCHANGED raised
             \/ /\ caller[inner] = "threw"
                /\ ws' = [ws EXCEPT ![t] = "raised"]
                /\ raised' = raised \cup {t[1]}
                /\ UNCHANGED chunk
    /\ UNCHANGED <<calls, next, error, pool, times>>

\* The worker stores the exception and stops the claims of the others.
FaultStopQuietly(t) ==
    /\ ws[t] = "raised"
    /\ next' = [next EXCEPT ![t[1]] = Count]
    /\ chunk' = [chunk EXCEPT ![t] = {}]
    /\ Leave(t)
    /\ UNCHANGED <<calls, error, tasks, times, raised>>
Catch(t) ==
    /\ ws[t] = "raised"
    /\ error' = [error EXCEPT ![t[1]] = TRUE]
    /\ next' = [next EXCEPT ![t[1]] = Count]
    /\ chunk' = [chunk EXCEPT ![t] = {}]
    /\ Leave(t)
    /\ UNCHANGED <<calls, tasks, times, raised>>

\* The caller has waited for its own worker and every submitted one.
FaultJoinOne(c) ==
    /\ caller[c] = "work" /\ ws[<<c, 0>>] = "done"
    /\ caller' = [caller EXCEPT ![c] = IF error[c] THEN "threw" ELSE "returned"]
    /\ UNCHANGED <<width, region, next, error, ws, chunk, pool, times, raised>>
Join(c) ==
    /\ caller[c] = "work"
    /\ \A w \in 0..(width[c] - 1) : ws[<<c, w>>] = "done"
    /\ caller' = [caller EXCEPT ![c] = IF error[c] THEN "threw" ELSE "returned"]
    /\ UNCHANGED <<width, region, next, error, ws, chunk, pool, times, raised>>

Step(t) == Claim(t) \/ Invoked(t) \/ Raise(t) \/ InvokeNested(t) \/ Return(t) \/ Catch(t)
Lead(c) == (\E w \in 1..(MaxWorkers - 1) : Submit(c, w)) \/ WorkAlone(c) \/ Join(c)

Next ==
    \/ \E c \in Calls : Call(c) \/ Lead(c)
    \/ \E t \in Tasks : Step(t)
    \/ \E th \in Threads : Take(th)

\* Threads run, and every invocation ends.
Spec ==
    /\ Init /\ [][Next]_vars
    /\ \A c \in Calls : WF_vars(Lead(c))
    /\ \A t \in Tasks : WF_vars(Step(t))
    /\ \A th \in Threads : WF_vars(Take(th))

-----------------------------------------------------------------------------
\* No index is given to two invocations, whichever workers claim and also after
\* an exception, and a call that returns has invoked the function on each.
ExactlyOnce ==
    \A c \in Calls, i \in Indices :
        times[c][i] <= 1 /\ (caller[c] = "returned" => times[c][i] = 1)

\* No worker of a call is queued or runs once the call has ended: the workers
\* refer to the caller's frame.
NoTaskOutlivesCall ==
    \A t \in Tasks : caller[t[1]] \in Ended => ws[t] \in {"new", "done"}

\* An exception of any invocation, on any thread, reaches the caller, and the
\* caller sees none that no invocation raised.
ErrorReported ==
    \A c \in Calls :
        /\ caller[c] = "returned" => c \notin raised
        /\ caller[c] = "threw" => c \in raised

\* Every call ends, the nested ones too: a worker never waits for a task that
\* only its own thread could run.
CallsEnd == \A c \in Calls : (caller[c] # "idle") ~> (caller[c] \in Ended)
=============================================================================
