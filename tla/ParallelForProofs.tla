------------------------- MODULE ParallelForProofs -------------------------
(* Theorems about ParallelFor, for every number of calls, indices and        *)
(* threads, every grain, and every nesting of calls.                         *)
EXTENDS ParallelFor, TLAPS

\* The queue of the pool holds each submitted task once.
Queue ==
    /\ \A k \in 1..Len(tasks) : ws[tasks[k]] = "queued"
    /\ \A k, m \in 1..Len(tasks) : k # m => tasks[k] # tasks[m]

\* How far a task got, against how far its call got.
Placed ==
    \A t \in Tasks :
        /\ caller[t[1]] = "idle" => ws[t] = "new"
        /\ caller[t[1]] = "submit" /\ t[2] = 0 => ws[t] = "new"
        /\ t[2] >= width[t[1]] => ws[t] = "new"
        /\ caller[t[1]] \in Ended => ws[t] \in {"new", "done"}
        /\ ws[t] \notin Running => chunk[t] = {}

\* Chunks of a call lie below its counter and share no index.
Chunks ==
    /\ \A t \in Tasks : \A i \in chunk[t] : i < next[t[1]]
    /\ \A t, u \in Tasks : t # u /\ t[1] = u[1] => chunk[t] \cap chunk[u] = {}

\* An index that is still in a chunk is invoked at most by the task at it.
Invocations ==
    /\ \A c \in Calls, i \in Indices :
          times[c][i] # 0 => /\ times[c][i] = 1
                             /\ i < next[c]
                             /\ \E t \in Tasks : t[1] = c /\ ws[t] # "new"
    /\ \A t \in Tasks : \A i \in chunk[t] :
          times[t[1]][i] = 0 \/ (ws[t] \in {"nested", "raised"} /\ At(t, i))
    /\ \A t \in Tasks : \A i \in chunk[t] :
          ws[t] = "nested" /\ At(t, i) => times[t[1]][i] = 1

\* Without an exception no claimed index is dropped, and a worker leaves only
\* when everything is claimed.
Covered ==
    \A c \in Calls : ~error[c] =>
        /\ \A i \in Indices : i < next[c] =>
              times[c][i] = 1 \/ \E t \in Tasks : t[1] = c /\ i \in chunk[t]
        /\ \A t \in Tasks : t[1] = c /\ ws[t] = "done" => next[c] >= Count

\* What an ended call reports.
Outcome ==
    \A c \in Calls :
        /\ caller[c] = "returned" => c \notin raised /\ \A i \in Indices : times[c][i] = 1
        /\ caller[c] = "threw" => c \in raised
        /\ error[c] => c \in raised
        /\ \A t \in Tasks : t[1] = c /\ ws[t] = "raised" => c \in raised
        /\ c \in raised => error[c] \/ \E t \in Tasks : t[1] = c /\ ws[t] = "raised"

IInv == TypeOK /\ Queue /\ Placed /\ Chunks /\ Invocations /\ Covered /\ Outcome

LEMMA TaskParts ==
    ASSUME NEW t \in Tasks
    PROVE  t[1] \in Calls /\ t[2] \in 0..(MaxWorkers - 1) /\ t = <<t[1], t[2]>>
  BY DEF Tasks

LEMMA TaskMade ==
    ASSUME NEW c \in Calls, NEW w \in 0..(MaxWorkers - 1)
    PROVE  /\ <<c, w>> \in Tasks /\ <<c, w>>[1] = c /\ <<c, w>>[2] = w
  BY DEF Tasks

LEMMA CallStep ==
    ASSUME IInv, ParallelForAssumption, NEW c \in Calls, Call(c)
    PROVE  IInv'
<1>1. /\ caller' = [caller EXCEPT ![c] = "submit"] /\ caller[c] = "idle"
      /\ region' \in [Calls -> BOOLEAN]
      /\ width' \in [Calls -> 1..MaxWorkers]
      /\ \A d \in Calls \ {c} : width'[d] = width[d]
  BY DEF Call, Enter, ThreadCount, IInv, TypeOK, ParallelForAssumption
<1>2. UNCHANGED <<next, error, ws, chunk, tasks, thread, times, raised>>
  BY DEF Call, pool
<1>3. TypeOK'
  BY <1>1, <1>2 DEF IInv, TypeOK
<1>4. Queue'
  BY <1>2 DEF IInv, Queue
<1>5. Placed'
  BY <1>1, <1>2, TaskParts DEF IInv, TypeOK, Placed, Ended
<1>6. Chunks'
  BY <1>2 DEF IInv, Chunks
<1>7. Invocations'
  BY <1>2 DEF IInv, Invocations, At
<1>8. Covered'
  BY <1>2 DEF IInv, Covered
<1>9. Outcome'
  BY <1>1, <1>2 DEF IInv, TypeOK, Outcome
<1> QED
  BY <1>3, <1>4, <1>5, <1>6, <1>7, <1>8, <1>9 DEF IInv

LEMMA SubmitStep ==
    ASSUME IInv, ParallelForAssumption, NEW c \in Calls, NEW w \in 1..(MaxWorkers - 1), Submit(c, w)
    PROVE  IInv'
<1> DEFINE t == <<c, w>>
<1>0. t \in Tasks /\ t[1] = c /\ t[2] = w
  BY TaskMade DEF ParallelForAssumption
<1>1. /\ caller[c] = "submit" /\ ws[t] = "new" /\ w < width[c]
      /\ ws' = [ws EXCEPT ![t] = "queued"]
      /\ tasks' = Append(tasks, t)
      /\ UNCHANGED <<caller, width, region, next, error, chunk, thread, times, raised>>
  BY DEF Submit, calls, IInv, TypeOK, ParallelForAssumption
<1> HIDE DEF t
<1>2. TypeOK'
  BY <1>0, <1>1 DEF IInv, TypeOK
<1>3. Queue'
  <2>1. Len(tasks') = Len(tasks) + 1 /\ tasks'[Len(tasks) + 1] = t
    BY <1>0, <1>1 DEF IInv, TypeOK
  <2>2. \A k \in 1..Len(tasks) : tasks'[k] = tasks[k] /\ tasks[k] \in Tasks /\ tasks[k] # t
    BY <1>0, <1>1 DEF IInv, TypeOK, Queue
  <2>3. Len(tasks) \in Nat
    BY DEF IInv, TypeOK
  <2>4. \A k \in 1..Len(tasks') : k \in 1..Len(tasks) \/ k = Len(tasks) + 1
    BY <2>1, <2>3
  <2> QED
    BY <1>0, <1>1, <2>1, <2>2, <2>4 DEF IInv, TypeOK, Queue
<1>4. Placed'
  BY <1>0, <1>1, TaskParts DEF IInv, TypeOK, Placed, Ended, Running
<1>5. Chunks'
  BY <1>1 DEF IInv, Chunks
<1>6. Invocations'
  BY <1>0, <1>1 DEF IInv, TypeOK, Invocations, At
<1>7. Covered'
  BY <1>0, <1>1 DEF IInv, TypeOK, Covered
<1>8. Outcome'
  BY <1>0, <1>1 DEF IInv, TypeOK, Outcome
<1> QED
  BY <1>2, <1>3, <1>4, <1>5, <1>6, <1>7, <1>8 DEF IInv

LEMMA WorkAloneStep ==
    ASSUME IInv, ParallelForAssumption, NEW c \in Calls, WorkAlone(c)
    PROVE  IInv'
<1> DEFINE t == <<c, 0>>
<1>0. t \in Tasks /\ t[1] = c /\ t[2] = 0
  BY TaskMade DEF ParallelForAssumption
<1>1. /\ caller[c] = "submit"
      /\ caller' = [caller EXCEPT ![c] = "work"]
      /\ ws' = [ws EXCEPT ![t] = "loop"]
      /\ UNCHANGED <<width, region, error, tasks, thread, times, raised>>
  BY DEF WorkAlone, pool
<1>2. ws[t] = "new" /\ chunk[t] = {}
  BY <1>0, <1>1 DEF IInv, Placed, Running
<1>3. \/ width[c] # 1 /\ UNCHANGED <<chunk, next>>
      \/ /\ width[c] = 1
         /\ chunk' = [chunk EXCEPT ![t] = Indices]
         /\ next' = [next EXCEPT ![c] = Count]
  BY DEF WorkAlone
<1>4. ASSUME width[c] = 1
      PROVE  \A u \in Tasks : u[1] = c => ws[u] = "new" /\ chunk[u] = {}
  <2> SUFFICES ASSUME NEW u \in Tasks, u[1] = c PROVE ws[u] = "new" /\ chunk[u] = {}
    OBVIOUS
  <2>1. u[2] \in Nat
    BY TaskParts DEF ParallelForAssumption
  <2>2. ws[u] = "new"
    BY <1>1, <1>4, <2>1 DEF IInv, Placed
  <2> QED
    BY <2>2 DEF IInv, Placed, Running
<1>5. ASSUME width[c] = 1, NEW i \in Indices PROVE times[c][i] = 0
  BY <1>4, <1>5 DEF IInv, Invocations
<1> HIDE DEF t
<1>6. TypeOK'
  <2>1. chunk' \in [Tasks -> SUBSET Indices]
    BY <1>0, <1>3 DEF IInv, TypeOK
  <2>3. Count \in Nat
    BY DEF ParallelForAssumption
  <2>4. next' \in [Calls -> Nat]
    BY <1>3, <2>3 DEF IInv, TypeOK
  <2>2. ws' \in [Tasks -> {"new", "queued", "done"} \cup Running]
    BY <1>0, <1>1 DEF IInv, TypeOK, Running
  <2> QED
    BY <1>1, <2>1, <2>2, <2>4 DEF IInv, TypeOK
<1>7. Queue'
  <2>1. \A k \in 1..Len(tasks) : tasks[k] \in Tasks /\ tasks[k] # t
    BY <1>2 DEF IInv, TypeOK, Queue
  <2> QED
    BY <1>0, <1>1, <2>1 DEF IInv, TypeOK, Queue
<1>8. Placed'
  <2>1. width[c] \in Nat /\ 0 < width[c]
    BY DEF IInv, TypeOK, ParallelForAssumption
  <2>2. \A u \in Tasks \ {t} : ws'[u] = ws[u] /\ chunk'[u] = chunk[u]
    BY <1>0, <1>1, <1>3 DEF IInv, TypeOK
  <2>3. ws'[t] = "loop"
    BY <1>0, <1>1 DEF IInv, TypeOK
  <2>4. \A d \in Calls : caller'[d] = IF d = c THEN "work" ELSE caller[d]
    BY <1>1 DEF IInv, TypeOK
  <2> SUFFICES ASSUME NEW u \in Tasks
               PROVE  /\ caller'[u[1]] = "idle" => ws'[u] = "new"
                      /\ caller'[u[1]] = "submit" /\ u[2] = 0 => ws'[u] = "new"
                      /\ u[2] >= width'[u[1]] => ws'[u] = "new"
                      /\ caller'[u[1]] \in Ended => ws'[u] \in {"new", "done"}
                      /\ ws'[u] \notin Running => chunk'[u] = {}
    BY DEF Placed
  <2>5. u[1] \in Calls
    BY TaskParts
  <2>6. CASE u = t
    BY <1>0, <1>1, <2>1, <2>3, <2>4, <2>6 DEF Ended, Running
  <2>7. CASE u # t
    BY <1>1, <2>2, <2>4, <2>5, <2>7 DEF IInv, Placed, Ended
  <2> QED
    BY <2>6, <2>7
<1>9. Chunks'
  <2>1. CASE width[c] # 1
    BY <1>3, <2>1 DEF IInv, Chunks
  <2>2. CASE width[c] = 1
    <3>1. \A u \in Tasks : chunk'[u] = IF u = t THEN Indices ELSE chunk[u]
      BY <1>0, <1>3, <2>2 DEF IInv, TypeOK
    <3>2. \A d \in Calls : next'[d] = IF d = c THEN Count ELSE next[d]
      BY <1>3, <2>2 DEF IInv, TypeOK
    <3>3. \A i \in Indices : i < Count
      BY DEF Indices, ParallelForAssumption
    <3>4. \A u \in Tasks : \A i \in chunk'[u] : i < next'[u[1]]
      BY <1>0, <1>4, <2>2, <3>1, <3>2, <3>3, TaskParts DEF IInv, Chunks
    <3>5. \A u, v \in Tasks : u # v /\ u[1] = v[1] => chunk'[u] \cap chunk'[v] = {}
      BY <1>0, <1>4, <2>2, <3>1 DEF IInv, Chunks
    <3> QED
      BY <3>4, <3>5 DEF Chunks
  <2> QED
    BY <2>1, <2>2
<1>10. Invocations'
  <2>1. \A u \in Tasks : ws'[u] = IF u = t THEN "loop" ELSE ws[u]
    BY <1>0, <1>1 DEF IInv, TypeOK
  <2>2. \A d \in Calls, i \in Indices : i < next[d] => i < next'[d]
    <3>1. \A i \in Indices : i < Count
      BY DEF Indices, ParallelForAssumption
    <3>2. \A d \in Calls : next'[d] \in {next[d], Count}
      BY <1>3 DEF IInv, TypeOK
    <3> QED
      BY <3>1, <3>2
  <2>3. \A d \in Calls, i \in Indices :
            times'[d][i] # 0 => /\ times'[d][i] = 1
                                /\ i < next'[d]
                                /\ \E u \in Tasks : u[1] = d /\ ws'[u] # "new"
    BY <1>1, <2>1, <2>2 DEF IInv, Invocations
  <2>4. ASSUME NEW u \in Tasks, NEW i \in chunk'[u]
        PROVE  times'[u[1]][i] = 0 \/ (ws'[u] \in {"nested", "raised"} /\ At(u, i)')
    <3>1. CASE u = t
      BY <1>0, <1>1, <1>2, <1>3, <1>5, <2>4, <3>1 DEF IInv, TypeOK
    <3>2. CASE u # t
      <4>1. chunk'[u] = chunk[u]
        BY <1>3, <3>2 DEF IInv, TypeOK
      <4> QED
        BY <1>1, <2>1, <2>4, <3>2, <4>1 DEF IInv, Invocations, At
    <3> QED
      BY <3>1, <3>2
  <2>5. ASSUME NEW u \in Tasks, NEW i \in chunk'[u], ws'[u] = "nested", At(u, i)'
        PROVE  times'[u[1]][i] = 1
    <3>1. u # t /\ chunk'[u] = chunk[u]
      BY <1>3, <2>1, <2>5 DEF IInv, TypeOK
    <3> QED
      BY <1>1, <2>1, <2>5, <3>1 DEF IInv, Invocations, At
  <2> QED
    BY <2>3, <2>4, <2>5 DEF Invocations
<1>11. Covered'
  <2> SUFFICES ASSUME NEW d \in Calls, ~error[d]
               PROVE  /\ \A i \in Indices : i < next'[d] =>
                           times'[d][i] = 1 \/ \E u \in Tasks : u[1] = d /\ i \in chunk'[u]
                      /\ \A u \in Tasks : u[1] = d /\ ws'[u] = "done" => next'[d] >= Count
    BY <1>1 DEF Covered
  <2>1. \A u \in Tasks : ws'[u] = "done" => ws[u] = "done"
    BY <1>0, <1>1 DEF IInv, TypeOK
  <2>2. \A u \in Tasks : chunk[u] \subseteq chunk'[u]
    BY <1>0, <1>2, <1>3 DEF IInv, TypeOK
  <2>3. CASE d = c /\ width[c] = 1
    BY <1>0, <1>3, <2>3 DEF IInv, TypeOK, ParallelForAssumption
  <2>4. CASE ~(d = c /\ width[c] = 1)
    <3>1. next'[d] = next[d]
      BY <1>3, <2>4 DEF IInv, TypeOK
    <3> QED
      BY <1>1, <2>1, <2>2, <3>1 DEF IInv, Covered
  <2> QED
    BY <2>3, <2>4
<1>12. Outcome'
  <2>1. \A u \in Tasks : ws[u] = "raised" => ws'[u] = "raised"
    BY <1>0, <1>1, <1>2 DEF IInv, TypeOK
  <2>2. \A d \in Calls : caller'[d] \in Ended => caller'[d] = caller[d]
    BY <1>1 DEF IInv, TypeOK, Ended
  <2> QED
    BY <1>1, <2>1, <2>2 DEF IInv, Outcome, Ended
<1> QED
  BY <1>6, <1>7, <1>8, <1>9, <1>10, <1>11, <1>12 DEF IInv

LEMMA RunningPhases ==
    /\ {"loop", "nested", "raised"} \subseteq Running
    /\ Running \subseteq Running \cup {"done"}
    /\ "loop" # "nested" /\ "raised" # "nested"
    /\ "loop" # "done" /\ "nested" # "done" /\ "raised" # "done"
  BY DEF Running

\* A running task is not in the queue, and its call has not ended.
LEMMA QueueKept ==
    ASSUME IInv, NEW t \in Tasks, NEW phase, ws[t] # "queued",
           ws' = [ws EXCEPT ![t] = phase], tasks' = tasks
    PROVE  Queue'
<1>1. \A k \in 1..Len(tasks) : tasks[k] \in Tasks /\ tasks[k] # t
  BY DEF IInv, TypeOK, Queue
<1> QED
  BY <1>1 DEF IInv, TypeOK, Queue

LEMMA PlacedKept ==
    ASSUME IInv, NEW t \in Tasks, ws[t] \in Running,
           NEW phase \in Running \cup {"done"}, NEW indices,
           phase = "done" => indices = {},
           ws' = [ws EXCEPT ![t] = phase],
           chunk' = [chunk EXCEPT ![t] = indices],
           UNCHANGED <<caller, width>>
    PROVE  Placed'
<1>1. ws[t] \notin {"new", "done"}
  BY DEF Running
<1>2. \A u \in Tasks \ {t} : ws'[u] = ws[u] /\ chunk'[u] = chunk[u]
  BY DEF IInv, TypeOK
<1>3. ws'[t] = phase /\ chunk'[t] = indices
  BY DEF IInv, TypeOK
<1> QED
  BY <1>1, <1>2, <1>3 DEF IInv, Placed

LEMMA TakeStep ==
    ASSUME IInv, ParallelForAssumption, NEW th \in Threads, Take(th)
    PROVE  IInv'
<1> DEFINE t == Head(tasks)
<1>0. /\ t \in Tasks /\ t = tasks[1] /\ tasks # <<>>
      /\ Len(tasks) \in Nat /\ 1 \in 1..Len(tasks)
  BY DEF Take, IInv, TypeOK
<1>1. /\ thread' = [thread EXCEPT ![th] = t]
      /\ tasks' = Tail(tasks)
      /\ ws' = [ws EXCEPT ![t] = "loop"]
      /\ UNCHANGED <<caller, width, region, next, error, chunk, times, raised>>
  BY DEF Take, calls
<1>2. ws[t] = "queued"
  BY <1>0 DEF IInv, Queue
<1>3. chunk[t] = {}
  BY <1>0, <1>2 DEF IInv, Placed, Running
<1>4. \A u \in Tasks : ws'[u] = IF u = t THEN "loop" ELSE ws[u]
  BY <1>0, <1>1 DEF IInv, TypeOK
<1>5. Len(tasks') = Len(tasks) - 1
  BY <1>0, <1>1 DEF IInv, TypeOK
<1>6. \A k \in 1..Len(tasks') : k + 1 \in 1..Len(tasks) /\ tasks'[k] = tasks[k + 1]
  BY <1>0, <1>1, <1>5 DEF IInv, TypeOK
<1>7. tasks' \in Seq(Tasks)
  BY <1>0, <1>1 DEF IInv, TypeOK
<1>8. \A k \in 1..Len(tasks') : tasks[k + 1] # tasks[1] /\ tasks[k + 1] \in Tasks
  <2> SUFFICES ASSUME NEW k \in 1..Len(tasks')
               PROVE  tasks[k + 1] # tasks[1] /\ tasks[k + 1] \in Tasks
    OBVIOUS
  <2>1. k + 1 \in 1..Len(tasks) /\ k + 1 # 1
    BY <1>0, <1>6
  <2> QED
    BY <1>0, <2>1 DEF IInv, TypeOK, Queue
<1> HIDE DEF t
<1>9. TypeOK'
  BY <1>0, <1>1, <1>7 DEF IInv, TypeOK, Running
<1>10. Queue'
  <2>1. \A k \in 1..Len(tasks') : ws'[tasks'[k]] = "queued"
    BY <1>0, <1>4, <1>6, <1>8 DEF IInv, Queue
  <2>2. ASSUME NEW k \in 1..Len(tasks'), NEW m \in 1..Len(tasks'), k # m
        PROVE  tasks'[k] # tasks'[m]
    <3>1. k + 1 # m + 1
      BY <1>0, <1>5, <2>2
    <3> QED
      BY <1>6, <3>1 DEF IInv, Queue
  <2> QED
    BY <2>1, <2>2 DEF Queue
<1>11. Placed'
  BY <1>0, <1>1, <1>2, <1>4 DEF IInv, Placed, Running, Ended
<1>12. Chunks'
  BY <1>1 DEF IInv, Chunks
<1>13. Invocations'
  <2>1. \A u \in Tasks : \A i \in chunk[u] : At(u, i)' <=> At(u, i)
    BY <1>1 DEF At
  <2> QED
    BY <1>1, <1>2, <1>3, <1>4, <2>1 DEF IInv, Invocations
<1>14. Covered'
  BY <1>1, <1>4 DEF IInv, Covered
<1>15. Outcome'
  BY <1>1, <1>2, <1>4 DEF IInv, Outcome
<1> QED
  BY <1>9, <1>10, <1>11, <1>12, <1>13, <1>14, <1>15 DEF IInv

LEMMA JoinStep ==
    ASSUME IInv, ParallelForAssumption, NEW c \in Calls, Join(c)
    PROVE  IInv'
<1>1. /\ caller[c] = "work"
      /\ caller' = [caller EXCEPT ![c] = IF error[c] THEN "threw" ELSE "returned"]
      /\ UNCHANGED <<width, region, next, error, ws, chunk, tasks, thread, times, raised>>
  BY DEF Join, pool
<1>2. \A t \in Tasks : t[1] = c => ws[t] \in {"new", "done"} /\ chunk[t] = {}
  <2> SUFFICES ASSUME NEW t \in Tasks, t[1] = c
               PROVE  ws[t] \in {"new", "done"} /\ chunk[t] = {}
    OBVIOUS
  <2>1. t[2] \in Nat /\ t = <<c, t[2]>>
    BY TaskParts DEF ParallelForAssumption
  <2>2. width[c] \in Nat
    BY DEF IInv, TypeOK, ParallelForAssumption
  <2>3. t[2] \in 0..(width[c] - 1) \/ t[2] >= width[c]
    BY <2>1, <2>2
  <2>4. ws[t] \in {"new", "done"}
    BY <2>1, <2>3 DEF Join, IInv, Placed
  <2> QED
    BY <2>4 DEF IInv, Placed, Running
<1>3. \E t \in Tasks : t[1] = c /\ ws[t] = "done"
  <2>1. 0 \in 0..(width[c] - 1)
    BY DEF IInv, TypeOK, ParallelForAssumption
  <2>2. 0 \in 0..(MaxWorkers - 1)
    BY DEF ParallelForAssumption
  <2>3. <<c, 0>> \in Tasks /\ <<c, 0>>[1] = c
    BY <2>2, TaskMade
  <2>4. ws[<<c, 0>>] = "done"
    BY <2>1 DEF Join
  <2> QED
    BY <2>3, <2>4
<1>4. ASSUME ~error[c], NEW i \in Indices PROVE times[c][i] = 1
  <2>1. next[c] >= Count
    BY <1>3, <1>4 DEF IInv, Covered
  <2>2. i < next[c]
    BY <2>1 DEF Indices, IInv, TypeOK, ParallelForAssumption
  <2> QED
    BY <1>2, <1>4, <2>2 DEF IInv, Covered
<1>5. TypeOK'
  BY <1>1 DEF IInv, TypeOK, Ended
<1>6. Queue'
  BY <1>1 DEF IInv, Queue
<1>7. Placed'
  BY <1>1, <1>2, TaskParts DEF IInv, TypeOK, Placed, Ended
<1>8. Chunks'
  BY <1>1 DEF IInv, Chunks
<1>9. Invocations'
  BY <1>1 DEF IInv, Invocations, At
<1>10. Covered'
  BY <1>1 DEF IInv, Covered
<1>11. Outcome'
  <2>1. error[c] <=> c \in raised
    BY <1>2 DEF IInv, Outcome
  <2>2. \A d \in Calls \ {c} : caller'[d] = caller[d]
    BY <1>1 DEF IInv, TypeOK
  <2>3. caller'[c] = IF error[c] THEN "threw" ELSE "returned"
    BY <1>1 DEF IInv, TypeOK
  <2> QED
    BY <1>1, <1>4, <2>1, <2>2, <2>3 DEF IInv, Outcome
<1> QED
  BY <1>5, <1>6, <1>7, <1>8, <1>9, <1>10, <1>11 DEF IInv

LEMMA ClaimStep ==
    ASSUME IInv, ParallelForAssumption, NEW t \in Tasks, Claim(t)
    PROVE  IInv'
<1> DEFINE c == t[1]
<1> DEFINE indices == IF next[c] >= Count THEN {} ELSE Chunk(next[c])
<1> DEFINE phase == IF next[c] >= Count THEN "done" ELSE "loop"
<1>0. c \in Calls /\ next[c] \in Nat /\ Grain \in Nat /\ Grain > 0 /\ Count \in Nat
  BY TaskParts DEF IInv, TypeOK, ParallelForAssumption
<1>1. /\ ws[t] = "loop" /\ chunk[t] = {}
      /\ next' = [next EXCEPT ![c] = next[c] + Grain]
      /\ UNCHANGED <<caller, width, region, error, tasks, times, raised>>
  BY <1>0 DEF Claim, calls, IInv, TypeOK
<1>2. chunk' = [chunk EXCEPT ![t] = indices]
  <2>1. CASE next[c] >= Count
    BY <1>1, <2>1 DEF Claim, IInv, TypeOK
  <2>2. CASE ~(next[c] >= Count)
    BY <1>1, <2>2 DEF Claim
  <2> QED
    BY <2>1, <2>2
<1>3. ws' = [ws EXCEPT ![t] = phase]
  <2>1. CASE next[c] >= Count
    BY <1>1, <2>1 DEF Claim, Leave
  <2>2. CASE ~(next[c] >= Count)
    BY <1>1, <2>2 DEF Claim, IInv, TypeOK
  <2> QED
    BY <2>1, <2>2
<1>4. thread' \in [Threads -> Tasks \cup {NoTask}]
  BY DEF Claim, Leave, IInv, TypeOK
<1>5. indices \subseteq Indices /\ \A i \in indices : next[c] <= i /\ i < next[c] + Grain
  BY DEF Chunk
<1>6. phase \in {"loop", "done"} /\ (phase = "done" => indices = {})
  OBVIOUS
<1>7. \A i \in Indices : i < next[c] + Grain => i < next[c] \/ i \in indices
  <2> SUFFICES ASSUME NEW i \in Indices, i < next[c] + Grain, ~(i < next[c])
               PROVE  i \in indices
    OBVIOUS
  <2>1. next[c] <= i /\ i < Count
    BY <1>0 DEF Indices
  <2>2. ~(next[c] >= Count)
    BY <1>0, <2>1 DEF Indices
  <2> QED
    BY <2>1, <2>2 DEF Chunk
<1>8. phase = "done" => next[c] >= Count
  OBVIOUS
<1> HIDE DEF c, indices, phase
<1>9. t[1] = c
  BY DEF c
<1>10. \A u \in Tasks : /\ ws'[u] = IF u = t THEN phase ELSE ws[u]
                        /\ chunk'[u] = IF u = t THEN indices ELSE chunk[u]
  BY <1>2, <1>3 DEF IInv, TypeOK
<1>11. \A d \in Calls : next'[d] = IF d = c THEN next[c] + Grain ELSE next[d]
  BY <1>0, <1>1 DEF IInv, TypeOK
<1>12. \A d \in Calls : /\ next[d] \in Nat /\ next'[d] \in Nat /\ next[d] <= next'[d]
                        /\ \A i \in Indices : i < next[d] => i < next'[d]
  <2> SUFFICES ASSUME NEW d \in Calls
               PROVE  /\ next[d] \in Nat /\ next'[d] \in Nat /\ next[d] <= next'[d]
                      /\ \A i \in Indices : i < next[d] => i < next'[d]
    OBVIOUS
  <2>1. next[d] \in Nat
    BY DEF IInv, TypeOK
  <2>2. next'[d] = next[d] \/ next'[d] = next[d] + Grain
    BY <1>11
  <2> QED
    BY <1>0, <2>1, <2>2 DEF Indices
<1>13. TypeOK'
  <2>1. ws' \in [Tasks -> {"new", "queued", "done"} \cup Running]
    BY <1>3, <1>6 DEF IInv, TypeOK, Running
  <2>2. chunk' \in [Tasks -> SUBSET Indices]
    BY <1>2, <1>5 DEF IInv, TypeOK
  <2>3. next' \in [Calls -> Nat]
    BY <1>0, <1>1 DEF IInv, TypeOK
  <2> QED
    BY <1>1, <1>4, <2>1, <2>2, <2>3 DEF IInv, TypeOK
<1>14. Queue'
  BY <1>1, <1>3, QueueKept
<1>15. Placed'
  BY <1>1, <1>2, <1>3, <1>6, PlacedKept DEF Running
<1>16. Chunks'
  <2>1. ASSUME NEW u \in Tasks, NEW i \in chunk'[u] PROVE i < next'[u[1]]
    <3>1. CASE u = t
      BY <1>0, <1>5, <1>9, <1>10, <1>11, <2>1, <3>1
    <3>2. CASE u # t
      <4>1. i \in chunk[u] /\ u[1] \in Calls /\ i \in Indices
        BY <1>10, <2>1, <3>2, TaskParts DEF IInv, TypeOK
      <4>2. i < next[u[1]]
        BY <4>1 DEF IInv, Chunks
      <4> QED
        BY <1>12, <4>1, <4>2
    <3> QED
      BY <3>1, <3>2
  <2>2. \A u \in Tasks \ {t} : u[1] = c => indices \cap chunk[u] = {}
    <3> SUFFICES ASSUME NEW u \in Tasks \ {t}, u[1] = c, NEW i \in indices, i \in chunk[u]
                 PROVE  FALSE
      OBVIOUS
    <3>1. i < next[c]
      BY DEF IInv, Chunks
    <3> QED
      BY <1>0, <1>5, <3>1 DEF Indices
  <2>3. ASSUME NEW u \in Tasks, NEW v \in Tasks, u # v, u[1] = v[1]
        PROVE  chunk'[u] \cap chunk'[v] = {}
    BY <1>9, <1>10, <2>2, <2>3 DEF IInv, Chunks
  <2> QED
    BY <2>1, <2>3 DEF Chunks
<1>17. Invocations'
  <2>1. ASSUME NEW d \in Calls, NEW i \in Indices, times[d][i] # 0
        PROVE  /\ times[d][i] = 1 /\ i < next'[d]
               /\ \E u \in Tasks : u[1] = d /\ ws'[u] # "new"
    BY <1>6, <1>10, <1>12, <2>1 DEF IInv, Invocations
  <2>2. ASSUME NEW u \in Tasks, NEW i \in chunk'[u]
        PROVE  times[u[1]][i] = 0 \/ (ws'[u] \in {"nested", "raised"} /\ At(u, i)')
    <3>1. CASE u = t
      <4>1. i \in indices
        BY <1>10, <2>2, <3>1
      <4>2. ~(i < next[c])
        BY <1>0, <1>5, <4>1 DEF Indices
      <4> QED
        BY <1>0, <1>5, <1>9, <3>1, <4>1, <4>2 DEF IInv, Invocations
    <3>2. CASE u # t
      BY <1>10, <2>2, <3>2 DEF IInv, Invocations, At
    <3> QED
      BY <3>1, <3>2
  <2>3. ASSUME NEW u \in Tasks, NEW i \in chunk'[u], ws'[u] = "nested", At(u, i)'
        PROVE  times[u[1]][i] = 1
    <3>1. u # t
      BY <1>6, <1>10, <2>3
    <3> QED
      BY <1>10, <2>3, <3>1 DEF IInv, Invocations, At
  <2> QED
    BY <1>1, <2>1, <2>2, <2>3 DEF Invocations
<1>18. Covered'
  <2>1. ASSUME NEW d \in Calls, ~error[d], NEW i \in Indices, i < next'[d]
        PROVE  times[d][i] = 1 \/ \E u \in Tasks : u[1] = d /\ i \in chunk'[u]
    <3>1. CASE i < next[d]
      BY <1>1, <1>10, <2>1, <3>1 DEF IInv, Covered
    <3>2. CASE ~(i < next[d])
      <4>1. d = c /\ i \in indices
        BY <1>7, <1>11, <2>1, <3>2
      <4> QED
        BY <1>9, <1>10, <4>1
    <3> QED
      BY <3>1, <3>2
  <2>2. ASSUME NEW d \in Calls, ~error[d], NEW u \in Tasks, u[1] = d, ws'[u] = "done"
        PROVE  next'[d] >= Count
    <3>1. next'[d] >= next[d] /\ next'[d] \in Nat /\ next[d] \in Nat
      BY <1>12
    <3>2. next[d] >= Count
      BY <1>8, <1>9, <1>10, <2>2 DEF IInv, Covered
    <3> QED
      BY <1>0, <3>1, <3>2
  <2> QED
    BY <1>1, <2>1, <2>2 DEF Covered
<1>19. Outcome'
  <2>1. \A u \in Tasks : ws'[u] = "raised" <=> ws[u] = "raised"
    BY <1>1, <1>6, <1>10
  <2> QED
    BY <1>1, <2>1 DEF IInv, Outcome
<1> QED
  BY <1>13, <1>14, <1>15, <1>16, <1>17, <1>18, <1>19 DEF IInv

\* A task that works on its chunk: what it drops it has invoked, and what is
\* left it has not, but for the index it is at.
LEMMA ChunkStep ==
    ASSUME IInv, ParallelForAssumption, NEW t \in Tasks, ws[t] \in Running,
           NEW phase \in Running, NEW indices \in SUBSET chunk[t],
           ws' = [ws EXCEPT ![t] = phase],
           chunk' = [chunk EXCEPT ![t] = indices],
           UNCHANGED <<next, error, tasks>>,
           \A d \in Calls, j \in Indices :
              \/ times'[d][j] = times[d][j]
              \/ d = t[1] /\ j \in chunk[t] /\ times'[d][j] = 1,
           \A j \in indices :
              \/ times'[t[1]][j] = 0
              \/ phase \in {"nested", "raised"} /\ \A k \in indices : j <= k,
           \A j \in indices :
              phase = "nested" /\ (\A k \in indices : j <= k) => times'[t[1]][j] = 1,
           \A j \in chunk[t] \ indices : times'[t[1]][j] = 1
    PROVE  Queue' /\ Chunks' /\ Invocations' /\ Covered'
<1>1. Queue'
  BY QueueKept DEF Running
<1>2. \A u \in Tasks : /\ ws'[u] = IF u = t THEN phase ELSE ws[u]
                       /\ chunk'[u] = IF u = t THEN indices ELSE chunk[u]
                       /\ chunk[u] \subseteq Indices
                       /\ u[1] \in Calls
  BY TaskParts DEF IInv, TypeOK
<1>3. phase # "new" /\ phase # "done"
  BY DEF Running
<1>4. Chunks'
  BY <1>2 DEF IInv, Chunks
<1>5. ASSUME NEW d \in Calls, NEW i \in Indices, times'[d][i] # 0
      PROVE  /\ times'[d][i] = 1 /\ i < next[d]
             /\ \E u \in Tasks : u[1] = d /\ ws'[u] # "new"
  <2>1. CASE d = t[1] /\ i \in chunk[t] /\ times'[d][i] = 1
    BY <1>2, <1>3, <2>1 DEF IInv, Chunks
  <2>2. CASE times'[d][i] = times[d][i]
    BY <1>2, <1>3, <1>5, <2>2 DEF IInv, Invocations
  <2> QED
    BY <2>1, <2>2
<1>6. ASSUME NEW u \in Tasks, NEW i \in chunk'[u]
      PROVE  times'[u[1]][i] = 0 \/ (ws'[u] \in {"nested", "raised"} /\ At(u, i)')
  <2>1. CASE u = t
    BY <1>2, <1>6, <2>1 DEF At
  <2>2. CASE u # t
    <3>1. i \in chunk[u] /\ ~(u[1] = t[1] /\ i \in chunk[t])
      BY <1>2, <1>6, <2>2 DEF IInv, Chunks
    <3>2. times'[u[1]][i] = times[u[1]][i]
      BY <1>2, <3>1
    <3> QED
      BY <1>2, <2>2, <3>1, <3>2 DEF IInv, Invocations, At
  <2> QED
    BY <2>1, <2>2
<1>10. ASSUME NEW u \in Tasks, NEW i \in chunk'[u], ws'[u] = "nested", At(u, i)'
       PROVE  times'[u[1]][i] = 1
  <2>1. CASE u = t
    BY <1>2, <1>10, <2>1 DEF At
  <2>2. CASE u # t
    <3>1. i \in chunk[u] /\ ~(u[1] = t[1] /\ i \in chunk[t])
      BY <1>2, <1>10, <2>2 DEF IInv, Chunks
    <3>2. times'[u[1]][i] = times[u[1]][i]
      BY <1>2, <3>1
    <3> QED
      BY <1>2, <1>10, <2>2, <3>1, <3>2 DEF IInv, Invocations, At
  <2> QED
    BY <2>1, <2>2
<1>7. Invocations'
  BY <1>5, <1>6, <1>10 DEF Invocations
<1>8. ASSUME NEW d \in Calls, ~error[d], NEW i \in Indices, i < next[d]
      PROVE  times'[d][i] = 1 \/ \E u \in Tasks : u[1] = d /\ i \in chunk'[u]
  <2>1. CASE times[d][i] = 1
    BY <2>1
  <2>2. ASSUME NEW u \in Tasks, u[1] = d, i \in chunk[u]
        PROVE  times'[d][i] = 1 \/ \E v \in Tasks : v[1] = d /\ i \in chunk'[v]
    BY <1>2, <2>2
  <2> QED
    BY <1>8, <2>1, <2>2 DEF IInv, Covered
<1>9. Covered'
  BY <1>2, <1>3, <1>8 DEF IInv, Covered
<1> QED
  BY <1>1, <1>4, <1>7, <1>9

LEMMA RunOutcome ==
    ASSUME IInv, NEW t \in Tasks, ws[t] \in {"loop", "nested"}, NEW phase \in Running,
           ws' = [ws EXCEPT ![t] = phase],
           raised' = IF phase = "raised" THEN raised \cup {t[1]} ELSE raised,
           UNCHANGED error,
           \A d \in Calls : caller'[d] \in Ended => caller'[d] = caller[d],
           \A d \in Calls, j \in Indices : d # t[1] => times'[d][j] = times[d][j]
    PROVE  Outcome'
<1>1. \A u \in Tasks : ws'[u] = IF u = t THEN phase ELSE ws[u]
  BY DEF IInv, TypeOK
<1>2. t[1] \in Calls /\ caller[t[1]] \notin Ended
  BY TaskParts DEF IInv, Placed
<1>3. ASSUME NEW d \in Calls, caller'[d] \in Ended
      PROVE  d # t[1] /\ caller'[d] = caller[d]
  BY <1>2, <1>3
<1>4. \A d \in Calls : d \in raised' <=> (d \in raised \/ (d = t[1] /\ phase = "raised"))
  BY <1>2
<1>5. ASSUME NEW d \in Calls, d \in raised'
      PROVE  error[d] \/ \E u \in Tasks : u[1] = d /\ ws'[u] = "raised"
  BY <1>1, <1>4, <1>5 DEF IInv, Outcome
<1>6. ASSUME NEW d \in Calls, caller'[d] = "returned"
      PROVE  d \notin raised' /\ \A i \in Indices : times'[d][i] = 1
  BY <1>3, <1>4, <1>6 DEF IInv, Outcome, Ended
<1>7. ASSUME NEW d \in Calls, caller'[d] = "threw" PROVE d \in raised'
  BY <1>3, <1>4, <1>7 DEF IInv, Outcome, Ended
<1>8. \A d \in Calls : error[d] => d \in raised'
  BY <1>4 DEF IInv, Outcome
<1>9. ASSUME NEW u \in Tasks, ws'[u] = "raised" PROVE u[1] \in raised'
  BY <1>1, <1>4, <1>9, TaskParts DEF IInv, Outcome
<1> QED
  BY <1>5, <1>6, <1>7, <1>8, <1>9 DEF Outcome

LEMMA InvokeFacts ==
    ASSUME IInv, ParallelForAssumption, NEW t \in Tasks, NEW i \in Indices, Invoke(t, i)
    PROVE  /\ t[1] \in Calls /\ ws[t] = "loop" /\ i \in chunk[t]
           /\ \A j \in chunk[t] : i <= j /\ times[t[1]][j] = 0
           /\ times' \in [Calls -> [Indices -> Nat]]
           /\ times'[t[1]][i] = 1
           /\ \A d \in Calls, j \in Indices : ~(d = t[1] /\ j = i) => times'[d][j] = times[d][j]
<1>1. t[1] \in Calls /\ ws[t] = "loop" /\ i \in chunk[t] /\ \A j \in chunk[t] : i <= j
  BY TaskParts DEF Invoke, At
<1>2. \A j \in chunk[t] : times[t[1]][j] = 0
  BY <1>1 DEF IInv, Invocations
<1>3. times' = [times EXCEPT ![t[1]] = [times[t[1]] EXCEPT ![i] = times[t[1]][i] + 1]]
  BY <1>1 DEF Invoke, IInv, TypeOK
<1>4. times[t[1]][i] = 0 /\ times[t[1]] \in [Indices -> Nat]
  BY <1>1, <1>2 DEF IInv, TypeOK
<1>5. [times[t[1]] EXCEPT ![i] = times[t[1]][i] + 1] \in [Indices -> Nat]
  BY <1>4
<1>6. times' \in [Calls -> [Indices -> Nat]]
  BY <1>1, <1>3, <1>5 DEF IInv, TypeOK
<1>7. times'[t[1]] = [times[t[1]] EXCEPT ![i] = times[t[1]][i] + 1]
  BY <1>1, <1>3 DEF IInv, TypeOK
<1>8. \A d \in Calls : d # t[1] => times'[d] = times[d]
  BY <1>1, <1>3 DEF IInv, TypeOK
<1> QED
  BY <1>1, <1>2, <1>4, <1>6, <1>7, <1>8

LEMMA InvokedStep ==
    ASSUME IInv, ParallelForAssumption, NEW t \in Tasks, Invoked(t)
    PROVE  IInv'
<1>1. PICK i \in Indices : Invoke(t, i) /\ chunk' = [chunk EXCEPT ![t] = chunk[t] \ {i}]
  BY DEF Invoked, IInv, TypeOK
<1>2. UNCHANGED <<caller, width, region, next, error, ws, tasks, thread, raised>>
  BY DEF Invoked, calls, pool
<1>3. ws[t] = "loop" /\ ws' = [ws EXCEPT ![t] = "loop"]
  BY <1>1, <1>2, InvokeFacts DEF IInv, TypeOK
<1>4. chunk[t] \subseteq Indices /\ chunk[t] \ {i} \in SUBSET chunk[t]
  BY DEF IInv, TypeOK
<1>5. TypeOK'
  <2>1. chunk' \in [Tasks -> SUBSET Indices]
    BY <1>1, <1>4 DEF IInv, TypeOK
  <2> QED
    BY <1>1, <1>2, <2>1, InvokeFacts DEF IInv, TypeOK
<1>6. Queue' /\ Chunks' /\ Invocations' /\ Covered'
  <2> DEFINE indices == chunk[t] \ {i}
  <2> DEFINE phase == "loop"
  <2>1. \A d \in Calls, j \in Indices :
            \/ times'[d][j] = times[d][j]
            \/ d = t[1] /\ j \in chunk[t] /\ times'[d][j] = 1
    BY <1>1, InvokeFacts
  <2>2. \A j \in indices : times'[t[1]][j] = 0
    BY <1>1, <1>4, InvokeFacts
  <2>3. \A j \in chunk[t] \ indices : times'[t[1]][j] = 1
    BY <1>1, InvokeFacts
  <2>4. phase \in Running /\ ws[t] \in Running /\ phase # "nested"
    BY <1>3, RunningPhases
  <2>5. indices \in SUBSET chunk[t] /\ chunk' = [chunk EXCEPT ![t] = indices]
    BY <1>1, <1>4
  <2>6. ws' = [ws EXCEPT ![t] = phase] /\ UNCHANGED <<next, error, tasks>>
    BY <1>2, <1>3
  <2> HIDE DEF indices, phase
  <2>7. \A j \in indices :
            \/ times'[t[1]][j] = 0
            \/ phase \in {"nested", "raised"} /\ \A k \in indices : j <= k
    BY <2>2
  <2>8. \A j \in indices :
            phase = "nested" /\ (\A k \in indices : j <= k) => times'[t[1]][j] = 1
    BY <2>4
  <2> QED
    BY <2>1, <2>3, <2>4, <2>5, <2>6, <2>7, <2>8, ChunkStep
<1>7. Placed'
  BY <1>1, <1>2, <1>3, RunningPhases, PlacedKept
<1>8. Outcome'
  <2>1. \A d \in Calls, j \in Indices : d # t[1] => times'[d][j] = times[d][j]
    BY <1>1, InvokeFacts
  <2>2. raised' = IF "loop" = "raised" THEN raised \cup {t[1]} ELSE raised
    BY <1>2
  <2> QED
    BY <1>2, <1>3, <2>1, <2>2, RunningPhases, RunOutcome
<1> QED
  BY <1>5, <1>6, <1>7, <1>8 DEF IInv

LEMMA RaiseStep ==
    ASSUME IInv, ParallelForAssumption, NEW t \in Tasks, Raise(t)
    PROVE  IInv'
<1>1. PICK i \in Indices : Invoke(t, i)
  BY DEF Raise
<1>2. /\ ws' = [ws EXCEPT ![t] = "raised"]
      /\ raised' = raised \cup {t[1]}
      /\ UNCHANGED <<caller, width, region, next, error, chunk, tasks, thread>>
  BY DEF Raise, calls, pool
<1>3. ws[t] = "loop" /\ chunk' = [chunk EXCEPT ![t] = chunk[t]] /\ chunk[t] \subseteq Indices
  BY <1>1, <1>2, InvokeFacts DEF IInv, TypeOK
<1>4. TypeOK'
  BY <1>1, <1>2, InvokeFacts DEF IInv, TypeOK, Running
<1>5. Queue' /\ Chunks' /\ Invocations' /\ Covered'
  <2>1. \A d \in Calls, j \in Indices : \/ times'[d][j] = times[d][j]
                                        \/ d = t[1] /\ j \in chunk[t] /\ times'[d][j] = 1
    BY <1>1, InvokeFacts
  <2>2. \A j \in chunk[t] : times'[t[1]][j] = 0 \/ \A k \in chunk[t] : j <= k
    BY <1>1, <1>3, InvokeFacts
  <2> QED
    BY <1>2, <1>3, <2>1, <2>2, ChunkStep DEF Running
<1>6. Placed'
  BY <1>2, <1>3, RunningPhases, PlacedKept
<1>7. Outcome'
  <2>1. \A d \in Calls, j \in Indices : d # t[1] => times'[d][j] = times[d][j]
    BY <1>1, InvokeFacts
  <2>2. raised' = IF "raised" = "raised" THEN raised \cup {t[1]} ELSE raised
    BY <1>2
  <2> QED
    BY <1>2, <1>3, <2>1, <2>2, RunningPhases, RunOutcome
<1> QED
  BY <1>4, <1>5, <1>6, <1>7 DEF IInv

LEMMA InvokeNestedStep ==
    ASSUME IInv, ParallelForAssumption, NEW t \in Tasks, InvokeNested(t)
    PROVE  IInv'
<1>1. PICK i \in Indices :
          /\ Invoke(t, i) /\ Nest[<<t[1], i>>] \in Calls
          /\ Enter(Nest[<<t[1], i>>], region[t[1]] \/ width[t[1]] > 1)
  BY DEF InvokeNested
<1> DEFINE c == Nest[<<t[1], i>>]
<1>2. /\ ws' = [ws EXCEPT ![t] = "nested"]
      /\ UNCHANGED <<next, error, chunk, tasks, thread, raised>>
  BY DEF InvokeNested, pool
<1>3. /\ caller' = [caller EXCEPT ![c] = "submit"] /\ caller[c] = "idle" /\ c \in Calls
      /\ region' \in [Calls -> BOOLEAN]
      /\ width' \in [Calls -> 1..MaxWorkers]
      /\ \A d \in Calls \ {c} : width'[d] = width[d]
  BY <1>1 DEF Enter, ThreadCount, IInv, TypeOK, ParallelForAssumption
<1>4. ws[t] = "loop" /\ chunk' = [chunk EXCEPT ![t] = chunk[t]] /\ chunk[t] \subseteq Indices
  BY <1>1, <1>2, InvokeFacts DEF IInv, TypeOK
<1> HIDE DEF c
<1>5. TypeOK'
  <2>1. caller' \in [Calls -> {"idle", "submit", "work"} \cup Ended]
    BY <1>3 DEF IInv, TypeOK
  <2>2. ws' \in [Tasks -> {"new", "queued", "done"} \cup Running]
    BY <1>2 DEF IInv, TypeOK, Running
  <2>3. times' \in [Calls -> [Indices -> Nat]]
    BY <1>1, InvokeFacts
  <2> QED
    BY <1>2, <1>3, <2>1, <2>2, <2>3 DEF IInv, TypeOK
<1>6. Queue' /\ Chunks' /\ Invocations' /\ Covered'
  <2>1. \A d \in Calls, j \in Indices : \/ times'[d][j] = times[d][j]
                                        \/ d = t[1] /\ j \in chunk[t] /\ times'[d][j] = 1
    BY <1>1, InvokeFacts
  <2>2. \A j \in chunk[t] : times'[t[1]][j] = 0 \/ \A k \in chunk[t] : j <= k
    BY <1>1, <1>4, InvokeFacts
  <2>3. ASSUME NEW j \in chunk[t], \A k \in chunk[t] : j <= k PROVE times'[t[1]][j] = 1
    <3>1. i <= j /\ j <= i /\ i \in Int /\ j \in Int
      BY <1>1, <1>4, <2>3, InvokeFacts DEF Indices
    <3>2. i = j
      BY <3>1
    <3>3. times'[t[1]][i] = 1
      BY <1>1, InvokeFacts
    <3> QED
      BY <3>2, <3>3
  <2> DEFINE phase == "nested"
  <2>4. /\ phase \in Running /\ ws[t] \in Running /\ phase \in {"nested", "raised"}
        /\ ws' = [ws EXCEPT ![t] = phase] /\ UNCHANGED <<next, error, tasks>>
        /\ chunk[t] \in SUBSET chunk[t]
    BY <1>2, <1>4, RunningPhases
  <2>5. \A j \in chunk[t] :
            \/ times'[t[1]][j] = 0
            \/ phase \in {"nested", "raised"} /\ \A k \in chunk[t] : j <= k
    BY <2>2
  <2>6. \A j \in chunk[t] :
            phase = "nested" /\ (\A k \in chunk[t] : j <= k) => times'[t[1]][j] = 1
    BY <2>3
  <2>7. \A j \in chunk[t] \ chunk[t] : times'[t[1]][j] = 1
    OBVIOUS
  <2> HIDE DEF phase
  <2> QED
    BY <1>4, <2>1, <2>4, <2>5, <2>6, <2>7, ChunkStep
<1>7. Placed'
  <2>1. \A u \in Tasks : /\ u[1] \in Calls
                         /\ u[1] = c => u # t /\ ws'[u] = "new"
                         /\ u # t => ws'[u] = ws[u]
    BY <1>2, <1>3, <1>4, TaskParts DEF IInv, TypeOK, Placed
  <2>2. ws'[t] = "nested"
    BY <1>2 DEF IInv, TypeOK
  <2>3. \A d \in Calls : caller'[d] = IF d = c THEN "submit" ELSE caller[d]
    BY <1>3 DEF IInv, TypeOK
  <2> QED
    BY <1>2, <1>3, <1>4, <2>1, <2>2, <2>3 DEF IInv, Placed, Running, Ended
<1>8. Outcome'
  <2>1. \A d \in Calls : caller'[d] \in Ended => caller'[d] = caller[d]
    BY <1>3 DEF IInv, TypeOK, Ended
  <2>2. \A d \in Calls, j \in Indices : d # t[1] => times'[d][j] = times[d][j]
    BY <1>1, InvokeFacts
  <2>3. raised' = IF "nested" = "raised" THEN raised \cup {t[1]} ELSE raised
    BY <1>2
  <2> QED
    BY <1>2, <1>4, <2>1, <2>2, <2>3, RunningPhases, RunOutcome
<1> QED
  BY <1>5, <1>6, <1>7, <1>8 DEF IInv

LEMMA ReturnStep ==
    ASSUME IInv, ParallelForAssumption, NEW t \in Tasks, Return(t)
    PROVE  IInv'
<1>1. /\ ws[t] = "nested" /\ ws[t] \in Running
      /\ UNCHANGED <<caller, width, region, next, error, tasks, thread, times>>
  BY DEF Return, calls, pool, Running
<1>2. PICK i \in Indices :
          /\ At(t, i)
          /\ \/ /\ ws' = [ws EXCEPT ![t] = "loop"]
                /\ chunk' = [chunk EXCEPT ![t] = chunk[t] \ {i}]
                /\ raised' = raised
             \/ /\ ws' = [ws EXCEPT ![t] = "raised"]
                /\ chunk' = chunk
                /\ raised' = raised \cup {t[1]}
  BY DEF Return, IInv, TypeOK
<1>3. /\ t[1] \in Calls /\ chunk[t] \subseteq Indices
      /\ i \in chunk[t] /\ \A j \in chunk[t] : i <= j
      /\ chunk[t] \ {i} \in SUBSET chunk[t]
  BY <1>2, TaskParts DEF At, IInv, TypeOK
<1>4. \A j \in chunk[t] \ {i} : times[t[1]][j] = 0
  <2> SUFFICES ASSUME NEW j \in chunk[t], j # i PROVE times[t[1]][j] = 0
    OBVIOUS
  <2>1. ~At(t, j)
    <3>1. i \in Int /\ j \in Int /\ i <= j
      BY <1>3 DEF Indices
    <3> QED
      BY <1>3, <3>1 DEF At
  <2> QED
    BY <2>1 DEF IInv, Invocations
<1>5. \A d \in Calls, j \in Indices : times'[d][j] = times[d][j]
  BY <1>1
<1>6. CASE /\ ws' = [ws EXCEPT ![t] = "loop"]
           /\ chunk' = [chunk EXCEPT ![t] = chunk[t] \ {i}]
           /\ raised' = raised
  <2>1. TypeOK'
    BY <1>1, <1>3, <1>6 DEF IInv, TypeOK, Running
  <2>2. times[t[1]][i] = 1
    BY <1>1, <1>2, <1>3 DEF IInv, Invocations
  <2>3. Queue' /\ Chunks' /\ Invocations' /\ Covered'
    <3> DEFINE phase == "loop"
    <3> DEFINE indices == chunk[t] \ {i}
    <3>1. /\ phase \in Running /\ phase # "nested"
          /\ ws' = [ws EXCEPT ![t] = phase] /\ UNCHANGED <<next, error, tasks>>
      BY <1>1, <1>6, RunningPhases
    <3>2. /\ indices \in SUBSET chunk[t] /\ chunk' = [chunk EXCEPT ![t] = indices]
          /\ \A j \in indices : times'[t[1]][j] = 0
          /\ \A j \in chunk[t] \ indices : times'[t[1]][j] = 1
      BY <1>1, <1>3, <1>4, <1>6, <2>2
    <3> HIDE DEF phase, indices
    <3>3. \A d \in Calls, j \in Indices :
              \/ times'[d][j] = times[d][j]
              \/ d = t[1] /\ j \in chunk[t] /\ times'[d][j] = 1
      BY <1>5
    <3>4. \A j \in indices :
              \/ times'[t[1]][j] = 0
              \/ phase \in {"nested", "raised"} /\ \A k \in indices : j <= k
      BY <3>2
    <3>5. \A j \in indices :
              phase = "nested" /\ (\A k \in indices : j <= k) => times'[t[1]][j] = 1
      BY <3>1
    <3> QED
      BY <1>1, <3>1, <3>2, <3>3, <3>4, <3>5, ChunkStep
  <2>4. Placed'
    BY <1>1, <1>6, RunningPhases, PlacedKept
  <2>5. Outcome'
    BY <1>1, <1>5, <1>6, RunningPhases, RunOutcome
  <2> QED
    BY <2>1, <2>3, <2>4, <2>5 DEF IInv
<1>7. CASE /\ ws' = [ws EXCEPT ![t] = "raised"]
           /\ chunk' = chunk
           /\ raised' = raised \cup {t[1]}
  <2>1. TypeOK'
    BY <1>1, <1>3, <1>7 DEF IInv, TypeOK, Running
  <2>2. chunk' = [chunk EXCEPT ![t] = chunk[t]]
    BY <1>7 DEF IInv, TypeOK
  <2>3. Queue' /\ Chunks' /\ Invocations' /\ Covered'
    <3>1. \A j \in chunk[t] : times'[t[1]][j] = 0 \/ \A k \in chunk[t] : j <= k
      BY <1>1, <1>3, <1>4
    <3> QED
      BY <1>1, <1>3, <1>5, <1>7, <2>2, <3>1, RunningPhases, ChunkStep
  <2>4. Placed'
    BY <1>1, <1>7, <2>2, RunningPhases, PlacedKept
  <2>5. Outcome'
    BY <1>1, <1>5, <1>7, RunningPhases, RunOutcome
  <2> QED
    BY <2>1, <2>3, <2>4, <2>5 DEF IInv
<1> QED
  BY <1>2, <1>6, <1>7

LEMMA CatchStep ==
    ASSUME IInv, ParallelForAssumption, NEW t \in Tasks, Catch(t)
    PROVE  IInv'
<1> DEFINE c == t[1]
<1>1. /\ ws[t] = "raised" /\ ws[t] \in Running /\ c \in Calls
      /\ error' = [error EXCEPT ![c] = TRUE]
      /\ next' = [next EXCEPT ![c] = Count]
      /\ chunk' = [chunk EXCEPT ![t] = {}]
      /\ ws' = [ws EXCEPT ![t] = "done"]
      /\ UNCHANGED <<caller, width, region, tasks, times, raised>>
  BY TaskParts DEF Catch, Leave, calls, Running
<1>2. thread' \in [Threads -> Tasks \cup {NoTask}]
  BY DEF Catch, Leave, IInv, TypeOK
<1> HIDE DEF c
<1>3. \A u \in Tasks : /\ ws'[u] = IF u = t THEN "done" ELSE ws[u]
                       /\ chunk'[u] = IF u = t THEN {} ELSE chunk[u]
                       /\ chunk[u] \subseteq Indices /\ u[1] \in Calls
  BY <1>1, TaskParts DEF IInv, TypeOK
<1>4. t[1] = c
  BY DEF c
<1>5. \A d \in Calls : error'[d] = IF d = c THEN TRUE ELSE error[d]
  BY <1>1 DEF IInv, TypeOK
<1>6. \A d \in Calls, i \in Indices : i < next[d] => i < next'[d]
  <2>1. \A i \in Indices : i < Count
    BY DEF Indices, ParallelForAssumption
  <2>2. \A d \in Calls : next'[d] \in {next[d], Count}
    BY <1>1 DEF IInv, TypeOK
  <2> QED
    BY <2>1, <2>2
<1>7. c \in raised
  BY <1>1, <1>4 DEF IInv, Outcome
<1>8. TypeOK'
  <2>1. Count \in Nat
    BY DEF ParallelForAssumption
  <2>2. next' \in [Calls -> Nat] /\ error' \in [Calls -> BOOLEAN]
    BY <1>1, <2>1 DEF IInv, TypeOK
  <2>3. chunk' \in [Tasks -> SUBSET Indices]
    BY <1>1 DEF IInv, TypeOK
  <2>4. ws' \in [Tasks -> {"new", "queued", "done"} \cup Running]
    BY <1>1 DEF IInv, TypeOK
  <2> QED
    BY <1>1, <1>2, <2>2, <2>3, <2>4 DEF IInv, TypeOK
<1>9. Queue'
  BY <1>1, QueueKept
<1>10. Placed'
  BY <1>1, PlacedKept
<1>11. Chunks'
  BY <1>3, <1>6 DEF IInv, Chunks
<1>12. Invocations'
  <2>1. \A d \in Calls, i \in Indices :
            times'[d][i] # 0 => /\ times'[d][i] = 1
                                /\ i < next'[d]
                                /\ \E u \in Tasks : u[1] = d /\ ws'[u] # "new"
    BY <1>1, <1>3, <1>6 DEF IInv, Invocations
  <2>2. \A u \in Tasks : \A i \in chunk'[u] :
            times'[u[1]][i] = 0 \/ (ws'[u] \in {"nested", "raised"} /\ At(u, i)')
    BY <1>1, <1>3 DEF IInv, Invocations, At
  <2>3. \A u \in Tasks : \A i \in chunk'[u] :
            ws'[u] = "nested" /\ At(u, i)' => times'[u[1]][i] = 1
    BY <1>1, <1>3 DEF IInv, Invocations, At
  <2> QED
    BY <2>1, <2>2, <2>3 DEF Invocations
<1>13. Covered'
  <2> SUFFICES ASSUME NEW d \in Calls, ~error'[d]
               PROVE  /\ \A i \in Indices : i < next'[d] =>
                           times'[d][i] = 1 \/ \E u \in Tasks : u[1] = d /\ i \in chunk'[u]
                      /\ \A u \in Tasks : u[1] = d /\ ws'[u] = "done" => next'[d] >= Count
    BY DEF Covered
  <2>1. d # c /\ ~error[d] /\ next'[d] = next[d]
    BY <1>1, <1>5 DEF IInv, TypeOK
  <2> QED
    BY <1>1, <1>3, <1>4, <2>1 DEF IInv, Covered
<1>14. Outcome'
  <2>1. ASSUME NEW d \in Calls, d \in raised
        PROVE  error'[d] \/ \E u \in Tasks : u[1] = d /\ ws'[u] = "raised"
    BY <1>3, <1>4, <1>5, <2>1 DEF IInv, Outcome
  <2>2. \A u \in Tasks : ws'[u] = "raised" => ws[u] = "raised"
    BY <1>3
  <2>3. \A d \in Calls : error'[d] => d \in raised
    BY <1>5, <1>7 DEF IInv, Outcome
  <2> QED
    BY <1>1, <2>1, <2>2, <2>3 DEF IInv, Outcome
<1> QED
  BY <1>8, <1>9, <1>10, <1>11, <1>12, <1>13, <1>14 DEF IInv

LEMMA InitIInv == ParallelForAssumption /\ Init => IInv
<1> SUFFICES ASSUME ParallelForAssumption, Init PROVE IInv
  OBVIOUS
<1>1. TypeOK
  <2>1. 1 \in 1..MaxWorkers /\ tasks \in Seq(Tasks)
    BY DEF ParallelForAssumption, Init
  <2> QED
    BY <2>1 DEF Init, TypeOK
<1>2. \A c \in Calls : caller[c] = "idle" /\ next[c] = 0 /\ ~error[c] /\ \A i \in Indices : times[c][i] = 0
  BY DEF Init
<1>3. \A t \in Tasks : ws[t] = "new" /\ chunk[t] = {} /\ t[1] \in Calls
  BY TaskParts DEF Init
<1>4. Queue
  BY DEF Init, Queue
<1>5. Placed
  BY <1>2, <1>3 DEF Placed, Running, Ended
<1>6. Chunks /\ Invocations
  BY <1>2, <1>3 DEF Chunks, Invocations
<1>7. Covered
  BY <1>2, <1>3 DEF Covered, Indices
<1>8. Outcome
  BY <1>2, <1>3 DEF Outcome, Init
<1> QED
  BY <1>1, <1>4, <1>5, <1>6, <1>7, <1>8 DEF IInv

LEMMA NextIInv == ParallelForAssumption /\ IInv /\ [Next]_vars => IInv'
<1> SUFFICES ASSUME ParallelForAssumption, IInv, [Next]_vars PROVE IInv'
  OBVIOUS
<1>1. CASE UNCHANGED vars
  <2>1. UNCHANGED <<caller, width, region, next, error, ws, chunk, tasks, thread, times, raised>>
    BY <1>1 DEF vars, calls, pool
  <2>2. TypeOK'
    BY <2>1 DEF IInv, TypeOK
  <2>3. Queue' /\ Placed' /\ Chunks'
    BY <2>1 DEF IInv, Queue, Placed, Chunks
  <2>4. Invocations' /\ Covered' /\ Outcome'
    BY <2>1 DEF IInv, Invocations, At, Covered, Outcome
  <2> QED
    BY <2>2, <2>3, <2>4 DEF IInv
<1>2. ASSUME NEW c \in Calls, Call(c) \/ Lead(c) PROVE IInv'
  BY <1>2, CallStep, SubmitStep, WorkAloneStep, JoinStep DEF Lead
<1>3. ASSUME NEW t \in Tasks, Step(t) PROVE IInv'
  BY <1>3, ClaimStep, InvokedStep, RaiseStep, InvokeNestedStep, ReturnStep, CatchStep DEF Step
<1>4. ASSUME NEW th \in Threads, Take(th) PROVE IInv'
  BY <1>4, TakeStep
<1> QED
  BY <1>1, <1>2, <1>3, <1>4 DEF Next

LEMMA InductiveInvariant == Spec => []IInv
<1>1. ParallelForAssumption
  BY ParallelForAssumption
<1> QED
  BY <1>1, InitIInv, NextIInv, PTL DEF Spec

\* Type correctness: chunks hold indices of the call and never run past its
\* count, and a call runs on at least one thread.
THEOREM TypeCorrect == Spec => []TypeOK
<1>1. IInv => TypeOK
  BY DEF IInv
<1> QED
  BY <1>1, InductiveInvariant, PTL

\* However the workers' claims interleave, no index is invoked twice, and
\* parallel_for returns only when it has invoked every one.
THEOREM IndicesInvokedOnce == Spec => []ExactlyOnce
<1>1. IInv => \A c \in Calls, i \in Indices : times[c][i] <= 1
  BY DEF IInv, Invocations
<1>2. IInv => \A c \in Calls, i \in Indices : caller[c] = "returned" => times[c][i] = 1
  BY DEF IInv, Outcome
<1>3. IInv => ExactlyOnce
  BY <1>1, <1>2 DEF ExactlyOnce
<1> QED
  BY <1>3, InductiveInvariant, PTL

\* The frame of parallel_for, which its tasks refer to, outlives every task.
THEOREM FrameOutlivesTasks == Spec => []NoTaskOutlivesCall
<1>1. IInv => NoTaskOutlivesCall
  BY DEF IInv, Placed, NoTaskOutlivesCall
<1> QED
  BY <1>1, InductiveInvariant, PTL

\* parallel_for throws if and only if an invocation threw.
THEOREM ExceptionsArrive == Spec => []ErrorReported
<1>1. IInv => ErrorReported
  BY DEF IInv, Outcome, ErrorReported
<1> QED
  BY <1>1, InductiveInvariant, PTL
=============================================================================
