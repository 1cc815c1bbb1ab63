------------------------------- MODULE UploadRing -------------------------------
(***************************************************************************)
(* Asynchronous uploads of training views (splat/training_data_loader.cpp) *)
(* under TrainingCache: pinned staging buffers, the ring of device slots,  *)
(* the copy stream that fills a slot from a buffer and the compute stream  *)
(* that hops it from the slot into its cache entry.  The host thread       *)
(* reuses a buffer or a slot when it believes that the streams are done.   *)
(*                                                                         *)
(* A stream completes its operations in order; nothing here relies on it,  *)
(* so the operations in flight are a set.  A CUDA event is complete when   *)
(* the operation that it was recorded behind is not in flight any more.    *)
(***************************************************************************)
EXTENDS Naturals, FiniteSets, TrainingViews

CONSTANTS
  Slots,       \* DeviceUploadRing::slots_
  Buffers,     \* pinned buffers, allocated when the pool is empty
  MaxPending   \* k_max_pending_device_uploads

ASSUME UploadRingAssumption ==
  /\ MaxPending \in Nat
  /\ None \notin Views /\ None \notin [slot : Slots, buf : Buffers]

VARIABLES
  busy,      \* Slot::busy
  data,      \* the view whose bytes a slot holds, or None
  pool,      \* PinnedStagingPool::free_
  staged,    \* the view packed into each buffer, or None
  device_uploads,  \* the slot and the buffer of a view, or None
  failed,    \* a schedule_device_upload that drains after an error, or None
  copies,    \* transfers in flight on copy_stream_
  hops       \* copies from a slot into an entry, in flight on the compute stream

ringvars == <<busy, data, pool, staged, device_uploads, failed, copies, hops>>

Transfer == [slot : Slots, buf : Buffers]
Pending == {v \in Views : device_uploads[v] # None}
InUse == {device_uploads[v].buf : v \in Pending}
         \cup (IF failed = None THEN {} ELSE {failed.buf})

RingTypeOK ==
  /\ busy \in [Slots -> BOOLEAN]
  /\ data \in [Slots -> Views \cup {None}]
  /\ pool \subseteq Buffers
  /\ staged \in [Buffers -> Views \cup {None}]
  /\ device_uploads \in [Views -> Transfer \cup {None}]
  /\ failed \in Transfer \cup {None}
  /\ copies \subseteq Transfer
  /\ hops \subseteq [slot : Slots, view : Views]

RingInit ==
  /\ busy = [s \in Slots |-> FALSE]
  /\ data = [s \in Slots |-> None]
  /\ pool = {}
  /\ staged = [b \in Buffers |-> None]
  /\ device_uploads = [v \in Views |-> None]
  /\ failed = None
  /\ copies = {}
  /\ hops = {}

-----------------------------------------------------------------------------
\* Slot::ready and Slot::reusable; an event that was never recorded is complete.

Ready(s) == \A c \in copies : c.slot # s

\* Seeded fault: the hop's event is never recorded.
FaultReusable(s) == TRUE

Reusable(s) == \A h \in hops : h.slot # s

\* DeviceUploadRing::try_acquire passes over a slot that cannot grow.
TryAcquire(s) == ~busy[s] /\ Reusable(s)

\* PinnedStagingPool::acquire
AcquireBuffer(b) == IF pool = {} THEN b \in Buffers \ InUse ELSE b \in pool

-----------------------------------------------------------------------------
\* schedule_device_upload: the buffer is packed, the transfer enqueued.
Schedule(v) ==
  /\ failed = None
  /\ device_uploads[v] = None /\ Cardinality(Pending) < MaxPending
  /\ \E s \in Slots, b \in Buffers :
       /\ TryAcquire(s) /\ AcquireBuffer(b)
       /\ busy' = [busy EXCEPT ![s] = TRUE]
       /\ pool' = pool \ {b}
       /\ staged' = [staged EXCEPT ![b] = v]
       /\ copies' = copies \cup {[slot |-> s, buf |-> b]}
       /\ device_uploads' = [device_uploads EXCEPT ![v] = [slot |-> s, buf |-> b]]
  /\ UNCHANGED <<data, failed, hops>>

\* A CUDA call fails, before or after the transfer was enqueued.
ScheduleFails(v) ==
  /\ failed = None
  /\ device_uploads[v] = None /\ Cardinality(Pending) < MaxPending
  /\ \E s \in Slots, b \in Buffers :
       /\ TryAcquire(s) /\ AcquireBuffer(b)
       /\ busy' = [busy EXCEPT ![s] = TRUE]
       /\ pool' = pool \ {b}
       /\ staged' = [staged EXCEPT ![b] = v]
       /\ copies' \in {copies, copies \cup {[slot |-> s, buf |-> b]}}
       /\ failed' = [slot |-> s, buf |-> b]
  /\ UNCHANGED <<data, device_uploads, hops>>

\* Seeded fault: the catch block does not synchronise.
FaultDrained == TRUE

\* Its catch block: cudaStreamSynchronize, then slot and buffer are given back.
Drained == copies = {}

Drain ==
  /\ failed # None /\ Drained
  /\ pool' = pool \cup {failed.buf}
  /\ busy' = [busy EXCEPT ![failed.slot] = FALSE]
  /\ failed' = None
  /\ UNCHANGED <<data, staged, device_uploads, copies, hops>>

\* consume_device_upload waits for the transfer, gives the buffer back,
\* enqueues the hop with its event and releases the slot.
Consume(v) ==
  /\ failed = None /\ device_uploads[v] # None
  /\ LET s == device_uploads[v].slot IN
     /\ Ready(s)
     /\ pool' = pool \cup {device_uploads[v].buf}
     /\ busy' = [busy EXCEPT ![s] = FALSE]
     /\ hops' = hops \cup {[slot |-> s, view |-> v]}
  /\ device_uploads' = [device_uploads EXCEPT ![v] = None]
  /\ UNCHANGED <<data, staged, failed, copies>>

\* clear_pending_device_uploads, when the device runs out of memory.
Quiet == \A v \in Pending : Ready(device_uploads[v].slot)

ClearPending ==
  /\ failed = None /\ Quiet
  /\ busy' = [s \in Slots |-> busy[s] /\ \A v \in Pending : device_uploads[v].slot # s]
  /\ pool' = pool \cup InUse
  /\ device_uploads' = [v \in Views |-> None]
  /\ UNCHANGED <<data, staged, failed, copies, hops>>

\* set_resolution_scale: pending uploads are cleared, the pooled buffers freed
\* and the ring drained.
Rescale ==
  /\ failed = None /\ Quiet
  /\ busy' = [s \in Slots |-> busy[s] /\ \A v \in Pending : device_uploads[v].slot # s]
  /\ pool' = {}
  /\ staged' = [b \in Buffers |-> None]
  /\ device_uploads' = [v \in Views |-> None]
  /\ \A s \in Slots : Ready(s) /\ Reusable(s)
  /\ UNCHANGED <<data, failed, copies, hops>>

-----------------------------------------------------------------------------
\* The copy engine and the compute stream.

Copy(c) ==
  /\ data' = [data EXCEPT ![c.slot] = staged[c.buf]]
  /\ copies' = copies \ {c}
  /\ UNCHANGED <<busy, pool, staged, device_uploads, failed, hops>>

Hop(h) ==
  /\ hops' = hops \ {h}
  /\ UNCHANGED <<busy, data, pool, staged, device_uploads, failed, copies>>

RingNext ==
  \/ \E v \in Views : Schedule(v) \/ ScheduleFails(v) \/ Consume(v)
  \/ Drain \/ ClearPending \/ Rescale
  \/ \E c \in copies : Copy(c)
  \/ \E h \in hops : Hop(h)

RingSpec == RingInit /\ [][RingNext]_ringvars

-----------------------------------------------------------------------------
\* What a cache entry receives is its own view: while its hop is in flight the
\* slot holds that view and no transfer writes it (DeviceUploadRing: "reused
\* only after every reader finished").
HopsFindTheirView ==
  \A h \in hops : data[h.slot] = h.view /\ \A c \in copies : c.slot # h.slot

\* No buffer that the pool may hand out or free is still read by a transfer, and
\* no two transfers share one (PinnedStagingPool: "a subsequent upload can never
\* overwrite bytes still being consumed by DMA").
StagingIsQuiet ==
  \A c \in copies : c.buf \in InUse \ pool
                    /\ \A d \in copies : d.buf = c.buf => d = c

=============================================================================
