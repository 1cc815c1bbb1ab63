----------------------------- MODULE TrainingCache -----------------------------
(***************************************************************************)
(* The image caches of Gaussian training (splat/training_data_loader.cpp)  *)
(* under the loop of the trainer: views on the device, decoded views,      *)
(* compressed views, background decoding and compression, uploads in       *)
(* flight, the epoch plan that chooses what to evict, the feedback that    *)
(* resizes the device cache, and the changes of resolution.                *)
(*                                                                         *)
(* Every view has size 1 and every budget is a number of views.  A future  *)
(* is running or ready at the moment somebody asks.  Times only drive the  *)
(* lookahead and the feedback: both are choices here.                      *)
(***************************************************************************)
EXTENDS Integers, Sequences, FiniteSets, SequencesExt, TrainingViews

CONSTANT Configs  \* the configurations of a training, see MultiView and below

ASSUME TrainingCacheAssumption ==
  /\ IsFiniteSet(Views) /\ Views # {}
  /\ Configs \subseteq [multi : BOOLEAN, device : Nat, ceiling : Nat, host : Nat,
                         decoded : Nat, lookahead : Nat, scales : Nat \ {0}, changes : Nat]
  /\ \A c \in Configs : c.device <= c.ceiling /\ c.decoded <= c.host
  /\ None \notin [order : [1 .. Cardinality(Views) -> Views], cursor : Nat]

VARIABLES
  conf,       \* the configuration
  scale,      \* resolution_scale_
  device,     \* device_entries_, most recently used first
  uploads,    \* device_uploads_
  budget,     \* device_capacity_bytes_, and the growth under observation
  decoded,    \* entries_
  packed,     \* compressed_entries_
  room,       \* decoded_capacity_bytes_ and compressed_capacity_bytes_
  prefetches, \* prefetches_: what each background load started from
  packing,    \* compressions_
  order, cursor,  \* the trainer's shuffled_views and its cursor
  plan,       \* plan_position_, as the order it was made from, and plan_cursor_
  pc,         \* what the trainer is doing, for which view, and how far it is
  served,     \* what the last get() returned, and what it was asked for
  changes

vars == <<conf, scale, device, uploads, budget, decoded, packed, room, prefetches,
          packing, order, cursor, plan, pc, served, changes>>
loop == <<scale, order, cursor, plan>>
gpu == <<device, uploads, budget>>
host == <<decoded, packed, room, prefetches, packing>>

MultiView == conf.multi           \* multi_view_ncc_weight > 0: a step may ask for a neighbour
DeviceBudget == conf.device       \* device_floor_bytes_, the first device_capacity_bytes_
DeviceCeiling == conf.ceiling     \* device_ceiling_bytes_
HostBudget == conf.host           \* capacity_bytes_
DecodedBudget == conf.decoded     \* decoded_capacity_bytes_ when views are compressed
Lookahead == conf.lookahead       \* prefetch_limit()
MaxScale == conf.scales           \* bound on resolution scales
MaxChanges == conf.changes        \* bound on resized budgets, failed transfers and resets

\* An image: the view and the scale at which it was decoded.
Image == [view : Views, scale : 1 .. MaxScale]
Now(v) == [view |-> v, scale |-> scale]
N == Cardinality(Views)
Orders == {o \in [1 .. N -> Views] : \A i, j \in 1 .. N : o[i] = o[j] => i = j}

TypeOK ==
  /\ conf \in Configs /\ scale \in 1 .. MaxScale
  /\ \A s \in {device, decoded, packed} : s \in Seq(Image)
  /\ uploads \subseteq Image
  /\ budget \in [cap : 0 .. DeviceCeiling, before : 0 .. DeviceCeiling, saturated : BOOLEAN]
  /\ room \in [decoded : 0 .. HostBudget, packed : 0 .. HostBudget]
  /\ prefetches \in [Views -> [img : Image, hit : BOOLEAN] \cup {None}]
  /\ packing \in [Views -> Image \cup {None}]
  /\ order \in Orders /\ cursor \in 0 .. N
  /\ plan = None \/ (plan.order \in Orders /\ plan.cursor \in 0 .. N)
  /\ pc.at \in {"loop", "prefetch", "get", "neighbour"} /\ pc.pos \in 0 .. N
  /\ changes \in 0 .. MaxChanges

Loop == [at |-> "loop", pos |-> 0, part |-> "none"]

\* The caches of a new loader and after a change of resolution.
Emptied ==
  /\ device' = <<>> /\ uploads' = {}
  /\ budget' = [cap |-> DeviceBudget, before |-> 0, saturated |-> FALSE]
  /\ decoded' = <<>> /\ packed' = <<>>
  /\ room' = [decoded |-> DecodedBudget, packed |-> HostBudget - DecodedBudget]
  /\ prefetches' = [v \in Views |-> None]
  /\ packing' = [v \in Views |-> None]
  /\ served' = None

Init ==
  /\ conf \in Configs
  /\ scale = 1
  /\ device = <<>> /\ uploads = {}
  /\ budget = [cap |-> DeviceBudget, before |-> 0, saturated |-> FALSE]
  /\ decoded = <<>> /\ packed = <<>>
  /\ room = [decoded |-> DecodedBudget, packed |-> HostBudget - DecodedBudget]
  /\ prefetches = [v \in Views |-> None]
  /\ packing = [v \in Views |-> None]
  /\ order \in Orders /\ cursor = 0
  /\ plan = None
  /\ pc = Loop
  /\ served = None
  /\ changes = 0

Change == changes < MaxChanges /\ changes' = changes + 1

----------------------------------------------------------------------------
\* Entry lists.

Has(s, v) == \E k \in DOMAIN s : s[k].view = v
Position(s, v) == CHOOSE k \in DOMAIN s : s[k].view = v
Entry(s, v) == s[Position(s, v)]

\* Seeded fault: a hit stays where it is.
FaultTouch(s, v) == s
Touch(s, v) == <<Entry(s, v)>> \o RemoveAt(s, Position(s, v))

\* next_use_distance: requests until the plan comes to the view again
Distance(v) ==
  LET p == (CHOOSE k \in 1 .. N : plan.order[k] = v) - 1
      c == plan.cursor % N
  IN IF p >= c THEN p - c ELSE p + N - c

\* select_eviction_victim: the farthest next use, the tail without a plan
Victim(s) ==
  IF plan = None THEN Len(s)
  ELSE CHOOSE k \in DOMAIN s :
         \A j \in DOMAIN s : Distance(s[j].view) <= Distance(s[k].view)

Evict(s) == IF s = <<>> THEN s ELSE RemoveAt(s, Victim(s))

\* The loop that evicts until n entries are left; n may be negative.
Excess(s, n) == IF n < 0 THEN Len(s) ELSE IF Len(s) <= n THEN 0 ELSE Len(s) - n
Trim(s, n) ==
  LET left[k \in Nat] == IF k = 0 THEN s ELSE Evict(left[k - 1])
  IN left[Excess(s, n)]

----------------------------------------------------------------------------
\* The host side.

\* store_compressed_view
Packed(p, img, cap) ==
  IF Has(p, img.view) \/ cap = 0 THEN p ELSE <<img>> \o Trim(p, cap - 1)

\* store_host_view keeps one decoded view even without a budget.
Decoded(d, img, cap) ==
  IF Has(d, img.view) THEN Touch(d, img.view) ELSE <<img>> \o Trim(d, cap - 1)

\* accept_compression: too little saved, no more compression at this scale
GiveUp == /\ packed' = <<>>
          /\ room' = [decoded |-> HostBudget, packed |-> 0]

AcceptCompression(v) ==
  /\ pc.part = "packing" /\ packing[v] # None
  /\ packing' = [packing EXCEPT ![v] = None]
  /\ \/ packed' = Packed(packed, packing[v], room.packed) /\ UNCHANGED room
     \/ room.packed # 0 /\ GiveUp
  /\ UNCHANGED <<loop, gpu, decoded, prefetches, pc, served, changes>>

\* accept_host_load of a background load: what was decoded goes on to be
\* compressed, in at most two tasks; what was compressed stays so.
Accepted(load, v) ==
  /\ packing' = IF /\ ~load.hit /\ room.packed # 0 /\ packing[v] = None
                   /\ Cardinality({w \in Views : packing[w] # None}) < 2
                THEN [packing EXCEPT ![v] = load.img] ELSE packing
  /\ packed' = IF load.hit THEN Packed(packed, load.img, room.packed) ELSE packed
  /\ decoded' = Decoded(decoded, load.img, room.decoded)
  /\ prefetches' = [prefetches EXCEPT ![v] = None]
  /\ UNCHANGED room

AcceptPrefetch(v) ==
  /\ pc.part = "loads" /\ prefetches[v] # None
  /\ Accepted(prefetches[v], v)
  /\ UNCHANGED <<loop, gpu, pc, served, changes>>

\* collect_ready_host_prefetches, at the start of get and prefetch: all the
\* compressions that are ready, then all the loads that are.
Collected ==
  /\ pc.part \in {"packing", "loads"}
  /\ pc' = [pc EXCEPT !.part = IF @ = "packing" THEN "loads" ELSE "body"]
  /\ UNCHANGED <<loop, gpu, host, served, changes>>

\* host_view: the cached view, or the prefetched one, or a load on this
\* thread, which compresses what it decodes.
HostView(v) ==
  \/ /\ Has(decoded, v)
     /\ decoded' = Touch(decoded, v)
     /\ UNCHANGED <<packed, room, prefetches, packing>>
  \/ /\ ~Has(decoded, v) /\ prefetches[v] # None
     /\ Accepted(prefetches[v], v)
  \/ /\ ~Has(decoded, v) /\ prefetches[v] = None
     /\ \/ /\ Has(packed, v)
           /\ decoded' = Decoded(decoded, Entry(packed, v), room.decoded)
           /\ packed' = Touch(packed, v) /\ UNCHANGED room
        \/ /\ ~Has(packed, v)
           /\ \/ packed' = Packed(packed, Now(v), room.packed) /\ UNCHANGED room
              \/ room.packed # 0 /\ GiveUp
           /\ decoded' = Decoded(decoded, Now(v), room'.decoded)
     /\ UNCHANGED <<prefetches, packing>>

----------------------------------------------------------------------------
\* The device side.

\* make_room_for_device_bytes beside ups transfers, with a capacity of cap
MakeRoom(d, ups, incoming, cap) == Trim(d, cap - Cardinality(ups) - incoming)

\* Seeded fault: whether there is room now is not asked.
FaultInsert(d, ups, cap, img) ==
  IF cap = 0 THEN d ELSE <<img>> \o MakeRoom(d, ups, 1, cap)

\* insert_device_entry, if there is a cache and room in it
Insert(d, ups, cap, img) ==
  LET r == MakeRoom(d, ups, 1, cap) IN
  IF cap = 0 THEN d
  ELSE IF Len(r) + Cardinality(ups) + 1 <= cap THEN <<img>> \o r ELSE r

\* The capacities that the next growth may choose.
Grown(cap) == cap + 1 .. DeviceCeiling

\* evaluate_device_budget on the list d: memory is short, a growth is judged,
\* or the next growth begins.  It runs once per window, never beside a transfer.
Outcome(cap, before, saturated, d) ==
  [budget |-> [cap |-> cap, before |-> before, saturated |-> saturated],
   device |-> MakeRoom(d, {}, 0, cap), changes |-> changes + 1]

Evaluated(d) ==
  LET cap == budget.cap
      low == IF cap \div 2 > DeviceBudget THEN cap \div 2 ELSE DeviceBudget
  IN {Outcome(low, 0, budget.saturated, d)}
     \cup {o \in {Outcome(cap, 0, budget.saturated, d), Outcome(budget.before, 0, TRUE, d)} :
             budget.before # 0}
     \cup {o \in {Outcome(n, cap, FALSE, d) : n \in Grown(cap)} :
             budget.before = 0 /\ ~budget.saturated}

\* note_device_cache_access
Feedback(d) ==
  {[budget |-> budget, device |-> d, changes |-> changes]}
  \cup {o \in Evaluated(d) : changes < MaxChanges /\ uploads = {} /\ budget.cap # 0}

Serve(v, img) == served' = [asked |-> v, img |-> img]

\* A view on the device moves to the front, then comes the feedback, then the
\* front is returned (nothing is there if all was evicted: undefined).
GetResident(v) ==
  /\ Has(device, v)
  /\ \E o \in Feedback(Touch(device, v)) :
       /\ budget' = o.budget /\ device' = o.device /\ changes' = o.changes
       /\ Serve(v, IF o.device = <<>> THEN None ELSE Head(o.device))
  /\ UNCHANGED <<uploads, host>>

\* The transfer in flight is consumed, or it has failed and the host serves.
GetUploaded(v) ==
  /\ ~Has(device, v)
  /\ \E u \in uploads :
       /\ u.view = v
       /\ uploads' = uploads \ {u}
       /\ \/ /\ Serve(v, u)
             /\ device' = Insert(device, uploads', budget.cap, u)
             /\ UNCHANGED <<host, changes>>
          \/ /\ Change /\ HostView(v) /\ Serve(v, Head(decoded'))
             /\ device' = Insert(device, uploads', budget.cap, Head(decoded'))
  /\ UNCHANGED budget

GetMissing(v) ==
  /\ ~Has(device, v) /\ \A u \in uploads : u.view # v
  /\ HostView(v)
  /\ \E o \in Feedback(device) :
       /\ budget' = o.budget /\ changes' = o.changes
       /\ device' = Insert(o.device, uploads, o.budget.cap, Head(decoded'))
  /\ Serve(v, Head(decoded'))
  /\ UNCHANGED uploads

Get(v) == GetResident(v) \/ GetUploaded(v) \/ GetMissing(v)

\* schedule_device_upload: room is made before a slot is asked for.
Upload(v) ==
  /\ budget.cap # 0 /\ Cardinality(uploads) < 2
  /\ device' = MakeRoom(device, uploads, 1, budget.cap)
  /\ \/ /\ Len(device') + Cardinality(uploads) + 1 <= budget.cap
        /\ uploads' = uploads \cup {Entry(decoded, v)}
     \/ UNCHANGED uploads
  /\ UNCHANGED <<budget, host>>

\* A background load of what is neither on the device nor on the host.
Load(v) ==
  /\ prefetches[v] = None
  /\ Cardinality({w \in Views : prefetches[w] # None}) < Lookahead
  /\ prefetches' = [prefetches EXCEPT ![v] =
       [hit |-> Has(packed, v), img |-> IF Has(packed, v) THEN Entry(packed, v) ELSE Now(v)]]
  /\ packed' = IF Has(packed, v) THEN Touch(packed, v) ELSE packed
  /\ UNCHANGED <<gpu, decoded, room, packing>>

Prefetch(v) ==
  LET known == Has(device, v) \/ \E u \in uploads : u.view = v IN
  \/ ~known /\ Has(decoded, v) /\ Upload(v)
  \/ ~known /\ ~Has(decoded, v) /\ Load(v)
  \/ UNCHANGED <<gpu, host>>

----------------------------------------------------------------------------
\* The loop of the trainer.

\* Seeded fault: background loads are not waited for.
FaultNextScale ==
  /\ pc.at = "loop" /\ scale < MaxScale
  /\ scale' = scale + 1
  /\ device' = <<>> /\ uploads' = {} /\ decoded' = <<>> /\ packed' = <<>>
  /\ packing' = [v \in Views |-> None]
  /\ served' = None
  /\ order' \in Orders /\ cursor' = 0
  /\ UNCHANGED <<budget, room, prefetches, plan, pc, changes>>

\* set_resolution_scale waits for all work at the old scale and drops it.
NextScale ==
  /\ pc.at = "loop" /\ scale < MaxScale
  /\ scale' = scale + 1
  /\ Emptied
  /\ order' \in Orders /\ cursor' = 0
  /\ UNCHANGED <<plan, pc, changes>>

\* The supervision by priors begins: a new loader.
Priors ==
  /\ pc.at = "loop" /\ Change
  /\ Emptied /\ plan' = None
  /\ UNCHANGED <<scale, order, cursor, pc>>

\* ensure_device_headroom: training needs the memory, no device cache any more.
Headroom ==
  /\ pc.at = "loop" /\ Change
  /\ device' = <<>> /\ uploads' = {} /\ budget' = [budget EXCEPT !.cap = 0]
  /\ UNCHANGED <<loop, host, pc, served>>

\* set_epoch_plan(order, cursor): positions are mapped anew when the cursor
\* has moved backwards.
Planned(o, c) ==
  plan' = [order |-> IF plan = None \/ c < plan.cursor THEN o ELSE plan.order,
           cursor |-> c]

\* The next iteration: a new epoch at the end of one, the plan, the lookahead.
Iterate ==
  /\ pc.at = "loop"
  /\ \/ cursor < N /\ UNCHANGED <<order, cursor>>
     \/ cursor = N /\ order' \in Orders /\ cursor' = 0
  /\ Planned(order', cursor')
  /\ pc' = [at |-> "prefetch", pos |-> cursor' + 1, part |-> "none"]
  /\ UNCHANGED <<scale, gpu, host, served, changes>>

\* The next call: the adaptive lookahead may end before Lookahead.
Call ==
  /\ pc.part = "none"
  /\ \/ /\ pc.at = "prefetch" /\ pc.pos < N /\ pc.pos <= cursor + Lookahead
        /\ pc' = [pc EXCEPT !.pos = @ + 1, !.part = "packing"]
        /\ UNCHANGED cursor
     \/ /\ pc.at = "prefetch"
        /\ pc' = [at |-> "get", pos |-> cursor + 1, part |-> "packing"]
        /\ cursor' = cursor + 1
     \/ /\ pc.at = "neighbour" /\ MultiView
        /\ \E k \in 1 .. N : order[k] # served.asked /\ pc' = [pc EXCEPT !.pos = k, !.part = "packing"]
        /\ UNCHANGED cursor
     \/ pc.at = "neighbour" /\ pc' = Loop /\ UNCHANGED cursor
  /\ UNCHANGED <<scale, order, plan, gpu, host, served, changes>>

DoPrefetch ==
  /\ pc.at = "prefetch" /\ pc.part = "body"
  /\ Prefetch(order[pc.pos])
  /\ pc' = [pc EXCEPT !.part = "none"]
  /\ UNCHANGED <<loop, served, changes>>

DoGet ==
  /\ pc.at \in {"get", "neighbour"} /\ pc.part = "body"
  /\ Get(order[pc.pos])
  /\ pc' = IF pc.at = "get" THEN [at |-> "neighbour", pos |-> 0, part |-> "none"] ELSE Loop
  /\ UNCHANGED loop

Next ==
  /\ UNCHANGED conf
  /\ \/ NextScale \/ Priors \/ Headroom \/ Iterate \/ Call
     \/ Collected \/ DoPrefetch \/ DoGet
     \/ \E v \in Views : AcceptCompression(v) \/ AcceptPrefetch(v)

Spec == Init /\ [][Next]_vars

----------------------------------------------------------------------------
(* Properties *)

Images == uploads \cup (UNION {ToSet(s) : s \in {device, decoded, packed}})
          \cup {prefetches[v].img : v \in {w \in Views : prefetches[w] # None}}
          \cup {packing[v] : v \in {w \in Views : packing[w] # None}}

\* get() returns the view that was asked for, at the current resolution,
\* wherever it came from and whatever was evicted meanwhile
\* (training_data_loader.cpp, get_impl).  Two hits on the device are excepted,
\* which the feedback may evict for another view before they are returned: that
\* of a neighbour, which the plan may need last, and any hit while the plan is
\* still that of the order before a change of resolution.
MayBeEvicted == pc.at = "neighbour" \/ plan.order # order

ServedIsAsked ==
  [][DoGet => \/ served'.img = Now(served'.asked)
              \/ Has(device, order[pc.pos]) /\ MayBeEvicted]_vars

\* No cache, transfer or background task carries an image of another
\* resolution (training_data_loader.cpp, set_resolution_scale).
ImagesAreCurrent == \A img \in Images : img.scale = scale

\* The device cache with its transfers, and the compressed views, keep their
\* budgets; one decoded view may exceed its own.
WithinBudgets ==
  /\ Len(device) + Cardinality(uploads) <= budget.cap
  /\ Len(decoded) <= room.decoded \/ Len(decoded) = 1
  /\ Len(packed) <= room.packed

=============================================================================
