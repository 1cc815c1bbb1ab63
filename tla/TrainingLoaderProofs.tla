------------------------- MODULE TrainingLoaderProofs -------------------------
(***************************************************************************)
(* The loader of training views (splat/training_data_loader.cpp), for      *)
(* every number of views: TrainingCache with every configuration of the    *)
(* caches, then UploadRing with every number of slots and buffers.         *)
(*                                                                         *)
(* Every image in a list, in flight or in a background task is of the      *)
(* resolution of now, the caches keep their budgets, and get serves what   *)
(* it was asked for.  The invariant adds where the loop of the trainer is  *)
(* in its plan: what get asks for is what the plan needs next, so the      *)
(* feedback evicts it last.  The loop that evicts is a recursive function: *)
(* that it exists and what it leaves is proved by induction over sets of   *)
(* numbers (SetInduction, Iterates).                                       *)
(*                                                                         *)
(* Below, an entry receives its own view and no transfer reads a buffer    *)
(* that the pool may hand out, in every order in which the streams get on. *)
(* Neither is inductive: that a hop's slot keeps its view rests on every   *)
(* transfer belonging to an upload which owns its slot, and that on the    *)
(* slots and buffers of uploads being distinct and out of the pool.        *)
(***************************************************************************)
EXTENDS TrainingCache, UploadRing, FiniteSetTheorems, SequenceTheorems, TLAPS

----------------------------------------------------------------------------
(* Induction and recursion over the natural numbers *)

\* A set of numbers has a least one.
LEMMA LeastNat ==
  ASSUME NEW T \in SUBSET Nat, T # {}
  PROVE  \E x \in T : \A y \in T : x <= y
<1> DEFINE R == {p \in Nat \X Nat : p[1] < p[2]}
<1>1. IsWellFoundedOn(R, Nat)
  BY NatLessThanWellFounded DEF OpToRel
<1>2. PICK x \in T : \A y \in T : ~ (<<y, x>> \in R)
  <2> HIDE DEF R
  <2> QED BY <1>1, WFMin
<1>3. \A a, b \in Nat : a < b => <<a, b>> \in R
  OBVIOUS
<1>4. \A y \in T : x <= y
  <2> HIDE DEF R
  <2> TAKE y \in T
  <2>1. y \in Nat /\ x \in Nat
    OBVIOUS
  <2>2. ~ (<<y, x>> \in R)
    BY <1>2
  <2>3. ~ (y < x)
    BY <2>1, <2>2, <1>3
  <2> QED BY <2>1, <2>3
<1> QED
  BY <1>4

LEMMA SetInduction ==
  ASSUME NEW S, 0 \in S, \A n \in Nat : n \in S => n + 1 \in S
  PROVE  Nat \subseteq S
<1> SUFFICES ASSUME Nat \ S # {} PROVE FALSE
  OBVIOUS
<1>1. PICK x \in Nat \ S : \A y \in Nat \ S : x <= y
  BY LeastNat
<1>2. x - 1 \in Nat /\ x - 1 \in S
  BY <1>1
<1> QED
  BY <1>1, <1>2

\* A function defined by recursion on Nat exists.
Iterates(S, x, F) == \E g \in [Nat -> S] : g[0] = x /\ \A n \in Nat : g[n + 1] = F[g[n]]

LEMMA Recursion ==
  ASSUME NEW S, NEW x \in S, NEW F \in [S -> S]
  PROVE  Iterates(S, x, F)
<1> DEFINE Part(n, h) == h[0] = x /\ \A k \in 1 .. n : h[k] = F[h[k - 1]]
           P == {n \in Nat : \E h \in [Nat -> S] : Part(n, h)}
<1>1. 0 \in P
  <2>1. [k \in Nat |-> x] \in [Nat -> S] /\ Part(0, [k \in Nat |-> x])
    OBVIOUS
  <2> QED
    BY <2>1
<1>2. \A n \in Nat : n \in P => n + 1 \in P
  <2> TAKE n \in Nat
  <2> HAVE n \in P
  <2>1. PICK h \in [Nat -> S] : Part(n, h)
    OBVIOUS
  <2> DEFINE k == [h EXCEPT ![n + 1] = F[h[n]]]
  <2>2. k \in [Nat -> S] /\ k[0] = x /\ k[n + 1] = F[k[n]]
    BY <2>1
  <2>3. \A i \in 1 .. n : k[i] = F[k[i - 1]]
    BY <2>1
  <2>4. \A i \in 1 .. n + 1 : i \in 1 .. n \/ i = n + 1
    OBVIOUS
  <2>5. Part(n + 1, k)
    <3> HIDE DEF k
    <3> QED BY <2>2, <2>3, <2>4
  <2>6. \E h1 \in [Nat -> S] : Part(n + 1, h1)
    <3> HIDE DEF k, Part
    <3> QED BY <2>2, <2>5
  <2> QED
    BY <2>6
<1>3. Nat \subseteq P
  <2> HIDE DEF P
  <2> QED BY <1>1, <1>2, SetInduction
<1>4. \A n \in Nat : \A h, k \in [Nat -> S] : Part(n, h) /\ Part(n, k) => h[n] = k[n]
  <2> DEFINE Q == {n \in Nat : \A h, k \in [Nat -> S] : Part(n, h) /\ Part(n, k) => h[n] = k[n]}
  <2>1. 0 \in Q
    OBVIOUS
  <2>2. \A n \in Nat : n \in Q => n + 1 \in Q
    <3> SUFFICES ASSUME NEW n \in Nat, n \in Q, NEW h \in [Nat -> S], NEW k \in [Nat -> S],
                        Part(n + 1, h), Part(n + 1, k)
                 PROVE  h[n + 1] = k[n + 1]
      OBVIOUS
    <3>1. Part(n, h) /\ Part(n, k)
      OBVIOUS
    <3>2. h[n] = k[n]
      BY <3>1
    <3>3. h[n + 1] = F[h[n]] /\ k[n + 1] = F[k[n]]
      OBVIOUS
    <3> QED
      BY <3>2, <3>3
  <2>3. Nat \subseteq Q
    <3> HIDE DEF Q
    <3> QED BY <2>1, <2>2, SetInduction
  <2> QED
    BY <2>3
<1> DEFINE H(n) == CHOOSE h \in [Nat -> S] : Part(n, h)
           g == [n \in Nat |-> H(n)[n]]
<1>5. \A n \in Nat : H(n) \in [Nat -> S] /\ Part(n, H(n))
  BY <1>3
<1>6. g \in [Nat -> S]
  <2> HIDE DEF H, Part
  <2> QED BY <1>5
<1>7. g[0] = x
  <2> HIDE DEF H
  <2> QED BY <1>5
<1>8. \A n \in Nat : n # 0 => g[n] = F[g[n - 1]]
  <2> TAKE n \in Nat
  <2> HAVE n # 0
  <2>1. Part(n - 1, H(n)) /\ n - 1 \in Nat
    <3> HIDE DEF H
    <3> QED BY <1>5
  <2>2. H(n)[n - 1] = H(n - 1)[n - 1]
    <3> HIDE DEF Part, H
    <3> QED BY <2>1, <1>4, <1>5
  <2>3. H(n)[n] = F[H(n)[n - 1]]
    <3> HIDE DEF H
    <3> QED BY <1>5
  <2> QED
    BY <2>1, <2>2, <2>3
<1>9. \A n \in Nat : g[n + 1] = F[g[n]]
  <2> TAKE n \in Nat
  <2>1. n + 1 \in Nat /\ n + 1 # 0 /\ (n + 1) - 1 = n
    OBVIOUS
  <2> HIDE DEF g
  <2> QED BY <1>8, <2>1
<1> QED
  <2> HIDE DEF g
  <2> QED BY <1>6, <1>7, <1>9 DEF Iterates

----------------------------------------------------------------------------
\* Entry lists.

LEMMA Removed ==
  ASSUME NEW S, NEW s \in Seq(S), NEW i \in 1 .. Len(s)
  PROVE  /\ RemoveAt(s, i) \in Seq(S)
         /\ Len(RemoveAt(s, i)) = Len(s) - 1
         /\ \A k \in 1 .. Len(s) - 1 : RemoveAt(s, i)[k] = IF k < i THEN s[k] ELSE s[k + 1]
<1> DEFINE a == SubSeq(s, 1, i - 1)
           b == SubSeq(s, i + 1, Len(s))
<1>1. \A k \in 1 .. Len(s) : s[k] \in S
  BY ElementOfSeq
<1>2. Len(s) \in Nat
  BY LenProperties
<1>3. /\ a \in Seq(S) /\ Len(a) = i - 1
      /\ \A k \in 1 .. i - 1 : a[k] = s[k]
  <2>1. \A k \in 1 .. i - 1 : s[k] \in S
    BY <1>1, <1>2
  <2>2. /\ SubSeq(s, 1, i - 1) \in Seq(S)
        /\ Len(SubSeq(s, 1, i - 1)) = IF 1 <= i - 1 THEN (i - 1) - 1 + 1 ELSE 0
        /\ \A k \in 1 .. (i - 1) - 1 + 1 : SubSeq(s, 1, i - 1)[k] = s[1 + k - 1]
    BY <1>2, <2>1, SubSeqProperties
  <2> QED
    BY <1>2, <2>2
<1>4. /\ b \in Seq(S) /\ Len(b) = Len(s) - i
      /\ \A k \in 1 .. Len(s) - i : b[k] = s[i + k]
  <2>1. \A k \in i + 1 .. Len(s) : s[k] \in S
    BY <1>1, <1>2
  <2>2. /\ SubSeq(s, i + 1, Len(s)) \in Seq(S)
        /\ Len(SubSeq(s, i + 1, Len(s))) = IF i + 1 <= Len(s) THEN Len(s) - (i + 1) + 1 ELSE 0
        /\ \A k \in 1 .. Len(s) - (i + 1) + 1 : SubSeq(s, i + 1, Len(s))[k] = s[(i + 1) + k - 1]
    BY <1>2, <2>1, SubSeqProperties
  <2> QED
    BY <1>2, <2>2
<1>5. /\ a \o b \in Seq(S) /\ Len(a \o b) = Len(a) + Len(b)
      /\ \A k \in 1 .. Len(a) + Len(b) : (a \o b)[k] = IF k <= Len(a) THEN a[k] ELSE b[k - Len(a)]
  <2> HIDE DEF a, b
  <2> QED BY <1>3, <1>4, ConcatProperties
<1>6. RemoveAt(s, i) = a \o b
  BY DEF RemoveAt
<1> HIDE DEF a, b
<1>7. \A k \in 1 .. Len(s) - 1 : (a \o b)[k] = IF k < i THEN s[k] ELSE s[k + 1]
  BY <1>2, <1>3, <1>4, <1>5
<1>8. Len(a \o b) = Len(s) - 1
  BY <1>2, <1>3, <1>4, <1>5
<1> QED
  BY <1>5, <1>6, <1>7, <1>8

\* A list of images of the views.
PlanOK == plan = None \/ (plan.order \in Orders /\ plan.cursor \in 0 .. N)

LEMMA ViewCount == N \in Nat \ {0}
  BY TrainingCacheAssumption, FS_CardinalityType, FS_EmptySet DEF N

\* A plan gives every view one place, so the next view is the only one at distance 0.
LEMMA DistanceType ==
  ASSUME PlanOK, plan # None, NEW v \in Views
  PROVE  /\ Distance(v) \in 0 .. N - 1
         /\ Distance(v) = 0 <=> plan.order[(plan.cursor % N) + 1] = v
<1>1. plan.order \in [1 .. N -> Views] /\ \A i, j \in 1 .. N : plan.order[i] = plan.order[j] => i = j
  BY DEF PlanOK, Orders
<1>2. plan.order \in Surjection(1 .. N, Views)
  <2>1. plan.order \in Injection(1 .. N, Views)
    BY <1>1 DEF Injection, IsInjective
  <2>2. IsFiniteSet(1 .. N) /\ Cardinality(1 .. N) = N
    BY ViewCount, FS_Interval
  <2>3. IsFiniteSet(Views) /\ Cardinality(Views) = N
    BY TrainingCacheAssumption DEF N
  <2> QED
    BY <2>1, <2>2, <2>3, FS_Injection
<1>3. PICK k \in 1 .. N : plan.order[k] = v
  BY <1>2 DEF Surjection
<1> DEFINE at == CHOOSE i \in 1 .. N : plan.order[i] = v
<1>4. at \in 1 .. N /\ plan.order[at] = v
  BY <1>3
<1>5. plan.cursor % N \in 0 .. N - 1
  BY ViewCount DEF PlanOK
<1>6. Distance(v) = IF at - 1 >= plan.cursor % N THEN at - 1 - (plan.cursor % N)
                                                 ELSE at - 1 + N - (plan.cursor % N)
  BY DEF Distance
<1>7. plan.order[(plan.cursor % N) + 1] = v <=> at = (plan.cursor % N) + 1
  <2>1. (plan.cursor % N) + 1 \in 1 .. N
    BY <1>5, ViewCount
  <2> HIDE DEF at
  <2> QED BY <1>1, <1>4, <2>1
<1> HIDE DEF at
<1> QED
  BY <1>4, <1>5, <1>6, <1>7, ViewCount

\* Something can always be evicted, and with a plan nothing else is needed later.
LEMMA VictimType ==
  ASSUME PlanOK, NEW s \in Seq(Image), s # <<>>
  PROVE  /\ Victim(s) \in 1 .. Len(s)
         /\ plan # None => \A j \in 1 .. Len(s) : Distance(s[j].view) <= Distance(s[Victim(s)].view)
<1>1. Len(s) \in Nat \ {0} /\ DOMAIN s = 1 .. Len(s)
  BY EmptySeq, LenProperties
<1>2. CASE plan = None
  BY <1>1, <1>2 DEF Victim
<1>3. CASE plan # None
  <2>1. \A k \in 1 .. Len(s) : s[k].view \in Views
    <3> TAKE k \in 1 .. Len(s)
    <3>1. s[k] \in Image
      BY ElementOfSeq
    <3> QED
      BY <3>1 DEF Image
  <2>2. \A k \in 1 .. Len(s) : Distance(s[k].view) \in 0 .. N - 1
    BY <1>3, <2>1, DistanceType
  <2> DEFINE T == {N - Distance(s[k].view) : k \in 1 .. Len(s)}
  <2>3. T \in SUBSET Nat /\ T # {}
    BY <1>1, <2>2, ViewCount
  <2>4. PICK x \in T : \A y \in T : x <= y
    <3> HIDE DEF T
    <3> QED BY <2>3, LeastNat
  <2>5. PICK k \in 1 .. Len(s) : x = N - Distance(s[k].view)
    BY <2>4
  <2>6. \A j \in 1 .. Len(s) : x <= N - Distance(s[j].view)
    BY <2>4
  <2>7. \A j \in 1 .. Len(s) : Distance(s[j].view) <= Distance(s[k].view)
    <3> TAKE j \in 1 .. Len(s)
    <3>1. Distance(s[j].view) \in Nat /\ Distance(s[k].view) \in Nat /\ N \in Nat
      BY <2>2, ViewCount
    <3> QED
      BY <2>5, <2>6, <3>1
  <2>8. Victim(s) = CHOOSE i \in 1 .. Len(s) :
                      \A j \in 1 .. Len(s) : Distance(s[j].view) <= Distance(s[i].view)
    BY <1>1, <1>3 DEF Victim
  <2> QED
    BY <2>7, <2>8
<1> QED
  BY <1>2, <1>3

\* The view that is needed next is not evicted while there is another one.
LEMMA Evicted ==
  ASSUME PlanOK, NEW S, S \subseteq Image, NEW s \in Seq(S), s # <<>>
  PROVE  /\ Evict(s) \in Seq(S) /\ Len(Evict(s)) = Len(s) - 1
         /\ plan # None /\ Len(s) > 1 /\ Distance(s[1].view) = 0 => Evict(s)[1].view = s[1].view
<1>1. Len(s) \in Nat \ {0}
  BY EmptySeq, LenProperties
<1>2. s \in Seq(Image)
  BY SeqMonotonic
<1> DEFINE i == Victim(s)
<1>3. i \in 1 .. Len(s)
  BY <1>2, VictimType
<1>4. Evict(s) = RemoveAt(s, i)
  BY DEF Evict
<1>5. /\ Evict(s) \in Seq(S) /\ Len(Evict(s)) = Len(s) - 1
      /\ \A k \in 1 .. Len(s) - 1 : Evict(s)[k] = IF k < i THEN s[k] ELSE s[k + 1]
  <2> HIDE DEF i
  <2> QED BY <1>3, <1>4, Removed
<1>6. ASSUME plan # None, Len(s) > 1, Distance(s[1].view) = 0
      PROVE  Evict(s)[1].view = s[1].view
  <2>1. CASE i > 1
    BY <1>1, <1>3, <1>5, <1>6, <2>1
  <2>2. CASE i = 1
    <3>1. Distance(s[2].view) <= 0
      BY <1>1, <1>2, <1>6, <2>2, VictimType
    <3>2. s[1].view \in Views /\ s[2].view \in Views
      <4>1. s[1] \in Image /\ s[2] \in Image
        BY <1>1, <1>2, <1>6, ElementOfSeq
      <4> QED
        BY <4>1 DEF Image
    <3>3. Distance(s[2].view) = 0
      BY <1>6, <3>1, <3>2, DistanceType, ViewCount
    <3>4. s[2].view = s[1].view
      BY <1>6, <3>2, <3>3, DistanceType
    <3>5. Evict(s)[1] = s[2]
      BY <1>1, <1>5, <1>6, <2>2
    <3> QED
      BY <3>4, <3>5
  <2> QED
    BY <1>3, <2>1, <2>2
<1> QED
  BY <1>5, <1>6

\* What the eviction loop leaves.
LEMMA Trimmed ==
  ASSUME PlanOK, NEW S, S \subseteq Image, NEW s \in Seq(S), NEW n \in Int
  PROVE  /\ Trim(s, n) \in Seq(S)
         /\ Len(Trim(s, n)) = IF n < 0 THEN 0 ELSE IF Len(s) <= n THEN Len(s) ELSE n
         /\ plan # None /\ n > 0 /\ s # <<>> /\ Distance(s[1].view) = 0
              => Trim(s, n)[1].view = s[1].view
<1> DEFINE left[k \in Nat] == IF k = 0 THEN s ELSE Evict(left[k - 1])
           F == [l \in Seq(S) |-> Evict(l)]
<1>1. Len(s) \in Nat
  BY LenProperties
<1>2. F \in [Seq(S) -> Seq(S)]
  <2>1. \A l \in Seq(S) : Evict(l) \in Seq(S)
    <3> TAKE l \in Seq(S)
    <3>1. CASE l = <<>>
      BY <3>1 DEF Evict
    <3>2. CASE l # <<>>
      BY <3>2, Evicted
    <3> QED
      BY <3>1, <3>2
  <2> QED
    BY <2>1
<1>3. PICK g \in [Nat -> Seq(S)] : g[0] = s /\ \A k \in Nat : g[k + 1] = F[g[k]]
  <2>1. Iterates(Seq(S), s, F)
    <3> HIDE DEF F, left
    <3> QED BY <1>2, Recursion
  <2> HIDE DEF F
  <2> QED BY <2>1 DEF Iterates
<1>4. g = [k \in Nat |-> IF k = 0 THEN s ELSE Evict(g[k - 1])]
  <2>1. \A k \in Nat : F[g[k]] = Evict(g[k])
    OBVIOUS
  <2> HIDE DEF F
  <2>2. \A k \in Nat : k # 0 => g[k] = Evict(g[k - 1])
    <3> TAKE k \in Nat
    <3> HAVE k # 0
    <3>1. k - 1 \in Nat /\ (k - 1) + 1 = k
      OBVIOUS
    <3> QED BY <1>3, <2>1, <3>1
  <2> QED BY <1>3, <2>2
<1>5. left = [k \in Nat |-> IF k = 0 THEN s ELSE Evict(left[k - 1])]
  BY <1>4
<1> HIDE DEF left
<1>6. left[0] = s /\ \A k \in Nat : left[k + 1] = Evict(left[k])
  BY <1>5
<1> DEFINE Fact(k) ==
             k <= Len(s) =>
               /\ left[k] \in Seq(S) /\ Len(left[k]) = Len(s) - k
               /\ plan # None /\ k < Len(s) /\ Distance(s[1].view) = 0 => left[k][1].view = s[1].view
           Q == {k \in Nat : Fact(k)}
<1>7. Fact(0)
  BY <1>1, <1>6
<1>8. \A k \in Nat : Fact(k) => Fact(k + 1)
  <2> SUFFICES ASSUME NEW k \in Nat, Fact(k), k + 1 <= Len(s)
               PROVE  /\ left[k + 1] \in Seq(S) /\ Len(left[k + 1]) = Len(s) - (k + 1)
                      /\ plan # None /\ k + 1 < Len(s) /\ Distance(s[1].view) = 0
                           => left[k + 1][1].view = s[1].view
    OBVIOUS
  <2>1. /\ left[k] \in Seq(S) /\ Len(left[k]) = Len(s) - k
        /\ plan # None /\ Distance(s[1].view) = 0 => left[k][1].view = s[1].view
    <3>1. k <= Len(s) /\ k < Len(s)
      BY <1>1
    <3>2. Fact(k)
      OBVIOUS
    <3> QED
      BY <3>1, <3>2
  <2>2. left[k] # <<>>
    <3>1. Len(left[k]) # 0
      BY <1>1, <2>1
    <3> QED
      BY <3>1, EmptySeq
  <2>3. left[k + 1] = Evict(left[k])
    BY <1>6
  <2>4. /\ Evict(left[k]) \in Seq(S) /\ Len(Evict(left[k])) = Len(left[k]) - 1
        /\ plan # None /\ Len(left[k]) > 1 /\ Distance(left[k][1].view) = 0
             => Evict(left[k])[1].view = left[k][1].view
    BY <2>1, <2>2, Evicted
  <2> QED
    BY <1>1, <2>1, <2>3, <2>4
<1>9. \A k \in Nat : Fact(k)
  <2> HIDE DEF Fact
  <2>1. 0 \in Q /\ \A k \in Nat : k \in Q => k + 1 \in Q
    BY <1>7, <1>8
  <2>2. Nat \subseteq Q
    <3> HIDE DEF Q
    <3> QED BY <2>1, SetInduction
  <2> QED
    BY <2>2
<1>10. Trim(s, n) = left[Excess(s, n)]
  BY DEF Trim, left
<1>11. /\ Excess(s, n) \in Nat /\ Excess(s, n) <= Len(s)
       /\ Len(s) - Excess(s, n) = IF n < 0 THEN 0 ELSE IF Len(s) <= n THEN Len(s) ELSE n
       /\ n > 0 /\ Len(s) > 0 => Excess(s, n) < Len(s)
  BY <1>1 DEF Excess
<1>12. s # <<>> => Len(s) > 0
  BY <1>1, EmptySeq
<1> QED
  BY <1>9, <1>10, <1>11, <1>12
----------------------------------------------------------------------------
\* The invariant.

\* An image at the resolution of now.
Current == [view : Views, scale : {scale}]

LoopTypes ==
  /\ conf \in Configs /\ scale \in 1 .. MaxScale
  /\ order \in Orders /\ cursor \in 0 .. N /\ PlanOK
  /\ changes \in 0 .. MaxChanges
  /\ pc \in [at : {"loop", "prefetch", "get", "neighbour"}, pos : 0 .. N,
             part : {"none", "packing", "loads", "body"}]

\* A call has a place in the order; the plan is at the request that get serves.
Places ==
  /\ pc.part # "none" => pc.at # "loop" /\ pc.pos # 0
  /\ pc.at = "prefetch" => plan # None /\ plan.cursor = cursor /\ cursor # N /\ pc.pos # 0
  /\ pc.at = "get" => plan # None /\ plan.cursor = cursor - 1 /\ pc.pos = cursor /\ cursor # 0

\* What the host keeps and decodes is current; a background load is of its view.
HostInv ==
  /\ decoded \in Seq(Current) /\ packed \in Seq(Current)
  /\ prefetches \in [Views -> [img : Current, hit : BOOLEAN] \cup {None}]
  /\ \A v \in Views : prefetches[v] # None => prefetches[v].img.view = v
  /\ packing \in [Views -> Current \cup {None}]
  /\ room \in [decoded : 0 .. HostBudget, packed : 0 .. HostBudget]
  /\ Len(decoded) <= room.decoded \/ Len(decoded) = 1
  /\ Len(packed) <= room.packed

\* A device cache that has no budget in the beginning never gets one.
DeviceInv ==
  /\ device \in Seq(Current) /\ uploads \subseteq Current /\ IsFiniteSet(uploads)
  /\ budget \in [cap : 0 .. DeviceCeiling, before : 0 .. DeviceCeiling, saturated : BOOLEAN]
  /\ budget.cap # 0 => DeviceBudget # 0
  /\ Len(device) + Cardinality(uploads) <= budget.cap

IInv == LoopTypes /\ Places /\ HostInv /\ DeviceInv

LEMMA Constants ==
  ASSUME conf \in Configs
  PROVE  /\ DeviceBudget \in Nat /\ DeviceCeiling \in Nat /\ HostBudget \in Nat
         /\ DecodedBudget \in Nat /\ Lookahead \in Nat /\ MaxChanges \in Nat
         /\ MaxScale \in Nat \ {0}
         /\ DeviceBudget <= DeviceCeiling /\ DecodedBudget <= HostBudget
  BY TrainingCacheAssumption
  DEF DeviceBudget, DeviceCeiling, HostBudget, DecodedBudget, Lookahead, MaxChanges, MaxScale

LEMMA CurrentIsImage == LoopTypes => Current \subseteq Image
  BY Constants DEF LoopTypes, Current, Image

----------------------------------------------------------------------------
\* The host side.

LEMMA FirstOf ==
  ASSUME NEW S, NEW x \in S, NEW s \in Seq(S)
  PROVE  /\ <<x>> \o s \in Seq(S) /\ Len(<<x>> \o s) = Len(s) + 1
         /\ (<<x>> \o s)[1] = x /\ Head(<<x>> \o s) = x
<1>1. <<x>> \in Seq(S) /\ Len(<<x>>) = 1 /\ <<x>>[1] = x
  OBVIOUS
<1>2. Len(s) \in Nat
  BY LenProperties
<1>3. /\ <<x>> \o s \in Seq(S) /\ Len(<<x>> \o s) = Len(s) + 1
      /\ \A k \in 1 .. Len(s) + 1 : (<<x>> \o s)[k] = IF k <= 1 THEN <<x>>[k] ELSE s[k - 1]
  BY <1>1, <1>2, ConcatProperties
<1>4. (<<x>> \o s)[1] = x
  BY <1>1, <1>2, <1>3
<1>5. Head(<<x>> \o s) = (<<x>> \o s)[1]
  <2> DEFINE t == <<x>> \o s
  <2>1. t \in Seq(S)
    BY <1>3
  <2> HIDE DEF t
  <2>2. Head(t) = t[1]
    BY <2>1
  <2> QED
    BY <2>2 DEF t
<1> QED
  BY <1>3, <1>4, <1>5

LEMMA Touched ==
  ASSUME NEW S, NEW s \in Seq(S), NEW v, Has(s, v)
  PROVE  /\ Entry(s, v) \in S /\ Entry(s, v).view = v
         /\ Touch(s, v) \in Seq(S) /\ Len(Touch(s, v)) = Len(s)
         /\ Touch(s, v)[1] = Entry(s, v) /\ Head(Touch(s, v)) = Entry(s, v)
<1>1. DOMAIN s = 1 .. Len(s) /\ Len(s) \in Nat
  BY LenProperties
<1> DEFINE k == Position(s, v)
<1>2. k \in 1 .. Len(s) /\ s[k].view = v
  BY <1>1 DEF Has, Position
<1>3. Entry(s, v) = s[k] /\ Touch(s, v) = <<Entry(s, v)>> \o RemoveAt(s, k)
  BY DEF Entry, Touch
<1> HIDE DEF k
<1>4. Entry(s, v) \in S
  BY <1>2, <1>3, ElementOfSeq
<1>5. RemoveAt(s, k) \in Seq(S) /\ Len(RemoveAt(s, k)) = Len(s) - 1
  BY <1>2, Removed
<1> DEFINE x == Entry(s, v)
           r == RemoveAt(s, k)
<1>6. /\ <<x>> \o r \in Seq(S) /\ Len(<<x>> \o r) = Len(r) + 1
      /\ (<<x>> \o r)[1] = x /\ Head(<<x>> \o r) = x
  <2> HIDE DEF x, r
  <2>1. x \in S /\ r \in Seq(S)
    BY <1>4, <1>5 DEF x, r
  <2> QED
    BY <2>1, FirstOf
<1>7. x.view = v
  BY <1>2, <1>3
<1>8. Len(r) + 1 = Len(s)
  BY <1>1, <1>5
<1> QED
  BY <1>3, <1>4, <1>6, <1>7, <1>8

LEMMA PackedKeeps ==
  ASSUME PlanOK, NEW S, S \subseteq Image, NEW p \in Seq(S), NEW img \in S, NEW cap \in Nat,
         Len(p) <= cap
  PROVE  Packed(p, img, cap) \in Seq(S) /\ Len(Packed(p, img, cap)) <= cap
<1>1. Len(p) \in Nat
  BY LenProperties
<1>2. CASE Has(p, img.view) \/ cap = 0
  BY <1>2 DEF Packed
<1>3. CASE ~(Has(p, img.view) \/ cap = 0)
  <2>1. /\ Trim(p, cap - 1) \in Seq(S)
        /\ Len(Trim(p, cap - 1)) = IF cap - 1 < 0 THEN 0 ELSE IF Len(p) <= cap - 1 THEN Len(p) ELSE cap - 1
    <3>1. cap - 1 \in Int
      OBVIOUS
    <3> QED
      BY <3>1, Trimmed
  <2>2. Packed(p, img, cap) = <<img>> \o Trim(p, cap - 1)
    BY <1>3 DEF Packed
  <2>3. Len(Trim(p, cap - 1)) <= cap - 1
    BY <1>1, <1>3, <2>1
  <2> QED
    BY <2>1, <2>2, <2>3, FirstOf
<1> QED
  BY <1>2, <1>3

LEMMA DecodedKeeps ==
  ASSUME PlanOK, NEW S, S \subseteq Image, NEW d \in Seq(S), NEW img \in S, NEW cap \in Nat,
         Len(d) <= cap \/ Len(d) = 1
  PROVE  LET r == Decoded(d, img, cap) IN
         /\ r \in Seq(S) /\ (Len(r) <= cap \/ Len(r) = 1)
         /\ Head(r) \in S /\ Head(r).view = img.view
<1>1. Len(d) \in Nat
  BY LenProperties
<1>2. CASE Has(d, img.view)
  <2>1. Decoded(d, img, cap) = Touch(d, img.view)
    BY <1>2 DEF Decoded
  <2> QED
    BY <1>2, <2>1, Touched
<1>3. CASE ~Has(d, img.view)
  <2>1. /\ Trim(d, cap - 1) \in Seq(S)
        /\ Len(Trim(d, cap - 1)) = IF cap - 1 < 0 THEN 0 ELSE IF Len(d) <= cap - 1 THEN Len(d) ELSE cap - 1
    <3>1. cap - 1 \in Int
      OBVIOUS
    <3> QED
      BY <3>1, Trimmed
  <2>2. Decoded(d, img, cap) = <<img>> \o Trim(d, cap - 1)
    BY <1>3 DEF Decoded
  <2>3. Len(Trim(d, cap - 1)) <= cap - 1 \/ Len(Trim(d, cap - 1)) = 0
    BY <1>1, <2>1
  <2> QED
    BY <2>1, <2>2, <2>3, FirstOf
<1> QED
  BY <1>2, <1>3

\* What HostInv says, of the next state.
LEMMA HostInvNext ==
  ASSUME UNCHANGED conf, UNCHANGED scale,
         decoded' \in Seq(Current), packed' \in Seq(Current),
         prefetches' \in [Views -> [img : Current, hit : BOOLEAN] \cup {None}],
         \A v \in Views : prefetches'[v] # None => prefetches'[v].img.view = v,
         packing' \in [Views -> Current \cup {None}],
         room' \in [decoded : 0 .. HostBudget, packed : 0 .. HostBudget],
         Len(decoded') <= room'.decoded \/ Len(decoded') = 1,
         Len(packed') <= room'.packed
  PROVE  HostInv'
<1>1. Current' = Current /\ HostBudget' = HostBudget
  BY DEF Current, HostBudget
<1> QED
  BY <1>1 DEF HostInv

LEMMA HostInvSame ==
  ASSUME HostInv, UNCHANGED <<conf, scale, decoded, packed, prefetches, packing, room>>
  PROVE  HostInv'
BY DEF HostInv, Current, HostBudget

LEMMA NewImage ==
  ASSUME NEW v \in Views
  PROVE  Now(v) \in Current /\ Now(v).view = v
BY DEF Now, Current

\* The rooms are numbers that the lists keep to.
LEMMA Rooms ==
  ASSUME LoopTypes, HostInv
  PROVE  /\ room.decoded \in Nat /\ room.packed \in Nat /\ HostBudget \in Nat
         /\ room.decoded <= HostBudget /\ room.packed <= HostBudget
         /\ Len(decoded) \in Nat /\ Len(packed) \in Nat
BY Constants, LenProperties DEF LoopTypes, HostInv

\* The result of no more compression.
LEMMA GivenUp ==
  ASSUME LoopTypes, HostInv, GiveUp
  PROVE  /\ packed' \in Seq(Current) /\ Len(packed') <= room'.packed
         /\ room' \in [decoded : 0 .. HostBudget, packed : 0 .. HostBudget]
         /\ room'.decoded \in Nat
         /\ Len(decoded) <= room'.decoded \/ Len(decoded) = 1
<1>1. packed' = <<>> /\ room' = [decoded |-> HostBudget, packed |-> 0]
  BY DEF GiveUp
<1>2. packed' \in Seq(Current) /\ Len(packed') = 0
  BY <1>1, EmptySeq
<1>3. /\ room.decoded \in Nat /\ HostBudget \in Nat /\ room.decoded <= HostBudget /\ Len(decoded) \in Nat
  BY Rooms
<1>4. room' \in [decoded : 0 .. HostBudget, packed : 0 .. HostBudget]
  BY <1>1, <1>3
<1>5. Len(decoded) <= room.decoded \/ Len(decoded) = 1
  BY DEF HostInv
<1> QED
  BY <1>1, <1>2, <1>3, <1>4, <1>5

\* A decoded view is accepted: it is the first in the list, whatever was evicted.
LEMMA AcceptedKeeps ==
  ASSUME LoopTypes, HostInv, NEW v \in Views, prefetches[v] # None,
         Accepted(prefetches[v], v), UNCHANGED <<conf, scale>>
  PROVE  HostInv' /\ Head(decoded') \in Current /\ Head(decoded').view = v
<1> DEFINE load == prefetches[v]
<1>1. load \in [img : Current, hit : BOOLEAN] /\ load.img \in Current /\ load.img.view = v
  BY DEF HostInv
<1>2. PlanOK /\ Current \subseteq Image
  BY CurrentIsImage DEF LoopTypes
<1>3. /\ room.decoded \in Nat /\ room.packed \in Nat
  BY Rooms
<1>4. /\ decoded \in Seq(Current) /\ packed \in Seq(Current)
      /\ Len(decoded) <= room.decoded \/ Len(decoded) = 1
      /\ Len(packed) <= room.packed
  BY DEF HostInv
<1>5. /\ packing' = packing \/ packing' = [packing EXCEPT ![v] = load.img]
      /\ packed' = packed \/ packed' = Packed(packed, load.img, room.packed)
      /\ decoded' = Decoded(decoded, load.img, room.decoded)
      /\ prefetches' = [prefetches EXCEPT ![v] = None]
      /\ room' = room
  BY DEF Accepted
<1> HIDE DEF load
<1>6. packed' \in Seq(Current) /\ Len(packed') <= room.packed
  BY <1>1, <1>2, <1>3, <1>4, <1>5, PackedKeeps
<1>7. /\ decoded' \in Seq(Current) /\ (Len(decoded') <= room.decoded \/ Len(decoded') = 1)
      /\ Head(decoded') \in Current /\ Head(decoded').view = v
  BY <1>1, <1>2, <1>3, <1>4, <1>5, DecodedKeeps
<1>8. packing' \in [Views -> Current \cup {None}]
  BY <1>1, <1>5 DEF HostInv
<1>9. /\ prefetches' \in [Views -> [img : Current, hit : BOOLEAN] \cup {None}]
      /\ \A w \in Views : prefetches'[w] # None => prefetches'[w].img.view = w
  BY <1>5 DEF HostInv
<1>10. room' \in [decoded : 0 .. HostBudget, packed : 0 .. HostBudget]
  BY <1>5 DEF HostInv
<1> QED
  BY <1>5, <1>6, <1>7, <1>8, <1>9, <1>10, HostInvNext

\* Wherever the host finds it, the view that it returns is the one asked for.
LEMMA HostViewKeeps ==
  ASSUME LoopTypes, HostInv, NEW v \in Views, HostView(v), UNCHANGED <<conf, scale>>
  PROVE  HostInv' /\ Head(decoded') \in Current /\ Head(decoded').view = v
<1>2. PlanOK /\ Current \subseteq Image
  BY CurrentIsImage DEF LoopTypes
<1>3. /\ room.decoded \in Nat /\ room.packed \in Nat
  BY Rooms
<1>4. /\ decoded \in Seq(Current) /\ packed \in Seq(Current)
      /\ Len(decoded) <= room.decoded \/ Len(decoded) = 1
      /\ Len(packed) <= room.packed
      /\ prefetches \in [Views -> [img : Current, hit : BOOLEAN] \cup {None}]
      /\ \A w \in Views : prefetches[w] # None => prefetches[w].img.view = w
      /\ packing \in [Views -> Current \cup {None}]
      /\ room \in [decoded : 0 .. HostBudget, packed : 0 .. HostBudget]
  BY DEF HostInv
<1>5. CASE /\ Has(decoded, v)
           /\ decoded' = Touch(decoded, v)
           /\ UNCHANGED <<packed, room, prefetches, packing>>
  <2>1. /\ decoded' \in Seq(Current) /\ Len(decoded') = Len(decoded)
        /\ Head(decoded') \in Current /\ Head(decoded').view = v
    BY <1>4, <1>5, Touched
  <2> QED
    BY <1>4, <1>5, <2>1, HostInvNext
<1>6. CASE ~Has(decoded, v) /\ prefetches[v] # None /\ Accepted(prefetches[v], v)
  BY <1>6, AcceptedKeeps
<1>7. CASE /\ Has(packed, v)
           /\ decoded' = Decoded(decoded, Entry(packed, v), room.decoded)
           /\ packed' = Touch(packed, v) /\ UNCHANGED room
           /\ UNCHANGED <<prefetches, packing>>
  <2>1. /\ Entry(packed, v) \in Current /\ Entry(packed, v).view = v
        /\ packed' \in Seq(Current) /\ Len(packed') = Len(packed)
    BY <1>4, <1>7, Touched
  <2>2. /\ decoded' \in Seq(Current) /\ (Len(decoded') <= room.decoded \/ Len(decoded') = 1)
        /\ Head(decoded') \in Current /\ Head(decoded').view = v
    BY <1>2, <1>3, <1>4, <1>7, <2>1, DecodedKeeps
  <2> QED
    BY <1>4, <1>7, <2>1, <2>2, HostInvNext
<1>8. CASE /\ \/ packed' = Packed(packed, Now(v), room.packed) /\ UNCHANGED room
              \/ room.packed # 0 /\ GiveUp
           /\ decoded' = Decoded(decoded, Now(v), room'.decoded)
           /\ UNCHANGED <<prefetches, packing>>
  <2>1. Now(v) \in Current /\ Now(v).view = v
    BY NewImage
  <2>2. /\ packed' \in Seq(Current) /\ Len(packed') <= room'.packed
        /\ room' \in [decoded : 0 .. HostBudget, packed : 0 .. HostBudget]
        /\ room'.decoded \in Nat
        /\ Len(decoded) <= room'.decoded \/ Len(decoded) = 1
    <3>1. CASE packed' = Packed(packed, Now(v), room.packed) /\ UNCHANGED room
      <4>1. packed' \in Seq(Current) /\ Len(packed') <= room.packed
        BY <1>2, <1>3, <1>4, <2>1, <3>1, PackedKeeps
      <4> QED
        BY <1>3, <1>4, <3>1, <4>1
    <3>2. CASE GiveUp
      BY <3>2, GivenUp
    <3> QED
      BY <1>8, <3>1, <3>2
  <2>3. /\ decoded' \in Seq(Current) /\ (Len(decoded') <= room'.decoded \/ Len(decoded') = 1)
        /\ Head(decoded') \in Current /\ Head(decoded').view = v
    BY <1>2, <1>4, <1>8, <2>1, <2>2, DecodedKeeps
  <2> QED
    BY <1>4, <1>8, <2>2, <2>3, HostInvNext
<1> QED
  BY <1>5, <1>6, <1>7, <1>8 DEF HostView

----------------------------------------------------------------------------
\* The device side.

LEMMA RoomIsMade ==
  ASSUME PlanOK, NEW S, S \subseteq Image, NEW d \in Seq(S), NEW ups, IsFiniteSet(ups),
         NEW n \in Nat, NEW cap \in Nat
  PROVE  LET r == MakeRoom(d, ups, n, cap) IN
         /\ r \in Seq(S) /\ Len(r) \in Nat /\ Len(r) <= Len(d)
         /\ Len(r) + Cardinality(ups) + n <= cap \/ Len(r) = 0
         /\ plan # None /\ cap > 0 /\ ups = {} /\ n = 0 /\ d # <<>> /\ Distance(d[1].view) = 0
              => r # <<>> /\ r[1].view = d[1].view
<1> DEFINE k == cap - Cardinality(ups) - n
<1>1. Cardinality(ups) \in Nat /\ Len(d) \in Nat
  BY FS_CardinalityType, LenProperties
<1>2. k \in Int
  BY <1>1
<1>3. MakeRoom(d, ups, n, cap) = Trim(d, k)
  BY DEF MakeRoom
<1>4. /\ Trim(d, k) \in Seq(S)
      /\ Len(Trim(d, k)) = IF k < 0 THEN 0 ELSE IF Len(d) <= k THEN Len(d) ELSE k
      /\ plan # None /\ k > 0 /\ d # <<>> /\ Distance(d[1].view) = 0
           => Trim(d, k)[1].view = d[1].view
  <2> HIDE DEF k
  <2> QED BY <1>2, Trimmed
<1>5. ASSUME cap > 0, ups = {}, n = 0, d # <<>>
      PROVE  k > 0 /\ Trim(d, k) # <<>>
  <2>1. k > 0
    BY <1>5, FS_EmptySet
  <2>2. Len(d) > 0
    BY <1>1, <1>5, EmptySeq
  <2>3. Len(Trim(d, k)) > 0
    BY <1>1, <1>2, <1>4, <2>1, <2>2
  <2> QED
    BY <2>1, <2>3, EmptySeq
<1> QED
  BY <1>1, <1>2, <1>3, <1>4, <1>5

LEMMA Inserted ==
  ASSUME PlanOK, NEW S, S \subseteq Image, NEW d \in Seq(S), NEW ups, IsFiniteSet(ups),
         NEW cap \in Nat, NEW img \in S, Len(d) + Cardinality(ups) <= cap
  PROVE  LET r == Insert(d, ups, cap, img) IN
         r \in Seq(S) /\ Len(r) + Cardinality(ups) <= cap
<1> DEFINE r == MakeRoom(d, ups, 1, cap)
<1>1. Cardinality(ups) \in Nat /\ Len(d) \in Nat
  BY FS_CardinalityType, LenProperties
<1>2. r \in Seq(S) /\ Len(r) \in Nat /\ Len(r) <= Len(d)
  BY RoomIsMade
<1>3. Insert(d, ups, cap, img) = IF cap = 0 THEN d
                                 ELSE IF Len(r) + Cardinality(ups) + 1 <= cap THEN <<img>> \o r ELSE r
  BY DEF Insert
<1> HIDE DEF r
<1>4. <<img>> \o r \in Seq(S) /\ Len(<<img>> \o r) = Len(r) + 1
  BY <1>2, FirstOf
<1> QED
  BY <1>1, <1>2, <1>3, <1>4

\* A new capacity: the list keeps to it, and the view needed next stays.
LEMMA OutcomeKeeps ==
  ASSUME LoopTypes, DeviceInv, uploads = {}, changes < MaxChanges, DeviceBudget # 0,
         NEW d \in Seq(Current),
         NEW cap \in 1 .. DeviceCeiling, NEW before \in 0 .. DeviceCeiling, NEW sat \in BOOLEAN
  PROVE  LET o == Outcome(cap, before, sat, d) IN
         /\ o.budget \in [cap : 0 .. DeviceCeiling, before : 0 .. DeviceCeiling, saturated : BOOLEAN]
         /\ o.budget.cap = cap /\ o.changes \in 0 .. MaxChanges
         /\ o.device \in Seq(Current) /\ Len(o.device) + Cardinality(uploads) <= cap
         /\ plan # None /\ d # <<>> /\ Distance(d[1].view) = 0
              => o.device # <<>> /\ o.device[1].view = d[1].view
<1> DEFINE o == Outcome(cap, before, sat, d)
           r == MakeRoom(d, {}, 0, cap)
<1>1. /\ o.budget = [cap |-> cap, before |-> before, saturated |-> sat]
      /\ o.device = r /\ o.changes = changes + 1
  BY DEF Outcome
<1>2. DeviceCeiling \in Nat /\ MaxChanges \in Nat /\ changes \in 0 .. MaxChanges
  BY Constants DEF LoopTypes
<1>3. PlanOK /\ Current \subseteq Image
  BY CurrentIsImage DEF LoopTypes
<1>4. IsFiniteSet({}) /\ Cardinality({}) = 0 /\ cap \in Nat /\ 0 \in Nat
  BY FS_EmptySet, <1>2
<1>5. /\ r \in Seq(Current) /\ Len(r) \in Nat
      /\ Len(r) + Cardinality({}) + 0 <= cap \/ Len(r) = 0
      /\ plan # None /\ cap > 0 /\ d # <<>> /\ Distance(d[1].view) = 0
           => r # <<>> /\ r[1].view = d[1].view
  BY <1>3, <1>4, RoomIsMade
<1> HIDE DEF r, o
<1>6. /\ o.budget \in [cap : 0 .. DeviceCeiling, before : 0 .. DeviceCeiling, saturated : BOOLEAN]
      /\ o.budget.cap = cap /\ o.changes \in 0 .. MaxChanges
  BY <1>1, <1>2
<1>7. Len(r) + Cardinality(uploads) <= cap
  BY <1>2, <1>4, <1>5
<1> QED
  BY <1>1, <1>2, <1>5, <1>6, <1>7 DEF o

LEMMA FeedbackKeeps ==
  ASSUME LoopTypes, DeviceInv, NEW d \in Seq(Current),
         Len(d) + Cardinality(uploads) <= budget.cap, NEW o \in Feedback(d)
  PROVE  /\ o.budget \in [cap : 0 .. DeviceCeiling, before : 0 .. DeviceCeiling, saturated : BOOLEAN]
         /\ o.budget.cap # 0 => DeviceBudget # 0
         /\ o.changes \in 0 .. MaxChanges
         /\ o.device \in Seq(Current) /\ Len(o.device) + Cardinality(uploads) <= o.budget.cap
         /\ plan # None /\ d # <<>> /\ Distance(d[1].view) = 0
              => o.device # <<>> /\ o.device[1].view = d[1].view
<1>1. CASE o = [budget |-> budget, device |-> d, changes |-> changes]
  BY <1>1 DEF LoopTypes, DeviceInv
<1>2. CASE o \in Evaluated(d) /\ changes < MaxChanges /\ uploads = {} /\ budget.cap # 0
  <2>1. /\ DeviceBudget \in Nat /\ DeviceCeiling \in Nat /\ DeviceBudget <= DeviceCeiling
        /\ DeviceBudget # 0
        /\ budget.cap \in 1 .. DeviceCeiling /\ budget.before \in 0 .. DeviceCeiling
        /\ budget.saturated \in BOOLEAN
    BY <1>2, Constants DEF LoopTypes, DeviceInv
  <2>2. \E cap \in 1 .. DeviceCeiling, before \in 0 .. DeviceCeiling, sat \in BOOLEAN :
          o = Outcome(cap, before, sat, d)
    <3> DEFINE low == IF budget.cap \div 2 > DeviceBudget THEN budget.cap \div 2 ELSE DeviceBudget
    <3>1. low \in 1 .. DeviceCeiling
      BY <2>1
    <3>2. 0 \in 0 .. DeviceCeiling
      BY <2>1
    <3>3. \/ o = Outcome(low, 0, budget.saturated, d)
          \/ o = Outcome(budget.cap, 0, budget.saturated, d)
          \/ o = Outcome(budget.before, 0, TRUE, d) /\ budget.before # 0
          \/ \E n \in Grown(budget.cap) : o = Outcome(n, budget.cap, FALSE, d)
      BY <1>2 DEF Evaluated
    <3> HIDE DEF low
    <3>4. CASE o = Outcome(low, 0, budget.saturated, d)
      BY <2>1, <3>1, <3>2, <3>4
    <3>5. CASE o = Outcome(budget.cap, 0, budget.saturated, d)
      BY <2>1, <3>2, <3>5
    <3>6. CASE o = Outcome(budget.before, 0, TRUE, d) /\ budget.before # 0
      <4>1. budget.before \in 1 .. DeviceCeiling
        BY <2>1, <3>6
      <4> QED
        BY <3>2, <3>6, <4>1
    <3>7. CASE \E n \in Grown(budget.cap) : o = Outcome(n, budget.cap, FALSE, d)
      <4>1. PICK n \in Grown(budget.cap) : o = Outcome(n, budget.cap, FALSE, d)
        BY <3>7
      <4>2. n \in 1 .. DeviceCeiling /\ budget.cap \in 0 .. DeviceCeiling
        BY <2>1 DEF Grown
      <4> QED
        BY <4>1, <4>2
    <3> QED
      BY <3>3, <3>4, <3>5, <3>6, <3>7
  <2>3. PICK cap \in 1 .. DeviceCeiling, before \in 0 .. DeviceCeiling, sat \in BOOLEAN :
          o = Outcome(cap, before, sat, d)
    BY <2>2
  <2> QED
    BY <1>2, <2>1, <2>3, OutcomeKeeps
<1> QED
  BY <1>1, <1>2 DEF Feedback

LEMMA DeviceInvNext ==
  ASSUME UNCHANGED conf, UNCHANGED scale,
         device' \in Seq(Current), uploads' \subseteq Current, IsFiniteSet(uploads'),
         budget' \in [cap : 0 .. DeviceCeiling, before : 0 .. DeviceCeiling, saturated : BOOLEAN],
         budget'.cap # 0 => DeviceBudget # 0,
         Len(device') + Cardinality(uploads') <= budget'.cap
  PROVE  DeviceInv'
<1>1. Current' = Current /\ DeviceCeiling' = DeviceCeiling /\ DeviceBudget' = DeviceBudget
  BY DEF Current, DeviceCeiling, DeviceBudget
<1> QED
  BY <1>1 DEF DeviceInv

LEMMA DeviceInvSame ==
  ASSUME DeviceInv, UNCHANGED <<conf, scale, device, uploads, budget>>
  PROVE  DeviceInv'
BY DEF DeviceInv, Current, DeviceCeiling, DeviceBudget

\* A get leaves the caches in order and serves the view it was asked for, but
\* when the feedback may have evicted the hit.
LEMMA GetKeeps ==
  ASSUME LoopTypes, HostInv, DeviceInv, NEW v \in Views, Get(v), UNCHANGED <<conf, scale>>
  PROVE  /\ HostInv' /\ DeviceInv' /\ changes' \in 0 .. MaxChanges
         /\ \/ served'.img = Now(served'.asked)
            \/ Has(device, v) /\ (plan = None \/ Distance(v) # 0)
<1>1. PlanOK /\ Current \subseteq Image
  BY CurrentIsImage DEF LoopTypes
<1>2. /\ device \in Seq(Current) /\ uploads \subseteq Current /\ IsFiniteSet(uploads)
      /\ budget \in [cap : 0 .. DeviceCeiling, before : 0 .. DeviceCeiling, saturated : BOOLEAN]
      /\ budget.cap # 0 => DeviceBudget # 0
      /\ Len(device) + Cardinality(uploads) <= budget.cap
      /\ budget.cap \in Nat
      /\ changes \in 0 .. MaxChanges /\ MaxChanges \in Nat
  BY Constants DEF LoopTypes, DeviceInv
<1>3. \A img \in Current : img = Now(img.view)
  BY DEF Current, Now
<1>4. CASE GetResident(v)
  <2>1. Has(device, v)
    BY <1>4 DEF GetResident
  <2>2. /\ Touch(device, v) \in Seq(Current) /\ Len(Touch(device, v)) = Len(device)
        /\ Touch(device, v)[1].view = v
    BY <1>2, <2>1, Touched
  <2>3. Touch(device, v) # <<>>
    <3>1. Len(device) # 0
      BY <1>2, <2>1, LenProperties DEF Has
    <3> QED
      BY <2>2, <3>1, EmptySeq
  <2>4. PICK o \in Feedback(Touch(device, v)) :
          /\ budget' = o.budget /\ device' = o.device /\ changes' = o.changes
          /\ Serve(v, IF o.device = <<>> THEN None ELSE Head(o.device))
    BY <1>4 DEF GetResident
  <2>5. UNCHANGED <<uploads, host>>
    BY <1>4 DEF GetResident
  <2>6. /\ o.budget \in [cap : 0 .. DeviceCeiling, before : 0 .. DeviceCeiling, saturated : BOOLEAN]
        /\ o.budget.cap # 0 => DeviceBudget # 0
        /\ o.changes \in 0 .. MaxChanges
        /\ o.device \in Seq(Current) /\ Len(o.device) + Cardinality(uploads) <= o.budget.cap
        /\ plan # None /\ Distance(v) = 0 => o.device # <<>> /\ o.device[1].view = v
    BY <1>2, <2>2, <2>3, FeedbackKeeps
  <2>7. HostInv'
    BY <2>5, HostInvSame DEF host
  <2>8. DeviceInv'
    BY <1>2, <2>4, <2>5, <2>6, DeviceInvNext
  <2>9. ASSUME plan # None, Distance(v) = 0
        PROVE  served'.img = Now(served'.asked)
    <3>1. o.device # <<>> /\ o.device[1].view = v
      BY <2>6, <2>9
    <3>2. Head(o.device) \in Current /\ Head(o.device) = o.device[1]
      BY <2>6, <3>1, HeadTailProperties
    <3>3. served' = [asked |-> v, img |-> Head(o.device)]
      BY <2>4, <3>1 DEF Serve
    <3> QED
      BY <1>3, <3>1, <3>2, <3>3
  <2> QED
    BY <2>1, <2>4, <2>6, <2>7, <2>8, <2>9
<1>5. CASE GetUploaded(v)
  <2>1. PICK u \in uploads :
          /\ u.view = v
          /\ uploads' = uploads \ {u}
          /\ \/ /\ Serve(v, u)
                /\ device' = Insert(device, uploads', budget.cap, u)
                /\ UNCHANGED <<host, changes>>
             \/ /\ Change /\ HostView(v) /\ Serve(v, Head(decoded'))
                /\ device' = Insert(device, uploads', budget.cap, Head(decoded'))
    BY <1>5 DEF GetUploaded
  <2>2. budget' = budget
    BY <1>5 DEF GetUploaded
  <2>3. /\ IsFiniteSet(uploads \ {u}) /\ uploads \ {u} \subseteq Current
        /\ Cardinality(uploads \ {u}) \in Nat /\ Cardinality(uploads) \in Nat
        /\ Cardinality(uploads \ {u}) <= Cardinality(uploads)
    <3>1. /\ IsFiniteSet(uploads \ {u})
          /\ Cardinality(uploads \ {u}) = Cardinality(uploads) - 1
      BY <1>2, FS_RemoveElement
    <3>2. Cardinality(uploads \ {u}) \in Nat /\ Cardinality(uploads) \in Nat
      BY <1>2, <3>1, FS_CardinalityType
    <3> QED
      BY <1>2, <3>1, <3>2
  <2>4. Len(device) + Cardinality(uploads \ {u}) <= budget.cap
    BY <1>2, <2>3, LenProperties
  <2>5. ASSUME NEW img \in Current, device' = Insert(device, uploads', budget.cap, img)
        PROVE  DeviceInv'
    <3>1. device' \in Seq(Current) /\ Len(device') + Cardinality(uploads') <= budget.cap
      BY <1>1, <1>2, <2>1, <2>3, <2>4, <2>5, Inserted
    <3> QED
      BY <1>2, <2>1, <2>2, <2>3, <3>1, DeviceInvNext
  <2>6. CASE /\ Serve(v, u)
             /\ device' = Insert(device, uploads', budget.cap, u)
             /\ UNCHANGED <<host, changes>>
    <3>1. u \in Current
      BY <1>2
    <3>2. HostInv'
      BY <2>6, HostInvSame DEF host
    <3>3. served'.img = Now(served'.asked)
      BY <1>3, <2>1, <2>6, <3>1 DEF Serve
    <3> QED
      BY <1>2, <2>5, <2>6, <3>1, <3>2, <3>3
  <2>7. CASE /\ Change /\ HostView(v) /\ Serve(v, Head(decoded'))
             /\ device' = Insert(device, uploads', budget.cap, Head(decoded'))
    <3>1. HostInv' /\ Head(decoded') \in Current /\ Head(decoded').view = v
      BY <2>7, HostViewKeeps
    <3>2. changes' \in 0 .. MaxChanges
      BY <1>2, <2>7 DEF Change
    <3>3. served'.img = Now(served'.asked)
      BY <1>3, <2>7, <3>1 DEF Serve
    <3> QED
      BY <2>5, <2>7, <3>1, <3>2, <3>3
  <2> QED
    BY <2>1, <2>6, <2>7
<1>6. CASE GetMissing(v)
  <2>1. HostInv' /\ Head(decoded') \in Current /\ Head(decoded').view = v
    BY <1>6, HostViewKeeps DEF GetMissing
  <2>2. PICK o \in Feedback(device) :
          /\ budget' = o.budget /\ changes' = o.changes
          /\ device' = Insert(o.device, uploads, o.budget.cap, Head(decoded'))
    BY <1>6 DEF GetMissing
  <2>3. uploads' = uploads /\ Serve(v, Head(decoded'))
    BY <1>6 DEF GetMissing
  <2>4. /\ o.budget \in [cap : 0 .. DeviceCeiling, before : 0 .. DeviceCeiling, saturated : BOOLEAN]
        /\ o.budget.cap # 0 => DeviceBudget # 0
        /\ o.changes \in 0 .. MaxChanges
        /\ o.device \in Seq(Current) /\ Len(o.device) + Cardinality(uploads) <= o.budget.cap
    BY <1>2, FeedbackKeeps
  <2>5. o.budget.cap \in Nat
    BY <2>4, Constants DEF LoopTypes
  <2>6. device' \in Seq(Current) /\ Len(device') + Cardinality(uploads) <= o.budget.cap
    BY <1>1, <1>2, <2>1, <2>2, <2>4, <2>5, Inserted
  <2>7. DeviceInv'
    BY <1>2, <2>2, <2>3, <2>4, <2>6, DeviceInvNext
  <2>8. served'.img = Now(served'.asked)
    BY <1>3, <2>1, <2>3 DEF Serve
  <2> QED
    BY <2>1, <2>2, <2>4, <2>7, <2>8
<1> QED
  BY <1>4, <1>5, <1>6 DEF Get

LEMMA PrefetchKeeps ==
  ASSUME LoopTypes, HostInv, DeviceInv, NEW v \in Views, Prefetch(v), UNCHANGED <<conf, scale>>
  PROVE  HostInv' /\ DeviceInv'
<1>1. PlanOK /\ Current \subseteq Image
  BY CurrentIsImage DEF LoopTypes
<1>2. /\ device \in Seq(Current) /\ uploads \subseteq Current /\ IsFiniteSet(uploads)
      /\ budget \in [cap : 0 .. DeviceCeiling, before : 0 .. DeviceCeiling, saturated : BOOLEAN]
      /\ budget.cap # 0 => DeviceBudget # 0
      /\ Len(device) + Cardinality(uploads) <= budget.cap
      /\ budget.cap \in Nat
  BY Constants DEF LoopTypes, DeviceInv
<1>3. CASE Has(decoded, v) /\ Upload(v)
  <2>1. HostInv'
    BY <1>3, HostInvSame DEF Upload, host
  <2>2. /\ device' = MakeRoom(device, uploads, 1, budget.cap)
        /\ \/ /\ Len(device') + Cardinality(uploads) + 1 <= budget.cap
              /\ uploads' = uploads \cup {Entry(decoded, v)}
           \/ uploads' = uploads
        /\ budget' = budget
    BY <1>3 DEF Upload
  <2>3. Entry(decoded, v) \in Current
    BY <1>3, Touched DEF HostInv
  <2>4. /\ device' \in Seq(Current) /\ Len(device') \in Nat /\ Len(device') <= Len(device)
    BY <1>1, <1>2, <2>2, RoomIsMade
  <2>5. Len(device) \in Nat /\ Cardinality(uploads) \in Nat
    BY <1>2, LenProperties, FS_CardinalityType
  <2>6. /\ IsFiniteSet(uploads') /\ uploads' \subseteq Current
        /\ Len(device') + Cardinality(uploads') <= budget.cap
    <3>1. CASE uploads' = uploads
      BY <1>2, <2>4, <2>5, <3>1
    <3>2. CASE /\ Len(device') + Cardinality(uploads) + 1 <= budget.cap
               /\ uploads' = uploads \cup {Entry(decoded, v)}
      <4> DEFINE x == Entry(decoded, v)
      <4>1. /\ IsFiniteSet(uploads \cup {x})
            /\ Cardinality(uploads \cup {x}) = IF x \in uploads THEN Cardinality(uploads)
                                                                ELSE Cardinality(uploads) + 1
        BY <1>2, FS_AddElement
      <4> QED
        BY <1>2, <2>3, <2>4, <2>5, <3>2, <4>1
    <3> QED
      BY <2>2, <3>1, <3>2
  <2> QED
    BY <1>2, <2>1, <2>2, <2>4, <2>6, DeviceInvNext
<1>4. CASE Load(v)
  <2>1. DeviceInv'
    BY <1>4, DeviceInvSame DEF Load, gpu
  <2> DEFINE img == IF Has(packed, v) THEN Entry(packed, v) ELSE Now(v)
  <2>2. /\ img \in Current /\ img.view = v
        /\ packed' \in Seq(Current) /\ Len(packed') = Len(packed)
    <3>1. packed \in Seq(Current)
      BY DEF HostInv
    <3>2. packed' = IF Has(packed, v) THEN Touch(packed, v) ELSE packed
      BY <1>4 DEF Load
    <3>3. CASE Has(packed, v)
      BY <3>1, <3>2, <3>3, Touched
    <3>4. CASE ~Has(packed, v)
      BY <3>1, <3>2, <3>4, NewImage
    <3> QED
      BY <3>3, <3>4
  <2>3. /\ prefetches' = [prefetches EXCEPT ![v] = [hit |-> Has(packed, v), img |-> img]]
        /\ UNCHANGED <<decoded, room, packing>>
    BY <1>4 DEF Load
  <2> HIDE DEF img
  <2>4. Has(packed, v) \in BOOLEAN
    BY DEF Has
  <2> DEFINE load == [hit |-> Has(packed, v), img |-> img]
  <2>5. load \in [img : Current, hit : BOOLEAN] /\ load.img.view = v
    BY <2>2, <2>4
  <2> HIDE DEF load
  <2>6. /\ prefetches' \in [Views -> [img : Current, hit : BOOLEAN] \cup {None}]
        /\ \A w \in Views : prefetches'[w] # None => prefetches'[w].img.view = w
    BY <2>3, <2>5 DEF HostInv, load
  <2>7. HostInv'
    BY <2>2, <2>3, <2>6, HostInvNext DEF HostInv
  <2> QED
    BY <2>1, <2>7
<1>5. CASE UNCHANGED <<gpu, host>>
  BY <1>5, HostInvSame, DeviceInvSame DEF gpu, host
<1> QED
  BY <1>3, <1>4, <1>5 DEF Prefetch

----------------------------------------------------------------------------
\* The steps.

LEMMA Start == Init => IInv
<1> SUFFICES ASSUME Init PROVE IInv
  OBVIOUS
<1>1. conf \in Configs
  BY DEF Init
<1>2. LoopTypes
  BY <1>1, Constants, ViewCount DEF Init, LoopTypes, PlanOK, Loop
<1>3. Places
  BY DEF Init, Places, Loop
<1>4. <<>> \in Seq(Current) /\ Len(<<>>) = 0 /\ IsFiniteSet({}) /\ Cardinality({}) = 0
  BY EmptySeq, FS_EmptySet
<1>5. HostInv
  BY <1>1, <1>4, Constants DEF Init, HostInv
<1>6. DeviceInv
  BY <1>1, <1>4, Constants DEF Init, DeviceInv
<1> QED
  BY <1>2, <1>3, <1>5, <1>6 DEF IInv

\* New caches, whatever the resolution is.
LEMMA EmptiedKeeps ==
  ASSUME LoopTypes, UNCHANGED conf, Emptied
  PROVE  HostInv' /\ DeviceInv'
<1>1. conf' = conf /\ conf' \in Configs
  BY DEF LoopTypes
<1>2. <<>> \in Seq(Current') /\ Len(<<>>) = 0 /\ IsFiniteSet({}) /\ Cardinality({}) = 0
  BY EmptySeq, FS_EmptySet
<1>3. /\ DeviceBudget' = DeviceBudget /\ DeviceCeiling' = DeviceCeiling /\ HostBudget' = HostBudget
      /\ DeviceBudget \in Nat /\ DeviceCeiling \in Nat /\ HostBudget \in Nat /\ DecodedBudget \in Nat
      /\ DeviceBudget <= DeviceCeiling /\ DecodedBudget <= HostBudget
  BY <1>1, Constants DEF LoopTypes, DeviceBudget, DeviceCeiling, HostBudget
<1>4. HostInv'
  BY <1>2, <1>3 DEF Emptied, HostInv
<1>5. DeviceInv'
  BY <1>2, <1>3 DEF Emptied, DeviceInv
<1> QED
  BY <1>4, <1>5

LEMMA LoopTypesNext ==
  ASSUME LoopTypes, UNCHANGED conf, scale' \in 1 .. MaxScale, order' \in Orders, cursor' \in 0 .. N,
         plan' = None \/ (plan'.order \in Orders /\ plan'.cursor \in 0 .. N),
         changes' \in 0 .. MaxChanges,
         pc' \in [at : {"loop", "prefetch", "get", "neighbour"}, pos : 0 .. N,
                  part : {"none", "packing", "loads", "body"}]
  PROVE  LoopTypes'
BY DEF LoopTypes, PlanOK, MaxScale, MaxChanges

LEMMA LoopFields ==
  ASSUME LoopTypes
  PROVE  /\ scale \in 1 .. MaxScale /\ order \in Orders /\ cursor \in 0 .. N
         /\ plan = None \/ (plan.order \in Orders /\ plan.cursor \in 0 .. N)
         /\ changes \in 0 .. MaxChanges /\ MaxChanges \in Nat /\ MaxScale \in Nat \ {0}
         /\ N \in Nat \ {0}
         /\ pc \in [at : {"loop", "prefetch", "get", "neighbour"}, pos : 0 .. N,
                    part : {"none", "packing", "loads", "body"}]
BY Constants, ViewCount DEF LoopTypes, PlanOK

\* Where a call can be, and what moves it.
LEMMA CallMade ==
  ASSUME NEW a \in {"loop", "prefetch", "get", "neighbour"}, NEW k \in 0 .. N,
         NEW p \in {"none", "packing", "loads", "body"}
  PROVE  [at |-> a, pos |-> k, part |-> p] \in
           [at : {"loop", "prefetch", "get", "neighbour"}, pos : 0 .. N,
            part : {"none", "packing", "loads", "body"}]
OBVIOUS

LEMMA CallMoved ==
  ASSUME NEW c \in [at : {"loop", "prefetch", "get", "neighbour"}, pos : 0 .. N,
                    part : {"none", "packing", "loads", "body"}],
         NEW k \in 0 .. N, NEW p \in {"none", "packing", "loads", "body"},
         NEW d, d = [c EXCEPT !.pos = k, !.part = p]
  PROVE  /\ d \in [at : {"loop", "prefetch", "get", "neighbour"}, pos : 0 .. N,
                   part : {"none", "packing", "loads", "body"}]
         /\ d.at = c.at /\ d.pos = k /\ d.part = p
<1>1. d \in [at : {"loop", "prefetch", "get", "neighbour"}, pos : 0 .. N,
             part : {"none", "packing", "loads", "body"}]
  OBVIOUS
<1>2. d.at = c.at
  OBVIOUS
<1>3. d.pos = k /\ d.part = p
  OBVIOUS
<1> QED
  BY <1>1, <1>2, <1>3

LEMMA NextPlace ==
  ASSUME NEW n \in Nat, NEW c \in 0 .. n - 1
  PROVE  c + 1 \in 0 .. n /\ c + 1 # 0 /\ c # n /\ c \in 0 .. n
OBVIOUS

LEMMA NextScaleKeeps ==
  ASSUME IInv, UNCHANGED conf, NextScale PROVE IInv'
<1>1. LoopTypes /\ Places
  BY DEF IInv
<1>2. scale' \in 1 .. MaxScale /\ cursor' \in 0 .. N /\ order' \in Orders
      /\ pc.at = "loop" /\ UNCHANGED <<plan, pc, changes>>
  BY <1>1, LoopFields DEF NextScale
<1>3. LoopTypes'
  BY <1>1, <1>2, LoopFields, LoopTypesNext
<1>4. Places'
  BY <1>1, <1>2 DEF Places
<1>5. HostInv' /\ DeviceInv'
  BY <1>1, EmptiedKeeps DEF NextScale
<1> QED
  BY <1>3, <1>4, <1>5 DEF IInv

LEMMA PriorsKeeps ==
  ASSUME IInv, UNCHANGED conf, Priors PROVE IInv'
<1>1. LoopTypes /\ Places
  BY DEF IInv
<1>2. /\ UNCHANGED <<scale, order, cursor, pc>> /\ plan' = None /\ pc.at = "loop"
      /\ changes' \in 0 .. MaxChanges
  BY <1>1, LoopFields DEF Priors, Change
<1>3. LoopTypes'
  BY <1>1, <1>2, LoopFields, LoopTypesNext
<1>4. Places'
  BY <1>1, <1>2 DEF Places
<1>5. HostInv' /\ DeviceInv'
  BY <1>1, EmptiedKeeps DEF Priors
<1> QED
  BY <1>3, <1>4, <1>5 DEF IInv

LEMMA HeadroomKeeps ==
  ASSUME IInv, UNCHANGED conf, Headroom PROVE IInv'
<1>1. LoopTypes /\ Places /\ HostInv /\ DeviceInv
  BY DEF IInv
<1>2. /\ UNCHANGED <<loop, host, pc>> /\ pc.at = "loop"
      /\ changes' \in 0 .. MaxChanges
  BY <1>1, LoopFields DEF Headroom, Change
<1>3. LoopTypes'
  BY <1>1, <1>2, LoopFields, LoopTypesNext DEF loop
<1>4. Places'
  BY <1>1, <1>2 DEF Places, loop
<1>5. HostInv'
  BY <1>1, <1>2, HostInvSame DEF host, loop
<1>6. /\ device' = <<>> /\ uploads' = {} /\ budget' = [budget EXCEPT !.cap = 0]
      /\ <<>> \in Seq(Current) /\ Len(<<>>) = 0 /\ IsFiniteSet({}) /\ Cardinality({}) = 0
  BY EmptySeq, FS_EmptySet DEF Headroom
<1>7. /\ budget' \in [cap : 0 .. DeviceCeiling, before : 0 .. DeviceCeiling, saturated : BOOLEAN]
      /\ budget'.cap = 0
  BY <1>1, <1>6, Constants DEF LoopTypes, DeviceInv
<1>8. DeviceInv'
  BY <1>2, <1>6, <1>7, DeviceInvNext DEF loop
<1> QED
  BY <1>3, <1>4, <1>5, <1>8 DEF IInv

LEMMA IterateKeeps ==
  ASSUME IInv, UNCHANGED conf, Iterate PROVE IInv'
<1>1. LoopTypes /\ Places /\ HostInv /\ DeviceInv
  BY DEF IInv
<1>2. /\ UNCHANGED <<scale, gpu, host, served, changes>>
      /\ pc' = [at |-> "prefetch", pos |-> cursor' + 1, part |-> "none"]
      /\ plan' = [order |-> IF plan = None \/ cursor' < plan.cursor THEN order' ELSE plan.order,
                  cursor |-> cursor']
  BY DEF Iterate, Planned
<1>3. order' \in Orders /\ cursor' \in 0 .. N - 1
  BY <1>1, LoopFields DEF Iterate
<1>4. /\ plan'.order \in Orders /\ plan'.cursor = cursor'
  BY <1>1, <1>2, <1>3, LoopFields
<1>5. plan' # None
  <2>1. plan'.order \in [1 .. Cardinality(Views) -> Views]
    BY <1>4 DEF Orders, N
  <2>2. cursor' \in Nat
    BY <1>1, <1>3, LoopFields
  <2>3. plan' \in [order : [1 .. Cardinality(Views) -> Views], cursor : Nat]
    BY <1>2, <2>1, <2>2
  <2> QED
    BY <2>3, TrainingCacheAssumption
<1>6. /\ pc' \in [at : {"loop", "prefetch", "get", "neighbour"}, pos : 0 .. N,
                  part : {"none", "packing", "loads", "body"}]
      /\ pc'.at = "prefetch" /\ pc'.part = "none" /\ pc'.pos # 0
      /\ cursor' # N /\ cursor' \in 0 .. N
  <2>1. N \in Nat /\ cursor' \in 0 .. N - 1
    BY <1>1, <1>3, LoopFields
  <2>2. cursor' + 1 \in 0 .. N /\ cursor' + 1 # 0 /\ cursor' # N /\ cursor' \in 0 .. N
    BY <2>1, NextPlace
  <2>3. /\ pc' \in [at : {"loop", "prefetch", "get", "neighbour"}, pos : 0 .. N,
                    part : {"none", "packing", "loads", "body"}]
    BY <1>2, <2>2, CallMade
  <2>4. pc'.at = "prefetch" /\ pc'.part = "none" /\ pc'.pos = cursor' + 1
    BY <1>2
  <2> QED
    BY <2>2, <2>3, <2>4
<1>7. LoopTypes'
  BY <1>1, <1>2, <1>3, <1>4, <1>6, LoopFields, LoopTypesNext
<1>8. Places'
  BY <1>4, <1>5, <1>6 DEF Places
<1>9. HostInv' /\ DeviceInv'
  BY <1>1, <1>2, HostInvSame, DeviceInvSame DEF host, gpu
<1> QED
  BY <1>7, <1>8, <1>9 DEF IInv

LEMMA CallKeeps ==
  ASSUME IInv, UNCHANGED conf, Call PROVE IInv'
<1>1. LoopTypes /\ Places /\ HostInv /\ DeviceInv
  BY DEF IInv
<1>2. UNCHANGED <<scale, order, plan, gpu, host, served, changes>>
  BY DEF Call
<1>3. /\ cursor' \in 0 .. N /\ Places'
      /\ pc' \in [at : {"loop", "prefetch", "get", "neighbour"}, pos : 0 .. N,
                  part : {"none", "packing", "loads", "body"}]
  <2>1. CASE /\ pc.at = "prefetch" /\ pc.pos < N /\ pc.pos <= cursor + Lookahead
             /\ pc' = [pc EXCEPT !.pos = @ + 1, !.part = "packing"]
             /\ UNCHANGED cursor
    <3>1. /\ pc' \in [at : {"loop", "prefetch", "get", "neighbour"}, pos : 0 .. N,
                      part : {"none", "packing", "loads", "body"}]
          /\ pc'.at = "prefetch" /\ pc'.pos # 0 /\ pc'.part = "packing"
      <4>1. /\ pc \in [at : {"loop", "prefetch", "get", "neighbour"}, pos : 0 .. N,
                       part : {"none", "packing", "loads", "body"}]
            /\ N \in Nat
        BY <1>1, LoopFields
      <4>2. pc.at \in {"loop", "prefetch", "get", "neighbour"} /\ pc.pos \in 0 .. N
        BY <4>1
      <4>3. pc.pos + 1 \in 0 .. N /\ pc.pos + 1 # 0
        BY <2>1, <4>1, <4>2
      <4>4. pc' = [pc EXCEPT !.pos = pc.pos + 1, !.part = "packing"]
        BY <2>1
      <4>5. /\ pc' \in [at : {"loop", "prefetch", "get", "neighbour"}, pos : 0 .. N,
                        part : {"none", "packing", "loads", "body"}]
            /\ pc'.at = pc.at /\ pc'.pos = pc.pos + 1 /\ pc'.part = "packing"
        BY <4>1, <4>3, <4>4, CallMoved
      <4> QED
        BY <2>1, <4>3, <4>5
    <3> QED
      BY <1>1, <1>2, <2>1, <3>1, LoopFields DEF Places
  <2>2. CASE /\ pc.at = "prefetch"
             /\ pc' = [at |-> "get", pos |-> cursor + 1, part |-> "packing"]
             /\ cursor' = cursor + 1
    <3>1. cursor \in 0 .. N - 1 /\ plan # None /\ plan.cursor = cursor
      BY <1>1, <2>2, LoopFields DEF Places
    <3>2. /\ pc' \in [at : {"loop", "prefetch", "get", "neighbour"}, pos : 0 .. N,
                      part : {"none", "packing", "loads", "body"}]
          /\ pc'.at = "get" /\ pc'.pos = cursor + 1 /\ pc'.part = "packing"
          /\ cursor' \in 1 .. N
      BY <1>1, <2>2, <3>1, LoopFields
    <3> QED
      BY <1>1, <1>2, <2>2, <3>1, <3>2, LoopFields DEF Places
  <2>3. CASE /\ pc.at = "neighbour"
             /\ \E k \in 1 .. N : order[k] # served.asked /\ pc' = [pc EXCEPT !.pos = k, !.part = "packing"]
             /\ UNCHANGED cursor
    <3>1. /\ pc' \in [at : {"loop", "prefetch", "get", "neighbour"}, pos : 0 .. N,
                      part : {"none", "packing", "loads", "body"}]
          /\ pc'.at = "neighbour" /\ pc'.pos # 0 /\ pc'.part = "packing"
      <4>1. /\ pc \in [at : {"loop", "prefetch", "get", "neighbour"}, pos : 0 .. N,
                       part : {"none", "packing", "loads", "body"}]
            /\ N \in Nat
        BY <1>1, LoopFields
      <4>2. PICK k \in 1 .. N : pc' = [pc EXCEPT !.pos = k, !.part = "packing"]
        BY <2>3
      <4>3. k \in 0 .. N /\ k # 0
        BY <4>1
      <4>4. /\ pc' \in [at : {"loop", "prefetch", "get", "neighbour"}, pos : 0 .. N,
                        part : {"none", "packing", "loads", "body"}]
            /\ pc'.at = pc.at /\ pc'.pos = k /\ pc'.part = "packing"
        BY <4>1, <4>2, <4>3, CallMoved
      <4> QED
        BY <2>3, <4>3, <4>4
    <3> QED
      BY <1>1, <2>3, <3>1, LoopFields DEF Places
  <2>4. CASE pc' = Loop /\ UNCHANGED cursor
    <3>1. /\ pc' \in [at : {"loop", "prefetch", "get", "neighbour"}, pos : 0 .. N,
                      part : {"none", "packing", "loads", "body"}]
          /\ pc'.at = "loop" /\ pc'.part = "none"
      BY <1>1, <2>4, LoopFields DEF Loop
    <3> QED
      BY <1>1, <2>4, <3>1, LoopFields DEF Places
  <2> QED
    BY <2>1, <2>2, <2>3, <2>4 DEF Call
<1>4. LoopTypes'
  BY <1>1, <1>2, <1>3, LoopFields, LoopTypesNext
<1>5. HostInv' /\ DeviceInv'
  BY <1>1, <1>2, HostInvSame, DeviceInvSame DEF host, gpu
<1> QED
  BY <1>3, <1>4, <1>5 DEF IInv

\* What only moves within a call.
LEMMA WithinCall ==
  ASSUME IInv, UNCHANGED <<conf, loop, changes>>, HostInv', DeviceInv',
         pc' = pc \/ (pc.part # "none" /\ \E p \in {"none", "packing", "loads", "body"} : pc' = [pc EXCEPT !.part = p])
  PROVE  IInv'
<1>1. LoopTypes /\ Places
  BY DEF IInv
<1>2. /\ pc' \in [at : {"loop", "prefetch", "get", "neighbour"}, pos : 0 .. N,
                  part : {"none", "packing", "loads", "body"}]
      /\ pc'.at = pc.at /\ pc'.pos = pc.pos
      /\ pc'.part # "none" => pc.part # "none"
  BY <1>1, LoopFields
<1>3. LoopTypes'
  BY <1>1, <1>2, LoopFields, LoopTypesNext DEF loop
<1>4. Places'
  BY <1>1, <1>2 DEF Places, loop
<1> QED
  BY <1>3, <1>4 DEF IInv

LEMMA CollectKeeps ==
  ASSUME IInv, UNCHANGED conf,
         Collected \/ \E v \in Views : AcceptCompression(v) \/ AcceptPrefetch(v)
  PROVE  IInv'
<1>1. LoopTypes /\ Places /\ HostInv /\ DeviceInv
  BY DEF IInv
<1>2. CASE Collected
  <2>1. HostInv' /\ DeviceInv'
    BY <1>1, <1>2, HostInvSame, DeviceInvSame DEF Collected, loop, host, gpu
  <2>2. pc.part # "none" /\ \E p \in {"none", "packing", "loads", "body"} : pc' = [pc EXCEPT !.part = p]
    BY <1>2 DEF Collected
  <2> QED
    BY <1>2, <2>1, <2>2, WithinCall DEF Collected
<1>3. ASSUME NEW v \in Views, AcceptCompression(v) PROVE IInv'
  <2>1. /\ packing[v] # None /\ packing' = [packing EXCEPT ![v] = None]
        /\ UNCHANGED <<loop, gpu, decoded, prefetches, pc, served, changes>>
        /\ \/ packed' = Packed(packed, packing[v], room.packed) /\ UNCHANGED room
           \/ GiveUp
    BY <1>3 DEF AcceptCompression
  <2>2. /\ packed' \in Seq(Current) /\ Len(packed') <= room'.packed
        /\ room' \in [decoded : 0 .. HostBudget, packed : 0 .. HostBudget]
        /\ Len(decoded) <= room'.decoded \/ Len(decoded) = 1
    <3>1. CASE packed' = Packed(packed, packing[v], room.packed) /\ UNCHANGED room
      <4>1. packing[v] \in Current /\ PlanOK /\ Current \subseteq Image /\ room.packed \in Nat
        BY <1>1, <2>1, CurrentIsImage, Rooms DEF HostInv, LoopTypes
      <4>2. packed \in Seq(Current) /\ Len(packed) <= room.packed
        BY <1>1 DEF HostInv
      <4>3. packed' \in Seq(Current) /\ Len(packed') <= room.packed
        BY <3>1, <4>1, <4>2, PackedKeeps
      <4> QED
        BY <1>1, <3>1, <4>3 DEF HostInv
    <3>2. CASE GiveUp
      BY <1>1, <3>2, GivenUp
    <3> QED
      BY <2>1, <3>1, <3>2
  <2>3. packing' \in [Views -> Current \cup {None}]
    BY <1>1, <2>1 DEF HostInv
  <2>4. HostInv'
    <3>1. /\ decoded' \in Seq(Current) /\ prefetches' \in [Views -> [img : Current, hit : BOOLEAN] \cup {None}]
          /\ \A w \in Views : prefetches'[w] # None => prefetches'[w].img.view = w
      BY <1>1, <2>1 DEF HostInv
    <3>2. scale' = scale /\ decoded' = decoded
      BY <2>1 DEF loop
    <3> QED
      BY <2>2, <2>3, <3>1, <3>2, HostInvNext
  <2>5. DeviceInv'
    BY <1>1, <2>1, DeviceInvSame DEF gpu, loop
  <2> QED
    BY <2>1, <2>4, <2>5, WithinCall
<1>4. ASSUME NEW v \in Views, AcceptPrefetch(v) PROVE IInv'
  <2>1. /\ prefetches[v] # None /\ Accepted(prefetches[v], v)
        /\ UNCHANGED <<loop, gpu, pc, served, changes>>
    BY <1>4 DEF AcceptPrefetch
  <2>2. UNCHANGED <<conf, scale>>
    BY <2>1 DEF loop
  <2>3. HostInv'
    BY <1>1, <2>1, <2>2, AcceptedKeeps
  <2>4. DeviceInv'
    BY <1>1, <2>1, DeviceInvSame DEF gpu, loop
  <2> QED
    BY <2>1, <2>3, <2>4, WithinCall
<1> QED
  BY <1>2, <1>3, <1>4

LEMMA DoPrefetchKeeps ==
  ASSUME IInv, UNCHANGED conf, DoPrefetch PROVE IInv'
<1>1. LoopTypes /\ Places /\ HostInv /\ DeviceInv
  BY DEF IInv
<1>2. order[pc.pos] \in Views
  BY <1>1, LoopFields DEF DoPrefetch, Places, Orders
<1>3. HostInv' /\ DeviceInv'
  BY <1>1, <1>2, PrefetchKeeps DEF DoPrefetch, loop
<1>4. pc.part # "none" /\ \E p \in {"none", "packing", "loads", "body"} : pc' = [pc EXCEPT !.part = p]
  BY DEF DoPrefetch
<1> QED
  BY <1>3, <1>4, WithinCall DEF DoPrefetch

LEMMA DoGetKeeps ==
  ASSUME IInv, UNCHANGED conf, DoGet PROVE IInv'
<1>1. LoopTypes /\ Places /\ HostInv /\ DeviceInv
  BY DEF IInv
<1>2. order[pc.pos] \in Views
  BY <1>1, LoopFields DEF DoGet, Places, Orders
<1>3. HostInv' /\ DeviceInv' /\ changes' \in 0 .. MaxChanges
  BY <1>1, <1>2, GetKeeps DEF DoGet, loop
<1>4. /\ pc' \in [at : {"loop", "prefetch", "get", "neighbour"}, pos : 0 .. N,
                  part : {"none", "packing", "loads", "body"}]
      /\ pc'.part = "none" /\ pc'.at \in {"loop", "neighbour"}
  BY <1>1, LoopFields DEF DoGet, Loop
<1>5. LoopTypes'
  BY <1>1, <1>3, <1>4, LoopFields, LoopTypesNext DEF DoGet, loop
<1>6. Places'
  BY <1>4 DEF Places
<1> QED
  BY <1>3, <1>5, <1>6 DEF IInv

LEMMA Step == IInv /\ [Next]_vars => IInv'
<1> SUFFICES ASSUME IInv, [Next]_vars PROVE IInv'
  OBVIOUS
<1>1. CASE Next
  <2>1. UNCHANGED conf
    BY <1>1 DEF Next
  <2> QED
    BY <1>1, <2>1, NextScaleKeeps, PriorsKeeps, HeadroomKeeps, IterateKeeps, CallKeeps,
       CollectKeeps, DoPrefetchKeeps, DoGetKeeps DEF Next
<1>2. CASE UNCHANGED vars
  <2>1. UNCHANGED <<conf, loop, changes, pc>>
    BY <1>2 DEF vars, loop
  <2>2. HostInv' /\ DeviceInv'
    BY <1>2, HostInvSame, DeviceInvSame DEF IInv, vars
  <2> QED
    BY <2>1, <2>2, WithinCall
<1> QED
  BY <1>1, <1>2

\* Every reachable state satisfies the invariant (training_data_loader.cpp).
THEOREM Invariance == Spec => []IInv
  BY Start, Step, PTL DEF Spec

----------------------------------------------------------------------------

\* No list, transfer or background task carries an image of another resolution,
\* for every number of views and every budget (set_resolution_scale).
THEOREM CurrentImages == Spec => []ImagesAreCurrent
<1>1. IInv => ImagesAreCurrent
  <2> SUFFICES ASSUME IInv, NEW img \in Images PROVE img.scale = scale
    BY DEF ImagesAreCurrent
  <2>1. img \in Current
    <3>1. \A s \in {device, decoded, packed} : ToSet(s) \subseteq Current
      <4>1. \A s \in Seq(Current) : ToSet(s) \subseteq Current
        BY DEF ToSet
      <4> QED
        BY <4>1 DEF IInv, HostInv, DeviceInv
    <3>2. uploads \subseteq Current
      BY DEF IInv, DeviceInv
    <3>3. {prefetches[v].img : v \in {w \in Views : prefetches[w] # None}} \subseteq Current
      BY DEF IInv, HostInv
    <3>4. {packing[v] : v \in {w \in Views : packing[w] # None}} \subseteq Current
      BY DEF IInv, HostInv
    <3>5. CASE img \in uploads
      BY <3>2, <3>5
    <3>6. CASE img \in UNION {ToSet(s) : s \in {device, decoded, packed}}
      BY <3>1, <3>6
    <3>7. CASE img \in {prefetches[v].img : v \in {w \in Views : prefetches[w] # None}}
      BY <3>3, <3>7
    <3>8. CASE img \in {packing[v] : v \in {w \in Views : packing[w] # None}}
      BY <3>4, <3>8
    <3> QED
      BY <3>5, <3>6, <3>7, <3>8 DEF Images
  <2> QED
    BY <2>1 DEF Current
<1> QED
  BY <1>1, Invariance, PTL

\* The caches keep their budgets whatever the feedback makes of them, transfers in
\* flight included (make_room_for_device_bytes, store_host_view, evaluate_device_budget).
THEOREM BudgetsKept == Spec => []WithinBudgets
<1>1. IInv => WithinBudgets
  BY DEF IInv, HostInv, DeviceInv, WithinBudgets
<1> QED
  BY <1>1, Invariance, PTL

\* What get returns is the view that was asked for at the resolution of now, but
\* for the hits that the feedback may evict (get_impl).
THEOREM RightViewServed == Spec => ServedIsAsked
<1>1. IInv /\ [Next]_vars =>
        [DoGet => \/ served'.img = Now(served'.asked)
                  \/ Has(device, order[pc.pos]) /\ MayBeEvicted]_vars
  <2> SUFFICES ASSUME IInv, Next, DoGet
               PROVE  \/ served'.img = Now(served'.asked)
                      \/ Has(device, order[pc.pos]) /\ MayBeEvicted
    BY DEF vars
  <2>1. LoopTypes /\ Places /\ HostInv /\ DeviceInv /\ UNCHANGED <<conf, scale>>
    BY DEF IInv, Next, DoGet, loop
  <2> DEFINE v == order[pc.pos]
  <2>2. v \in Views
    BY <2>1, LoopFields DEF DoGet, Places, Orders
  <2>3. \/ served'.img = Now(served'.asked)
        \/ Has(device, v) /\ (plan = None \/ Distance(v) # 0)
    BY <2>1, <2>2, GetKeeps DEF DoGet
  <2>4. ASSUME ~MayBeEvicted PROVE plan # None /\ Distance(v) = 0
    <3>1. pc.at = "get" /\ plan.order = order
      BY <2>4 DEF MayBeEvicted, DoGet
    <3>2. plan # None /\ plan.cursor = cursor - 1 /\ pc.pos = cursor /\ cursor # 0
      BY <2>1, <3>1 DEF Places
    <3>3. plan.cursor % N = plan.cursor
      BY <2>1, <3>2, LoopFields
    <3>4. plan.order[(plan.cursor % N) + 1] = v
      BY <2>1, <3>1, <3>2, <3>3, LoopFields
    <3> HIDE DEF v
    <3> QED
      BY <2>1, <2>2, <3>2, <3>4, DistanceType DEF LoopTypes
  <2> QED
    BY <2>3, <2>4
<1> QED
  BY <1>1, Invariance, PTL DEF Spec, ServedIsAsked

-----------------------------------------------------------------------------
(* UploadRing *)

\* An upload, pending or draining, owns its slot and its buffer alone.
Owns ==
  /\ \A v, w \in Pending : v # w =>
       /\ device_uploads[v].slot # device_uploads[w].slot
       /\ device_uploads[v].buf # device_uploads[w].buf
  /\ failed # None => \A v \in Pending :
       device_uploads[v].slot # failed.slot /\ device_uploads[v].buf # failed.buf
  /\ \A v \in Pending : busy[device_uploads[v].slot] /\ device_uploads[v].buf \notin pool
  /\ failed # None => busy[failed.slot] /\ failed.buf \notin pool

\* Every transfer in flight is one of an upload.
Belongs == \A c \in copies : failed = c \/ \E v \in Pending : device_uploads[v] = c

\* The view of a pending upload is in its buffer until its slot has it.
Arrives ==
  \A v \in Pending : IF device_uploads[v] \in copies THEN staged[device_uploads[v].buf] = v
                                     ELSE data[device_uploads[v].slot] = v

\* A slot that is read is not owned and holds the view that is read.
Hopping == \A h \in hops : ~busy[h.slot] /\ data[h.slot] = h.view

RingInv == RingTypeOK /\ Owns /\ Belongs /\ Arrives /\ Hopping

LEMMA RingStart == RingInit => RingInv
  BY UploadRingAssumption DEF RingInit, RingInv, RingTypeOK, Owns, Belongs, Arrives, Hopping, Pending

\* What an upload may take is free: nobody owns the slot or the buffer, and
\* nothing reads or writes the slot.
LEMMA TakenIsFree ==
  ASSUME RingInv, NEW s \in Slots, NEW b \in Buffers, TryAcquire(s), AcquireBuffer(b)
  PROVE  /\ \A v \in Pending : device_uploads[v].slot # s /\ device_uploads[v].buf # b
         /\ failed # None => failed.slot # s /\ failed.buf # b
         /\ \A c \in copies : c.slot # s /\ c.buf # b
         /\ \A h \in hops : h.slot # s
<1>1. /\ \A v \in Pending : device_uploads[v].slot # s
      /\ failed # None => failed.slot # s
      /\ \A h \in hops : h.slot # s
  BY DEF RingInv, Owns, TryAcquire, Reusable
<1>2. b \notin InUse
  <2>1. CASE pool = {}
    BY <2>1 DEF AcquireBuffer
  <2>2. CASE pool # {}
    BY <2>2 DEF AcquireBuffer, RingInv, Owns, InUse
  <2> QED
    BY <2>1, <2>2
<1>3. /\ \A v \in Pending : device_uploads[v].buf # b
      /\ failed # None => failed.buf # b
  BY <1>2 DEF InUse
<1>4. \A c \in copies : c.slot # s /\ c.buf # b
  BY <1>1, <1>3, UploadRingAssumption DEF RingInv, Belongs, RingTypeOK, Transfer, Pending
<1> QED
  BY <1>1, <1>3, <1>4

LEMMA Scheduled ==
  ASSUME RingInv, NEW v \in Views, Schedule(v)
  PROVE  RingInv'
<1>1. PICK s \in Slots, b \in Buffers :
         /\ TryAcquire(s) /\ AcquireBuffer(b)
         /\ busy' = [busy EXCEPT ![s] = TRUE]
         /\ pool' = pool \ {b}
         /\ staged' = [staged EXCEPT ![b] = v]
         /\ copies' = copies \cup {[slot |-> s, buf |-> b]}
         /\ device_uploads' = [device_uploads EXCEPT ![v] = [slot |-> s, buf |-> b]]
  BY DEF Schedule
<1> DEFINE u == [slot |-> s, buf |-> b]
<1>2. u \in Transfer /\ u.slot = s /\ u.buf = b /\ u # None
  BY UploadRingAssumption DEF Transfer
<1>3. /\ \A w \in Pending : device_uploads[w].slot # s /\ device_uploads[w].buf # b
      /\ \A c \in copies : c.slot # s /\ c.buf # b
      /\ \A h \in hops : h.slot # s
  BY <1>1, TakenIsFree
<1>4. /\ failed = None /\ failed' = None /\ data' = data /\ hops' = hops
      /\ v \notin Pending
  BY DEF Schedule, Pending
<1>5. RingTypeOK'
  BY <1>1, <1>2, <1>4 DEF RingInv, RingTypeOK
<1>6. /\ Pending' = Pending \cup {v} /\ device_uploads'[v] = u
      /\ \A w \in Pending : device_uploads'[w] = device_uploads[w]
  BY <1>1, <1>2, <1>4 DEF RingInv, RingTypeOK, Pending
<1>7. \A w \in Pending : device_uploads[w] \in Transfer
  BY DEF RingInv, RingTypeOK, Pending
<1>8. Owns'
  BY <1>1, <1>2, <1>3, <1>4, <1>6, <1>7 DEF RingInv, RingTypeOK, Owns, Transfer
<1>9. Belongs'
  BY <1>1, <1>2, <1>4, <1>6 DEF RingInv, Belongs
<1>10. Arrives'
  BY <1>1, <1>2, <1>3, <1>4, <1>6, <1>7 DEF RingInv, RingTypeOK, Arrives, Transfer
<1>11. Hopping'
  BY <1>1, <1>3, <1>4 DEF RingInv, RingTypeOK, Hopping
<1> QED
  BY <1>5, <1>8, <1>9, <1>10, <1>11 DEF RingInv

LEMMA SchedulingFailed ==
  ASSUME RingInv, NEW v \in Views, ScheduleFails(v)
  PROVE  RingInv'
<1>1. PICK s \in Slots, b \in Buffers :
         /\ TryAcquire(s) /\ AcquireBuffer(b)
         /\ busy' = [busy EXCEPT ![s] = TRUE]
         /\ pool' = pool \ {b}
         /\ staged' = [staged EXCEPT ![b] = v]
         /\ copies' \in {copies, copies \cup {[slot |-> s, buf |-> b]}}
         /\ failed' = [slot |-> s, buf |-> b]
  BY DEF ScheduleFails
<1> DEFINE u == [slot |-> s, buf |-> b]
<1>2. u \in Transfer /\ u.slot = s /\ u.buf = b /\ u # None
  BY UploadRingAssumption DEF Transfer
<1>3. /\ \A w \in Pending : device_uploads[w].slot # s /\ device_uploads[w].buf # b
      /\ \A h \in hops : h.slot # s
  BY <1>1, TakenIsFree
<1>4. failed = None /\ device_uploads' = device_uploads /\ data' = data /\ hops' = hops
  BY DEF ScheduleFails
<1>5. RingTypeOK'
  BY <1>1, <1>2, <1>4 DEF RingInv, RingTypeOK
<1>6. Pending' = Pending /\ \A w \in Pending : device_uploads[w] \in Transfer
  BY <1>4 DEF RingInv, RingTypeOK, Pending
<1>7. Owns'
  BY <1>1, <1>2, <1>3, <1>4, <1>6 DEF RingInv, RingTypeOK, Owns, Transfer
<1>8. Belongs'
  BY <1>1, <1>4, <1>6, UploadRingAssumption DEF RingInv, RingTypeOK, Belongs, Transfer
<1>9. \A w \in Pending : device_uploads[w] \in copies' <=> device_uploads[w] \in copies
  BY <1>1, <1>3
<1>10. Arrives'
  BY <1>1, <1>3, <1>4, <1>6, <1>9 DEF RingInv, RingTypeOK, Arrives, Transfer
<1>11. Hopping'
  BY <1>1, <1>3, <1>4 DEF RingInv, RingTypeOK, Hopping
<1> QED
  BY <1>5, <1>7, <1>8, <1>10, <1>11 DEF RingInv

LEMMA Drains ==
  ASSUME RingInv, Drain
  PROVE  RingInv'
<1>1. /\ copies = {} /\ copies' = {} /\ failed # None /\ failed' = None
      /\ device_uploads' = device_uploads /\ data' = data /\ staged' = staged /\ hops' = hops
      /\ pool' = pool \cup {failed.buf}
      /\ busy' = [busy EXCEPT ![failed.slot] = FALSE]
  BY DEF Drain, Drained
<1>2. failed.slot \in Slots /\ failed.buf \in Buffers
  BY <1>1 DEF RingInv, RingTypeOK, Transfer
<1>3. RingTypeOK'
  BY <1>1, <1>2 DEF RingInv, RingTypeOK
<1>4. Pending' = Pending /\ \A w \in Pending : device_uploads[w] \in Transfer
  BY <1>1 DEF RingInv, RingTypeOK, Pending
<1>5. Owns'
  BY <1>1, <1>2, <1>4 DEF RingInv, RingTypeOK, Owns, Transfer
<1>6. Belongs' /\ Arrives'
  BY <1>1, <1>4 DEF RingInv, Belongs, Arrives
<1>7. Hopping'
  BY <1>1, <1>2 DEF RingInv, RingTypeOK, Hopping
<1> QED
  BY <1>3, <1>5, <1>6, <1>7 DEF RingInv

LEMMA Consumed ==
  ASSUME RingInv, NEW v \in Views, Consume(v)
  PROVE  RingInv'
<1> DEFINE s == device_uploads[v].slot
           b == device_uploads[v].buf
<1>1. /\ failed = None /\ failed' = None /\ v \in Pending /\ Ready(s)
      /\ pool' = pool \cup {b}
      /\ busy' = [busy EXCEPT ![s] = FALSE]
      /\ hops' = hops \cup {[slot |-> s, view |-> v]}
      /\ device_uploads' = [device_uploads EXCEPT ![v] = None]
      /\ data' = data /\ staged' = staged /\ copies' = copies
  BY DEF Consume, Pending
<1>2. device_uploads[v] \in Transfer /\ s \in Slots /\ b \in Buffers
  BY <1>1 DEF RingInv, RingTypeOK, Pending, Transfer
<1>3. RingTypeOK'
  BY <1>1, <1>2 DEF RingInv, RingTypeOK
<1>4. /\ Pending' = Pending \ {v}
      /\ \A w \in Pending' : /\ w \in Pending
                            /\ device_uploads'[w] = device_uploads[w]
                            /\ device_uploads[w] \in Transfer
  BY <1>1 DEF RingInv, RingTypeOK, Pending
<1>5. Owns'
  BY <1>1, <1>2, <1>4 DEF RingInv, RingTypeOK, Owns, Transfer
<1>6. device_uploads[v] \notin copies
  BY <1>1 DEF Ready
<1>7. Belongs'
  BY <1>1, <1>4, <1>6 DEF RingInv, Belongs
<1>8. Arrives'
  BY <1>1, <1>4 DEF RingInv, Arrives
<1>9. Hopping'
  BY <1>1, <1>2, <1>6 DEF RingInv, RingTypeOK, Arrives, Hopping
<1> QED
  BY <1>3, <1>5, <1>7, <1>8, <1>9 DEF RingInv

\* When no upload drains and the pending ones are ready, the copy engine rests.
LEMMA QuietMeansNoCopies == RingInv /\ failed = None /\ Quiet => copies = {}
  BY UploadRingAssumption DEF RingInv, RingTypeOK, Belongs, Quiet, Ready, Transfer

LEMMA Cleared ==
  ASSUME RingInv, failed = None, failed' = None, Quiet,
         device_uploads' = [v \in Views |-> None],
         pool' \subseteq Buffers, staged' \in [Buffers -> Views \cup {None}],
         busy' = [s \in Slots |-> busy[s] /\ \A v \in Pending : device_uploads[v].slot # s],
         copies' = copies, hops' = hops, data' = data
  PROVE  RingInv'
<1>1. copies = {}
  BY QuietMeansNoCopies
<1>2. RingTypeOK'
  <2>1. \A s \in Slots : (busy[s] /\ \A v \in Pending : device_uploads[v].slot # s) \in BOOLEAN
    OBVIOUS
  <2> QED
    BY <2>1 DEF RingInv, RingTypeOK
<1>3. Pending' = {}
  BY DEF Pending
<1>4. Owns' /\ Belongs' /\ Arrives'
  BY <1>1, <1>3 DEF Owns, Belongs, Arrives
<1>5. Hopping'
  BY DEF RingInv, RingTypeOK, Hopping
<1> QED
  BY <1>2, <1>4, <1>5 DEF RingInv

LEMMA Copied ==
  ASSUME RingInv, NEW c \in copies, Copy(c)
  PROVE  RingInv'
<1>1. /\ data' = [data EXCEPT ![c.slot] = staged[c.buf]] /\ copies' = copies \ {c}
      /\ busy' = busy /\ pool' = pool /\ staged' = staged /\ device_uploads' = device_uploads
      /\ failed' = failed /\ hops' = hops
  BY DEF Copy
<1>2. c \in Transfer /\ c.slot \in Slots /\ c.buf \in Buffers
  BY DEF RingInv, RingTypeOK, Transfer
<1>3. RingTypeOK'
  BY <1>1, <1>2 DEF RingInv, RingTypeOK
<1>4. Pending' = Pending /\ \A w \in Pending : device_uploads[w] \in Transfer
  BY <1>1 DEF RingInv, RingTypeOK, Pending
<1>5. Owns' /\ Belongs'
  BY <1>1, <1>4 DEF RingInv, Owns, Belongs
<1>6. busy[c.slot]
  BY <1>2, UploadRingAssumption DEF RingInv, Owns, Belongs, Transfer
<1>7. Arrives'
  <2> SUFFICES ASSUME NEW w \in Pending
               PROVE  IF device_uploads[w] \in copies' THEN staged[device_uploads[w].buf] = w
                                                ELSE data'[device_uploads[w].slot] = w
    BY <1>1, <1>4 DEF Arrives
  <2>1. CASE device_uploads[w] = c
    BY <2>1, <1>1, <1>2 DEF RingInv, RingTypeOK, Arrives
  <2>2. CASE device_uploads[w] # c
    <3>1. device_uploads[w].slot # c.slot
      BY <2>2, <1>2, UploadRingAssumption DEF RingInv, Owns, Belongs, Transfer
    <3> QED
      BY <2>2, <3>1, <1>1, <1>2, <1>4 DEF RingInv, RingTypeOK, Arrives, Transfer
  <2> QED
    BY <2>1, <2>2
<1>8. Hopping'
  BY <1>1, <1>2, <1>6 DEF RingInv, RingTypeOK, Hopping
<1> QED
  BY <1>3, <1>5, <1>7, <1>8 DEF RingInv

LEMMA RingStep == RingInv /\ [RingNext]_ringvars => RingInv'
<1> SUFFICES ASSUME RingInv, [RingNext]_ringvars PROVE RingInv'
  OBVIOUS
<1>1. CASE UNCHANGED ringvars
  BY <1>1 DEF ringvars, RingInv, RingTypeOK, Owns, Belongs, Arrives, Hopping, Pending
<1>2. ASSUME NEW v \in Views, Schedule(v) \/ ScheduleFails(v) \/ Consume(v) PROVE RingInv'
  BY <1>2, Scheduled, SchedulingFailed, Consumed
<1>3. CASE Drain
  BY <1>3, Drains
<1>4. CASE ClearPending
  <2>1. pool' \subseteq Buffers
    BY <1>4 DEF ClearPending, InUse, RingInv, RingTypeOK, Pending, Transfer
  <2> QED
    BY <1>4, <2>1, Cleared DEF ClearPending, RingInv, RingTypeOK
<1>5. CASE Rescale
  BY <1>5, Cleared DEF Rescale
<1>6. ASSUME NEW c \in copies, Copy(c) PROVE RingInv'
  BY <1>6, Copied
<1>7. ASSUME NEW h \in hops, Hop(h) PROVE RingInv'
  BY <1>7 DEF Hop, RingInv, RingTypeOK, Owns, Belongs, Arrives, Hopping, Pending
<1> QED
  BY <1>1, <1>2, <1>3, <1>4, <1>5, <1>6, <1>7 DEF RingNext

LEMMA RingInvariance == RingSpec => []RingInv
  BY RingStart, RingStep, PTL DEF RingSpec

\* A cache entry receives its own view, however late the compute stream copies
\* it out of the slot and whatever failed or was cleared meanwhile.
THEOREM EntriesGetTheirView == RingSpec => []HopsFindTheirView
<1>1. RingInv => HopsFindTheirView
  BY UploadRingAssumption DEF RingInv, RingTypeOK, Owns, Belongs, Hopping, HopsFindTheirView, Transfer
<1> QED
  BY <1>1, RingInvariance, PTL

\* No staging buffer is handed out or freed while a transfer reads it.
THEOREM BuffersStayQuiet == RingSpec => []StagingIsQuiet
<1>1. RingInv => StagingIsQuiet
  BY UploadRingAssumption
     DEF RingInv, RingTypeOK, Owns, Belongs, StagingIsQuiet, InUse, Transfer, Pending
<1> QED
  BY <1>1, RingInvariance, PTL

=============================================================================
