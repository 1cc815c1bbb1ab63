------------------------- MODULE EditAndSaveProofs --------------------------
(***************************************************************************)
(* Editing a model and saving it in the project.                           *)
(*                                                                         *)
(* 1. ProjectArchive: reading and saving the container file, for every     *)
(*    number of files, chunks, objects, saves and faults.  With one writer *)
(*    every file that has a name is complete, what a save renames is what  *)
(*    it was asked to write, and everybody finds the chunks of its file.   *)
(* 2. SaveHandshake: a save while the trainer runs, for every number of    *)
(*    iterations and of requests.  The archive is consistent, an           *)
(*    acknowledged save is current, and the job's pause survives a save.   *)
(* 3. SplatEdit: editing Gaussians, for all models, lengths of the history *)
(*    and of the session.  Undo and redo restore what they take back, a    *)
(*    deletion that is refused leaves no trace, and an edit that the       *)
(*    project does not have is noticed.                                    *)
(***************************************************************************)
EXTENDS ProjectArchive, SaveHandshake, SplatEdit, FiniteSetTheorems, SequenceTheorems,
        WellFoundedInduction, TLAPS

-----------------------------------------------------------------------------
(* ProjectArchive *)

\* A set of numbers has a least one.
LEMMA LeastNat ==
  ASSUME NEW T \in SUBSET Nat, T # {}
  PROVE  \E x \in T : \A y \in T : x <= y
<1> DEFINE R == {p \in Nat \X Nat : p[1] < p[2]}
<1>1. IsWellFoundedOn(R, Nat)
  BY NatLessThanWellFounded DEF OpToRel
<1>2. PICK x \in T : \A y \in T : ~ (<<y, x>> \in R)
  <2> HIDE DEF R
  <2> QED BY <1>1, WFMin
<1>3. \A a, b \in Nat : a < b => <<a, b>> \in R
  OBVIOUS
<1>4. \A y \in T : x <= y
  <2> HIDE DEF R
  <2> TAKE y \in T
  <2>1. y \in Nat /\ x \in Nat
    OBVIOUS
  <2>2. ~ (<<y, x>> \in R)
    BY <1>2
  <2>3. ~ (y < x)
    BY <2>1, <2>2, <1>3
  <2> QED BY <2>1, <2>3
<1> QED
  BY <1>4

-----------------------------------------------------------------------------
(* Layout *)

\* The first type that is left to write (a set of types has a least one).
LEMMA FirstType ==
  ASSUME NEW T \in SUBSET Types, T # {}
  PROVE  Min(T) \in T /\ \A u \in T : Min(T) <= u
<1>1. \E x \in T : \A y \in T : x <= y
  BY LeastNat, ProjectArchiveAssumption
<1> QED
  BY <1>1 DEF Min

\* The cells of some chunks are finitely many.
LEMMA RoomIsFinite ==
  ASSUME NEW s \in [Types -> Slot \cup {None}], NEW U \in SUBSET Present(s)
  PROVE  /\ IsFiniteSet(Room(s, U)) /\ Cardinality(Room(s, U)) \in Nat
         /\ \A u \in U : Size(s[u].val) \in Nat
<1>1. IsFiniteSet(U)
  BY ProjectArchiveAssumption, FS_Subset DEF Present
<1>2. \A u \in U : Size(s[u].val) \in Nat
  BY ProjectArchiveAssumption DEF Present, Slot
<1> DEFINE f == [u \in U |-> {u} \X (1 .. Size(s[u].val))]
           Q == {{u} \X (1 .. Size(s[u].val)) : u \in U}
<1>3. f \in Surjection(U, Q)
  BY DEF Surjection
<1>4. IsFiniteSet(Q)
  <2> HIDE DEF f, Q
  <2> QED BY <1>1, <1>3, FS_Surjection
<1>5. \A T \in Q : IsFiniteSet(T)
  <2> SUFFICES ASSUME NEW u \in U PROVE IsFiniteSet({u} \X (1 .. Size(s[u].val)))
    OBVIOUS
  <2>1. IsFiniteSet({u}) /\ IsFiniteSet(1 .. Size(s[u].val))
    <3>1. Size(s[u].val) \in Int /\ 1 \in Int
      BY <1>2
    <3> QED
      BY <3>1, FS_Singleton, FS_Interval
  <2> QED
    BY <2>1, FS_Product
<1>6. IsFiniteSet(UNION Q)
  <2> HIDE DEF Q
  <2> QED BY <1>4, <1>5, FS_UNION
<1> QED
  BY <1>2, <1>6, FS_CardinalityType DEF Room

LEMMA OffsetType ==
  ASSUME NEW s \in [Types -> Slot \cup {None}], NEW t
  PROVE  Offset(s, t) \in Nat /\ Offset(s, t) >= 2
<1>1. {u \in Present(s) : u < t} \in SUBSET Present(s)
  OBVIOUS
<1>2. Cardinality(Room(s, {u \in Present(s) : u < t})) \in Nat
  BY <1>1, RoomIsFinite
<1> QED
  BY <1>2 DEF Offset

\* Chunks do not overlap: a smaller type ends before a larger one begins.
LEMMA Disjoint ==
  ASSUME NEW s \in [Types -> Slot \cup {None}], NEW t \in Present(s), NEW u \in Present(s), t < u
  PROVE  Offset(s, t) + Size(s[t].val) <= Offset(s, u)
<1> DEFINE A == {x \in Present(s) : x < t}
           B == {x \in Present(s) : x < u}
           n == Size(s[t].val)
           C == {t} \X (1 .. n)
<1>1. t \in Nat /\ u \in Nat /\ \A x \in Present(s) : x \in Nat
  BY ProjectArchiveAssumption DEF Present
<1>2. A \subseteq B /\ t \in B /\ t \notin A
  <2>1. \A x \in Present(s) : x < t => x < u
    BY <1>1
  <2>2. ~ (t < t)
    BY <1>1
  <2> QED
    BY <2>1, <2>2
<1>3. /\ IsFiniteSet(Room(s, A)) /\ Cardinality(Room(s, A)) \in Nat
      /\ IsFiniteSet(Room(s, B)) /\ Cardinality(Room(s, B)) \in Nat
      /\ n \in Nat
  <2>1. A \in SUBSET Present(s) /\ B \in SUBSET Present(s)
    OBVIOUS
  <2> HIDE DEF A, B
  <2> QED BY <1>2, <2>1, RoomIsFinite
<1>4. IsFiniteSet(C) /\ Cardinality(C) = n
  <2>1. IsFiniteSet({t}) /\ Cardinality({t}) = 1
    BY FS_Singleton
  <2>2. IsFiniteSet(1 .. n) /\ Cardinality(1 .. n) = n
    BY <1>3, FS_Interval
  <2>3. IsFiniteSet(C) /\ Cardinality(C) = 1 * n
    <3> HIDE DEF n
    <3> QED BY <2>1, <2>2, FS_Product
  <2> QED
    BY <1>3, <2>3
<1>5. Room(s, A) \cap C = {}
  BY <1>2 DEF Room
<1>6. Room(s, A) \cup C \subseteq Room(s, B)
  <2>1. Room(s, A) \subseteq Room(s, B)
    BY <1>2 DEF Room
  <2>2. C \subseteq Room(s, B)
    BY <1>2 DEF Room
  <2> QED
    BY <2>1, <2>2
<1>7. /\ IsFiniteSet(Room(s, A) \cup C)
      /\ Cardinality(Room(s, A) \cup C) = Cardinality(Room(s, A)) + n
  <2> HIDE DEF A, C, n
  <2>1. Cardinality(Room(s, A) \cap C) = 0
    BY <1>5, FS_EmptySet
  <2>2. /\ IsFiniteSet(Room(s, A) \cup C)
        /\ Cardinality(Room(s, A) \cup C)
             = Cardinality(Room(s, A)) + Cardinality(C) - Cardinality(Room(s, A) \cap C)
    BY <1>3, <1>4, FS_Union
  <2> QED
    BY <1>3, <1>4, <2>1, <2>2
<1>8. Cardinality(Room(s, A) \cup C) <= Cardinality(Room(s, B))
  <2> HIDE DEF A, B, C
  <2> QED BY <1>3, <1>6, FS_Subset
<1> QED
  BY <1>3, <1>7, <1>8 DEF Offset

-----------------------------------------------------------------------------
(* Cells *)

\* The cells of files that one writer has written.
Cells == [Types -> Slot \cup {None}] \cup (Payloads \X Nat) \cup {<<>>}

\* The bytes of v are in f from off on.
Has(f, off, v) ==
  /\ off + Size(v) - 1 <= Len(f)
  /\ \A k \in 1 .. Size(v) : f[off + k - 1] = <<v, k>>

LEMMA BytesType ==
  ASSUME NEW v \in Payloads
  PROVE  /\ Bytes(v) \in Seq(Payloads \X Nat) /\ Len(Bytes(v)) = Size(v) /\ Size(v) \in Nat
         /\ \A k \in 1 .. Size(v) : Bytes(v)[k] = <<v, k>>
<1>1. Size(v) \in Nat
  BY ProjectArchiveAssumption
<1>2. \A k \in 1 .. Size(v) : <<v, k>> \in Payloads \X Nat
  BY <1>1
<1>3. Bytes(v) \in Seq(Payloads \X Nat)
  BY <1>1, <1>2 DEF Bytes
<1>4. Len(Bytes(v)) = Size(v)
  BY <1>1, <1>3 DEF Bytes
<1> QED
  BY <1>1, <1>3, <1>4 DEF Bytes

LEMMA HasReads ==
  ASSUME NEW S, NEW f \in Seq(S), NEW v \in Payloads, NEW off \in Nat, off >= 2, Has(f, off, v)
  PROVE  Slice(f, off, Size(v)) = Bytes(v)
<1>1. Size(v) \in Nat /\ Len(f) \in Nat
  BY BytesType
<1>2. Slice(f, off, Size(v)) = SubSeq(f, off, off + Size(v) - 1)
  BY <1>1 DEF Slice, Has
<1> DEFINE n == off + Size(v) - 1
           b == SubSeq(f, off, n)
<1>3. /\ off \in Int /\ n \in Int /\ n - off + 1 = Size(v)
      /\ off <= n => n - off + 1 = Size(v)
      /\ ~ (off <= n) => Size(v) = 0
      /\ \A i \in off .. n : i \in 1 .. Len(f)
  BY <1>1 DEF Has
<1>4. /\ b \in Seq(S) /\ Len(b) = IF off <= n THEN n - off + 1 ELSE 0
      /\ \A i \in 1 .. n - off + 1 : b[i] = f[off + i - 1]
  <2> HIDE DEF n
  <2>1. \A i \in off .. n : f[i] \in S
    BY <1>3, ElementOfSeq
  <2> QED BY <1>3, <2>1, SubSeqProperties
<1>5. Len(b) = Size(v) /\ \A i \in 1 .. Size(v) : b[i] = <<v, i>>
  <2> HIDE DEF b, n
  <2>1. \A i \in 1 .. Size(v) : f[off + i - 1] = <<v, i>>
    BY DEF Has
  <2>2. \A i \in 1 .. Size(v) : b[i] = f[off + i - 1]
    BY <1>3, <1>4
  <2>3. Len(b) = Size(v)
    BY <1>3, <1>4
  <2> QED BY <2>1, <2>2, <2>3
<1>6. Bytes(v) \in Seq(Payloads \X Nat) /\ Len(Bytes(v)) = Size(v)
      /\ \A i \in 1 .. Size(v) : Bytes(v)[i] = <<v, i>>
  BY BytesType
<1>7. b = Bytes(v)
  <2> HIDE DEF b
  <2>1. Len(b) = Len(Bytes(v)) /\ \A i \in 1 .. Len(b) : b[i] = Bytes(v)[i]
    BY <1>5, <1>6
  <2>2. b = [i \in 1 .. Len(b) |-> b[i]]
    BY <1>4
  <2>3. Bytes(v) = [i \in 1 .. Len(Bytes(v)) |-> Bytes(v)[i]]
    BY <1>6
  <2> QED BY <2>1, <2>2, <2>3
<1> QED
  BY <1>2, <1>7

\* Writing behind the cells of a chunk leaves them, and writes what it is given.
LEMMA Written ==
  ASSUME NEW f \in Seq(Cells), f # <<>>, NEW off \in Nat, off >= 2, NEW v \in Payloads,
         NEW g, g = Overlay(f, off, Bytes(v))
  PROVE  /\ g \in Seq(Cells) /\ g # <<>> /\ g[1] = f[1]
         /\ Has(g, off, v)
         /\ \A o \in Nat, w \in Payloads : o >= 2 /\ Has(f, o, w) /\ o + Size(w) <= off => Has(g, o, w)
<1> DEFINE m == IF Len(f) >= off + Size(v) - 1 THEN Len(f) ELSE off + Size(v) - 1
<1>1. /\ Size(v) \in Nat /\ Len(Bytes(v)) = Size(v) /\ Len(f) \in Nat /\ Len(f) >= 1
      /\ Bytes(v) \in Seq(Payloads \X Nat)
  BY BytesType, EmptySeq
<1>2. Max({Len(f), off + Size(v) - 1}) = m
  <2>1. \A a, b \in Int : Max({a, b}) = IF a >= b THEN a ELSE b
    BY DEF Max
  <2>2. off + Size(v) - 1 \in Int /\ Len(f) \in Int
    BY <1>1
  <2> QED
    BY <2>1, <2>2
<1>3. g = [i \in 1 .. m |-> IF i \in off .. off + Size(v) - 1 THEN Bytes(v)[i - off + 1]
                            ELSE IF i <= Len(f) THEN f[i] ELSE <<>>]
  BY <1>1, <1>2 DEF Overlay
<1>4. m \in Nat /\ m >= Len(f) /\ m >= off + Size(v) - 1 /\ m >= 1
  BY <1>1
<1> HIDE DEF m
<1>5. \A i \in 1 .. m : (IF i \in off .. off + Size(v) - 1 THEN Bytes(v)[i - off + 1]
                         ELSE IF i <= Len(f) THEN f[i] ELSE <<>>) \in Cells
  <2> SUFFICES ASSUME NEW i \in 1 .. m
               PROVE  (IF i \in off .. off + Size(v) - 1 THEN Bytes(v)[i - off + 1]
                       ELSE IF i <= Len(f) THEN f[i] ELSE <<>>) \in Cells
    OBVIOUS
  <2>1. CASE i \in off .. off + Size(v) - 1
    <3>1. i - off + 1 \in 1 .. Size(v)
      BY <1>1, <1>4, <2>1
    <3>2. Bytes(v)[i - off + 1] \in Payloads \X Nat
      BY <1>1, <3>1, ElementOfSeq
    <3> QED
      BY <2>1, <3>2 DEF Cells
  <2>2. CASE i \notin off .. off + Size(v) - 1 /\ i <= Len(f)
    <3>1. i \in 1 .. Len(f)
      BY <1>1, <1>4, <2>2
    <3>2. f[i] \in Cells
      BY <3>1, ElementOfSeq
    <3> QED
      BY <2>2, <3>2
  <2>3. CASE i \notin off .. off + Size(v) - 1 /\ ~ (i <= Len(f))
    BY <2>3 DEF Cells
  <2> QED
    BY <2>1, <2>2, <2>3
<1>6. g \in Seq(Cells) /\ Len(g) = m
  BY <1>3, <1>4, <1>5
<1>7. g # <<>> /\ g[1] = f[1]
  <2>1. Len(g) # 0
    BY <1>4, <1>6
  <2>2. 1 \in 1 .. m /\ 1 \notin off .. off + Size(v) - 1 /\ 1 <= Len(f)
    BY <1>1, <1>4
  <2> QED
    BY <1>3, <1>6, <2>1, <2>2, EmptySeq
<1>8. Has(g, off, v)
  <2>1. \A k \in 1 .. Size(v) : g[off + k - 1] = <<v, k>>
    <3> SUFFICES ASSUME NEW k \in 1 .. Size(v) PROVE g[off + k - 1] = <<v, k>>
      OBVIOUS
    <3>1. /\ off + k - 1 \in 1 .. m /\ off + k - 1 \in off .. off + Size(v) - 1
          /\ (off + k - 1) - off + 1 = k
      BY <1>1, <1>4
    <3>2. g[off + k - 1] = Bytes(v)[k]
      BY <1>3, <3>1
    <3> QED
      BY <3>2, BytesType
  <2> QED
    BY <1>4, <1>6, <2>1 DEF Has
<1>9. ASSUME NEW o \in Nat, NEW w \in Payloads, o >= 2, Has(f, o, w), o + Size(w) <= off
      PROVE  Has(g, o, w)
  <2>1. Size(w) \in Nat
    BY BytesType
  <2>2. o + Size(w) - 1 <= Len(f)
    BY <1>9 DEF Has
  <2>3. \A k \in 1 .. Size(w) : g[o + k - 1] = <<w, k>>
    <3> SUFFICES ASSUME NEW k \in 1 .. Size(w) PROVE g[o + k - 1] = <<w, k>>
      OBVIOUS
    <3>1. /\ o + k - 1 \in 1 .. m /\ o + k - 1 \notin off .. off + Size(v) - 1
          /\ o + k - 1 <= Len(f)
      BY <1>1, <1>4, <1>9, <2>1, <2>2
    <3>2. g[o + k - 1] = f[o + k - 1]
      BY <1>3, <3>1
    <3> QED
      BY <1>9, <3>2 DEF Has
  <2>4. o + Size(w) - 1 <= Len(g)
    BY <1>1, <1>4, <1>6, <2>1, <2>2
  <2> QED
    BY <2>3, <2>4 DEF Has
<1> QED
  BY <1>6, <1>7, <1>8, <1>9

-----------------------------------------------------------------------------
(* The invariant *)

SaveRecord == [path : Paths, out : Inodes, in : Inodes \cup {None}, todo : SUBSET Types]

FileTypes ==
  /\ crew \in Crews
  /\ content = [i \in Inodes |-> content[i]]
  /\ name \in [Paths -> Inodes \cup {None}]
  /\ tmp \in [Paths -> Inodes \cup {None}]
  /\ slots \in [Objects -> [Types -> Slot \cup {None}]]
  /\ source \in [Objects -> Paths \cup {None}]
  /\ writing \in [Objects -> SaveRecord \cup {None}]
  /\ saves \in 0 .. MaxSaves /\ faults \in 0 .. MaxFaults

\* A name, once there, stays; what an object reads lazily has one.
Sourced ==
  \A o \in Objects :
    /\ source[o] # None => name[source[o]] # None
    /\ \A t \in Types : slots[o][t] # None /\ ~slots[o][t].mem => source[o] # None

\* No two names share a file, be they temporary or not.
Distinct ==
  \A p, q \in Paths :
    /\ name[p] # None => name[p] # tmp[q]
    /\ p # q /\ tmp[p] # None => tmp[p] # tmp[q]

WritersSave ==
  \A o \in Objects : writing[o] # None =>
    o \in Writers /\ writing[o].todo \subseteq Present(slots[o])

FilesInv == FileTypes /\ Sourced /\ Distinct /\ WritersSave

\* How far the only writer is: what it has written is in its temporary file.
Progress(o) ==
  LET w == writing[o] IN
  /\ tmp[w.path] = w.out
  /\ w.in # None => source[o] # None /\ w.in = name[source[o]]
  /\ content[w.out] # <<>> /\ content[w.out][1] = Directory(slots[o])
  /\ \A t \in Present(slots[o]) \ w.todo :
       /\ Has(content[w.out], Offset(slots[o], t), slots[o][t].val)
       /\ \A u \in w.todo : t < u

OthersRest == \A o \in Writers \ crew.objects : slots[o] = Empty /\ writing[o] = None
FilesIntact == \A p \in Paths : name[p] # None => Intact(content[name[p]])
SavesProgress == \A o \in Writers : writing[o] # None => Progress(o)
OwnRead ==
  \A o \in Writers : \A t \in Types : slots[o][t] # None /\ ~slots[o][t].mem =>
    Slice(content[name[source[o]]], slots[o][t].off, Size(slots[o][t].val))
      = Bytes(slots[o][t].val)

OneWriterInv ==
  content \in [Inodes -> Seq(Cells)] /\ OthersRest /\ FilesIntact /\ SavesProgress /\ OwnRead

ArchiveInv == FilesInv /\ (OneWriter => OneWriterInv)

-----------------------------------------------------------------------------
(* Every crew *)

LEMMA Distinctions ==
  /\ None \notin Paths /\ None \notin Inodes /\ None \notin Slot /\ None \notin SaveRecord
  /\ IsFiniteSet(Writers)
  /\ \A c \in Crews : c.objects \subseteq Objects /\ c.paths \subseteq Paths
  BY ProjectArchiveAssumption DEF Slot, SaveRecord, Objects

LEMMA DirectoryType ==
  ASSUME NEW s \in [Types -> Slot \cup {None}]
  PROVE  /\ Directory(s) \in [Types -> Slot \cup {None}]
         /\ \A t \in Types : s[t] = None => Directory(s)[t] = None
         /\ \A t \in Types : s[t] # None =>
              /\ Directory(s)[t] # None /\ Directory(s)[t].off = Offset(s, t)
              /\ Directory(s)[t].val = s[t].val
<1>1. \A t \in Types : s[t] # None =>
        [off |-> Offset(s, t), val |-> s[t].val, mem |-> FALSE] \in Slot
  BY OffsetType DEF Slot
<1>2. \A t \in Types : s[t] # None => None # [off |-> Offset(s, t), val |-> s[t].val, mem |-> FALSE]
  BY <1>1, Distinctions
<1> QED
  BY <1>1, <1>2 DEF Directory

LEMMA ArchiveStart == ArchiveInit => ArchiveInv
<1> SUFFICES ASSUME ArchiveInit PROVE ArchiveInv
  OBVIOUS
<1>1. Empty \in [Types -> Slot \cup {None}] /\ \A t \in Types : Empty[t] = None
  BY DEF Empty
<1>2. FilesInv
  BY <1>1, ProjectArchiveAssumption
     DEF ArchiveInit, FilesInv, FileTypes, Sourced, Distinct, WritersSave
<1>3. OneWriterInv
  <2>1. content \in [Inodes -> Seq(Cells)]
    <3>1. <<>> \in Seq(Cells)
      BY EmptySeq
    <3> QED
      BY <3>1 DEF ArchiveInit
  <2>2. OthersRest /\ FilesIntact /\ SavesProgress /\ OwnRead
    BY <1>1 DEF ArchiveInit, OthersRest, FilesIntact, SavesProgress, OwnRead, Objects
  <2> QED
    BY <2>1, <2>2 DEF OneWriterInv
<1> QED
  BY <1>2, <1>3 DEF ArchiveInv

\* An action on one object that touches no file.
LEMMA OpenTypes ==
  ASSUME FilesInv, NEW o \in Objects, NEW p \in Paths, Open(o, p), UNCHANGED crew PROVE FilesInv'
<1>1. content[name[p]][1] \in [Types -> Slot \cup {None}]
  BY DEF Open, Opens, IsDirectory
<1>2. FileTypes'
  BY <1>1 DEF FilesInv, FileTypes, Open
<1>3. Sourced'
  <2> SUFFICES ASSUME NEW x \in Objects
               PROVE  /\ source'[x] # None => name'[source'[x]] # None
                      /\ \A t \in Types : slots'[x][t] # None /\ ~slots'[x][t].mem => source'[x] # None
    BY DEF Sourced
  <2>1. CASE x = o
    BY <2>1, Distinctions DEF FilesInv, FileTypes, Open
  <2>2. CASE x # o
    BY <2>2 DEF FilesInv, FileTypes, Sourced, Open
  <2> QED
    BY <2>1, <2>2
<1>4. Distinct'
  BY DEF FilesInv, Distinct, Open
<1>5. WritersSave'
  BY DEF FilesInv, FileTypes, WritersSave, Open, Idle
<1> QED
  BY <1>2, <1>3, <1>4, <1>5 DEF FilesInv

LEMMA SetChunkTypes ==
  ASSUME FilesInv, NEW o \in Objects, NEW t \in Types, NEW v \in Payloads,
         SetChunk(o, t, v), UNCHANGED crew
  PROVE  FilesInv'
<1>1. [off |-> 0, val |-> v, mem |-> TRUE] \in Slot
  BY DEF Slot
<1>2. FileTypes' /\ Distinct'
  BY <1>1 DEF FilesInv, FileTypes, Distinct, SetChunk
<1>3. Sourced'
  BY <1>1 DEF FilesInv, FileTypes, Sourced, SetChunk
<1>4. WritersSave'
  BY DEF FilesInv, FileTypes, WritersSave, SetChunk, Idle
<1> QED
  BY <1>2, <1>3, <1>4 DEF FilesInv

LEMMA EraseChunkTypes ==
  ASSUME FilesInv, NEW o \in Objects, NEW t \in Types, EraseChunk(o, t), UNCHANGED crew PROVE FilesInv'
<1>1. FileTypes' /\ Distinct'
  BY DEF FilesInv, FileTypes, Distinct, EraseChunk
<1>2. Sourced'
  BY DEF FilesInv, FileTypes, Sourced, EraseChunk
<1>3. WritersSave'
  BY DEF FilesInv, FileTypes, WritersSave, EraseChunk, Idle
<1> QED
  BY <1>1, <1>2, <1>3 DEF FilesInv

\* The file that a save writes is nobody's but the temporary one of its path.
LEMMA TakesFile ==
  ASSUME FilesInv, NEW o \in Objects, NEW p \in Paths, SaveBegins(o, p)
  PROVE  \E i \in Inodes :
           /\ \A q \in Paths : name[q] # i /\ (q # p => tmp[q] # i)
           /\ tmp' = [tmp EXCEPT ![p] = i]
           /\ content' = [content EXCEPT ![i] = <<Directory(slots[o])>>]
           /\ writing' = [writing EXCEPT ![o] = [path |-> p, out |-> i, in |-> None,
                                                 todo |-> Present(slots[o])]]
<1> DEFINE i == IF tmp[p] # None THEN tmp[p] ELSE CHOOSE j \in Inodes : j \notin Used
<1>1. CASE tmp[p] # None
  <2>1. i \in Inodes
    BY <1>1 DEF FilesInv, FileTypes
  <2>2. \A q \in Paths : name[q] # i /\ (q # p => tmp[q] # i)
    BY <1>1 DEF FilesInv, Distinct
  <2> QED
    BY <2>1, <2>2 DEF SaveBegins
<1>2. CASE tmp[p] = None
  <2>1. i \in Inodes /\ i \notin Used
    BY <1>2 DEF SaveBegins
  <2>2. \A q \in Paths : name[q] # i /\ tmp[q] # i
    BY <2>1 DEF Used
  <2> QED
    BY <2>1, <2>2 DEF SaveBegins
<1> QED
  BY <1>1, <1>2

LEMMA SaveBeginsTypes ==
  ASSUME FilesInv, NEW o \in Objects, NEW p \in Paths, SaveBegins(o, p), UNCHANGED crew PROVE FilesInv'
<1>1. PICK i \in Inodes :
        /\ \A q \in Paths : name[q] # i /\ (q # p => tmp[q] # i)
        /\ tmp' = [tmp EXCEPT ![p] = i]
        /\ content' = [content EXCEPT ![i] = <<Directory(slots[o])>>]
        /\ writing' = [writing EXCEPT ![o] = [path |-> p, out |-> i, in |-> None,
                                              todo |-> Present(slots[o])]]
  BY TakesFile
<1>2. saves' \in 0 .. MaxSaves /\ UNCHANGED <<name, slots, source, faults>> /\ o \in Writers
  BY ProjectArchiveAssumption DEF FilesInv, FileTypes, SaveBegins
<1>3. Present(slots[o]) \subseteq Types
  BY DEF FilesInv, FileTypes, Present
<1>4. [path |-> p, out |-> i, in |-> None, todo |-> Present(slots[o])] \in SaveRecord
  BY <1>3 DEF SaveRecord
<1>5. FileTypes'
  <2>1. content' = [x \in Inodes |-> content'[x]]
    BY <1>1 DEF FilesInv, FileTypes
  <2>2. tmp' \in [Paths -> Inodes \cup {None}]
    BY <1>1 DEF FilesInv, FileTypes
  <2>3. writing' \in [Objects -> SaveRecord \cup {None}]
    BY <1>1, <1>4 DEF FilesInv, FileTypes
  <2> QED
    BY <1>2, <2>1, <2>2, <2>3 DEF FilesInv, FileTypes
<1>6. Sourced'
  BY <1>2 DEF FilesInv, Sourced
<1>7. Distinct'
  <2>1. tmp'[p] = i /\ \A q \in Paths : q # p => tmp'[q] = tmp[q]
    BY <1>1 DEF FilesInv, FileTypes
  <2> QED
    BY <1>1, <1>2, <2>1 DEF FilesInv, Distinct
<1>8. WritersSave'
  <2>1. writing'[o].todo = Present(slots[o]) /\ \A x \in Objects : x # o => writing'[x] = writing[x]
    BY <1>1 DEF FilesInv, FileTypes
  <2> QED
    BY <1>2, <2>1 DEF FilesInv, WritersSave
<1> QED
  BY <1>5, <1>6, <1>7, <1>8 DEF FilesInv

\* The save of o is over without a file: its temporary file goes.
LEMMA AbortTypes ==
  ASSUME FilesInv, NEW o \in Objects, writing[o] # None, Abort(o), UNCHANGED <<crew, saves>>,
         content' = [i \in Inodes |-> content'[i]], faults' \in 0 .. MaxFaults
  PROVE  FilesInv'
<1>1. writing[o] \in SaveRecord
  BY DEF FilesInv, FileTypes
<1>2. writing[o].path \in Paths
  BY <1>1 DEF SaveRecord
<1>3. FileTypes'
  BY <1>2 DEF FilesInv, FileTypes, Abort
<1>4. Sourced'
  BY DEF FilesInv, FileTypes, Sourced, Abort
<1>5. Distinct'
  BY <1>2 DEF FilesInv, FileTypes, Distinct, Abort
<1>6. WritersSave'
  BY DEF FilesInv, FileTypes, WritersSave, Abort
<1> QED
  BY <1>3, <1>4, <1>5, <1>6 DEF FilesInv

LEMMA SaveFailsTypes ==
  ASSUME FilesInv, NEW o \in Objects, SaveFails(o), UNCHANGED crew PROVE FilesInv'
<1>1. faults' \in 0 .. MaxFaults
  BY ProjectArchiveAssumption DEF FilesInv, FileTypes, SaveFails
<1>2. content' = [i \in Inodes |-> content'[i]]
  BY DEF FilesInv, FileTypes, SaveFails
<1> QED
  BY <1>1, <1>2, AbortTypes DEF SaveFails

LEMMA KillTypes ==
  ASSUME FilesInv, NEW o \in Objects, Kill(o), UNCHANGED crew PROVE FilesInv'
<1>1. faults' \in 0 .. MaxFaults
  BY ProjectArchiveAssumption DEF FilesInv, FileTypes, Kill
<1>2. Empty \in [Types -> Slot \cup {None}] /\ \A t \in Types : Empty[t] = None
  BY DEF Empty
<1>3. FileTypes'
  BY <1>1, <1>2 DEF FilesInv, FileTypes, Kill
<1>4. Sourced'
  BY <1>2 DEF FilesInv, FileTypes, Sourced, Kill
<1>5. Distinct'
  BY DEF FilesInv, Distinct, Kill
<1>6. WritersSave'
  BY DEF FilesInv, FileTypes, WritersSave, Kill
<1> QED
  BY <1>3, <1>4, <1>5, <1>6 DEF FilesInv

\* A save in which in is the open source and the types in T are left.
Moved(w, t, in) == [w EXCEPT !.todo = @ \ {t}, !.in = in]

LEMMA SaveMoves ==
  ASSUME NEW w \in SaveRecord, NEW t, NEW in \in Inodes \cup {None}, NEW u, u = Moved(w, t, in)
  PROVE  /\ u \in SaveRecord
         /\ u.path = w.path /\ u.out = w.out /\ u.in = in /\ u.todo = w.todo \ {t}
<1>1. w.todo \ {t} \in SUBSET Types
  BY DEF SaveRecord
<1>2. u = [w EXCEPT !.todo = w.todo \ {t}, !.in = in]
  BY DEF Moved
<1>3. u \in SaveRecord
  BY <1>1, <1>2 DEF SaveRecord
<1>4. u.path = w.path /\ u.out = w.out
  BY <1>2 DEF SaveRecord
<1>5. u.in = in
  BY <1>2 DEF SaveRecord
<1>6. u.todo = w.todo \ {t}
  BY <1>2 DEF SaveRecord
<1> QED
  BY <1>3, <1>4, <1>5, <1>6

\* The file and the cells that WriteChunk takes, and what it does with them.
CopyFrom(o, t) ==
  IF slots[o][t].mem \/ writing[o].in # None THEN writing[o].in ELSE name[source[o]]
Copied(o, t) ==
  LET s == slots[o][t] IN
  IF s.mem THEN Bytes(s.val) ELSE Slice(content[CopyFrom(o, t)], s.off, Size(s.val))
WritesOut(o, t) ==
  content' = [content EXCEPT ![writing[o].out] = Overlay(@, Offset(slots[o], t), Copied(o, t))]
GoesOn(o, t) ==
  /\ Copied(o, t) = Bytes(slots[o][t].val)
  /\ writing' = [writing EXCEPT ![o] = Moved(writing[o], t, CopyFrom(o, t))]
  /\ UNCHANGED <<name, tmp, slots, source>>

LEMMA ChunkWritten ==
  ASSUME FilesInv, NEW o \in Objects, WriteChunk(o)
  PROVE  \E t \in writing[o].todo :
           /\ writing[o] \in SaveRecord /\ t \in Types /\ slots[o][t] \in Slot
           /\ \A u \in writing[o].todo : t <= u
           /\ CopyFrom(o, t) \in Inodes \cup {None}
           /\ WritesOut(o, t) /\ (GoesOn(o, t) \/ Abort(o))
<1> DEFINE w == writing[o]
           t == Min(w.todo)
           s == slots[o][t]
<1>1. w \in SaveRecord
  BY DEF FilesInv, FileTypes, WriteChunk
<1>2. w.todo \in SUBSET Types /\ w.todo # {} /\ w.todo \subseteq Present(slots[o])
  BY <1>1 DEF FilesInv, WritersSave, WriteChunk, SaveRecord
<1>3. t \in w.todo /\ \A u \in w.todo : t <= u
  <2> HIDE DEF w
  <2> QED BY <1>2, FirstType
<1>4. t \in Types /\ slots[o][t] \in Slot
  <2>1. t \in Types /\ slots[o][t] # None
    BY <1>2, <1>3 DEF Present
  <2> QED
    BY <2>1 DEF FilesInv, FileTypes
<1>5. CopyFrom(o, t) \in Inodes \cup {None}
  <2>1. w.in \in Inodes \cup {None}
    BY <1>1 DEF SaveRecord
  <2>2. ~s.mem => source[o] \in Paths
    BY <1>4, Distinctions DEF FilesInv, FileTypes, Sourced
  <2>3. ~s.mem => name[source[o]] \in Inodes \cup {None}
    BY <2>2 DEF FilesInv, FileTypes
  <2> QED
    BY <2>1, <2>3 DEF CopyFrom
<1>6. WritesOut(o, t) /\ (GoesOn(o, t) \/ Abort(o))
  BY DEF WriteChunk, WritesOut, GoesOn, Moved, CopyFrom, Copied
<1> QED
  BY <1>1, <1>3, <1>4, <1>5, <1>6

LEMMA WriteChunkTypes ==
  ASSUME FilesInv, NEW o \in Objects, WriteChunk(o), UNCHANGED crew PROVE FilesInv'
<1>1. PICK t \in writing[o].todo :
           /\ writing[o] \in SaveRecord /\ t \in Types /\ CopyFrom(o, t) \in Inodes \cup {None}
           /\ WritesOut(o, t) /\ (GoesOn(o, t) \/ Abort(o))
  BY ChunkWritten
<1>2. UNCHANGED <<saves, faults>> /\ writing[o] # None
  BY DEF WriteChunk
<1>3. content' = [i \in Inodes |-> content'[i]]
  BY <1>1 DEF FilesInv, FileTypes, WritesOut
<1>4. CASE Abort(o)
  <2>1. faults' \in 0 .. MaxFaults
    BY <1>2 DEF FilesInv, FileTypes
  <2> QED
    BY <1>2, <1>3, <1>4, <2>1, AbortTypes
<1>5. CASE GoesOn(o, t)
  <2>1. /\ writing'[o] \in SaveRecord /\ writing'[o].todo = writing[o].todo \ {t}
        /\ \A x \in Objects : x # o => writing'[x] = writing[x]
        /\ writing' = [writing EXCEPT ![o] = writing'[o]]
    <3>1. writing' = [writing EXCEPT ![o] = Moved(writing[o], t, CopyFrom(o, t))]
      BY <1>5 DEF GoesOn
    <3>2. writing = [x \in Objects |-> writing[x]]
      BY DEF FilesInv, FileTypes
    <3>3. writing'[o] = Moved(writing[o], t, CopyFrom(o, t))
      BY <3>1, <3>2
    <3>4. \A x \in Objects : x # o => writing'[x] = writing[x]
      BY <3>1, <3>2
    <3>5. writing' = [writing EXCEPT ![o] = writing'[o]]
      BY <3>1, <3>3
    <3>6. writing'[o] \in SaveRecord /\ writing'[o].todo = writing[o].todo \ {t}
      BY <1>1, <3>3, SaveMoves
    <3> QED
      BY <3>4, <3>5, <3>6
  <2>2. FileTypes'
    BY <1>2, <1>3, <1>5, <2>1 DEF FilesInv, FileTypes, GoesOn
  <2>3. Sourced' /\ Distinct'
    BY <1>2, <1>5 DEF FilesInv, Sourced, Distinct, GoesOn
  <2>4. WritersSave'
    BY <1>2, <1>5, <2>1 DEF FilesInv, WritersSave, GoesOn
  <2> QED
    BY <2>2, <2>3, <2>4 DEF FilesInv
<1> QED
  BY <1>1, <1>4, <1>5

\* After the rename the slots know where their chunks are.
LEMMA Refreshed ==
  ASSUME NEW s \in [Types -> Slot \cup {None}], NEW r,
         r = [t \in Types |-> IF s[t] = None THEN None ELSE [s[t] EXCEPT !.off = Offset(s, t)]]
  PROVE  /\ r \in [Types -> Slot \cup {None}]
         /\ \A t \in Types : (r[t] = None) = (s[t] = None)
         /\ \A t \in Types : s[t] # None =>
              r[t].off = Offset(s, t) /\ r[t].val = s[t].val /\ r[t].mem = s[t].mem
<1>1. \A t \in Types : s[t] # None =>
        /\ [s[t] EXCEPT !.off = Offset(s, t)] \in Slot
        /\ [s[t] EXCEPT !.off = Offset(s, t)].off = Offset(s, t)
        /\ [s[t] EXCEPT !.off = Offset(s, t)].val = s[t].val
        /\ [s[t] EXCEPT !.off = Offset(s, t)].mem = s[t].mem
  <2> SUFFICES ASSUME NEW t \in Types, s[t] # None, NEW d, d = [s[t] EXCEPT !.off = Offset(s, t)]
               PROVE  d \in Slot /\ d.off = Offset(s, t) /\ d.val = s[t].val /\ d.mem = s[t].mem
    OBVIOUS
  <2>1. s[t] \in Slot /\ Offset(s, t) \in Nat
    BY OffsetType
  <2> QED
    BY <2>1 DEF Slot
<1>2. \A t \in Types : s[t] # None => r[t] \in Slot
  BY <1>1
<1>3. \A t \in Types : (r[t] = None) = (s[t] = None)
  BY <1>2, Distinctions
<1>4. r \in [Types -> Slot \cup {None}]
  BY <1>2, <1>3
<1> QED
  BY <1>1, <1>3, <1>4

LEMMA PublishTypes ==
  ASSUME FilesInv, NEW o \in Objects, Publish(o), UNCHANGED crew PROVE FilesInv'
<1> DEFINE p == writing[o].path
<1>1. writing[o] \in SaveRecord /\ p \in Paths /\ writing[o] # None
  BY DEF FilesInv, FileTypes, Publish, SaveRecord
<1>2. UNCHANGED <<content, saves, faults>>
  BY DEF Publish
<1>3. CASE tmp[p] = None /\ Abort(o)
  <2>1. faults' \in 0 .. MaxFaults /\ content' = [i \in Inodes |-> content'[i]]
    BY <1>2 DEF FilesInv, FileTypes
  <2> QED
    BY <1>1, <1>2, <1>3, <2>1, AbortTypes
<1>4. CASE /\ tmp[p] # None
           /\ name' = [name EXCEPT ![p] = tmp[p]]
           /\ tmp' = [tmp EXCEPT ![p] = None]
           /\ source' = [source EXCEPT ![o] = p]
           /\ slots' = [slots EXCEPT ![o] =
                [t \in Types |-> IF slots[o][t] = None THEN None
                                 ELSE [slots[o][t] EXCEPT !.off = Offset(slots[o], t)]]]
           /\ writing' = [writing EXCEPT ![o] = None]
  <2> HIDE DEF p
  <2>1. slots[o] \in [Types -> Slot \cup {None}]
    BY DEF FilesInv, FileTypes
  <2>2. slots'[o] = [t \in Types |-> IF slots[o][t] = None THEN None
                                ELSE [slots[o][t] EXCEPT !.off = Offset(slots[o], t)]]
    BY <1>4 DEF FilesInv, FileTypes
  <2>3. slots'[o] \in [Types -> Slot \cup {None}]
    BY <2>1, <2>2, Refreshed
  <2>4. slots' = [slots EXCEPT ![o] = slots'[o]] /\ \A x \in Objects : x # o => slots'[x] = slots[x]
    BY <1>4 DEF FilesInv, FileTypes
  <2>5. FileTypes'
    BY <1>1, <1>2, <1>4, <2>3, <2>4 DEF FilesInv, FileTypes
  <2>6. Sourced'
    <3> SUFFICES ASSUME NEW x \in Objects
                 PROVE  /\ source'[x] # None => name'[source'[x]] # None
                        /\ \A t \in Types : slots'[x][t] # None /\ ~slots'[x][t].mem
                                              => source'[x] # None
      BY DEF Sourced
    <3>1. \A q \in Paths : name[q] # None => name'[q] # None
      BY <1>4 DEF FilesInv, FileTypes
    <3>2. CASE x = o
      BY <1>1, <1>4, <3>2, Distinctions DEF FilesInv, FileTypes
    <3>3. CASE x # o
      BY <1>4, <2>4, <3>1, <3>3 DEF FilesInv, FileTypes, Sourced
    <3> QED
      BY <3>2, <3>3
  <2>7. Distinct'
    BY <1>1, <1>4 DEF FilesInv, FileTypes, Distinct
  <2>8. WritersSave'
    BY <1>2, <1>4, <2>4 DEF FilesInv, FileTypes, WritersSave
  <2> QED
    BY <2>5, <2>6, <2>7, <2>8 DEF FilesInv
<1> QED
  BY <1>3, <1>4 DEF Publish

-----------------------------------------------------------------------------
(* One writer *)

\* Writers that take no part have nothing and save nothing.
LEMMA OnlyWriter ==
  ASSUME FilesInv, OneWriterInv, OneWriter, NEW o \in crew.objects, o \in Writers
  PROVE  \A x \in Writers : x # o => x \notin crew.objects /\ slots[x] = Empty /\ writing[x] = None
<1> DEFINE S == crew.objects \cap Writers
<1>1. IsFiniteSet(S)
  BY Distinctions, FS_Subset
<1>2. \E x : S = {x}
  <2>1. Cardinality(S) = 1
    BY DEF OneWriter
  <2> HIDE DEF S
  <2> QED BY <1>1, <2>1, FS_Singleton
<1>3. \A x \in Writers : x # o => x \notin crew.objects
  BY <1>2
<1> QED
  BY <1>3 DEF OneWriterInv, OthersRest

\* What an idle object does to its own slots.
LEMMA IdleSteps ==
  ASSUME FilesInv, OneWriterInv, NEW o \in crew.objects, writing[o] = None,
         UNCHANGED <<crew, content, name, tmp, writing>>,
         \A x \in Objects : x # o => slots'[x] = slots[x] /\ source'[x] = source[x],
         o \in Writers => \A t \in Types : slots'[o][t] # None /\ ~slots'[o][t].mem =>
           Slice(content[name[source'[o]]], slots'[o][t].off, Size(slots'[o][t].val))
             = Bytes(slots'[o][t].val)
  PROVE  OneWriterInv'
<1>1. /\ content' \in [Inodes -> Seq(Cells)]
      /\ FilesIntact'
  BY DEF OneWriterInv, FilesIntact
<1>2. OthersRest'
  <2> SUFFICES ASSUME NEW x \in Writers, x \notin crew.objects
               PROVE  slots'[x] = Empty /\ writing'[x] = None
    BY DEF OthersRest
  <2>1. x # o /\ x \in Objects
    BY DEF Objects
  <2> QED
    BY <2>1 DEF OneWriterInv, OthersRest
<1>3. SavesProgress'
  <2> SUFFICES ASSUME NEW x \in Writers, writing[x] # None PROVE Progress(x)'
    BY DEF SavesProgress
  <2>1. x # o /\ x \in Objects
    BY DEF Objects
  <2>2. slots'[x] = slots[x] /\ source'[x] = source[x]
    BY <2>1
  <2>3. Progress(x)
    BY DEF OneWriterInv, SavesProgress
  <2> QED
    BY <2>2, <2>3 DEF Progress
<1>4. OwnRead'
  <2> SUFFICES ASSUME NEW x \in Writers, NEW t \in Types, slots'[x][t] # None, ~slots'[x][t].mem
               PROVE  Slice(content[name[source'[x]]], slots'[x][t].off, Size(slots'[x][t].val))
                        = Bytes(slots'[x][t].val)
    BY DEF OwnRead
  <2>1. CASE x = o
    BY <2>1
  <2>2. CASE x # o
    <3>1. slots'[x] = slots[x] /\ source'[x] = source[x]
      BY <2>2 DEF Objects
    <3> QED
      BY <3>1 DEF OneWriterInv, OwnRead
  <2> QED
    BY <2>1, <2>2
<1> QED
  BY <1>1, <1>2, <1>3, <1>4 DEF OneWriterInv

LEMMA OpenSingle ==
  ASSUME FilesInv, OneWriterInv, NEW o \in crew.objects, o \in Objects, NEW p \in Paths, Open(o, p),
         UNCHANGED crew
  PROVE  OneWriterInv'
<1> DEFINE d == content[name[p]][1]
<1>1. Intact(content[name[p]])
  BY DEF OneWriterInv, FilesIntact, Open
<1>2. d \in [Types -> Slot \cup {None}]
  BY <1>1 DEF Intact, Opens, IsDirectory
<1>3. slots'[o] = d /\ source'[o] = p
      /\ \A x \in Objects : x # o => slots'[x] = slots[x] /\ source'[x] = source[x]
  BY DEF FilesInv, FileTypes, Open
<1>4. \A t \in Types : d[t] # None =>
        Slice(content[name[p]], d[t].off, Size(d[t].val)) = Bytes(d[t].val)
  <2>1. \A t \in Types : d[t] # None => t \in Present(d)
    BY <1>2 DEF Present
  <2> QED
    BY <1>1, <2>1 DEF Intact
<1>5. UNCHANGED <<content, name, tmp, writing>> /\ writing[o] = None
  BY DEF Open, Idle
<1> HIDE DEF d
<1> QED
  BY <1>3, <1>4, <1>5, IdleSteps

LEMMA SlotSingle ==
  ASSUME FilesInv, OneWriterInv, NEW o \in crew.objects, o \in Objects, NEW t \in Types,
         \/ EraseChunk(o, t)
         \/ \E v \in Payloads : SetChunk(o, t, v),
         UNCHANGED crew
  PROVE  OneWriterInv'
<1>1. UNCHANGED <<content, name, tmp, writing, source>> /\ writing[o] = None
  BY DEF EraseChunk, SetChunk, Idle
<1>2. /\ \A x \in Objects : x # o => slots'[x] = slots[x]
      /\ \A u \in Types : u # t => slots'[o][u] = slots[o][u]
      /\ slots'[o][t] # None => slots'[o][t].mem
  BY DEF FilesInv, FileTypes, EraseChunk, SetChunk
<1>3. o \in Writers => \A u \in Types : slots'[o][u] # None /\ ~slots'[o][u].mem =>
           Slice(content[name[source'[o]]], slots'[o][u].off, Size(slots'[o][u].val))
             = Bytes(slots'[o][u].val)
  BY <1>1, <1>2 DEF OneWriterInv, OwnRead
<1> QED
  BY <1>1, <1>2, <1>3, IdleSteps

\* Steps of a save leave the files that have a name.
LEMMA NamedFiles ==
  ASSUME FilesInv, OneWriterInv, UNCHANGED <<name, slots, source>>,
         \A q \in Paths : name[q] # None => content'[name[q]] = content[name[q]]
  PROVE  FilesIntact' /\ OwnRead'
<1>1. FilesIntact'
  BY DEF OneWriterInv, FilesIntact
<1>2. OwnRead'
  <2> SUFFICES ASSUME NEW x \in Writers, NEW t \in Types, slots[x][t] # None, ~slots[x][t].mem
               PROVE  Slice(content'[name[source[x]]], slots[x][t].off, Size(slots[x][t].val))
                        = Bytes(slots[x][t].val)
    BY DEF OwnRead
  <2>1. source[x] \in Paths /\ name[source[x]] # None
    BY DEF FilesInv, FileTypes, Sourced, Objects
  <2>2. content'[name[source[x]]] = content[name[source[x]]]
    BY <2>1
  <2> QED
    BY <2>2 DEF OneWriterInv, OwnRead
<1> QED
  BY <1>1, <1>2

LEMMA AbortSingle ==
  ASSUME FilesInv, OneWriterInv, OneWriter, NEW o \in crew.objects, o \in Writers, Abort(o), UNCHANGED crew,
         content' \in [Inodes -> Seq(Cells)],
         \A q \in Paths : name[q] # None => content'[name[q]] = content[name[q]]
  PROVE  OneWriterInv'
<1>1. \A x \in Writers : writing'[x] = None
  BY OnlyWriter DEF FilesInv, FileTypes, Abort, Objects
<1>2. SavesProgress' /\ OthersRest'
  BY <1>1 DEF OneWriterInv, SavesProgress, OthersRest, Abort
<1>3. FilesIntact' /\ OwnRead'
  BY NamedFiles DEF Abort
<1> QED
  BY <1>2, <1>3 DEF OneWriterInv

LEMMA SaveBeginsSingle ==
  ASSUME FilesInv, OneWriterInv, OneWriter, NEW o \in crew.objects, o \in Objects, NEW p \in Paths,
         SaveBegins(o, p), UNCHANGED crew
  PROVE  OneWriterInv'
<1>1. PICK i \in Inodes :
        /\ \A q \in Paths : name[q] # i /\ (q # p => tmp[q] # i)
        /\ tmp' = [tmp EXCEPT ![p] = i]
        /\ content' = [content EXCEPT ![i] = <<Directory(slots[o])>>]
        /\ writing' = [writing EXCEPT ![o] = [path |-> p, out |-> i, in |-> None,
                                              todo |-> Present(slots[o])]]
  BY TakesFile
<1>2. UNCHANGED <<name, slots, source>> /\ o \in Writers
  BY DEF SaveBegins
<1>3. /\ slots[o] \in [Types -> Slot \cup {None}]
      /\ <<Directory(slots[o])>> \in Seq(Cells) /\ <<Directory(slots[o])>> # <<>>
  <2>1. slots[o] \in [Types -> Slot \cup {None}]
    BY DEF FilesInv, FileTypes
  <2>2. Directory(slots[o]) \in Cells
    BY <2>1, DirectoryType DEF Cells
  <2> QED
    BY <2>1, <2>2, EmptySeq
<1>4. /\ content'[i] = <<Directory(slots[o])>>
      /\ \A j \in Inodes : j # i => content'[j] = content[j]
      /\ content' \in [Inodes -> Seq(Cells)]
  BY <1>1, <1>3 DEF OneWriterInv
<1>5. \A q \in Paths : name[q] # None => content'[name[q]] = content[name[q]]
  BY <1>1, <1>4 DEF FilesInv, FileTypes
<1>6. FilesIntact' /\ OwnRead'
  BY <1>2, <1>5, NamedFiles
<1>7. \A x \in Writers : x # o => writing'[x] = None /\ x \notin crew.objects /\ slots[x] = Empty
  BY <1>1, <1>2, OnlyWriter DEF FilesInv, FileTypes, Objects
<1>8. OthersRest'
  BY <1>2, <1>7 DEF OthersRest
<1>9. Progress(o)'
  <2>1. /\ writing'[o].path = p /\ writing'[o].out = i /\ writing'[o].in = None
        /\ writing'[o].todo = Present(slots[o])
    BY <1>1 DEF FilesInv, FileTypes
  <2>2. tmp'[p] = i
    BY <1>1 DEF FilesInv, FileTypes
  <2> QED
    BY <1>2, <1>3, <1>4, <2>1, <2>2 DEF Progress
<1>10. SavesProgress'
  BY <1>7, <1>9 DEF SavesProgress
<1> QED
  BY <1>4, <1>6, <1>8, <1>10 DEF OneWriterInv

\* The chunk that a save writes goes behind those that it has written, and
\* has the right checksum.
LEMMA WriteChunkSingle ==
  ASSUME FilesInv, OneWriterInv, OneWriter, NEW o \in crew.objects, o \in Objects, WriteChunk(o),
         UNCHANGED crew
  PROVE  OneWriterInv'
<1>1. PICK t \in writing[o].todo :
           /\ writing[o] \in SaveRecord /\ t \in Types /\ slots[o][t] \in Slot
           /\ \A u \in writing[o].todo : t <= u
           /\ CopyFrom(o, t) \in Inodes \cup {None}
           /\ WritesOut(o, t) /\ (GoesOn(o, t) \/ Abort(o))
  BY ChunkWritten
<1> DEFINE w == writing[o]
           s == slots[o]
           off == Offset(s, t)
           v == s[t].val
<1>2. /\ writing[o] # None /\ o \in Writers /\ Progress(o)
      /\ w.path \in Paths /\ w.out \in Inodes /\ w.todo \subseteq Present(s)
      /\ s \in [Types -> Slot \cup {None}] /\ s[t] # None /\ t \in Present(s)
      /\ v \in Payloads /\ off \in Nat /\ off >= 2
  <2>1. writing[o] # None /\ o \in Writers /\ w.todo \subseteq Present(s)
    BY DEF WriteChunk, FilesInv, WritersSave
  <2>2. Progress(o)
    BY <2>1 DEF OneWriterInv, SavesProgress
  <2>3. w.path \in Paths /\ w.out \in Inodes
    BY <1>1 DEF SaveRecord
  <2>4. s \in [Types -> Slot \cup {None}]
    BY DEF FilesInv, FileTypes
  <2>5. s[t] # None /\ v \in Payloads /\ t \in Present(s)
    BY <1>1, <2>1, Distinctions DEF Slot, Present
  <2> QED
    BY <2>1, <2>2, <2>3, <2>4, <2>5, OffsetType
<1>3. Copied(o, t) = Bytes(v)
      /\ (CopyFrom(o, t) # None => source[o] # None /\ CopyFrom(o, t) = name[source[o]])
  <2>1. ~s[t].mem => source[o] # None
    BY <1>1, <1>2 DEF FilesInv, Sourced
  <2>2. CopyFrom(o, t) # None => source[o] # None /\ CopyFrom(o, t) = name[source[o]]
    BY <1>2, <2>1 DEF CopyFrom, Progress
  <2>3. ~s[t].mem => CopyFrom(o, t) = name[source[o]]
    BY <1>2 DEF CopyFrom, Progress
  <2>4. ~s[t].mem => Slice(content[name[source[o]]], s[t].off, Size(v)) = Bytes(v)
    BY <1>1, <1>2 DEF OneWriterInv, OwnRead
  <2> QED
    BY <2>2, <2>3, <2>4 DEF Copied
<1> DEFINE f == content[w.out]
           g == content'[w.out]
<1>4. f \in Seq(Cells) /\ f # <<>> /\ g = Overlay(f, off, Bytes(v))
  <2>1. f \in Seq(Cells) /\ f # <<>>
    BY <1>2 DEF OneWriterInv, Progress
  <2>2. g = Overlay(f, off, Bytes(v))
    BY <1>1, <1>2, <1>3 DEF WritesOut, OneWriterInv
  <2> QED
    BY <2>1, <2>2
<1>5. /\ g \in Seq(Cells) /\ g # <<>> /\ g[1] = f[1]
      /\ Has(g, off, v)
      /\ \A n \in Nat, x \in Payloads : n >= 2 /\ Has(f, n, x) /\ n + Size(x) <= off => Has(g, n, x)
  <2> HIDE DEF f, g, off, v
  <2> QED BY <1>2, <1>4, Written
<1>6. /\ content' \in [Inodes -> Seq(Cells)]
      /\ \A j \in Inodes : j # w.out => content'[j] = content[j]
  BY <1>1, <1>2, <1>5 DEF WritesOut, OneWriterInv
<1>7. \A q \in Paths : name[q] # None => content'[name[q]] = content[name[q]]
  <2> SUFFICES ASSUME NEW q \in Paths, name[q] # None PROVE content'[name[q]] = content[name[q]]
    OBVIOUS
  <2>1. name[q] # w.out
    BY <1>2 DEF FilesInv, Distinct, Progress
  <2>2. name[q] \in Inodes
    BY DEF FilesInv, FileTypes
  <2> QED
    BY <1>6, <2>1, <2>2
<1>8. CASE Abort(o)
  BY <1>2, <1>6, <1>7, <1>8, AbortSingle
<1>9. CASE GoesOn(o, t)
  <2>1. UNCHANGED <<name, slots, source, tmp>>
    BY <1>9 DEF GoesOn
  <2>2. FilesIntact' /\ OwnRead'
    BY <1>7, <2>1, NamedFiles
  <2>3. /\ writing'[o] = Moved(w, t, CopyFrom(o, t))
        /\ \A x \in Objects : x # o => writing'[x] = writing[x]
    BY <1>9 DEF GoesOn, FilesInv, FileTypes
  <2>4. /\ writing'[o].path = w.path /\ writing'[o].out = w.out
        /\ writing'[o].in = CopyFrom(o, t) /\ writing'[o].todo = w.todo \ {t}
    BY <1>1, <2>3, SaveMoves
  <2>5. \A x \in Writers : x # o => writing'[x] = None /\ x \notin crew.objects /\ slots[x] = Empty
    BY <1>2, <2>3, OnlyWriter DEF Objects
  <2>6. \A u \in Present(s) \ (w.todo \ {t}) :
           /\ Has(g, Offset(s, u), s[u].val)
           /\ \A x \in w.todo \ {t} : u < x
    <3> SUFFICES ASSUME NEW u \in Present(s) \ (w.todo \ {t})
                 PROVE  /\ Has(g, Offset(s, u), s[u].val)
                        /\ \A x \in w.todo \ {t} : u < x
      OBVIOUS
    <3>1. CASE u = t
      <4>1. \A x \in w.todo \ {t} : t < x
        <5>1. \A x \in w.todo : x \in Nat
          BY <1>2, ProjectArchiveAssumption DEF Present
        <5> QED
          BY <1>1, <5>1
      <4> QED
        BY <1>5, <3>1, <4>1
    <3>2. CASE u # t
      <4>1. /\ Has(f, Offset(s, u), s[u].val) /\ \A x \in w.todo : u < x
        BY <1>2, <3>2 DEF Progress
      <4>2. u < t
        BY <4>1
      <4>3. Offset(s, u) + Size(s[u].val) <= off /\ Offset(s, u) \in Nat /\ Offset(s, u) >= 2
        <5> HIDE DEF s
        <5> QED BY <1>2, <4>2, Disjoint, OffsetType
      <4>4. s[u].val \in Payloads
        BY <1>2 DEF Present, Slot
      <4>5. Has(g, Offset(s, u), s[u].val)
        <5> HIDE DEF f, g, s, off, v
        <5> QED BY <1>5, <4>1, <4>3, <4>4
      <4> QED
        BY <4>1, <4>5
    <3> QED
      BY <3>1, <3>2
  <2>7. Progress(o)'
    BY <1>2, <1>3, <1>5, <2>1, <2>4, <2>6 DEF Progress
  <2>8. SavesProgress' /\ OthersRest'
    BY <2>1, <2>5, <2>7 DEF SavesProgress, OthersRest
  <2> QED
    BY <1>6, <2>2, <2>8 DEF OneWriterInv
<1> QED
  BY <1>1, <1>8, <1>9

LEMMA SaveFailsSingle ==
  ASSUME FilesInv, OneWriterInv, OneWriter, NEW o \in crew.objects, o \in Objects, SaveFails(o),
         UNCHANGED crew
  PROVE  OneWriterInv'
<1>1. o \in Writers /\ UNCHANGED content /\ Abort(o)
  BY DEF SaveFails, FilesInv, WritersSave
<1>2. content' \in [Inodes -> Seq(Cells)]
  BY <1>1 DEF OneWriterInv
<1> QED
  BY <1>1, <1>2, AbortSingle

LEMMA KillSingle ==
  ASSUME FilesInv, OneWriterInv, OneWriter, NEW o \in crew.objects, o \in Objects, Kill(o), UNCHANGED crew
  PROVE  OneWriterInv'
<1>1. o \in Writers /\ UNCHANGED <<content, name, tmp>>
  BY DEF Kill, FilesInv, WritersSave
<1>2. /\ slots'[o] = Empty /\ writing'[o] = None
      /\ \A x \in Objects : x # o => slots'[x] = slots[x] /\ writing'[x] = writing[x]
  BY DEF Kill, FilesInv, FileTypes
<1>3. \A x \in Writers : slots'[x] = Empty /\ writing'[x] = None
  BY <1>1, <1>2, OnlyWriter DEF Objects
<1>4. OthersRest' /\ SavesProgress' /\ OwnRead'
  BY <1>3 DEF OthersRest, SavesProgress, OwnRead, Empty
<1>5. content' \in [Inodes -> Seq(Cells)] /\ FilesIntact'
  BY <1>1 DEF OneWriterInv, FilesIntact
<1> QED
  BY <1>4, <1>5 DEF OneWriterInv

\* A save with nothing left to write has a complete container in its
\* temporary file, with the chunks of its object.
LEMMA Complete ==
  ASSUME FilesInv, OneWriterInv, NEW o \in Writers, writing[o] # None, writing[o].todo = {}
  PROVE  /\ tmp[writing[o].path] = writing[o].out
         /\ Intact(content[writing[o].out])
         /\ content[writing[o].out][1] = Directory(slots[o])
         /\ \A t \in Types : slots[o][t] # None =>
              Slice(content[writing[o].out], Offset(slots[o], t), Size(slots[o][t].val))
                = Bytes(slots[o][t].val)
<1> DEFINE s == slots[o]
           f == content[writing[o].out]
           d == Directory(s)
<1>1. /\ tmp[writing[o].path] = writing[o].out /\ f # <<>> /\ f[1] = d
      /\ \A t \in Present(s) : Has(f, Offset(s, t), s[t].val)
  BY DEF OneWriterInv, SavesProgress, Progress
<1>2. f \in Seq(Cells) /\ s \in [Types -> Slot \cup {None}]
  BY DEF OneWriterInv, FilesInv, FileTypes, Objects, SaveRecord
<1>3. /\ d \in [Types -> Slot \cup {None}]
      /\ \A t \in Types : s[t] = None => d[t] = None
      /\ \A t \in Types : s[t] # None =>
           d[t] # None /\ d[t].off = Offset(s, t) /\ d[t].val = s[t].val
  <2> HIDE DEF s
  <2> QED BY <1>2, DirectoryType
<1> HIDE DEF f, s, d
<1>4. ASSUME NEW t \in Types, s[t] # None
      PROVE  /\ Offset(s, t) + Size(s[t].val) - 1 <= Len(f)
             /\ Slice(f, Offset(s, t), Size(s[t].val)) = Bytes(s[t].val)
  <2>1. t \in Present(s) /\ s[t].val \in Payloads
    BY <1>2, <1>4 DEF Present, Slot
  <2>2. Has(f, Offset(s, t), s[t].val)
    BY <1>1, <2>1
  <2> QED
    BY <1>2, <2>1, <2>2, OffsetType, HasReads DEF Has
<1>5. \A t \in Present(d) : t \in Types /\ s[t] # None /\ d[t].off = Offset(s, t) /\ d[t].val = s[t].val
  BY <1>3 DEF Present
<1>6. Intact(f)
  BY <1>1, <1>3, <1>4, <1>5 DEF Intact, Opens, IsDirectory
<1> QED
  BY <1>1, <1>4, <1>6 DEF f, s, d

\* What Publish does when the temporary file is there.
Renames(o) ==
  LET p == writing[o].path IN
  /\ tmp[p] # None
  /\ name' = [name EXCEPT ![p] = tmp[p]]
  /\ tmp' = [tmp EXCEPT ![p] = None]
  /\ source' = [source EXCEPT ![o] = p]
  /\ slots' = [slots EXCEPT ![o] =
       [t \in Types |-> IF slots[o][t] = None THEN None
                        ELSE [slots[o][t] EXCEPT !.off = Offset(slots[o], t)]]]
  /\ writing' = [writing EXCEPT ![o] = None]

LEMMA PublishSingle ==
  ASSUME FilesInv, OneWriterInv, OneWriter, NEW o \in crew.objects, o \in Objects, Publish(o), UNCHANGED crew
  PROVE  OneWriterInv'
<1> DEFINE p == writing[o].path
           out == writing[o].out
<1>1. o \in Writers /\ writing[o] # None /\ writing[o].todo = {} /\ UNCHANGED content
  BY DEF Publish, FilesInv, WritersSave
<1>2. content' \in [Inodes -> Seq(Cells)] /\ p \in Paths
  BY <1>1 DEF OneWriterInv, FilesInv, FileTypes, SaveRecord
<1>3. CASE Abort(o)
  BY <1>1, <1>2, <1>3, AbortSingle
<1>4. CASE Renames(o)
  <2>1. /\ tmp[p] = out /\ Intact(content[out])
        /\ \A t \in Types : slots[o][t] # None =>
             Slice(content[out], Offset(slots[o], t), Size(slots[o][t].val)) = Bytes(slots[o][t].val)
    BY <1>1, Complete
  <2>2. /\ slots[o] \in [Types -> Slot \cup {None}]
        /\ slots'[o] = [t \in Types |-> IF slots[o][t] = None THEN None
                                ELSE [slots[o][t] EXCEPT !.off = Offset(slots[o], t)]]
        /\ source'[o] = p /\ writing'[o] = None
        /\ \A x \in Objects : x # o => slots'[x] = slots[x] /\ writing'[x] = writing[x]
    BY <1>4 DEF Renames, FilesInv, FileTypes
  <2>3. /\ \A t \in Types : (slots'[o][t] = None) = (slots[o][t] = None)
        /\ \A t \in Types : slots[o][t] # None =>
              slots'[o][t].off = Offset(slots[o], t) /\ slots'[o][t].val = slots[o][t].val
    BY <2>2, Refreshed
  <2>4. name'[p] = out /\ \A q \in Paths : q # p => name'[q] = name[q]
    BY <1>2, <1>4, <2>1 DEF Renames, FilesInv, FileTypes
  <2>5. FilesIntact'
    BY <1>1, <2>1, <2>4 DEF OneWriterInv, FilesIntact
  <2>6. \A x \in Writers : x # o => x \notin crew.objects /\ slots'[x] = Empty /\ writing'[x] = None
    BY <1>1, <2>2, OnlyWriter DEF Objects
  <2>7. OthersRest' /\ SavesProgress'
    BY <2>2, <2>6 DEF OthersRest, SavesProgress
  <2>8. OwnRead'
    <3> SUFFICES ASSUME NEW x \in Writers, NEW t \in Types, slots'[x][t] # None
                 PROVE  Slice(content[name'[source'[x]]], slots'[x][t].off, Size(slots'[x][t].val))
                          = Bytes(slots'[x][t].val)
      BY <1>1 DEF OwnRead
    <3>1. x = o
      BY <2>6 DEF Empty
    <3> QED
      BY <2>1, <2>2, <2>3, <2>4, <3>1
  <2> QED
    BY <1>2, <2>5, <2>7, <2>8 DEF OneWriterInv
<1> QED
  BY <1>3, <1>4 DEF Publish, Renames

-----------------------------------------------------------------------------
(* Every step *)

LEMMA ArchiveStep ==
  ASSUME ArchiveInv, [ArchiveNext]_archive_vars PROVE ArchiveInv'
<1>1. FilesInv /\ (OneWriter => OneWriterInv)
  BY DEF ArchiveInv
<1>2. CASE UNCHANGED archive_vars
  <2>1. FilesInv'
    BY <1>1, <1>2 DEF archive_vars, FilesInv, FileTypes, Sourced, Distinct, WritersSave
  <2>2. OneWriter => OneWriterInv'
    BY <1>1, <1>2
       DEF archive_vars, OneWriterInv, OthersRest, FilesIntact, SavesProgress, Progress, OwnRead
  <2>3. OneWriter' = OneWriter
    BY <1>2 DEF archive_vars, OneWriter
  <2> QED
    BY <2>1, <2>2, <2>3 DEF ArchiveInv
<1>3. CASE ArchiveNext
  <2>1. UNCHANGED crew /\ OneWriter' = OneWriter
    BY <1>3 DEF ArchiveNext, OneWriter
  <2>2. crew.objects \subseteq Objects /\ crew.paths \subseteq Paths
    BY <1>1, Distinctions DEF FilesInv, FileTypes
  <2> SUFFICES FilesInv' /\ (OneWriter => OneWriterInv')
    BY <2>1 DEF ArchiveInv
  <2>3. PICK o \in crew.objects :
          \/ \E p \in crew.paths : Open(o, p) \/ SaveBegins(o, p)
          \/ \E t \in Types : EraseChunk(o, t)
          \/ \E t \in Types, v \in Payloads : SetChunk(o, t, v)
          \/ WriteChunk(o) \/ SaveFails(o) \/ Publish(o) \/ Kill(o)
    BY <1>3 DEF ArchiveNext
  <2>4. o \in Objects
    BY <2>2
  <2>5. CASE \E p \in crew.paths : Open(o, p)
    BY <1>1, <2>1, <2>2, <2>4, <2>5, OpenTypes, OpenSingle
  <2>6. CASE \E p \in crew.paths : SaveBegins(o, p)
    BY <1>1, <2>1, <2>2, <2>4, <2>6, SaveBeginsTypes, SaveBeginsSingle
  <2>7. CASE \E t \in Types : EraseChunk(o, t)
    BY <1>1, <2>1, <2>4, <2>7, EraseChunkTypes, SlotSingle
  <2>8. CASE \E t \in Types, v \in Payloads : SetChunk(o, t, v)
    BY <1>1, <2>1, <2>4, <2>8, SetChunkTypes, SlotSingle
  <2>9. CASE WriteChunk(o)
    BY <1>1, <2>1, <2>4, <2>9, WriteChunkTypes, WriteChunkSingle
  <2>10. CASE SaveFails(o)
    BY <1>1, <2>1, <2>4, <2>10, SaveFailsTypes, SaveFailsSingle
  <2>11. CASE Publish(o)
    BY <1>1, <2>1, <2>4, <2>11, PublishTypes, PublishSingle
  <2>12. CASE Kill(o)
    BY <1>1, <2>1, <2>4, <2>12, KillTypes, KillSingle
  <2> QED
    BY <2>3, <2>5, <2>6, <2>7, <2>8, <2>9, <2>10, <2>11, <2>12
<1> QED
  BY <1>2, <1>3

\* Every reachable state satisfies the invariant (archive.cpp).
THEOREM ArchiveInvariance == ArchiveSpec => []ArchiveInv
<1>1. ArchiveInit => ArchiveInv
  BY ArchiveStart
<1>2. ArchiveInv /\ [ArchiveNext]_archive_vars => ArchiveInv'
  BY ArchiveStep
<1> QED
  BY <1>1, <1>2, PTL DEF ArchiveSpec

\* Types, and no two names for one file.
THEOREM ArchiveTypes == ArchiveSpec => []ArchiveTypeOK
<1>1. ArchiveInv => ArchiveTypeOK
  <2> SUFFICES ASSUME ArchiveInv PROVE ArchiveTypeOK
    OBVIOUS
  <2>1. FileTypes /\ Sourced /\ Distinct /\ WritersSave
    BY DEF ArchiveInv, FilesInv
  <2>2. \A o \in Objects : writing[o] # None =>
          /\ o \in Writers /\ writing[o] \in SaveRecord
          /\ writing[o].todo \subseteq {t \in Types : slots[o][t] # None}
    BY <2>1 DEF FileTypes, WritersSave, Present
  <2> QED
    BY <2>1, <2>2 DEF ArchiveTypeOK, FileTypes, Sourced, Distinct, SaveRecord
<1> QED
  BY <1>1, ArchiveInvariance, PTL

\* With one writer, a loader finds every chunk of the file that it has opened
\* until a save replaces the file (archive.cpp, chunk and save).
THEOREM LoadersFindChunks == ArchiveSpec => []ReadersFindChunks
<1>1. ArchiveInv => ReadersFindChunks
  <2> SUFFICES ASSUME FilesInv, OneWriterInv, NEW r \in Readers, source[r] # None,
                      content[name[source[r]]][1] = slots[r], NEW t \in Present(slots[r])
               PROVE  Readable(r, t)
    BY DEF ArchiveInv, ReadersFindChunks
  <2>1. source[r] \in Paths /\ name[source[r]] # None
    BY DEF FilesInv, FileTypes, Sourced, Objects
  <2>2. Intact(content[name[source[r]]])
    BY <2>1 DEF OneWriterInv, FilesIntact
  <2>3. Slice(content[name[source[r]]], slots[r][t].off, Size(slots[r][t].val))
          = Bytes(slots[r][t].val)
    BY <2>2 DEF Intact
  <2> QED
    BY <2>1, <2>3 DEF Readable, Chunk
<1> QED
  BY <1>1, ArchiveInvariance, PTL

\* With one writer, an object that has saved still finds its unread chunks, in
\* the file it saved last (archive.cpp, save).
THEOREM OwnChunksKept == ArchiveSpec => []OwnChunksReadable
<1>1. ArchiveInv => OwnChunksReadable
  <2> SUFFICES ASSUME FilesInv, OneWriterInv, NEW o \in Writers, NEW t \in Present(slots[o])
               PROVE  Readable(o, t)
    BY DEF ArchiveInv, OwnChunksReadable
  <2>1. o \in Objects /\ t \in Types /\ slots[o][t] # None
    BY DEF FilesInv, FileTypes, Objects, Present
  <2>2. CASE slots[o][t].mem
    BY <2>2 DEF Readable, Chunk
  <2>3. CASE ~slots[o][t].mem
    <3>1. name[source[o]] # None
      BY <2>1, <2>3 DEF FilesInv, Sourced
    <3>2. Slice(content[name[source[o]]], slots[o][t].off, Size(slots[o][t].val))
            = Bytes(slots[o][t].val)
      BY <2>1, <2>3 DEF OneWriterInv, OwnRead
    <3> QED
      BY <3>1, <3>2, <2>3 DEF Readable, Chunk
  <2> QED
    BY <2>2, <2>3
<1> QED
  BY <1>1, ArchiveInvariance, PTL

\* Only a rename changes a name.
LEMMA SavePublishes ==
  ASSUME ArchiveInv, [ArchiveNext]_archive_vars, OneWriter, NEW p \in Paths, name'[p] # name[p]
  PROVE  \E o \in Writers : /\ writing[o] # None /\ writing[o].path = p
                             /\ Intact(content[name'[p]])
                             /\ Held(content[name'[p]][1]) = Held(slots[o])
<1>1. FilesInv /\ OneWriterInv
  BY DEF ArchiveInv
<1>2. ArchiveNext
  BY DEF archive_vars
<1>3. PICK o \in crew.objects : Publish(o)
  BY <1>2 DEF ArchiveNext, Open, SaveBegins, EraseChunk, SetChunk, WriteChunk, Abort,
              SaveFails, Kill
<1>4. Renames(o)
  BY <1>3 DEF Publish, Renames, Abort
<1>5. o \in Writers /\ writing[o] # None /\ writing[o].todo = {}
  BY <1>1, <1>3, Distinctions DEF Publish, FilesInv, FileTypes, WritersSave
<1>6. /\ tmp[writing[o].path] = writing[o].out
      /\ Intact(content[writing[o].out])
      /\ content[writing[o].out][1] = Directory(slots[o])
  BY <1>1, <1>5, Complete
<1>7. p = writing[o].path /\ name'[p] = writing[o].out
  BY <1>1, <1>4, <1>6 DEF Renames, FilesInv, FileTypes
<1>8. Held(Directory(slots[o])) = Held(slots[o])
  <2>1. slots[o] \in [Types -> Slot \cup {None}]
    BY <1>1, <1>5 DEF FilesInv, FileTypes, Objects
  <2> DEFINE s == slots[o]
  <2>2. s \in [Types -> Slot \cup {None}]
    BY <2>1
  <2> HIDE DEF s
  <2>3. \A t \in Types :
          (IF Directory(s)[t] = None THEN None ELSE Directory(s)[t].val)
            = (IF s[t] = None THEN None ELSE s[t].val)
    BY <2>2, DirectoryType
  <2>4. Held(Directory(s)) = Held(s)
    BY <2>3 DEF Held
  <2> QED
    BY <2>4 DEF s
<1> QED
  BY <1>5, <1>6, <1>7, <1>8

\* With one writer, a name changes only to a complete container with exactly
\* the chunks of the object that is saving (archive.cpp, save).
THEOREM SavesPublish == ArchiveSpec => SavePublishesObject
<1> DEFINE A == OneWriter => \A p \in Paths : name'[p] # name[p] =>
       \E o \in Writers : /\ writing[o] # None /\ writing[o].path = p
                          /\ Intact(content[name'[p]])
                          /\ Held(content[name'[p]][1]) = Held(slots[o])
<1>1. ArchiveInv /\ [ArchiveNext]_archive_vars => [A]_archive_vars
  BY SavePublishes
<1> QED
  BY <1>1, ArchiveInvariance, PTL DEF ArchiveSpec, SavePublishesObject

-----------------------------------------------------------------------------
(* SaveHandshake: the heart is Answered.  An answer to the pending request *)
(* means that the trainer is frozen at it, or dead, so that the checkpoint *)
(* it answered for stays what save_project_to_path finds in its two        *)
(* readings.                                                               *)

\* TypeOK in parts; a trainer that goes on has an iteration left to do.
Values ==
    /\ control \in Requests \cup {0}
    /\ reply \in [to : Requests \cup {0}, response : {"none", "saved", "error"}]
    /\ checkpoint \in Iterations
    /\ project \in [info : Iterations, model : Iterations]
    /\ tpc \in {"train", "step", "save", "saved", "failed", "frozen", "final", "store",
                "cleanup", "extract", "exited", "crashed", "reaped"}
    /\ iteration \in Iterations /\ (tpc = "train" => iteration < Total)
    /\ request \in Requests \cup {0} /\ last_control_request \in Requests \cup {0}
    /\ pc \in {"poll", "save", "write", "finish", "ui", "post", "last", "exit", "closed"}
    /\ exit_code_ \in {-1, 0, 1, 2}
    /\ checkpoint_request \in Requests \cup {0}
    /\ progress \in [source : {"none", "task", "project"}, at : Iterations]
    /\ message \in {"other", "saving", "saved"}
    /\ requested_at \in Iterations /\ wanted \subseteq BOOLEAN

Flags ==
    /\ final \in BOOLEAN /\ handed \in BOOLEAN
    /\ running_ \in BOOLEAN /\ paused_ \in BOOLEAN /\ active_job \in BOOLEAN
    /\ saving_training \in BOOLEAN /\ exit_after_save \in BOOLEAN
    /\ paused_before_save \in BOOLEAN /\ close_approved \in BOOLEAN
    /\ project_results_dirty \in BOOLEAN /\ final_splat_ready \in BOOLEAN

Reaped == running_ <=> tpc # "reaped"

\* A pending save is what the control file asks for.
Pending ==
    /\ saving_training => control = checkpoint_request /\ checkpoint_request # 0
    /\ pc = "write" => saving_training

\* The trainer answers requests only, after an iteration, and its last checkpoint
\* is the one it answers for.
Trainer ==
    /\ tpc \in {"saved", "failed"} => request # 0
    /\ tpc \in {"step", "save", "saved", "failed", "frozen"} => iteration >= 1
    /\ tpc \in {"saved", "frozen"} => checkpoint = iteration
    /\ reply.response # "none" => reply.to # 0
    /\ requested_at <= iteration

\* Once the pending request is answered, the checkpoint does not change.
Answered ==
    (/\ reply.to = checkpoint_request /\ reply.response = "saved"
     /\ control = checkpoint_request) =>
        /\ \/ tpc = "frozen" /\ request = checkpoint_request
           \/ tpc \in {"crashed", "reaped"}
        /\ checkpoint # 0 /\ checkpoint >= requested_at

\* Between the two readings of save_project_to_path.
Writing ==
    pc = "write" =>
        /\ progress.source = "task" => progress.at = checkpoint /\ checkpoint # 0
        /\ progress.source = "project" => progress.at = project.info
        /\ running_ => Acknowledged
        /\ Acknowledged => reply.response = "saved" /\ progress.source = "task"

\* A save reported as done is current, unless the trainer had ended by itself
\* and will never answer.
Saved ==
    message = "saved" =>
        \/ project.model >= requested_at
        \/ tpc = "reaped" /\ ~Acknowledged

\* While a save is pending, the job runs and its pause is remembered, or an
\* agent has meddled.
Paused ==
    running_ /\ saving_training /\ ~close_approved =>
        \/ wanted = BOOLEAN
        \/ wanted = {paused_before_save} /\ ~paused_

IInv ==
    /\ Values /\ Flags /\ Reaped /\ Pending /\ Trainer /\ Answered /\ Writing
    /\ Saved /\ Paused
    /\ ArchiveConsistent /\ PauseIsKept

-----------------------------------------------------------------------------
(* The step of each action.                                                *)

\* What the trainer leaves alone, and the panels.
EditorRests == UNCHANGED <<pc, job, saving, results, window, progress, history>>

UiFrame ==
    /\ pc = "ui" /\ pc' \in {"last", "post"}
    /\ UNCHANGED <<checkpoint, final, handed, trainer, running_, exit_code_, active_job,
                   final_splat_ready, progress>>

\* Between the two readings the trainer stands still: it is frozen at the
\* request that is still in the control file, or it is dead.
LEMMA QuietWhileWriting ==
    ASSUME IInv, pc = "write"
    PROVE  (tpc = "frozen" /\ request = control) \/ tpc \in {"crashed", "reaped"}
<1>1. saving_training /\ control = checkpoint_request
  BY DEF IInv, Pending
<1>2. CASE running_
  <2>1. Acknowledged /\ reply.response = "saved"
    BY <1>2 DEF IInv, Writing
  <2> QED
    BY <1>1, <2>1 DEF IInv, Answered, Acknowledged
<1>3. CASE ~running_
  BY <1>3 DEF IInv, Reaped
<1> QED
  BY <1>2, <1>3

\* What an acknowledged save writes is the checkpoint it asked for.
LEMMA AnswerIsCurrent ==
    ASSUME IInv, pc = "write", Acknowledged
    PROVE  progress.source = "task" /\ checkpoint >= requested_at
<1>1. control = checkpoint_request
  BY DEF IInv, Pending
<1>2. reply.response = "saved" /\ progress.source = "task"
  BY DEF IInv, Writing
<1> QED
  BY <1>1, <1>2 DEF IInv, Answered, Acknowledged

\* The trainer.  Only the end of its saves and its answers touch what a save
\* relies on.
LEMMA Iterated ==
    ASSUME SaveHandshakeAssumption, IInv, Iterate, EditorRests
    PROVE  IInv'
<1>1. Values'
  BY DEF IInv, SaveHandshakeAssumption, Values, Requests, Iterations, Iterate, files,
     job, saving, results, window, history, EditorRests
<1>2. Flags'
  BY DEF IInv, Flags, Iterate, files, job, saving, results, window, history,
     EditorRests
<1>3. Reaped'
  BY DEF IInv, Reaped, Iterate, files, job, saving, results, window, history,
     EditorRests
<1>4. /\ Pending' /\ Answered' /\ Writing' /\ Saved'
      /\ Paused' /\ ArchiveConsistent' /\ PauseIsKept'
  BY DEF IInv, Pending, Answered, Writing, Saved, Paused, ArchiveConsistent,
     PauseIsKept, Iterate, files, job, saving, results, window, history, EditorRests,
     Acknowledged
<1>5. Trainer'
  BY DEF IInv, SaveHandshakeAssumption, Values, Trainer, Iterations, Iterate, files,
     job, saving, results, window, history, EditorRests
<1> QED
  BY <1>1, <1>2, <1>3, <1>4, <1>5 DEF IInv

LEMMA Stepped ==
    ASSUME SaveHandshakeAssumption, IInv, CheckpointStep, EditorRests
    PROVE  IInv'
<1>1. Values'
  BY DEF IInv, SaveHandshakeAssumption, Values, Trainer, Requests, Iterations,
     CheckpointStep, files, job, saving, results, window, history, EditorRests
<1>2. Flags'
  BY DEF IInv, Flags, CheckpointStep, files, job, saving, results, window, history,
     EditorRests
<1>3. Reaped'
  BY DEF IInv, Reaped, CheckpointStep, files, job, saving, results, window, history,
     EditorRests
<1>4. /\ Pending' /\ Answered' /\ Writing' /\ Saved'
      /\ Paused' /\ ArchiveConsistent' /\ PauseIsKept'
  BY DEF IInv, Pending, Answered, Writing, Saved, Paused, ArchiveConsistent,
     PauseIsKept, CheckpointStep, files, job, saving, results, window, history,
     EditorRests, Acknowledged
<1>5. Trainer'
  BY DEF IInv, Values, Trainer, Iterations, CheckpointStep, files, job, saving,
     results, window, history, EditorRests
<1> QED
  BY <1>1, <1>2, <1>3, <1>4, <1>5 DEF IInv

LEMMA CheckpointSaved ==
    ASSUME SaveHandshakeAssumption, IInv, SaveCheckpoint, EditorRests
    PROVE  IInv'
<1>1. Values'
  BY DEF IInv, SaveHandshakeAssumption, Values, Requests, Iterations, SaveCheckpoint,
     NextIteration, job, saving, results, window, history, EditorRests
<1>2. Flags'
  BY DEF IInv, Flags, SaveCheckpoint, NextIteration, job, saving, results, window,
     history, EditorRests
<1>3. Reaped'
  BY DEF IInv, Reaped, SaveCheckpoint, NextIteration, job, saving, results, window,
     history, EditorRests
<1>4. Pending' /\ Answered' /\ Saved' /\ Paused' /\ ArchiveConsistent' /\ PauseIsKept'
  BY DEF IInv, Pending, Answered, Saved, Paused, ArchiveConsistent, PauseIsKept,
     SaveCheckpoint, NextIteration, job, saving, results, window, history, EditorRests,
     Acknowledged
<1>5. Trainer'
  BY DEF IInv, Values, Trainer, Iterations, SaveCheckpoint, NextIteration, job, saving,
     results, window, history, EditorRests
<1>6. Writing'
  BY QuietWhileWriting DEF IInv, Writing, SaveCheckpoint, NextIteration, job, saving,
     results, window, history, Acknowledged, EditorRests
<1> QED
  BY <1>1, <1>2, <1>3, <1>4, <1>5, <1>6 DEF IInv

LEMMA Replied ==
    ASSUME SaveHandshakeAssumption, IInv, Reply, EditorRests
    PROVE  IInv'
<1>1. Values'
  BY DEF IInv, SaveHandshakeAssumption, Values, Requests, Iterations, Reply,
     NextIteration, job, saving, results, window, history, EditorRests
<1>2. Flags'
  BY DEF IInv, Flags, Reply, NextIteration, job, saving, results, window, history,
     EditorRests
<1>3. Reaped'
  BY DEF IInv, Reaped, Reply, NextIteration, job, saving, results, window, history,
     EditorRests
<1>4. Pending' /\ Saved' /\ Paused' /\ ArchiveConsistent' /\ PauseIsKept'
  BY DEF IInv, Pending, Saved, Paused, ArchiveConsistent, PauseIsKept, Reply,
     NextIteration, job, saving, results, window, history, EditorRests, Acknowledged
<1>5. Trainer'
  BY DEF IInv, Values, Trainer, Iterations, Reply, NextIteration, job, saving, results,
     window, history, EditorRests
<1>6. Answered'
  BY DEF IInv, Trainer, Answered, Reply, NextIteration, job, saving, results, window,
     history, EditorRests
<1>7. Writing'
  BY QuietWhileWriting DEF IInv, Writing, Reply, NextIteration, job, saving, results,
     window, history, EditorRests, Acknowledged
<1> QED
  BY <1>1, <1>2, <1>3, <1>4, <1>5, <1>6, <1>7 DEF IInv

LEMMA Unfrozen ==
    ASSUME SaveHandshakeAssumption, IInv, Unfreeze, EditorRests
    PROVE  IInv'
<1>1. Values'
  BY DEF IInv, SaveHandshakeAssumption, Values, Requests, Iterations, Unfreeze,
     NextIteration, files, job, saving, results, window, history, EditorRests
<1>2. Flags'
  BY DEF IInv, Flags, Unfreeze, NextIteration, files, job, saving, results, window,
     history, EditorRests
<1>3. Reaped'
  BY DEF IInv, Reaped, Unfreeze, NextIteration, files, job, saving, results, window,
     history, EditorRests
<1>4. /\ Pending' /\ Answered' /\ Writing' /\ Saved'
      /\ Paused' /\ ArchiveConsistent' /\ PauseIsKept'
  BY DEF IInv, Pending, Answered, Writing, Saved, Paused, ArchiveConsistent,
     PauseIsKept, Unfreeze, NextIteration, files, job, saving, results, window,
     history, EditorRests, Acknowledged
<1>5. Trainer'
  BY DEF IInv, Values, Trainer, Iterations, Unfreeze, NextIteration, files, job,
     saving, results, window, history, EditorRests
<1> QED
  BY <1>1, <1>2, <1>3, <1>4, <1>5 DEF IInv

LEMMA HandoffPublished ==
    ASSUME SaveHandshakeAssumption, IInv, PublishHandoff, EditorRests
    PROVE  IInv'
<1>1. Values'
  BY DEF IInv, SaveHandshakeAssumption, Values, Requests, Iterations, PublishHandoff,
     job, saving, results, window, history, EditorRests
<1>2. Flags'
  BY DEF IInv, Flags, PublishHandoff, job, saving, results, window, history,
     EditorRests
<1>3. Reaped'
  BY DEF IInv, Reaped, PublishHandoff, job, saving, results, window, history,
     EditorRests
<1>4. /\ Pending' /\ Answered' /\ Writing' /\ Saved'
      /\ Paused' /\ ArchiveConsistent' /\ PauseIsKept'
  BY DEF IInv, Pending, Answered, Writing, Saved, Paused, ArchiveConsistent,
     PauseIsKept, PublishHandoff, job, saving, results, window, history, EditorRests,
     Acknowledged
<1>5. Trainer'
  BY DEF IInv, Values, Trainer, Iterations, PublishHandoff, job, saving, results,
     window, history, EditorRests
<1> QED
  BY <1>1, <1>2, <1>3, <1>4, <1>5 DEF IInv

LEMMA FinalStored ==
    ASSUME SaveHandshakeAssumption, IInv, StoreFinal, EditorRests
    PROVE  IInv'
<1>1. Values'
  BY DEF IInv, SaveHandshakeAssumption, Values, Requests, Iterations, StoreFinal, job,
     saving, results, window, history, EditorRests
<1>2. Flags'
  BY DEF IInv, Flags, StoreFinal, job, saving, results, window, history, EditorRests
<1>3. Reaped'
  BY DEF IInv, Reaped, StoreFinal, job, saving, results, window, history, EditorRests
<1>4. /\ Pending' /\ Answered' /\ Writing' /\ Saved'
      /\ Paused' /\ ArchiveConsistent' /\ PauseIsKept'
  BY DEF IInv, Pending, Answered, Writing, Saved, Paused, ArchiveConsistent,
     PauseIsKept, StoreFinal, job, saving, results, window, history, EditorRests,
     Acknowledged
<1>5. Trainer'
  BY DEF IInv, Values, Trainer, Iterations, StoreFinal, job, saving, results, window,
     history, EditorRests
<1> QED
  BY <1>1, <1>2, <1>3, <1>4, <1>5 DEF IInv

LEMMA CheckpointRemoved ==
    ASSUME SaveHandshakeAssumption, IInv, RemoveCheckpoint, EditorRests
    PROVE  IInv'
<1>1. Values'
  BY DEF IInv, SaveHandshakeAssumption, Values, Requests, Iterations, RemoveCheckpoint,
     job, saving, results, window, history, EditorRests
<1>2. Flags'
  BY DEF IInv, Flags, RemoveCheckpoint, job, saving, results, window, history,
     EditorRests
<1>3. Reaped'
  BY DEF IInv, Reaped, RemoveCheckpoint, job, saving, results, window, history,
     EditorRests
<1>4. Pending' /\ Answered' /\ Saved' /\ Paused' /\ ArchiveConsistent' /\ PauseIsKept'
  BY DEF IInv, Pending, Answered, Saved, Paused, ArchiveConsistent, PauseIsKept,
     RemoveCheckpoint, job, saving, results, window, history, EditorRests, Acknowledged
<1>5. Trainer'
  BY DEF IInv, Values, Trainer, Iterations, RemoveCheckpoint, job, saving, results,
     window, history, EditorRests
<1>6. Writing'
  BY QuietWhileWriting DEF IInv, Writing, RemoveCheckpoint, job, saving, results,
     window, history, Acknowledged, EditorRests
<1> QED
  BY <1>1, <1>2, <1>3, <1>4, <1>5, <1>6 DEF IInv

LEMMA Exited ==
    ASSUME SaveHandshakeAssumption, IInv, Exit, EditorRests
    PROVE  IInv'
<1>1. Values'
  BY DEF IInv, SaveHandshakeAssumption, Values, Requests, Iterations, Exit, files, job,
     saving, results, window, history, EditorRests
<1>2. Flags'
  BY DEF IInv, Flags, Exit, files, job, saving, results, window, history, EditorRests
<1>3. Reaped'
  BY DEF IInv, Reaped, Exit, files, job, saving, results, window, history, EditorRests
<1>4. /\ Pending' /\ Answered' /\ Writing' /\ Saved'
      /\ Paused' /\ ArchiveConsistent' /\ PauseIsKept'
  BY DEF IInv, Pending, Answered, Writing, Saved, Paused, ArchiveConsistent,
     PauseIsKept, Exit, files, job, saving, results, window, history, EditorRests,
     Acknowledged
<1>5. Trainer'
  BY DEF IInv, Values, Trainer, Iterations, Exit, files, job, saving, results, window,
     history, EditorRests
<1> QED
  BY <1>1, <1>2, <1>3, <1>4, <1>5 DEF IInv

\* The trainer dies where it is.
LEMMA Crashed ==
    ASSUME SaveHandshakeAssumption, IInv, Crash
    PROVE  IInv'
<1>1. Values'
  BY DEF IInv, SaveHandshakeAssumption, Values, Requests, Iterations, Crash, Alive,
     files, job, saving, results, window, history
<1>2. Flags'
  BY DEF IInv, Flags, Crash, Alive, files, job, saving, results, window, history
<1>3. Reaped'
  BY DEF IInv, Reaped, Crash, Alive, files, job, saving, results, window, history
<1>4. /\ Pending' /\ Answered' /\ Writing' /\ Saved'
      /\ Paused' /\ ArchiveConsistent' /\ PauseIsKept'
  BY DEF IInv, Pending, Answered, Writing, Saved, Paused, ArchiveConsistent,
     PauseIsKept, Crash, Alive, files, job, saving, results, window, history,
     Acknowledged
<1>5. Trainer'
  BY DEF IInv, Values, Trainer, Iterations, Crash, Alive, files, job, saving, results,
     window, history
<1> QED
  BY <1>1, <1>2, <1>3, <1>4, <1>5 DEF IInv

\* The editor's frame.
LEMMA JobPolled ==
    ASSUME SaveHandshakeAssumption, IInv, PollJob
    PROVE  IInv'
<1>1. Values'
  BY DEF IInv, SaveHandshakeAssumption, Values, Requests, Iterations, PollJob, Alive,
     files, job, saving, results, window, history
<1>2. Flags'
  BY DEF IInv, Values, Flags, PollJob, Alive, files, job, saving, results, window,
     history
<1>3. Reaped'
  BY DEF IInv, Reaped, PollJob, Alive, files, job, saving, results, window, history
<1>4. Pending' /\ Answered' /\ Writing' /\ ArchiveConsistent'
  BY DEF IInv, Pending, Answered, Writing, ArchiveConsistent, PollJob, Alive, files,
     job, saving, results, window, history, Acknowledged
<1>5. Trainer'
  BY DEF IInv, Values, Trainer, Iterations, PollJob, Alive, files, job, saving,
     results, window, history
<1>6. Saved'
  BY DEF IInv, Reaped, Saved, PollJob, Alive, files, job, saving, results, window,
     history, Acknowledged
<1>7. Paused'
  BY DEF IInv, Values, Flags, Paused, PollJob, Alive, files, job, saving, results,
     window, history
<1>8. PauseIsKept'
  BY DEF IInv, Values, Flags, PauseIsKept, PollJob, Alive, files, job, saving, results,
     window, history
<1> QED
  BY <1>1, <1>2, <1>3, <1>4, <1>5, <1>6, <1>7, <1>8 DEF IInv

LEMMA SavePolled ==
    ASSUME SaveHandshakeAssumption, IInv, PollSave
    PROVE  IInv'
<1>1. Values'
  BY DEF IInv, SaveHandshakeAssumption, Values, Flags, Requests, Iterations, PollSave,
     CancelSave, Inspected, trainer, results, history, Acknowledged, NoProgress
<1>2. Flags'
  BY DEF IInv, Values, Flags, PollSave, CancelSave, Inspected, trainer, results,
     history, Acknowledged
<1>3. Reaped'
  BY DEF IInv, Reaped, PollSave, CancelSave, Inspected, trainer, results, history
<1>4. Pending' /\ ArchiveConsistent'
  BY DEF IInv, Pending, ArchiveConsistent, PollSave, CancelSave, Inspected, trainer,
     results, history
<1>5. Trainer'
  BY DEF IInv, Values, Trainer, Iterations, PollSave, CancelSave, Inspected, trainer,
     results, history
<1>6. Answered'
  BY DEF IInv, Trainer, Answered, PollSave, CancelSave, Inspected, trainer, results,
     history
<1>7. Writing'
  BY DEF IInv, Values, Flags, Reaped, Pending, Trainer, Answered, Writing, PollSave,
     CancelSave, Inspected, trainer, results, history, Acknowledged, NoProgress
<1>8. Saved'
  BY DEF IInv, Values, Flags, Saved, PollSave, CancelSave, Inspected, trainer, results,
     history, Acknowledged
<1>9. Paused'
  BY DEF IInv, Values, Flags, Reaped, Paused, PollSave, CancelSave, Inspected, trainer,
     results, history, Acknowledged
<1>10. PauseIsKept'
  BY DEF IInv, Values, Flags, Paused, PauseIsKept, PollSave, CancelSave, Inspected,
     trainer, results, history, Acknowledged
<1> QED
  BY <1>1, <1>2, <1>3, <1>4, <1>5, <1>6, <1>7, <1>8, <1>9, <1>10 DEF IInv

LEMMA SaveEnded ==
    ASSUME SaveHandshakeAssumption, IInv, EndSave
    PROVE  IInv'
<1>1. Values'
  BY DEF IInv, SaveHandshakeAssumption, Values, Requests, Iterations, EndSave,
     SaveDone, SaveFailed, CancelSave, WriteProject, NoProgress, trainer, history
<1>2. Flags'
  BY DEF IInv, Values, Flags, EndSave, SaveDone, SaveFailed, CancelSave, WriteProject,
     NoProgress, trainer, history
<1>3. Reaped'
  BY DEF IInv, Reaped, EndSave, SaveDone, SaveFailed, CancelSave, WriteProject,
     NoProgress, trainer, history
<1>4. Pending' /\ Writing' /\ Paused'
  BY DEF IInv, Pending, Writing, Paused, EndSave, SaveDone, SaveFailed, CancelSave,
     WriteProject, NoProgress, trainer, history, Acknowledged
<1>5. Trainer'
  BY DEF IInv, Values, Trainer, Iterations, EndSave, SaveDone, SaveFailed, CancelSave,
     WriteProject, NoProgress, trainer, history
<1>6. Answered'
  BY DEF IInv, Trainer, Answered, EndSave, SaveDone, SaveFailed, CancelSave,
     WriteProject, NoProgress, trainer, history
<1>7. Saved'
  BY AnswerIsCurrent DEF IInv, SaveHandshakeAssumption, Values, Flags, Reaped, Writing,
     Saved, EndSave, SaveDone, SaveFailed, CancelSave, WriteProject, NoProgress,
     trainer, history, Acknowledged, Iterations
<1>8. ArchiveConsistent'
  BY DEF IInv, Values, Writing, ArchiveConsistent, EndSave, SaveDone, SaveFailed,
     CancelSave, WriteProject, NoProgress, trainer, history
<1>9. PauseIsKept'
  BY DEF IInv, Values, Flags, Pending, Paused, PauseIsKept, EndSave, SaveDone,
     SaveFailed, CancelSave, WriteProject, NoProgress, trainer, history
<1> QED
  BY <1>1, <1>2, <1>3, <1>4, <1>5, <1>6, <1>7, <1>8, <1>9 DEF IInv

LEMMA FrameFinished ==
    ASSUME SaveHandshakeAssumption, IInv, FinishFrame
    PROVE  IInv'
<1>1. Values'
  BY DEF IInv, SaveHandshakeAssumption, Values, Requests, Iterations, FinishFrame,
     PauseOrResume, files, trainer, saving, window
<1>2. Flags'
  BY DEF IInv, Flags, FinishFrame, PauseOrResume, files, trainer, saving, window
<1>3. Reaped'
  BY DEF IInv, Reaped, FinishFrame, PauseOrResume, files, trainer, saving, window
<1>4. /\ Pending' /\ Answered' /\ Writing' /\ Saved'
      /\ Paused' /\ ArchiveConsistent' /\ PauseIsKept'
  BY DEF IInv, Pending, Answered, Writing, Saved, Paused, ArchiveConsistent,
     PauseIsKept, FinishFrame, PauseOrResume, files, trainer, saving, window,
     Acknowledged
<1>5. Trainer'
  BY DEF IInv, Values, Trainer, Iterations, FinishFrame, PauseOrResume, files, trainer,
     saving, window
<1> QED
  BY <1>1, <1>2, <1>3, <1>4, <1>5 DEF IInv

\* What the user and agents do in the panels.
LEMMA SaveRequested ==
    ASSUME SaveHandshakeAssumption, IInv, UiFrame,
           NEW exit \in BOOLEAN, RequestSave(exit)
    PROVE  IInv'
<1>1. Values'
  BY DEF IInv, SaveHandshakeAssumption, Values, Flags, Trainer, Requests, Iterations,
     RequestSave, trainer, saving, NoReply, UiFrame
<1>2. Flags'
  BY DEF IInv, Values, Flags, RequestSave, trainer, saving, UiFrame
<1>3. Reaped'
  BY DEF IInv, Reaped, RequestSave, trainer, saving, UiFrame
<1>4. Answered' /\ Writing' /\ Saved' /\ Paused' /\ ArchiveConsistent' /\ PauseIsKept'
  BY DEF IInv, Answered, Writing, Saved, Paused, ArchiveConsistent, PauseIsKept,
     RequestSave, trainer, saving, NoReply, UiFrame, Acknowledged
<1>5. Pending'
  BY DEF IInv, Values, Pending, RequestSave, trainer, saving, Requests, UiFrame
<1>6. Trainer'
  BY DEF IInv, Values, Trainer, Iterations, RequestSave, trainer, saving, NoReply,
     UiFrame
<1> QED
  BY <1>1, <1>2, <1>3, <1>4, <1>5, <1>6 DEF IInv

LEMMA RequestFailed ==
    ASSUME SaveHandshakeAssumption, IInv, UiFrame, RequestFails
    PROVE  IInv'
<1>1. Values'
  BY DEF IInv, SaveHandshakeAssumption, Values, Requests, Iterations, RequestFails,
     trainer, history, NoReply, UiFrame
<1>2. Flags'
  BY DEF IInv, Flags, RequestFails, trainer, history, UiFrame
<1>3. Reaped'
  BY DEF IInv, Reaped, RequestFails, trainer, history, UiFrame
<1>4. /\ Pending' /\ Answered' /\ Writing' /\ Saved'
      /\ Paused' /\ ArchiveConsistent' /\ PauseIsKept'
  BY DEF IInv, Pending, Answered, Writing, Saved, Paused, ArchiveConsistent,
     PauseIsKept, RequestFails, trainer, history, UiFrame, NoReply, Acknowledged
<1>5. Trainer'
  BY DEF IInv, Values, Trainer, Iterations, RequestFails, trainer, history, NoReply,
     UiFrame
<1> QED
  BY <1>1, <1>2, <1>3, <1>4, <1>5 DEF IInv

LEMMA SavedNow ==
    ASSUME SaveHandshakeAssumption, IInv, UiFrame, NEW exit \in BOOLEAN, SaveNow(exit)
    PROVE  IInv'
<1>1. Values'
  BY DEF IInv, SaveHandshakeAssumption, Values, Requests, Iterations, SaveNow,
     WriteProject, Inspected, NoProgress, trainer, saving, history, UiFrame
<1>2. Flags'
  BY DEF IInv, Values, Flags, SaveNow, WriteProject, Inspected, NoProgress, trainer,
     saving, history, UiFrame
<1>3. Reaped'
  BY DEF IInv, Reaped, SaveNow, WriteProject, Inspected, NoProgress, trainer, saving,
     history, UiFrame
<1>4. /\ Pending' /\ Answered' /\ Writing' /\ Saved'
      /\ Paused' /\ ArchiveConsistent' /\ PauseIsKept'
  BY DEF IInv, Pending, Answered, Writing, Saved, Paused, ArchiveConsistent,
     PauseIsKept, SaveNow, WriteProject, Inspected, NoProgress, trainer, saving,
     history, UiFrame, Acknowledged
<1>5. Trainer'
  BY DEF IInv, Values, Trainer, Iterations, SaveNow, WriteProject, Inspected,
     NoProgress, trainer, saving, history, UiFrame
<1> QED
  BY <1>1, <1>2, <1>3, <1>4, <1>5 DEF IInv

LEMMA Dismissed ==
    ASSUME SaveHandshakeAssumption, IInv, UiFrame, NEW close \in BOOLEAN, Dismiss(close)
    PROVE  IInv'
<1>1. Values'
  BY DEF IInv, SaveHandshakeAssumption, Values, Requests, Iterations, Dismiss,
     CancelSave, trainer, history, UiFrame
<1>2. Flags'
  BY DEF IInv, Values, Flags, Dismiss, CancelSave, trainer, history, UiFrame
<1>3. Reaped'
  BY DEF IInv, Reaped, Dismiss, CancelSave, trainer, history, UiFrame
<1>4. Pending' /\ Writing' /\ Saved' /\ ArchiveConsistent'
  BY DEF IInv, Pending, Writing, Saved, ArchiveConsistent, Dismiss, CancelSave,
     trainer, history, UiFrame, Acknowledged
<1>5. Trainer'
  BY DEF IInv, Values, Trainer, Iterations, Dismiss, CancelSave, trainer, history,
     UiFrame
<1>6. Answered'
  BY DEF IInv, Trainer, Answered, Dismiss, CancelSave, trainer, history, UiFrame
<1>7. Paused'
  BY DEF IInv, Flags, Paused, Dismiss, CancelSave, trainer, history, UiFrame
<1>8. PauseIsKept'
  BY DEF IInv, Flags, Paused, PauseIsKept, Dismiss, CancelSave, trainer, history,
     UiFrame
<1> QED
  BY <1>1, <1>2, <1>3, <1>4, <1>5, <1>6, <1>7, <1>8 DEF IInv

LEMMA Toggled ==
    ASSUME SaveHandshakeAssumption, IInv, UiFrame, ToolbarPause
    PROVE  IInv'
<1>1. Values'
  BY DEF IInv, SaveHandshakeAssumption, Values, Requests, Iterations, ToolbarPause,
     PauseOrResume, trainer, saving, window, UiFrame
<1>2. Flags'
  BY DEF IInv, Flags, ToolbarPause, PauseOrResume, trainer, saving, window, UiFrame
<1>3. Reaped'
  BY DEF IInv, Reaped, ToolbarPause, PauseOrResume, trainer, saving, window, UiFrame
<1>4. /\ Pending' /\ Answered' /\ Writing' /\ Saved'
      /\ Paused' /\ ArchiveConsistent' /\ PauseIsKept'
  BY DEF IInv, Pending, Answered, Writing, Saved, Paused, ArchiveConsistent,
     PauseIsKept, ToolbarPause, PauseOrResume, trainer, saving, window, UiFrame,
     Acknowledged
<1>5. Trainer'
  BY DEF IInv, Values, Trainer, Iterations, ToolbarPause, PauseOrResume, trainer,
     saving, window, UiFrame
<1> QED
  BY <1>1, <1>2, <1>3, <1>4, <1>5 DEF IInv

LEMMA LeftAlone ==
    ASSUME SaveHandshakeAssumption, IInv, UiFrame,
           UNCHANGED <<control, reply, paused_, saving, project, project_results_dirty, window,
                       history>>
    PROVE  IInv'
<1>1. Values'
  BY DEF IInv, SaveHandshakeAssumption, Values, Requests, Iterations, trainer, saving,
     window, history, UiFrame
<1>2. Flags'
  BY DEF IInv, Flags, trainer, saving, window, history, UiFrame
<1>3. Reaped'
  BY DEF IInv, Reaped, trainer, saving, window, history, UiFrame
<1>4. /\ Pending' /\ Answered' /\ Writing' /\ Saved'
      /\ Paused' /\ ArchiveConsistent' /\ PauseIsKept'
  BY DEF IInv, Pending, Answered, Writing, Saved, Paused, ArchiveConsistent,
     PauseIsKept, trainer, saving, window, history, UiFrame, Acknowledged
<1>5. Trainer'
  BY DEF IInv, Values, Trainer, Iterations, trainer, saving, window, history, UiFrame
<1> QED
  BY <1>1, <1>2, <1>3, <1>4, <1>5 DEF IInv

LEMMA Presented ==
    ASSUME SaveHandshakeAssumption, IInv, Post
    PROVE  IInv'
<1>1. Values'
  BY DEF IInv, SaveHandshakeAssumption, Values, Requests, Iterations, Post, Stop,
     files, job, saving, window, history
<1>2. Flags'
  BY DEF IInv, Values, Flags, Post, Stop, files, job, saving, window, history
<1>3. Reaped'
  BY DEF IInv, Reaped, Post, Stop, files, job, saving, window, history
<1>4. Pending' /\ Answered' /\ Writing' /\ ArchiveConsistent'
  BY DEF IInv, Pending, Answered, Writing, ArchiveConsistent, Post, Stop, files, job,
     saving, window, history, Acknowledged
<1>5. Trainer'
  BY DEF IInv, Values, Trainer, Iterations, Post, Stop, files, job, saving, window,
     history
<1>6. Saved'
  BY DEF IInv, Reaped, Saved, Post, Stop, files, job, saving, window, history,
     Acknowledged
<1>7. Paused'
  BY DEF IInv, Flags, Paused, Post, Stop, files, job, saving, window, history
<1>8. PauseIsKept'
  BY DEF IInv, Flags, PauseIsKept, Post, Stop, files, job, saving, window, history
<1> QED
  BY <1>1, <1>2, <1>3, <1>4, <1>5, <1>6, <1>7, <1>8 DEF IInv

LEMMA Ended ==
    ASSUME SaveHandshakeAssumption, IInv, Close
    PROVE  IInv'
<1>1. Values'
  BY DEF IInv, SaveHandshakeAssumption, Values, Requests, Iterations, Close, files,
     saving, results, window, history
<1>2. Flags'
  BY DEF IInv, Values, Flags, Close, files, saving, results, window, history
<1>3. Reaped'
  BY DEF IInv, Reaped, Close, files, saving, results, window, history
<1>4. Pending' /\ Answered' /\ Writing' /\ ArchiveConsistent'
  BY DEF IInv, Pending, Answered, Writing, ArchiveConsistent, Close, files, saving,
     results, window, history, Acknowledged
<1>5. Trainer'
  BY DEF IInv, Values, Trainer, Iterations, Close, files, saving, results, window,
     history
<1>6. Saved'
  BY DEF IInv, Reaped, Saved, Close, files, saving, results, window, history,
     Acknowledged
<1>7. Paused'
  BY DEF IInv, Flags, Paused, Close, files, saving, results, window, history
<1>8. PauseIsKept'
  BY DEF IInv, Flags, PauseIsKept, Close, files, saving, results, window, history
<1> QED
  BY <1>1, <1>2, <1>3, <1>4, <1>5, <1>6, <1>7, <1>8 DEF IInv

LEMMA Stuttered ==
    ASSUME SaveHandshakeAssumption, IInv, UNCHANGED vars
    PROVE  IInv'
<1>1. Values'
  BY DEF IInv, SaveHandshakeAssumption, Values, Requests, Iterations, vars, files,
     trainer, job, saving, results, window, history
<1>2. Flags'
  BY DEF IInv, Flags, vars, files, trainer, job, saving, results, window, history
<1>3. Reaped'
  BY DEF IInv, Reaped, vars, files, trainer, job, saving, results, window, history
<1>4. /\ Pending' /\ Answered' /\ Writing' /\ Saved'
      /\ Paused' /\ ArchiveConsistent' /\ PauseIsKept'
  BY DEF IInv, Pending, Answered, Writing, Saved, Paused, ArchiveConsistent,
     PauseIsKept, vars, files, trainer, job, saving, results, window, history,
     Acknowledged
<1>5. Trainer'
  BY DEF IInv, Values, Trainer, Iterations, vars, files, trainer, job, saving, results,
     window, history
<1> QED
  BY <1>1, <1>2, <1>3, <1>4, <1>5 DEF IInv

-----------------------------------------------------------------------------
(* The theorems.                                                           *)

LEMMA Start == SaveHandshakeAssumption /\ Init => IInv
<1> SUFFICES ASSUME SaveHandshakeAssumption, Init PROVE IInv
  OBVIOUS
<1>1. PICK start \in 0..(Total - 1) :
        /\ iteration = start /\ checkpoint = start
        /\ project = [info |-> start, model |-> start]
  BY DEF Init
<1>2. Values
  BY <1>1 DEF Init, SaveHandshakeAssumption, Values, Requests, Iterations, NoReply, NoProgress
<1>3. Flags
  BY DEF Init, Flags
<1>4. Reaped
  BY DEF Init, Reaped
<1>5. Pending /\ Writing /\ Paused
  BY DEF Init, Pending, Writing, Paused
<1>6. Trainer /\ Answered /\ Saved
  BY <1>1 DEF Init, SaveHandshakeAssumption, Trainer, Answered, Saved, NoReply
<1>7. ArchiveConsistent
  BY <1>1 DEF ArchiveConsistent
<1>8. PauseIsKept
  BY DEF Init, PauseIsKept
<1> QED
  BY <1>2, <1>3, <1>4, <1>5, <1>6, <1>7, <1>8 DEF IInv

LEMMA PanelsKeep == ASSUME SaveHandshakeAssumption, IInv, Ui PROVE IInv'
<1>1. UiFrame
  BY DEF Ui, UiFrame
<1>2. CASE \E choice \in BOOLEAN : RequestSave(choice) \/ SaveNow(choice) \/ Dismiss(choice)
  BY <1>1, <1>2, SaveRequested, SavedNow, Dismissed
<1>3. CASE RequestFails
  BY <1>1, <1>3, RequestFailed
<1>4. CASE ToolbarPause
  BY <1>1, <1>4, Toggled
<1>5. CASE UNCHANGED <<control, reply, paused_, saving, project, project_results_dirty, window,
                       history>>
  BY <1>1, <1>5, LeftAlone
<1> QED
  BY <1>2, <1>3, <1>4, <1>5 DEF Ui

LEMMA Inductive == SaveHandshakeAssumption /\ IInv /\ [Next]_vars => IInv'
<1> SUFFICES ASSUME SaveHandshakeAssumption, IInv, [Next]_vars PROVE IInv'
  OBVIOUS
<1>1. CASE TrainerRuns
  <2>1. EditorRests
    BY <1>1 DEF TrainerRuns, EditorRests
  <2> QED
    BY <1>1, <2>1, Iterated, Stepped, CheckpointSaved, Replied, Unfrozen, HandoffPublished,
       FinalStored, CheckpointRemoved, Exited DEF TrainerRuns
<1>2. CASE Crash
  BY <1>2, Crashed
<1>3. CASE Editor
  BY <1>3, JobPolled, SavePolled, SaveEnded, FrameFinished, PanelsKeep, Presented, Ended
     DEF Editor
<1>4. CASE UNCHANGED vars
  BY <1>4, Stuttered
<1> QED
  BY <1>1, <1>2, <1>3, <1>4 DEF Next, Closed

LEMMA Invariant == Spec => []IInv
  BY SaveHandshakeAssumption, Start, Inductive, PTL DEF Spec

\* Every variable keeps its type: the trainer stops at Total iterations.
THEOREM TypeCorrect == Spec => []TypeOK
<1>1. IInv => TypeOK
  BY DEF IInv, Values, Flags, Reaped, TypeOK
<1> QED
  BY <1>1, Invariant, PTL

\* The archive's metadata and Gaussians come from one checkpoint, although the
\* checkpoint is opened twice.
THEOREM ArchiveIsConsistent == Spec => []ArchiveConsistent
<1>1. IInv => ArchiveConsistent
  BY DEF IInv
<1> QED
  BY <1>1, Invariant, PTL

\* A save that the trainer acknowledged is not older than its request.
THEOREM AcknowledgedSavesAreCurrent == Spec => []AcknowledgedSaveIsCurrent
<1>1. IInv => AcknowledgedSaveIsCurrent
  BY DEF IInv, Saved, AcknowledgedSaveIsCurrent
<1> QED
  BY <1>1, Invariant, PTL

\* After a save the job is suspended exactly if the user had suspended it.
THEOREM PauseSurvivesSave == Spec => []PauseIsKept
<1>1. IInv => PauseIsKept
  BY DEF IInv
<1> QED
  BY <1>1, Invariant, PTL

-----------------------------------------------------------------------------
(* SplatEdit: the order of the Gaussians *)

\* The numbers below i in a set of numbers.
LEMMA BeforeType ==
  ASSUME NEW S \in SUBSET Nat, NEW i \in Nat
  PROVE  /\ IsFiniteSet({j \in S : j < i}) /\ Before(S, i) \in Nat
         /\ 0 \notin S /\ i # 0 => Before(S, i) <= i - 1
<1> DEFINE B == {j \in S : j < i}
<1>1. B \subseteq 0 .. i
  <2>1. \A j \in S : j \in Nat
    OBVIOUS
  <2>2. \A j \in Nat : j < i => j \in 0 .. i
    OBVIOUS
  <2> QED
    BY <2>1, <2>2
<1>2. IsFiniteSet(0 .. i)
  BY FS_Interval
<1>3. IsFiniteSet(B) /\ Cardinality(B) \in Nat
  BY <1>1, <1>2, FS_Subset, FS_CardinalityType
<1>4. ASSUME 0 \notin S, i # 0 PROVE Cardinality(B) <= i - 1
  <2>1. B \subseteq 1 .. (i - 1)
    <3>1. \A j \in S : j \in Nat /\ j # 0
      BY <1>4
    <3>2. \A j \in Nat : j # 0 /\ j < i => j \in 1 .. (i - 1)
      OBVIOUS
    <3> QED
      BY <3>1, <3>2
  <2>2. IsFiniteSet(1 .. (i - 1)) /\ Cardinality(1 .. (i - 1)) = i - 1
    <3>1. i - 1 \in Int /\ 1 \in Int /\ (1 > i - 1 => i - 1 = 0)
      BY <1>4
    <3> QED
      BY <3>1, FS_Interval
  <2> HIDE DEF B
  <2> QED BY <2>1, <2>2, FS_Subset
<1> QED
  BY <1>3, <1>4 DEF Before

\* Members of a finite set have different numbers of members below them, fewer
\* than there are members.
LEMMA Ranks ==
  ASSUME NEW S \in SUBSET Nat, IsFiniteSet(S)
  PROVE  /\ Cardinality(S) \in Nat
         /\ \A i \in S : Before(S, i) \in 0 .. (Cardinality(S) - 1)
         /\ \A i, j \in S : i < j => Before(S, i) < Before(S, j)
<1>1. Cardinality(S) \in Nat
  BY FS_CardinalityType
<1>2. ASSUME NEW i \in S PROVE Before(S, i) \in 0 .. (Cardinality(S) - 1)
  <2> DEFINE B == {j \in S : j < i}
  <2>1. B \subseteq S \ {i}
    OBVIOUS
  <2>2. IsFiniteSet(S \ {i}) /\ Cardinality(S \ {i}) = Cardinality(S) - 1
    BY FS_RemoveElement
  <2>3. Cardinality(B) <= Cardinality(S) - 1
    <3> HIDE DEF B
    <3> QED BY <2>1, <2>2, FS_Subset
  <2> QED
    BY <1>1, <2>3, BeforeType DEF Before
<1>3. ASSUME NEW i \in S, NEW j \in S, i < j PROVE Before(S, i) < Before(S, j)
  <2> DEFINE A == {x \in S : x < i}
             B == {x \in S : x < j}
  <2>1. A \cup {i} \subseteq B /\ i \notin A
    <3>1. \A x \in S : x \in Nat
      OBVIOUS
    <3>2. i \notin A
      BY <3>1
    <3>3. \A x \in A : x < j
      BY <1>3, <3>1
    <3> QED
      BY <1>3, <3>2, <3>3
  <2>2. IsFiniteSet(A) /\ IsFiniteSet(B) /\ Cardinality(A) \in Nat /\ Cardinality(B) \in Nat
    BY BeforeType DEF Before
  <2>3. Cardinality(A \cup {i}) = Cardinality(A) + 1
    <3> HIDE DEF A
    <3> QED BY <2>1, <2>2, FS_AddElement
  <2>4. Cardinality(A \cup {i}) <= Cardinality(B)
    <3> HIDE DEF A, B
    <3> QED BY <2>1, <2>2, FS_Subset
  <2>5. Cardinality(A) < Cardinality(B)
    <3> HIDE DEF A, B
    <3> QED BY <2>2, <2>3, <2>4
  <2> QED
    BY <2>5 DEF Before
<1> QED
  BY <1>1, <1>2, <1>3

\* Sorted enumerates: it has each member at its rank.
LEMMA Enumerated ==
  ASSUME NEW S \in SUBSET Nat, IsFiniteSet(S)
  PROVE  /\ Cardinality(S) \in Nat
         /\ Sorted(S) \in [1 .. Cardinality(S) -> S]
         /\ \A i \in S : /\ Before(S, i) + 1 \in 1 .. Cardinality(S)
                         /\ Sorted(S)[Before(S, i) + 1] = i
<1> DEFINE n == Cardinality(S)
           T == 0 .. (n - 1)
           f == [i \in S |-> Before(S, i)]
<1>1. /\ n \in Nat
      /\ \A i \in S : Before(S, i) \in T
      /\ \A i, j \in S : i < j => Before(S, i) < Before(S, j)
  BY Ranks
<1>2. \A i, j \in S : Before(S, i) = Before(S, j) => i = j
  <2> SUFFICES ASSUME NEW i \in S, NEW j \in S, Before(S, i) = Before(S, j) PROVE i = j
    OBVIOUS
  <2>1. i \in Nat /\ j \in Nat /\ Before(S, i) \in Nat /\ Before(S, j) \in Nat
    BY BeforeType
  <2> HIDE DEF n, T, f
  <2>2. ~ (i < j) /\ ~ (j < i)
    BY <1>1, <2>1
  <2> QED
    BY <2>1, <2>2
<1>3. f \in Injection(S, T)
  BY <1>1, <1>2 DEF Injection, IsInjective
<1>4. IsFiniteSet(T) /\ Cardinality(T) = n
  <2>1. n - 1 \in Int /\ 0 \in Int /\ (0 > n - 1 => n = 0)
    BY <1>1
  <2> HIDE DEF n
  <2> QED BY <1>1, <2>1, FS_Interval
<1>5. f \in Surjection(S, T)
  <2> HIDE DEF f, T
  <2>1. Cardinality(S) = Cardinality(T)
    BY <1>4
  <2> QED BY <1>3, <1>4, <2>1, FS_Injection
<1>6. \A k \in 1 .. n : \E i \in S : Before(S, i) = k - 1
  <2> SUFFICES ASSUME NEW k \in 1 .. n PROVE \E i \in S : Before(S, i) = k - 1
    OBVIOUS
  <2>1. k - 1 \in T
    BY <1>1
  <2>2. \E i \in S : f[i] = k - 1
    <3> HIDE DEF f, T
    <3> QED BY <1>5, <2>1 DEF Surjection
  <2> QED
    BY <2>2
<1>7. \A k \in 1 .. n : Sorted(S)[k] \in S /\ Before(S, Sorted(S)[k]) = k - 1
  <2> SUFFICES ASSUME NEW k \in 1 .. n
               PROVE  Sorted(S)[k] \in S /\ Before(S, Sorted(S)[k]) = k - 1
    OBVIOUS
  <2>1. Sorted(S)[k] = CHOOSE i \in S : Before(S, i) = k - 1
    BY DEF Sorted
  <2>2. \E i \in S : Before(S, i) = k - 1
    BY <1>6
  <2> QED
    BY <2>1, <2>2
<1>8. Sorted(S) \in [1 .. n -> S]
  BY <1>7 DEF Sorted
<1>9. ASSUME NEW i \in S
      PROVE  Before(S, i) + 1 \in 1 .. n /\ Sorted(S)[Before(S, i) + 1] = i
  <2> DEFINE k == Before(S, i) + 1
  <2>1. k \in 1 .. n /\ k - 1 = Before(S, i)
    BY <1>1
  <2>2. Sorted(S)[k] \in S /\ Before(S, Sorted(S)[k]) = k - 1
    <3> HIDE DEF k
    <3> QED BY <1>7, <2>1
  <2>3. Sorted(S)[k] = i
    <3> HIDE DEF k
    <3> QED BY <1>2, <2>1, <2>2
  <2> QED
    BY <2>1, <2>3
<1> QED
  BY <1>1, <1>8, <1>9

\* Some Gaussians of a cloud, in their order.
LEMMA PickType ==
  ASSUME NEW cloud \in Seq(Nat), NEW S \in SUBSET DOMAIN cloud
  PROVE  /\ S \in SUBSET Nat /\ 0 \notin S /\ IsFiniteSet(S) /\ Cardinality(S) \in Nat
         /\ Sorted(S) \in Seq(Nat \ {0}) /\ Len(Sorted(S)) = Cardinality(S)
         /\ Range(Sorted(S)) = S
         /\ Pick(cloud, S) \in Seq(Nat) /\ Len(Pick(cloud, S)) = Cardinality(S)
         /\ \A k \in 1 .. Cardinality(S) : Sorted(S)[k] \in S /\ Pick(cloud, S)[k] = cloud[Sorted(S)[k]]
<1>1. DOMAIN cloud = 1 .. Len(cloud) /\ Len(cloud) \in Nat
  OBVIOUS
<1>2. S \in SUBSET Nat /\ 0 \notin S /\ IsFiniteSet(S)
  <2>1. IsFiniteSet(1 .. Len(cloud))
    BY <1>1, FS_Interval
  <2> QED
    BY <1>1, <2>1, FS_Subset
<1> DEFINE n == Cardinality(S)
<1>3. /\ n \in Nat /\ Sorted(S) \in [1 .. n -> S]
      /\ \A i \in S : Before(S, i) + 1 \in 1 .. n /\ Sorted(S)[Before(S, i) + 1] = i
  BY <1>2, Enumerated
<1> HIDE DEF n
<1>4. Sorted(S) \in Seq(Nat \ {0}) /\ Len(Sorted(S)) = n
  <2>1. Sorted(S) \in [1 .. n -> Nat \ {0}]
    BY <1>2, <1>3
  <2> QED
    BY <1>3, <2>1
<1>5. Range(Sorted(S)) = S
  BY <1>3 DEF Range
<1>6. \A k \in 1 .. n : Sorted(S)[k] \in S /\ cloud[Sorted(S)[k]] \in Nat
  BY <1>1, <1>3
<1>7. Pick(cloud, S) = [k \in 1 .. n |-> cloud[Sorted(S)[k]]]
  BY DEF Pick, n
<1>8. Pick(cloud, S) \in Seq(Nat) /\ Len(Pick(cloud, S)) = n
  BY <1>3, <1>6, <1>7
<1> QED
  BY <1>2, <1>3, <1>4, <1>5, <1>6, <1>7, <1>8 DEF n

\* Those of a cloud that are not in S, and how many of them and of S come before i.
LEMMA Complement ==
  ASSUME NEW n \in Nat, NEW S \in SUBSET (1 .. n)
  PROVE  /\ Cardinality(S) \in Nat /\ Cardinality((1 .. n) \ S) = n - Cardinality(S)
         /\ \A i \in 1 .. n : Before((1 .. n) \ S, i) = i - 1 - Before(S, i)
<1> DEFINE D == 1 .. n
           K == D \ S
<1>1. IsFiniteSet(D) /\ Cardinality(D) = n
  <2>1. n \in Int /\ 1 \in Int /\ (1 > n => n = 0)
    OBVIOUS
  <2> QED
    BY <2>1, FS_Interval
<1>2. \A A, B : IsFiniteSet(A) /\ IsFiniteSet(B) /\ A \cap B = {} =>
        Cardinality(A \cup B) = Cardinality(A) + Cardinality(B)
  <2> SUFFICES ASSUME NEW A, NEW B, IsFiniteSet(A), IsFiniteSet(B), A \cap B = {}
               PROVE  Cardinality(A \cup B) = Cardinality(A) + Cardinality(B)
    OBVIOUS
  <2>1. Cardinality(A \cap B) = 0
    BY FS_EmptySet
  <2>2. Cardinality(A) \in Nat /\ Cardinality(B) \in Nat
    BY FS_CardinalityType
  <2>3. Cardinality(A \cup B) = Cardinality(A) + Cardinality(B) - Cardinality(A \cap B)
    BY FS_Union
  <2> QED
    BY <2>1, <2>2, <2>3
<1>3. IsFiniteSet(S) /\ IsFiniteSet(K) /\ Cardinality(S) \in Nat /\ Cardinality(K) \in Nat
  BY <1>1, FS_Subset, FS_CardinalityType
<1>4. Cardinality(K) = n - Cardinality(S)
  <2>1. S \cap K = {} /\ S \cup K = D
    OBVIOUS
  <2> HIDE DEF K, D
  <2>2. n = Cardinality(S) + Cardinality(K)
    BY <1>1, <1>2, <1>3, <2>1
  <2> QED BY <1>3, <2>2
<1>5. ASSUME NEW i \in D PROVE Before(K, i) = i - 1 - Before(S, i)
  <2> DEFINE A == {j \in S : j < i}
             B == {j \in K : j < i}
  <2>1. A \cap B = {} /\ A \cup B = 1 .. (i - 1)
    <3>1. \A j \in 1 .. (i - 1) : j \in D /\ j < i
      OBVIOUS
    <3>2. \A j \in D : j < i => j \in 1 .. (i - 1)
      OBVIOUS
    <3> QED
      BY <3>1, <3>2
  <2>2. /\ IsFiniteSet(A) /\ Before(S, i) \in Nat /\ IsFiniteSet(B) /\ Before(K, i) \in Nat
        /\ Before(S, i) = Cardinality(A) /\ Before(K, i) = Cardinality(B)
    <3>1. i \in Nat /\ S \in SUBSET Nat /\ K \in SUBSET Nat
      OBVIOUS
    <3> QED
      BY <3>1, BeforeType DEF Before
  <2>3. Cardinality(1 .. (i - 1)) = i - 1
    <3>1. i - 1 \in Int /\ 1 \in Int /\ (1 > i - 1 => i - 1 = 0)
      OBVIOUS
    <3> QED
      BY <3>1, FS_Interval
  <2>4. i - 1 = Cardinality(A) + Cardinality(B)
    <3> HIDE DEF A, B
    <3> QED BY <1>2, <2>1, <2>2, <2>3
  <2> HIDE DEF A, B, K
  <2> QED BY <2>2, <2>4
<1> QED
  BY <1>3, <1>4, <1>5

\* What delete takes out, reinsert puts back where it was.
LEMMA Spliced ==
  ASSUME NEW cloud \in Seq(Nat), NEW S \in SUBSET DOMAIN cloud
  PROVE  Splice(Kept(cloud, S), Sorted(S), Pick(cloud, S)) = cloud
<1> DEFINE n == Len(cloud)
           K == DOMAIN cloud \ S
           kept == Kept(cloud, S)
           index == Sorted(S)
           removed == Pick(cloud, S)
           back == Splice(kept, index, removed)
<1>1. n \in Nat /\ DOMAIN cloud = 1 .. n
  OBVIOUS
<1>2. /\ S \in SUBSET Nat /\ IsFiniteSet(S) /\ Cardinality(S) \in Nat
      /\ Len(index) = Cardinality(S) /\ DOMAIN index = 1 .. Cardinality(S) /\ Range(index) = S
      /\ \A k \in 1 .. Cardinality(S) : removed[k] = cloud[index[k]]
  BY PickType
<1>3. /\ K \in SUBSET Nat /\ IsFiniteSet(K) /\ Cardinality(K) \in Nat
      /\ Len(kept) = Cardinality(K)
      /\ \A k \in 1 .. Cardinality(K) : kept[k] = cloud[Sorted(K)[k]]
  <2>1. K \in SUBSET DOMAIN cloud
    OBVIOUS
  <2> HIDE DEF K
  <2>2. /\ K \in SUBSET Nat /\ IsFiniteSet(K) /\ Cardinality(K) \in Nat
        /\ Len(Pick(cloud, K)) = Cardinality(K)
        /\ \A k \in 1 .. Cardinality(K) : Pick(cloud, K)[k] = cloud[Sorted(K)[k]]
    BY <2>1, PickType
  <2> QED
    BY <2>2 DEF Kept, K
<1>4. /\ Cardinality(K) = n - Cardinality(S)
      /\ \A i \in 1 .. n : Before(K, i) = i - 1 - Before(S, i)
  <2> HIDE DEF n
  <2> QED BY <1>1, Complement
<1>5. back = [i \in 1 .. n |->
                IF i \in S THEN removed[CHOOSE k \in DOMAIN index : index[k] = i]
                ELSE LET k == i - Before(S, i)
                     IN IF k <= Cardinality(K) THEN kept[k] ELSE 0]
  <2>1. Len(kept) + Len(index) = n
    <3> HIDE DEF kept, index, n, K
    <3> QED BY <1>1, <1>2, <1>3, <1>4
  <2> HIDE DEF kept, index, removed, n, K
  <2> QED BY <1>2, <1>3, <2>1 DEF Splice
<1>6. ASSUME NEW i \in 1 .. n, i \in S PROVE back[i] = cloud[i]
  <2> HIDE DEF kept, index, removed, n, K, back
  <2>1. \E k \in DOMAIN index : index[k] = i
    BY <1>2, <1>6 DEF Range
  <2> DEFINE k == CHOOSE x \in DOMAIN index : index[x] = i
  <2>2. k \in DOMAIN index /\ index[k] = i
    BY <2>1
  <2>3. back[i] = removed[k]
    BY <1>5, <1>6
  <2> HIDE DEF k
  <2> QED BY <1>2, <2>2, <2>3
<1>7. ASSUME NEW i \in 1 .. n, i \notin S PROVE back[i] = cloud[i]
  <2>1. i \in K
    BY <1>1, <1>7
  <2> HIDE DEF kept, index, removed, n, K, back
  <2>2. Before(K, i) + 1 \in 1 .. Cardinality(K) /\ Sorted(K)[Before(K, i) + 1] = i
    BY <1>3, <2>1, Enumerated
  <2>3. Before(S, i) \in Nat /\ Before(K, i) \in Nat /\ i \in Nat
    <3>1. i \in Nat
      BY <1>1
    <3> QED
      BY <1>2, <1>3, <3>1, BeforeType
  <2>4. i - Before(S, i) = Before(K, i) + 1
    BY <1>4, <2>3
  <2>5. i - Before(S, i) <= Cardinality(K)
    BY <1>3, <2>2, <2>4
  <2>6. back[i] = kept[i - Before(S, i)]
    BY <1>5, <1>7, <2>5
  <2> QED
    BY <1>3, <2>2, <2>4, <2>6
<1>8. back = [i \in 1 .. n |-> cloud[i]]
  <2> HIDE DEF kept, index, removed, n, K
  <2>1. \A i \in 1 .. n : back[i] = cloud[i]
    <3> HIDE DEF back
    <3> QED BY <1>6, <1>7
  <2>2. back = [i \in 1 .. n |-> back[i]]
    <3> HIDE DEF back
    <3> QED BY <1>5
  <2> QED
    BY <2>1, <2>2
<1>9. cloud = [i \in 1 .. n |-> cloud[i]]
  BY <1>1
<1> HIDE DEF back, n
<1>10. back = cloud
  BY <1>8, <1>9
<1> QED
  BY <1>10 DEF back

LEMMA SpliceType ==
  ASSUME NEW kept \in Seq(Nat), NEW index \in Seq(Nat \ {0}), NEW removed \in Seq(Nat),
         Len(index) = Len(removed)
  PROVE  Splice(kept, index, removed) \in Seq(Nat)
<1> DEFINE n == Len(kept) + Len(index)
           g(i) == IF i \in Range(index) THEN removed[CHOOSE k \in DOMAIN index : index[k] = i]
                   ELSE LET k == i - Before(Range(index), i)
                        IN IF k <= Len(kept) THEN kept[k] ELSE 0
<1>1. n \in Nat /\ DOMAIN index = 1 .. Len(removed) /\ Len(kept) \in Nat /\ Len(removed) \in Nat
  OBVIOUS
<1>2. Range(index) \in SUBSET Nat /\ 0 \notin Range(index)
  BY DEF Range
<1>3. ASSUME NEW i \in 1 .. n PROVE g(i) \in Nat
  <2>1. CASE i \in Range(index)
    <3>1. \E k \in DOMAIN index : index[k] = i
      BY <2>1 DEF Range
    <3>2. (CHOOSE k \in DOMAIN index : index[k] = i) \in DOMAIN index
      BY <3>1
    <3>3. removed[CHOOSE k \in DOMAIN index : index[k] = i] \in Nat
      BY <1>1, <3>2, ElementOfSeq
    <3> QED
      BY <2>1, <3>3
  <2>2. CASE i \notin Range(index)
    <3>1. i \in Nat /\ i # 0
      BY <1>1
    <3>2. Before(Range(index), i) \in Nat /\ Before(Range(index), i) <= i - 1
      <4> HIDE DEF n
      <4> QED BY <1>2, <3>1, BeforeType
    <3> DEFINE k == i - Before(Range(index), i)
    <3>3. k \in Nat /\ k >= 1
      BY <3>1, <3>2
    <3>4. k <= Len(kept) => kept[k] \in Nat
      <4> HIDE DEF k
      <4>1. k <= Len(kept) => k \in 1 .. Len(kept)
        BY <1>1, <3>3
      <4> QED
        BY <4>1, ElementOfSeq
    <3> QED
      BY <2>2, <3>4
  <2> QED
    BY <2>1, <2>2
<1>4. Splice(kept, index, removed) = [i \in 1 .. n |-> g(i)]
  BY DEF Splice
<1> HIDE DEF g, n
<1> QED
  BY <1>1, <1>3, <1>4

-----------------------------------------------------------------------------
(* SplatEdit: the invariant *)

Poses == {0, 1}

EditFields ==
  [cloud : Seq(Nat), sel : SUBSET Nat, pose : Poses, dirty : BOOLEAN, rev : Nat,
   stroke : [on : BOOLEAN, n : Nat, sel : SUBSET Nat]]

\* What is selected, now and when a stroke began, was there.
EditState ==
  {e \in EditFields : e.sel \subseteq DOMAIN e.cloud /\ e.stroke.sel \subseteq 1 .. e.stroke.n}

StepState ==
  [kind : {"selection", "deletion", "volume", "replace"}, n : Nat, sel : SUBSET Nat, pose : Poses,
   index : Seq(Nat \ {0}), removed : Seq(Nat), cloud : Seq(Nat),
   was : [cloud : Seq(Nat), sel : SUBSET Nat, pose : Poses]]

StepRecord ==
  {s \in StepState : /\ Len(s.index) = Len(s.removed)
                     /\ s.kind \in {"selection", "deletion"} => s.sel \subseteq 1 .. s.n}

SimplifyState ==
  [running : BOOLEAN, has_baseline : BOOLEAN, applied : BOOLEAN, baseline : Seq(Nat), runs : Nat]

AppState ==
  [model : Clouds, cloud : Seq(Nat), rev : Nat, results : BOOLEAN,
   source : {"memory", "copy", "project"}, stale : BOOLEAN]

EditTypes ==
  /\ edit \in EditState
  /\ undo_ \in Seq(StepRecord) /\ redo_ \in Seq(StepRecord)
  /\ redo_ # <<>> => "undo" \in Uses
  /\ simplify \in SimplifyState /\ app \in AppState
  /\ uses \in Nat

\* What Studio knows of a model that is only in memory.
Noticed ==
  app.source = "memory" =>
    /\ ~app.stale
    /\ "undo" \notin Uses /\ ~app.results =>
         /\ app.rev <= edit.rev
         /\ edit.cloud = app.cloud \/ (edit.dirty /\ app.rev < edit.rev)

\* With the Gaussians in cloud, the step s leads to s.was: an undo (back) or a
\* redo.  A deletion knows both ways.  The volume also changes without a step, so
\* only the steps that record it know it.
LeadsTo(s, cloud, back) ==
  CASE s.kind = "deletion" ->
         LET full == IF back THEN s.was.cloud ELSE cloud
             less == IF back THEN cloud ELSE s.was.cloud
         IN /\ Splice(less, s.index, s.removed) = full
            /\ Kept(full, Range(s.index) \cap DOMAIN full) = less
            /\ s.n = Len(full) /\ s.sel = s.was.sel
    [] s.kind = "replace" -> s.cloud = s.was.cloud
    [] s.kind = "volume" -> s.pose = s.was.pose /\ s.was.cloud = cloud
    [] s.kind = "selection" -> s.was.cloud = cloud /\ s.n = Len(cloud) /\ s.sel = s.was.sel

\* Each step of a stack leads from where the one above it led.
Chain(stack, cloud, back) ==
  \A i \in 1 .. Len(stack) :
    LeadsTo(stack[i], IF i = Len(stack) THEN cloud ELSE stack[i + 1].was.cloud, back)

\* Until a second run of Simplify the stacks lead from the present model.
Recorded ==
  /\ simplify.running => ~simplify.applied
  /\ simplify.runs = 0 => ~simplify.running /\ ~simplify.applied
  /\ Chain(undo_, edit.cloud, TRUE)
  /\ Chain(redo_, edit.cloud, FALSE)

EditInv == EditTypes /\ Noticed /\ (simplify.runs <= 1 => Recorded)

-----------------------------------------------------------------------------
(* SplatEdit: records and stacks *)

LEMMA PutType ==
  ASSUME NEW e \in EditState, NEW cloud \in Seq(Nat), NEW sel \in SUBSET DOMAIN cloud,
         NEW p, p = Put(e, cloud, sel)
  PROVE  /\ p \in EditState /\ p.cloud = cloud /\ p.sel = sel
         /\ p.pose = e.pose /\ p.dirty = e.dirty /\ p.rev = e.rev /\ p.stroke = e.stroke
<1>1. sel \in SUBSET Nat
  BY PickType
<1>2. e \in EditFields
  BY DEF EditState
<1>3. p \in EditFields
  BY <1>1, <1>2 DEF Put, EditFields
<1>4. p.cloud = cloud /\ p.sel = sel
  BY <1>2 DEF Put, EditFields
<1>5. p.pose = e.pose /\ p.dirty = e.dirty /\ p.rev = e.rev /\ p.stroke = e.stroke
  BY <1>2 DEF Put, EditFields
<1> QED
  BY <1>3, <1>4, <1>5 DEF EditState

LEMMA EditedType ==
  ASSUME NEW e \in EditState, NEW p, p = Edited(e)
  PROVE  /\ p \in EditState /\ p.cloud = e.cloud /\ p.sel = e.sel /\ p.pose = e.pose
         /\ p.dirty = TRUE /\ p.rev = e.rev + 1 /\ p.stroke = e.stroke
<1>1. e \in EditFields
  BY DEF EditState
<1>2. p = [e EXCEPT !.dirty = TRUE, !.rev = e.rev + 1] /\ e.rev + 1 \in Nat
  BY <1>1 DEF Edited, EditFields
<1>3. p \in EditFields
  BY <1>1, <1>2 DEF EditFields
<1>4. /\ p.cloud = e.cloud /\ p.sel = e.sel /\ p.pose = e.pose
      /\ p.dirty = TRUE /\ p.rev = e.rev + 1 /\ p.stroke = e.stroke
  BY <1>1, <1>2 DEF EditFields
<1> QED
  BY <1>3, <1>4 DEF EditState

\* Fields of a step.
LEMMA StepFields ==
  ASSUME NEW s \in StepRecord
  PROVE  /\ s.kind \in {"selection", "deletion", "volume", "replace"} /\ s.n \in Nat
         /\ s.sel \in SUBSET Nat /\ s.pose \in Poses /\ s.index \in Seq(Nat \ {0})
         /\ s.removed \in Seq(Nat) /\ s.cloud \in Seq(Nat)
         /\ s.was \in [cloud : Seq(Nat), sel : SUBSET Nat, pose : Poses]
         /\ s.was.cloud \in Seq(Nat) /\ s.was.sel \in SUBSET Nat /\ s.was.pose \in Poses
         /\ Len(s.index) = Len(s.removed)
         /\ s.kind \in {"selection", "deletion"} => s.sel \subseteq 1 .. s.n
<1>1. s \in StepState
  BY DEF StepRecord
<1> QED
  BY <1>1 DEF StepRecord, StepState

LEMMA ReinsertType ==
  ASSUME NEW e \in EditState, NEW s \in StepRecord, s.kind = "deletion", NEW p, p = Reinsert(e, s)
  PROVE  /\ p \in EditState /\ p.cloud = Splice(e.cloud, s.index, s.removed)
         /\ p.sel = (IF s.n = Len(p.cloud) THEN s.sel ELSE {})
         /\ p.pose = e.pose /\ p.dirty = e.dirty /\ p.rev = e.rev /\ p.stroke = e.stroke
<1> DEFINE cloud == Splice(e.cloud, s.index, s.removed)
           sel == IF s.n = Len(cloud) THEN s.sel ELSE {}
<1>1. cloud \in Seq(Nat)
  BY StepFields, SpliceType DEF EditState, EditFields
<1>2. sel \in SUBSET DOMAIN cloud
  BY <1>1, StepFields
<1>3. p = Put(e, cloud, sel)
  BY DEF Reinsert
<1> HIDE DEF cloud, sel
<1>4. /\ p \in EditState /\ p.cloud = cloud /\ p.sel = sel
      /\ p.pose = e.pose /\ p.dirty = e.dirty /\ p.rev = e.rev /\ p.stroke = e.stroke
  BY <1>1, <1>2, <1>3, PutType
<1> QED
  BY <1>4 DEF cloud, sel

LEMMA EraseType ==
  ASSUME NEW e \in EditState, NEW S \in SUBSET DOMAIN e.cloud, NEW p, p = Put(e, Kept(e.cloud, S), {})
  PROVE  /\ p \in EditState /\ p.cloud = Kept(e.cloud, S) /\ p.sel = {}
         /\ p.pose = e.pose /\ p.dirty = e.dirty /\ p.rev = e.rev /\ p.stroke = e.stroke
<1> DEFINE K == DOMAIN e.cloud \ S
<1>1. e.cloud \in Seq(Nat)
  BY DEF EditState, EditFields
<1>2. Kept(e.cloud, S) \in Seq(Nat)
  <2>1. K \in SUBSET DOMAIN e.cloud
    OBVIOUS
  <2> HIDE DEF K
  <2>2. Pick(e.cloud, K) \in Seq(Nat)
    BY <1>1, <2>1, PickType
  <2> QED
    BY <2>2 DEF Kept, K
<1> QED
  BY <1>2, PutType

\* A step that is made of the present model.
LEMMA StepType ==
  ASSUME EditTypes, NEW kind \in {"selection", "deletion", "volume", "replace"}, NEW n \in Nat,
         NEW sel \in SUBSET Nat, NEW index \in Seq(Nat \ {0}), NEW removed \in Seq(Nat),
         NEW cloud \in Seq(Nat), Len(index) = Len(removed),
         kind \in {"selection", "deletion"} => sel \subseteq 1 .. n,
         NEW s, s = Step(kind, n, sel, index, removed, cloud)
  PROVE  /\ s \in StepRecord /\ s.kind = kind /\ s.n = n /\ s.sel = sel /\ s.pose = edit.pose
         /\ s.index = index /\ s.removed = removed /\ s.cloud = cloud
         /\ s.was.cloud = edit.cloud /\ s.was.sel = sel /\ s.was.pose = edit.pose
<1>1. edit.cloud \in Seq(Nat) /\ edit.pose \in Poses
  BY DEF EditTypes, EditState, EditFields
<1>2. /\ s.kind = kind /\ s.n = n /\ s.sel = sel /\ s.pose = edit.pose
      /\ s.index = index /\ s.removed = removed /\ s.cloud = cloud
      /\ s.was.cloud = edit.cloud /\ s.was.sel = sel /\ s.was.pose = edit.pose
  BY DEF Step
<1>3. [cloud |-> edit.cloud, sel |-> sel, pose |-> edit.pose]
        \in [cloud : Seq(Nat), sel : SUBSET Nat, pose : Poses]
  BY <1>1
<1>4. s \in StepState
  BY <1>1, <1>3 DEF Step, StepState
<1> QED
  BY <1>2, <1>4 DEF StepRecord

\* The steps that take nothing out.
LEMMA SelectionType ==
  ASSUME EditTypes, NEW n \in Nat, NEW sel \in SUBSET (1 .. n), NEW s, s = Selection(n, sel)
  PROVE  /\ s \in StepRecord /\ s.kind = "selection" /\ s.n = n /\ s.sel = sel
         /\ s.was.cloud = edit.cloud /\ s.was.sel = sel /\ s.was.pose = edit.pose
<1> DEFINE nil == <<>>
           kind == "selection"
<1>1. /\ nil \in Seq(Nat) /\ nil \in Seq(Nat \ {0}) /\ Len(nil) = Len(nil)
      /\ kind \in {"selection", "deletion", "volume", "replace"} /\ sel \in SUBSET Nat
      /\ sel \subseteq 1 .. n
  OBVIOUS
<1>2. s = Step(kind, n, sel, nil, nil, nil)
  BY DEF Selection
<1> HIDE DEF nil, kind
<1>3. /\ s \in StepRecord /\ s.kind = kind /\ s.n = n /\ s.sel = sel
      /\ s.was.cloud = edit.cloud /\ s.was.sel = sel /\ s.was.pose = edit.pose
  BY <1>1, <1>2, StepType
<1> QED
  BY <1>3 DEF kind

LEMMA VolumeType ==
  ASSUME EditTypes, NEW s, s = VolumePose
  PROVE  /\ s \in StepRecord /\ s.kind = "volume" /\ s.pose = edit.pose
         /\ s.was.cloud = edit.cloud /\ s.was.pose = edit.pose
<1> DEFINE nil == <<>>
           kind == "volume"
           n == 0
           sel == edit.sel
<1>1. /\ nil \in Seq(Nat) /\ nil \in Seq(Nat \ {0}) /\ Len(nil) = Len(nil) /\ n \in Nat
      /\ kind \in {"selection", "deletion", "volume", "replace"} /\ sel \in SUBSET Nat
      /\ kind \notin {"selection", "deletion"}
  BY DEF EditTypes, EditState, EditFields
<1>2. s = Step(kind, n, sel, nil, nil, nil)
  BY DEF VolumePose
<1> HIDE DEF nil, kind, n, sel
<1>3. /\ s \in StepRecord /\ s.kind = kind /\ s.pose = edit.pose
      /\ s.was.cloud = edit.cloud /\ s.was.pose = edit.pose
  BY <1>1, <1>2, StepType
<1> QED
  BY <1>3 DEF kind

LEMMA ReplaceType ==
  ASSUME EditTypes, NEW s, s = Replace
  PROVE  /\ s \in StepRecord /\ s.kind = "replace" /\ s.cloud = edit.cloud
         /\ s.was.cloud = edit.cloud /\ s.was.pose = edit.pose
<1> DEFINE nil == <<>>
           kind == "replace"
           n == Len(edit.cloud)
           sel == edit.sel
           cloud == edit.cloud
<1>1. /\ nil \in Seq(Nat) /\ nil \in Seq(Nat \ {0}) /\ Len(nil) = Len(nil) /\ n \in Nat
      /\ kind \in {"selection", "deletion", "volume", "replace"} /\ sel \in SUBSET Nat
      /\ kind \notin {"selection", "deletion"} /\ cloud \in Seq(Nat)
  BY DEF EditTypes, EditState, EditFields
<1>2. s = Step(kind, n, sel, nil, nil, cloud)
  BY DEF Replace
<1> HIDE DEF nil, kind, n, sel, cloud
<1>3. /\ s \in StepRecord /\ s.kind = kind /\ s.cloud = cloud
      /\ s.was.cloud = edit.cloud /\ s.was.pose = edit.pose
  BY <1>1, <1>2, StepType
<1> QED
  BY <1>3 DEF kind, cloud

\* The step on the other stack.
LEMMA CurrentType ==
  ASSUME EditTypes, NEW s \in StepRecord, NEW c, c = Current(s)
  PROVE  /\ c \in StepRecord /\ c.kind = s.kind
         /\ c.was.cloud = edit.cloud /\ c.was.pose = edit.pose
         /\ s.kind = "deletion" =>
              c.n = s.n /\ c.sel = s.sel /\ c.was.sel = s.was.sel
              /\ c.index = s.index /\ c.removed = s.removed
         /\ s.kind = "replace" => c.cloud = edit.cloud
         /\ s.kind = "volume" => c.pose = edit.pose
         /\ s.kind = "selection" => c.n = Len(edit.cloud) /\ c.sel = c.was.sel
<1>1. /\ edit.cloud \in Seq(Nat) /\ edit.pose \in Poses /\ edit.sel \in SUBSET Nat
      /\ Len(edit.cloud) \in Nat /\ edit.sel \subseteq 1 .. Len(edit.cloud)
  BY DEF EditTypes, EditState, EditFields
<1>3. CASE s.kind = "deletion"
  <2> DEFINE w == [cloud |-> edit.cloud, sel |-> s.was.sel, pose |-> edit.pose]
  <2>1. w \in [cloud : Seq(Nat), sel : SUBSET Nat, pose : Poses]
    BY <1>1, StepFields
  <2>2. w.cloud = edit.cloud /\ w.pose = edit.pose /\ w.sel = s.was.sel
    OBVIOUS
  <2>3. c = [s EXCEPT !.was = w]
    BY <1>3 DEF Current
  <2>4. s \in StepState
    BY DEF StepRecord
  <2> HIDE DEF w
  <2>5. c \in StepState
    BY <2>1, <2>3, <2>4 DEF StepState
  <2>6. /\ c.kind = s.kind /\ c.was = w /\ c.n = s.n /\ c.sel = s.sel
        /\ c.index = s.index /\ c.removed = s.removed
    BY <2>3, <2>4 DEF StepState
  <2>7. c \in StepRecord
    BY <2>5, <2>6, StepFields DEF StepRecord
  <2> QED
    BY <1>3, <2>2, <2>6, <2>7
<1>4. CASE s.kind = "replace"
  <2>1. c = Replace
    BY <1>4 DEF Current
  <2> QED
    BY <1>4, <2>1, ReplaceType
<1>5. CASE s.kind = "volume"
  <2>1. c = VolumePose
    BY <1>5 DEF Current
  <2> QED
    BY <1>5, <2>1, VolumeType
<1>6. CASE s.kind = "selection"
  <2>1. c = Selection(Len(edit.cloud), edit.sel)
    BY <1>6 DEF Current
  <2>2. edit.sel \in SUBSET (1 .. Len(edit.cloud))
    BY <1>1
  <2> QED
    BY <1>1, <1>6, <2>1, <2>2, SelectionType
<1> QED
  BY <1>3, <1>4, <1>5, <1>6, StepFields

LEMMA ChainPush ==
  ASSUME NEW st \in Seq(StepRecord), NEW cloud, NEW back, Chain(st, cloud, back),
         NEW s \in StepRecord, s.was.cloud = cloud,
         NEW c, LeadsTo(s, c, back)
  PROVE  Append(st, s) \in Seq(StepRecord) /\ Chain(Append(st, s), c, back)
<1> DEFINE t == Append(st, s)
<1>1. /\ t \in Seq(StepRecord) /\ Len(t) = Len(st) + 1 /\ Len(st) \in Nat
      /\ \A i \in 1 .. Len(st) : t[i] = st[i]
      /\ t[Len(st) + 1] = s
  BY AppendProperties
<1> HIDE DEF t
<1>2. ASSUME NEW i \in 1 .. Len(t)
      PROVE  LeadsTo(t[i], IF i = Len(t) THEN c ELSE t[i + 1].was.cloud, back)
  <2>1. CASE i = Len(t)
    <3>1. t[i] = s
      BY <1>1, <2>1
    <3> QED
      BY <2>1, <3>1
  <2>2. CASE i = Len(st)
    <3>1. i \in 1 .. Len(st) /\ i # Len(t) /\ t[i] = st[i] /\ t[i + 1] = s
      BY <1>1, <2>2
    <3>2. LeadsTo(st[i], cloud, back)
      BY <2>2, <3>1 DEF Chain
    <3> QED
      BY <3>1, <3>2
  <2>3. CASE i # Len(t) /\ i # Len(st)
    <3>1. i \in 1 .. Len(st) /\ i + 1 \in 1 .. Len(st)
      BY <1>1, <2>3
    <3>2. t[i] = st[i] /\ t[i + 1] = st[i + 1]
      BY <1>1, <3>1
    <3>3. LeadsTo(st[i], st[i + 1].was.cloud, back)
      BY <2>3, <3>1 DEF Chain
    <3> QED
      BY <2>3, <3>2, <3>3
  <2> QED
    BY <2>1, <2>2, <2>3
<1>3. Chain(t, c, back)
  BY <1>2 DEF Chain
<1> QED
  BY <1>1, <1>3 DEF t

LEMMA ChainPop ==
  ASSUME NEW st \in Seq(StepRecord), st # <<>>, NEW cloud, NEW back
  PROVE  /\ Last(st) \in StepRecord /\ Front(st) \in Seq(StepRecord)
         /\ Chain(st, cloud, back) =>
              /\ LeadsTo(Last(st), cloud, back)
              /\ Chain(Front(st), Last(st).was.cloud, back)
<1> DEFINE n == Len(st)
           f == Front(st)
<1>1. n \in Nat /\ n >= 1 /\ n \in 1 .. n
  BY EmptySeq
<1>2. Last(st) = st[n] /\ st[n] \in StepRecord
  BY <1>1, ElementOfSeq DEF Last
<1>3. f \in Seq(StepRecord) /\ Len(f) = n - 1 /\ \A i \in 1 .. n - 1 : f[i] = st[i]
  <2>1. \A i \in 1 .. n - 1 : st[i] \in StepRecord
    <3>1. \A i \in 1 .. n - 1 : i \in 1 .. n
      BY <1>1
    <3> QED
      BY <3>1, ElementOfSeq
  <2>2. 1 \in Int /\ n - 1 \in Int /\ (n - 1) - 1 + 1 = n - 1 /\ (~ (1 <= n - 1) => n - 1 = 0)
    <3> HIDE DEF n, f
    <3> QED BY <1>1
  <2>3. /\ SubSeq(st, 1, n - 1) \in Seq(StepRecord)
        /\ Len(SubSeq(st, 1, n - 1)) = IF 1 <= n - 1 THEN (n - 1) - 1 + 1 ELSE 0
        /\ \A i \in 1 .. (n - 1) - 1 + 1 : SubSeq(st, 1, n - 1)[i] = st[1 + i - 1]
    <3> HIDE DEF n
    <3> QED BY <2>1, <2>2, SubSeqProperties
  <2>4. \A i \in 1 .. n - 1 : 1 + i - 1 = i
    OBVIOUS
  <2> QED
    BY <2>2, <2>3, <2>4 DEF Front
<1>4. ASSUME Chain(st, cloud, back)
      PROVE  LeadsTo(st[n], cloud, back) /\ Chain(f, st[n].was.cloud, back)
  <2>1. LeadsTo(st[n], cloud, back)
    BY <1>1, <1>4 DEF Chain
  <2>2. ASSUME NEW i \in 1 .. Len(f)
        PROVE  LeadsTo(f[i], IF i = Len(f) THEN st[n].was.cloud ELSE f[i + 1].was.cloud, back)
    <3> HIDE DEF f
    <3>1. i \in 1 .. n /\ i # n /\ i \in 1 .. n - 1
          /\ (i = Len(f) => i + 1 = n) /\ (i # Len(f) => i + 1 \in 1 .. n - 1)
      BY <1>1, <1>3
    <3>2. LeadsTo(st[i], st[i + 1].was.cloud, back)
      BY <1>4, <3>1 DEF Chain
    <3>3. f[i] = st[i] /\ (i # Len(f) => f[i + 1] = st[i + 1])
      BY <1>3, <3>1
    <3> QED
      BY <3>1, <3>2, <3>3
  <2> QED
    BY <2>1, <2>2 DEF Chain
<1> QED
  BY <1>2, <1>3, <1>4

\* Dropping the oldest step.
LEMMA ChainTail ==
  ASSUME NEW st \in Seq(StepRecord), st # <<>>, NEW cloud, NEW back
  PROVE  /\ Tail(st) \in Seq(StepRecord)
         /\ Chain(st, cloud, back) => Chain(Tail(st), cloud, back)
<1> DEFINE t == Tail(st)
<1>1. t \in Seq(StepRecord) /\ Len(t) = Len(st) - 1 /\ \A i \in 1 .. Len(t) : t[i] = st[i + 1]
  BY HeadTailProperties
<1>2. Len(st) \in Nat /\ Len(t) \in Nat
  BY <1>1
<1>3. ASSUME Chain(st, cloud, back), NEW i \in 1 .. Len(t)
      PROVE  LeadsTo(t[i], IF i = Len(t) THEN cloud ELSE t[i + 1].was.cloud, back)
  <2> HIDE DEF t
  <2>1. i + 1 \in 1 .. Len(st) /\ (i = Len(t) <=> i + 1 = Len(st))
        /\ (i # Len(t) => i + 1 \in 1 .. Len(t))
    BY <1>1, <1>2
  <2>2. LeadsTo(st[i + 1], IF i + 1 = Len(st) THEN cloud ELSE st[(i + 1) + 1].was.cloud, back)
    BY <1>3, <2>1 DEF Chain
  <2>3. t[i] = st[i + 1] /\ (i # Len(t) => t[i + 1] = st[(i + 1) + 1])
    BY <1>1, <2>1
  <2> QED
    BY <2>1, <2>2, <2>3
<1>4. Chain(st, cloud, back) => Chain(t, cloud, back)
  <2> HIDE DEF t
  <2> QED BY <1>3 DEF Chain
<1> QED
  BY <1>1, <1>4

LEMMA Pushes ==
  ASSUME EditTypes, NEW s \in StepRecord, PushUndo(s)
  PROVE  /\ undo_' \in Seq(StepRecord) /\ redo_' \in Seq(StepRecord) /\ redo_' = <<>>
         /\ \A c : /\ Chain(undo_, edit.cloud, TRUE)
                      /\ s.was.cloud = edit.cloud /\ LeadsTo(s, c, TRUE)
                      => Chain(undo_', c, TRUE) /\ Chain(redo_', c, FALSE)
<1> DEFINE t == Append(undo_, s)
<1>1. undo_ \in Seq(StepRecord)
  BY DEF EditTypes
<1>2. t \in Seq(StepRecord) /\ t # <<>>
  BY <1>1, AppendProperties
<1>3. undo_' \in {t, Tail(t)} /\ redo_' = <<>>
  BY DEF PushUndo
<1>4. <<>> \in Seq(StepRecord) /\ \A c : Chain(<<>>, c, FALSE)
  BY DEF Chain
<1>5. undo_' \in Seq(StepRecord)
  <2> HIDE DEF t
  <2> QED BY <1>2, <1>3, ChainTail
<1>6. ASSUME NEW c, Chain(undo_, edit.cloud, TRUE),
             s.was.cloud = edit.cloud, LeadsTo(s, c, TRUE)
      PROVE  Chain(undo_', c, TRUE)
  <2>1. Chain(t, c, TRUE)
    BY <1>1, <1>6, ChainPush
  <2>2. Chain(Tail(t), c, TRUE)
    <3> HIDE DEF t
    <3> QED BY <1>2, <2>1, ChainTail
  <2> QED
    BY <1>3, <2>1, <2>2
<1> QED
  BY <1>3, <1>4, <1>5, <1>6

LEMMA SelectedType ==
  ASSUME NEW e \in EditState, NEW sel, sel \subseteq DOMAIN e.cloud, NEW p, p = [e EXCEPT !.sel = sel]
  PROVE  /\ p \in EditState /\ p.cloud = e.cloud /\ p.sel = sel
         /\ p.pose = e.pose /\ p.dirty = e.dirty /\ p.rev = e.rev /\ p.stroke = e.stroke
<1>1. e \in EditFields /\ e.cloud \in Seq(Nat)
  BY DEF EditState, EditFields
<1>2. sel \in SUBSET Nat
  BY <1>1, PickType
<1>3. p \in EditFields
  BY <1>1, <1>2 DEF EditFields
<1>4. /\ p.cloud = e.cloud /\ p.sel = sel
      /\ p.pose = e.pose /\ p.dirty = e.dirty /\ p.rev = e.rev /\ p.stroke = e.stroke
  BY <1>1 DEF EditFields
<1> QED
  BY <1>3, <1>4 DEF EditState

LEMMA PosedType ==
  ASSUME NEW e \in EditState, NEW pose \in Poses, NEW p, p = [e EXCEPT !.pose = pose]
  PROVE  /\ p \in EditState /\ p.cloud = e.cloud /\ p.sel = e.sel
         /\ p.pose = pose /\ p.dirty = e.dirty /\ p.rev = e.rev /\ p.stroke = e.stroke
<1>1. e \in EditFields
  BY DEF EditState
<1>2. p \in EditFields
  BY <1>1 DEF EditFields
<1>3. /\ p.cloud = e.cloud /\ p.sel = e.sel
      /\ p.pose = pose /\ p.dirty = e.dirty /\ p.rev = e.rev /\ p.stroke = e.stroke
  BY <1>1 DEF EditFields
<1> QED
  BY <1>2, <1>3 DEF EditState

\* What a deletion records.
LEMMA DeletionType ==
  ASSUME EditTypes, NEW s, s = Deletion
  PROVE  /\ s \in StepRecord /\ s.kind = "deletion"
         /\ s.was.cloud = edit.cloud /\ s.was.pose = edit.pose /\ s.sel = edit.sel
         /\ s.was.sel = edit.sel /\ s.n = Len(edit.cloud)
         /\ Range(s.index) = edit.sel
         /\ Splice(Kept(edit.cloud, edit.sel), s.index, s.removed) = edit.cloud
<1> DEFINE cloud == edit.cloud
           sel == edit.sel
           nil == <<>>
           kind == "deletion"
           n == Len(cloud)
<1>1. /\ cloud \in Seq(Nat) /\ n \in Nat /\ DOMAIN cloud = 1 .. n
      /\ sel \in SUBSET DOMAIN cloud /\ sel \in SUBSET Nat /\ nil \in Seq(Nat)
      /\ kind \in {"selection", "deletion", "volume", "replace"} /\ sel \subseteq 1 .. n
  BY DEF EditTypes, EditState, EditFields
<1> DEFINE index == Sorted(sel)
           removed == Pick(cloud, sel)
<1>2. s = Step(kind, n, sel, index, removed, nil)
  BY DEF Deletion
<1> HIDE DEF cloud, sel, nil, kind, n
<1>3. /\ index \in Seq(Nat \ {0}) /\ removed \in Seq(Nat) /\ Len(index) = Len(removed)
      /\ Range(index) = sel
  BY <1>1, PickType
<1>4. Splice(Kept(cloud, sel), index, removed) = cloud
  BY <1>1, Spliced
<1> HIDE DEF index, removed
<1>5. /\ s \in StepRecord /\ s.kind = kind /\ s.n = n /\ s.sel = sel
      /\ s.index = index /\ s.removed = removed
      /\ s.was.cloud = edit.cloud /\ s.was.sel = sel /\ s.was.pose = edit.pose
  <2>1. /\ sel \in SUBSET Nat /\ nil \in Seq(Nat) /\ n \in Nat
        /\ kind \in {"selection", "deletion", "volume", "replace"} /\ sel \subseteq 1 .. n
    BY <1>1
  <2>2. index \in Seq(Nat \ {0}) /\ removed \in Seq(Nat) /\ Len(index) = Len(removed)
    BY <1>3
  <2> QED
    BY <1>2, <2>1, <2>2, StepType
<1> QED
  BY <1>3, <1>4, <1>5 DEF cloud, sel, kind, n

-----------------------------------------------------------------------------
(* SplatEdit: keeping the parts of the invariant *)

LEMMA NoticedKept ==
  ASSUME EditTypes, Noticed, app' = app, Uses' = Uses,
         \/ "undo" \in Uses
         \/ edit'.cloud = edit.cloud /\ edit'.dirty = edit.dirty /\ edit'.rev = edit.rev
         \/ edit'.dirty = TRUE /\ edit'.rev = edit.rev + 1
  PROVE  Noticed'
<1>1. app.rev \in Nat /\ edit.rev \in Nat
  BY DEF EditTypes, AppState, EditState, EditFields
<1>2. CASE "undo" \in Uses
  BY <1>2 DEF Noticed
<1>3. CASE edit'.cloud = edit.cloud /\ edit'.dirty = edit.dirty /\ edit'.rev = edit.rev
  BY <1>3 DEF Noticed
<1>4. CASE edit'.dirty = TRUE /\ edit'.rev = edit.rev + 1
  <2>1. app.rev <= edit.rev => app.rev <= edit.rev + 1 /\ app.rev < edit.rev + 1
    BY <1>1
  <2> QED
    BY <1>4, <2>1 DEF Noticed
<1> QED
  BY <1>2, <1>3, <1>4

LEMMA RecordedKept ==
  ASSUME Recorded, edit'.cloud = edit.cloud, UNCHANGED <<undo_, redo_>>,
         simplify'.running => ~simplify'.applied,
         simplify'.runs = 0 => ~simplify'.running /\ ~simplify'.applied
  PROVE  Recorded'
BY DEF Recorded

LEMMA RecordedPush ==
  ASSUME EditTypes, Recorded, NEW s \in StepRecord, PushUndo(s),
         s.was.cloud = edit.cloud,
         LeadsTo(s, edit'.cloud, TRUE),
         simplify'.running => ~simplify'.applied,
         simplify'.runs = 0 => ~simplify'.running /\ ~simplify'.applied
  PROVE  Recorded'
<1>1. Chain(undo_, edit.cloud, TRUE)
  BY DEF Recorded
<1>2. Chain(undo_', edit'.cloud, TRUE) /\ Chain(redo_', edit'.cloud, FALSE)
  BY <1>1, Pushes
<1> QED
  BY <1>2 DEF Recorded

\* A step that leaves the model and the stacks.
LEMMA ModelKept ==
  ASSUME EditInv, Uses' = Uses, app' = app, simplify' \in SimplifyState, uses' \in Nat,
         UNCHANGED <<undo_, redo_>>, edit' \in EditState,
         edit'.cloud = edit.cloud,
         edit'.dirty = edit.dirty, edit'.rev = edit.rev,
         simplify'.runs <= 1 => simplify.runs <= 1,
         simplify.runs <= 1 /\ Recorded /\ simplify'.runs <= 1 =>
           /\ simplify'.running => ~simplify'.applied
           /\ simplify'.runs = 0 => ~simplify'.running /\ ~simplify'.applied
  PROVE  EditInv'
<1>1. EditTypes /\ Noticed /\ (simplify.runs <= 1 => Recorded)
  BY DEF EditInv
<1>2. EditTypes'
  BY <1>1 DEF EditTypes
<1>3. Noticed'
  BY <1>1, NoticedKept
<1>4. ASSUME simplify'.runs <= 1 PROVE Recorded'
  BY <1>1, <1>4, RecordedKept
<1> QED
  BY <1>2, <1>3, <1>4 DEF EditInv

\* A change of the selection that can be undone.
LEMMA SelectionPushed ==
  ASSUME EditInv, Uses' = Uses, app' = app, simplify' = simplify, uses' \in Nat,
         edit' \in EditState, edit'.cloud = edit.cloud,
         edit'.dirty = edit.dirty, edit'.rev = edit.rev,
         NEW sel \in SUBSET (1 .. Len(edit.cloud)),
         PushUndo(Selection(Len(edit.cloud), sel))
  PROVE  EditInv'
<1>1. EditTypes /\ Noticed /\ (simplify.runs <= 1 => Recorded)
  BY DEF EditInv
<1> DEFINE s == Selection(Len(edit.cloud), sel)
           n == Len(edit.cloud)
<1>2. n \in Nat
  BY <1>1 DEF EditTypes, EditState, EditFields
<1>3. s = Selection(n, sel) /\ PushUndo(s) /\ sel \in SUBSET (1 .. n)
  OBVIOUS
<1> HIDE DEF s, n
<1>4. /\ s \in StepRecord /\ s.kind = "selection" /\ s.n = n /\ s.sel = sel
      /\ s.was.cloud = edit.cloud /\ s.was.sel = sel /\ s.was.pose = edit.pose
  BY <1>1, <1>2, <1>3, SelectionType
<1>5. EditTypes'
  BY <1>1, <1>3, <1>4, Pushes DEF EditTypes
<1>6. Noticed'
  BY <1>1, NoticedKept
<1>7. ASSUME simplify.runs <= 1 PROVE Recorded'
  <2>1. LeadsTo(s, edit'.cloud, TRUE)
    BY <1>4 DEF LeadsTo, n
  <2>2. /\ simplify'.running => ~simplify'.applied
        /\ simplify'.runs = 0 => ~simplify'.running /\ ~simplify'.applied
    BY <1>1, <1>7 DEF Recorded
  <2> QED
    BY <1>1, <1>3, <1>4, <1>7, <2>1, <2>2, RecordedPush
<1> QED
  BY <1>5, <1>6, <1>7 DEF EditInv


-----------------------------------------------------------------------------
(* SplatEdit: the steps *)

LEMMA Unfolded ==
  ASSUME EditInv
  PROVE  /\ EditTypes /\ Noticed /\ (simplify.runs <= 1 => Recorded)
         /\ edit \in EditState /\ edit.cloud \in Seq(Nat) /\ Len(edit.cloud) \in Nat
         /\ DOMAIN edit.cloud = 1 .. Len(edit.cloud) /\ edit.sel \in SUBSET (1 .. Len(edit.cloud))
         /\ edit.pose \in Poses /\ edit.rev \in Nat
         /\ undo_ \in Seq(StepRecord) /\ redo_ \in Seq(StepRecord)
         /\ simplify \in SimplifyState /\ simplify.runs \in Nat /\ app \in AppState /\ uses \in Nat
BY DEF EditInv, EditTypes, EditState, EditFields, SimplifyState

LEMMA SimplifyIdle ==
  ASSUME EditInv, UNCHANGED simplify
  PROVE  /\ simplify' \in SimplifyState /\ simplify'.runs = simplify.runs
         /\ Recorded => /\ simplify'.running => ~simplify'.applied
                        /\ simplify'.runs = 0 => ~simplify'.running /\ ~simplify'.applied
BY Unfolded DEF Recorded

LEMMA MenuStep ==
  ASSUME EditInv, UNCHANGED Uses, Menu
  PROVE  EditInv'
<1>1. PICK sel \in {{}, All(edit.cloud), All(edit.cloud) \ edit.sel} : edit' = [edit EXCEPT !.sel = sel]
  BY DEF Menu
<1>2. sel \in SUBSET DOMAIN edit.cloud
  BY <1>1 DEF All
<1>3. /\ edit' \in EditState /\ edit'.cloud = edit.cloud
      /\ edit'.pose = edit.pose /\ edit'.dirty = edit.dirty /\ edit'.rev = edit.rev
  <2>1. edit \in EditState
    BY Unfolded
  <2> QED
    BY <1>1, <1>2, <2>1, SelectedType
<1>4. /\ PushUndo(Selection(Len(edit.cloud), edit.sel)) /\ app' = app /\ simplify' = simplify
      /\ uses' \in Nat
  BY Unfolded DEF Menu, Use
<1> QED
  BY <1>3, <1>4, Unfolded, SelectionPushed

LEMMA VolumeStep ==
  ASSUME EditInv, UNCHANGED Uses, NEW S \in Regions, Volume(S)
  PROVE  EditInv'
<1>1. S \in SUBSET DOMAIN edit.cloud
  BY DEF Regions, All
<1>2. /\ edit' = [edit EXCEPT !.sel = S] /\ PushUndo(Selection(Len(edit.cloud), edit.sel))
      /\ app' = app /\ simplify' = simplify /\ uses' \in Nat
  BY Unfolded DEF Volume, Use
<1>3. /\ edit' \in EditState /\ edit'.cloud = edit.cloud
      /\ edit'.pose = edit.pose /\ edit'.dirty = edit.dirty /\ edit'.rev = edit.rev
  <2>1. edit \in EditState
    BY Unfolded
  <2> QED
    BY <1>1, <1>2, <2>1, SelectedType
<1> QED
  BY <1>2, <1>3, Unfolded, SelectionPushed

LEMMA DragVolumeStep ==
  ASSUME EditInv, UNCHANGED Uses, DragVolume
  PROVE  EditInv'
<1> DEFINE s == VolumePose
           pose == 1 - edit.pose
<1>1. /\ edit' = [edit EXCEPT !.pose = pose] /\ PushUndo(s)
      /\ app' = app /\ simplify' = simplify /\ uses' \in Nat
  BY Unfolded DEF DragVolume, Use
<1>2. pose \in Poses
  BY Unfolded DEF Poses
<1>3. /\ s \in StepRecord /\ s.kind = "volume" /\ s.pose = edit.pose
      /\ s.was.cloud = edit.cloud /\ s.was.pose = edit.pose
  BY Unfolded, VolumeType
<1> HIDE DEF s, pose
<1>4. /\ edit' \in EditState /\ edit'.cloud = edit.cloud
      /\ edit'.dirty = edit.dirty /\ edit'.rev = edit.rev
  BY <1>1, <1>2, Unfolded, PosedType
<1>5. EditTypes'
  BY <1>1, <1>3, <1>4, Unfolded, Pushes DEF EditTypes
<1>6. Noticed'
  BY <1>1, <1>4, Unfolded, NoticedKept
<1>7. ASSUME simplify'.runs <= 1 PROVE Recorded'
  <2>1. LeadsTo(s, edit'.cloud, TRUE)
    BY <1>3, <1>4 DEF LeadsTo
  <2>2. Recorded
    BY <1>1, <1>7, Unfolded
  <2> QED
    BY <1>1, <1>3, <2>1, <2>2, Unfolded, SimplifyIdle, RecordedPush
<1> QED
  BY <1>5, <1>6, <1>7 DEF EditInv

LEMMA AdjustVolumeStep ==
  ASSUME EditInv, UNCHANGED Uses, AdjustVolume
  PROVE  EditInv'
<1> DEFINE pose == 1 - edit.pose
<1>1. /\ edit' = [edit EXCEPT !.pose = pose] /\ UNCHANGED <<undo_, redo_, simplify, app>>
      /\ uses' \in Nat
  BY Unfolded DEF AdjustVolume, Use
<1>2. pose \in Poses
  BY Unfolded DEF Poses
<1> HIDE DEF pose
<1>3. /\ edit' \in EditState /\ edit'.cloud = edit.cloud
      /\ edit'.dirty = edit.dirty /\ edit'.rev = edit.rev
  BY <1>1, <1>2, Unfolded, PosedType
<1> QED
  BY <1>1, <1>3, Unfolded, SimplifyIdle, ModelKept

LEMMA StrokeSteps ==
  ASSUME EditInv, UNCHANGED Uses, BeginStroke \/ AbortStroke \/ \E S \in Regions : EndStroke(S)
  PROVE  EditInv'
<1> DEFINE Kept_(e) == /\ e \in EditState /\ e.cloud = edit.cloud
                       /\ e.pose = edit.pose /\ e.dirty = edit.dirty /\ e.rev = edit.rev
<1>1. edit \in EditFields /\ edit.stroke \in [on : BOOLEAN, n : Nat, sel : SUBSET Nat]
      /\ edit.stroke.sel \subseteq 1 .. edit.stroke.n
  BY Unfolded DEF EditState, EditFields
<1>2. ASSUME NEW sel \in SUBSET DOMAIN edit.cloud, NEW stroke, NEW e,
             stroke \in [on : BOOLEAN, n : Nat, sel : SUBSET Nat], stroke.sel \subseteq 1 .. stroke.n,
             e = [edit EXCEPT !.sel = sel, !.stroke = stroke]
      PROVE  Kept_(e)
  <2>1. sel \in SUBSET Nat
    BY <1>2, Unfolded
  <2>2. e \in EditFields
    BY <1>1, <1>2, <2>1 DEF EditFields
  <2>3. /\ e.cloud = edit.cloud /\ e.sel = sel /\ e.stroke = stroke
        /\ e.pose = edit.pose /\ e.dirty = edit.dirty /\ e.rev = edit.rev
    BY <1>1, <1>2 DEF EditFields
  <2> QED
    BY <1>2, <2>2, <2>3 DEF EditState
<1>3. NoStroke \in [on : BOOLEAN, n : Nat, sel : SUBSET Nat] /\ NoStroke.sel \subseteq 1 .. NoStroke.n
  BY DEF NoStroke
<1>4. ASSUME Kept_(edit'), UNCHANGED <<undo_, redo_, simplify, app>>, uses' \in Nat
      PROVE  EditInv'
  BY <1>4, Unfolded, SimplifyIdle, ModelKept
<1>5. CASE BeginStroke
  <2> DEFINE stroke == [on |-> TRUE, n |-> Len(edit.cloud), sel |-> edit.sel]
  <2>1. edit' = [edit EXCEPT !.stroke = stroke]
    BY <1>5 DEF BeginStroke
  <2>2. stroke \in [on : BOOLEAN, n : Nat, sel : SUBSET Nat] /\ stroke.sel \subseteq 1 .. stroke.n
    BY Unfolded
  <2>3. edit' = [edit EXCEPT !.sel = edit.sel, !.stroke = stroke]
    <3> HIDE DEF stroke
    <3> QED BY <1>1, <2>1 DEF EditFields
  <2>4. Kept_(edit')
    <3> HIDE DEF stroke, Kept_
    <3> QED BY <1>2, <2>2, <2>3, Unfolded
  <2>5. UNCHANGED <<undo_, redo_, simplify, app>> /\ uses' \in Nat
    BY <1>5, Unfolded DEF BeginStroke, Use
  <2> HIDE DEF Kept_
  <2> QED
    BY <1>4, <2>4, <2>5
<1>6. CASE AbortStroke
  <2> DEFINE sel == IF edit.stroke.n = Len(edit.cloud) THEN edit.stroke.sel ELSE edit.sel
  <2>1. edit' = [edit EXCEPT !.sel = sel, !.stroke = NoStroke]
    <3>1. edit' = [edit EXCEPT !.stroke = NoStroke,
                               !.sel = IF edit.stroke.n = Len(edit.cloud)
                                       THEN edit.stroke.sel ELSE edit.sel]
      BY <1>6 DEF AbortStroke
    <3>2. edit' = [edit EXCEPT !.stroke = NoStroke, !.sel = sel]
      BY <3>1
    <3> HIDE DEF sel
    <3> QED BY <1>1, <3>2 DEF EditFields
  <2>2. sel \in SUBSET DOMAIN edit.cloud
    BY <1>1, Unfolded
  <2>3. Kept_(edit')
    <3> HIDE DEF sel, Kept_
    <3> QED BY <1>2, <1>3, <2>1, <2>2
  <2>4. UNCHANGED <<undo_, redo_, simplify, app>> /\ uses' \in Nat
    BY <1>6, Unfolded DEF AbortStroke
  <2> HIDE DEF Kept_
  <2> QED
    BY <1>4, <2>3, <2>4
<1>7. ASSUME NEW S \in Regions, EndStroke(S) PROVE EditInv'
  <2>1. S \in SUBSET DOMAIN edit.cloud
    BY <1>7 DEF Regions, All
  <2>2. edit' = [edit EXCEPT !.sel = S, !.stroke = NoStroke]
        /\ UNCHANGED <<simplify, app, uses>> /\ uses' \in Nat
    BY <1>7, Unfolded DEF EndStroke
  <2>3. Kept_(edit')
    <3> HIDE DEF Kept_
    <3> QED BY <1>2, <1>3, <2>1, <2>2
  <2>4. CASE edit.stroke.n = Len(edit.cloud) /\ edit.stroke.sel # S
    <3>1. PushUndo(Selection(Len(edit.cloud), edit.stroke.sel))
      BY <1>7, <2>4 DEF EndStroke
    <3>2. edit.stroke.sel \in SUBSET (1 .. Len(edit.cloud))
      BY <1>1, <2>4
    <3> QED
      BY <2>2, <2>3, <3>1, <3>2, SelectionPushed
  <2>5. CASE ~ (edit.stroke.n = Len(edit.cloud) /\ edit.stroke.sel # S)
    <3>1. UNCHANGED <<undo_, redo_>>
      BY <1>7, <2>5 DEF EndStroke
    <3> HIDE DEF Kept_
    <3> QED BY <1>4, <2>2, <2>3, <3>1
  <2> QED
    BY <2>4, <2>5
<1> QED
  BY <1>5, <1>6, <1>7

LEMMA DeleteSelectedStep ==
  ASSUME EditInv, UNCHANGED Uses, DeleteSelected
  PROVE  EditInv'
<1> DEFINE S == edit.sel
           less == Kept(edit.cloud, S)
           p == Put(edit, less, {})
           s == Deletion
<1>1. /\ edit' = Edited(p) /\ PushUndo(s) /\ app' = app /\ simplify' = simplify /\ uses' \in Nat
  BY Unfolded DEF DeleteSelected, Use
<1>2. S \in SUBSET DOMAIN edit.cloud /\ edit \in EditState
  BY Unfolded
<1>3. /\ p \in EditState /\ p.cloud = less /\ p.pose = edit.pose /\ p.rev = edit.rev
  <2> HIDE DEF S
  <2> QED BY <1>2, EraseType
<1>4. /\ s \in StepRecord /\ s.kind = "deletion"
      /\ s.was.cloud = edit.cloud /\ s.was.pose = edit.pose /\ s.sel = S
      /\ s.was.sel = S /\ s.n = Len(edit.cloud) /\ Range(s.index) = S
      /\ Splice(less, s.index, s.removed) = edit.cloud
  BY Unfolded, DeletionType
<1> HIDE DEF p, s, S
<1>5. /\ edit' \in EditState /\ edit'.cloud = less /\ edit'.pose = edit.pose
      /\ edit'.dirty = TRUE /\ edit'.rev = edit.rev + 1
  BY <1>1, <1>3, EditedType
<1>6. EditTypes'
  BY <1>1, <1>4, <1>5, Unfolded, Pushes DEF EditTypes
<1>7. Noticed'
  BY <1>1, <1>5, Unfolded, NoticedKept
<1>8. ASSUME simplify'.runs <= 1 PROVE Recorded'
  <2>1. Range(s.index) \cap DOMAIN edit.cloud = S
    BY <1>2, <1>4
  <2>2. LeadsTo(s, edit'.cloud, TRUE)
    <3> HIDE DEF less
    <3>1. Kept(edit.cloud, Range(s.index) \cap DOMAIN edit.cloud) = less
      BY <2>1 DEF less
    <3> QED
      BY <1>4, <1>5, <3>1 DEF LeadsTo
  <2>3. Recorded
    BY <1>1, <1>8, Unfolded
  <2> QED
    BY <1>1, <1>4, <2>2, <2>3, Unfolded, SimplifyIdle, RecordedPush
<1> QED
  BY <1>6, <1>7, <1>8 DEF EditInv

\* A refused deletion leaves the model as it was.
LEMMA DeletionRefused ==
  ASSUME EditTypes, DeleteFails
  PROVE  /\ edit' \in EditState /\ edit'.cloud = edit.cloud /\ edit'.sel = edit.sel
         /\ edit'.pose = edit.pose /\ edit'.dirty = edit.dirty /\ edit'.rev = edit.rev
         /\ UNCHANGED <<undo_, redo_, simplify, app>>
<1> DEFINE S == edit.sel
           less == Kept(edit.cloud, S)
           p == Put(edit, less, {})
           s == Deletion
<1>1. edit' = Reinsert(p, s) /\ UNCHANGED <<undo_, redo_, simplify, app>>
  BY DEF DeleteFails
<1>2. S \in SUBSET DOMAIN edit.cloud /\ edit \in EditState
  BY DEF EditTypes, EditState
<1>3. /\ p \in EditState /\ p.cloud = less /\ p.pose = edit.pose
      /\ p.dirty = edit.dirty /\ p.rev = edit.rev
  <2> HIDE DEF S
  <2> QED BY <1>2, EraseType
<1>4. /\ s \in StepRecord /\ s.kind = "deletion" /\ s.sel = S /\ s.n = Len(edit.cloud)
      /\ Splice(less, s.index, s.removed) = edit.cloud
  BY DeletionType
<1> HIDE DEF p, s, S, less
<1>5. /\ edit' \in EditState /\ edit'.cloud = Splice(p.cloud, s.index, s.removed)
      /\ edit'.sel = (IF s.n = Len(edit'.cloud) THEN s.sel ELSE {})
      /\ edit'.pose = p.pose /\ edit'.dirty = p.dirty /\ edit'.rev = p.rev
  BY <1>1, <1>3, <1>4, ReinsertType
<1>6. edit'.cloud = edit.cloud
  BY <1>3, <1>4, <1>5
<1>7. edit'.sel = edit.sel
  BY <1>4, <1>5, <1>6 DEF S
<1> QED
  BY <1>1, <1>3, <1>5, <1>6, <1>7

LEMMA DeleteFailsStep ==
  ASSUME EditInv, UNCHANGED Uses, DeleteFails
  PROVE  EditInv'
<1>1. uses' \in Nat
  BY Unfolded DEF DeleteFails, Use
<1> QED
  BY <1>1, Unfolded, DeletionRefused, SimplifyIdle, ModelKept

-----------------------------------------------------------------------------
(* SplatEdit: undo and redo *)

\* What undo (back) or redo does to the model.
Taken(s, back, threw) ==
  CASE s.kind = "deletion"  -> IF back THEN Reinsert(edit, s)
                               ELSE Marked(EraseRecorded(edit, s), threw)
    [] s.kind = "replace"   -> Marked(ApplyReplace(edit, s.cloud), threw)
    [] s.kind = "volume"    -> [edit EXCEPT !.pose = s.pose]
    [] s.kind = "selection" -> Restored(s)

LEMMA MarkedType ==
  ASSUME NEW e \in EditState, NEW threw, NEW p, p = Marked(e, threw)
  PROVE  p \in EditState /\ p.cloud = e.cloud
<1>1. CASE threw
  BY <1>1 DEF Marked
<1>2. CASE ~threw
  BY <1>2, EditedType DEF Marked
<1> QED
  BY <1>1, <1>2

LEMMA TakenType ==
  ASSUME EditTypes, NEW s \in StepRecord, NEW back \in BOOLEAN, NEW threw,
         NEW p, p = Taken(s, back, threw)
  PROVE  /\ p \in EditState
         /\ LeadsTo(s, edit.cloud, back) =>
              /\ p.cloud = s.was.cloud
              /\ s.kind = "volume" => p.pose = s.was.pose
              /\ s.kind = "selection" => p.sel = s.was.sel
              /\ s.kind = "deletion" /\ back => p.sel = s.was.sel
<1>1. edit \in EditState /\ edit.cloud \in Seq(Nat)
  BY DEF EditTypes, EditState, EditFields
<1>2. CASE s.kind = "deletion" /\ back
  <2>1. p = Reinsert(edit, s)
    BY <1>2 DEF Taken
  <2>2. /\ p \in EditState /\ p.cloud = Splice(edit.cloud, s.index, s.removed)
        /\ p.sel = (IF s.n = Len(p.cloud) THEN s.sel ELSE {})
    BY <1>1, <1>2, <2>1, ReinsertType
  <2>3. ASSUME LeadsTo(s, edit.cloud, back)
        PROVE  p.cloud = s.was.cloud /\ p.sel = s.was.sel
    <3>1. /\ Splice(edit.cloud, s.index, s.removed) = s.was.cloud
          /\ s.n = Len(s.was.cloud) /\ s.sel = s.was.sel
      BY <1>2, <2>3 DEF LeadsTo
    <3> QED
      BY <2>2, <3>1
  <2> QED
    BY <1>2, <2>2, <2>3
<1>3. CASE s.kind = "deletion" /\ ~back
  <2> DEFINE S == Range(s.index) \cap DOMAIN edit.cloud
             e == Put(edit, Kept(edit.cloud, S), {})
  <2>1. p = Marked(e, threw)
    BY <1>3 DEF Taken, EraseRecorded
  <2>2. S \in SUBSET DOMAIN edit.cloud
    OBVIOUS
  <2>3. e \in EditState /\ e.cloud = Kept(edit.cloud, S)
    <3> HIDE DEF S
    <3> QED BY <1>1, <2>2, EraseType
  <2> HIDE DEF e
  <2>4. p \in EditState /\ p.cloud = Kept(edit.cloud, S)
    BY <2>1, <2>3, MarkedType
  <2>5. ASSUME LeadsTo(s, edit.cloud, back)
        PROVE  p.cloud = s.was.cloud
    <3>1. Kept(edit.cloud, S) = s.was.cloud
      BY <1>3, <2>5 DEF LeadsTo
    <3> QED
      BY <2>4, <3>1
  <2> QED
    BY <1>3, <2>4, <2>5
<1>4. CASE s.kind = "replace"
  <2> DEFINE e == Put(edit, s.cloud, {})
  <2>1. p = Marked(e, threw)
    BY <1>4 DEF Taken, ApplyReplace
  <2>2. s.cloud \in Seq(Nat) /\ {} \in SUBSET DOMAIN s.cloud
    BY StepFields
  <2>3. e \in EditState /\ e.cloud = s.cloud
    BY <1>1, <2>2, PutType
  <2> HIDE DEF e
  <2>4. p \in EditState /\ p.cloud = e.cloud
    BY <2>1, <2>3, MarkedType
  <2>5. LeadsTo(s, edit.cloud, back) => s.cloud = s.was.cloud
    BY <1>4 DEF LeadsTo
  <2> QED
    BY <1>4, <2>3, <2>4, <2>5
<1>5. CASE s.kind = "volume"
  <2>1. p = [edit EXCEPT !.pose = s.pose] /\ s.pose \in Poses
    BY <1>5, StepFields DEF Taken
  <2>2. p \in EditState /\ p.cloud = edit.cloud /\ p.pose = s.pose
        /\ p.dirty = edit.dirty /\ p.rev = edit.rev
    BY <1>1, <2>1, PosedType
  <2>3. LeadsTo(s, edit.cloud, back) => s.pose = s.was.pose /\ s.was.cloud = edit.cloud
    BY <1>5 DEF LeadsTo
  <2> QED
    BY <1>5, <2>2, <2>3
<1>6. CASE s.kind = "selection"
  <2> DEFINE sel == IF s.n = Len(edit.cloud) THEN s.sel ELSE edit.sel
  <2>1. p = [edit EXCEPT !.sel = sel]
    BY <1>6 DEF Taken, Restored
  <2>2. sel \subseteq DOMAIN edit.cloud
    <3>1. DOMAIN edit.cloud = 1 .. Len(edit.cloud) /\ edit.sel \in SUBSET DOMAIN edit.cloud
      BY <1>1 DEF EditState
    <3> QED
      BY <1>6, <3>1, StepFields
  <2>3. /\ p \in EditState /\ p.cloud = edit.cloud /\ p.pose = edit.pose /\ p.sel = sel
        /\ p.dirty = edit.dirty /\ p.rev = edit.rev
    <3>1. edit \in EditState
      BY <1>1
    <3> HIDE DEF sel
    <3> QED BY <2>1, <2>2, <3>1, SelectedType
  <2>4. LeadsTo(s, edit.cloud, back) =>
          /\ s.was.cloud = edit.cloud
          /\ s.n = Len(edit.cloud) /\ s.sel = s.was.sel
    BY <1>6 DEF LeadsTo
  <2> QED
    BY <1>6, <2>3, <2>4
<1> QED
  BY <1>2, <1>3, <1>4, <1>5, <1>6, StepFields

\* The step for the other stack leads back.
LEMMA LeadsBack ==
  ASSUME EditTypes, NEW s \in StepRecord, NEW back \in BOOLEAN, NEW c, c = Current(s),
         LeadsTo(s, edit.cloud, back)
  PROVE  LeadsTo(c, s.was.cloud, ~back)
<1>1. /\ c.kind = s.kind /\ c.was.cloud = edit.cloud /\ c.was.pose = edit.pose
      /\ s.kind = "deletion" =>
           c.n = s.n /\ c.sel = s.sel /\ c.was.sel = s.was.sel
           /\ c.index = s.index /\ c.removed = s.removed
      /\ s.kind = "replace" => c.cloud = edit.cloud
      /\ s.kind = "volume" => c.pose = edit.pose
      /\ s.kind = "selection" => c.n = Len(edit.cloud) /\ c.sel = c.was.sel
  BY CurrentType
<1>2. CASE s.kind = "deletion"
  <2>1. CASE back
    BY <1>1, <1>2, <2>1 DEF LeadsTo
  <2>2. CASE ~back
    BY <1>1, <1>2, <2>2 DEF LeadsTo
  <2> QED
    BY <2>1, <2>2
<1>3. CASE s.kind = "replace"
  BY <1>1, <1>3 DEF LeadsTo
<1>4. CASE s.kind = "volume"
  BY <1>1, <1>4 DEF LeadsTo
<1>5. CASE s.kind = "selection"
  BY <1>1, <1>5 DEF LeadsTo
<1> QED
  BY <1>2, <1>3, <1>4, <1>5, StepFields

\* Undo takes a step from undo_, redo one from redo_, and puts one on the other stack.
LEMMA Travels ==
  ASSUME EditTypes, NEW from \in Seq(StepRecord), from # <<>>, NEW to \in Seq(StepRecord),
         NEW back \in BOOLEAN, NEW threw, NEW p, p = Taken(Last(from), back, threw)
  PROVE  /\ p \in EditState /\ Last(from) \in StepRecord
         /\ Front(from) \in Seq(StepRecord) /\ Append(to, Current(Last(from))) \in Seq(StepRecord)
         /\ Chain(from, edit.cloud, back) /\ Chain(to, edit.cloud, ~back) =>
              /\ Restores(Last(from), p)
              /\ Last(from).kind = "deletion" /\ back => p.sel = Last(from).was.sel
              /\ Chain(Front(from), p.cloud, back)
              /\ Chain(Append(to, Current(Last(from))), p.cloud, ~back)
<1> DEFINE s == Last(from)
           c == Current(s)
<1>1. /\ s \in StepRecord /\ Front(from) \in Seq(StepRecord)
      /\ Chain(from, edit.cloud, back) =>
           /\ LeadsTo(s, edit.cloud, back)
           /\ Chain(Front(from), s.was.cloud, back)
  BY ChainPop
<1> HIDE DEF s
<1>2. c \in StepRecord /\ c.was.cloud = edit.cloud /\ c.was.pose = edit.pose
  BY <1>1, CurrentType
<1>3. /\ p \in EditState
      /\ LeadsTo(s, edit.cloud, back) =>
           /\ p.cloud = s.was.cloud /\ (s.kind = "volume" => p.pose = s.was.pose)
           /\ s.kind = "selection" => p.sel = s.was.sel
           /\ s.kind = "deletion" /\ back => p.sel = s.was.sel
  BY <1>1, TakenType DEF s
<1>4. LeadsTo(s, edit.cloud, back) => LeadsTo(c, s.was.cloud, ~back)
  BY <1>1, LeadsBack
<1> HIDE DEF c
<1>5. Append(to, c) \in Seq(StepRecord)
  BY <1>2, AppendProperties
<1>6. ASSUME Chain(from, edit.cloud, back), Chain(to, edit.cloud, ~back)
      PROVE  /\ Restores(s, p) /\ (s.kind = "deletion" /\ back => p.sel = s.was.sel)
             /\ Chain(Front(from), p.cloud, back)
             /\ Chain(Append(to, c), p.cloud, ~back)
  <2>1. /\ LeadsTo(s, edit.cloud, back)
        /\ Chain(Front(from), s.was.cloud, back)
    BY <1>1, <1>6
  <2>2. /\ p.cloud = s.was.cloud /\ (s.kind = "volume" => p.pose = s.was.pose)
        /\ s.kind = "selection" => p.sel = s.was.sel
        /\ s.kind = "deletion" /\ back => p.sel = s.was.sel
    BY <1>3, <2>1
  <2>3. Chain(Append(to, c), s.was.cloud, ~back)
    BY <1>2, <1>4, <1>6, <2>1, ChainPush
  <2>4. Restores(s, p)
    BY <2>2 DEF Restores
  <2> QED
    BY <2>1, <2>2, <2>3, <2>4
<1> QED
  BY <1>1, <1>3, <1>5, <1>6 DEF s, c

LEMMA UndoStep ==
  ASSUME EditInv, UNCHANGED Uses, Undo
  PROVE  /\ EditInv'
         /\ simplify.runs <= 1 => /\ Restores(Last(undo_), edit')
                                  /\ Last(undo_).kind = "deletion" => edit'.sel = Last(undo_).was.sel
<1>1. PICK threw \in {FALSE, "refuse" \in Uses} : LET s == Last(undo_) IN
         edit' = CASE s.kind = "deletion"  -> Reinsert(edit, s)
                   [] s.kind = "replace"   -> Marked(ApplyReplace(edit, s.cloud), threw)
                   [] s.kind = "volume"    -> [edit EXCEPT !.pose = s.pose]
                   [] s.kind = "selection" -> Restored(s)
  BY DEF Undo
<1>a. edit' = Taken(Last(undo_), TRUE, threw)
  BY <1>1 DEF Taken
<1>2. /\ undo_ # <<>> /\ undo_' = Front(undo_)
      /\ redo_' = Append(redo_, Current(Last(undo_)))
      /\ app' = app /\ simplify' = simplify /\ "undo" \in Uses /\ uses' \in Nat
  BY Unfolded DEF Undo, Use
<1>3. /\ edit' \in EditState /\ undo_' \in Seq(StepRecord) /\ redo_' \in Seq(StepRecord)
      /\ Chain(undo_, edit.cloud, TRUE) /\ Chain(redo_, edit.cloud, FALSE) =>
           /\ Restores(Last(undo_), edit')
           /\ Last(undo_).kind = "deletion" => edit'.sel = Last(undo_).was.sel
           /\ Chain(undo_', edit'.cloud, TRUE)
           /\ Chain(redo_', edit'.cloud, FALSE)
  BY <1>a, <1>2, Unfolded, Travels
<1>4. EditTypes'
  BY <1>2, <1>3, Unfolded DEF EditTypes
<1>5. Noticed'
  BY <1>2, Unfolded, NoticedKept
<1>6. ASSUME simplify.runs <= 1
      PROVE  /\ Recorded' /\ Restores(Last(undo_), edit')
             /\ Last(undo_).kind = "deletion" => edit'.sel = Last(undo_).was.sel
  <2>1. Recorded
    BY <1>6, Unfolded
  <2> QED
    BY <1>2, <1>3, <2>1 DEF Recorded
<1> QED
  BY <1>2, <1>4, <1>5, <1>6 DEF EditInv

LEMMA RedoStep ==
  ASSUME EditInv, UNCHANGED Uses, Redo
  PROVE  EditInv' /\ (simplify.runs <= 1 => Restores(Last(redo_), edit'))
<1>1. PICK threw \in {FALSE, "refuse" \in Uses} : LET s == Last(redo_) IN
         edit' = CASE s.kind = "deletion"  -> Marked(EraseRecorded(edit, s), threw)
                   [] s.kind = "replace"   -> Marked(ApplyReplace(edit, s.cloud), threw)
                   [] s.kind = "volume"    -> [edit EXCEPT !.pose = s.pose]
                   [] s.kind = "selection" -> Restored(s)
  BY DEF Redo
<1>a. edit' = Taken(Last(redo_), FALSE, threw)
  BY <1>1 DEF Taken
<1>2. /\ redo_ # <<>> /\ redo_' = Front(redo_)
      /\ undo_' = Append(undo_, Current(Last(redo_)))
      /\ app' = app /\ simplify' = simplify /\ "undo" \in Uses /\ uses' \in Nat
  BY Unfolded DEF Redo, Use, EditTypes
<1>3. /\ edit' \in EditState /\ undo_' \in Seq(StepRecord) /\ redo_' \in Seq(StepRecord)
      /\ Chain(redo_, edit.cloud, FALSE) /\ Chain(undo_, edit.cloud, TRUE) =>
           /\ Restores(Last(redo_), edit')
           /\ Chain(redo_', edit'.cloud, FALSE)
           /\ Chain(undo_', edit'.cloud, TRUE)
  BY <1>a, <1>2, Unfolded, Travels
<1>4. EditTypes'
  BY <1>2, <1>3, Unfolded DEF EditTypes
<1>5. Noticed'
  BY <1>2, Unfolded, NoticedKept
<1>6. ASSUME simplify.runs <= 1 PROVE Recorded' /\ Restores(Last(redo_), edit')
  <2>1. Recorded
    BY <1>6, Unfolded
  <2> QED
    BY <1>2, <1>3, <2>1 DEF Recorded
<1> QED
  BY <1>2, <1>4, <1>5, <1>6 DEF EditInv

-----------------------------------------------------------------------------
(* SplatEdit: Simplify and the project *)

LEMMA SimplifyFields ==
  ASSUME simplify \in SimplifyState
  PROVE  /\ simplify.running \in BOOLEAN /\ simplify.has_baseline \in BOOLEAN
         /\ simplify.applied \in BOOLEAN /\ simplify.baseline \in Seq(Nat) /\ simplify.runs \in Nat
BY DEF SimplifyState

LEMMA StartSimplifyStep ==
  ASSUME EditInv, UNCHANGED Uses, StartSimplify
  PROVE  EditInv'
<1> DEFINE runs == simplify.runs + 1
           baseline == IF simplify.has_baseline THEN simplify.baseline ELSE edit.cloud
<1>1. simplify' = [simplify EXCEPT !.running = TRUE, !.has_baseline = TRUE, !.runs = runs,
                                   !.baseline = baseline]
  BY DEF StartSimplify
<1>2. runs \in Nat /\ runs # 0 /\ (runs <= 1 => simplify.runs = 0) /\ baseline \in Seq(Nat)
  BY Unfolded, SimplifyFields
<1> HIDE DEF runs, baseline
<1>3. simplify' \in SimplifyState
  BY <1>1, <1>2, Unfolded DEF SimplifyState
<1>4. simplify'.runs = runs /\ simplify'.applied = simplify.applied
  BY <1>1, Unfolded DEF SimplifyState
<1>5. UNCHANGED <<edit, undo_, redo_, app>> /\ uses' \in Nat /\ ~simplify.running
  BY Unfolded DEF StartSimplify, Use
<1>6. Recorded /\ simplify'.runs <= 1 =>
        /\ simplify'.running => ~simplify'.applied
        /\ simplify'.runs = 0 => ~simplify'.running /\ ~simplify'.applied
  BY <1>2, <1>4 DEF Recorded
<1>7. simplify'.runs <= 1 => simplify.runs <= 1
  BY <1>2, <1>4, Unfolded
<1> QED
  BY <1>3, <1>5, <1>6, <1>7, Unfolded, ModelKept

LEMMA FinishSimplifyStep ==
  ASSUME EditInv, UNCHANGED Uses, FinishSimplify
  PROVE  EditInv'
<1>1. PICK S \in SUBSET DOMAIN simplify.baseline \ {{}} :
             edit' = Edited(ApplyReplace(edit, Pick(simplify.baseline, S)))
  BY DEF FinishSimplify
<1> DEFINE cloud == Pick(simplify.baseline, S)
           e == Put(edit, cloud, {})
           s == Replace
<1>2. edit' = Edited(e)
  BY <1>1 DEF ApplyReplace
<1>3. cloud \in Seq(Nat) /\ {} \in SUBSET DOMAIN cloud
  <2>1. S \in SUBSET DOMAIN simplify.baseline /\ simplify.baseline \in Seq(Nat)
    BY <1>1, Unfolded, SimplifyFields
  <2> QED
    BY <2>1, PickType
<1> HIDE DEF cloud
<1>4. e \in EditState /\ e.pose = edit.pose /\ e.rev = edit.rev
  BY <1>3, Unfolded, PutType
<1> HIDE DEF e
<1>5. /\ edit' \in EditState /\ edit'.pose = edit.pose
      /\ edit'.dirty = TRUE /\ edit'.rev = edit.rev + 1
  BY <1>2, <1>4, EditedType
<1>6. /\ s \in StepRecord /\ s.kind = "replace" /\ s.cloud = edit.cloud
      /\ s.was.cloud = edit.cloud /\ s.was.pose = edit.pose
  BY Unfolded, ReplaceType
<1>7. /\ UNCHANGED <<app, uses>> /\ simplify.running
      /\ simplify' = [simplify EXCEPT !.running = FALSE, !.applied = TRUE]
      /\ IF simplify.applied THEN UNCHANGED <<undo_, redo_>> ELSE PushUndo(s)
  BY DEF FinishSimplify
<1> HIDE DEF s
<1>8. /\ simplify' \in SimplifyState /\ simplify'.running = FALSE /\ simplify'.applied = TRUE
      /\ simplify'.runs = simplify.runs
  <2>1. simplify' \in SimplifyState
    BY <1>7, Unfolded DEF SimplifyState
  <2>2. simplify'.running = FALSE /\ simplify'.applied = TRUE /\ simplify'.runs = simplify.runs
    BY <1>7, Unfolded DEF SimplifyState
  <2> QED
    BY <2>1, <2>2
<1>9. EditTypes'
  <2>1. undo_' \in Seq(StepRecord) /\ redo_' \in Seq(StepRecord)
    BY <1>6, <1>7, Unfolded, Pushes
  <2>2. redo_' # <<>> => "undo" \in Uses'
    BY <1>7, Unfolded DEF PushUndo, EditTypes
  <2> QED
    BY <1>5, <1>7, <1>8, <2>1, <2>2, Unfolded DEF EditTypes
<1>10. Noticed'
  BY <1>5, <1>7, Unfolded, NoticedKept
<1>11. ASSUME simplify'.runs <= 1 PROVE Recorded'
  <2>1. Recorded /\ ~simplify.applied /\ simplify.runs # 0
    BY <1>7, <1>8, <1>11, Unfolded DEF Recorded
  <2>2. LeadsTo(s, edit'.cloud, TRUE)
    BY <1>5, <1>6 DEF LeadsTo
  <2>3. PushUndo(s) /\ (simplify'.running => ~simplify'.applied) /\ simplify'.runs # 0
    BY <1>7, <1>8, <2>1
  <2> QED
    BY <1>6, <2>1, <2>2, <2>3, Unfolded, RecordedPush
<1> QED
  BY <1>9, <1>10, <1>11 DEF EditInv

\* A Simplify whose result is refused, or that has none, leaves the Gaussians.
LEMMA SimplifyRefused ==
  ASSUME EditTypes, SimplifyFails
  PROVE  /\ edit' \in EditState /\ edit'.cloud = edit.cloud
         /\ edit'.pose = edit.pose /\ edit'.dirty = edit.dirty /\ edit'.rev = edit.rev
         /\ UNCHANGED <<undo_, redo_, app, uses>> /\ simplify.running
         /\ simplify' \in SimplifyState /\ simplify'.running = FALSE /\ simplify'.runs = simplify.runs
<1>1. PICK upload \in {FALSE, "refuse" \in Uses} :
        /\ edit' = IF upload THEN ApplyReplace(edit, Replace.cloud) ELSE edit
        /\ simplify' = [simplify EXCEPT !.running = FALSE, !.applied = simplify.applied \/ upload]
  BY DEF SimplifyFails
<1>2. edit \in EditState /\ edit.cloud \in Seq(Nat) /\ simplify \in SimplifyState
  BY DEF EditTypes, EditState, EditFields
<1>3. Replace.cloud = edit.cloud
  BY ReplaceType
<1>4. /\ edit' \in EditState /\ edit'.cloud = edit.cloud
      /\ edit'.pose = edit.pose /\ edit'.dirty = edit.dirty /\ edit'.rev = edit.rev
  <2>1. CASE upload
    <3> DEFINE e == Put(edit, edit.cloud, {})
    <3>1. edit' = e
      BY <1>1, <1>3, <2>1 DEF ApplyReplace
    <3>2. {} \in SUBSET DOMAIN edit.cloud
      OBVIOUS
    <3>3. /\ e \in EditState /\ e.cloud = edit.cloud
          /\ e.pose = edit.pose /\ e.dirty = edit.dirty /\ e.rev = edit.rev
      BY <1>2, <3>2, PutType
    <3> QED
      BY <3>1, <3>3
  <2>2. CASE ~upload
    BY <1>1, <1>2, <2>2
  <2> QED
    BY <2>1, <2>2
<1> DEFINE applied == simplify.applied \/ upload
<1>5. applied \in BOOLEAN /\ simplify' = [simplify EXCEPT !.running = FALSE, !.applied = applied]
  BY <1>1
<1> HIDE DEF applied
<1>6. simplify' \in SimplifyState
  BY <1>2, <1>5 DEF SimplifyState
<1>7. simplify'.running = FALSE /\ simplify'.runs = simplify.runs
  BY <1>2, <1>5 DEF SimplifyState
<1> QED
  BY <1>4, <1>6, <1>7 DEF SimplifyFails

LEMMA SimplifyFailsStep ==
  ASSUME EditInv, UNCHANGED Uses, SimplifyFails
  PROVE  EditInv'
<1>1. EditTypes
  BY Unfolded
<1>2. /\ edit' \in EditState /\ edit'.cloud = edit.cloud
      /\ edit'.pose = edit.pose /\ edit'.dirty = edit.dirty /\ edit'.rev = edit.rev
      /\ UNCHANGED <<undo_, redo_, app, uses>> /\ simplify.running
      /\ simplify' \in SimplifyState /\ simplify'.running = FALSE /\ simplify'.runs = simplify.runs
  BY <1>1, SimplifyRefused
<1>3. Recorded => /\ simplify'.running => ~simplify'.applied
                  /\ simplify'.runs = 0 => ~simplify'.running /\ ~simplify'.applied
  BY <1>2 DEF Recorded
<1>4. uses' \in Nat
  BY <1>2, Unfolded
<1> QED
  BY <1>2, <1>3, <1>4, Unfolded, ModelKept

LEMMA AppFields ==
  ASSUME app \in AppState
  PROVE  /\ app.model \in Clouds /\ app.cloud \in Seq(Nat) /\ app.rev \in Nat
         /\ app.results \in BOOLEAN /\ app.source \in {"memory", "copy", "project"}
         /\ app.stale \in BOOLEAN
BY DEF AppState

LEMMA SaveStep ==
  ASSUME EditInv, UNCHANGED Uses, Save
  PROVE  EditInv'
<1> DEFINE stored == edit.dirty \/ app.source = "memory"
           cloud == IF stored THEN edit.cloud ELSE app.cloud
           rev == edit.rev
           stale == \/ app.source = "project"
                    \/ app.source = "copy" /\ edit.dirty /\ edit.cloud # <<>>
<1>1. /\ app' = [app EXCEPT !.cloud = cloud, !.rev = rev, !.results = FALSE, !.stale = stale]
      /\ UNCHANGED <<edit, undo_, redo_, simplify>> /\ uses' \in Nat
  BY Unfolded DEF Save, Use
<1>2. /\ cloud \in Seq(Nat) /\ rev \in Nat /\ stale \in BOOLEAN /\ app \in AppState
      /\ app.source = "memory" => cloud = edit.cloud /\ ~stale
  BY Unfolded, AppFields
<1> HIDE DEF cloud, stale, rev
<1>3. app' \in AppState
  BY <1>1, <1>2 DEF AppState
<1>4. app'.source = app.source /\ app'.cloud = cloud /\ app'.rev = rev /\ app'.stale = stale
  BY <1>1, <1>2 DEF AppState
<1>5. EditTypes'
  BY <1>1, <1>3, Unfolded DEF EditTypes
<1>6. Noticed'
  <2>1. rev <= edit.rev
    BY Unfolded DEF rev
  <2> QED
    BY <1>1, <1>2, <1>4, <2>1 DEF Noticed
<1>7. ASSUME simplify'.runs <= 1 PROVE Recorded'
  <2>1. Recorded
    BY <1>1, <1>7, Unfolded
  <2> QED
    BY <1>1, <2>1 DEF Recorded
<1> QED
  BY <1>5, <1>6, <1>7 DEF EditInv

LEMMA LoadedState ==
  ASSUME NEW cloud \in Seq(Nat), Loaded(cloud)
  PROVE  /\ edit' \in EditState /\ edit'.cloud = cloud
         /\ undo_' = <<>> /\ redo_' = <<>>
<1>1. NoStroke \in [on : BOOLEAN, n : Nat, sel : SUBSET Nat] /\ NoStroke.sel \subseteq 1 .. NoStroke.n
  BY DEF NoStroke
<1>2. edit' = Synced(cloud)
  BY DEF Loaded
<1>3. edit' \in EditFields
  BY <1>1, <1>2 DEF Synced, EditFields, Poses
<1>4. edit'.cloud = cloud /\ edit'.sel = {} /\ edit'.stroke = NoStroke
  BY <1>2 DEF Synced
<1> QED
  BY <1>1, <1>3, <1>4 DEF EditState, Loaded

\* A step that swaps in another model.
LEMMA ModelLoaded ==
  ASSUME EditInv, NEW cloud \in Seq(Nat), Loaded(cloud), UNCHANGED simplify,
         app' \in AppState, uses' \in Nat, Noticed'
  PROVE  EditInv'
<1>1. /\ edit' \in EditState /\ undo_' = <<>> /\ redo_' = <<>>
  BY LoadedState
<1>2. <<>> \in Seq(StepRecord)
  OBVIOUS
<1>3. EditTypes'
  BY <1>1, <1>2, Unfolded DEF EditTypes
<1>4. ASSUME simplify'.runs <= 1 PROVE Recorded'
  <2>1. Recorded
    BY <1>4, Unfolded
  <2>2. \A c, b : Chain(<<>>, c, b)
    BY DEF Chain
  <2> QED
    BY <1>1, <2>1, <2>2 DEF Recorded
<1> QED
  BY <1>3, <1>4 DEF EditInv

LEMMA ReloadStep ==
  ASSUME EditInv, UNCHANGED Uses, Reload
  PROVE  EditInv'
<1>1. /\ app.stale /\ Loaded(app.cloud) /\ app' = [app EXCEPT !.stale = FALSE]
      /\ UNCHANGED <<simplify, uses>>
  BY DEF Reload
<1>2. app' \in AppState
  BY <1>1, Unfolded DEF AppState
<1>3. app'.source = app.source
  BY <1>1, Unfolded DEF AppState
<1>4. Noticed'
  BY <1>1, <1>3, Unfolded DEF Noticed
<1>5. app.cloud \in Seq(Nat) /\ uses' \in Nat
  BY <1>1, Unfolded, AppFields
<1> QED
  BY <1>1, <1>2, <1>4, <1>5, ModelLoaded

LEMMA OpenedClouds ==
  ASSUME NEW c \in Clouds
  PROVE  c \in Seq(Nat)
<1>1. c \in Seq(Nat \ {0})
  BY SplatEditAssumption
<1> QED
  BY <1>1

LEMMA OpenProjectStep ==
  ASSUME EditInv, UNCHANGED Uses, NEW c \in Clouds, OpenProject(c)
  PROVE  EditInv'
<1> DEFINE rev == edit.rev
<1>1. /\ Loaded(c) /\ UNCHANGED simplify /\ uses' \in Nat
      /\ app' = [app EXCEPT !.model = c, !.cloud = c, !.rev = rev,
                            !.results = FALSE, !.source = "project", !.stale = FALSE]
  BY Unfolded DEF OpenProject
<1>2. c \in Seq(Nat) /\ rev \in Nat
  BY OpenedClouds, Unfolded
<1> HIDE DEF rev
<1>3. app' \in AppState
  BY <1>1, <1>2, Unfolded DEF AppState
<1>4. app'.source = "project"
  BY <1>1, Unfolded DEF AppState
<1>5. Noticed'
  BY <1>4 DEF Noticed
<1> QED
  BY <1>1, <1>2, <1>3, <1>5, ModelLoaded

LEMMA TrainStep ==
  ASSUME EditInv, UNCHANGED Uses, NEW c \in Clouds, Train(c)
  PROVE  EditInv'
<1>1. /\ Loaded(c) /\ UNCHANGED simplify /\ uses' \in Nat /\ ~app.stale
      /\ app' = [app EXCEPT !.model = c, !.results = TRUE, !.source = "memory"]
  BY Unfolded DEF Train, Use
<1>2. app' \in AppState
  BY <1>1, Unfolded DEF AppState
<1>3. app'.stale = app.stale /\ app'.results = TRUE
  BY <1>1, Unfolded DEF AppState
<1>4. Noticed'
  BY <1>1, <1>3 DEF Noticed
<1> QED
  BY <1>1, <1>2, <1>4, OpenedClouds, ModelLoaded

-----------------------------------------------------------------------------
(* SplatEdit: the theorems *)

LEMMA EditStarts ==
  ASSUME EditInit
  PROVE  EditInv
<1>1. PICK c \in Clouds, from \in {"memory", "copy", "project"} :
        /\ edit = Synced(c)
        /\ app = [model |-> c, cloud |-> c, rev |-> 0, results |-> FALSE,
                  source |-> from, stale |-> FALSE]
  BY DEF EditInit
<1>2. /\ undo_ = <<>> /\ redo_ = <<>> /\ uses = 0
      /\ simplify = [running |-> FALSE, has_baseline |-> FALSE, applied |-> FALSE,
                     baseline |-> <<>>, runs |-> 0]
  BY DEF EditInit
<1>3. c \in Seq(Nat)
  BY OpenedClouds
<1>4. edit \in EditState /\ edit.cloud = c
  <2>1. NoStroke \in [on : BOOLEAN, n : Nat, sel : SUBSET Nat]
        /\ NoStroke.sel \subseteq 1 .. NoStroke.n
    BY DEF NoStroke
  <2>2. edit \in EditFields
    BY <1>1, <1>3, <2>1 DEF Synced, EditFields, Poses
  <2>3. edit.cloud = c /\ edit.sel = {} /\ edit.stroke = NoStroke
    BY <1>1 DEF Synced
  <2> QED
    BY <2>1, <2>2, <2>3 DEF EditState
<1>5. app \in AppState /\ app.cloud = c /\ app.stale = FALSE /\ app.rev = 0
  BY <1>1, <1>3 DEF AppState
<1>6. <<>> \in Seq(Nat) /\ <<>> \in Seq(StepRecord)
  OBVIOUS
<1>7. simplify \in SimplifyState
  BY <1>2, <1>6 DEF SimplifyState
<1>8. EditTypes
  BY <1>2, <1>4, <1>5, <1>6, <1>7 DEF EditTypes
<1>9. Noticed
  <2>1. edit.rev = 0
    BY <1>1 DEF Synced
  <2> QED
    BY <1>4, <1>5, <2>1 DEF Noticed
<1>10. Recorded
  <2>1. \A x, b : Chain(<<>>, x, b)
    BY DEF Chain
  <2> QED
    BY <1>2, <2>1 DEF Recorded
<1> QED
  BY <1>8, <1>9, <1>10 DEF EditInv

LEMMA EditSteps ==
  ASSUME EditInv, [EditNext]_edit_vars
  PROVE  EditInv'
<1>1. CASE EditNext
  <2>0. UNCHANGED Uses
    BY <1>1 DEF EditNext
  <2>1. CASE Menu \/ DragVolume \/ AdjustVolume
    BY <2>0, <2>1, MenuStep, DragVolumeStep, AdjustVolumeStep
  <2>2. CASE BeginStroke \/ AbortStroke \/ \E S \in Regions : EndStroke(S)
    BY <2>0, <2>2, StrokeSteps
  <2>3. CASE \E S \in Regions : Volume(S)
    BY <2>0, <2>3, VolumeStep
  <2>4. CASE DeleteSelected \/ DeleteFails
    BY <2>0, <2>4, DeleteSelectedStep, DeleteFailsStep
  <2>5. CASE Undo \/ Redo
    BY <2>0, <2>5, UndoStep, RedoStep
  <2>6. CASE StartSimplify \/ FinishSimplify \/ SimplifyFails
    BY <2>0, <2>6, StartSimplifyStep, FinishSimplifyStep, SimplifyFailsStep
  <2>7. CASE Save \/ Reload
    BY <2>0, <2>7, SaveStep, ReloadStep
  <2>8. CASE \E c \in Clouds : OpenProject(c) \/ Train(c)
    BY <2>0, <2>8, OpenProjectStep, TrainStep
  <2> QED
    BY <1>1, <2>1, <2>2, <2>3, <2>4, <2>5, <2>6, <2>7, <2>8 DEF EditNext
<1>2. CASE UNCHANGED edit_vars
  <2>1. UNCHANGED <<Uses, edit, undo_, redo_, simplify, app, uses>>
    BY <1>2 DEF edit_vars
  <2>2. EditTypes' /\ Noticed'
    BY <2>1, Unfolded DEF EditTypes, Noticed
  <2>3. Recorded => Recorded'
    BY <2>1 DEF Recorded
  <2> QED
    BY <2>1, <2>2, <2>3, Unfolded DEF EditInv
<1> QED
  BY <1>1, <1>2

\* The invariant of the editor: whatever the models and the length of the session.
THEOREM EditInvariance == EditSpec => []EditInv
<1>1. EditInit => EditInv
  BY EditStarts
<1>2. EditInv /\ [EditNext]_edit_vars => EditInv'
  BY EditSteps
<1> QED
  BY <1>1, <1>2, PTL DEF EditSpec

\* Studio does not close or open another project without asking while the
\* editor holds edits that the project does not have
\* (has_unsaved_project_changes), if the model is in memory and nothing was undone.
THEOREM UnsavedNoticed == EditSpec => []UnsavedIsSeen
<1>1. EditInv => UnsavedIsSeen
  <2> SUFFICES ASSUME EditInv, app.source = "memory", "undo" \notin Uses, ~app.results
               PROVE  Unsaved \/ edit.cloud = app.cloud
    BY DEF UnsavedIsSeen, Unsaved
  <2>1. edit.cloud = app.cloud \/ (edit.dirty /\ app.rev < edit.rev)
    BY Unfolded DEF Noticed
  <2>2. app.rev \in Nat /\ edit.rev \in Nat
    BY Unfolded, AppFields
  <2>3. app.rev < edit.rev => edit.rev # app.rev
    BY <2>2
  <2> QED
    BY <2>1, <2>3 DEF Unsaved
<1> QED
  BY <1>1, EditInvariance, PTL

\* A deletion that the GPU refuses, by an exception or by what upload returns,
\* and a Simplify that is cancelled, fails or whose upload throws leave the
\* Gaussians, the history and the question whether there is something to save
\* (delete_selected, replace_from_model, poll_splat_simplify).
THEOREM RefusedEditsVanish == EditSpec => FailedEditIsUndone
<1>1. EditInv /\ [EditNext]_edit_vars =>
        [DeleteFails \/ SimplifyFails =>
           /\ edit'.cloud = edit.cloud /\ undo_' = undo_
           /\ Unsaved' = Unsaved
           /\ DeleteFails => edit'.sel = edit.sel]_edit_vars
  <2> SUFFICES ASSUME EditInv, DeleteFails \/ SimplifyFails
               PROVE  /\ edit'.cloud = edit.cloud /\ undo_' = undo_
                      /\ Unsaved' = Unsaved
                      /\ DeleteFails => edit'.sel = edit.sel
    OBVIOUS
  <2>1. /\ edit'.cloud = edit.cloud /\ edit'.dirty = edit.dirty /\ edit'.rev = edit.rev
        /\ undo_' = undo_ /\ app' = app
    BY Unfolded, DeletionRefused, SimplifyRefused
  <2>2. Unsaved' = Unsaved
    BY <2>1 DEF Unsaved
  <2>3. DeleteFails => edit'.sel = edit.sel
    BY Unfolded, DeletionRefused
  <2> QED
    BY <2>1, <2>2, <2>3
<1> QED
  BY <1>1, EditInvariance, PTL DEF EditSpec, FailedEditIsUndone

\* Undo and redo bring back exactly the Gaussians of before, and the selection or
\* the volume if that is what the step changed, in a history of any length, also
\* when an upload throws (SplatEdit::undo, SplatEdit::redo).
THEOREM HistoryKept == EditSpec => HistoryRestores
<1>1. EditInv /\ [EditNext]_edit_vars =>
        [simplify.runs <= 1 =>
           /\ Undo => LET s == Last(undo_) IN
                     /\ Restores(s, edit')
                     /\ s.kind = "deletion" => edit'.sel = s.was.sel
           /\ Redo => Restores(Last(redo_), edit')]_edit_vars
  <2> SUFFICES ASSUME EditInv, EditNext, simplify.runs <= 1
               PROVE  /\ Undo => /\ Restores(Last(undo_), edit')
                                 /\ Last(undo_).kind = "deletion" => edit'.sel = Last(undo_).was.sel
                      /\ Redo => Restores(Last(redo_), edit')
    OBVIOUS
  <2>1. UNCHANGED Uses
    BY DEF EditNext
  <2> QED
    BY <2>1, UndoStep, RedoStep
<1> QED
  BY <1>1, EditInvariance, PTL DEF EditSpec, HistoryRestores

-----------------------------------------------------------------------------
(* SplatEdit: the length of the stacks *)

EditBounds ==
  /\ Len(undo_) + Len(redo_) <= UndoLimit
  /\ simplify.running \/ simplify.applied => simplify.has_baseline
  /\ uses <= MaxUses

\* What happens to the stacks in a step.
StacksStep ==
  \/ UNCHANGED <<undo_, redo_>>
  \/ undo_' = <<>> /\ redo_' = <<>>
  \/ \E s \in StepRecord : PushUndo(s)
  \/ undo_ # <<>> /\ undo_' = Front(undo_) /\ \E s \in StepRecord : redo_' = Append(redo_, s)
  \/ redo_ # <<>> /\ redo_' = Front(redo_) /\ \E s \in StepRecord : undo_' = Append(undo_, s)

\* Undo and redo move a step from one stack to the other.
LEMMA MoveLength ==
  ASSUME NEW from \in Seq(StepRecord), from # <<>>, NEW to \in Seq(StepRecord), NEW s \in StepRecord
  PROVE  /\ Len(Front(from)) + Len(Append(to, s)) = Len(from) + Len(to)
         /\ Len(Append(to, s)) + Len(Front(from)) = Len(to) + Len(from)
<1> DEFINE n == Len(from)
<1>1. n \in Nat /\ n >= 1 /\ Len(to) \in Nat
  BY EmptySeq
<1>2. Len(Append(to, s)) = Len(to) + 1
  BY AppendProperties
<1>3. Len(Front(from)) = n - 1
  <2>1. \A i \in 1 .. n - 1 : from[i] \in StepRecord
    <3>1. \A i \in 1 .. n - 1 : i \in 1 .. n
      BY <1>1
    <3> QED
      BY <3>1, ElementOfSeq
  <2>2. 1 \in Int /\ n - 1 \in Int /\ (n - 1) - 1 + 1 = n - 1 /\ (~ (1 <= n - 1) => n - 1 = 0)
    <3> HIDE DEF n
    <3> QED BY <1>1
  <2>3. Len(SubSeq(from, 1, n - 1)) = IF 1 <= n - 1 THEN (n - 1) - 1 + 1 ELSE 0
    <3> HIDE DEF n
    <3> QED BY <2>1, <2>2, SubSeqProperties
  <2> QED
    BY <2>2, <2>3 DEF Front
<1> HIDE DEF n
<1> QED
  BY <1>1, <1>2, <1>3 DEF n

LEMMA StacksBounded ==
  ASSUME EditTypes, Len(undo_) + Len(redo_) <= UndoLimit, StacksStep
  PROVE  Len(undo_') + Len(redo_') <= UndoLimit
<1>1. /\ undo_ \in Seq(StepRecord) /\ redo_ \in Seq(StepRecord)
      /\ Len(undo_) \in Nat /\ Len(redo_) \in Nat /\ UndoLimit \in Nat /\ UndoLimit >= 1
  BY SplatEditAssumption DEF EditTypes
<1>2. CASE UNCHANGED <<undo_, redo_>>
  BY <1>2
<1>3. CASE undo_' = <<>> /\ redo_' = <<>>
  <2>1. Len(undo_') = 0 /\ Len(redo_') = 0
    BY <1>3
  <2> QED
    BY <1>1, <2>1
<1>4. ASSUME NEW s \in StepRecord, PushUndo(s) PROVE Len(undo_') + Len(redo_') <= UndoLimit
  <2> DEFINE t == Append(undo_, s)
  <2>1. /\ undo_' = IF Len(t) > UndoLimit THEN Tail(t) ELSE t
        /\ redo_' = <<>>
    BY <1>4 DEF PushUndo
  <2>2. t \in Seq(StepRecord) /\ t # <<>> /\ Len(t) = Len(undo_) + 1
    BY <1>1, AppendProperties
  <2> HIDE DEF t
  <2>3. Len(Tail(t)) = Len(t) - 1
    BY <2>2, HeadTailProperties
  <2>4. Len(redo_') = 0 /\ Len(t) <= UndoLimit + 1
    BY <1>1, <2>1, <2>2
  <2>5. CASE Len(t) > UndoLimit
    <3>1. Len(undo_') = Len(t) - 1
      BY <2>1, <2>3, <2>5
    <3> QED
      BY <1>1, <2>2, <2>4, <3>1
  <2>6. CASE ~ (Len(t) > UndoLimit)
    <3>1. Len(undo_') = Len(t)
      BY <2>1, <2>6
    <3> QED
      BY <1>1, <2>2, <2>4, <2>6, <3>1
  <2> QED
    BY <2>5, <2>6
<1>5. ASSUME undo_ # <<>>, undo_' = Front(undo_), NEW s \in StepRecord, redo_' = Append(redo_, s)
      PROVE  Len(undo_') + Len(redo_') <= UndoLimit
  BY <1>1, <1>5, MoveLength
<1>6. ASSUME redo_ # <<>>, redo_' = Front(redo_), NEW s \in StepRecord, undo_' = Append(undo_, s)
      PROVE  Len(undo_') + Len(redo_') <= UndoLimit
  <2>1. Len(Append(undo_, s)) + Len(Front(redo_)) = Len(undo_) + Len(redo_)
    BY <1>1, <1>6, MoveLength
  <2> QED
    BY <1>6, <2>1
<1> QED
  BY <1>2, <1>3, <1>4, <1>5, <1>6 DEF StacksStep

LEMMA StepOfStacks ==
  ASSUME EditInv, EditNext
  PROVE  StacksStep
<1>1. EditTypes /\ edit.sel \in SUBSET (1 .. Len(edit.cloud)) /\ Len(edit.cloud) \in Nat
  BY Unfolded
<1>2. CASE Menu \/ \E S \in Regions : Volume(S)
  <2>1. PushUndo(Selection(Len(edit.cloud), edit.sel))
    BY <1>2 DEF Menu, Volume
  <2> QED
    BY <1>1, <2>1, SelectionType DEF StacksStep
<1>3. CASE DragVolume
  BY <1>1, <1>3, VolumeType DEF DragVolume, StacksStep
<1>4. CASE \/ AdjustVolume \/ BeginStroke \/ AbortStroke \/ DeleteFails
          \/ StartSimplify \/ SimplifyFails \/ Save
  BY <1>4 DEF AdjustVolume, BeginStroke, AbortStroke, DeleteFails, StartSimplify, SimplifyFails, Save, StacksStep
<1>5. ASSUME NEW S \in Regions, EndStroke(S) PROVE StacksStep
  <2>1. CASE edit.stroke.n = Len(edit.cloud) /\ edit.stroke.sel # S
    <3>1. PushUndo(Selection(edit.stroke.n, edit.stroke.sel))
      BY <1>5, <2>1 DEF EndStroke
    <3>2. edit.stroke.n \in Nat /\ edit.stroke.sel \in SUBSET (1 .. edit.stroke.n)
      BY <1>1, <2>1 DEF EditTypes, EditState
    <3> QED
      BY <1>1, <3>1, <3>2, SelectionType DEF StacksStep
  <2>2. CASE ~ (edit.stroke.n = Len(edit.cloud) /\ edit.stroke.sel # S)
    BY <1>5, <2>2 DEF EndStroke, StacksStep
  <2> QED
    BY <2>1, <2>2
<1>6. CASE DeleteSelected
  BY <1>1, <1>6, DeletionType DEF DeleteSelected, StacksStep
<1>7. CASE Undo
  <2>1. /\ undo_ # <<>> /\ undo_' = Front(undo_)
        /\ redo_' = Append(redo_, Current(Last(undo_)))
    BY <1>7 DEF Undo
  <2>2. Current(Last(undo_)) \in StepRecord
    BY <1>1, <2>1, Unfolded, ChainPop, CurrentType
  <2> QED
    BY <2>1, <2>2 DEF StacksStep
<1>8. CASE Redo
  <2>1. /\ redo_ # <<>> /\ redo_' = Front(redo_)
        /\ undo_' = Append(undo_, Current(Last(redo_)))
    BY <1>8 DEF Redo
  <2>2. Current(Last(redo_)) \in StepRecord
    BY <1>1, <2>1, Unfolded, ChainPop, CurrentType
  <2> QED
    BY <2>1, <2>2 DEF StacksStep
<1>9. CASE FinishSimplify
  BY <1>1, <1>9, ReplaceType DEF FinishSimplify, StacksStep
<1>10. CASE Reload \/ \E c \in Clouds : OpenProject(c) \/ Train(c)
  BY <1>10 DEF Reload, OpenProject, Train, Loaded, StacksStep
<1> QED
  BY <1>2, <1>3, <1>4, <1>5, <1>6, <1>7, <1>8, <1>9, <1>10 DEF EditNext

LEMMA SimplifyHasBaseline ==
  ASSUME EditInv, EditNext, simplify.running \/ simplify.applied => simplify.has_baseline
  PROVE  simplify'.running \/ simplify'.applied => simplify'.has_baseline
<1>1. simplify \in SimplifyState
  BY Unfolded
<1>2. CASE StartSimplify
  <2> DEFINE runs == simplify.runs + 1
             baseline == IF simplify.has_baseline THEN simplify.baseline ELSE edit.cloud
  <2>1. simplify' = [simplify EXCEPT !.running = TRUE, !.has_baseline = TRUE, !.runs = runs,
                                     !.baseline = baseline]
    BY <1>2 DEF StartSimplify
  <2> HIDE DEF runs, baseline
  <2> QED
    BY <1>1, <2>1 DEF SimplifyState
<1>3. CASE FinishSimplify
  <2>1. simplify.running /\ simplify' = [simplify EXCEPT !.running = FALSE, !.applied = TRUE]
    BY <1>3 DEF FinishSimplify
  <2> QED
    BY <1>1, <2>1 DEF SimplifyState
<1>4. CASE SimplifyFails
  <2>1. PICK upload \in {FALSE, "refuse" \in Uses} :
          simplify' = [simplify EXCEPT !.running = FALSE, !.applied = simplify.applied \/ upload]
    BY <1>4 DEF SimplifyFails
  <2>2. simplify.running /\ simplify'.has_baseline = simplify.has_baseline
    BY <1>1, <1>4, <2>1 DEF SimplifyFails, SimplifyState
  <2> QED
    BY <2>2
<1>5. CASE UNCHANGED simplify
  BY <1>5
<1>6. StartSimplify \/ FinishSimplify \/ SimplifyFails \/ UNCHANGED simplify
  BY DEF EditNext, Menu, DragVolume, AdjustVolume, BeginStroke, AbortStroke, Volume, EndStroke,
         DeleteSelected, DeleteFails, Undo, Redo, Save, Reload, OpenProject, Train
<1> QED
  BY <1>2, <1>3, <1>4, <1>5, <1>6

LEMMA UsesBounded ==
  ASSUME EditInv, EditNext, uses <= MaxUses
  PROVE  uses' <= MaxUses
<1>1. uses' = uses \/ (uses < MaxUses /\ uses' = uses + 1)
  BY DEF EditNext, Menu, DragVolume, AdjustVolume, BeginStroke, AbortStroke, Volume, EndStroke,
         DeleteSelected, DeleteFails, Undo, Redo, StartSimplify, FinishSimplify, SimplifyFails, Save, Reload,
         OpenProject, Train, Use
<1>2. uses \in Nat /\ MaxUses \in Nat
  BY Unfolded, SplatEditAssumption
<1> QED
  BY <1>1, <1>2

\* The editor's types, and stacks that never hold more than k_undo_limit steps
\* between them (SplatEdit::push_undo).
THEOREM EditTyped == EditSpec => []EditTypeOK
<1>1. EditInit => EditBounds
  <2> SUFFICES ASSUME EditInit PROVE EditBounds
    OBVIOUS
  <2>1. /\ undo_ = <<>> /\ redo_ = <<>> /\ uses = 0
        /\ simplify.running = FALSE /\ simplify.applied = FALSE
    BY DEF EditInit
  <2>2. Len(undo_) = 0 /\ Len(redo_) = 0 /\ UndoLimit \in Nat /\ MaxUses \in Nat
    BY <2>1, SplatEditAssumption
  <2> QED
    BY <2>1, <2>2 DEF EditBounds
<1>2. EditInv /\ EditBounds /\ [EditNext]_edit_vars => EditBounds'
  <2>1. ASSUME EditInv, EditBounds, EditNext PROVE EditBounds'
    <3>1. Len(undo_') + Len(redo_') <= UndoLimit
      BY <2>1, Unfolded, StepOfStacks, StacksBounded DEF EditBounds
    <3>2. simplify'.running \/ simplify'.applied => simplify'.has_baseline
      BY <2>1, SimplifyHasBaseline DEF EditBounds
    <3>3. uses' <= MaxUses
      BY <2>1, UsesBounded DEF EditBounds
    <3> QED
      BY <3>1, <3>2, <3>3 DEF EditBounds
  <2>2. ASSUME EditBounds, UNCHANGED edit_vars PROVE EditBounds'
    BY <2>2 DEF EditBounds, edit_vars
  <2> QED
    BY <2>1, <2>2
<1>3. EditInv /\ EditBounds => EditTypeOK
  <2> SUFFICES ASSUME EditInv, EditBounds PROVE EditTypeOK
    OBVIOUS
  <2>1. /\ edit.cloud \in Seq(Nat) /\ edit.sel \subseteq DOMAIN edit.cloud
        /\ edit.dirty \in BOOLEAN /\ edit.rev \in Nat /\ edit.pose \in {0, 1}
    BY Unfolded DEF EditState, EditFields, Poses
  <2>2. Len(undo_) \in Nat /\ Len(redo_) \in Nat /\ UndoLimit \in Nat /\ uses \in Nat /\ MaxUses \in Nat
    BY Unfolded, SplatEditAssumption
  <2>3. Len(undo_) <= UndoLimit /\ Len(redo_) <= UndoLimit /\ uses \in 0 .. MaxUses
    BY <2>2 DEF EditBounds
  <2>4. app.model \in Clouds
    BY Unfolded, AppFields
  <2> QED
    BY <2>1, <2>3, <2>4 DEF EditTypeOK, EditBounds
<1> QED
  BY <1>1, <1>2, <1>3, EditInvariance, PTL DEF EditSpec
=============================================================================
