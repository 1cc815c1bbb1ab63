---------------------------- MODULE ProjectArchive ----------------------------
(***************************************************************************)
(* The chunked project file .ascan (photara/src/project/archive.cpp).  An  *)
(* Archive object holds the directory of a file and replacements; chunks   *)
(* that were not replaced stay in the file until they are read or copied   *)
(* by a save.  save() writes path.tmp, a name that all processes share,    *)
(* and renames it.  Studio, the command line tool and the loader threads   *)
(* each have Archive objects of their own on the same file.                *)
(*                                                                         *)
(* A file is a sequence of cells: the directory, then the payloads in the  *)
(* order of their types.  A payload names its size and its checksum.       *)
(***************************************************************************)
EXTENDS Integers, Sequences, FiniteSets, FiniteSetsExt

CONSTANTS
  Writers,    \* Archive objects that may save
  Readers,    \* Archive objects that only read (loader threads, tools)
  Paths,      \* project files
  Crews,      \* which objects work at the same time, on which files
  Types,      \* ChunkType, an interval of Nat
  Payloads,   \* the possible contents of a chunk
  Size(_),    \* Slot::size of a payload, in cells
  Inodes,     \* bound on files: names, temporary names and open ones
  MaxSaves, MaxFaults,  \* bounds on saves, and on kills and failed writes
  None

ASSUME ProjectArchiveAssumption ==
  /\ Types \subseteq Nat /\ IsFiniteSet(Types) /\ IsFiniteSet(Writers)
  /\ \A v \in Payloads : Size(v) \in Nat
  /\ Crews \subseteq [objects : SUBSET (Writers \cup Readers), paths : SUBSET Paths]
  /\ MaxSaves \in Nat /\ MaxFaults \in Nat
  /\ None \notin Paths \cup Inodes
  /\ None \notin [off : Nat, val : Payloads, mem : BOOLEAN]
  /\ None \notin [path : Paths, out : Inodes, in : Inodes \cup {None}, todo : SUBSET Types]

VARIABLES
  crew,
  content,   \* the cells of each inode
  name,      \* path -> inode or None
  tmp,       \* path.tmp -> inode or None
  slots,     \* Archive::slots_: type -> slot or None
  source,    \* Archive::source_
  writing,   \* a running save(), or None
  saves, faults

archive_vars == <<crew, content, name, tmp, slots, source, writing, saves, faults>>

Objects == Writers \cup Readers

Slot == [off : Nat, val : Payloads, mem : BOOLEAN]   \* mem: replacement is set
Bytes(v) == [k \in 1 .. Size(v) |-> <<v, k>>]

ArchiveTypeOK ==
  /\ name \in [Paths -> Inodes \cup {None}]
  /\ tmp \in [Paths -> Inodes \cup {None}]
  /\ slots \in [Objects -> [Types -> Slot \cup {None}]]
  /\ source \in [Objects -> Paths \cup {None}]
  /\ \A o \in Objects : \A t \in Types :
       slots[o][t] # None /\ ~slots[o][t].mem => source[o] # None
  /\ \A o \in Objects : writing[o] # None =>
       /\ o \in Writers /\ writing[o].path \in Paths /\ writing[o].out \in Inodes
       /\ writing[o].in \in Inodes \cup {None}
       /\ writing[o].todo \subseteq {t \in Types : slots[o][t] # None}
  /\ \A p, q \in Paths : name[p] # None => name[p] # tmp[q]
  /\ saves \in 0 .. MaxSaves /\ faults \in 0 .. MaxFaults

Empty == [t \in Types |-> None]

ArchiveInit ==
  /\ crew \in Crews
  /\ content = [i \in Inodes |-> <<>>]
  /\ name = [p \in Paths |-> None]
  /\ tmp = [p \in Paths |-> None]
  /\ slots = [o \in Objects |-> Empty]
  /\ source = [o \in Objects |-> None]
  /\ writing = [o \in Objects |-> None]
  /\ saves = 0
  /\ faults = 0

----------------------------------------------------------------------------
\* Layout.

Present(s) == {t \in DOMAIN s : s[t] # None}

\* The cells that the payloads of the types in U take.
Room(s, U) == UNION {{u} \X (1 .. Size(s[u].val)) : u \in U}

\* Where the payload of t begins: after the directory and the smaller types.
Offset(s, t) == 2 + Cardinality(Room(s, {u \in Present(s) : u < t}))

Directory(s) ==
  [t \in Types |-> IF s[t] = None THEN None
                     ELSE [off |-> Offset(s, t), val |-> s[t].val, mem |-> FALSE]]

\* size cells from offset on, fewer at the end of the file
Slice(f, off, n) == SubSeq(f, off, IF off + n - 1 > Len(f) THEN Len(f) ELSE off + n - 1)

\* Writing cells at an offset of a file that another writer may have truncated.
Overlay(f, off, cells) ==
  [i \in 1 .. Max({Len(f), off + Len(cells) - 1}) |->
     IF i \in off .. off + Len(cells) - 1 THEN cells[i - off + 1]
     ELSE IF i <= Len(f) THEN f[i] ELSE <<>>]

IsDirectory(c) == c \in [Types -> Slot \cup {None}]

\* open() accepts the file: a directory whose chunks are inside the file.
Opens(f) ==
  /\ f # <<>> /\ IsDirectory(f[1])
  /\ \A t \in Present(f[1]) : f[1][t].off + Size(f[1][t].val) - 1 <= Len(f)

\* The file is a complete container: every chunk has its checksum.
Intact(f) ==
  /\ Opens(f)
  /\ \A t \in Present(f[1]) :
       Slice(f, f[1][t].off, Size(f[1][t].val)) = Bytes(f[1][t].val)

Held(s) == [t \in Types |-> IF s[t] = None THEN None ELSE s[t].val]

Used == {name[p] : p \in Paths} \cup {tmp[p] : p \in Paths}
        \cup {writing[o].out : o \in {x \in Objects : writing[x] # None}}
        \cup {writing[o].in : o \in {x \in Objects : writing[x] # None}}

----------------------------------------------------------------------------
\* The operations of an Archive object.

Idle(o) == writing[o] = None

Open(o, p) ==
  /\ Idle(o) /\ name[p] # None /\ Opens(content[name[p]])
  /\ slots' = [slots EXCEPT ![o] = content[name[p]][1]]
  /\ source' = [source EXCEPT ![o] = p]
  /\ UNCHANGED <<content, name, tmp, writing, saves, faults>>

\* chunk() opens the source anew and changes no state: the cells that it finds
\* for a chunk, and whether they have the announced checksum or it throws.
Chunk(o, t) ==
  LET s == slots[o][t] IN
  IF s.mem THEN Bytes(s.val)
  ELSE Slice(IF name[source[o]] = None THEN <<>> ELSE content[name[source[o]]],
             s.off, Size(s.val))

Readable(o, t) == Chunk(o, t) = Bytes(slots[o][t].val)

SetChunk(o, t, v) ==
  /\ o \in Writers /\ Idle(o) /\ saves < MaxSaves
  /\ slots' = [slots EXCEPT ![o][t] = [off |-> 0, val |-> v, mem |-> TRUE]]
  /\ UNCHANGED <<content, name, tmp, source, writing, saves, faults>>

EraseChunk(o, t) ==
  /\ o \in Writers /\ Idle(o) /\ saves < MaxSaves /\ slots[o][t] # None
  /\ slots' = [slots EXCEPT ![o][t] = None]
  /\ UNCHANGED <<content, name, tmp, source, writing, saves, faults>>

----------------------------------------------------------------------------
\* save(), step by step.

\* Seeded fault: the new container is written over the file itself.
FaultSaveBegins(o, p) ==
  /\ o \in Writers /\ Idle(o) /\ saves < MaxSaves
  /\ tmp[p] = None => Inodes \ Used # {}
  /\ saves' = saves + 1
  /\ LET i == IF name[p] # None THEN name[p]
              ELSE IF tmp[p] # None THEN tmp[p]
              ELSE CHOOSE j \in Inodes : j \notin Used
     IN /\ tmp' = [tmp EXCEPT ![p] = i]
        /\ content' = [content EXCEPT ![i] = <<Directory(slots[o])>>]
        /\ writing' = [writing EXCEPT ![o] =
                        [path |-> p, out |-> i, in |-> None,
                         todo |-> Present(slots[o])]]
  /\ UNCHANGED <<name, slots, source, faults>>

\* path.tmp is created, or truncated, and gets header and directory.
SaveBegins(o, p) ==
  /\ o \in Writers /\ Idle(o) /\ saves < MaxSaves
  /\ tmp[p] = None => Inodes \ Used # {}
  /\ saves' = saves + 1
  /\ LET i == IF tmp[p] # None THEN tmp[p]
              ELSE CHOOSE j \in Inodes : j \notin Used
     IN /\ tmp' = [tmp EXCEPT ![p] = i]
        /\ content' = [content EXCEPT ![i] = <<Directory(slots[o])>>]
        /\ writing' = [writing EXCEPT ![o] =
                        [path |-> p, out |-> i, in |-> None,
                         todo |-> Present(slots[o])]]
  /\ UNCHANGED <<name, slots, source, faults>>

\* The catch block: the temporary file goes, whoever has written it.
Abort(o) ==
  /\ tmp' = [tmp EXCEPT ![writing[o].path] = None]
  /\ writing' = [writing EXCEPT ![o] = None]
  /\ UNCHANGED <<name, slots, source>>

\* The next chunk: a replacement, or a copy from the source, which is opened
\* for the first copy and stays open; a wrong checksum ends the save.
WriteChunk(o) ==
  /\ writing[o] # None /\ writing[o].todo # {}
  /\ LET w == writing[o]
         t == Min(w.todo)
         s == slots[o][t]
         in == IF s.mem \/ w.in # None THEN w.in ELSE name[source[o]]
         b == IF s.mem THEN Bytes(s.val)
              ELSE Slice(content[in], s.off, Size(s.val))
     IN /\ content' = [content EXCEPT ![w.out] = Overlay(@, Offset(slots[o], t), b)]
        /\ \/ /\ b = Bytes(s.val)
              /\ writing' = [writing EXCEPT ![o] = [w EXCEPT !.todo = @ \ {t}, !.in = in]]
              /\ UNCHANGED <<name, tmp, slots, source>>
           \/ b # Bytes(s.val) /\ Abort(o)
  /\ UNCHANGED <<saves, faults>>

\* Seeded fault: a failed write is not noticed.
FaultSaveFails(o) ==
  /\ writing[o] # None /\ writing[o].todo # {} /\ faults < MaxFaults
  /\ faults' = faults + 1
  /\ writing' = [writing EXCEPT ![o].todo = {}]
  /\ UNCHANGED <<content, name, tmp, slots, source, saves>>

SaveFails(o) ==
  /\ writing[o] # None /\ faults < MaxFaults
  /\ faults' = faults + 1
  /\ Abort(o)
  /\ UNCHANGED <<content, saves>>

\* Seeded fault: the object goes on with the offsets of the file before.
FaultPublish(o) ==
  /\ writing[o] # None /\ writing[o].todo = {} /\ tmp[writing[o].path] # None
  /\ LET p == writing[o].path
     IN /\ name' = [name EXCEPT ![p] = tmp[p]]
        /\ tmp' = [tmp EXCEPT ![p] = None]
        /\ source' = [source EXCEPT ![o] = p]
        /\ writing' = [writing EXCEPT ![o] = None]
  /\ UNCHANGED <<content, slots, saves, faults>>

\* The rename, and the refresh of source and offsets; replacements stay.
\* The rename fails when another writer has taken the temporary file.
Publish(o) ==
  /\ writing[o] # None /\ writing[o].todo = {}
  /\ LET p == writing[o].path
     IN \/ tmp[p] = None /\ Abort(o)
        \/ /\ tmp[p] # None
           /\ name' = [name EXCEPT ![p] = tmp[p]]
           /\ tmp' = [tmp EXCEPT ![p] = None]
           /\ source' = [source EXCEPT ![o] = p]
           /\ slots' = [slots EXCEPT ![o] =
                [t \in Types |-> IF @[t] = None THEN None
                                 ELSE [@[t] EXCEPT !.off = Offset(slots[o], t)]]]
           /\ writing' = [writing EXCEPT ![o] = None]
  /\ UNCHANGED <<content, saves, faults>>

\* The process of a writer is killed; the temporary file stays.
Kill(o) ==
  /\ writing[o] # None /\ faults < MaxFaults
  /\ faults' = faults + 1
  /\ writing' = [writing EXCEPT ![o] = None]
  /\ slots' = [slots EXCEPT ![o] = Empty]
  /\ source' = [source EXCEPT ![o] = None]
  /\ UNCHANGED <<content, name, tmp, saves>>

ArchiveNext ==
  /\ UNCHANGED crew
  /\ \E o \in crew.objects :
    \/ \E p \in crew.paths : Open(o, p) \/ SaveBegins(o, p)
    \/ \E t \in Types : EraseChunk(o, t)
    \/ \E t \in Types, v \in Payloads : SetChunk(o, t, v)
    \/ WriteChunk(o) \/ SaveFails(o) \/ Publish(o) \/ Kill(o)

ArchiveSpec == ArchiveInit /\ [][ArchiveNext]_archive_vars

----------------------------------------------------------------------------
(* Properties *)

OneWriter == Cardinality(crew.objects \cap Writers) = 1

\* A loader that has opened a file finds every chunk that the directory
\* announced until a save has put another container in its place, although it
\* opens the file anew for each chunk: a save that runs, fails or is killed, to
\* this name or another one, does not touch what is published.  With one
\* writer only (archive.cpp, chunk and save).
ReadersFindChunks ==
  OneWriter => \A r \in Readers :
    source[r] # None /\ content[name[source[r]]][1] = slots[r] =>
      \A t \in Present(slots[r]) : Readable(r, t)

\* After its own saves, to this file or another one, an object still finds
\* every chunk that it has not replaced; with one writer only
\* (archive.cpp, save, "Refresh the lazy cache").
OwnChunksReadable ==
  OneWriter => \A o \in Writers : \A t \in Present(slots[o]) : Readable(o, t)

\* A file changes only to exactly what a finished save was asked to write:
\* no chunk is lost, mixed with another version, or kept after its removal,
\* and whatever save is killed or fails, the file stays complete.  With one
\* writer only: two share the temporary file (archive.cpp, save).
SavePublishesObject ==
  [][OneWriter => \A p \in Paths : name'[p] # name[p] =>
       \E o \in Writers : /\ writing[o] # None /\ writing[o].path = p
                          /\ Intact(content[name'[p]])
                          /\ Held(content[name'[p]][1]) = Held(slots[o])]_archive_vars

=============================================================================
