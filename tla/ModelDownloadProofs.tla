------------------------- MODULE ModelDownloadProofs -------------------------
(***************************************************************************)
(* A Studio that has the cache for itself, for every size of the model and *)
(* any number of crashes, abandoned curls, bad blocks and failures: what   *)
(* verified_download_ready accepts is the model, and a verified file is    *)
(* never given up.                                                         *)
(*                                                                         *)
(* Files only grow while they are named.  A file that was hashed as the    *)
(* model can therefore become too long, but never again a wrong file of    *)
(* the right size; that is what Sound says, and what survives the steps    *)
(* between the hash and the receipt.                                       *)
(***************************************************************************)
EXTENDS ModelDownload, FiniteSetTheorems, TLAPS

\* No other Studio uses the cache.
Alone == \A p, q \in Procs : p = q

Files == [len : Nat, good : BOOLEAN]

Types ==
  /\ content \in [Inodes -> Files]
  /\ part \in Inodes \cup {None} /\ dest \in Inodes \cup {None}
  /\ receipt # None => receipt \in [on : Inodes, len : Nat]
  /\ pc \in [Procs -> {"none", "check", "cached", "fetch", "read", "size",
                       "hash", "guard", "remove", "rename", "receipt"}]
  /\ state_ \in [Procs -> {"idle", "running", "done", "failed", "cancelled"}]
  /\ curl \in [Procs -> Curl] /\ orphan \in Curl
  /\ \A p \in Procs : pc[p] = "none" <=> state_[p] # "running"

\* A curl that runs has a file open, and only while its worker reads.
Open ==
  /\ orphan.st = "run" => orphan.on # None
  /\ \A p \in Procs : /\ curl[p].st = "run" => curl[p].on # None
                      /\ pc[p] # "read" => curl[p].on = None

\* Hashed as the model, and possibly grown since.
Sound(i) == content[i].len >= Size /\ (content[i].len = Size => content[i].good)

\* The worker of finish() has hashed the file that it moves and certifies.
Hashed ==
  \A p \in Procs :
    /\ pc[p] \in {"guard", "remove", "rename"} => part # None /\ Sound(part)
    /\ pc[p] = "receipt" /\ dest # None => Sound(dest)

\* A destination was complete when it got its name, and a certified file of the
\* certified size is the one that was hashed.
Kept == dest # None => content[dest].len >= Size

Certified ==
  receipt # None =>
    /\ content[receipt.on].len >= receipt.len
    /\ receipt.len = Size /\ content[receipt.on].len = Size => content[receipt.on].good

\* A download replaces no verified destination.
Replacing ==
  \A p \in Procs :
    /\ pc[p] \in {"fetch", "read", "size", "hash", "guard", "remove"} => ~Complete(dest)
    /\ pc[p] = "rename" => dest = None

IInv == Types /\ Open /\ Hashed /\ Kept /\ Certified /\ Replacing

-----------------------------------------------------------------------------
(* A transfer finds an unused inode, and what a curl writes only grows.    *)

LEMMA OneMore ==
    ASSUME NEW S, NEW x, IsFiniteSet(S)
    PROVE  /\ IsFiniteSet(S \cup {x}) /\ Cardinality(S) \in Nat
           /\ Cardinality(S \cup {x}) <= Cardinality(S) + 1
<1>1. /\ IsFiniteSet(S \cup {x})
      /\ Cardinality(S \cup {x}) = IF x \in S THEN Cardinality(S) ELSE Cardinality(S) + 1
  BY FS_AddElement
<1>2. Cardinality(S) \in Nat
  BY FS_CardinalityType
<1> QED
  BY <1>1, <1>2

\* Two names, the orphan, the receipt and a curl for each Studio but the one that
\* is about to start it leave one inode.
LEMMA InodeLeft ==
    ASSUME ModelDownloadAssumption, Types, NEW p \in Procs, curl[p].on = None
    PROVE  \E j \in Inodes : Unused(j)
<1> DEFINE opened == [q \in Procs |-> curl[q].on]
           Opened == {opened[q] : q \in Procs}
           lost == orphan.on
           certified == receipt.on
           A == Opened \cup {part}
           B == A \cup {dest}
           C == B \cup {lost}
           InUse == C \cup {certified}
           n == Cardinality(Procs)
<1>1. IsFiniteSet(Procs) /\ n \in Nat /\ IsFiniteSet(Inodes) /\ Cardinality(Inodes) >= n + 4
  BY FS_CardinalityType DEF ModelDownloadAssumption
<1>2. \A i \in Inodes : i \notin InUse => Unused(i)
  BY DEF Unused
<1>3. opened \in Surjection(Procs, Opened)
  BY DEF Surjection
<1>0. None \in InUse /\ None \notin Inodes
  BY DEF ModelDownloadAssumption
<1> HIDE DEF opened, lost, certified, n
<1>4. IsFiniteSet(Opened) /\ Cardinality(Opened) <= n
  <2> HIDE DEF Opened
  <2> QED
    BY <1>1, <1>3, FS_Surjection DEF n
<1> HIDE DEF Opened
<1>5. IsFiniteSet(A) /\ Cardinality(Opened) \in Nat /\ Cardinality(A) <= Cardinality(Opened) + 1
  BY <1>4, OneMore
<1> HIDE DEF A
<1>6. IsFiniteSet(B) /\ Cardinality(A) \in Nat /\ Cardinality(B) <= Cardinality(A) + 1
  BY <1>5, OneMore
<1> HIDE DEF B
<1>7. IsFiniteSet(C) /\ Cardinality(B) \in Nat /\ Cardinality(C) <= Cardinality(B) + 1
  BY <1>6, OneMore
<1> HIDE DEF C
<1>8. IsFiniteSet(InUse) /\ Cardinality(C) \in Nat /\ Cardinality(InUse) <= Cardinality(C) + 1
  BY <1>7, OneMore
<1> HIDE DEF InUse
<1>9. CASE Inodes \subseteq InUse
  <2>1. Cardinality(Inodes) <= Cardinality(InUse)
    BY <1>8, <1>9, FS_Subset
  <2>2. Cardinality(Inodes) \in Nat /\ Cardinality(InUse) \in Nat
    BY <1>1, <1>8, FS_CardinalityType
  <2>3. Cardinality(Inodes) = Cardinality(InUse)
    BY <1>1, <1>4, <1>5, <1>6, <1>7, <1>8, <2>1, <2>2
  <2>4. Inodes = InUse
    BY <1>8, <1>9, <2>3, FS_Subset
  <2> QED
    BY <1>0, <2>4
<1> QED
  BY <1>2, <1>9

\* What curl writes.
Grows ==
  /\ content' \in [Inodes -> Files]
  /\ \A i \in Inodes : content'[i] = content[i] \/ content'[i].len = content[i].len + 1

LEMMA CurlGrows ==
    ASSUME ModelDownloadAssumption, Types, NEW c \in Curl, c.st = "run", c.on # None, NEW d, CurlWrites(c, d)
    PROVE  Grows /\ d \in Curl /\ d.st = "run" /\ d.on = c.on
<1>1. c.on \in Inodes /\ c.pos \in 0..Size /\ c.pos < Size
  BY DEF Curl, CurlWrites
<1>2. PICK ok \in BOOLEAN : content' = Appended(c, ok)
  BY DEF CurlWrites
<1> DEFINE grown == [len  |-> content[c.on].len + 1,
                     good |-> ok /\ content[c.on].good /\ content[c.on].len = c.pos]
<1>3. content' = [content EXCEPT ![c.on] = grown]
  BY <1>2 DEF Appended
<1>4. content[c.on] \in Files
  BY <1>1 DEF Types
<1>5. grown \in Files /\ grown.len = content[c.on].len + 1
  BY <1>4 DEF Files
<1> HIDE DEF grown
<1>6. Grows
  BY <1>1, <1>3, <1>5 DEF Types, Grows
<1>7. d \in Curl /\ d.st = "run" /\ d.on = c.on
  BY <1>1 DEF CurlWrites, Curl, ModelDownloadAssumption
<1> QED
  BY <1>6, <1>7

\* Files that grow stay sound, and long enough.
LEMMA GrowthKeeps ==
    ASSUME ModelDownloadAssumption, IInv, Grows, UNCHANGED <<part, dest, receipt, pc>>
    PROVE  Hashed' /\ Kept' /\ Certified' /\ Replacing'
<1>1. \A i \in Inodes : /\ content[i].len \in Nat
                        /\ content'[i] = content[i] \/ content'[i].len = content[i].len + 1
  BY DEF IInv, Types, Files, Grows
<1>2. \A i \in Inodes : Sound(i) => Sound(i)'
  BY <1>1 DEF ModelDownloadAssumption, Sound
<1>3. Kept'
  BY <1>1 DEF ModelDownloadAssumption, IInv, Types, Kept
<1>4. Hashed'
  BY <1>2 DEF IInv, Types, Hashed
<1>5. Certified'
  <2> SUFFICES ASSUME receipt # None
               PROVE  /\ content'[receipt.on].len >= receipt.len
                      /\ receipt.len = Size /\ content'[receipt.on].len = Size
                           => content'[receipt.on].good
    BY DEF Certified
  <2>1. receipt.on \in Inodes /\ receipt.len \in Nat
    BY DEF IInv, Types
  <2> QED
    BY <1>1, <2>1 DEF ModelDownloadAssumption, IInv, Certified
<1>6. Replacing'
  <2>1. ~Complete(dest) => ~Complete(dest)'
    BY <1>1 DEF ModelDownloadAssumption, IInv, Types, Kept, Complete
  <2> QED
    BY <2>1 DEF IInv, Replacing
<1> QED
  BY <1>3, <1>4, <1>5, <1>6

LEMMA CurlStepped ==
    ASSUME ModelDownloadAssumption, IInv, NEW p \in Procs, CurlStep(p)
    PROVE  IInv'
<1>1. PICK d \in Curl : /\ CurlWrites(curl[p], d) \/ CurlEnds(curl[p], d)
                        /\ curl' = [curl EXCEPT ![p] = d]
  BY DEF CurlStep
<1>2. curl[p] \in Curl /\ curl[p].st = "run" /\ curl[p].on # None
  BY <1>1 DEF CurlWrites, CurlEnds, IInv, Types, Open
<1>3. UNCHANGED <<part, dest, receipt, state_, pc, orphan>>
  BY DEF CurlStep, env
<1>4. CASE CurlWrites(curl[p], d)
  <2>1. Grows /\ d.on = curl[p].on
    BY <1>2, <1>4, CurlGrows DEF IInv
  <2>2. Types' /\ Open'
    BY <1>1, <1>2, <1>3, <2>1 DEF IInv, Types, Open, Grows
  <2> QED
    BY <1>3, <2>1, <2>2, GrowthKeeps DEF IInv
<1>5. CASE CurlEnds(curl[p], d)
  <2>1. UNCHANGED content /\ d.on = curl[p].on
    BY <1>2, <1>5 DEF CurlEnds, Curl
  <2>2. Types' /\ Open'
    BY <1>1, <1>2, <1>3, <2>1 DEF IInv, Types, Open
  <2>3. Hashed' /\ Kept' /\ Certified' /\ Replacing'
    BY <1>3, <2>1 DEF IInv, Hashed, Sound, Kept, Certified, Replacing, Complete
  <2> QED
    BY <2>2, <2>3 DEF IInv
<1> QED
  BY <1>1, <1>4, <1>5

LEMMA OrphanStepped ==
    ASSUME ModelDownloadAssumption, IInv, OrphanStep
    PROVE  IInv'
<1>1. orphan \in Curl /\ orphan.st = "run" /\ orphan.on # None
  BY DEF OrphanStep, IInv, Types, Open
<1>2. UNCHANGED <<part, dest, receipt, state_, pc, curl>>
  BY DEF OrphanStep
<1>3. CASE \E d \in Curl : CurlWrites(orphan, d) /\ orphan' = d
  <2>1. PICK d \in Curl : CurlWrites(orphan, d) /\ orphan' = d
    BY <1>3
  <2>2. Grows /\ d.on = orphan.on
    BY <1>1, <2>1, CurlGrows DEF IInv
  <2>3. Types' /\ Open'
    BY <1>1, <1>2, <2>1, <2>2 DEF IInv, Types, Open, Grows
  <2> QED
    BY <1>2, <2>2, <2>3, GrowthKeeps DEF IInv
<1>4. CASE orphan' = NoCurl /\ UNCHANGED <<content, faults>>
  <2>1. Types' /\ Open'
    BY <1>2, <1>4 DEF IInv, Types, Open, NoCurl, Curl, ModelDownloadAssumption
  <2>2. Hashed' /\ Kept' /\ Certified' /\ Replacing'
    BY <1>2, <1>4 DEF IInv, Hashed, Sound, Kept, Certified, Replacing, Complete
  <2> QED
    BY <2>1, <2>2 DEF IInv
<1> QED
  BY <1>3, <1>4 DEF OrphanStep

\* The three ways in which a transfer begins: not at all, at the end of the
\* partial file, in a new one.
LEMMA Fetched ==
    ASSUME ModelDownloadAssumption, Alone, IInv, NEW p \in Procs, Fetch(p)
    PROVE  IInv'
<1>1. pc[p] = "fetch" /\ curl[p].on = None /\ UNCHANGED <<dest, receipt, state_, orphan>>
  BY DEF Fetch, At, Goto, files, env, IInv, Open
<1>2. ~Complete(dest)
  BY <1>1 DEF IInv, Replacing
<1>3. CASE part # None /\ content[part].len = Size /\ Goto(p, "size") /\ UNCHANGED <<files, curl>>
  <2>1. Types' /\ Open'
    BY <1>1, <1>3 DEF Goto, files, IInv, Types, Open
  <2>2. Hashed' /\ Kept' /\ Certified' /\ Replacing'
    BY <1>2, <1>3 DEF Goto, files, Alone, IInv, Types, Hashed, Sound, Kept, Certified, Replacing,
       Complete
  <2> QED
    BY <2>1, <2>2 DEF IInv
<1>4. CASE /\ part # None /\ content[part].len < Size
           /\ curl' = [curl EXCEPT ![p] = [st |-> "run", on |-> part, pos |-> content[part].len]]
           /\ Goto(p, "read") /\ UNCHANGED files
  <2>1. content[part].len \in 0..Size
    BY <1>4 DEF IInv, Types, Files, ModelDownloadAssumption
  <2> DEFINE c == [st |-> "run", on |-> part, pos |-> content[part].len]
  <2>2. c \in Curl /\ c.on # None /\ curl' = [curl EXCEPT ![p] = c]
    BY <1>4, <2>1 DEF IInv, Types, Curl
  <2> HIDE DEF c
  <2>3. Types' /\ Open'
    BY <1>1, <1>4, <2>2 DEF Goto, files, IInv, Types, Open
  <2>4. Hashed' /\ Kept' /\ Certified' /\ Replacing'
    BY <1>2, <1>4 DEF Goto, files, Alone, IInv, Types, Hashed, Sound, Kept, Certified, Replacing,
       Complete
  <2> QED
    BY <2>3, <2>4 DEF IInv
<1>5. CASE /\ LET i == CHOOSE j \in Inodes : Unused(j)
              IN /\ content' = [content EXCEPT ![i] = [len |-> 0, good |-> TRUE]]
                 /\ part' = i
                 /\ curl' = [curl EXCEPT ![p] = [st |-> "run", on |-> i, pos |-> 0]]
           /\ Goto(p, "read")
  <2>1. PICK i \in Inodes :
          /\ Unused(i)
          /\ content' = [content EXCEPT ![i] = [len |-> 0, good |-> TRUE]]
          /\ part' = i
          /\ curl' = [curl EXCEPT ![p] = [st |-> "run", on |-> i, pos |-> 0]]
    BY <1>1, <1>5, InodeLeft DEF IInv
  <2> DEFINE c == [st |-> "run", on |-> i, pos |-> 0]
             new == [len |-> 0, good |-> TRUE]
  <2>2. c \in Curl /\ c.on # None /\ curl' = [curl EXCEPT ![p] = c]
    BY <2>1 DEF Curl, ModelDownloadAssumption
  <2>3. new \in Files /\ content' = [content EXCEPT ![i] = new]
    BY <2>1 DEF Files
  <2> HIDE DEF c, new
  <2>4. Types' /\ Open'
    <3>1. content' \in [Inodes -> Files] /\ curl' \in [Procs -> Curl] /\ orphan' \in Curl
      BY <1>1, <2>2, <2>3 DEF IInv, Types
    <3>2. /\ part' \in Inodes \cup {None} /\ dest' \in Inodes \cup {None}
          /\ receipt' # None => receipt' \in [on : Inodes, len : Nat]
      BY <1>1, <2>1 DEF IInv, Types
    <3>3. Types'
      BY <1>1, <1>5, <3>1, <3>2 DEF Goto, IInv, Types
    <3>4. Open'
      BY <1>1, <1>5, <2>2 DEF Goto, IInv, Types, Open
    <3> QED
      BY <3>3, <3>4
  <2>5. /\ dest # None => content'[dest] = content[dest]
        /\ receipt # None => content'[receipt.on] = content[receipt.on]
    BY <2>1 DEF Unused, IInv, Types
  <2>6. Kept' /\ Certified'
    BY <1>1, <2>5 DEF IInv, Kept, Certified
  <2>7. ~Complete(dest)'
    BY <1>1, <1>2, <2>5 DEF Complete
  <2>8. Hashed' /\ Replacing'
    BY <1>5, <2>7 DEF Goto, Alone, IInv, Types, Hashed, Replacing
  <2> QED
    BY <2>4, <2>6, <2>8 DEF IInv
<1> QED
  BY <1>3, <1>4, <1>5 DEF Fetch

-----------------------------------------------------------------------------
(* The other steps change names and who is where, and no file.             *)

LEMMA Refused ==
    ASSUME ModelDownloadAssumption, Alone, IInv, NEW p \in Procs, Refuse(p)
    PROVE  IInv'
<1>1. Types' /\ Open'
  BY DEF IInv, Types, Open, Refuse, Terminal, files, env
<1>2. Hashed' /\ Kept' /\ Certified' /\ Replacing'
  BY DEF Alone, IInv, Types, Hashed, Sound, Kept, Certified, Replacing, Complete,
     Refuse, Terminal, files, env
<1> QED
  BY <1>1, <1>2 DEF IInv

LEMMA Started ==
    ASSUME ModelDownloadAssumption, Alone, IInv, NEW p \in Procs, Start(p)
    PROVE  IInv'
<1>1. Types' /\ Open'
  BY DEF IInv, Types, Open, Start, files, env
<1>2. Hashed' /\ Kept' /\ Certified' /\ Replacing'
  BY DEF Alone, IInv, Types, Hashed, Sound, Kept, Certified, Replacing, Complete,
     Start, files, env
<1> QED
  BY <1>1, <1>2 DEF IInv

LEMMA CancelAsked ==
    ASSUME ModelDownloadAssumption, Alone, IInv, NEW p \in Procs, Cancel(p)
    PROVE  IInv'
<1>1. Types' /\ Open'
  BY DEF IInv, Types, Open, Cancel, files, env
<1>2. Hashed' /\ Kept' /\ Certified' /\ Replacing'
  BY DEF Alone, IInv, Types, Hashed, Sound, Kept, Certified, Replacing, Complete,
     Cancel, files, env
<1> QED
  BY <1>1, <1>2 DEF IInv

LEMMA Checked ==
    ASSUME ModelDownloadAssumption, Alone, IInv, NEW p \in Procs, Check(p)
    PROVE  IInv'
<1>1. Types' /\ Open'
  BY DEF IInv, Types, Open, Check, At, Terminal, Goto, files, env
<1>2. Hashed' /\ Kept' /\ Certified' /\ Replacing'
  BY DEF Alone, IInv, Types, Hashed, Sound, Kept, Certified, Replacing, Complete,
     Check, At, Terminal, Goto, files, env
<1> QED
  BY <1>1, <1>2 DEF IInv

LEMMA CachedHashed ==
    ASSUME ModelDownloadAssumption, Alone, IInv, NEW p \in Procs, HashCached(p)
    PROVE  IInv'
<1>1. Types' /\ Open'
  BY DEF IInv, Types, Open, HashCached, At, Terminal, Goto, Throw, files, env
<1>2. Hashed' /\ Kept' /\ Certified' /\ Replacing'
  BY DEF Alone, IInv, Types, Hashed, Sound, Kept, Certified, Replacing, Complete,
     HashCached, At, Terminal, Goto, Throw, files, env
<1> QED
  BY <1>1, <1>2 DEF IInv

LEMMA FetchFailed ==
    ASSUME ModelDownloadAssumption, Alone, IInv, NEW p \in Procs, FetchFails(p)
    PROVE  IInv'
<1>1. Types' /\ Open'
  BY DEF IInv, Types, Open, FetchFails, At, Terminal, files, env
<1>2. Hashed' /\ Kept' /\ Certified' /\ Replacing'
  BY DEF Alone, IInv, Types, Hashed, Sound, Kept, Certified, Replacing, Complete,
     FetchFails, At, Terminal, files, env
<1> QED
  BY <1>1, <1>2 DEF IInv

LEMMA Reaped ==
    ASSUME ModelDownloadAssumption, Alone, IInv, NEW p \in Procs, Reap(p)
    PROVE  IInv'
<1>1. Types' /\ Open'
  BY DEF IInv, Types, Open, Reap, At, Terminal, Goto, env, NoCurl, Curl
<1>2. Hashed' /\ Kept' /\ Certified' /\ Replacing'
  BY DEF Alone, IInv, Types, Hashed, Sound, Kept, Certified, Replacing, Complete,
     Reap, At, Terminal, Goto, env
<1> QED
  BY <1>1, <1>2 DEF IInv

LEMMA SizeChecked ==
    ASSUME ModelDownloadAssumption, Alone, IInv, NEW p \in Procs, CheckSize(p)
    PROVE  IInv'
<1>1. Types' /\ Open'
  BY DEF IInv, Types, Open, CheckSize, At, Goto, Throw, Terminal, env
<1>2. Hashed' /\ Kept' /\ Certified' /\ Replacing'
  BY DEF Alone, IInv, Types, Hashed, Sound, Kept, Certified, Replacing, Complete,
     CheckSize, At, Goto, Throw, Terminal, env
<1> QED
  BY <1>1, <1>2 DEF IInv

LEMMA PartHashed ==
    ASSUME ModelDownloadAssumption, Alone, IInv, NEW p \in Procs, Hash(p)
    PROVE  IInv'
<1>1. Types' /\ Open'
  BY DEF IInv, Types, Open, Hash, At, Goto, Throw, Terminal, env
<1>2. Hashed' /\ Kept' /\ Certified' /\ Replacing'
  BY DEF Alone, IInv, Types, Hashed, Sound, Kept, Certified, Replacing, Complete,
     Hash, At, Goto, Throw, Terminal, env
<1> QED
  BY <1>1, <1>2 DEF IInv

LEMMA Guarded ==
    ASSUME ModelDownloadAssumption, Alone, IInv, NEW p \in Procs, Guard(p)
    PROVE  IInv'
<1>1. Types' /\ Open'
  BY DEF IInv, Types, Open, Guard, At, Goto, Terminal, files, env
<1>2. Hashed' /\ Kept' /\ Certified' /\ Replacing'
  BY DEF Alone, IInv, Types, Hashed, Sound, Kept, Certified, Replacing, Complete,
     Guard, At, Goto, Terminal, files, env
<1> QED
  BY <1>1, <1>2 DEF IInv

LEMMA Removed ==
    ASSUME ModelDownloadAssumption, Alone, IInv, NEW p \in Procs, Remove(p)
    PROVE  IInv'
<1>1. Types' /\ Open'
  BY DEF IInv, Types, Open, Remove, At, Goto, env
<1>2. Hashed' /\ Kept' /\ Certified' /\ Replacing'
  BY DEF Alone, IInv, Types, Hashed, Sound, Kept, Certified, Replacing, Complete,
     Remove, At, Goto, env
<1> QED
  BY <1>1, <1>2 DEF IInv

LEMMA Renamed ==
    ASSUME ModelDownloadAssumption, Alone, IInv, NEW p \in Procs, Rename(p)
    PROVE  IInv'
<1>1. Types' /\ Open'
  BY DEF IInv, Types, Open, Rename, At, Goto, Throw, Terminal, env
<1>2. Hashed' /\ Kept' /\ Certified' /\ Replacing'
  BY DEF Alone, IInv, Types, Hashed, Sound, Kept, Certified, Replacing, Complete,
     Rename, At, Goto, Throw, Terminal, env
<1> QED
  BY <1>1, <1>2 DEF IInv

LEMMA ReceiptWritten ==
    ASSUME ModelDownloadAssumption, Alone, IInv, NEW p \in Procs, WriteReceipt(p)
    PROVE  IInv'
<1>1. Types' /\ Open'
  BY DEF IInv, Types, Open, Files, WriteReceipt, At, Throw, Terminal, env
<1>2. Hashed' /\ Kept' /\ Certified' /\ Replacing'
  BY DEF Alone, IInv, Types, Hashed, Sound, Kept, Certified, Replacing, Complete,
     Files, WriteReceipt, At, Throw, Terminal, env
<1> QED
  BY <1>1, <1>2 DEF IInv

LEMMA Crashed ==
    ASSUME ModelDownloadAssumption, Alone, IInv, NEW p \in Procs, Crash(p)
    PROVE  IInv'
<1>1. Types' /\ Open'
  BY DEF ModelDownloadAssumption, IInv, Types, Open, Crash, files, NoCurl, Curl
<1>2. Hashed' /\ Kept' /\ Certified' /\ Replacing'
  BY DEF Alone, IInv, Types, Hashed, Sound, Kept, Certified, Replacing, Complete,
     Crash, files
<1> QED
  BY <1>1, <1>2 DEF IInv

LEMMA Restarted ==
    ASSUME ModelDownloadAssumption, Alone, IInv, NEW p \in Procs, Restart(p)
    PROVE  IInv'
<1>1. Types' /\ Open'
  BY DEF IInv, Types, Open, Restart, files
<1>2. Hashed' /\ Kept' /\ Certified' /\ Replacing'
  BY DEF Alone, IInv, Types, Hashed, Sound, Kept, Certified, Replacing, Complete,
     Restart, files
<1> QED
  BY <1>1, <1>2 DEF IInv

-----------------------------------------------------------------------------
(* The theorems.                                                           *)

LEMMA Beginning == ModelDownloadAssumption /\ Init => IInv
<1> SUFFICES ASSUME ModelDownloadAssumption, Init PROVE IInv
  OBVIOUS
<1>1. NoCurl \in Curl /\ NoCurl.st = "none" /\ NoCurl.on = None
  BY DEF NoCurl, Curl, ModelDownloadAssumption
<1>2. Types /\ Open
  BY <1>1 DEF Init, Types, Open, Files
<1>3. Hashed /\ Kept /\ Certified /\ Replacing
  BY DEF Init, Hashed, Kept, Certified, Replacing, Complete
<1> QED
  BY <1>2, <1>3 DEF IInv

LEMMA Inductive ==
    ASSUME ModelDownloadAssumption, Alone, IInv, [Next]_vars
    PROVE  IInv'
<1>1. ASSUME NEW p \in Procs, Worker(p) PROVE IInv'
  BY <1>1, Checked, CachedHashed, Fetched, FetchFailed, Reaped, SizeChecked, PartHashed,
     Guarded, Removed, Renamed, ReceiptWritten DEF Worker
<1>2. ASSUME NEW p \in Procs,
             Refuse(p) \/ Start(p) \/ Cancel(p) \/ CurlStep(p) \/ Crash(p) \/ Restart(p)
      PROVE  IInv'
  BY <1>2, Refused, Started, CancelAsked, CurlStepped, Crashed, Restarted
<1>3. CASE OrphanStep
  BY <1>3, OrphanStepped
<1>4. CASE UNCHANGED vars
  BY <1>4 DEF vars, IInv, Types, Open, Hashed, Sound, Kept, Certified, Replacing, Complete
<1> QED
  BY <1>1, <1>2, <1>3, <1>4 DEF Next

LEMMA Invariant == ASSUME Alone PROVE Spec => []IInv
<1>1. Init => IInv
  BY ModelDownloadAssumption, Beginning
<1>2. IInv /\ [Next]_vars => IInv'
  BY ModelDownloadAssumption, Inductive
<1> QED
  BY <1>1, <1>2, PTL DEF Spec

\* What verified_download_ready accepts holds the model, whatever crashed, was
\* abandoned or failed, if one Studio at a time uses the cache.
THEOREM AloneReadyIsVerified == ASSUME Alone PROVE Spec => []ReadyIsVerified
<1>1. IInv => ReadyIsVerified
  <2> SUFFICES ASSUME IInv, Ready PROVE Complete(dest)
    BY DEF ReadyIsVerified
  <2>1. dest # None /\ content[dest].len = Size /\ receipt = [on |-> dest, len |-> Size]
    BY DEF Ready
  <2>2. receipt # None
    BY DEF Ready
  <2> QED
    BY <2>1, <2>2 DEF IInv, Certified, Complete
<1> QED
  BY <1>1, Invariant, PTL

\* A download that replaces the destination has found it wrong before, and so
\* the name of a verified file stays where it is.
LEMMA DestinationStays ==
    ASSUME Alone, IInv, [Next]_vars, Complete(dest)
    PROVE  dest' = dest
<1>1. ASSUME NEW p \in Procs, Worker(p) PROVE dest' = dest
  <2>1. CASE Remove(p)
    BY <2>1 DEF Remove, At, IInv, Replacing
  <2>2. CASE Rename(p)
    BY <2>2 DEF Rename, At, IInv, Replacing, Complete
  <2> QED
    BY <1>1, <2>1, <2>2 DEF Worker, Check, HashCached, Fetch, FetchFails, Reap, CheckSize, Hash,
       Guard, WriteReceipt, files
<1> QED
  BY <1>1 DEF Next, Refuse, Start, Cancel, CurlStep, Crash, Restart, OrphanStep, vars, files

\* One Studio at a time never gives up a verified destination.
THEOREM AloneCacheIsKept == ASSUME Alone PROVE Spec => CacheKept
<1>1. IInv /\ [Next]_vars => KeepsDestination
  BY DestinationStays DEF KeepsDestination, Complete
<1> QED
  BY <1>1, Invariant, PTL DEF Spec, CacheKept
=============================================================================
