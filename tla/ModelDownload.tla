---------------------------- MODULE ModelDownload ----------------------------
(***************************************************************************)
(* The download of a hashed model file (apps/editor/model_download.cpp)    *)
(* into the cache that every running Studio of a user shares: destination, *)
(* partial file and verification receipt, the worker thread with its       *)
(* cancellation, and the curl process that it starts.                      *)
(*                                                                         *)
(* A file is an inode with a length in blocks; its content is good when    *)
(* its blocks are those of the model, in order.  The receipt's time stamp  *)
(* is abstracted to inode and length: a file only ever grows.              *)
(***************************************************************************)
EXTENDS Naturals, FiniteSets

CONSTANTS
  Procs,       \* the Studios that use the cache
  Inodes,      \* enough for two names, the receipt, a curl each and an orphan
  Size,        \* ModelDownloadSpec::expected_bytes, in blocks
  MaxCrashes,  \* bound on the crashes of a Studio
  MaxFaults,   \* bound on failing transfers, bad blocks and failing writes
  None

ASSUME ModelDownloadAssumption ==
  /\ Size \in Nat \ {0}
  /\ MaxCrashes \in Nat
  /\ MaxFaults \in Nat
  /\ None \notin Inodes
  /\ IsFiniteSet(Procs) /\ IsFiniteSet(Inodes)
  /\ Cardinality(Inodes) >= Cardinality(Procs) + 4

VARIABLES
  content,   \* length and quality of each inode
  part,      \* the inode named destination.part, or None
  dest,      \* the inode named destination, or None
  receipt,   \* what destination.verified certifies, or None
  state_,    \* ModelDownload::state_ of each Studio
  cancel_,   \* ModelDownload::cancel_
  pc,        \* where the worker thread is
  curl,      \* the curl process of each Studio
  orphan,    \* a curl whose Studio has crashed
  up,        \* which Studios run
  crashes,   \* crashes so far
  faults     \* faults so far

vars == <<content, part, dest, receipt, state_, cancel_, pc, curl, orphan,
          up, crashes, faults>>
files == <<content, part, dest, receipt>>
env == <<orphan, up, crashes>>

NoCurl == [st |-> "none", on |-> None, pos |-> 0]
File == [len : 0 .. (Cardinality(Procs) + 2) * Size, good : BOOLEAN]
Curl == [st : {"none", "run", "exit0", "exit33", "error"},
         on : Inodes \cup {None}, pos : 0 .. Size]

TypeOK ==
  /\ content \in [Inodes -> File]
  /\ part \in Inodes \cup {None}
  /\ dest \in Inodes \cup {None}
  /\ receipt \in [on : Inodes, len : Nat] \cup {None}
  /\ state_ \in [Procs -> {"idle", "running", "done", "failed", "cancelled"}]
  /\ cancel_ \in [Procs -> BOOLEAN]
  /\ pc \in [Procs -> {"none", "check", "cached", "fetch", "read", "size",
                       "hash", "guard", "remove", "rename", "receipt"}]
  /\ curl \in [Procs -> Curl]
  /\ orphan \in Curl
  /\ up \in [Procs -> BOOLEAN]
  /\ \A p \in Procs : /\ pc[p] = "none" <=> state_[p] # "running"
                      /\ curl[p].st = "none" <=> pc[p] # "read"
  /\ crashes \in 0 .. MaxCrashes
  /\ faults \in 0 .. MaxFaults

Init ==
  /\ content = [i \in Inodes |-> [len |-> 0, good |-> TRUE]]
  /\ part = None
  /\ dest = None
  /\ receipt = None
  /\ state_ = [p \in Procs |-> "idle"]
  /\ cancel_ = [p \in Procs |-> FALSE]
  /\ pc = [p \in Procs |-> "none"]
  /\ curl = [p \in Procs |-> NoCurl]
  /\ orphan = NoCurl
  /\ up = [p \in Procs |-> TRUE]
  /\ crashes = 0
  /\ faults = 0

----------------------------------------------------------------------------
\* What the files amount to.

Complete(i) == i # None /\ content[i].len = Size /\ content[i].good

\* verified_download_ready: size and time stamp are those of the receipt.
Ready ==
  /\ dest # None
  /\ content[dest].len = Size
  /\ receipt # None
  /\ receipt = [on |-> dest, len |-> content[dest].len]

\* An inode that no name, process or time stamp refers to.
Unused(i) ==
  /\ i \notin {part, dest, orphan.on}
  /\ \A p \in Procs : curl[p].on # i
  /\ receipt # None => receipt.on # i

Fault == faults < MaxFaults /\ faults' = faults + 1

----------------------------------------------------------------------------
\* The main thread.

\* terminal: the worker reports its end and leaves.
Terminal(p, s) ==
  /\ state_' = [state_ EXCEPT ![p] = s]
  /\ pc' = [pc EXCEPT ![p] = "none"]

\* A thrown exception is a cancellation if one was asked for.
Throw(p) == Terminal(p, IF cancel_[p] THEN "cancelled" ELSE "failed")

Goto(p, l) == pc' = [pc EXCEPT ![p] = l] /\ UNCHANGED state_

\* The licence is not accepted: authorize throws before the thread starts.
Refuse(p) ==
  /\ up[p] /\ state_[p] # "running"
  /\ Terminal(p, "failed")
  /\ Fault
  /\ UNCHANGED <<files, cancel_, curl, env>>

Start(p) ==
  /\ up[p] /\ state_[p] # "running"
  /\ cancel_' = [cancel_ EXCEPT ![p] = FALSE]
  /\ state_' = [state_ EXCEPT ![p] = "running"]
  /\ pc' = [pc EXCEPT ![p] = "check"]
  /\ UNCHANGED <<files, curl, env, faults>>

\* The button is there while the download runs; closing Studio cancels too.
Cancel(p) ==
  /\ up[p] /\ state_[p] = "running" /\ ~cancel_[p]
  /\ cancel_' = [cancel_ EXCEPT ![p] = TRUE]
  /\ UNCHANGED <<files, state_, pc, curl, env, faults>>

----------------------------------------------------------------------------
\* The worker thread: run().

At(p, l) == up[p] /\ pc[p] = l

Check(p) ==
  /\ At(p, "check")
  /\ \/ cancel_[p] /\ Terminal(p, "cancelled")
     \/ /\ ~cancel_[p]
        /\ Goto(p, IF dest # None /\ content[dest].len = Size
                     THEN "cached" ELSE "fetch")
  /\ UNCHANGED <<files, cancel_, curl, env, faults>>

\* Seeded fault: a hash that was cancelled counts as a wrong one.
FaultHashCached(p) ==
  /\ At(p, "cached")
  /\ \/ cancel_[p] /\ dest' = None /\ Throw(p)
     \/ ~cancel_[p] /\ Complete(dest) /\ Goto(p, "receipt") /\ UNCHANGED dest
     \/ ~cancel_[p] /\ ~Complete(dest) /\ Goto(p, "fetch") /\ UNCHANGED dest
  /\ UNCHANGED <<content, part, receipt, cancel_, curl, env, faults>>

\* sha256_file of the destination; it throws when cancelled or when another
\* Studio has removed the file, and validate may throw after it.
HashCached(p) ==
  /\ At(p, "cached")
  /\ \/ (cancel_[p] \/ dest = None) /\ Throw(p) /\ UNCHANGED faults
     \/ ~cancel_[p] /\ Complete(dest) /\ Goto(p, "receipt") /\ UNCHANGED faults
     \/ ~cancel_[p] /\ Complete(dest) /\ Throw(p) /\ Fault
     \/ /\ ~cancel_[p] /\ dest # None /\ ~Complete(dest)
        /\ Goto(p, "fetch") /\ UNCHANGED faults
  /\ UNCHANGED <<files, cancel_, curl, env>>

\* A complete partial file is finished at once, one that is too long is
\* removed, a shorter one is resumed (curl -C -).  curl opens the file for
\* appending sooner than another download completes: one step.
Fetch(p) ==
  /\ At(p, "fetch")
  /\ \/ /\ part # None /\ content[part].len = Size
        /\ Goto(p, "size")
        /\ UNCHANGED <<files, curl>>
     \/ /\ part # None /\ content[part].len < Size
        /\ curl' = [curl EXCEPT ![p] =
                      [st |-> "run", on |-> part, pos |-> content[part].len]]
        /\ Goto(p, "read")
        /\ UNCHANGED files
     \/ /\ part # None => content[part].len > Size
        /\ LET i == CHOOSE j \in Inodes : Unused(j)
           IN /\ content' = [content EXCEPT ![i] = [len |-> 0, good |-> TRUE]]
              /\ part' = i
              /\ curl' = [curl EXCEPT ![p] = [st |-> "run", on |-> i, pos |-> 0]]
        /\ Goto(p, "read")
        /\ UNCHANGED <<dest, receipt>>
  /\ UNCHANGED <<cancel_, env, faults>>

\* No pipe, no directory or no curl: failed before anything is written.
FetchFails(p) ==
  /\ At(p, "fetch") /\ Terminal(p, "failed") /\ Fault
  /\ UNCHANGED <<files, cancel_, curl, env>>

\* Seeded fault: the loop does not look whether curl still runs.
FaultReap(p) ==
  /\ At(p, "read") /\ cancel_[p]
  /\ curl' = [curl EXCEPT ![p] = NoCurl]
  /\ Terminal(p, "cancelled")
  /\ UNCHANGED <<files, cancel_, env, faults>>

\* The read loop ends by cancellation, which kills curl, or with curl; its
\* exit code 33 says that the server cannot resume.
Reap(p) ==
  /\ At(p, "read")
  /\ cancel_[p] \/ curl[p].st # "run"
  /\ curl' = [curl EXCEPT ![p] = NoCurl]
  /\ \/ cancel_[p] /\ Terminal(p, "cancelled") /\ UNCHANGED part
     \/ /\ ~cancel_[p] /\ curl[p].st = "exit0"
        /\ Goto(p, "size") /\ UNCHANGED part
     \/ /\ ~cancel_[p] /\ curl[p].st \in {"exit33", "error"}
        /\ Terminal(p, "failed")
        /\ part' = IF curl[p].st = "exit33" THEN None ELSE part
  /\ UNCHANGED <<content, dest, receipt, cancel_, env, faults>>

----------------------------------------------------------------------------
\* The worker thread: finish().

CheckSize(p) ==
  /\ At(p, "size")
  /\ \/ (cancel_[p] \/ part = None) /\ Throw(p) /\ UNCHANGED part
     \/ /\ part # None /\ content[part].len # Size
        /\ part' = None /\ Throw(p)
     \/ /\ ~cancel_[p] /\ part # None /\ content[part].len = Size
        /\ Goto(p, "hash") /\ UNCHANGED part
  /\ UNCHANGED <<content, dest, receipt, cancel_, curl, env, faults>>

\* Seeded faults: no hash; a hash that was cancelled counts as a wrong one.
FaultHashSkipped(p) ==
  /\ At(p, "hash")
  /\ \/ cancel_[p] /\ Throw(p)
     \/ ~cancel_[p] /\ Goto(p, "guard")
  /\ UNCHANGED <<files, cancel_, curl, env, faults>>

\* The hash and then validate; only a wrong hash removes the partial file,
\* which a cancellation after the last block no longer prevents.
Hash(p) ==
  /\ At(p, "hash")
  /\ \/ (cancel_[p] \/ part = None) /\ Throw(p) /\ UNCHANGED <<part, faults>>
     \/ /\ part # None /\ ~Complete(part)
        /\ part' = None /\ Throw(p) /\ UNCHANGED faults
     \/ ~cancel_[p] /\ Complete(part) /\ Goto(p, "guard") /\ UNCHANGED <<part, faults>>
     \/ ~cancel_[p] /\ Complete(part) /\ Throw(p) /\ Fault /\ UNCHANGED part
  /\ UNCHANGED <<content, dest, receipt, cancel_, curl, env>>

Guard(p) ==
  /\ At(p, "guard")
  /\ \/ cancel_[p] /\ Terminal(p, "cancelled")
     \/ ~cancel_[p] /\ Goto(p, "remove")
  /\ UNCHANGED <<files, cancel_, curl, env, faults>>

Remove(p) ==
  /\ At(p, "remove")
  /\ dest' = None
  /\ Goto(p, "rename")
  /\ UNCHANGED <<content, part, receipt, cancel_, curl, env, faults>>

Rename(p) ==
  /\ At(p, "rename")
  /\ \/ part = None /\ Throw(p) /\ UNCHANGED <<part, dest>>
     \/ /\ part # None
        /\ dest' = part /\ part' = None
        /\ Goto(p, "receipt")
  /\ UNCHANGED <<content, receipt, cancel_, curl, env, faults>>

\* write_receipt truncates the receipt, then asks for size and time of the
\* destination, which throws when another Studio has removed it.
WriteReceipt(p) ==
  /\ At(p, "receipt")
  /\ \/ /\ dest # None
        /\ receipt' = [on |-> dest, len |-> content[dest].len]
        /\ Terminal(p, "done") /\ UNCHANGED faults
     \/ dest = None /\ receipt' = None /\ Throw(p) /\ UNCHANGED faults
     \/ dest # None /\ receipt' = None /\ Throw(p) /\ Fault
  /\ UNCHANGED <<content, part, dest, cancel_, curl, env>>

----------------------------------------------------------------------------
\* curl: appends what it receives to the file it has opened.

Appended(c, ok) ==
  [content EXCEPT ![c.on] = [len  |-> @.len + 1,
                             good |-> ok /\ @.good /\ @.len = c.pos]]

CurlWrites(c, d) ==
  /\ c.st = "run" /\ c.pos < Size
  /\ \/ content' = Appended(c, TRUE) /\ UNCHANGED faults
     \/ content' = Appended(c, FALSE) /\ Fault
  /\ d = [c EXCEPT !.pos = @ + 1]

CurlEnds(c, d) ==
  /\ c.st = "run"
  /\ \/ c.pos = Size /\ d = [c EXCEPT !.st = "exit0"] /\ UNCHANGED faults
     \/ d = [c EXCEPT !.st = "error"] /\ Fault
     \/ c.pos > 0 /\ d = [c EXCEPT !.st = "exit33"] /\ Fault
  /\ UNCHANGED content

CurlStep(p) ==
  /\ \E d \in Curl : /\ CurlWrites(curl[p], d) \/ CurlEnds(curl[p], d)
                     /\ curl' = [curl EXCEPT ![p] = d]
  /\ UNCHANGED <<part, dest, receipt, state_, cancel_, pc, env>>

\* Nobody reads from an orphan; it ends when it is done or finds that out.
OrphanStep ==
  /\ orphan.st = "run"
  /\ \/ /\ \E d \in Curl : CurlWrites(orphan, d) /\ orphan' = d
     \/ orphan' = NoCurl /\ UNCHANGED <<content, faults>>
  /\ UNCHANGED <<part, dest, receipt, state_, cancel_, pc, curl, up, crashes>>

----------------------------------------------------------------------------
\* A Studio crashes; its curl goes on until it notices.

Crash(p) ==
  /\ up[p] /\ crashes < MaxCrashes
  /\ orphan.st = "none"
  /\ up' = [up EXCEPT ![p] = FALSE]
  /\ crashes' = crashes + 1
  /\ orphan' = IF curl[p].st = "run" THEN curl[p] ELSE orphan
  /\ curl' = [curl EXCEPT ![p] = NoCurl]
  /\ pc' = [pc EXCEPT ![p] = "none"]
  /\ state_' = [state_ EXCEPT ![p] = "idle"]
  /\ cancel_' = [cancel_ EXCEPT ![p] = FALSE]
  /\ UNCHANGED <<files, faults>>

Restart(p) ==
  /\ ~up[p]
  /\ up' = [up EXCEPT ![p] = TRUE]
  /\ UNCHANGED <<files, state_, cancel_, pc, curl, orphan, crashes, faults>>

----------------------------------------------------------------------------
Worker(p) ==
  \/ Check(p) \/ HashCached(p) \/ Fetch(p) \/ FetchFails(p) \/ Reap(p)
  \/ CheckSize(p) \/ Hash(p) \/ Guard(p) \/ Remove(p) \/ Rename(p)
  \/ WriteReceipt(p)

Next ==
  \/ \E p \in Procs :
       \/ Refuse(p) \/ Start(p) \/ Cancel(p)
       \/ Worker(p) \/ CurlStep(p)
       \/ Crash(p) \/ Restart(p)
  \/ OrphanStep

\* The worker thread runs; curl ends (--speed-time, --connect-timeout).
Fairness == \A p \in Procs : WF_vars(Worker(p)) /\ WF_vars(CurlStep(p))

Spec == Init /\ [][Next]_vars /\ Fairness

----------------------------------------------------------------------------
(* Properties *)

\* With one Studio at a time, a destination that verified_download_ready
\* accepts holds the model, whatever an abandoned curl, a crash or a fault did
\* to the files: what the receipt certifies can only have grown since it was
\* hashed (model_download.hpp, verified_download_ready). Two Studios can break
\* it: between the hash and the rename of one, the other can replace the
\* partial file.
ReadyIsVerified == Ready => Complete(dest)

\* A Studio alone never gives up a verified destination without a verified
\* partial file to put in its place: failures, cancellations and crashes
\* leave the cached model (model_download.cpp, finish).
KeepsDestination ==
  content' = content /\ Complete(dest) => Complete(dest)' \/ Complete(part)'
CacheKept == [][KeepsDestination]_vars

\* A download ends, whatever the transfer and the other Studio do.
DownloadEnds ==
  \A p \in Procs : (state_[p] = "running") ~> (state_[p] # "running")

=============================================================================
