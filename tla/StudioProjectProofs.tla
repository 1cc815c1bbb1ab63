------------------------- MODULE StudioProjectProofs -------------------------
(***************************************************************************)
(* For all sets of commands and users' sessions, all earlier results and   *)
(* every bound.  In a project that command lines write, every stage fits   *)
(* the cameras and a run that ends with 0 has stored what it made; what    *)
(* Studio saves is what it showed; saved progress is that of the saved     *)
(* Gaussians; what Studio made and the user edited is in the project when  *)
(* Studio closes without a question.                                       *)
(*                                                                         *)
(* A run holds a copy of the chunks and saves it several times, so the     *)
(* invariant says for every place in a run which results the copy and the  *)
(* file have, and from which cameras each result of the run was computed.  *)
(***************************************************************************)
EXTENDS StudioProject, TLAPS

Commanded == "commands" \in Uses

Copied == [sfm : Nat, gs : Nat, mesh : Nat, tex : Nat, ckpt : Nat]

Before == {"dataset", "cameras", "align"}
Loaded == Before \cup {"publish", "densify", "train"}
Places == Loaded \cup {"keep", "store", "clean", "extract", "surface", "texture", "done"}

Flags == [bake : BOOLEAN, only : BOOLEAN, texture : BOOLEAN, mesh : BOOLEAN,
          dense : BOOLEAN, splat : BOOLEAN, dataset : BOOLEAN]
Runs == [q : Flags, gui : BOOLEAN, proj : BOOLEAN, fresh : BOOLEAN, pc : Places,
         arch : Chunks, scene : Nat, model : Nat, surface : Nat]

Numbered(arch) ==
  /\ arch \in Chunks
  /\ {arch.sfm, arch.gs, arch.mesh, arch.tex} \subseteq 0 .. Len(made)

\* Who the runs are made by.
Owner ==
  /\ Commanded => Uses = {"commands"}
  /\ ~Commanded => /\ "partial" \in DOMAIN st
                   /\ run # None => "gui" \in DOMAIN run /\ run.gui
                   /\ file # None => {"gs", "info"} \subseteq DOMAIN file

\* A session of command lines leaves Studio and its working copies alone.
Quiet ==
  /\ st.kind = None /\ st.pending = 0 /\ st.models = <<>> /\ st.ready = 0 /\ st.edit = 0
  /\ ~st.proj
  /\ store \in [BOOLEAN -> Copied]
  /\ store[TRUE] = NoCopies
  /\ store[FALSE].sfm = 0 /\ store[FALSE].gs \in 0 .. Len(made)

Results ==
  /\ made \in Seq([kind : Kinds, from : SUBSET Nat])
  /\ \A n \in 1 .. Len(made) : made[n].from \subseteq 1 .. n - 1
  /\ file # None => Numbered(file)

RunTypes ==
  /\ exit = None
  /\ run \in Runs
  /\ ~run.gui /\ run.proj /\ ~run.q.bake
  /\ Numbered(run.arch)
  /\ {run.scene, run.model, run.surface} \subseteq 0 .. Len(made)

\* What a run has at the places that it passes.
RunHas ==
  /\ run.q.dataset => run.scene = 0 /\ run.pc \notin {"cameras", "align", "publish"}
  /\ ~run.q.dataset => run.pc # "dataset"
  /\ run.pc \in Before \/ run.q.dataset => ~run.fresh
  /\ run.pc \in Before \cup {"publish", "densify"} => run.surface = 0
  /\ run.pc \in Loaded => run.model = 0
  /\ run.surface # 0 \/ run.pc = "extract" \/ run.q.only => run.q.mesh

\* The cameras of the run and those of the chunks that it holds.
RunCameras ==
  /\ run.pc \in Before => run.scene = 0
  /\ run.pc = "publish" /\ ~run.fresh => run.scene = run.arch.sfm
  /\ run.pc \notin Before \cup {"publish"} => run.scene \in {0, run.arch.sfm}

\* What the project has by then.
RunStored ==
  /\ run.fresh /\ run.pc # "publish" => file = run.arch /\ run.scene = run.arch.sfm
  /\ /\ run.model # 0 /\ ~run.q.only
     /\ run.pc \in {"clean", "extract", "surface", "texture", "done"}
     => file = run.arch /\ run.arch.gs = run.model
  /\ /\ run.surface # 0 /\ (run.q.dataset \/ ~run.q.dense)
     /\ run.pc \in {"texture", "done"}
     => file = run.arch /\ run.arch.mesh = run.surface

Running == run # None => RunTypes /\ RunHas /\ RunCameras /\ RunStored

Session == Quiet /\ Results /\ Running

IInv == Owner /\ (Commanded => Session)

\* The alignments among a result and what it was computed from.
Cams(results, n) == {m \in {n} \cup results[n].from : results[m].kind = "sfm"}

Fits(results, arch) ==
  /\ arch.sfm # 0 => Cams(results, arch.sfm) \subseteq {arch.sfm}
  /\ arch.gs # 0 => Cams(results, arch.gs) \subseteq {arch.sfm}
  /\ arch.mesh # 0 => Cams(results, arch.mesh) \subseteq {arch.sfm}
  /\ arch.tex # 0 => Cams(results, arch.tex) \subseteq {arch.sfm}

\* What a run has made fits its cameras, and external cameras are no result.
RunFits ==
  /\ ~run.q.only
  /\ Fits(made, run.arch)
  /\ run.scene # 0 => Cams(made, run.scene) \subseteq {run.scene} \ {0}
  /\ run.model # 0 => Cams(made, run.model) \subseteq {run.scene} \ {0}
  /\ run.surface # 0 => Cams(made, run.surface) \subseteq {run.scene} \ {0}

Fitting ==
  /\ file # None => Fits(made, file)
  /\ run # None => RunFits

\* Gaussians and training progress go together.
Resumes(arch) == arch.info # 0 /\ arch.gs # 0 => arch.gs = arch.info

Progressed ==
  /\ file # None => Resumes(file)
  /\ run # None => Resumes(run.arch)

-----------------------------------------------------------------------------
(* Results and what they were computed from.                               *)

\* New appends one result, computed from the given ones and from whatever
\* these were computed from.
Grows ==
  /\ made' \in Seq([kind : Kinds, from : SUBSET Nat])
  /\ Len(made)' = Len(made) + 1 /\ Id = Len(made)'
  /\ \A n \in 1 .. Len(made) : made'[n] = made[n]
  /\ \A n \in 1 .. Len(made)' : made'[n].from \subseteq 1 .. n - 1

LEMMA NoNames == <<>> \in Seq(Int)
  OBVIOUS

LEMMA Widen == ASSUME NEW n \in Nat, NEW m, m = n + 1, NEW x \in 0 .. n PROVE x \in 0 .. m
  OBVIOUS

LEMMA NewResult ==
    ASSUME Results, NEW kind \in Kinds, NEW from \in SUBSET (0 .. Len(made)), New(kind, from)
    PROVE  Grows
<1> DEFINE all == (from \ {0}) \cup UNION {made[n].from : n \in from \ {0}}
<1>1. Len(made) \in Nat
  BY DEF Results
<1>2. \A n \in 1 .. Len(made) : made[n].from \subseteq 1 .. n - 1
  BY DEF Results
<1>3. all \subseteq 1 .. Len(made)
  <2> SUFFICES ASSUME NEW x \in all PROVE x \in 1 .. Len(made)
    OBVIOUS
  <2>1. CASE x \in from \ {0}
    BY <1>1, <2>1
  <2>2. ASSUME NEW n \in from \ {0}, x \in made[n].from PROVE x \in 1 .. Len(made)
    BY <1>1, <1>2, <2>2
  <2> QED
    BY <2>1, <2>2
<1> DEFINE r == [kind |-> kind, from |-> all]
<1>4. made' = Append(made, r)
  BY DEF New
<1>5. r \in [kind : Kinds, from : SUBSET Nat] /\ r.kind = kind /\ r.from = all
  BY <1>1, <1>3
<1> HIDE DEF all, r
<1>6. /\ made' \in Seq([kind : Kinds, from : SUBSET Nat])
      /\ Len(made)' = Len(made) + 1 /\ made'[Len(made) + 1] = r
      /\ \A n \in 1 .. Len(made) : made'[n] = made[n]
  BY <1>4, <1>5 DEF Results
<1>7. \A n \in 1 .. Len(made)' : made'[n].from \subseteq 1 .. n - 1
  <2> SUFFICES ASSUME NEW n \in 1 .. Len(made)' PROVE made'[n].from \subseteq 1 .. n - 1
    OBVIOUS
  <2>1. CASE n = Len(made) + 1
    BY <1>1, <1>3, <1>5, <1>6, <2>1
  <2>2. CASE n \in 1 .. Len(made)
    BY <1>2, <1>6, <2>2
  <2> QED
    BY <1>1, <1>6, <2>1, <2>2
<1> QED
  BY <1>1, <1>5, <1>6, <1>7 DEF Id, all, Grows

LEMMA NewFrom ==
    ASSUME Results, NEW kind \in Kinds, NEW from \in SUBSET (0 .. Len(made)), New(kind, from)
    PROVE  /\ made'[Id].kind = kind
           /\ made'[Id].from = (from \ {0}) \cup UNION {made[n].from : n \in from \ {0}}
<1> DEFINE all == (from \ {0}) \cup UNION {made[n].from : n \in from \ {0}}
<1> DEFINE r == [kind |-> kind, from |-> all]
<1>1. made' = Append(made, r)
  BY DEF New
<1>2. r.kind = kind /\ r.from = all
  OBVIOUS
<1> HIDE DEF all, r
<1>3. made'[Len(made) + 1] = r
  BY <1>1 DEF Results
<1> QED
  BY <1>2, <1>3 DEF Id, all

\* So it adds no alignment to those of its sources, unless it is one.
LEMMA NewCams ==
    ASSUME Results, NEW kind \in Kinds, NEW from \in SUBSET (0 .. Len(made)), New(kind, from),
           NEW S, \A n \in from \ {0} : Cams(made, n) \subseteq S
    PROVE  /\ kind # "sfm" => Cams(made', Id) \subseteq S
           /\ Cams(made', Id) \subseteq S \cup {Id}
           /\ \A n \in 1 .. Len(made) : Cams(made', n) = Cams(made, n)
<1>1. /\ Len(made) \in Nat /\ Grows
      /\ \A n \in 1 .. Len(made) : made[n].from \subseteq 1 .. n - 1
  BY NewResult DEF Results
<1>2. /\ made'[Id].kind = kind
      /\ made'[Id].from = (from \ {0}) \cup UNION {made[n].from : n \in from \ {0}}
  BY NewFrom
<1>3. ASSUME NEW n \in 1 .. Len(made) PROVE Cams(made', n) = Cams(made, n)
  <2>1. \A m \in {n} \cup made[n].from : m \in 1 .. Len(made)
    BY <1>1, <1>3
  <2>2. made'[n] = made[n] /\ \A m \in 1 .. Len(made) : made'[m] = made[m]
    BY <1>1, <1>3 DEF Grows
  <2> QED
    BY <2>1, <2>2 DEF Cams
<1>4. ASSUME NEW m \in {Id} \cup made'[Id].from, made'[m].kind = "sfm", m # Id
      PROVE  m \in S
  <2>1. PICK n \in from \ {0} : m \in {n} \cup made[n].from
    BY <1>2, <1>4
  <2>2. n \in 1 .. Len(made) /\ made[n].from \subseteq 1 .. n - 1
    BY <1>1
  <2>3. m \in 1 .. Len(made)
    BY <1>1, <2>1, <2>2
  <2>4. made'[m] = made[m]
    BY <1>1, <2>3 DEF Grows
  <2>5. m \in Cams(made, n)
    BY <1>4, <2>1, <2>4 DEF Cams
  <2> QED
    BY <2>5
<1>5. kind # "sfm" => Cams(made', Id) \subseteq S
  BY <1>2, <1>4 DEF Cams
<1>6. Cams(made', Id) \subseteq S \cup {Id}
  BY <1>4 DEF Cams
<1> QED
  BY <1>3, <1>5, <1>6

LEMMA FitsKept ==
    ASSUME Results, NEW new, \A n \in 1 .. Len(made) : Cams(new, n) = Cams(made, n),
           NEW arch, Numbered(arch), Fits(made, arch)
    PROVE  Fits(new, arch)
<1>1. \A x \in {arch.sfm, arch.gs, arch.mesh, arch.tex} :
        x # 0 => Cams(new, x) = Cams(made, x)
  BY DEF Numbered, Results
<1> QED
  BY <1>1 DEF Fits

-----------------------------------------------------------------------------
(* The steps of a run.                                                     *)

LEMMA LoadDatasetKept ==
    ASSUME Session, LoadDataset, UNCHANGED st
    PROVE  Session' /\ (Fitting => Fitting') /\ (Progressed => Progressed')
<1>1. run # None /\ RunTypes /\ RunHas /\ RunCameras /\ RunStored /\ Results /\ Quiet
  BY DEF Session, Running, LoadDataset, At
<1>2. /\ run' \in Runs /\ run'.arch \in Chunks /\ ~run'.gui /\ run'.proj /\ run'.q = run.q
      /\ run'.fresh = run.fresh /\ run'.pc \in {"train", "densify"} /\ run'.scene = run.scene
      /\ run'.model = run.model /\ run'.surface = run.surface
      /\ run'.arch = [run.arch EXCEPT !.list = <<>>]
      /\ UNCHANGED file
  BY <1>1, NoNames DEF LoadDataset, At, WritesProject, RunTypes, RunHas, Runs, Places, Loaded,
     Before, Chunks
<1>3. /\ run'.arch.sfm = run.arch.sfm /\ run'.arch.gs = run.arch.gs
      /\ run'.arch.mesh = run.arch.mesh /\ run'.arch.tex = run.arch.tex /\ run'.arch.info = run.arch.info
  BY <1>1, <1>2 DEF RunTypes, Numbered, Chunks
<1>4. UNCHANGED store
  BY <1>1 DEF LoadDataset
<1>5. Quiet'
  BY <1>1, <1>2, <1>3, <1>4 DEF RunTypes, Quiet, Copied, NoCopies, LoadDataset
<1>6. Results'
  BY <1>1, <1>2, <1>3 DEF LoadDataset, RunTypes, Results, Numbered
<1>7. RunTypes'
  BY <1>1, <1>2, <1>3 DEF LoadDataset, RunTypes, RunHas, Results, Numbered
<1>8. RunHas'
  BY <1>1, <1>2, <1>3 DEF RunHas, Loaded, Before, LoadDataset, At
<1>9. RunCameras'
  BY <1>1, <1>2, <1>3 DEF RunHas, RunCameras, Loaded, Before, LoadDataset, At
<1>10. RunStored'
  BY <1>1, <1>2, <1>3 DEF RunTypes, RunHas, RunCameras, RunStored, Loaded, Before,
     LoadDataset, At
<1>11. Fitting => Fitting'
  BY <1>1, <1>2, <1>3 DEF LoadDataset, RunTypes, RunCameras, Fitting, RunFits, Fits,
     Numbered, Results, Before, At
<1>12. Progressed => Progressed'
  BY <1>1, <1>2, <1>3 DEF RunTypes, Progressed, Resumes
<1> QED
  BY <1>5, <1>6, <1>7, <1>8, <1>9, <1>10, <1>11, <1>12 DEF Session, Running

LEMMA LoadCamerasKept ==
    ASSUME Session, LoadCameras, UNCHANGED st
    PROVE  Session' /\ (Fitting => Fitting') /\ (Progressed => Progressed')
<1>1. run # None /\ RunTypes /\ RunHas /\ RunCameras /\ RunStored /\ Results /\ Quiet
  BY DEF Session, Running, LoadCameras, At
<1>2. CASE run' = None
  <2>1. UNCHANGED <<file, made, store>>
    BY <1>1, <1>2 DEF LoadCameras, At, Goto, End, Quiet
  <2> QED
    BY <1>1, <1>2, <2>1 DEF Session, Running, Quiet, Results, Numbered, Fitting,
       Progressed
<1>3. CASE run' # None /\ run'.pc = "align"
  <2>1. /\ run' \in Runs /\ run'.arch \in Chunks /\ ~run'.gui /\ run'.proj /\ run'.q = run.q
        /\ run'.fresh = run.fresh /\ run'.pc = "align" /\ run'.scene = run.scene
        /\ run'.model = run.model /\ run'.surface = run.surface
        /\ run'.arch = run.arch
        /\ UNCHANGED file
    BY <1>1, <1>3 DEF LoadCameras, At, Goto, End, Quiet, RunTypes, RunHas, Runs,
       Places, Loaded, Before, Chunks
  <2>2. UNCHANGED store
    BY <1>1, <1>3 DEF LoadCameras
  <2>3. Quiet'
    BY <1>1, <1>3, <2>1, <2>2 DEF RunTypes, Quiet, Copied, NoCopies, LoadCameras
  <2>4. Results'
    BY <1>1, <1>3, <2>1 DEF LoadCameras, RunTypes, Results, Numbered
  <2>5. RunTypes'
    BY <1>1, <1>3, <2>1 DEF LoadCameras, RunTypes, RunHas, Results, Numbered
  <2>6. RunHas'
    BY <1>1, <1>3, <2>1 DEF RunHas, Loaded, Before, LoadCameras, At
  <2>7. RunCameras'
    BY <1>1, <1>3, <2>1 DEF RunHas, RunCameras, Loaded, Before, LoadCameras, At
  <2>8. RunStored'
    BY <1>1, <1>3, <2>1 DEF RunTypes, RunHas, RunCameras, RunStored, Loaded, Before,
       LoadCameras, At
  <2>9. Fitting => Fitting'
    BY <1>1, <1>3, <2>1 DEF LoadCameras, RunTypes, RunCameras, Fitting, RunFits, Fits,
       Numbered, Results, Before, At
  <2>10. Progressed => Progressed'
    BY <1>1, <1>3, <2>1 DEF RunTypes, Progressed, Resumes
  <2> QED
    BY <2>3, <2>4, <2>5, <2>6, <2>7, <2>8, <2>9, <2>10 DEF Session, Running
<1>4. CASE run' # None /\ run'.pc = "publish"
  <2>1. /\ run' \in Runs /\ run'.arch \in Chunks /\ ~run'.gui /\ run'.proj /\ run'.q = run.q
        /\ run'.fresh = run.fresh /\ run'.pc = "publish" /\ run'.scene = run.arch.sfm
        /\ run'.model = run.model /\ run'.surface = run.surface
        /\ run'.arch = run.arch
        /\ UNCHANGED file
    BY <1>1, <1>4 DEF LoadCameras, At, Goto, End, Quiet, RunTypes, RunHas, Runs,
       Places, Loaded, Before, Chunks
  <2>2. UNCHANGED store
    BY <1>1, <1>4 DEF LoadCameras
  <2>3. Quiet'
    BY <1>1, <1>4, <2>1, <2>2 DEF RunTypes, Quiet, Copied, NoCopies, LoadCameras
  <2>4. Results'
    BY <1>1, <1>4, <2>1 DEF LoadCameras, RunTypes, Results, Numbered
  <2>5. RunTypes'
    BY <1>1, <1>4, <2>1 DEF LoadCameras, RunTypes, RunHas, Results, Numbered
  <2>6. RunHas'
    BY <1>1, <1>4, <2>1 DEF RunHas, Loaded, Before, LoadCameras, At
  <2>7. RunCameras'
    BY <1>1, <1>4, <2>1 DEF RunHas, RunCameras, Loaded, Before, LoadCameras, At
  <2>8. RunStored'
    BY <1>1, <1>4, <2>1 DEF RunTypes, RunHas, RunCameras, RunStored, Loaded, Before,
       LoadCameras, At
  <2>9. Fitting => Fitting'
    BY <1>1, <1>4, <2>1 DEF LoadCameras, RunTypes, RunCameras, Fitting, RunFits, Fits,
       Numbered, Results, Before, At
  <2>10. Progressed => Progressed'
    BY <1>1, <1>4, <2>1 DEF RunTypes, Progressed, Resumes
  <2> QED
    BY <2>3, <2>4, <2>5, <2>6, <2>7, <2>8, <2>9, <2>10 DEF Session, Running
<1> QED
  BY <1>1, <1>2, <1>3, <1>4 DEF LoadCameras, At, End, Goto, RunTypes, Runs

LEMMA AlignKept ==
    ASSUME Session, Align, UNCHANGED st
    PROVE  Session' /\ (Fitting => Fitting') /\ (Progressed => Progressed')
<1>1. run # None /\ RunTypes /\ RunHas /\ RunCameras /\ RunStored /\ Results /\ Quiet
  BY DEF Session, Running, Align, At
<1>2. {} \in SUBSET (0 .. Len(made)) /\ "sfm" \in Kinds /\ Len(made) \in Nat
  BY <1>1 DEF RunTypes, Kinds, Stages, Results
<1>3. CASE run' = [run EXCEPT !.scene = Id, !.fresh = TRUE, !.pc = "publish"] /\ New("sfm", {})
  <2>1. New("sfm", {})
    BY <1>1, <1>3 DEF Align, End
  <2>2. Grows
    BY <1>1, <1>2, <2>1, NewResult
  <2>3. Len(made) \in Nat /\ Id \in Nat /\ Id # 0 /\ Id = Len(made)' /\ Len(made)' = Len(made) + 1
    BY <1>2, <2>2 DEF Grows
  <2>4. Fitting =>
          /\ Cams(made', Id) \subseteq {Id}
          /\ \A n \in 1 .. Len(made) : Cams(made', n) = Cams(made, n)
    <3> SUFFICES ASSUME Fitting
                 PROVE  /\ Cams(made', Id) \subseteq {Id}
                        /\ \A n \in 1 .. Len(made) : Cams(made', n) = Cams(made, n)
      OBVIOUS
    <3> DEFINE S == {}
    <3>1. \A n \in {} \ {0} : Cams(made, n) \subseteq S
      BY <1>1 DEF Fitting, RunFits
    <3> HIDE DEF S
    <3>2. /\ "sfm" # "sfm" => Cams(made', Id) \subseteq S
          /\ Cams(made', Id) \subseteq S \cup {Id}
          /\ \A n \in 1 .. Len(made) : Cams(made', n) = Cams(made, n)
      BY <1>1, <1>2, <2>1, <3>1, NewCams
    <3> QED
      BY <3>2 DEF S
  <2>5. Fitting =>
          /\ file # None => Fits(made', file)
          /\ Fits(made', run.arch)
    BY <1>1, <1>2, <2>4, FitsKept DEF Fitting, RunFits, RunTypes, Results, Numbered
  <2>6. Fitting =>
          /\ run.scene # 0 => Cams(made', run.scene) \subseteq {run.scene} \ {0}
          /\ run.model # 0 => Cams(made', run.model) \subseteq {run.scene} \ {0}
          /\ run.surface # 0 => Cams(made', run.surface) \subseteq {run.scene} \ {0}
    BY <1>1, <1>2, <2>4 DEF Fitting, RunFits, RunTypes
  <2>7. /\ run' \in Runs /\ run'.arch \in Chunks /\ ~run'.gui /\ run'.proj /\ run'.q = run.q
        /\ run'.fresh /\ run'.pc = "publish" /\ run'.scene = Id
        /\ run'.model = run.model /\ run'.surface = run.surface
        /\ run'.arch = run.arch
        /\ UNCHANGED file
    BY <1>1, <1>3, <2>3 DEF Align, At, End, RunTypes, RunHas, Runs, Places, Loaded,
       Before, Chunks
  <2>8. store' = [store EXCEPT ![run.gui] = [store[run.gui] EXCEPT !.sfm = 0]]
    BY <1>1, <1>3, <2>3 DEF Align, RunTypes, Runs
  <2>9. /\ store' \in [BOOLEAN -> Copied] /\ store'[TRUE] = NoCopies
        /\ store'[FALSE].sfm = 0 /\ store'[FALSE].gs = store[FALSE].gs
    BY <1>1, <1>3, <2>3, <2>8 DEF RunTypes, Runs, Quiet, Copied, NoCopies
  <2>10. store[FALSE].gs \in 0 .. Len(made)'
    BY <1>1, <1>3, <2>3, <2>8, Widen DEF Quiet
  <2>11. Quiet'
    BY <1>1, <1>3, <2>3, <2>7, <2>9, <2>10 DEF RunTypes, Quiet, Copied, NoCopies
  <2>12. Results'
    BY <1>1, <1>3, <2>3, <2>7, <2>2 DEF Grows, RunTypes, Results, Numbered
  <2>13. RunTypes'
    BY <1>1, <1>3, <2>3, <2>7 DEF Align, RunTypes, RunHas, Results, Numbered
  <2>14. RunHas'
    BY <1>1, <1>3, <2>3, <2>7 DEF RunHas, Loaded, Before, Align, At
  <2>15. RunCameras'
    BY <1>1, <1>3, <2>3, <2>7 DEF RunHas, RunCameras, Loaded, Before, Align, At
  <2>16. RunStored'
    BY <1>1, <1>3, <2>3, <2>7 DEF RunTypes, RunHas, RunCameras, RunStored, Loaded,
       Before, Align, At
  <2>17. Fitting => Fitting'
    BY <1>1, <1>3, <2>3, <2>7, <2>4, <2>5, <2>6 DEF RunHas, Loaded, RunTypes,
       RunCameras, Fitting, RunFits, Numbered, Results, Before, Align, At
  <2>18. Progressed => Progressed'
    BY <1>1, <1>3, <2>3, <2>7 DEF RunTypes, Progressed, Resumes
  <2> QED
    BY <2>11, <2>12, <2>13, <2>14, <2>15, <2>16, <2>17, <2>18 DEF Session, Running
<1>4. CASE End(2) /\ UNCHANGED <<made, store>>
  <2>1. UNCHANGED <<file, made, store>>
    BY <1>1, <1>4 DEF Align, At, End
  <2> QED
    BY <1>1, <1>4, <2>1 DEF Session, Running, Quiet, Results, Numbered, Fitting,
       Progressed, End
<1> QED
  BY <1>1, <1>3, <1>4 DEF Align, At, End, Goto, RunTypes, Runs

LEMMA PublishKept ==
    ASSUME Session, Publish, UNCHANGED st
    PROVE  Session' /\ (Fitting => Fitting') /\ (Progressed => Progressed')
<1>1. run # None /\ RunTypes /\ RunHas /\ RunCameras /\ RunStored /\ Results /\ Quiet
  BY DEF Session, Running, Publish, At
<1>2. CASE run.fresh
  <2>1. /\ run' \in Runs /\ run'.arch \in Chunks /\ ~run'.gui /\ run'.proj /\ run'.q = run.q
        /\ run'.fresh = run.fresh /\ run'.pc \in {"densify", "train", "done"} /\ run'.scene = run.scene
        /\ run'.model = run.model /\ run'.surface = run.surface
        /\ run'.arch = ReplaceSfm(run.arch, run.scene)
        /\ file' = run'.arch
    BY <1>1, <1>2, NoNames DEF Publish, At, ReplaceSfm, WritesProject, RunTypes, RunHas, Runs,
       Places, Loaded, Before, Chunks
  <2>2. /\ run'.arch.sfm = run.scene /\ run'.arch.gs = 0
        /\ run'.arch.mesh = 0 /\ run'.arch.tex = 0 /\ run'.arch.info = run.arch.info
    BY <1>1, <1>2, <2>1 DEF RunTypes, Numbered, Chunks, ReplaceSfm
  <2>3. UNCHANGED store
    BY <1>1, <1>2 DEF Publish
  <2>4. Quiet'
    BY <1>1, <1>2, <2>1, <2>2, <2>3 DEF RunTypes, Quiet, Copied, NoCopies, Publish
  <2>5. Results'
    BY <1>1, <1>2, <2>1, <2>2 DEF Publish, RunTypes, Results, Numbered
  <2>6. RunTypes'
    BY <1>1, <1>2, <2>1, <2>2 DEF Publish, RunTypes, RunHas, Results, Numbered
  <2>7. RunHas'
    BY <1>1, <1>2, <2>1, <2>2 DEF RunHas, Loaded, Before, Publish, At
  <2>8. RunCameras'
    BY <1>1, <1>2, <2>1, <2>2 DEF RunHas, RunCameras, Loaded, Before, Publish, At
  <2>9. RunStored'
    BY <1>1, <1>2, <2>1, <2>2 DEF RunTypes, RunHas, RunCameras, RunStored, Loaded,
       Before, Publish, At
  <2>10. Fitting => Fitting'
    BY <1>1, <1>2, <2>1, <2>2 DEF Publish, RunTypes, RunCameras, Fitting, RunFits,
       Fits, Numbered, Results, Before, At
  <2>11. Progressed => Progressed'
    BY <1>1, <1>2, <2>1, <2>2 DEF RunTypes, Progressed, Resumes
  <2> QED
    BY <2>4, <2>5, <2>6, <2>7, <2>8, <2>9, <2>10, <2>11 DEF Session, Running
<1>3. CASE ~run.fresh
  <2>1. /\ run' \in Runs /\ run'.arch \in Chunks /\ ~run'.gui /\ run'.proj /\ run'.q = run.q
        /\ run'.fresh = run.fresh /\ run'.pc \in {"densify", "train", "done"} /\ run'.scene = run.scene
        /\ run'.model = run.model /\ run'.surface = run.surface
        /\ run'.arch = [run.arch EXCEPT !.list = <<>>]
        /\ file' = run'.arch
    BY <1>1, <1>3, NoNames DEF Publish, At, ReplaceSfm, WritesProject, RunTypes, RunHas, Runs,
       Places, Loaded, Before, Chunks
  <2>2. /\ run'.arch.sfm = run.arch.sfm /\ run'.arch.gs = run.arch.gs
        /\ run'.arch.mesh = run.arch.mesh /\ run'.arch.tex = run.arch.tex /\ run'.arch.info = run.arch.info
    BY <1>1, <1>3, <2>1 DEF RunTypes, Numbered, Chunks
  <2>3. UNCHANGED store
    BY <1>1, <1>3 DEF Publish
  <2>4. Quiet'
    BY <1>1, <1>3, <2>1, <2>2, <2>3 DEF RunTypes, Quiet, Copied, NoCopies, Publish
  <2>5. Results'
    BY <1>1, <1>3, <2>1, <2>2 DEF Publish, RunTypes, Results, Numbered
  <2>6. RunTypes'
    BY <1>1, <1>3, <2>1, <2>2 DEF Publish, RunTypes, RunHas, Results, Numbered
  <2>7. RunHas'
    BY <1>1, <1>3, <2>1, <2>2 DEF RunHas, Loaded, Before, Publish, At
  <2>8. RunCameras'
    BY <1>1, <1>3, <2>1, <2>2 DEF RunHas, RunCameras, Loaded, Before, Publish, At
  <2>9. RunStored'
    BY <1>1, <1>3, <2>1, <2>2 DEF RunTypes, RunHas, RunCameras, RunStored, Loaded,
       Before, Publish, At
  <2>10. Fitting => Fitting'
    BY <1>1, <1>3, <2>1, <2>2 DEF Publish, RunTypes, RunCameras, Fitting, RunFits,
       Fits, Numbered, Results, Before, At
  <2>11. Progressed => Progressed'
    BY <1>1, <1>3, <2>1, <2>2 DEF RunTypes, Progressed, Resumes
  <2> QED
    BY <2>4, <2>5, <2>6, <2>7, <2>8, <2>9, <2>10, <2>11 DEF Session, Running
<1> QED
  BY <1>1, <1>2, <1>3

LEMMA DensifyKept ==
    ASSUME Session, Densify, UNCHANGED st
    PROVE  Session' /\ (Fitting => Fitting') /\ (Progressed => Progressed')
<1>1. run # None /\ RunTypes /\ RunHas /\ RunCameras /\ RunStored /\ Results /\ Quiet
  BY DEF Session, Running, Densify, At
<1>2. {run.scene} \in SUBSET (0 .. Len(made)) /\ "mesh" \in Kinds /\ Len(made) \in Nat
  BY <1>1 DEF RunTypes, Kinds, Stages, Results
<1>3. CASE run.q.mesh /\ (run.q.dataset \/ run.q.texture \/ ~run.q.splat)
  <2>1. New("mesh", {run.scene})
    BY <1>1, <1>3 DEF Densify
  <2>2. Grows
    BY <1>1, <1>2, <2>1, NewResult
  <2>3. Len(made) \in Nat /\ Id \in Nat /\ Id # 0 /\ Id = Len(made)' /\ Len(made)' = Len(made) + 1
    BY <1>2, <2>2 DEF Grows
  <2>4. Fitting =>
          /\ Cams(made', Id) \subseteq {run.scene} \ {0}
          /\ \A n \in 1 .. Len(made) : Cams(made', n) = Cams(made, n)
    <3> SUFFICES ASSUME Fitting
                 PROVE  /\ Cams(made', Id) \subseteq {run.scene} \ {0}
                        /\ \A n \in 1 .. Len(made) : Cams(made', n) = Cams(made, n)
      OBVIOUS
    <3> DEFINE S == {run.scene} \ {0}
    <3>1. \A n \in {run.scene} \ {0} : Cams(made, n) \subseteq S
      BY <1>1 DEF Fitting, RunFits
    <3> HIDE DEF S
    <3>2. /\ "mesh" # "sfm" => Cams(made', Id) \subseteq S
          /\ Cams(made', Id) \subseteq S \cup {Id}
          /\ \A n \in 1 .. Len(made) : Cams(made', n) = Cams(made, n)
      BY <1>1, <1>2, <2>1, <3>1, NewCams
    <3> QED
      BY <3>2 DEF S
  <2>5. Fitting =>
          /\ file # None => Fits(made', file)
          /\ Fits(made', run.arch)
    BY <1>1, <1>2, <2>4, FitsKept DEF Fitting, RunFits, RunTypes, Results, Numbered
  <2>6. Fitting =>
          /\ run.scene # 0 => Cams(made', run.scene) \subseteq {run.scene} \ {0}
          /\ run.model # 0 => Cams(made', run.model) \subseteq {run.scene} \ {0}
          /\ run.surface # 0 => Cams(made', run.surface) \subseteq {run.scene} \ {0}
    BY <1>1, <1>2, <2>4 DEF Fitting, RunFits, RunTypes
  <2>7. run' = [run EXCEPT !.surface = Id, !.pc = IF run.q.splat THEN "train" ELSE "surface"] /\ UNCHANGED file
    BY <1>1, <1>3, <2>3 DEF Densify, At, Goto, RunTypes, Runs
  <2>8. /\ run' \in Runs /\ run'.arch \in Chunks /\ ~run'.gui /\ run'.proj /\ run'.q = run.q
        /\ run'.fresh = run.fresh /\ run'.pc \in {"train", "surface"} /\ run'.scene = run.scene
        /\ run'.model = run.model /\ run'.surface = Id
        /\ run'.arch = run.arch
        /\ UNCHANGED file
    BY <1>1, <1>3, <2>3, <2>7 DEF RunTypes, RunHas, Runs, Places, Loaded, Before,
       Chunks
  <2>9. UNCHANGED store
    BY <1>1, <1>3, <2>3, <2>7 DEF Densify
  <2>10. store[FALSE].gs \in 0 .. Len(made)'
    BY <1>1, <1>3, <2>3, <2>7, Widen DEF Quiet
  <2>11. Quiet'
    BY <1>1, <1>3, <2>3, <2>7, <2>8, <2>9, <2>10 DEF RunTypes, Quiet, Copied, NoCopies
  <2>12. Results'
    BY <1>1, <1>3, <2>3, <2>7, <2>8, <2>2 DEF Grows, RunTypes, Results, Numbered
  <2>13. RunTypes'
    BY <1>1, <1>3, <2>3, <2>7, <2>8 DEF Densify, RunTypes, RunHas, Results, Numbered
  <2>14. RunHas'
    BY <1>1, <1>3, <2>3, <2>7, <2>8 DEF RunHas, Loaded, Before, Densify, At
  <2>15. RunCameras'
    BY <1>1, <1>3, <2>3, <2>7, <2>8 DEF RunHas, RunCameras, Loaded, Before, Densify, At
  <2>16. RunStored'
    BY <1>1, <1>3, <2>3, <2>7, <2>8 DEF RunTypes, RunHas, RunCameras, RunStored,
       Loaded, Before, Densify, At
  <2>17. Fitting => Fitting'
    BY <1>1, <1>3, <2>3, <2>7, <2>8, <2>4, <2>5, <2>6 DEF RunTypes, RunCameras,
       Fitting, RunFits, Numbered, Results, Before
  <2>18. Progressed => Progressed'
    BY <1>1, <1>3, <2>3, <2>7, <2>8 DEF RunTypes, Progressed, Resumes
  <2> QED
    BY <2>11, <2>12, <2>13, <2>14, <2>15, <2>16, <2>17, <2>18 DEF Session, Running
<1>4. CASE ~(run.q.mesh /\ (run.q.dataset \/ run.q.texture \/ ~run.q.splat))
  <2>1. run' = [run EXCEPT !.pc = IF run.q.splat THEN "train" ELSE "done"] /\ UNCHANGED <<file, made>>
    BY <1>1, <1>4 DEF Densify, At, Goto, RunTypes, Runs
  <2>2. /\ run' \in Runs /\ run'.arch \in Chunks /\ ~run'.gui /\ run'.proj /\ run'.q = run.q
        /\ run'.fresh = run.fresh /\ run'.pc \in {"train", "done"} /\ run'.scene = run.scene
        /\ run'.model = run.model /\ run'.surface = run.surface
        /\ run'.arch = run.arch
        /\ UNCHANGED file
    BY <1>1, <1>4, <2>1 DEF RunTypes, RunHas, Runs, Places, Loaded, Before, Chunks
  <2>3. UNCHANGED store
    BY <1>1, <1>4, <2>1 DEF Densify
  <2>4. Quiet'
    BY <1>1, <1>4, <2>1, <2>2, <2>3 DEF RunTypes, Quiet, Copied, NoCopies, Densify
  <2>5. Results'
    BY <1>1, <1>4, <2>1, <2>2 DEF Densify, RunTypes, Results, Numbered
  <2>6. RunTypes'
    BY <1>1, <1>4, <2>1, <2>2 DEF Densify, RunTypes, RunHas, Results, Numbered
  <2>7. RunHas'
    BY <1>1, <1>4, <2>1, <2>2 DEF RunHas, Loaded, Before, Densify, At
  <2>8. RunCameras'
    BY <1>1, <1>4, <2>1, <2>2 DEF RunHas, RunCameras, Loaded, Before, Densify, At
  <2>9. RunStored'
    BY <1>1, <1>4, <2>1, <2>2 DEF RunTypes, RunHas, RunCameras, RunStored, Loaded,
       Before, Densify, At
  <2>10. Fitting => Fitting'
    BY <1>1, <1>4, <2>1, <2>2 DEF Densify, RunTypes, RunCameras, Fitting, RunFits,
       Fits, Numbered, Results, Before, At
  <2>11. Progressed => Progressed'
    BY <1>1, <1>4, <2>1, <2>2 DEF RunTypes, Progressed, Resumes
  <2> QED
    BY <2>4, <2>5, <2>6, <2>7, <2>8, <2>9, <2>10, <2>11 DEF Session, Running
<1> QED
  BY <1>1, <1>3, <1>4

LEMMA CheckpointKept ==
    ASSUME Session, Checkpoint, UNCHANGED st
    PROVE  Session' /\ (Fitting => Fitting') /\ (Progressed => Progressed')
<1>1. run # None /\ RunTypes /\ RunHas /\ RunCameras /\ RunStored /\ Results /\ Quiet
  BY DEF Session, Running, Checkpoint, At
<1>2. {run.scene} \in SUBSET (0 .. Len(made)) /\ "ckpt" \in Kinds /\ Len(made) \in Nat
  BY <1>1 DEF RunTypes, Kinds, Stages, Results
<1>3. New("ckpt", {run.scene})
  BY <1>1 DEF Checkpoint
<1>4. Grows
  BY <1>1, <1>2, <1>3, NewResult
<1>5. Len(made) \in Nat /\ Id \in Nat /\ Id # 0 /\ Id = Len(made)' /\ Len(made)' = Len(made) + 1
  BY <1>2, <1>4 DEF Grows
<1>6. Fitting =>
        /\ Cams(made', Id) \subseteq {run.scene} \ {0}
        /\ \A n \in 1 .. Len(made) : Cams(made', n) = Cams(made, n)
  <2> SUFFICES ASSUME Fitting
               PROVE  /\ Cams(made', Id) \subseteq {run.scene} \ {0}
                      /\ \A n \in 1 .. Len(made) : Cams(made', n) = Cams(made, n)
    OBVIOUS
  <2> DEFINE S == {run.scene} \ {0}
  <2>1. \A n \in {run.scene} \ {0} : Cams(made, n) \subseteq S
    BY <1>1 DEF Fitting, RunFits
  <2> HIDE DEF S
  <2>2. /\ "ckpt" # "sfm" => Cams(made', Id) \subseteq S
        /\ Cams(made', Id) \subseteq S \cup {Id}
        /\ \A n \in 1 .. Len(made) : Cams(made', n) = Cams(made, n)
    BY <1>1, <1>2, <1>3, <2>1, NewCams
  <2> QED
    BY <2>2 DEF S
<1>7. Fitting =>
        /\ file # None => Fits(made', file)
        /\ Fits(made', run.arch)
  BY <1>1, <1>2, <1>6, FitsKept DEF Fitting, RunFits, RunTypes, Results, Numbered
<1>8. Fitting =>
        /\ run.scene # 0 => Cams(made', run.scene) \subseteq {run.scene} \ {0}
        /\ run.model # 0 => Cams(made', run.model) \subseteq {run.scene} \ {0}
        /\ run.surface # 0 => Cams(made', run.surface) \subseteq {run.scene} \ {0}
  BY <1>1, <1>2, <1>6 DEF Fitting, RunFits, RunTypes
<1>9. /\ run' \in Runs /\ run'.arch \in Chunks /\ ~run'.gui /\ run'.proj /\ run'.q = run.q
      /\ run'.fresh = run.fresh /\ run'.pc = run.pc /\ run'.scene = run.scene
      /\ run'.model = run.model /\ run'.surface = run.surface
      /\ run'.arch = run.arch
      /\ UNCHANGED file
  BY <1>1, <1>5 DEF Checkpoint, At, RunTypes, RunHas, Runs, Places, Loaded, Before,
     Chunks
<1>10. /\ store' \in [BOOLEAN -> Copied] /\ store'[TRUE] = NoCopies
      /\ store'[FALSE].sfm = 0 /\ store'[FALSE].gs = store[FALSE].gs
  BY <1>1, <1>5 DEF Checkpoint, RunTypes, Runs, Quiet, Copied, NoCopies
<1>11. store[FALSE].gs \in 0 .. Len(made)'
  BY <1>1, <1>5, Widen DEF Quiet
<1>12. Quiet'
  BY <1>1, <1>5, <1>9, <1>10, <1>11 DEF RunTypes, Quiet, Copied, NoCopies
<1>13. Results'
  BY <1>1, <1>5, <1>9, <1>4 DEF Grows, RunTypes, Results, Numbered
<1>14. RunTypes'
  BY <1>1, <1>5, <1>9 DEF Checkpoint, RunTypes, RunHas, Results, Numbered
<1>15. RunHas'
  BY <1>1, <1>5, <1>9 DEF RunHas, Loaded, Before, Checkpoint, At
<1>16. RunCameras'
  BY <1>1, <1>5, <1>9 DEF RunHas, RunCameras, Loaded, Before, Checkpoint, At
<1>17. RunStored'
  BY <1>1, <1>5, <1>9 DEF RunTypes, RunHas, RunCameras, RunStored, Loaded, Before,
     Checkpoint, At
<1>18. Fitting => Fitting'
  BY <1>1, <1>5, <1>9, <1>6, <1>7, <1>8 DEF RunTypes, RunCameras, Fitting, RunFits,
     Numbered, Results, Before
<1>19. Progressed => Progressed'
  BY <1>1, <1>5, <1>9 DEF RunTypes, Progressed, Resumes
<1> QED
  BY <1>12, <1>13, <1>14, <1>15, <1>16, <1>17, <1>18, <1>19 DEF Session, Running

LEMMA TrainKept ==
    ASSUME Session, Train, UNCHANGED st
    PROVE  Session' /\ (Fitting => Fitting') /\ (Progressed => Progressed')
<1>1. run # None /\ RunTypes /\ RunHas /\ RunCameras /\ RunStored /\ Results /\ Quiet
  BY DEF Session, Running, Train, At
<1>2. {run.scene} \in SUBSET (0 .. Len(made)) /\ "gs" \in Kinds /\ Len(made) \in Nat
  BY <1>1 DEF RunTypes, Kinds, Stages, Results
<1>3. New("gs", {run.scene})
  BY <1>1 DEF Train
<1>4. Grows
  BY <1>1, <1>2, <1>3, NewResult
<1>5. Len(made) \in Nat /\ Id \in Nat /\ Id # 0 /\ Id = Len(made)' /\ Len(made)' = Len(made) + 1
  BY <1>2, <1>4 DEF Grows
<1>6. Fitting =>
        /\ Cams(made', Id) \subseteq {run.scene} \ {0}
        /\ \A n \in 1 .. Len(made) : Cams(made', n) = Cams(made, n)
  <2> SUFFICES ASSUME Fitting
               PROVE  /\ Cams(made', Id) \subseteq {run.scene} \ {0}
                      /\ \A n \in 1 .. Len(made) : Cams(made', n) = Cams(made, n)
    OBVIOUS
  <2> DEFINE S == {run.scene} \ {0}
  <2>1. \A n \in {run.scene} \ {0} : Cams(made, n) \subseteq S
    BY <1>1 DEF Fitting, RunFits
  <2> HIDE DEF S
  <2>2. /\ "gs" # "sfm" => Cams(made', Id) \subseteq S
        /\ Cams(made', Id) \subseteq S \cup {Id}
        /\ \A n \in 1 .. Len(made) : Cams(made', n) = Cams(made, n)
    BY <1>1, <1>2, <1>3, <2>1, NewCams
  <2> QED
    BY <2>2 DEF S
<1>7. Fitting =>
        /\ file # None => Fits(made', file)
        /\ Fits(made', run.arch)
  BY <1>1, <1>2, <1>6, FitsKept DEF Fitting, RunFits, RunTypes, Results, Numbered
<1>8. Fitting =>
        /\ run.scene # 0 => Cams(made', run.scene) \subseteq {run.scene} \ {0}
        /\ run.model # 0 => Cams(made', run.model) \subseteq {run.scene} \ {0}
        /\ run.surface # 0 => Cams(made', run.surface) \subseteq {run.scene} \ {0}
  BY <1>1, <1>2, <1>6 DEF Fitting, RunFits, RunTypes
<1>9. /\ run' \in Runs /\ run'.arch \in Chunks /\ ~run'.gui /\ run'.proj /\ run'.q = run.q
      /\ run'.fresh = run.fresh /\ run'.pc = "keep" /\ run'.scene = run.scene
      /\ run'.model = Id /\ run'.surface = run.surface
      /\ run'.arch = run.arch
      /\ UNCHANGED file
  BY <1>1, <1>5 DEF Train, At, RunTypes, RunHas, Runs, Places, Loaded, Before, Chunks
<1>10. UNCHANGED store
  BY <1>1, <1>5 DEF Train
<1>11. store[FALSE].gs \in 0 .. Len(made)'
  BY <1>1, <1>5, Widen DEF Quiet
<1>12. Quiet'
  BY <1>1, <1>5, <1>9, <1>10, <1>11 DEF RunTypes, Quiet, Copied, NoCopies
<1>13. Results'
  BY <1>1, <1>5, <1>9, <1>4 DEF Grows, RunTypes, Results, Numbered
<1>14. RunTypes'
  BY <1>1, <1>5, <1>9 DEF Train, RunTypes, RunHas, Results, Numbered
<1>15. RunHas'
  BY <1>1, <1>5, <1>9 DEF RunHas, Loaded, Before, Train, At
<1>16. RunCameras'
  BY <1>1, <1>5, <1>9 DEF RunHas, RunCameras, Loaded, Before, Train, At
<1>17. RunStored'
  BY <1>1, <1>5, <1>9 DEF RunTypes, RunHas, RunCameras, RunStored, Loaded, Before,
     Train, At
<1>18. Fitting => Fitting'
  BY <1>1, <1>5, <1>9, <1>6, <1>7, <1>8 DEF RunTypes, RunCameras, Fitting, RunFits,
     Numbered, Results, Before
<1>19. Progressed => Progressed'
  BY <1>1, <1>5, <1>9 DEF RunTypes, Progressed, Resumes
<1> QED
  BY <1>12, <1>13, <1>14, <1>15, <1>16, <1>17, <1>18, <1>19 DEF Session, Running

LEMMA KeepModelKept ==
    ASSUME Session, KeepModel, UNCHANGED st
    PROVE  Session' /\ (Fitting => Fitting') /\ (Progressed => Progressed')
<1>1. run # None /\ RunTypes /\ RunHas /\ RunCameras /\ RunStored /\ Results /\ Quiet
  BY DEF Session, Running, KeepModel, At
<1>2. /\ run' \in Runs /\ run'.arch \in Chunks /\ ~run'.gui /\ run'.proj /\ run'.q = run.q
      /\ run'.fresh = run.fresh /\ run'.pc = "store" /\ run'.scene = run.scene
      /\ run'.model = run.model /\ run'.surface = run.surface
      /\ run'.arch = run.arch
      /\ UNCHANGED file
  BY <1>1 DEF KeepModel, At, Goto, RunTypes, RunHas, Runs, Places, Loaded, Before,
     Chunks
<1>3. /\ store' \in [BOOLEAN -> Copied] /\ store'[TRUE] = NoCopies
      /\ store'[FALSE].sfm = 0 /\ store'[FALSE].gs = run.model
  BY <1>1 DEF KeepModel, RunTypes, Runs, Quiet, Copied, NoCopies
<1>4. Quiet'
  BY <1>1, <1>2, <1>3 DEF RunTypes, Quiet, Copied, NoCopies, KeepModel
<1>5. Results'
  BY <1>1, <1>2 DEF KeepModel, RunTypes, Results, Numbered
<1>6. RunTypes'
  BY <1>1, <1>2 DEF KeepModel, RunTypes, RunHas, Results, Numbered
<1>7. RunHas'
  BY <1>1, <1>2 DEF RunHas, Loaded, Before, KeepModel, At
<1>8. RunCameras'
  BY <1>1, <1>2 DEF RunHas, RunCameras, Loaded, Before, KeepModel, At
<1>9. RunStored'
  BY <1>1, <1>2 DEF RunTypes, RunHas, RunCameras, RunStored, Loaded, Before, KeepModel,
     At
<1>10. Fitting => Fitting'
  BY <1>1, <1>2 DEF KeepModel, RunTypes, RunCameras, Fitting, RunFits, Fits, Numbered,
     Results, Before, At
<1>11. Progressed => Progressed'
  BY <1>1, <1>2 DEF RunTypes, Progressed, Resumes
<1> QED
  BY <1>4, <1>5, <1>6, <1>7, <1>8, <1>9, <1>10, <1>11 DEF Session, Running

LEMMA LoadModelKept ==
    ASSUME Session, LoadModel, UNCHANGED st
    PROVE  Session' /\ (Fitting => Fitting') /\ (Progressed => Progressed')
<1>1. run # None /\ RunTypes /\ RunHas /\ RunCameras /\ RunStored /\ Results /\ Quiet
  BY DEF Session, Running, LoadModel, At
<1>2. CASE run' = None
  <2>1. UNCHANGED <<file, made, store>>
    BY <1>1, <1>2 DEF LoadModel, At, End, Quiet, WritesProject
  <2> QED
    BY <1>1, <1>2, <2>1 DEF Session, Running, Quiet, Results, Numbered, Fitting,
       Progressed
<1>3. CASE run' # None
  <2>1. PICK m \in {store[FALSE].gs, run.arch.gs} :
               m # 0 /\ run' = [run EXCEPT !.model = m, !.pc = "extract"]
               /\ UNCHANGED <<file, made, exit>>
    BY <1>1, <1>3 DEF LoadModel, At, End, Quiet, WritesProject, RunTypes, Runs, RunHas,
       Loaded, Before
  <2>2. m \in Nat /\ m \in 0 .. Len(made)
    <3>1. store[FALSE].gs \in 0 .. Len(made)
      BY <1>1 DEF Quiet
    <3>2. Len(made) \in Nat
      BY <1>1 DEF Results
    <3>3. run.arch.gs \in 0 .. Len(made)
      BY <1>1 DEF RunTypes, Numbered
    <3>4. m \in 0 .. Len(made)
      BY <2>1, <3>1, <3>3
    <3> QED
      BY <3>2, <3>4
  <2>3. /\ run' \in Runs /\ run'.arch \in Chunks /\ ~run'.gui /\ run'.proj /\ run'.q = run.q
        /\ run'.fresh = run.fresh /\ run'.pc = "extract" /\ run'.scene = run.scene
        /\ run'.surface = run.surface
        /\ run'.arch = run.arch
        /\ run'.model \in 0 .. Len(made) /\ run'.model # 0 /\ UNCHANGED <<file, made, exit>>
    BY <1>1, <1>3, <2>1, <2>2 DEF RunTypes, RunHas, Runs, Places, Loaded, Before,
       Chunks, Numbered, Results
  <2>4. UNCHANGED store
    BY <1>1, <1>3, <2>1, <2>2 DEF LoadModel
  <2>5. Quiet'
    BY <1>1, <1>3, <2>1, <2>2, <2>3, <2>4 DEF RunTypes, Quiet, Copied, NoCopies,
       LoadModel
  <2>6. Results'
    BY <1>1, <1>3, <2>1, <2>2, <2>3 DEF LoadModel, RunTypes, Results, Numbered
  <2>7. RunTypes'
    BY <1>1, <1>3, <2>1, <2>2, <2>3 DEF RunTypes, RunHas, Results, Numbered
  <2>8. RunHas'
    BY <1>1, <1>3, <2>1, <2>2, <2>3 DEF RunHas, Loaded, Before, LoadModel, At
  <2>9. RunCameras'
    BY <1>1, <1>3, <2>1, <2>2, <2>3 DEF RunHas, RunCameras, Loaded, Before, LoadModel,
       At
  <2>10. RunStored'
    BY <1>1, <1>3, <2>1, <2>2, <2>3 DEF RunTypes, RunHas, RunCameras, RunStored,
       Loaded, Before, LoadModel, At
  <2>11. Fitting => Fitting'
    BY <1>1, <1>3, <2>1, <2>2, <2>3 DEF LoadModel, RunTypes, RunCameras, Fitting,
       RunFits, Fits, Numbered, Results, Before
  <2>12. Progressed => Progressed'
    BY <1>1, <1>3, <2>1, <2>2, <2>3 DEF RunTypes, Progressed, Resumes
  <2> QED
    BY <2>5, <2>6, <2>7, <2>8, <2>9, <2>10, <2>11, <2>12 DEF Session, Running
<1> QED
  BY <1>1, <1>2, <1>3

LEMMA StoreModelKept ==
    ASSUME Session, StoreModel, UNCHANGED st
    PROVE  Session' /\ (Fitting => Fitting') /\ (Progressed => Progressed')
<1>1. run # None /\ RunTypes /\ RunHas /\ RunCameras /\ RunStored /\ Results /\ Quiet
  BY DEF Session, Running, StoreModel, At
<1>2. run' = [run EXCEPT !.arch = [run.arch EXCEPT !.gs = run.model, !.info = 0], !.pc = "clean"]
      /\ file' = [run.arch EXCEPT !.gs = run.model, !.info = 0]
  BY <1>1 DEF StoreModel, At, Goto, WritesProject, RunTypes, Runs
<1>3. /\ run' \in Runs /\ run'.arch \in Chunks /\ ~run'.gui /\ run'.proj /\ run'.q = run.q
      /\ run'.fresh = run.fresh /\ run'.pc = "clean" /\ run'.scene = run.scene
      /\ run'.model = run.model /\ run'.surface = run.surface
      /\ run'.arch = [run.arch EXCEPT !.gs = run.model, !.info = 0]
      /\ file' = run'.arch
  BY <1>1, <1>2 DEF RunTypes, RunHas, Runs, Places, Loaded, Before, Chunks
<1>4. /\ run'.arch.sfm = run.arch.sfm /\ run'.arch.gs = run.model
      /\ run'.arch.mesh = run.arch.mesh /\ run'.arch.tex = run.arch.tex /\ run'.arch.info = 0
  BY <1>1, <1>2, <1>3 DEF RunTypes, Numbered, Chunks
<1>5. UNCHANGED store
  BY <1>1, <1>2 DEF StoreModel
<1>6. Quiet'
  BY <1>1, <1>2, <1>3, <1>4, <1>5 DEF RunTypes, Quiet, Copied, NoCopies, StoreModel
<1>7. Results'
  BY <1>1, <1>2, <1>3, <1>4 DEF StoreModel, RunTypes, Results, Numbered
<1>8. RunTypes'
  BY <1>1, <1>2, <1>3, <1>4 DEF StoreModel, RunTypes, RunHas, Results, Numbered
<1>9. RunHas'
  BY <1>1, <1>2, <1>3, <1>4 DEF RunHas, Loaded, Before, StoreModel, At
<1>10. RunCameras'
  BY <1>1, <1>2, <1>3, <1>4 DEF RunHas, RunCameras, Loaded, Before, StoreModel, At
<1>11. RunStored'
  BY <1>1, <1>2, <1>3, <1>4 DEF RunTypes, RunHas, RunCameras, RunStored, Loaded,
     Before, StoreModel, At
<1>12. Fitting => Fitting'
  BY <1>1, <1>2, <1>3, <1>4 DEF StoreModel, RunTypes, RunCameras, Fitting, RunFits,
     Fits, Numbered, Results, Before, At
<1>13. Progressed => Progressed'
  BY <1>1, <1>2, <1>3, <1>4 DEF RunTypes, Progressed, Resumes
<1> QED
  BY <1>6, <1>7, <1>8, <1>9, <1>10, <1>11, <1>12, <1>13 DEF Session, Running

LEMMA RemoveCheckpointKept ==
    ASSUME Session, RemoveCheckpoint, UNCHANGED st
    PROVE  Session' /\ (Fitting => Fitting') /\ (Progressed => Progressed')
<1>1. run # None /\ RunTypes /\ RunHas /\ RunCameras /\ RunStored /\ Results /\ Quiet
  BY DEF Session, Running, RemoveCheckpoint, At
<1>2. /\ run' \in Runs /\ run'.arch \in Chunks /\ ~run'.gui /\ run'.proj /\ run'.q = run.q
      /\ run'.fresh = run.fresh /\ run'.pc \in {"extract", "done"} /\ run'.scene = run.scene
      /\ run'.model = run.model /\ run'.surface = run.surface
      /\ run'.arch = run.arch
      /\ UNCHANGED file /\ (run'.pc = "done" <=> ~run.q.mesh)
  BY <1>1 DEF RemoveCheckpoint, At, Goto, RunTypes, RunHas, Runs, Places, Loaded,
     Before, Chunks
<1>3. /\ store' \in [BOOLEAN -> Copied] /\ store'[TRUE] = NoCopies
      /\ store'[FALSE].sfm = 0 /\ store'[FALSE].gs = store[FALSE].gs
  BY <1>1 DEF RemoveCheckpoint, RunTypes, Runs, Quiet, Copied, NoCopies
<1>4. Quiet'
  BY <1>1, <1>2, <1>3 DEF RunTypes, Quiet, Copied, NoCopies, RemoveCheckpoint
<1>5. Results'
  BY <1>1, <1>2 DEF RemoveCheckpoint, RunTypes, Results, Numbered
<1>6. RunTypes'
  BY <1>1, <1>2 DEF RemoveCheckpoint, RunTypes, RunHas, Results, Numbered
<1>7. RunHas'
  BY <1>1, <1>2 DEF RunHas, Loaded, Before, RemoveCheckpoint, At
<1>8. RunCameras'
  BY <1>1, <1>2 DEF RunHas, RunCameras, Loaded, Before, RemoveCheckpoint, At
<1>9. RunStored'
  BY <1>1, <1>2 DEF RunTypes, RunHas, RunCameras, RunStored, Loaded, Before,
     RemoveCheckpoint, At
<1>10. Fitting => Fitting'
  BY <1>1, <1>2 DEF RemoveCheckpoint, RunTypes, RunCameras, Fitting, RunFits, Fits,
     Numbered, Results, Before, At
<1>11. Progressed => Progressed'
  BY <1>1, <1>2 DEF RunTypes, Progressed, Resumes
<1> QED
  BY <1>4, <1>5, <1>6, <1>7, <1>8, <1>9, <1>10, <1>11 DEF Session, Running

LEMMA ExtractKept ==
    ASSUME Session, Extract, UNCHANGED st
    PROVE  Session' /\ (Fitting => Fitting') /\ (Progressed => Progressed')
<1>1. run # None /\ RunTypes /\ RunHas /\ RunCameras /\ RunStored /\ Results /\ Quiet
  BY DEF Session, Running, Extract, At
<1>2. {run.scene, run.model} \in SUBSET (0 .. Len(made)) /\ "mesh" \in Kinds /\ Len(made) \in Nat
  BY <1>1 DEF RunTypes, Kinds, Stages, Results
<1>3. New("mesh", {run.scene, run.model})
  BY <1>1 DEF Extract
<1>4. Grows
  BY <1>1, <1>2, <1>3, NewResult
<1>5. Len(made) \in Nat /\ Id \in Nat /\ Id # 0 /\ Id = Len(made)' /\ Len(made)' = Len(made) + 1
  BY <1>2, <1>4 DEF Grows
<1>6. Fitting =>
        /\ Cams(made', Id) \subseteq {run.scene} \ {0}
        /\ \A n \in 1 .. Len(made) : Cams(made', n) = Cams(made, n)
  <2> SUFFICES ASSUME Fitting
               PROVE  /\ Cams(made', Id) \subseteq {run.scene} \ {0}
                      /\ \A n \in 1 .. Len(made) : Cams(made', n) = Cams(made, n)
    OBVIOUS
  <2> DEFINE S == {run.scene} \ {0}
  <2>1. \A n \in {run.scene, run.model} \ {0} : Cams(made, n) \subseteq S
    BY <1>1 DEF Fitting, RunFits
  <2> HIDE DEF S
  <2>2. /\ "mesh" # "sfm" => Cams(made', Id) \subseteq S
        /\ Cams(made', Id) \subseteq S \cup {Id}
        /\ \A n \in 1 .. Len(made) : Cams(made', n) = Cams(made, n)
    BY <1>1, <1>2, <1>3, <2>1, NewCams
  <2> QED
    BY <2>2 DEF S
<1>7. Fitting =>
        /\ file # None => Fits(made', file)
        /\ Fits(made', run.arch)
  BY <1>1, <1>2, <1>6, FitsKept DEF Fitting, RunFits, RunTypes, Results, Numbered
<1>8. Fitting =>
        /\ run.scene # 0 => Cams(made', run.scene) \subseteq {run.scene} \ {0}
        /\ run.model # 0 => Cams(made', run.model) \subseteq {run.scene} \ {0}
        /\ run.surface # 0 => Cams(made', run.surface) \subseteq {run.scene} \ {0}
  BY <1>1, <1>2, <1>6 DEF Fitting, RunFits, RunTypes
<1>9. /\ run' \in Runs /\ run'.arch \in Chunks /\ ~run'.gui /\ run'.proj /\ run'.q = run.q
      /\ run'.fresh = run.fresh /\ run'.pc = "surface" /\ run'.scene = run.scene
      /\ run'.model = run.model /\ run'.surface = Id
      /\ run'.arch = run.arch
      /\ UNCHANGED file
  BY <1>1, <1>5 DEF Extract, At, RunTypes, RunHas, Runs, Places, Loaded, Before, Chunks
<1>10. UNCHANGED store
  BY <1>1, <1>5 DEF Extract
<1>11. store[FALSE].gs \in 0 .. Len(made)'
  BY <1>1, <1>5, Widen DEF Quiet
<1>12. Quiet'
  BY <1>1, <1>5, <1>9, <1>10, <1>11 DEF RunTypes, Quiet, Copied, NoCopies
<1>13. Results'
  BY <1>1, <1>5, <1>9, <1>4 DEF Grows, RunTypes, Results, Numbered
<1>14. RunTypes'
  BY <1>1, <1>5, <1>9 DEF Extract, RunTypes, RunHas, Results, Numbered
<1>15. RunHas'
  BY <1>1, <1>5, <1>9 DEF RunHas, Loaded, Before, Extract, At
<1>16. RunCameras'
  BY <1>1, <1>5, <1>9 DEF RunHas, RunCameras, Loaded, Before, Extract, At
<1>17. RunStored'
  BY <1>1, <1>5, <1>9 DEF RunTypes, RunHas, RunCameras, RunStored, Loaded, Before,
     Extract, At
<1>18. Fitting => Fitting'
  BY <1>1, <1>5, <1>9, <1>6, <1>7, <1>8 DEF RunTypes, RunCameras, Fitting, RunFits,
     Numbered, Results, Before
<1>19. Progressed => Progressed'
  BY <1>1, <1>5, <1>9 DEF RunTypes, Progressed, Resumes
<1> QED
  BY <1>12, <1>13, <1>14, <1>15, <1>16, <1>17, <1>18, <1>19 DEF Session, Running

LEMMA StoreMeshKept ==
    ASSUME Session, StoreMesh, UNCHANGED st
    PROVE  Session' /\ (Fitting => Fitting') /\ (Progressed => Progressed')
<1>1. run # None /\ RunTypes /\ RunHas /\ RunCameras /\ RunStored /\ Results /\ Quiet
  BY DEF Session, Running, StoreMesh, At
<1>2. CASE run.q.dataset \/ ~run.q.dense
  <2>1. run' = [run EXCEPT !.arch = [run.arch EXCEPT !.mesh = run.surface],
                             !.pc = IF run.q.texture THEN "texture" ELSE "done"]
        /\ file' = [run.arch EXCEPT !.mesh = run.surface]
    BY <1>1, <1>2 DEF StoreMesh, At, Goto, WritesProject, RunTypes, Runs
  <2>2. /\ run' \in Runs /\ run'.arch \in Chunks /\ ~run'.gui /\ run'.proj /\ run'.q = run.q
        /\ run'.fresh = run.fresh /\ run'.pc \in {"texture", "done"} /\ run'.scene = run.scene
        /\ run'.model = run.model /\ run'.surface = run.surface
        /\ run'.arch = [run.arch EXCEPT !.mesh = run.surface]
        /\ file' = run'.arch
    BY <1>1, <1>2, <2>1 DEF RunTypes, RunHas, Runs, Places, Loaded, Before, Chunks
  <2>3. /\ run'.arch.sfm = run.arch.sfm /\ run'.arch.gs = run.arch.gs
        /\ run'.arch.mesh = run.surface /\ run'.arch.tex = run.arch.tex /\ run'.arch.info = run.arch.info
    BY <1>1, <1>2, <2>1, <2>2 DEF RunTypes, Numbered, Chunks
  <2>4. /\ store' \in [BOOLEAN -> Copied] /\ store'[TRUE] = NoCopies
        /\ store'[FALSE].sfm = 0 /\ store'[FALSE].gs = store[FALSE].gs
    BY <1>1, <1>2, <2>1 DEF StoreMesh, RunTypes, Runs, Quiet, Copied, NoCopies
  <2>5. Quiet'
    BY <1>1, <1>2, <2>1, <2>2, <2>3, <2>4 DEF RunTypes, Quiet, Copied, NoCopies,
       StoreMesh
  <2>6. Results'
    BY <1>1, <1>2, <2>1, <2>2, <2>3 DEF StoreMesh, RunTypes, Results, Numbered
  <2>7. RunTypes'
    BY <1>1, <1>2, <2>1, <2>2, <2>3 DEF StoreMesh, RunTypes, RunHas, Results, Numbered
  <2>8. RunHas'
    BY <1>1, <1>2, <2>1, <2>2, <2>3 DEF RunHas, Loaded, Before, StoreMesh, At
  <2>9. RunCameras'
    BY <1>1, <1>2, <2>1, <2>2, <2>3 DEF RunHas, RunCameras, Loaded, Before, StoreMesh,
       At
  <2>10. RunStored'
    BY <1>1, <1>2, <2>1, <2>2, <2>3 DEF RunTypes, RunHas, RunCameras, RunStored,
       Loaded, Before, StoreMesh, At
  <2>11. Fitting => Fitting'
    BY <1>1, <1>2, <2>1, <2>2, <2>3 DEF StoreMesh, RunTypes, RunCameras, Fitting,
       RunFits, Fits, Numbered, Results, Before, At
  <2>12. Progressed => Progressed'
    BY <1>1, <1>2, <2>1, <2>2, <2>3 DEF RunTypes, Progressed, Resumes
  <2> QED
    BY <2>5, <2>6, <2>7, <2>8, <2>9, <2>10, <2>11, <2>12 DEF Session, Running
<1>3. CASE ~(run.q.dataset \/ ~run.q.dense)
  <2>1. run' = [run EXCEPT !.pc = IF run.q.texture THEN "texture" ELSE "done"] /\ UNCHANGED file
    BY <1>1, <1>3 DEF StoreMesh, At, Goto, WritesProject, RunTypes, Runs
  <2>2. /\ run' \in Runs /\ run'.arch \in Chunks /\ ~run'.gui /\ run'.proj /\ run'.q = run.q
        /\ run'.fresh = run.fresh /\ run'.pc \in {"texture", "done"} /\ run'.scene = run.scene
        /\ run'.model = run.model /\ run'.surface = run.surface
        /\ run'.arch = run.arch
        /\ UNCHANGED file
    BY <1>1, <1>3, <2>1 DEF RunTypes, RunHas, Runs, Places, Loaded, Before, Chunks
  <2>3. /\ store' \in [BOOLEAN -> Copied] /\ store'[TRUE] = NoCopies
        /\ store'[FALSE].sfm = 0 /\ store'[FALSE].gs = store[FALSE].gs
    BY <1>1, <1>3, <2>1 DEF StoreMesh, RunTypes, Runs, Quiet, Copied, NoCopies
  <2>4. Quiet'
    BY <1>1, <1>3, <2>1, <2>2, <2>3 DEF RunTypes, Quiet, Copied, NoCopies, StoreMesh
  <2>5. Results'
    BY <1>1, <1>3, <2>1, <2>2 DEF StoreMesh, RunTypes, Results, Numbered
  <2>6. RunTypes'
    BY <1>1, <1>3, <2>1, <2>2 DEF StoreMesh, RunTypes, RunHas, Results, Numbered
  <2>7. RunHas'
    BY <1>1, <1>3, <2>1, <2>2 DEF RunHas, Loaded, Before, StoreMesh, At
  <2>8. RunCameras'
    BY <1>1, <1>3, <2>1, <2>2 DEF RunHas, RunCameras, Loaded, Before, StoreMesh, At
  <2>9. RunStored'
    BY <1>1, <1>3, <2>1, <2>2 DEF RunTypes, RunHas, RunCameras, RunStored, Loaded,
       Before, StoreMesh, At
  <2>10. Fitting => Fitting'
    BY <1>1, <1>3, <2>1, <2>2 DEF StoreMesh, RunTypes, RunCameras, Fitting, RunFits,
       Fits, Numbered, Results, Before, At
  <2>11. Progressed => Progressed'
    BY <1>1, <1>3, <2>1, <2>2 DEF RunTypes, Progressed, Resumes
  <2> QED
    BY <2>4, <2>5, <2>6, <2>7, <2>8, <2>9, <2>10, <2>11 DEF Session, Running
<1> QED
  BY <1>1, <1>2, <1>3

LEMMA TextureKept ==
    ASSUME Session, Texture, UNCHANGED st
    PROVE  Session' /\ (Fitting => Fitting') /\ (Progressed => Progressed')
<1>1. run # None /\ RunTypes /\ RunHas /\ RunCameras /\ RunStored /\ Results /\ Quiet
  BY DEF Session, Running, Texture, At
<1>2. {run.scene, run.surface} \in SUBSET (0 .. Len(made)) /\ "tex" \in Kinds /\ Len(made) \in Nat
  BY <1>1 DEF RunTypes, Kinds, Stages, Results
<1>3. New("tex", {run.scene, run.surface})
  BY <1>1 DEF Texture
<1>4. Grows
  BY <1>1, <1>2, <1>3, NewResult
<1>5. Len(made) \in Nat /\ Id \in Nat /\ Id # 0 /\ Id = Len(made)' /\ Len(made)' = Len(made) + 1
  BY <1>2, <1>4 DEF Grows
<1>6. Fitting =>
        /\ Cams(made', Id) \subseteq {run.scene} \ {0}
        /\ \A n \in 1 .. Len(made) : Cams(made', n) = Cams(made, n)
  <2> SUFFICES ASSUME Fitting
               PROVE  /\ Cams(made', Id) \subseteq {run.scene} \ {0}
                      /\ \A n \in 1 .. Len(made) : Cams(made', n) = Cams(made, n)
    OBVIOUS
  <2> DEFINE S == {run.scene} \ {0}
  <2>1. \A n \in {run.scene, run.surface} \ {0} : Cams(made, n) \subseteq S
    BY <1>1 DEF Fitting, RunFits
  <2> HIDE DEF S
  <2>2. /\ "tex" # "sfm" => Cams(made', Id) \subseteq S
        /\ Cams(made', Id) \subseteq S \cup {Id}
        /\ \A n \in 1 .. Len(made) : Cams(made', n) = Cams(made, n)
    BY <1>1, <1>2, <1>3, <2>1, NewCams
  <2> QED
    BY <2>2 DEF S
<1>7. Fitting =>
        /\ file # None => Fits(made', file)
        /\ Fits(made', run.arch)
  BY <1>1, <1>2, <1>6, FitsKept DEF Fitting, RunFits, RunTypes, Results, Numbered
<1>8. Fitting =>
        /\ run.scene # 0 => Cams(made', run.scene) \subseteq {run.scene} \ {0}
        /\ run.model # 0 => Cams(made', run.model) \subseteq {run.scene} \ {0}
        /\ run.surface # 0 => Cams(made', run.surface) \subseteq {run.scene} \ {0}
  BY <1>1, <1>2, <1>6 DEF Fitting, RunFits, RunTypes
<1>9. run' = [run EXCEPT !.arch = [run.arch EXCEPT !.tex = Id], !.pc = "done"]
      /\ file' = [run.arch EXCEPT !.tex = Id]
  BY <1>1, <1>5 DEF Texture, At, Goto, WritesProject, RunTypes, Runs
<1>10. /\ run' \in Runs /\ run'.arch \in Chunks /\ ~run'.gui /\ run'.proj /\ run'.q = run.q
      /\ run'.fresh = run.fresh /\ run'.pc = "done" /\ run'.scene = run.scene
      /\ run'.model = run.model /\ run'.surface = run.surface
      /\ run'.arch = [run.arch EXCEPT !.tex = Id]
      /\ file' = run'.arch
  BY <1>1, <1>5, <1>9 DEF RunTypes, RunHas, Runs, Places, Loaded, Before, Chunks
<1>11. /\ run'.arch.sfm = run.arch.sfm /\ run'.arch.gs = run.arch.gs
      /\ run'.arch.mesh = run.arch.mesh /\ run'.arch.tex = Id /\ run'.arch.info = run.arch.info
  BY <1>1, <1>5, <1>9, <1>10 DEF RunTypes, Numbered, Chunks
<1>12. /\ store' \in [BOOLEAN -> Copied] /\ store'[TRUE] = NoCopies
      /\ store'[FALSE].sfm = 0 /\ store'[FALSE].gs = store[FALSE].gs
  BY <1>1, <1>5, <1>9 DEF Texture, RunTypes, Runs, Quiet, Copied, NoCopies
<1>13. store[FALSE].gs \in 0 .. Len(made)'
  BY <1>1, <1>5, <1>9, Widen DEF Quiet
<1>14. Quiet'
  BY <1>1, <1>5, <1>9, <1>10, <1>11, <1>12, <1>13 DEF RunTypes, Quiet, Copied, NoCopies
<1>15. Results'
  BY <1>1, <1>5, <1>9, <1>10, <1>11, <1>4 DEF Grows, RunTypes, Results, Numbered
<1>16. RunTypes'
  BY <1>1, <1>5, <1>9, <1>10, <1>11 DEF Texture, RunTypes, RunHas, Results, Numbered
<1>17. RunHas'
  BY <1>1, <1>5, <1>9, <1>10, <1>11 DEF RunHas, Loaded, Before, Texture, At
<1>18. RunCameras'
  BY <1>1, <1>5, <1>9, <1>10, <1>11 DEF RunHas, RunCameras, Loaded, Before, Texture, At
<1>19. RunStored'
  BY <1>1, <1>5, <1>9, <1>10, <1>11 DEF RunTypes, RunHas, RunCameras, RunStored,
     Loaded, Before, Texture, At
<1>20. Fitting => Fitting'
  BY <1>1, <1>5, <1>9, <1>10, <1>11, <1>6, <1>7, <1>8 DEF RunTypes, RunCameras,
     Fitting, RunFits, Fits, Numbered, Results, Before, Texture, At
<1>21. Progressed => Progressed'
  BY <1>1, <1>5, <1>9, <1>10, <1>11 DEF RunTypes, Progressed, Resumes
<1> QED
  BY <1>14, <1>15, <1>16, <1>17, <1>18, <1>19, <1>20, <1>21 DEF Session, Running

LEMMA DoneKept ==
    ASSUME Session, Done, UNCHANGED st
    PROVE  Session' /\ (Fitting => Fitting') /\ (Progressed => Progressed')
  BY DEF Session, Done, End, Running, Quiet, Results, Numbered, Fitting,
     Progressed

LEMMA FailKept ==
    ASSUME Session, Fail, UNCHANGED st
    PROVE  Session' /\ (Fitting => Fitting') /\ (Progressed => Progressed')
  BY DEF Session, Fail, End, Running, Quiet, Results, Numbered, Fitting,
     Progressed

-----------------------------------------------------------------------------
(* Sessions of command lines.                                              *)

LEMMA Flagged ==
    ASSUME NEW f, NEW gui \in BOOLEAN
    PROVE  /\ Parse(f, gui) \in Flags
           /\ Parse(f, gui).only => "mesh-only" \in f /\ Parse(f, gui).mesh
<1>1. Parse(f, gui) \in Flags
  BY DEF Parse, Flags
<1>2. Parse(f, gui).only => "mesh-only" \in f
  BY DEF Parse
<1>3. Parse(f, gui).only => Parse(f, gui).mesh
  BY DEF Parse
<1> QED
  BY <1>1, <1>2, <1>3

LEMMA NoBake == ASSUME NEW f PROVE ~Parse(f, FALSE).bake
  BY DEF Parse

LEMMA Started ==
    ASSUME Session, NEW f, Start(f), UNCHANGED st
    PROVE  /\ Session'
           /\ Fitting /\ "mesh-only" \notin f => Fitting'
           /\ Progressed => Progressed'
<1>1. run = None /\ UNCHANGED <<file, made, store>> /\ Quiet /\ Results
  BY DEF Session, Start
<1>2. Quiet' /\ Results'
  BY <1>1 DEF Quiet, Results, Numbered, Copied, NoCopies
<1>3. CASE run' = None
  BY <1>1, <1>2, <1>3 DEF Session, Running, Fitting, Progressed
<1>4. CASE exit' = None /\ run' = NewRun(f, FALSE, TRUE, 0)
  <2> DEFINE q == Parse(f, FALSE)
  <2>1. q \in Flags /\ ~q.bake /\ (q.only => "mesh-only" \in f /\ q.mesh)
    BY Flagged, NoBake
  <2> DEFINE arch == IF file # None THEN file ELSE NoChunks
  <2>2. /\ arch \in Chunks
        /\ {arch.sfm, arch.gs, arch.mesh, arch.tex} \subseteq 0 .. Len(made)
        /\ Len(made) \in Nat
    BY <1>1 DEF Results, Numbered, NoChunks, Chunks
  <2>3. run' = [q |-> q, gui |-> FALSE, proj |-> TRUE, fresh |-> FALSE,
                pc |-> IF q.dataset THEN "dataset" ELSE "cameras",
                arch |-> arch, scene |-> 0, model |-> 0, surface |-> 0]
    BY <1>4 DEF NewRun
  <2>4. Fitting => Fits(made, arch)
    BY DEF Fitting, Fits, NoChunks
  <2>5. Progressed => Resumes(arch)
    BY DEF Progressed, Resumes, NoChunks
  <2> HIDE DEF q, arch
  <2>6. /\ run' \in Runs /\ ~run'.gui /\ run'.proj /\ run'.q = q /\ ~run'.fresh
        /\ run'.arch = arch /\ run'.scene = 0 /\ run'.model = 0 /\ run'.surface = 0
        /\ run'.pc = IF q.dataset THEN "dataset" ELSE "cameras"
    BY <2>1, <2>2, <2>3 DEF Runs, Places, Loaded, Before
  <2>7. RunTypes'
    <3>1. /\ run'.arch \in Chunks
          /\ {run'.arch.sfm, run'.arch.gs, run'.arch.mesh, run'.arch.tex} \subseteq 0 .. Len(made')
      BY <1>1, <2>2, <2>6
    <3>2. {run'.scene, run'.model, run'.surface} \subseteq 0 .. Len(made')
      BY <1>1, <2>2, <2>6
    <3> QED
      BY <1>4, <2>1, <2>6, <3>1, <3>2 DEF RunTypes, Numbered
  <2>8. RunHas' /\ RunCameras' /\ RunStored'
    BY <2>1, <2>6 DEF RunHas, RunCameras, RunStored, Loaded, Before
  <2>9. Fitting /\ "mesh-only" \notin f => Fitting'
    BY <1>1, <2>1, <2>4, <2>6 DEF Fitting, RunFits
  <2>10. Progressed => Progressed'
    BY <1>1, <2>5, <2>6 DEF Progressed
  <2> QED
    BY <1>2, <2>7, <2>8, <2>9, <2>10 DEF Session, Running
<1> QED
  BY <1>3, <1>4 DEF Start, End

LEMMA UserStep ==
    ASSUME Session, Steps, UNCHANGED st
    PROVE  Session' /\ (Fitting => Fitting') /\ (Progressed => Progressed')
<1>1. ~LoadMesh
  BY DEF Session, Running, RunTypes, Runs, Places, Loaded, Before, LoadMesh, At
<1> QED
  BY <1>1, LoadDatasetKept, LoadCamerasKept, AlignKept, PublishKept, DensifyKept,
     CheckpointKept, TrainKept, KeepModelKept, LoadModelKept, StoreModelKept,
     RemoveCheckpointKept, ExtractKept, StoreMeshKept, TextureKept, DoneKept, FailKept
  DEF Steps

\* In such a session there is nothing but commands and their steps.
LEMMA OnlyCommands ==
    ASSUME Owner, Commanded, Quiet, StudioNext
    PROVE  UNCHANGED st /\ (Steps \/ \E c \in Commands : Start(c))
<1>1. \A u : Use(u) => u = "commands"
  BY DEF Owner, Use
<1>2. ~SeeHandoff /\ ~LoadHandoff /\ ~Finish
  BY StudioProjectAssumption DEF Quiet, SeeHandoff, LoadHandoff, Finish
<1> QED
  BY <1>1, <1>2 DEF StudioNext, Align_, TrainNew, TrainResume, ExtractMesh, Dense, BakeTexture,
     Edit, Import, Remove, Clear, Open, OpenFails, SaveProject, Command

NoMeshOnly == \A c \in Commands : "mesh-only" \notin c

LEMMA SessionStep ==
    ASSUME Owner, Commanded, Session, [StudioNext]_studioVars
    PROVE  /\ Session'
           /\ Fitting /\ NoMeshOnly => Fitting'
           /\ Progressed => Progressed'
<1>1. CASE UNCHANGED studioVars
  BY <1>1 DEF studioVars, driverVars, Session, Quiet, Results, Running, Numbered, RunTypes,
     RunHas, RunCameras, RunStored, Fitting, RunFits, Progressed
<1>2. CASE StudioNext
  <2>1. UNCHANGED st /\ (Steps \/ \E c \in Commands : Start(c))
    BY <1>2, OnlyCommands DEF Session
  <2> QED
    BY <2>1, UserStep, Started DEF NoMeshOnly
<1> QED
  BY <1>1, <1>2

-----------------------------------------------------------------------------
(* Sessions of Studio.                                                     *)

\* A job of Studio does not write the project.
LEMMA JobStep ==
    ASSUME Owner, ~Commanded, Steps
    PROVE  UNCHANGED file /\ (run' # None => "gui" \in DOMAIN run' /\ run'.gui)
<1>1. run # None /\ "gui" \in DOMAIN run /\ run.gui /\ ~WritesProject
  BY DEF Owner, Steps, WritesProject, LoadDataset, LoadCameras, Align, Publish, Densify,
     Checkpoint, Train, KeepModel, LoadModel, StoreModel, RemoveCheckpoint, Extract,
     StoreMesh, LoadMesh, Texture, Done, Fail, At
<1>2. CASE LoadDataset \/ LoadCameras \/ Align \/ Densify \/ Checkpoint
  BY <1>1, <1>2 DEF LoadDataset, LoadCameras, Align, Densify, Checkpoint, Goto, End
<1>3. CASE Train \/ KeepModel \/ LoadModel \/ RemoveCheckpoint \/ Extract \/ LoadMesh
  BY <1>1, <1>3 DEF Train, KeepModel, LoadModel, RemoveCheckpoint, Extract, LoadMesh,
     Goto, End
<1>4. CASE Publish \/ StoreModel \/ StoreMesh \/ Texture
  BY <1>1, <1>4 DEF Publish, StoreModel, StoreMesh, Texture, Goto
<1>5. CASE Done \/ Fail
  BY <1>1, <1>5 DEF Done, Fail, End
<1> QED
  BY <1>2, <1>3, <1>4, <1>5 DEF Steps

\* What a save writes: progress, or else the model that Studio shows.
LEMMA Saved ==
    ASSUME Owner, ~Commanded, SaveProject
    PROVE  /\ {"gs", "info"} \subseteq DOMAIN file'
           /\ Resumes(file')
           /\ file'.info = 0 /\ Shown # 0 /\ ~st'.partial => file'.gs = Shown
<1>0. PICK left \in SUBSET Readings :
        /\ file' = SavedChunks(left)
        /\ st'.partial = (left # {})
  BY DEF SaveProject, Owner
<1>1. {"gs", "info"} \subseteq DOMAIN Base
  BY DEF Base, Owner, NoChunks, InProject
<1>2. {"gs", "info"} \subseteq DOMAIN SavedSfm(Base)
  BY <1>1 DEF SavedSfm
<1>3. /\ {"gs", "info"} \subseteq DOMAIN file'
      /\ file'.gs = SavedGaussians(left)
      /\ file'.info = IF SavesProgress THEN Progress ELSE 0
  BY <1>0, <1>2 DEF SavedChunks
<1>4. CASE SavesProgress
  BY <1>3, <1>4 DEF SavesProgress, SavedGaussians, Resumes
<1>5. CASE ~SavesProgress /\ Shown # 0 /\ "gs" \notin left
  <2>1. SavedGaussians(left) = Shown
    BY <1>5 DEF SavedGaussians, Shown, Base, ModelFile
  <2> QED
    BY <1>3, <1>5, <2>1 DEF Resumes
<1>6. CASE ~SavesProgress /\ Shown = 0
  BY <1>3, <1>6 DEF Resumes
<1>7. CASE ~SavesProgress /\ "gs" \in left
  <2>1. st'.partial
    BY <1>0, <1>7
  <2> QED
    BY <1>3, <1>7, <2>1 DEF Resumes
<1> QED
  BY <1>4, <1>5, <1>6, <1>7

LEMMA StudioStep ==
    ASSUME Owner, ~Commanded, [StudioNext]_studioVars
    PROVE  /\ run' # None => "gui" \in DOMAIN run' /\ run'.gui
           /\ UNCHANGED file \/ SaveProject
           /\ "partial" \in DOMAIN st'
<1>1. CASE UNCHANGED studioVars
  BY <1>1 DEF studioVars, driverVars, Owner
<1>2. CASE Steps /\ UNCHANGED st
  BY <1>2, JobStep DEF Owner
<1>3. CASE Align_ \/ TrainNew \/ TrainResume \/ ExtractMesh \/ Dense \/ BakeTexture
  <2>1. UNCHANGED file
    BY <1>3 DEF Align_, TrainNew, TrainResume, ExtractMesh, Dense, BakeTexture, StartTrain
  <2>2. \E k, flags, output, input : Launch(k, flags, output, input)
    BY <1>3 DEF Align_, TrainNew, TrainResume, ExtractMesh, Dense, BakeTexture, StartTrain
  <2> QED
    BY <2>1, <2>2 DEF Launch, NewRun, Job, Owner
<1>4. CASE Edit \/ Import \/ Remove \/ Clear \/ Open \/ OpenFails
  BY <1>4 DEF Edit, Import, Remove, Clear, Open, OpenFails, Owner
<1>5. CASE SeeHandoff \/ LoadHandoff \/ Finish \/ SaveProject
  BY <1>5 DEF SeeHandoff, LoadHandoff, Finish, SaveProject, Owner, driverVars
<1> QED
  BY <1>1, <1>2, <1>3, <1>4, <1>5 DEF StudioNext, Command, Commanded

-----------------------------------------------------------------------------
(* What Studio made and the user edited is in the project, unless Studio   *)
(* would ask.                                                              *)

Jobs == [q : Flags, gui : BOOLEAN, proj : BOOLEAN, fresh : BOOLEAN,
         pc : Places \cup {"bake"}, arch : Chunks, scene : Nat, model : Nat, surface : Nat]

States == [proj : BOOLEAN, home : BOOLEAN, dirty : BOOLEAN, discarded : BOOLEAN,
           models : Seq(Nat), names : Seq(Int), ready : Nat, pending : Nat,
           seen : BOOLEAN, edit : Nat, kind : {None, "align", "train", "dense", "texture"},
           list : Seq(Int), rev : Nat, sfm : Nat, saved : BOOLEAN, early : Nat,
           partial : BOOLEAN, uses : Nat]

\* Listed models are results; a name that is not the model's own stands for edits.
Edits(results, model) == results[model].kind = "gs"
Listing(results, models, names) ==
  /\ Len(names) = Len(models)
  /\ \A i \in 1 .. Len(models) :
       /\ models[i] \in 1 .. Len(results)
       /\ names[i] # models[i] => Edits(results, models[i])

Held ==
  /\ st \in States
  /\ {st.ready, st.pending, st.edit, st.rev, st.sfm} \subseteq 0 .. Len(made)
  /\ Listing(made, st.models, st.names)
  /\ st.edit # 0 => Edits(made, st.edit)
  /\ store \in [BOOLEAN -> Copied]
  /\ {Copies.sfm, Copies.gs, Copies.mesh, Copies.tex, Copies.ckpt} \subseteq 0 .. Len(made)

\* Cameras that Studio imported into the project are known by their file.
OneSource(f) == f.src # 0 => f.sfm = f.src

\* A project's Gaussians are no older than the first of its listed models, the one
\* that Studio shows after opening it.
Embedded(f) == f.info = 0 /\ f.srcs # <<>> => f.srcs[1] <= f.gs

\* The settings of a project that can be opened fit its models.
Readable(results, f) ==
  (f.srcs # <<>> => Len(f.srcs) = Len(f.list)) => Listing(results, f.srcs, f.list)

Filed ==
  file # None =>
    OneSource(file) /\ Embedded(file) /\ Readable(made, file) /\ file.info <= Len(made)

Working ==
  run # None =>
    /\ run \in Jobs /\ run.gui /\ st.kind # None
    /\ Numbered(run.arch)
    /\ {run.scene, run.model, run.surface} \subseteq 0 .. Len(made)

\* Only a training leaves checkpoints, and its model comes after them.
Training ==
  run # None =>
    /\ ~run.q.dataset /\ run.pc # "dataset"
    /\ run.q.splat => (run.q.only <=> st.kind # "train")
    /\ st.kind = "train" => run.q.splat
    /\ run.pc = "train" => run.q.splat
    /\ run.pc = "keep" => st.kind = "train" /\ run.model # 0
    /\ run.pc \in Loaded /\ st.kind = "train" => run.model = 0
    /\ st.kind = "train" /\ run.model = 0 => st.ready = 0 /\ st.pending = 0

Later ==
  Ckpt # 0 => /\ st.ready # 0 => Ckpt < st.ready
              /\ st.pending # 0 => Ckpt < st.pending
              /\ run # None /\ st.kind = "train" /\ run.model # 0 => Ckpt < run.model

\* A trained model is newer than the listed models, the working copy and the edits
\* made before it, until it is loaded; then Studio shows it until the user edits.
Front(n) == st.models # <<>> => st.models[1] <= n
Newest ==
  /\ st.ready # 0 => Front(st.ready) /\ (st.edit = 0 => Copies.gs <= st.ready)
  /\ st.pending # 0 =>
       Front(st.pending) /\ Copies.gs <= st.pending /\ st.edit <= st.pending
  /\ run # None /\ st.kind = "train" /\ run.model # 0 =>
       /\ ~st.seen => /\ st.ready = 0 /\ st.pending = 0 /\ Front(run.model)
                      /\ Copies.gs <= run.model /\ st.edit <= run.model
       /\ st.ready \in {0, run.model} /\ st.pending \in {0, run.model}

\* After a save or an opening, until a job or the user changes something.
Clean == st.saved /\ ~st.dirty /\ st.kind = None /\ st.early = 0 /\ ~st.partial

\* What a save without edits leaves for the time after the imported models.
Plain ==
  /\ Ckpt # 0 => file.info = Ckpt \/ file.gs > Ckpt
  /\ st.list = <<>> /\ file.info = 0 => Copies.gs <= file.gs

Kept ==
  Clean =>
    /\ InProject /\ ~st.discarded /\ st.pending = 0
    /\ Copies.sfm # 0 => file.sfm = Copies.sfm
    /\ Copies.mesh # 0 => file.mesh = Copies.mesh
    /\ Copies.tex # 0 => file.tex = Copies.tex
    /\ file.info = 0 => Listing(made, file.srcs, st.list)
    /\ file.info = 0 /\ st.edit = st.rev /\ Named = st.list /\ Listed = file.srcs
       => Shown <= file.gs
    /\ st.rev = 0 => Plain

Tended == Held /\ Results /\ Filed /\ Working /\ Training /\ Later /\ Newest /\ Kept

\* Results only grow.
LEMMA ListingStays ==
    ASSUME Results, made' = made \/ Grows, NEW models, NEW names,
           Listing(made, models, names)
    PROVE  Listing(made', models, names)
<1>1. Len(made) \in Nat /\ Len(made') \in Nat /\ Len(made) <= Len(made')
      /\ \A n \in 1 .. Len(made) : made'[n] = made[n]
  BY DEF Results, Grows
<1> QED
  BY <1>1 DEF Listing, Edits

LEMMA EditsStay ==
    ASSUME Results, made' = made \/ Grows, NEW n \in 1 .. Len(made), Edits(made, n)
    PROVE  Edits(made', n)
  BY DEF Grows, Edits

\* Of Held and Filed, what is about the results.
LEMMA HeldStays ==
    ASSUME Tended, made' = made \/ Grows
    PROVE  /\ Listing(made', st.models, st.names)
           /\ st.edit # 0 => Edits(made', st.edit)
           /\ file # None => Readable(made', file)
<1>1. Listing(made', st.models, st.names)
  BY ListingStays DEF Tended, Held
<1>2. st.edit # 0 => Edits(made', st.edit)
  <2>1. st.edit # 0 => st.edit \in 1 .. Len(made) /\ Edits(made, st.edit)
    BY DEF Tended, Held, Results
  <2> QED
    BY <2>1, EditsStay DEF Tended
<1>3. file # None => Readable(made', file)
  BY ListingStays DEF Tended, Filed, Readable
<1> QED
  BY <1>1, <1>2, <1>3

\* The parts of Tended that a step of a run keeps by leaving st and the file.
LEMMA Advanced ==
    ASSUME Tended, run # None, UNCHANGED <<file, st>>,
           made' = made \/ Grows, store' \in [BOOLEAN -> Copied],
           {Copies.sfm, Copies.gs, Copies.mesh, Copies.tex, Copies.ckpt}' \subseteq 0 .. Len(made'),
           Working', Training', Later', Newest'
    PROVE  Tended'
<1>1. Len(made) \in Nat /\ Len(made') \in Nat /\ Len(made) <= Len(made')
  BY DEF Tended, Results, Grows
<1>2. Held'
  <2>1. Listing(made', st.models, st.names) /\ (st.edit # 0 => Edits(made', st.edit))
    BY HeldStays
  <2> QED
    BY <1>1, <2>1 DEF Tended, Held
<1>3. Results'
  BY <1>1 DEF Tended, Results, Grows, Numbered
<1>4. Filed'
  <2>1. file # None => file.info \in Nat
    BY DEF Tended, Results, Numbered, Chunks
  <2>2. file # None => Readable(made', file)
    BY HeldStays
  <2> QED
    BY <1>1, <2>1, <2>2 DEF Tended, Filed, OneSource, Embedded
<1>5. Kept'
  BY DEF Tended, Working, Kept, Clean
<1> QED
  BY <1>2, <1>3, <1>4, <1>5 DEF Tended

LEMMA Ended ==
    ASSUME Tended, run # None, run' = None, UNCHANGED <<file, made, store, st>>
    PROVE  Tended'
<1>1. Working' /\ Training' /\ Later' /\ Newest'
  BY DEF Tended, Working, Training, Later, Newest, Front, Ckpt, Copies
<1>2. /\ store' \in [BOOLEAN -> Copied]
      /\ {Copies.sfm, Copies.gs, Copies.mesh, Copies.tex, Copies.ckpt}' \subseteq 0 .. Len(made')
  BY DEF Tended, Held, Copies, Ckpt
<1> QED
  BY <1>1, <1>2, Advanced

\* A step to another place, perhaps with new results.
Shifted ==
  /\ run' \in Jobs /\ run'.gui /\ run'.q = run.q /\ run'.arch = run.arch
  /\ run'.pc \notin {"dataset", "keep"}
  /\ run'.pc = "train" => run.q.splat
  /\ run'.pc \in Loaded => run'.model = run.model /\ run.pc \in Loaded
  /\ run'.model = run.model \/ run.q.only

LEMMA Turned ==
    ASSUME Tended, run # None, UNCHANGED <<file, st>>, Shifted,
           made' = made \/ Grows,
           {run'.scene, run'.model, run'.surface} \subseteq 0 .. Len(made'),
           store' \in [BOOLEAN -> Copied],
           {Copies.sfm, Copies.gs, Copies.mesh, Copies.tex, Copies.ckpt}' \subseteq 0 .. Len(made'),
           Ckpt' \in {0, Ckpt}, Copies'.gs = Copies.gs
    PROVE  Tended'
<1>1. Len(made) \in Nat /\ Len(made') \in Nat /\ Len(made) <= Len(made')
  BY DEF Tended, Results, Grows
<1>2. run \in Jobs /\ st.kind # None /\ Numbered(run.arch)
  BY DEF Tended, Working
<1>3. run'.arch \in Chunks
      /\ {run'.arch.sfm, run'.arch.gs, run'.arch.mesh, run'.arch.tex} \subseteq 0 .. Len(made')
  BY <1>1, <1>2 DEF Shifted, Numbered
<1>4. Working'
  BY <1>2, <1>3 DEF Shifted, Working, Numbered
<1>5. ~run.q.dataset /\ (run.q.splat => (run.q.only <=> st.kind # "train"))
      /\ (st.kind = "train" => run.q.splat)
  BY DEF Tended, Training
<1>6. st.kind = "train" => run'.model = run.model
  BY <1>5 DEF Shifted
<1>7. Training'
  BY <1>5, <1>6 DEF Shifted, Tended, Training
<1>8. Later'
  BY <1>6 DEF Tended, Later
<1>9. Newest'
  BY <1>6 DEF Tended, Newest, Front
<1> QED
  BY <1>4, <1>7, <1>8, <1>9, Advanced

LEMMA TurnedOnly ==
    ASSUME Tended, run # None, UNCHANGED <<file, made, store, st>>, Shifted,
           {run'.scene, run'.model, run'.surface} \subseteq 0 .. Len(made)
    PROVE  Tended'
<1>1. /\ store' \in [BOOLEAN -> Copied] /\ Ckpt' = Ckpt /\ Copies'.gs = Copies.gs
      /\ {Copies.sfm, Copies.gs, Copies.mesh, Copies.tex, Copies.ckpt}' \subseteq 0 .. Len(made')
  BY DEF Tended, Held, Copies, Ckpt
<1> QED
  BY <1>1, Turned

\* A file among the working copies.
LEMMA CopyKept ==
    ASSUME Tended, made' = made \/ Grows, NEW c \in {"sfm", "gs", "mesh", "tex", "ckpt"},
           NEW n \in 0 .. Len(made'),
           store' = [store EXCEPT ![TRUE] = [store[TRUE] EXCEPT ![c] = n]]
    PROVE  /\ store' \in [BOOLEAN -> Copied]
           /\ {Copies.sfm, Copies.gs, Copies.mesh, Copies.tex, Copies.ckpt}' \subseteq 0 .. Len(made')
           /\ c # "ckpt" => Ckpt' = Ckpt
           /\ c = "ckpt" => Ckpt' = n
           /\ c # "gs" => Copies'.gs = Copies.gs
           /\ c = "gs" => Copies'.gs = n
<1>1. Len(made) \in Nat /\ Len(made') \in Nat /\ Len(made) <= Len(made')
  BY DEF Tended, Results, Grows
<1>2. store \in [BOOLEAN -> Copied] /\ store[TRUE] \in Copied
      /\ {store[TRUE].sfm, store[TRUE].gs, store[TRUE].mesh, store[TRUE].tex,
          store[TRUE].ckpt} \subseteq 0 .. Len(made')
  <2>1. store \in [BOOLEAN -> Copied] /\ store[TRUE] \in Copied
    BY DEF Tended, Held
  <2>2. {store[TRUE].sfm, store[TRUE].gs, store[TRUE].mesh, store[TRUE].tex, store[TRUE].ckpt}
          \subseteq 0 .. Len(made)
    BY DEF Tended, Held, Copies
  <2>3. \A x \in 0 .. Len(made) : x \in 0 .. Len(made')
    BY <1>1
  <2> QED
    BY <2>1, <2>2, <2>3
<1>3. /\ store'[TRUE] = [store[TRUE] EXCEPT ![c] = n]
      /\ store' = [store EXCEPT ![TRUE] = store'[TRUE]]
  BY <1>2
<1>4. /\ store'[TRUE] \in Copied
      /\ {store'[TRUE].sfm, store'[TRUE].gs, store'[TRUE].mesh, store'[TRUE].tex,
          store'[TRUE].ckpt} \subseteq 0 .. Len(made')
      /\ c # "ckpt" => store'[TRUE].ckpt = store[TRUE].ckpt
      /\ c = "ckpt" => store'[TRUE].ckpt = n
      /\ c # "gs" => store'[TRUE].gs = store[TRUE].gs
      /\ c = "gs" => store'[TRUE].gs = n
  <2>1. n \in Nat
    BY <1>1
  <2>2. CASE c = "sfm"
    BY <1>2, <1>3, <2>1, <2>2 DEF Copied
  <2>3. CASE c = "gs"
    BY <1>2, <1>3, <2>1, <2>3 DEF Copied
  <2>4. CASE c = "mesh"
    BY <1>2, <1>3, <2>1, <2>4 DEF Copied
  <2>5. CASE c = "tex"
    BY <1>2, <1>3, <2>1, <2>5 DEF Copied
  <2>6. CASE c = "ckpt"
    BY <1>2, <1>3, <2>1, <2>6 DEF Copied
  <2> QED
    BY <2>2, <2>3, <2>4, <2>5, <2>6
<1>5. store' \in [BOOLEAN -> Copied]
  BY <1>2, <1>3, <1>4
<1> QED
  BY <1>4, <1>5 DEF Copies, Ckpt

-----------------------------------------------------------------------------
(* The steps of a job of Studio.                                           *)

\* What there is to say of a running job.
JobHas ==
  /\ run # None /\ run \in Jobs /\ run.gui /\ ~WritesProject /\ ~run.q.dataset
  /\ run.pc # "dataset"
  /\ {run.scene, run.model, run.surface, run.arch.sfm, run.arch.mesh} \subseteq 0 .. Len(made)
  /\ {Copies.sfm, Copies.gs, Copies.mesh, Copies.tex, Copies.ckpt} \subseteq 0 .. Len(made)
  /\ Len(made) \in Nat

LEMMA HasJob == ASSUME Tended, run # None PROVE JobHas
  BY DEF Tended, Working, Training, Held, Results, Numbered, WritesProject, JobHas

LEMMA LoadCamerasTended == ASSUME Tended, LoadCameras, UNCHANGED st PROVE Tended'
<1>1. JobHas /\ run.pc = "cameras"
  BY HasJob DEF LoadCameras, At
<1>2. CASE run' = None
  BY <1>1, <1>2, Ended DEF LoadCameras, JobHas
<1>3. ASSUME NEW n \in {run.arch.sfm, Copies.sfm}, NEW to \in {"bake", "publish"},
             run' = [run EXCEPT !.scene = n, !.pc = to]
      PROVE  Tended'
  <2>1. n \in Nat
    BY <1>1 DEF JobHas
  <2>2. Shifted
    BY <1>1, <1>3, <2>1 DEF Shifted, JobHas, Jobs, Places, Loaded, Before
  <2>3. {run'.scene, run'.model, run'.surface} \subseteq 0 .. Len(made)
    BY <1>1, <1>3, <2>1 DEF JobHas, Jobs
  <2> QED
    BY <1>1, <2>2, <2>3, TurnedOnly DEF LoadCameras, JobHas
<1>4. CASE run' = [run EXCEPT !.pc = "align"]
  <2>1. Shifted
    BY <1>1, <1>4 DEF Shifted, JobHas, Jobs, Places, Loaded, Before
  <2>2. {run'.scene, run'.model, run'.surface} \subseteq 0 .. Len(made)
    BY <1>1, <1>4 DEF JobHas, Jobs
  <2> QED
    BY <1>1, <2>1, <2>2, TurnedOnly DEF LoadCameras, JobHas
<1> QED
  BY <1>1, <1>2, <1>3, <1>4 DEF LoadCameras, Goto, End, JobHas, Copies

LEMMA PublishTended == ASSUME Tended, Publish, UNCHANGED st PROVE Tended'
<1>1. JobHas /\ run.pc = "publish"
  BY HasJob DEF Publish, At
<1>2. UNCHANGED <<file, made, store>>
      /\ run' = [run EXCEPT !.pc = IF run.q.dense THEN "densify"
                                   ELSE IF run.q.splat THEN "train" ELSE "done",
                            !.arch = run.arch]
  BY <1>1 DEF Publish, JobHas
<1>3. Shifted
  BY <1>1, <1>2 DEF Shifted, JobHas, Jobs, Places, Loaded, Before
<1>4. {run'.scene, run'.model, run'.surface} \subseteq 0 .. Len(made)
  BY <1>1, <1>2 DEF JobHas, Jobs
<1> QED
  BY <1>1, <1>2, <1>3, <1>4, TurnedOnly DEF JobHas

LEMMA LoadModelTended == ASSUME Tended, LoadModel, UNCHANGED st PROVE Tended'
<1>1. JobHas /\ run.pc = "train" /\ run.q.only
  BY HasJob DEF LoadModel, At
<1>2. CASE run' = None
  BY <1>1, <1>2, Ended DEF LoadModel, JobHas
<1>3. CASE run' # None
  <2>1. PICK m \in 0 .. Len(made) : run' = [run EXCEPT !.model = m, !.pc = "extract"]
    BY <1>1, <1>3 DEF LoadModel, End, JobHas, Copies
  <2>2. m \in Nat
    BY <1>1 DEF JobHas
  <2>3. Shifted
    BY <1>1, <2>1, <2>2 DEF Shifted, JobHas, Jobs, Places, Loaded, Before
  <2>4. {run'.scene, run'.model, run'.surface} \subseteq 0 .. Len(made)
    BY <1>1, <2>1, <2>2 DEF JobHas, Jobs
  <2> QED
    BY <1>1, <2>3, <2>4, TurnedOnly DEF LoadModel, JobHas
<1> QED
  BY <1>2, <1>3

LEMMA LoadMeshTended == ASSUME Tended, LoadMesh, UNCHANGED st PROVE Tended'
<1>1. JobHas /\ run.pc = "bake"
  BY HasJob DEF LoadMesh, At
<1>2. CASE run' = None
  BY <1>1, <1>2, Ended DEF LoadMesh, JobHas
<1>3. CASE run' # None
  <2>1. PICK m \in 0 .. Len(made) : run' = [run EXCEPT !.surface = m, !.pc = "texture"]
    BY <1>1, <1>3 DEF LoadMesh, End, JobHas, Copies
  <2>2. m \in Nat
    BY <1>1 DEF JobHas
  <2>3. Shifted
    BY <1>1, <2>1, <2>2 DEF Shifted, JobHas, Jobs, Places, Loaded, Before
  <2>4. {run'.scene, run'.model, run'.surface} \subseteq 0 .. Len(made)
    BY <1>1, <2>1, <2>2 DEF JobHas, Jobs
  <2> QED
    BY <1>1, <2>3, <2>4, TurnedOnly DEF LoadMesh, JobHas
<1> QED
  BY <1>2, <1>3

LEMMA StoreModelTended == ASSUME Tended, StoreModel, UNCHANGED st PROVE Tended'
<1>1. JobHas /\ run.pc = "store"
  BY HasJob DEF StoreModel, At
<1>2. UNCHANGED <<file, made, store>> /\ run' = [run EXCEPT !.pc = "clean"]
  BY <1>1 DEF StoreModel, Goto, JobHas
<1>3. Shifted
  BY <1>1, <1>2 DEF Shifted, JobHas, Jobs, Places, Loaded, Before
<1>4. {run'.scene, run'.model, run'.surface} \subseteq 0 .. Len(made)
  BY <1>1, <1>2 DEF JobHas, Jobs
<1> QED
  BY <1>1, <1>2, <1>3, <1>4, TurnedOnly DEF JobHas

\* The working copy becomes the model of the training, which Studio has not
\* seen, is loading or shows.
LEMMA KeepModelTended == ASSUME Tended, KeepModel, UNCHANGED st PROVE Tended'
<1>1. JobHas /\ run.pc = "keep"
  BY HasJob DEF KeepModel, At
<1>2. /\ UNCHANGED <<file, made>> /\ run' = [run EXCEPT !.pc = "store"]
      /\ run.model \in 0 .. Len(made')
      /\ store' = [store EXCEPT ![TRUE] = [store[TRUE] EXCEPT !["gs"] = run.model]]
  BY <1>1 DEF KeepModel, Goto, JobHas
<1>3. /\ run' \in Jobs /\ run'.gui /\ run'.q = run.q /\ run'.arch = run.arch
      /\ run'.pc = "store" /\ run'.model = run.model
      /\ {run'.scene, run'.model, run'.surface} \subseteq 0 .. Len(made')
  BY <1>1, <1>2 DEF JobHas, Jobs, Places
<1>4. /\ store' \in [BOOLEAN -> Copied] /\ Ckpt' = Ckpt /\ Copies'.gs = run.model
      /\ {Copies.sfm, Copies.gs, Copies.mesh, Copies.tex, Copies.ckpt}' \subseteq 0 .. Len(made')
  BY <1>2, CopyKept
<1>5. Working'
  BY <1>1, <1>2, <1>3 DEF Tended, Working, Numbered, JobHas
<1>6. Training'
  BY <1>1, <1>3 DEF Tended, Training, Loaded, Before, JobHas
<1>7. Later'
  BY <1>1, <1>3, <1>4 DEF Tended, Later, JobHas
<1>8. Newest'
  <2>1. st.kind = "train" /\ run # None /\ run.model # 0 /\ run.model \in Nat
    BY <1>1 DEF Tended, Training, JobHas
  <2>2. st.ready \in {0, run.model} /\ st.pending \in {0, run.model}
    BY <2>1 DEF Tended, Newest
  <2> QED
    BY <1>3, <1>4, <2>1, <2>2 DEF Tended, Newest, Front
<1> QED
  BY <1>1, <1>2, <1>4, <1>5, <1>6, <1>7, <1>8, Advanced DEF JobHas

LEMMA StoreMeshTended == ASSUME Tended, StoreMesh, UNCHANGED st PROVE Tended'
<1>1. JobHas /\ run.pc = "surface"
  BY HasJob DEF StoreMesh, At
<1>2. /\ UNCHANGED <<file, made>>
      /\ run' = [run EXCEPT !.pc = IF run.q.texture THEN "texture" ELSE "done"]
      /\ run.surface \in 0 .. Len(made')
      /\ store' = [store EXCEPT ![TRUE] = [store[TRUE] EXCEPT !["mesh"] = run.surface]]
  BY <1>1 DEF StoreMesh, Goto, JobHas
<1>3. Shifted
  BY <1>1, <1>2 DEF Shifted, JobHas, Jobs, Places, Loaded, Before
<1>4. {run'.scene, run'.model, run'.surface} \subseteq 0 .. Len(made')
  BY <1>1, <1>2 DEF JobHas, Jobs
<1>5. /\ store' \in [BOOLEAN -> Copied] /\ Ckpt' = Ckpt /\ Copies'.gs = Copies.gs
      /\ {Copies.sfm, Copies.gs, Copies.mesh, Copies.tex, Copies.ckpt}' \subseteq 0 .. Len(made')
  BY <1>2, CopyKept
<1> QED
  BY <1>1, <1>2, <1>3, <1>4, <1>5, Turned DEF JobHas

LEMMA RemoveCheckpointTended == ASSUME Tended, RemoveCheckpoint, UNCHANGED st PROVE Tended'
<1>1. JobHas /\ run.pc = "clean"
  BY HasJob DEF RemoveCheckpoint, At
<1>2. /\ UNCHANGED <<file, made>>
      /\ run' = [run EXCEPT !.pc = IF run.q.mesh THEN "extract" ELSE "done"]
      /\ store' = [store EXCEPT ![TRUE] = [store[TRUE] EXCEPT !.ckpt = 0]]
  BY <1>1 DEF RemoveCheckpoint, Goto, JobHas
<1>3. Shifted
  BY <1>1, <1>2 DEF Shifted, JobHas, Jobs, Places, Loaded, Before
<1>4. {run'.scene, run'.model, run'.surface} \subseteq 0 .. Len(made')
  BY <1>1, <1>2 DEF JobHas, Jobs
<1>5. /\ store' \in [BOOLEAN -> Copied] /\ Ckpt' = 0 /\ Copies'.gs = Copies.gs
      /\ {Copies.sfm, Copies.gs, Copies.mesh, Copies.tex, Copies.ckpt}' \subseteq 0 .. Len(made')
  <2>1. 0 \in 0 .. Len(made')
    BY <1>1, <1>2 DEF JobHas
  <2> QED
    BY <1>2, <2>1, CopyKept
<1> QED
  BY <1>1, <1>2, <1>3, <1>4, <1>5, Turned DEF JobHas

LEMMA JobResult ==
    ASSUME Tended, JobHas, NEW kind \in Kinds, NEW from, New(kind, from),
           from \subseteq {run.scene, run.model, run.surface}
    PROVE  /\ Grows
           /\ Id \in 0 .. Len(made') /\ Id \in Nat /\ Id # 0
           /\ \A n \in 0 .. Len(made) : n \in 0 .. Len(made') /\ n < Id
<1>1. from \in SUBSET (0 .. Len(made)) /\ Len(made) \in Nat
  BY DEF JobHas
<1>2. Grows
  BY <1>1, NewResult DEF Tended
<1> QED
  BY <1>1, <1>2 DEF Grows, Id

\* What it leaves of the working copies.
LEMMA CopiesStay ==
    ASSUME Tended, UNCHANGED store, made' = made \/ Grows
    PROVE  /\ store' \in [BOOLEAN -> Copied] /\ Ckpt' = Ckpt /\ Copies' = Copies
           /\ {Copies.sfm, Copies.gs, Copies.mesh, Copies.tex, Copies.ckpt}' \subseteq 0 .. Len(made')
<1>1. Len(made) \in Nat /\ Len(made') \in Nat /\ Len(made) <= Len(made')
  BY DEF Tended, Results, Grows
<1>2. {Copies.sfm, Copies.gs, Copies.mesh, Copies.tex, Copies.ckpt} \subseteq 0 .. Len(made)
  BY DEF Tended, Held
<1>3. \A x \in 0 .. Len(made) : x \in 0 .. Len(made')
  BY <1>1
<1>4. store' \in [BOOLEAN -> Copied] /\ Ckpt' = Ckpt /\ Copies' = Copies
  BY DEF Tended, Held, Copies, Ckpt
<1> QED
  BY <1>2, <1>3, <1>4

LEMMA AlignTended == ASSUME Tended, Align, UNCHANGED st PROVE Tended'
<1>1. JobHas /\ run.pc = "align"
  BY HasJob DEF Align, At
<1>2. CASE End(2) /\ UNCHANGED <<made, store>>
  BY <1>1, <1>2, Ended DEF Align, End, JobHas
<1>3. CASE New("sfm", {}) /\ run' = [run EXCEPT !.scene = Id, !.fresh = TRUE, !.pc = "publish"]
           /\ store' = [store EXCEPT ![run.gui] = [@ EXCEPT !.sfm = IF run.gui THEN Id ELSE 0]]
  <2>1. /\ Grows /\ Id \in 0 .. Len(made') /\ Id \in Nat
        /\ \A n \in 0 .. Len(made) : n \in 0 .. Len(made')
    BY <1>1, <1>3, JobResult DEF Kinds, Stages
  <2>2. Shifted
    BY <1>1, <1>3, <2>1 DEF Shifted, JobHas, Jobs, Places, Loaded, Before
  <2>3. {run'.scene, run'.model, run'.surface} \subseteq 0 .. Len(made')
    BY <1>1, <1>3, <2>1 DEF JobHas, Jobs
  <2>4. store' = [store EXCEPT ![TRUE] = [store[TRUE] EXCEPT !["sfm"] = Id]]
    BY <1>1, <1>3 DEF JobHas
  <2>5. /\ store' \in [BOOLEAN -> Copied] /\ Ckpt' = Ckpt /\ Copies'.gs = Copies.gs
        /\ {Copies.sfm, Copies.gs, Copies.mesh, Copies.tex, Copies.ckpt}'
             \subseteq 0 .. Len(made')
    BY <2>1, <2>4, CopyKept
  <2> QED
    BY <1>1, <2>1, <2>2, <2>3, <2>5, Turned DEF Align, JobHas
<1> QED
  BY <1>2, <1>3 DEF Align

LEMMA TextureTended == ASSUME Tended, Texture, UNCHANGED st PROVE Tended'
<1>1. JobHas /\ run.pc = "texture"
  BY HasJob DEF Texture, At
<1>2. /\ New("tex", {run.scene, run.surface}) /\ UNCHANGED file
      /\ run' = [run EXCEPT !.pc = "done"]
      /\ store' = [store EXCEPT ![TRUE] = [store[TRUE] EXCEPT !["tex"] = Id]]
  BY <1>1 DEF Texture, Goto, JobHas
<1>3. /\ Grows /\ Id \in 0 .. Len(made') /\ Id \in Nat
      /\ \A n \in 0 .. Len(made) : n \in 0 .. Len(made')
  BY <1>1, <1>2, JobResult DEF Kinds, Stages
<1>4. Shifted
  BY <1>1, <1>2 DEF Shifted, JobHas, Jobs, Places, Loaded, Before
<1>5. {run'.scene, run'.model, run'.surface} \subseteq 0 .. Len(made')
  BY <1>1, <1>2, <1>3 DEF JobHas, Jobs
<1>6. /\ store' \in [BOOLEAN -> Copied] /\ Ckpt' = Ckpt /\ Copies'.gs = Copies.gs
      /\ {Copies.sfm, Copies.gs, Copies.mesh, Copies.tex, Copies.ckpt}' \subseteq 0 .. Len(made')
  BY <1>2, <1>3, CopyKept
<1> QED
  BY <1>1, <1>2, <1>3, <1>4, <1>5, <1>6, Turned DEF JobHas

LEMMA DensifyTended == ASSUME Tended, Densify, UNCHANGED st PROVE Tended'
<1>1. JobHas /\ run.pc = "densify"
  BY HasJob DEF Densify, At
<1>2. ASSUME NEW to \in {"train", "surface"}, to = "train" => run.q.splat,
             New("mesh", {run.scene}), run' = [run EXCEPT !.surface = Id, !.pc = to]
      PROVE  Tended'
  <2>1. /\ Grows /\ Id \in 0 .. Len(made') /\ Id \in Nat
        /\ \A n \in 0 .. Len(made) : n \in 0 .. Len(made')
    BY <1>1, <1>2, JobResult DEF Kinds, Stages
  <2>2. Shifted
    BY <1>1, <1>2, <2>1 DEF Shifted, JobHas, Jobs, Places, Loaded, Before
  <2>3. {run'.scene, run'.model, run'.surface} \subseteq 0 .. Len(made')
    BY <1>1, <1>2, <2>1 DEF JobHas, Jobs
  <2>4. /\ store' \in [BOOLEAN -> Copied] /\ Ckpt' = Ckpt /\ Copies'.gs = Copies.gs
        /\ {Copies.sfm, Copies.gs, Copies.mesh, Copies.tex, Copies.ckpt}'
             \subseteq 0 .. Len(made')
    BY <2>1, CopiesStay DEF Densify
  <2> QED
    BY <1>1, <2>1, <2>2, <2>3, <2>4, Turned DEF Densify, JobHas
<1>3. ASSUME NEW to \in {"train", "done"}, to = "train" => run.q.splat,
             UNCHANGED made, run' = [run EXCEPT !.pc = to]
      PROVE  Tended'
  <2>1. Shifted
    BY <1>1, <1>3 DEF Shifted, JobHas, Jobs, Places, Loaded, Before
  <2>2. {run'.scene, run'.model, run'.surface} \subseteq 0 .. Len(made)
    BY <1>1, <1>3 DEF JobHas, Jobs
  <2> QED
    BY <1>1, <1>3, <2>1, <2>2, TurnedOnly DEF Densify, JobHas
<1> QED
  BY <1>2, <1>3 DEF Densify, Goto

LEMMA ExtractTended == ASSUME Tended, Extract, UNCHANGED st PROVE Tended'
<1>1. JobHas /\ run.pc = "extract"
  BY HasJob DEF Extract, At
<1>2. /\ New("mesh", {run.scene, run.model}) /\ UNCHANGED <<file, store>>
      /\ run' = [run EXCEPT !.surface = Id, !.pc = "surface"]
  BY DEF Extract
<1>3. /\ Grows /\ Id \in 0 .. Len(made') /\ Id \in Nat
      /\ \A n \in 0 .. Len(made) : n \in 0 .. Len(made')
  BY <1>1, <1>2, JobResult DEF Kinds, Stages
<1>4. Shifted
  BY <1>1, <1>2, <1>3 DEF Shifted, JobHas, Jobs, Places, Loaded, Before
<1>5. {run'.scene, run'.model, run'.surface} \subseteq 0 .. Len(made')
  BY <1>1, <1>2, <1>3 DEF JobHas, Jobs
<1>6. /\ store' \in [BOOLEAN -> Copied] /\ Ckpt' = Ckpt /\ Copies'.gs = Copies.gs
      /\ {Copies.sfm, Copies.gs, Copies.mesh, Copies.tex, Copies.ckpt}' \subseteq 0 .. Len(made')
  BY <1>2, <1>3, CopiesStay
<1> QED
  BY <1>1, <1>2, <1>3, <1>4, <1>5, <1>6, Turned DEF JobHas

\* A checkpoint is left before the model of the training is there, and the
\* model before has been dropped when the training began.
LEMMA CheckpointTended == ASSUME Tended, Checkpoint, UNCHANGED st PROVE Tended'
<1>1. JobHas /\ run.pc = "train" /\ ~run.q.only
  BY HasJob DEF Checkpoint, At
<1>2. /\ New("ckpt", {run.scene}) /\ UNCHANGED <<file, run>>
      /\ store' = [store EXCEPT ![TRUE] = [store[TRUE] EXCEPT !["ckpt"] = Id]]
  BY <1>1 DEF Checkpoint, JobHas
<1>3. /\ Grows /\ Id \in 0 .. Len(made')
      /\ \A n \in 0 .. Len(made) : n \in 0 .. Len(made')
  BY <1>1, <1>2, JobResult DEF Kinds, Stages
<1>4. /\ store' \in [BOOLEAN -> Copied] /\ Copies'.gs = Copies.gs
      /\ {Copies.sfm, Copies.gs, Copies.mesh, Copies.tex, Copies.ckpt}' \subseteq 0 .. Len(made')
  BY <1>2, <1>3, CopyKept
<1>5. st.kind = "train" /\ run.model = 0 /\ st.ready = 0 /\ st.pending = 0
  BY <1>1 DEF Tended, Training, JobHas, Loaded, Before
<1>6. Training' /\ Later' /\ Newest'
  BY <1>2, <1>4, <1>5 DEF Tended, Training, Later, Newest
<1>7. Working'
  <2>1. {run.scene, run.model, run.surface} \subseteq 0 .. Len(made')
    BY <1>1, <1>3 DEF JobHas
  <2>2. {run.arch.sfm, run.arch.gs, run.arch.mesh, run.arch.tex} \subseteq 0 .. Len(made')
    BY <1>1, <1>3 DEF Tended, Working, Numbered, JobHas
  <2> QED
    BY <1>2, <2>1, <2>2 DEF Tended, Working, Numbered
<1> QED
  BY <1>1, <1>2, <1>3, <1>4, <1>6, <1>7, Advanced DEF JobHas

LEMMA TrainTended == ASSUME Tended, Train, UNCHANGED st PROVE Tended'
<1>1. JobHas /\ run.pc = "train" /\ ~run.q.only
  BY HasJob DEF Train, At
<1>2. /\ New("gs", {run.scene}) /\ UNCHANGED <<file, store>>
      /\ run' = [run EXCEPT !.model = Id, !.pc = "keep"]
  BY DEF Train
<1>3. /\ Grows /\ Id \in 0 .. Len(made') /\ Id \in Nat /\ Id # 0
      /\ \A n \in 0 .. Len(made) : n \in 0 .. Len(made') /\ n < Id
  BY <1>1, <1>2, JobResult DEF Kinds, Stages
<1>4. /\ store' \in [BOOLEAN -> Copied] /\ Ckpt' = Ckpt /\ Copies'.gs = Copies.gs
      /\ {Copies.sfm, Copies.gs, Copies.mesh, Copies.tex, Copies.ckpt}' \subseteq 0 .. Len(made')
  BY <1>2, <1>3, CopiesStay
<1>5. /\ run' \in Jobs /\ run'.gui /\ run'.q = run.q /\ run'.arch = run.arch
      /\ run'.pc = "keep" /\ run'.model = Id
      /\ {run'.scene, run'.model, run'.surface} \subseteq 0 .. Len(made')
  BY <1>1, <1>2, <1>3 DEF JobHas, Jobs, Places
<1>6. Working'
  <2>1. {run.arch.sfm, run.arch.gs, run.arch.mesh, run.arch.tex} \subseteq 0 .. Len(made')
    BY <1>1, <1>3 DEF Tended, Working, Numbered, JobHas
  <2>2. run'.arch \in Chunks
        /\ {run'.arch.sfm, run'.arch.gs, run'.arch.mesh, run'.arch.tex} \subseteq 0 .. Len(made')
    BY <1>5, <2>1 DEF Jobs
  <2> QED
    BY <1>1, <1>5, <2>2 DEF Tended, Working, Numbered, JobHas
<1>7. Training'
  BY <1>1, <1>3, <1>5 DEF Tended, Training, Loaded, Before, JobHas
<1>8. Later'
  <2>1. Ckpt < Id
    BY <1>1, <1>3 DEF JobHas, Ckpt, Copies
  <2> QED
    BY <1>4, <1>5, <2>1 DEF Tended, Later
<1>9. Newest'
  <2>1. Copies.gs <= Id /\ st.edit <= Id
    BY <1>1, <1>3 DEF JobHas, Tended, Held
  <2>2. Front(Id)
    <3>1. st.models # <<>> => 1 \in 1 .. Len(st.models)
      BY DEF Tended, Held, States
    <3>2. st.models # <<>> => st.models[1] \in 0 .. Len(made)
      BY <3>1 DEF Tended, Held, Listing, Results
    <3> QED
      BY <1>3, <3>2 DEF Front
  <2>3. st.kind = "train" => st.ready = 0 /\ st.pending = 0
    BY <1>1 DEF Tended, Training, Loaded, Before, JobHas
  <2> QED
    BY <1>4, <1>5, <2>1, <2>2, <2>3 DEF Tended, Newest, Front
<1> QED
  BY <1>1, <1>2, <1>3, <1>4, <1>6, <1>7, <1>8, <1>9, Advanced DEF JobHas

LEMMA StepTended == ASSUME Tended, Steps, UNCHANGED st PROVE Tended'
<1>1. ~LoadDataset
  BY DEF Tended, Training, LoadDataset, At
<1>2. CASE Done \/ Fail
  BY <1>2, Ended DEF Done, Fail, End, At
<1> QED
  BY <1>1, <1>2, LoadCamerasTended, AlignTended, PublishTended, DensifyTended,
     CheckpointTended, TrainTended, KeepModelTended, LoadModelTended, StoreModelTended,
     RemoveCheckpointTended, ExtractTended, StoreMeshTended, LoadMeshTended, TextureTended
  DEF Steps

-----------------------------------------------------------------------------
(* The user's operations.                                                  *)

\* What is shown is a result.
LEMMA ShownIs ==
    ASSUME Tended
    PROVE  ModelFile \in 0 .. Len(made) /\ Shown \in 0 .. Len(made)
<1>1. Len(made) \in Nat /\ 0 \in 0 .. Len(made)
  <2>1. Len(made) \in Nat
    BY DEF Tended, Results
  <2> QED
    BY <2>1
<1>2. st \in States /\ {st.ready, st.edit, Copies.gs} \subseteq 0 .. Len(made)
  BY DEF Tended, Held
<1>3. InProject => file.gs \in 0 .. Len(made)
  BY DEF Tended, Results, Numbered, InProject
<1>4. st.models # <<>> => st.models[1] \in 0 .. Len(made)
  <2>1. st.models # <<>> => 1 \in 1 .. Len(st.models)
    BY <1>2 DEF States
  <2>2. Listing(made, st.models, st.names)
    BY DEF Tended, Held
  <2> QED
    BY <1>1, <2>1, <2>2 DEF Listing
<1>5. ModelFile \in 0 .. Len(made)
  BY <1>2, <1>4 DEF ModelFile
<1> QED
  BY <1>1, <1>2, <1>3, <1>5 DEF Shown

\* A new job with the working copies prepared for it.
LEMMA Launched ==
    ASSUME Tended, run = None,
           NEW k \in {"align", "train", "dense", "texture"}, NEW flags,
           NEW output \in BOOLEAN, NEW input \in 0 .. Len(made),
           Launch(k, flags, output, input), UNCHANGED <<file, made>>,
           Parse(flags, TRUE) \in Flags, ~Parse(flags, TRUE).dataset,
           Parse(flags, TRUE).splat => (Parse(flags, TRUE).only <=> k # "train"),
           k = "train" => Parse(flags, TRUE).splat /\ input = 0,
           store' \in [BOOLEAN -> Copied],
           {Copies.sfm, Copies.gs, Copies.mesh, Copies.tex, Copies.ckpt}' \subseteq 0 .. Len(made'),
           k # "train" => Ckpt' = Ckpt, Copies'.gs = Copies.gs
    PROVE  Tended'
<1> DEFINE q == Parse(flags, TRUE)
           arch == IF output /\ file # None THEN file ELSE NoChunks
<1>1. k # None
  BY StudioProjectAssumption
<1>2. Numbered(arch)
  BY DEF Tended, Results, Numbered, NoChunks, Chunks
<1>3. run' = [q |-> q, gui |-> TRUE, proj |-> output, fresh |-> FALSE, pc |-> "cameras",
              arch |-> arch, scene |-> 0, model |-> input, surface |-> 0]
  BY DEF Launch, NewRun
<1>4. q \in Flags /\ ~q.dataset /\ (q.splat => (q.only <=> k # "train"))
      /\ (k = "train" => q.splat /\ input = 0)
  OBVIOUS
<1> HIDE DEF q, arch
<1>5. st' = Job(k) /\ st \in States
  BY DEF Launch, Tended, Held
<1>6. /\ st' \in States /\ st'.kind = k
      /\ {st'.ready, st'.pending, st'.edit, st'.rev, st'.sfm} \subseteq 0 .. Len(made)
      /\ k = "train" => st'.ready = 0 /\ st'.pending = 0
      /\ k # "train" => st'.ready = st.ready /\ st'.pending = st.pending
      /\ st'.models = st.models /\ st'.names = st.names /\ st'.list = st.list
      /\ st'.edit = st.edit
  <2>1. Len(made) \in Nat
    BY DEF Tended, Results
  <2>2. {st.ready, st.pending, st.edit, st.rev, st.sfm} \subseteq 0 .. Len(made)
    BY DEF Tended, Held
  <2>3. 0 \in 0 .. Len(made) /\ st.uses + 1 \in Nat
    BY <1>5, <2>1 DEF States
  <2>4. st' \in States
    BY <1>5, <2>3 DEF Job, States
  <2>5. /\ st'.models = st.models /\ st'.names = st.names /\ st'.list = st.list
        /\ st'.kind = k /\ st'.edit = st.edit /\ st'.rev = st.rev /\ st'.sfm = st.sfm
        /\ k = "train" => st'.ready = 0 /\ st'.pending = 0
        /\ k # "train" => st'.ready = st.ready /\ st'.pending = st.pending
    BY <1>5 DEF Job, States
  <2> QED
    BY <2>2, <2>3, <2>4, <2>5
<1>7. Held'
  BY <1>6 DEF Tended, Held
<1>8. Results' /\ Filed'
  BY DEF Tended, Results, Filed, OneSource, Embedded, Readable, Numbered
<1>9. Working'
  <2>1. run' \in Jobs
    BY <1>2, <1>3, <1>4 DEF Jobs, Places, Loaded, Before, Numbered
  <2>2. /\ run'.arch \in Chunks
        /\ {run'.arch.sfm, run'.arch.gs, run'.arch.mesh, run'.arch.tex} \subseteq 0 .. Len(made')
    BY <1>2, <1>3 DEF Numbered
  <2>3. {run'.scene, run'.model, run'.surface} \subseteq 0 .. Len(made')
    BY <1>3 DEF Tended, Results
  <2> QED
    BY <1>1, <1>3, <1>6, <2>1, <2>2, <2>3 DEF Working, Numbered
<1>10. Training'
  BY <1>3, <1>4, <1>6 DEF Training
<1>11. Later'
  BY <1>3, <1>4, <1>6 DEF Tended, Later
<1>12. Newest'
  BY <1>3, <1>4, <1>6 DEF Tended, Newest, Front
<1>13. Kept'
  BY <1>1, <1>6 DEF Kept, Clean
<1> QED
  BY <1>7, <1>8, <1>9, <1>10, <1>11, <1>12, <1>13 DEF Tended

\* What the flags of Studio's jobs ask for.
LEMMA JobFlags ==
    ASSUME NEW f, "dataset" \notin f, "texture" \in f => f = {"texture"}
    PROVE  /\ Parse(f, TRUE) \in Flags /\ ~Parse(f, TRUE).dataset
           /\ Parse(f, TRUE).only <=> "mesh-only" \in f
           /\ "splat" \in f => Parse(f, TRUE).splat
           /\ "splat" \notin f /\ "mesh-only" \notin f /\ ("capture-mode" \in f => "dense" \in f)
              => ~Parse(f, TRUE).splat
<1>1. Parse(f, TRUE) \in Flags
  BY DEF Parse, Flags
<1>2. ~Parse(f, TRUE).dataset
  BY DEF Parse
<1>3. Parse(f, TRUE).only <=> "mesh-only" \in f
  BY DEF Parse
<1>4. "splat" \in f => Parse(f, TRUE).splat
  BY DEF Parse
<1>5. "splat" \notin f /\ "mesh-only" \notin f /\ ("capture-mode" \in f => "dense" \in f)
      => ~Parse(f, TRUE).splat
  BY DEF Parse
<1> QED
  BY <1>1, <1>2, <1>3, <1>4, <1>5

LEMMA JobCopies ==
    ASSUME Tended, UNCHANGED <<made, store>>
    PROVE  /\ store' \in [BOOLEAN -> Copied] /\ Ckpt' = Ckpt /\ Copies'.gs = Copies.gs
           /\ {Copies.sfm, Copies.gs, Copies.mesh, Copies.tex, Copies.ckpt}' \subseteq 0 .. Len(made')
  BY CopiesStay

LEMMA TrainingTended ==
    ASSUME Tended, run = None, NEW resume \in BOOLEAN, StartTrain(resume)
    PROVE  Tended'
<1>1. PICK mesh \in {"mesh", "no-mesh"} :
        Launch("train", {"splat", "capture-mode", mesh}, FALSE, 0)
  BY DEF StartTrain
<1> DEFINE f == {"splat", "capture-mode", mesh}
<1>2. /\ Parse(f, TRUE) \in Flags /\ ~Parse(f, TRUE).dataset
      /\ ~Parse(f, TRUE).only /\ Parse(f, TRUE).splat
  <2>1. "dataset" \notin f /\ "texture" \notin f /\ "mesh-only" \notin f /\ "splat" \in f
    OBVIOUS
  <2> HIDE DEF f
  <2> QED
    BY <2>1, JobFlags
<1>3. /\ Len(made) \in Nat /\ store \in [BOOLEAN -> Copied] /\ store[TRUE] \in Copied
      /\ {store[TRUE].sfm, store[TRUE].gs, store[TRUE].mesh, store[TRUE].tex,
          store[TRUE].ckpt} \subseteq 0 .. Len(made)
      /\ file # None => {file.sfm, file.info} \subseteq 0 .. Len(made)
  <2>1. store \in [BOOLEAN -> Copied] /\ store[TRUE] \in Copied
    BY DEF Tended, Held
  <2>2. Len(made) \in Nat
    BY DEF Tended, Results
  <2>3. {store[TRUE].sfm, store[TRUE].gs, store[TRUE].mesh, store[TRUE].tex,
         store[TRUE].ckpt} \subseteq 0 .. Len(made)
    BY DEF Tended, Held, Copies
  <2>4. file # None => {file.sfm, file.info} \subseteq 0 .. Len(made)
    BY <2>2 DEF Tended, Results, Filed, Numbered, Chunks
  <2> QED
    BY <2>1, <2>2, <2>3, <2>4
<1>4. PICK s \in 0 .. Len(made), c \in 0 .. Len(made) :
        Prepared(resume) = [store[TRUE] EXCEPT !.sfm = s, !.ckpt = c]
  <2> DEFINE saved == InProject /\ ~st.discarded
             s == IF store[TRUE].sfm = 0 /\ saved THEN file.sfm ELSE store[TRUE].sfm
             c == IF resume
                  THEN IF Ckpt = 0 /\ saved /\ file.gs # 0 THEN file.info ELSE Ckpt
                  ELSE 0
  <2>1. Prepared(resume) = [store[TRUE] EXCEPT !.sfm = s, !.ckpt = c]
    BY <1>3 DEF Prepared, Copies, Copied
  <2>2. s \in 0 .. Len(made)
    BY <1>3 DEF InProject
  <2>3. c \in 0 .. Len(made)
    <3>1. 0 \in 0 .. Len(made)
      BY <1>3
    <3>2. Ckpt \in 0 .. Len(made)
      BY <1>3 DEF Ckpt
    <3>3. saved => file.info \in 0 .. Len(made)
      BY <1>3 DEF InProject
    <3> QED
      BY <3>1, <3>2, <3>3
  <2> HIDE DEF s, c
  <2> QED
    BY <2>1, <2>2, <2>3
<1>5. s \in Nat /\ c \in Nat
  BY <1>3
<1>6. UNCHANGED <<file, made>>
      /\ store' = [store EXCEPT ![TRUE] = [store[TRUE] EXCEPT !.sfm = s, !.ckpt = c]]
  BY <1>4 DEF StartTrain
<1>7. /\ store' \in [BOOLEAN -> Copied] /\ Copies'.gs = Copies.gs
      /\ {Copies.sfm, Copies.gs, Copies.mesh, Copies.tex, Copies.ckpt}' \subseteq 0 .. Len(made')
  <2>1. [store[TRUE] EXCEPT !.sfm = s, !.ckpt = c] \in Copied
    BY <1>3, <1>5 DEF Copied
  <2>2. store'[TRUE] = [store[TRUE] EXCEPT !.sfm = s, !.ckpt = c]
    BY <1>3, <1>6
  <2>3. {store'[TRUE].sfm, store'[TRUE].gs, store'[TRUE].mesh, store'[TRUE].tex,
         store'[TRUE].ckpt} \subseteq 0 .. Len(made)
    BY <1>3, <2>2 DEF Copied
  <2>4. store' \in [BOOLEAN -> Copied]
    BY <1>3, <1>6, <2>1
  <2>5. store'[TRUE].gs = store[TRUE].gs
    BY <1>3, <2>2 DEF Copied
  <2> QED
    BY <1>6, <2>3, <2>4, <2>5 DEF Copies, Ckpt
<1>8. 0 \in 0 .. Len(made)
  BY <1>3
<1> QED
  BY <1>1, <1>2, <1>6, <1>7, <1>8, Launched

LEMMA JobTended ==
    ASSUME Tended, Align_ \/ TrainNew \/ TrainResume \/ ExtractMesh \/ Dense \/ BakeTexture
    PROVE  Tended'
<1>1. run = None /\ st.proj \in BOOLEAN /\ Len(made) \in Nat /\ 0 \in 0 .. Len(made)
  <2>1. run = None
    BY DEF Align_, TrainNew, TrainResume, ExtractMesh, Dense, BakeTexture, Idle
  <2>2. st.proj \in BOOLEAN /\ Len(made) \in Nat
    BY DEF Tended, Held, Results, States
  <2> QED
    BY <2>1, <2>2
<1>2. CASE Align_
  <2> DEFINE f == {}
  <2>1. /\ Parse(f, TRUE) \in Flags /\ ~Parse(f, TRUE).dataset /\ ~Parse(f, TRUE).splat
    <3>1. /\ "dataset" \notin f /\ "texture" \notin f /\ "mesh-only" \notin f
          /\ "splat" \notin f /\ "capture-mode" \notin f
      OBVIOUS
    <3> HIDE DEF f
    <3> QED
      BY <3>1, JobFlags
  <2>2. Launch("align", f, st.proj, 0) /\ UNCHANGED <<file, made, store>>
    BY <1>2 DEF Align_
  <2> HIDE DEF f
  <2> QED
    BY <1>1, <2>1, <2>2, JobCopies, Launched
<1>3. CASE TrainNew \/ TrainResume
  BY <1>1, <1>3, TrainingTended DEF TrainNew, TrainResume
<1>4. CASE ExtractMesh
  <2> DEFINE model == IF st.edit # 0 THEN st.edit ELSE ModelFile
             f == {"splat", "mesh", "mesh-only", "capture-mode"}
  <2>1. CASE model = 0
    BY <1>1, <1>4, <2>1, TrainingTended DEF ExtractMesh
  <2>2. CASE model # 0
    <3>1. /\ Parse(f, TRUE) \in Flags /\ ~Parse(f, TRUE).dataset
          /\ Parse(f, TRUE).only /\ Parse(f, TRUE).splat
      <4>1. "dataset" \notin f /\ "texture" \notin f /\ "mesh-only" \in f /\ "splat" \in f
        OBVIOUS
      <4> HIDE DEF f
      <4> QED
        BY <4>1, JobFlags
    <3>2. model \in 0 .. Len(made)
      BY <1>1, ShownIs DEF Tended, Held
    <3>3. Launch("dense", f, FALSE, model) /\ UNCHANGED <<file, made, store>>
      BY <1>4, <2>2 DEF ExtractMesh
    <3> HIDE DEF f, model
    <3> QED
      BY <1>1, <3>1, <3>2, <3>3, JobCopies, Launched
  <2> QED
    BY <2>1, <2>2
<1>5. CASE Dense
  <2> DEFINE f == {"dense", "mesh", "capture-mode"}
  <2>1. /\ Parse(f, TRUE) \in Flags /\ ~Parse(f, TRUE).dataset /\ ~Parse(f, TRUE).splat
    <3>1. /\ "dataset" \notin f /\ "texture" \notin f /\ "mesh-only" \notin f
          /\ "splat" \notin f /\ "dense" \in f
      OBVIOUS
    <3> HIDE DEF f
    <3> QED
      BY <3>1, JobFlags
  <2>2. Launch("dense", f, st.proj, 0) /\ UNCHANGED <<file, made, store>>
    BY <1>5 DEF Dense
  <2> HIDE DEF f
  <2> QED
    BY <1>1, <2>1, <2>2, JobCopies, Launched
<1>6. CASE BakeTexture
  <2> DEFINE f == {"texture"}
  <2>1. /\ Parse(f, TRUE) \in Flags /\ ~Parse(f, TRUE).dataset /\ ~Parse(f, TRUE).splat
    <3>1. /\ "dataset" \notin f /\ "capture-mode" \notin f /\ "mesh-only" \notin f
          /\ "splat" \notin f /\ f = {"texture"}
      OBVIOUS
    <3> HIDE DEF f
    <3> QED
      BY <3>1, JobFlags
  <2>2. Launch("texture", f, st.proj, 0) /\ UNCHANGED <<file, made, store>>
    BY <1>6 DEF BakeTexture
  <2> HIDE DEF f
  <2> QED
    BY <1>1, <2>1, <2>2, JobCopies, Launched
<1> QED
  BY <1>2, <1>3, <1>4, <1>5, <1>6

\* An edit is newer than the one that was saved.
LEMMA EditTended == ASSUME Tended, Edit PROVE Tended'
<1>1. /\ Shown \in 0 .. Len(made)
      /\ Len(made) \in Nat /\ st \in States
  BY ShownIs DEF Tended, Held, Results
<1>2. New("gs", {Shown}) /\ UNCHANGED <<file, store, run>>
      /\ st' = [st EXCEPT !.edit = Id, !.uses = @ + 1]
  BY DEF Edit
<1>3. Grows
  <2>1. {Shown} \in SUBSET (0 .. Len(made)) /\ "gs" \in Kinds
    BY <1>1 DEF Kinds, Stages
  <2> QED
    BY <1>2, <2>1, NewResult DEF Tended
<1>4. /\ Id \in Nat /\ Id \in 0 .. Len(made')
      /\ \A n \in 0 .. Len(made) : n \in 0 .. Len(made') /\ n < Id
  BY <1>1, <1>3 DEF Grows, Id
<1>5. /\ st' \in States /\ st'.edit = Id /\ st'.ready = st.ready /\ st'.pending = st.pending
      /\ st'.kind = st.kind /\ st'.rev = st.rev /\ st'.sfm = st.sfm
      /\ st'.saved = st.saved /\ st'.dirty = st.dirty /\ st'.early = st.early
      /\ st'.partial = st.partial
      /\ st'.discarded = st.discarded /\ st'.proj = st.proj /\ st'.seen = st.seen
      /\ st'.models = st.models /\ st'.names = st.names /\ st'.list = st.list
  <2>1. st.uses + 1 \in Nat
    BY <1>1 DEF States
  <2>2. st' \in States
    BY <1>1, <1>2, <1>4, <2>1 DEF States
  <2> QED
    BY <1>1, <1>2, <2>2 DEF States
<1>6. Held'
  <2>1. {st.ready, st.pending, st.rev, st.sfm} \subseteq 0 .. Len(made)
    BY DEF Tended, Held
  <2>2. {st'.ready, st'.pending, st'.edit, st'.rev, st'.sfm} \subseteq 0 .. Len(made')
    BY <1>4, <1>5, <2>1
  <2>3. /\ store' \in [BOOLEAN -> Copied]
        /\ {Copies.sfm, Copies.gs, Copies.mesh, Copies.tex, Copies.ckpt}' \subseteq 0 .. Len(made')
    BY <1>2, <1>3, CopiesStay
  <2>4. Listing(made', st'.models, st'.names)
    BY <1>3, <1>5, HeldStays
  <2>5. Edits(made', Id)
    BY <1>1, <1>2 DEF New, Edits, Id, Tended, Results
  <2> QED
    BY <1>5, <2>2, <2>3, <2>4, <2>5 DEF Held
<1>7. Results'
  <2>1. file # None => file \in Chunks
          /\ {file.sfm, file.gs, file.mesh, file.tex} \subseteq 0 .. Len(made')
    BY <1>4 DEF Tended, Results, Numbered
  <2> QED
    BY <1>2, <1>3, <2>1 DEF Results, Grows, Numbered
<1>8. Filed'
  <2>1. file # None => file.info \in Nat
    BY DEF Tended, Results, Numbered, Chunks
  <2>2. file # None => Readable(made', file)
    BY <1>3, HeldStays
  <2> QED
    BY <1>1, <1>2, <1>3, <2>1, <2>2 DEF Tended, Filed, OneSource, Embedded, Grows
<1>9. Working'
  <2> SUFFICES ASSUME run # None PROVE Working'
    BY <1>2 DEF Working
  <2>1. /\ run \in Jobs /\ run.gui /\ st.kind # None /\ run.arch \in Chunks
        /\ {run.arch.sfm, run.arch.gs, run.arch.mesh, run.arch.tex} \subseteq 0 .. Len(made)
        /\ {run.scene, run.model, run.surface} \subseteq 0 .. Len(made)
    BY DEF Tended, Working, Numbered
  <2>2. /\ {run.arch.sfm, run.arch.gs, run.arch.mesh, run.arch.tex} \subseteq 0 .. Len(made')
        /\ {run.scene, run.model, run.surface} \subseteq 0 .. Len(made')
    BY <1>4, <2>1
  <2> QED
    BY <1>2, <1>5, <2>1, <2>2 DEF Working, Numbered
<1>10. Training' /\ Later'
  BY <1>2, <1>5 DEF Tended, Training, Later, Ckpt
<1>11. Newest'
  <2>1. st.pending = 0 /\ (st.kind = "train" => st.ready # 0) /\ Id # 0
    BY <1>4 DEF Edit
  <2> QED
    BY <1>2, <1>5, <2>1 DEF Tended, Newest, Front, Copies
<1>12. Kept'
  <2>1. st.rev < Id /\ Id # 0
    BY <1>4 DEF Tended, Held
  <2>2. Clean' <=> Clean
    BY <1>5 DEF Clean
  <2>3. Copies' = Copies /\ (InProject' <=> InProject)
    BY <1>2, <1>5 DEF Copies, InProject
  <2> SUFFICES ASSUME Clean PROVE Kept'
    BY <2>2 DEF Kept
  <2>4. /\ InProject /\ ~st.discarded /\ st.pending = 0
        /\ Copies.sfm # 0 => file.sfm = Copies.sfm
        /\ Copies.mesh # 0 => file.mesh = Copies.mesh
        /\ Copies.tex # 0 => file.tex = Copies.tex
        /\ file.info = 0 => Listing(made', file.srcs, st.list)
        /\ st.rev = 0 => Plain
    BY <1>3, ListingStays DEF Tended, Kept
  <2>5. st'.edit # st'.rev
    BY <1>5, <2>1 DEF Tended, Held, Results
  <2>6. Plain => Plain'
    BY <1>2, <1>5, <2>3 DEF Plain, Ckpt
  <2> QED
    BY <1>2, <1>5, <2>3, <2>4, <2>5, <2>6 DEF Kept
<1> QED
  BY <1>6, <1>7, <1>8, <1>9, <1>10, <1>11, <1>12 DEF Tended

\* A listed model is a result, and when the list is the project's, the first model
\* is what a save left, so a step that gives up edits shows nothing newer.
LEMMA GivenUp ==
    ASSUME Tended, UNCHANGED <<file, store, run>>, made' = made \/ Grows,
           st.kind = None, st' \in States, Listing(made', st'.models, st'.names),
           st'.edit = 0, st'.ready = 0, st'.pending = 0,
           UNCHANGED <<st.kind, st.rev, st.sfm, st.saved, st.dirty, st.early, st.partial,
                       st.discarded, st.proj, st.list>>
    PROVE  Tended'
<1>1. run = None /\ Len(made) \in Nat /\ Len(made') \in Nat /\ Len(made) <= Len(made')
  BY DEF Tended, Working, Results, Grows
<1>2. \A n \in 0 .. Len(made) : n \in 0 .. Len(made')
  BY <1>1
<1>3. Held'
  <2>1. {st.rev, st.sfm} \subseteq 0 .. Len(made) /\ 0 \in 0 .. Len(made)
    BY <1>1 DEF Tended, Held
  <2>2. {st'.ready, st'.pending, st'.edit, st'.rev, st'.sfm} \subseteq 0 .. Len(made')
    BY <1>2, <2>1
  <2>3. /\ store' \in [BOOLEAN -> Copied]
        /\ {Copies.sfm, Copies.gs, Copies.mesh, Copies.tex, Copies.ckpt}' \subseteq 0 .. Len(made')
    BY CopiesStay
  <2> QED
    BY <2>2, <2>3 DEF Held
<1>4. Results' /\ Filed'
  <2>1. file # None => file \in Chunks /\ file.info \in Nat
          /\ {file.sfm, file.gs, file.mesh, file.tex} \subseteq 0 .. Len(made')
    BY <1>2 DEF Tended, Results, Numbered, Chunks
  <2>2. file # None => Readable(made', file)
    BY HeldStays
  <2>3. Results'
    BY <2>1 DEF Tended, Results, Grows, Numbered
  <2> QED
    BY <1>1, <2>1, <2>2, <2>3 DEF Tended, Filed, OneSource, Embedded
<1>5. Working' /\ Training' /\ Later' /\ Newest'
  BY <1>1 DEF Working, Training, Later, Newest
<1>6. Kept'
  <2>1. Copies' = Copies /\ Ckpt' = Ckpt /\ (InProject' <=> InProject) /\ (Clean' <=> Clean)
    BY DEF Copies, Ckpt, InProject, Clean
  <2> SUFFICES ASSUME Clean PROVE Kept'
    BY <2>1 DEF Kept
  <2>2. /\ InProject /\ ~st.discarded /\ file \in Chunks /\ file.gs \in Nat
        /\ Embedded(file)
        /\ st.rev = 0 => Plain
        /\ file.info = 0 => Listing(made', file.srcs, st.list)
    <3>1. InProject /\ ~st.discarded /\ (st.rev = 0 => Plain)
          /\ (file.info = 0 => Listing(made, file.srcs, st.list))
      BY DEF Tended, Kept
    <3>2. file # None
      BY <3>1 DEF InProject
    <3> QED
      BY <3>1, <3>2, ListingStays DEF Tended, Results, Filed, Numbered, Chunks
  <2>3. st'.rev = 0 => Plain'
    BY <2>1, <2>2 DEF Plain
  <2>4. ASSUME file.info = 0, st'.edit = st'.rev, Listed' = file.srcs
        PROVE  Shown' <= file.gs
    <3>1. Plain /\ st'.models = file.srcs
      BY <2>2, <2>4 DEF Listed
    <3>2. CASE st'.models = <<>>
      <4>1. st.list = <<>>
        BY <2>2, <2>4, <3>1, <3>2 DEF Listing, Tended, Held, States
      <4>2. Copies.gs <= file.gs
        BY <2>4, <3>1, <4>1 DEF Plain
      <4>3. ModelFile' = Copies.gs
        BY <2>1, <3>2 DEF ModelFile
      <4>4. Shown' \in {Copies.gs, file.gs}
        BY <2>1, <2>2, <4>3 DEF Shown
      <4> QED
        BY <2>2, <4>2, <4>4
    <3>3. CASE st'.models # <<>>
      <4>1. file.srcs[1] <= file.gs /\ st'.models[1] = file.srcs[1]
        BY <2>2, <2>4, <3>1, <3>3 DEF Embedded
      <4>2. st'.models[1] # 0
        <5>1. 1 \in 1 .. Len(st'.models)
          BY <3>3 DEF States
        <5> QED
          BY <1>1, <5>1 DEF Listing
      <4>3. ModelFile' = st'.models[1]
        BY <3>3 DEF ModelFile
      <4>4. Shown' = st'.models[1]
        BY <4>2, <4>3 DEF Shown
      <4> QED
        BY <4>1, <4>4
    <3> QED
      BY <3>2, <3>3
  <2> QED
    BY <2>1, <2>2, <2>3, <2>4 DEF Tended, Kept
<1> QED
  BY <1>3, <1>4, <1>5, <1>6 DEF Tended

LEMMA ImportTended == ASSUME Tended, Import PROVE Tended'
<1>1. /\ run = None /\ UNCHANGED <<file, store, run>> /\ st \in States /\ st.kind = None
      /\ Len(made) \in Nat
  BY DEF Import, Idle, Tended, Held, Results
<1>2. PICK id \in 1 .. Id :
        /\ IF id = Id THEN New("import", {})
           ELSE made[id].kind = "import" /\ UNCHANGED made
        /\ st' = [st EXCEPT
             !.models = Append(IF st.edit # 0 THEN <<st.edit>> ELSE @, id),
             !.names = Append(CASE st.edit = 0 -> @
                                [] st.edit # 0 /\ @ # <<>> -> <<@[1]>>
                                [] OTHER -> <<EditedModel>>, id),
             !.edit = 0, !.ready = 0, !.pending = 0, !.uses = @ + 1]
  BY DEF Import
<1>3. made' = made \/ Grows
  <2>1. {} \in SUBSET (0 .. Len(made)) /\ "import" \in Kinds
    BY DEF Kinds
  <2> QED
    BY <1>2, <2>1, NewResult DEF Tended
<1>4. id \in Nat /\ id \in 1 .. Len(made')
  BY <1>1, <1>2, <1>3 DEF Grows, New, Id
<1> DEFINE models == IF st.edit # 0 THEN <<st.edit>> ELSE st.models
           names == CASE st.edit = 0 -> st.names
                      [] st.edit # 0 /\ st.names # <<>> -> <<st.names[1]>>
                      [] OTHER -> <<EditedModel>>
<1>5. models \in Seq(Nat) /\ names \in Seq(Int) /\ Listing(made', models, names)
  <2>1. CASE st.edit = 0
    BY <1>1, <1>3, <2>1, HeldStays DEF States
  <2>2. CASE st.edit # 0
    <3>1. st.edit \in 1 .. Len(made') /\ st.edit \in Nat /\ Edits(made', st.edit)
      BY <1>1, <1>3, <2>2, HeldStays DEF States, Tended, Held, Grows
    <3>2. PICK name \in Int : names = <<name>>
      BY <1>1, <2>2 DEF States, EditedModel
    <3>3. models = <<st.edit>>
      BY <2>2
    <3> QED
      BY <3>1, <3>2, <3>3 DEF Listing
  <2> QED
    BY <2>1, <2>2
<1>6. /\ Append(models, id) \in Seq(Nat) /\ Append(names, id) \in Seq(Int)
      /\ Listing(made', Append(models, id), Append(names, id))
  <2> HIDE DEF models, names
  <2>1. /\ models \in Seq(Nat) /\ names \in Seq(Int) /\ Len(names) = Len(models)
        /\ Len(models) \in Nat
    BY <1>5 DEF Listing
  <2>2. /\ Append(models, id) \in Seq(Nat) /\ Append(names, id) \in Seq(Int)
        /\ Len(Append(models, id)) = Len(models) + 1
        /\ Len(Append(names, id)) = Len(models) + 1
    BY <1>4, <2>1
  <2>3. ASSUME NEW k \in 1 .. Len(models) + 1
        PROVE  \/ /\ k \in 1 .. Len(models)
                  /\ Append(models, id)[k] = models[k] /\ Append(names, id)[k] = names[k]
               \/ Append(models, id)[k] = id /\ Append(names, id)[k] = id
    <3>1. CASE k \in 1 .. Len(models)
      BY <1>4, <2>1, <3>1
    <3>2. CASE k = Len(models) + 1
      BY <1>4, <2>1, <3>2
    <3> QED
      BY <2>1, <3>1, <3>2
  <2> QED
    BY <1>4, <1>5, <2>2, <2>3 DEF Listing
<1>7. st' = [st EXCEPT !.models = Append(models, id), !.names = Append(names, id),
                       !.edit = 0, !.ready = 0, !.pending = 0, !.uses = @ + 1]
  BY <1>1, <1>2 DEF States
<1> HIDE DEF models, names
<1>8. /\ st' \in States /\ st'.models = Append(models, id) /\ st'.names = Append(names, id)
      /\ st'.edit = 0 /\ st'.ready = 0 /\ st'.pending = 0
      /\ UNCHANGED <<st.kind, st.rev, st.sfm, st.saved, st.dirty, st.early, st.partial,
                     st.discarded, st.proj, st.list>>
  <2>1. st.uses + 1 \in Nat
    BY <1>1 DEF States
  <2> QED
    BY <1>1, <1>6, <1>7, <2>1 DEF States
<1> QED
  BY <1>1, <1>3, <1>6, <1>8, GivenUp

LEMMA WithoutOne ==
    ASSUME NEW S, NEW m \in Seq(S), NEW n \in 1 .. Len(m)
    PROVE  /\ Without(m, n) \in Seq(S) /\ Len(Without(m, n)) = Len(m) - 1
           /\ \A k \in 1 .. Len(m) - 1 :
                Without(m, n)[k] = m[IF k < n THEN k ELSE k + 1]
<1>1. Len(m) - 1 \in Nat /\ \A k \in 1 .. Len(m) - 1 : m[k] \in S /\ m[k + 1] \in S
  OBVIOUS
<1>2. Without(m, n) \in [1 .. Len(m) - 1 -> S]
  BY <1>1 DEF Without
<1> QED
  BY <1>1, <1>2 DEF Without

LEMMA RemoveTended == ASSUME Tended, Remove PROVE Tended'
<1>1. /\ UNCHANGED <<file, made, store, run>> /\ st \in States /\ st.kind = None
      /\ Listing(made, st.models, st.names)
  BY DEF Remove, Idle, Tended, Held
<1>2. PICK n \in 1 .. Len(st.models) :
        st' = [st EXCEPT !.models = Without(@, n), !.names = Without(@, n),
                         !.edit = 0, !.ready = 0, !.pending = 0, !.uses = @ + 1]
  BY DEF Remove
<1> DEFINE models == Without(st.models, n)
           names == Without(st.names, n)
<1>3. /\ models \in Seq(Nat) /\ names \in Seq(Int) /\ Len(st.names) = Len(st.models)
      /\ Len(models) = Len(st.models) - 1 /\ Len(names) = Len(st.models) - 1
      /\ \A k \in 1 .. Len(st.models) - 1 :
           \E j \in 1 .. Len(st.models) : models[k] = st.models[j] /\ names[k] = st.names[j]
  <2>1. st.models \in Seq(Nat) /\ st.names \in Seq(Int) /\ Len(st.names) = Len(st.models)
    BY <1>1 DEF States, Listing
  <2>2. /\ models \in Seq(Nat) /\ Len(models) = Len(st.models) - 1
        /\ \A k \in 1 .. Len(st.models) - 1 : models[k] = st.models[IF k < n THEN k ELSE k + 1]
    BY <2>1, WithoutOne
  <2>5. n \in 1 .. Len(st.names)
    BY <2>1
  <2>3. /\ names \in Seq(Int) /\ Len(names) = Len(st.models) - 1
        /\ \A k \in 1 .. Len(st.models) - 1 : names[k] = st.names[IF k < n THEN k ELSE k + 1]
    BY <2>1, <2>5, WithoutOne
  <2>4. \A k \in 1 .. Len(st.models) - 1 : (IF k < n THEN k ELSE k + 1) \in 1 .. Len(st.models)
    BY <2>1
  <2> QED
    BY <2>1, <2>2, <2>3, <2>4
<1> HIDE DEF models, names
<1>4. Listing(made, models, names)
  BY <1>1, <1>3 DEF Listing
<1>5. /\ st' \in States /\ st'.models = models /\ st'.names = names
      /\ st'.edit = 0 /\ st'.ready = 0 /\ st'.pending = 0
      /\ UNCHANGED <<st.kind, st.rev, st.sfm, st.saved, st.dirty, st.early, st.partial,
                     st.discarded, st.proj, st.list>>
  <2>1. st' = [st EXCEPT !.models = models, !.names = names,
                         !.edit = 0, !.ready = 0, !.pending = 0, !.uses = @ + 1]
    BY <1>2 DEF models, names
  <2>2. st.uses + 1 \in Nat
    BY <1>1 DEF States
  <2> QED
    BY <1>1, <1>3, <2>1, <2>2 DEF States
<1> QED
  BY <1>1, <1>4, <1>5, GivenUp

LEMMA ClearTended == ASSUME Tended, Clear PROVE Tended'
<1>1. /\ run = None /\ UNCHANGED <<file, made, run>> /\ st \in States
      /\ Len(made) \in Nat /\ 0 \in 0 .. Len(made)
  <2>1. Len(made) \in Nat
    BY DEF Tended, Results
  <2> QED
    BY <2>1 DEF Clear, Idle, Tended, Held
<1>2. /\ store \in [BOOLEAN -> Copied] /\ Copies \in Copied
      /\ Copies.sfm \in 0 .. Len(made) /\ Copies.sfm \in Nat
  <2>1. store \in [BOOLEAN -> Copied] /\ Copies.sfm \in 0 .. Len(made)
    BY DEF Tended, Held
  <2>2. store[TRUE] \in Copied
    BY <2>1
  <2> QED
    BY <2>1, <2>2 DEF Copies, Copied
<1>3. PICK n \in 0 .. Len(made) :
        store' = [store EXCEPT ![TRUE] = [NoCopies EXCEPT !.sfm = n]]
  BY <1>1, <1>2 DEF Clear
<1> DEFINE new == [sfm |-> n, gs |-> 0, mesh |-> 0, tex |-> 0, ckpt |-> 0]
<1>4. store' = [store EXCEPT ![TRUE] = new] /\ new \in Copied
  <2>1. n \in Nat
    BY <1>1
  <2>2. [NoCopies EXCEPT !.sfm = n] = new
    BY DEF NoCopies
  <2> QED
    BY <1>3, <2>1, <2>2 DEF Copied
<1>5. /\ store' \in [BOOLEAN -> Copied] /\ store'[TRUE] = new
  BY <1>2, <1>4
<1>6. /\ {Copies.sfm, Copies.gs, Copies.mesh, Copies.tex, Copies.ckpt}' \subseteq 0 .. Len(made')
      /\ Ckpt' = 0
  BY <1>1, <1>5 DEF Copies, Ckpt
<1>7. /\ st' \in States /\ st'.edit = 0 /\ st'.ready = 0 /\ st'.pending = 0 /\ st'.dirty
      /\ st'.rev = st.rev /\ st'.sfm = st.sfm /\ st'.models = <<>> /\ st'.names = <<>>
  <2>1. st.uses + 1 \in Nat
    BY <1>1 DEF States
  <2>2. st' = [st EXCEPT !.models = <<>>, !.names = <<>>, !.edit = 0, !.ready = 0, !.pending = 0,
                         !.discarded = TRUE, !.dirty = TRUE, !.uses = @ + 1]
    BY DEF Clear
  <2>3. st' \in States
    <3>1. <<>> \in Seq(Nat) /\ <<>> \in Seq(Int)
      OBVIOUS
    <3> QED
      BY <1>1, <2>1, <2>2, <3>1 DEF States
  <2> QED
    BY <1>1, <2>2, <2>3 DEF States
<1>8. Held'
  <2>1. Listing(made', st'.models, st'.names)
    BY <1>7 DEF Listing
  <2> QED
    BY <1>1, <1>5, <1>6, <1>7, <2>1 DEF Tended, Held
<1>9. Results' /\ Filed' /\ Working' /\ Training'
  BY <1>1 DEF Tended, Results, Filed, OneSource, Embedded, Readable, Numbered, Working, Training
<1>10. Later' /\ Newest' /\ Kept'
  BY <1>1, <1>6, <1>7 DEF Later, Newest, Kept, Clean
<1> QED
  BY <1>8, <1>9, <1>10 DEF Tended

LEMMA OpenTended == ASSUME Tended, Open PROVE Tended'
<1>1. /\ run = None /\ file # None /\ UNCHANGED <<file, made, run>> /\ st \in States
      /\ Len(made) \in Nat /\ 0 \in 0 .. Len(made)
  <2>1. Len(made) \in Nat
    BY DEF Tended, Results
  <2> QED
    BY <2>1 DEF Open, Idle, Tended, Held
<1>2. store \in [BOOLEAN -> Copied] /\ file.tex \in 0 .. Len(made) /\ file.tex \in Nat
      /\ file.gs \in Nat
  BY <1>1 DEF Tended, Held, Results, Numbered, Chunks
<1>0. PICK tex \in {file.tex, 0} :
        store' = [store EXCEPT ![TRUE] = [NoCopies EXCEPT !.tex = tex]]
  BY DEF Open
<1>3. /\ file.srcs \in Seq(Nat) /\ file.list \in Seq(Int) /\ Listing(made, file.srcs, file.list)
      /\ file.info = 0 /\ file.srcs # <<>> => file.srcs[1] <= file.gs
  <2>1. file.srcs \in Seq(Nat) /\ file.list \in Seq(Int)
    BY <1>1 DEF Tended, Results, Numbered, Chunks
  <2>2. Readable(made, file) /\ Embedded(file)
    BY <1>1 DEF Tended, Filed
  <2>3. file.srcs # <<>> => Len(file.srcs) = Len(file.list)
    BY DEF Open
  <2> QED
    BY <2>1, <2>2, <2>3 DEF Readable, Embedded
<1> DEFINE new == [sfm |-> 0, gs |-> 0, mesh |-> 0, tex |-> tex, ckpt |-> 0]
<1>4. store' = [store EXCEPT ![TRUE] = new] /\ new \in Copied
  <2>1. [NoCopies EXCEPT !.tex = tex] = new
    BY DEF NoCopies
  <2>2. tex \in Nat
    BY <1>0, <1>2
  <2> QED
    BY <1>0, <2>1, <2>2 DEF Copied
<1>5. /\ store' \in [BOOLEAN -> Copied] /\ store'[TRUE] = new
  BY <1>2, <1>4
<1>6. /\ {Copies.sfm, Copies.gs, Copies.mesh, Copies.tex, Copies.ckpt}' \subseteq 0 .. Len(made')
      /\ Ckpt' = 0 /\ Copies' = new
  BY <1>0, <1>1, <1>2, <1>5 DEF Copies, Ckpt
<1>7. st' = [proj |-> TRUE, home |-> TRUE, dirty |-> FALSE, discarded |-> FALSE,
             models |-> file.srcs, names |-> file.list, ready |-> 0, pending |-> 0,
             seen |-> FALSE, edit |-> 0, kind |-> None, list |-> file.list, rev |-> 0,
             sfm |-> 0, saved |-> TRUE, early |-> 0, partial |-> FALSE,
             uses |-> st.uses + 1]
  BY DEF Open
<1>8. st' \in States
  BY <1>1, <1>3, <1>7 DEF States
<1>9. Held'
  BY <1>1, <1>3, <1>5, <1>6, <1>7, <1>8 DEF Held
<1>10. Results' /\ Filed' /\ Working' /\ Training'
  BY <1>1 DEF Tended, Results, Filed, OneSource, Embedded, Readable, Numbered, Working, Training
<1>11. Later' /\ Newest'
  BY <1>1, <1>6, <1>7 DEF Later, Newest
<1>12. Kept'
  <2>1. file.info = 0 => Shown' <= file'.gs
    <3>1. CASE file.srcs = <<>>
      <4>1. ModelFile' = 0
        BY <1>6, <1>7, <3>1 DEF ModelFile
      <4>2. Shown' = file.gs
        BY <1>1, <1>7, <4>1 DEF Shown, InProject
      <4> QED
        BY <1>1, <1>2, <4>2
    <3>2. CASE file.srcs # <<>>
      <4>1. file.srcs[1] # 0
        <5>1. 1 \in 1 .. Len(file.srcs)
          BY <1>3, <3>2
        <5> QED
          BY <1>3, <5>1 DEF Listing
      <4>2. ModelFile' = file.srcs[1]
        BY <1>7, <3>2 DEF ModelFile
      <4> QED
        BY <1>1, <1>3, <1>7, <3>2, <4>1, <4>2 DEF Shown
    <3> QED
      BY <3>1, <3>2
  <2>2. Plain'
    BY <1>1, <1>2, <1>6, <1>7 DEF Plain
  <2> QED
    BY <1>0, <1>1, <1>2, <1>3, <1>6, <1>7, <2>1, <2>2 DEF Kept, InProject
<1> QED
  BY <1>9, <1>10, <1>11, <1>12 DEF Tended

\* What a failed opening leaves is not Clean until the next save or opening.
LEMMA OpenFailsTended == ASSUME Tended, OpenFails PROVE Tended'
<1>1. /\ run = None /\ UNCHANGED <<file, made, run>> /\ st \in States
      /\ Len(made) \in Nat /\ 0 \in 0 .. Len(made)
  <2>1. Len(made) \in Nat
    BY DEF Tended, Results
  <2> QED
    BY <2>1 DEF OpenFails, Idle, Tended, Held
<1>2. store \in [BOOLEAN -> Copied] /\ store' = [store EXCEPT ![TRUE] = NoCopies]
      /\ NoCopies \in Copied
  BY DEF Tended, Held, OpenFails, NoCopies, Copied
<1>3. store' \in [BOOLEAN -> Copied] /\ store'[TRUE] = NoCopies
  BY <1>2
<1>4. /\ {Copies.sfm, Copies.gs, Copies.mesh, Copies.tex, Copies.ckpt}' \subseteq 0 .. Len(made')
      /\ Ckpt' = 0
  BY <1>1, <1>3 DEF Copies, Ckpt, NoCopies
<1>5. /\ st' \in States /\ st'.edit = 0 /\ st'.ready = 0 /\ st'.pending = 0 /\ st'.partial
      /\ st'.rev = st.rev /\ st'.sfm = st.sfm /\ st'.models = <<>> /\ st'.names = <<>>
  <2>1. st.uses + 1 \in Nat /\ <<>> \in Seq(Nat) /\ <<>> \in Seq(Int)
    BY <1>1 DEF States
  <2>2. st' = [st EXCEPT !.proj = TRUE, !.home = TRUE, !.dirty = FALSE, !.discarded = FALSE,
                         !.models = <<>>, !.names = <<>>, !.ready = 0, !.pending = 0,
                         !.seen = FALSE, !.edit = 0, !.partial = TRUE, !.uses = @ + 1]
    BY DEF OpenFails
  <2>3. st' \in States
    BY <1>1, <2>1, <2>2 DEF States
  <2> QED
    BY <1>1, <2>2, <2>3 DEF States
<1>6. Held'
  <2>1. Listing(made', st'.models, st'.names)
    BY <1>5 DEF Listing
  <2> QED
    BY <1>1, <1>3, <1>4, <1>5, <2>1 DEF Tended, Held
<1>7. Results' /\ Filed' /\ Working' /\ Training'
  BY <1>1 DEF Tended, Results, Filed, OneSource, Embedded, Readable, Numbered, Working, Training
<1>8. Later' /\ Newest' /\ Kept'
  BY <1>1, <1>4, <1>5 DEF Later, Newest, Kept, Clean
<1> QED
  BY <1>6, <1>7, <1>8 DEF Tended

LEMMA SeeHandoffTended == ASSUME Tended, SeeHandoff PROVE Tended'
<1>1. /\ run # None /\ run.model # 0 /\ st.kind = "train" /\ "train" # None
      /\ UNCHANGED <<file, made, store, run>> /\ st \in States
      /\ run.model \in 0 .. Len(made) /\ run.model \in Nat
      /\ st' = [st EXCEPT !.seen = TRUE, !.pending = run.model]
  BY StudioProjectAssumption DEF SeeHandoff, driverVars, Tended, Held, Working, Results
<1>2. /\ st' \in States /\ st'.edit = st.edit /\ st'.ready = st.ready /\ st'.kind = "train"
      /\ st'.pending = run.model /\ st'.rev = st.rev /\ st'.sfm = st.sfm
      /\ st'.models = st.models /\ st'.names = st.names /\ st'.list = st.list /\ st'.seen
  BY <1>1 DEF States
<1>3. Held'
  BY <1>1, <1>2 DEF Tended, Held, Copies, Ckpt
<1>4. Results' /\ Filed' /\ Working'
  BY <1>1, <1>2 DEF Tended, Results, Filed, OneSource, Embedded, Readable, Numbered, Working
<1>5. Training' /\ Later' /\ Kept'
  BY <1>1, <1>2 DEF Tended, Training, Later, Ckpt, Kept, Clean
<1>6. Newest'
  <2>1. ~st.seen
    BY DEF SeeHandoff
  <2> QED
    BY <1>1, <1>2, <2>1 DEF Tended, Newest, Front, Copies
<1> QED
  BY <1>3, <1>4, <1>5, <1>6 DEF Tended

LEMMA LoadHandoffTended == ASSUME Tended, LoadHandoff PROVE Tended'
<1>1. /\ st.pending # 0 /\ st.pending \in Nat /\ UNCHANGED <<file, made, store, run>>
      /\ st \in States /\ st' = [st EXCEPT !.ready = st.pending, !.pending = 0, !.edit = 0]
  BY DEF LoadHandoff, driverVars, Tended, Held, States
<1>2. /\ st' \in States /\ st'.edit = 0 /\ st'.ready = st.pending /\ st'.kind = st.kind
      /\ st'.pending = 0 /\ st'.rev = st.rev /\ st'.sfm = st.sfm
      /\ st'.saved = st.saved /\ st'.dirty = st.dirty /\ st'.early = st.early
      /\ st'.partial = st.partial
      /\ st'.models = st.models /\ st'.names = st.names /\ st'.list = st.list /\ st'.seen = st.seen
  BY <1>1 DEF States
<1>3. Held'
  <2>1. 0 \in 0 .. Len(made)
    BY DEF Tended, Results
  <2> QED
    BY <1>1, <1>2, <2>1 DEF Tended, Held, Copies, Ckpt
<1>4. Results' /\ Filed' /\ Working'
  BY <1>1, <1>2 DEF Tended, Results, Filed, OneSource, Embedded, Readable, Numbered, Working
<1>5. Training' /\ Later' /\ Kept'
  BY <1>1, <1>2 DEF Tended, Training, Later, Ckpt, Kept, Clean
<1>6. Newest'
  BY <1>1, <1>2 DEF Tended, Newest, Front, Copies
<1> QED
  BY <1>3, <1>4, <1>5, <1>6 DEF Tended

LEMMA FinishTended == ASSUME Tended, Finish PROVE Tended'
<1>1. /\ run = None /\ st.kind # None /\ UNCHANGED <<file, made, store, run>>
      /\ st \in States
      /\ st' = [st EXCEPT !.dirty = TRUE, !.kind = None,
                          !.pending = IF st.kind = "train" /\ exit # 0 THEN 0 ELSE @]
  BY DEF Finish, driverVars, Tended, Held
<1>2. /\ st' \in States /\ st'.edit = st.edit /\ st'.ready = st.ready /\ st'.dirty
      /\ st'.pending \in {0, st.pending} /\ st'.rev = st.rev /\ st'.sfm = st.sfm
      /\ st'.models = st.models /\ st'.names = st.names /\ st'.list = st.list
  BY <1>1 DEF States
<1>3. Held'
  <2>1. 0 \in 0 .. Len(made)
    BY DEF Tended, Results
  <2> QED
    BY <1>1, <1>2, <2>1 DEF Tended, Held, Copies, Ckpt
<1>4. Results' /\ Filed' /\ Working' /\ Training'
  BY <1>1, <1>2 DEF Tended, Results, Filed, OneSource, Embedded, Readable, Numbered, Working, Training
<1>5. Later' /\ Newest' /\ Kept'
  BY <1>1, <1>2 DEF Tended, Later, Newest, Front, Ckpt, Copies, Kept, Clean
<1> QED
  BY <1>3, <1>4, <1>5 DEF Tended

\* What settings say of the models to be saved.
LEMMA NamesFit ==
    ASSUME Tended
    PROVE  Listed \in Seq(Nat) /\ Named \in Seq(Int) /\ Listing(made, Listed, Named)
<1>1. st \in States /\ Listing(made, st.models, st.names)
  BY DEF Tended, Held
<1>2. CASE st.models # <<>> /\ st.edit # 0
  <2>1. st.edit \in Nat /\ st.edit \in 1 .. Len(made) /\ Edits(made, st.edit)
    BY <1>1, <1>2 DEF States, Tended, Held, Results
  <2>2. Listed = <<st.edit>> /\ Named = <<EditedComposition>> /\ EditedComposition \in Int
    BY <1>2 DEF Listed, Named, EditedComposition
  <2> QED
    BY <2>1, <2>2 DEF Listing
<1>3. CASE ~(st.models # <<>> /\ st.edit # 0)
  BY <1>1, <1>3 DEF Listed, Named, States
<1> QED
  BY <1>2, <1>3

\* What a save writes besides the Gaussians.
LEMMA SaveTended == ASSUME Tended, SaveProject PROVE Tended'
<1>0. PICK left \in SUBSET Readings :
        /\ file' = SavedChunks(left)
        /\ st' = [st EXCEPT !.proj = TRUE, !.home = @ /\ st.proj, !.dirty = FALSE,
                            !.discarded = FALSE, !.list = Named, !.rev = st.edit,
                            !.sfm = Copies.sfm, !.saved = TRUE, !.early = st.pending,
                            !.partial = (left # {}), !.uses = @ + 1]
  BY DEF SaveProject
<1>1. st \in States /\ Len(made) \in Nat /\ 0 \in 0 .. Len(made)
  <2>1. Len(made) \in Nat
    BY DEF Tended, Results
  <2> QED
    BY <2>1 DEF Tended, Held
<1>2. /\ store \in [BOOLEAN -> Copied] /\ Copies \in Copied
      /\ {Copies.sfm, Copies.gs, Copies.mesh, Copies.tex, Ckpt} \subseteq 0 .. Len(made)
  <2>1. store \in [BOOLEAN -> Copied]
        /\ {Copies.sfm, Copies.gs, Copies.mesh, Copies.tex, Copies.ckpt} \subseteq 0 .. Len(made)
    BY DEF Tended, Held
  <2>2. Copies \in Copied
    BY <2>1 DEF Copies
  <2> QED
    BY <2>1, <2>2 DEF Copies, Ckpt
<1>3. {st.ready, st.pending, st.edit, st.rev, st.sfm} \subseteq 0 .. Len(made)
  BY DEF Tended, Held
<1>4. file # None => /\ Numbered(file) /\ OneSource(file)
                     /\ {file.gs, file.info} \subseteq 0 .. Len(made)
  BY <1>1 DEF Tended, Results, Filed, Numbered, Chunks
<1>5. Numbered(Base) /\ OneSource(Base)
  <2>1. Numbered(NoChunks) /\ OneSource(NoChunks)
    <3>1. NoChunks \in Chunks
      BY DEF NoChunks, Chunks
    <3> QED
      BY <1>1, <3>1 DEF Numbered, OneSource, NoChunks
  <2> QED
    BY <1>4, <2>1 DEF Base, InProject
<1> DEFINE arch == SavedSfm(Base)
<1>6. /\ Numbered(arch) /\ OneSource(arch)
      /\ Copies.sfm # 0 => arch.sfm = Copies.sfm
  <2>1. CASE arch = Base /\ (Copies.sfm = 0 \/ (Base.sfm # 0 /\ Base.src = Copies.sfm))
    BY <1>5, <2>1 DEF OneSource
  <2>2. CASE arch = [Base EXCEPT !.sfm = Copies.sfm, !.src = Copies.sfm]
    <3>1. Copies.sfm \in Nat
      BY <1>2 DEF Copied
    <3>2. arch \in Chunks
      BY <1>5, <2>2, <3>1 DEF Numbered, Chunks
    <3>3. /\ arch.sfm = Copies.sfm /\ arch.src = Copies.sfm
          /\ arch.gs = Base.gs /\ arch.mesh = Base.mesh /\ arch.tex = Base.tex
      BY <1>5, <2>2 DEF Numbered, OneSource, Chunks
    <3> QED
      BY <1>2, <1>5, <3>2, <3>3 DEF Numbered, OneSource
  <2> QED
    BY <2>1, <2>2 DEF SavedSfm
<1>7. Progress \in 0 .. Len(made)
  BY <1>1, <1>2, <1>4 DEF Progress, InProject
<1>8. /\ SavedGaussians(left) \in 0 .. Len(made) /\ ModelFile \in 0 .. Len(made)
      /\ Shown \in 0 .. Len(made)
  <2>1. Base.gs \in 0 .. Len(made)
    BY <1>5 DEF Numbered
  <2> QED
    BY <1>7, <2>1, ShownIs DEF SavedGaussians
<1> DEFINE mesh == IF Copies.mesh # 0 /\ "mesh" \notin left THEN Copies.mesh ELSE arch.mesh
           tex == IF Copies.tex # 0 /\ "tex" \notin left THEN Copies.tex ELSE arch.tex
           info == IF SavesProgress THEN Progress ELSE 0
           gs == SavedGaussians(left)
<1>9. {mesh, tex, info, gs} \subseteq 0 .. Len(made)
  BY <1>1, <1>2, <1>6, <1>7, <1>8 DEF Numbered
<1> DEFINE list == IF SavesProgress \/ st.ready # 0 THEN <<>> ELSE Named
           srcs == IF SavesProgress THEN <<>> ELSE Listed
<1>10. /\ Listed \in Seq(Nat) /\ Named \in Seq(Int) /\ Listing(made, Listed, Named)
       /\ srcs \in Seq(Nat) /\ list \in Seq(Int)
  BY <1>1, NamesFit
<1>11. file' = [arch EXCEPT !.list = list, !.gs = gs, !.srcs = srcs, !.mesh = mesh,
                            !.tex = tex, !.info = info]
  <2>1. file' = SavedChunks(left)
    BY <1>0
  <2>2. arch \in Chunks
    BY <1>6 DEF Numbered
  <2> HIDE DEF arch
  <2>3. SavedChunks(left) = [arch EXCEPT !.list = list, !.gs = gs, !.srcs = srcs,
                                         !.mesh = mesh, !.tex = tex, !.info = info]
    BY <2>2 DEF SavedChunks, Chunks, arch
  <2> QED
    BY <2>1, <2>3
<1> HIDE DEF arch, mesh, tex, info, gs, list, srcs
<1>12. file' \in Chunks
  <2>1. mesh \in Nat /\ tex \in Nat /\ info \in Nat /\ gs \in Nat
    BY <1>1, <1>9
  <2> QED
    BY <1>6, <1>11, <1>10, <2>1 DEF Numbered, Chunks
<1>13. /\ file' # None
       /\ file'.sfm = arch.sfm /\ file'.src = arch.src /\ file'.srcs = srcs
       /\ file'.list = list
       /\ file'.gs = gs /\ file'.mesh = mesh /\ file'.tex = tex /\ file'.info = info
  BY <1>6, <1>11, <1>12, ReconstructDriverAssumption DEF Numbered, Chunks
<1>14. UNCHANGED <<made, run>>
  BY DEF SaveProject
<1>15. Results' /\ Filed'
  <2>1. Numbered(arch) /\ OneSource(arch)
    BY <1>6
  <2>2. file' \in Chunks /\ {file'.sfm, file'.gs, file'.mesh, file'.tex} \subseteq 0 .. Len(made')
    BY <1>9, <1>12, <1>13, <1>14, <2>1 DEF Numbered
  <2>3. (file'.src # 0 => file'.sfm = file'.src) /\ file'.info <= Len(made')
    BY <1>1, <1>9, <1>13, <1>14, <2>1 DEF OneSource
  <2>4. Readable(made', file')
    <3>1. CASE srcs = <<>> /\ list = <<>>
      BY <1>13, <3>1 DEF Readable, Listing
    <3>2. CASE srcs = Listed /\ list = Named
      BY <1>10, <1>13, <1>14, <3>2 DEF Readable
    <3>3. CASE srcs = Listed /\ list = <<>> /\ srcs # <<>>
      <4>1. Len(srcs) # Len(list)
        BY <1>10, <3>3
      <4> QED
        BY <1>13, <3>3, <4>1 DEF Readable
    <3> QED
      BY <3>1, <3>2, <3>3 DEF srcs, list
  <2>5. Embedded(file)'
    <3> SUFFICES ASSUME info = 0, srcs # <<>> PROVE srcs[1] <= gs
      BY <1>13 DEF Embedded
    <3>1. ~SavesProgress
      BY DEF info, SavesProgress
    <3>2. srcs = Listed /\ st.models # <<>>
      BY <3>1 DEF srcs, Listed
    <3>3. CASE st.edit # 0
      <4>1. Listed = <<st.edit>> /\ gs = st.edit /\ st.edit \in Nat
        BY <1>1, <3>1, <3>2, <3>3 DEF Listed, gs, SavedGaussians, Shown, States
      <4>2. srcs[1] = st.edit
        BY <3>2, <4>1
      <4> QED
        BY <4>1, <4>2
    <3>4. CASE st.edit = 0 /\ st.ready # 0
      <4>1. srcs = st.models /\ gs = st.ready
        BY <3>1, <3>2, <3>4 DEF Listed, gs, SavedGaussians, Shown
      <4> QED
        BY <3>2, <3>4, <4>1 DEF Tended, Newest, Front
    <3>5. CASE st.edit = 0 /\ st.ready = 0
      <4>1. Listed = st.models /\ ModelFile = st.models[1]
        BY <3>2, <3>5 DEF Listed, ModelFile
      <4>2. ModelFile # 0 /\ ModelFile \in Nat
        <5>1. 1 \in 1 .. Len(st.models)
          BY <1>1, <3>2 DEF States
        <5> QED
          BY <1>1, <4>1, <5>1 DEF Tended, Held, Listing
      <4>3. gs = ModelFile
        BY <1>0, <3>1, <3>2, <3>5, <4>2 DEF gs, SavedGaussians, Readings
      <4> QED
        BY <3>2, <4>1, <4>2, <4>3
    <3> QED
      BY <3>3, <3>4, <3>5
  <2> QED
    BY <1>14, <2>2, <2>3, <2>4, <2>5 DEF Tended, Results, Filed, OneSource, Numbered
<1>16. /\ store' \in [BOOLEAN -> Copied] /\ Copies' \in Copied /\ Ckpt' = Ckpt
       /\ Copies'.sfm = Copies.sfm /\ Copies'.mesh = Copies.mesh /\ Copies'.tex = Copies.tex
       /\ Copies'.ckpt = Copies.ckpt /\ Copies'.gs \in 0 .. Len(made)
       /\ st.edit = 0 => Copies' = Copies
       /\ Copies'.gs \in {Copies.gs, st.edit}
  <2>1. store' = [store EXCEPT ![TRUE] = SavedCopies]
    BY DEF SaveProject
  <2>2. store'[TRUE] = SavedCopies
    BY <1>2, <2>1
  <2>3. st.edit \in Nat
    BY <1>1 DEF States
  <2>4. CASE SavedCopies = Copies
    BY <1>2, <2>1, <2>2, <2>4 DEF Copies, Ckpt
  <2>5. CASE st.edit # 0 /\ SavedCopies = [Copies EXCEPT !.gs = st.edit]
    <3>1. SavedCopies \in Copied
      BY <1>2, <2>3, <2>5 DEF Copied
    <3>2. /\ SavedCopies.sfm = Copies.sfm /\ SavedCopies.mesh = Copies.mesh
          /\ SavedCopies.tex = Copies.tex /\ SavedCopies.ckpt = Copies.ckpt
          /\ SavedCopies.gs = st.edit
      BY <1>2, <2>5 DEF Copied
    <3>3. store' \in [BOOLEAN -> Copied]
      BY <1>2, <2>1, <3>1
    <3>4. Copies' = SavedCopies /\ Ckpt' = SavedCopies.ckpt /\ Ckpt = Copies.ckpt
      BY <2>2 DEF Copies, Ckpt
    <3> QED
      BY <1>3, <2>5, <3>1, <3>2, <3>3, <3>4
  <2> QED
    BY <2>4, <2>5 DEF SavedCopies
<1>17. /\ st' \in States /\ st'.proj /\ ~st'.dirty /\ ~st'.discarded /\ st'.rev = st.edit
       /\ st'.edit = st.edit /\ st'.ready = st.ready /\ st'.pending = st.pending
       /\ st'.kind = st.kind /\ st'.sfm = Copies.sfm /\ st'.saved /\ st'.early = st.pending
       /\ st'.models = st.models /\ st'.names = st.names /\ st'.list = Named
       /\ st'.seen = st.seen /\ st'.partial = (left # {})
  <2>1. st.uses + 1 \in Nat /\ st.edit \in Nat /\ st.pending \in Nat
    BY <1>1 DEF States
  <2>2. Copies.sfm \in Nat
    BY <1>2 DEF Copied
  <2>3. st' = [st EXCEPT !.proj = TRUE, !.home = @ /\ st.proj, !.dirty = FALSE,
                         !.discarded = FALSE, !.list = Named, !.rev = st.edit,
                         !.sfm = Copies.sfm, !.saved = TRUE, !.early = st.pending,
                         !.partial = (left # {}), !.uses = @ + 1]
    BY <1>0
  <2>4. (st.home /\ st.proj) \in BOOLEAN /\ (left # {}) \in BOOLEAN
    OBVIOUS
  <2>5. st' \in States
    <3> DEFINE half == [st EXCEPT !.proj = TRUE, !.home = @ /\ st.proj, !.dirty = FALSE,
                                  !.discarded = FALSE, !.list = Named, !.rev = st.edit]
    <3>1. half \in States /\ half.uses = st.uses
      BY <1>1, <1>10, <2>1, <2>4 DEF States
    <3>2. st' = [half EXCEPT !.sfm = Copies.sfm, !.saved = TRUE, !.early = st.pending,
                             !.partial = (left # {}), !.uses = st.uses + 1]
      BY <1>1, <2>3 DEF States
    <3> HIDE DEF half
    <3> QED
      BY <2>1, <2>2, <2>4, <3>1, <3>2 DEF States
  <2>6. st'.list = Named /\ st'.early = st.pending /\ st'.rev = st.edit /\ st'.sfm = Copies.sfm
        /\ st'.proj /\ st'.saved /\ ~st'.dirty /\ ~st'.discarded
        /\ st'.partial = (left # {})
    BY <1>1, <2>3 DEF States
  <2>7. UNCHANGED <<st.edit, st.ready, st.pending, st.kind, st.models, st.names, st.seen>>
    BY <1>1, <2>3 DEF States
  <2> QED
    BY <2>5, <2>6, <2>7
<1>18. Held'
  <2>1. {st'.ready, st'.pending, st'.edit, st'.rev, st'.sfm} \subseteq 0 .. Len(made)
    BY <1>2, <1>3, <1>17
  <2>2. {Copies.sfm, Copies.gs, Copies.mesh, Copies.tex, Copies.ckpt}' \subseteq 0 .. Len(made)
    BY <1>2, <1>16 DEF Ckpt, Copies
  <2>3. Listing(made', st'.models, st'.names) /\ (st'.edit # 0 => Edits(made', st'.edit))
    BY <1>14, <1>17 DEF Tended, Held
  <2> QED
    BY <1>14, <1>16, <1>17, <2>1, <2>2, <2>3 DEF Held
<1>19. Working' /\ Training' /\ Later' /\ Newest'
  <2>1. st.edit \in Nat /\ st.edit = 0 => Copies'.gs = Copies.gs
    BY <1>16
  <2> QED
    BY <1>14, <1>16, <1>17, <2>1 DEF Tended, Working, Numbered, Training, Later, Newest, Front
<1>20. Kept'
  <2> SUFFICES ASSUME Clean' PROVE Kept'
    BY DEF Kept
  <2>1. /\ st.pending = 0 /\ InProject' /\ ~st'.discarded /\ st'.pending = 0
        /\ st.kind = None /\ left = {}
    BY <1>13, <1>17 DEF Clean, InProject
  <2>2. /\ Copies.sfm # 0 => file'.sfm = Copies.sfm
        /\ Copies.mesh # 0 => file'.mesh = Copies.mesh
        /\ Copies.tex # 0 => file'.tex = Copies.tex
    BY <1>6, <1>13, <2>1 DEF mesh, tex
  <2>3. file'.info = 0 => file'.gs = Shown'
    <3> SUFFICES ASSUME file'.info = 0 PROVE file'.gs = Shown'
      OBVIOUS
    <3>1. ~SavesProgress
      BY <1>13 DEF info, SavesProgress
    <3>2. CASE st.edit # 0
      BY <1>13, <1>17, <3>1, <3>2 DEF gs, SavedGaussians, Shown
    <3>3. CASE st.edit = 0 /\ st.ready # 0
      BY <1>13, <1>17, <3>1, <3>3 DEF gs, SavedGaussians, Shown
    <3>4. CASE st.edit = 0 /\ st.ready = 0
      <4>1. ModelFile' = ModelFile
        BY <1>16, <1>17, <3>4 DEF ModelFile
      <4>2. CASE ModelFile # 0
        BY <1>13, <1>17, <2>1, <3>1, <3>4, <4>1, <4>2 DEF gs, SavedGaussians, Shown
      <4>3. CASE ModelFile = 0
        BY <1>17, <2>1, <3>4, <4>1, <4>3 DEF Shown
      <4> QED
        BY <4>2, <4>3
    <3> QED
      BY <3>2, <3>3, <3>4
  <2>4. Shown' \in Nat /\ file'.gs \in Nat
    <3>1. file'.gs \in Nat
      BY <1>12 DEF Chunks
    <3>2. Shown' \in {st.edit, st.ready, ModelFile', file'.gs, 0}
      BY <1>17 DEF Shown
    <3>3. ModelFile' \in {ModelFile, Copies'.gs}
      BY <1>17 DEF ModelFile
    <3> QED
      BY <1>1, <1>3, <1>8, <1>16, <3>1, <3>2, <3>3
  <2>5. ASSUME Ckpt' # 0, st'.edit = 0 PROVE file'.info = Ckpt' \/ file'.gs > Ckpt'
    <3>1. Ckpt # 0 /\ st.edit = 0 /\ Progress = Ckpt /\ Ckpt' = Ckpt
      BY <1>16, <1>17, <2>5 DEF Progress
    <3>2. CASE st.ready = 0
      BY <1>13, <3>1, <3>2 DEF info, SavesProgress
    <3>3. CASE st.ready # 0
      <4>1. file'.gs = st.ready
        BY <1>13, <3>1, <3>3 DEF gs, SavedGaussians, SavesProgress, Shown
      <4>2. Ckpt < st.ready
        BY <3>1, <3>3 DEF Tended, Later
      <4> QED
        BY <1>1, <1>2, <1>3, <3>1, <4>1, <4>2
    <3> QED
      BY <3>2, <3>3
  <2>6. file'.info = 0 => Listing(made', file'.srcs, st'.list)
    BY <1>10, <1>13, <1>14, <1>17 DEF info, srcs, SavesProgress
  <2>7. ASSUME st.edit = 0, Named = <<>>, file'.info = 0 PROVE Copies'.gs <= file'.gs
    <3>1. ~SavesProgress /\ Copies' = Copies /\ st.models = <<>>
      BY <1>1, <1>13, <1>16, <2>7 DEF info, SavesProgress, Named, Tended, Held, Listing, States
    <3>2. CASE st.ready # 0
      BY <1>13, <2>7, <3>1, <3>2 DEF gs, SavedGaussians, Shown, Tended, Newest
    <3>3. CASE st.ready = 0
      <4>1. ModelFile = Copies.gs
        BY <3>1, <3>3 DEF ModelFile
      <4>2. Copies.gs # 0 => file'.gs = Copies.gs
        BY <1>13, <2>1, <2>7, <3>1, <3>3, <4>1 DEF gs, SavedGaussians
      <4> QED
        BY <1>2, <2>4, <3>1, <4>2 DEF Copied
    <3> QED
      BY <3>2, <3>3
  <2>8. st'.rev = 0 => Plain'
    BY <1>17, <2>5, <2>7 DEF Plain
  <2> QED
    BY <1>16, <1>17, <2>1, <2>2, <2>3, <2>4, <2>6, <2>8 DEF Kept
<1> QED
  BY <1>15, <1>18, <1>19, <1>20 DEF Tended

-----------------------------------------------------------------------------
(* The invariant.                                                          *)

LEMMA EarlierResults == StudioInit => Results
<1> SUFFICES ASSUME StudioInit PROVE Results
  OBVIOUS
<1>1. session \in Sessions /\ file \in session.files /\ made = Earlier
  BY DEF StudioInit, DriverInit
<1>2. file # None => Numbered(file)
  <2> SUFFICES ASSUME file # None PROVE Numbered(file)
    OBVIOUS
  <2>1. file \in ProjectFiles \ {None} /\ file \in Chunks
    BY <1>1, ReconstructDriverAssumption, StudioProjectAssumption
  <2>2. \A c \in Stages : file[c] <= Len(Earlier)
    BY <2>1, ReconstructDriverAssumption
  <2>3. file.sfm <= Len(made) /\ file.gs <= Len(made) /\ file.mesh <= Len(made)
        /\ file.tex <= Len(made)
    BY <1>1, <2>2 DEF Stages
  <2> QED
    BY <1>1, <2>1, <2>3, ReconstructDriverAssumption DEF Numbered, Chunks
<1> QED
  BY <1>1, <1>2, ReconstructDriverAssumption DEF Results

LEMMA Beginning == StudioInit => IInv
<1> SUFFICES ASSUME StudioInit PROVE IInv
  OBVIOUS
<1>1. session \in Sessions /\ made = Earlier /\ run = None
  BY DEF StudioInit, DriverInit
<1>2. Results
  BY EarlierResults
<1>3. Quiet
  <2>1. Len(made) \in Nat
    BY <1>2 DEF Results
  <2> QED
    BY <2>1 DEF Quiet, StudioInit, DriverInit, Copied, NoCopies
<1>4. Owner
  <2>1. "partial" \in DOMAIN st
    BY DEF StudioInit
  <2> QED
    BY <1>1, <1>2, <2>1, StudioProjectAssumption
    DEF Owner, Commanded, Uses, Results, Numbered, Chunks
<1> QED
  BY <1>1, <1>2, <1>3, <1>4 DEF IInv, Session, Running

LEMMA Inductive == IInv /\ [StudioNext]_studioVars => IInv'
<1> SUFFICES ASSUME IInv, [StudioNext]_studioVars PROVE IInv'
  OBVIOUS
<1>1. session' = session
  BY DEF StudioNext, studioVars
<1>2. Commanded' = Commanded /\ Uses' = Uses
  BY <1>1 DEF Commanded, Uses
<1>3. Owner'
  BY <1>2, StudioStep, Saved DEF IInv, Owner
<1> QED
  BY <1>2, <1>3, SessionStep DEF IInv

LEMMA Invariant == StudioSpec => []IInv
  BY Beginning, Inductive, PTL DEF StudioSpec

\* The projects that there are before the session are like those that a
\* session leaves.
EarlierModels ==
  \A f \in ProjectFiles \ {None} : OneSource(f) /\ Embedded(f) /\ Readable(Earlier, f)

Lossless ==
  /\ session \in Sessions
  /\ ~Commanded => Tended
  /\ Commanded => ~st.saved

LEMMA BeginsTended == ASSUME EarlierModels, StudioInit PROVE Lossless
<1>1. session \in Sessions /\ file \in session.files /\ made = Earlier /\ run = None
      /\ store = [g \in BOOLEAN |-> NoCopies]
  BY DEF StudioInit, DriverInit
<1>2. Results /\ Len(made) \in Nat
  BY <1>1, EarlierResults DEF Results
<1>3. st = [proj |-> FALSE, home |-> TRUE, dirty |-> FALSE, discarded |-> FALSE,
            models |-> <<>>, names |-> <<>>, ready |-> 0, pending |-> 0,
            seen |-> FALSE, edit |-> 0, kind |-> None, list |-> <<>>, rev |-> 0, sfm |-> 0, saved |-> FALSE,
            early |-> 0, partial |-> FALSE, uses |-> 0]
  BY DEF StudioInit
<1>4. Filed
  <2> SUFFICES ASSUME file # None PROVE Filed
    BY DEF Filed
  <2>1. file \in ProjectFiles \ {None}
    BY <1>1, StudioProjectAssumption
  <2>2. OneSource(file) /\ Embedded(file) /\ Readable(made, file)
    BY <1>1, <2>1 DEF EarlierModels
  <2>3. file["info"] <= Len(Earlier)
    BY <2>1, ReconstructDriverAssumption
  <2> QED
    BY <1>1, <2>2, <2>3 DEF Filed
<1>5. Held
  <2>1. 0 \in 0 .. Len(made)
    BY <1>2
  <2>2. st \in States
    <3>1. <<>> \in Seq(Nat) /\ <<>> \in Seq(Int)
      OBVIOUS
    <3> QED
      BY <1>3, <3>1 DEF States
  <2>3. NoCopies \in Copied
    BY DEF NoCopies, Copied
  <2>4. store \in [BOOLEAN -> Copied] /\ store[TRUE] = NoCopies
    BY <1>1, <2>3
  <2>5. {Copies.sfm, Copies.gs, Copies.mesh, Copies.tex, Copies.ckpt} \subseteq 0 .. Len(made)
    BY <2>1, <2>4 DEF Copies, NoCopies
  <2> QED
    BY <1>3, <2>1, <2>2, <2>4, <2>5 DEF Held, Listing
<1>6. Ckpt = 0
  BY <1>1 DEF Ckpt, NoCopies
<1> QED
  BY <1>1, <1>2, <1>3, <1>4, <1>5, <1>6
  DEF Lossless, Tended, Working, Training, Later, Newest, Kept, Clean

LEMMA StaysTended ==
    ASSUME IInv, Lossless, [StudioNext]_studioVars
    PROVE  Lossless'
<1>1. CASE UNCHANGED studioVars
  <2>1. UNCHANGED <<file, made, store, run, exit, st, session>>
    BY <1>1 DEF studioVars, driverVars
  <2>2. Commanded' = Commanded
    BY <2>1 DEF Commanded, Uses
  <2>3. Held => Held'
    BY <2>1 DEF Held, Copies, Ckpt
  <2>4. (Results => Results') /\ (Filed => Filed') /\ (Working => Working')
        /\ (Training => Training') /\ (Later => Later') /\ (Newest => Newest')
    BY <2>1 DEF Results, Numbered, Filed, OneSource, Embedded, Readable, Working, Training,
                Later, Newest, Front, Ckpt, Copies
  <2>5. Kept => Kept'
    BY <2>1 DEF Kept, Clean, InProject, Copies, Shown, ModelFile, Ckpt, Plain, Listed, Named
  <2> QED
    BY <2>1, <2>2, <2>3, <2>4, <2>5 DEF Lossless, Tended
<1>2. CASE StudioNext
  <2>1. session' = session /\ Commanded' = Commanded
    BY <1>2 DEF StudioNext, Commanded, Uses
  <2>2. CASE Commanded
    <3>1. UNCHANGED st
      BY <1>2, <2>2, OnlyCommands DEF IInv, Session
    <3> QED
      BY <2>1, <2>2, <3>1 DEF Lossless
  <2>3. CASE ~Commanded
    <3>1. Tended /\ ~Command
      BY <2>3 DEF Lossless, Command, Commanded
    <3>2. Tended'
      BY <1>2, <3>1, JobTended, EditTended, ImportTended, RemoveTended, ClearTended, OpenTended,
         OpenFailsTended, SaveTended,
         SeeHandoffTended, LoadHandoffTended, FinishTended, StepTended DEF StudioNext
    <3> QED
      BY <2>1, <2>3, <3>2 DEF Lossless
  <2> QED
    BY <2>2, <2>3
<1> QED
  BY <1>1, <1>2

LEMMA TendedLosesNothing == Lossless => NothingLostUnasked
<1> SUFFICES ASSUME Lossless, st.saved, ~Unsaved, st.early = 0, ~st.partial
             PROVE  NothingLostUnasked
  BY DEF NothingLostUnasked
<1>1. Tended
  BY DEF Lossless
<1>2. Clean /\ Named = st.list
  BY DEF Clean, Unsaved
<1>3. /\ Copies.sfm # 0 => file.sfm = Copies.sfm
      /\ Copies.mesh # 0 => file.mesh = Copies.mesh
      /\ Copies.tex # 0 => file.tex = Copies.tex
      /\ file.info = 0 /\ st.edit = st.rev /\ Listed = file.srcs => Shown <= file.gs
      /\ Ckpt # 0 /\ st.rev = 0 => file.info = Ckpt \/ file.gs > Ckpt
  BY <1>1, <1>2 DEF Tended, Kept, Plain
<1>4. \A c \in Stages \ {"gs"} : Copies[c] # 0 => file[c] = Copies[c]
  BY <1>3 DEF Stages
<1>5. ASSUME file.info = 0 PROVE SameModels
  <2>1. Listing(made, file.srcs, Named)
    BY <1>1, <1>2, <1>5 DEF Tended, Kept
  <2>2. Listing(made, Listed, Named)
    BY <1>1, NamesFit
  <2> QED
    BY <2>1, <2>2 DEF SameModels, Listing, Edits
<1> QED
  BY <1>3, <1>4, <1>5 DEF NothingLostUnasked

-----------------------------------------------------------------------------
(* The theorems.                                                           *)

\* A run of a user that ends with 0 has stored its results in the project.
THEOREM SuccessStores == StudioSpec => SuccessIsStored
<1>1. IInv /\ [StudioNext]_studioVars => StoresItsResults
  <2> SUFFICES ASSUME IInv, [StudioNext]_studioVars, run # None, WritesProject, exit' = 0
               PROVE  StoresItsResults
    BY DEF StoresItsResults
  <2>1. Commanded /\ Session /\ RunTypes /\ RunHas /\ RunStored
    BY DEF IInv, Owner, WritesProject, Session, Running
  <2>2. exit = None /\ None # 0
    BY <2>1, ReconstructDriverAssumption DEF RunTypes
  <2>3. Steps
    BY <2>1, <2>2, OnlyCommands DEF IInv, Session, Start, studioVars, driverVars
  <2>4. Done
    BY <2>2, <2>3 DEF Steps, LoadDataset, LoadCameras, Align, Publish, Densify, Checkpoint,
       Train, KeepModel, LoadModel, StoreModel, RemoveCheckpoint, Extract, StoreMesh,
       LoadMesh, Texture, Fail, End
  <2>5. run.pc = "done" /\ (file = run.arch => file # None)
    BY <2>1, <2>4, ReconstructDriverAssumption DEF Done, At, RunTypes, Numbered
  <2> QED
    BY <2>1, <2>5 DEF StoresItsResults, RunStored, Loaded, Before
<1> QED
  BY <1>1, Invariant, PTL DEF StudioSpec, SuccessIsStored

\* What Studio saves, when it is not progress, is the model that it shows.
THEOREM ShownModelIsSaved == StudioSpec => SaveStoresShownModel
<1>1. IInv /\ [StudioNext]_studioVars => StoresShownModel
  <2> SUFFICES ASSUME IInv, [StudioNext]_studioVars PROVE StoresShownModel
    OBVIOUS
  <2>1. CASE Commanded
    <3>1. Quiet
      BY <2>1 DEF IInv, Session
    <3>2. ModelFile = 0
      BY <3>1 DEF Quiet, NoCopies, ModelFile, Copies
    <3>3. Shown = 0
      BY <3>1, <3>2 DEF Quiet, Shown, InProject
    <3> QED
      BY <3>3 DEF StoresShownModel
  <2>2. CASE ~Commanded
    BY <2>2, StudioStep, Saved DEF IInv, StoresShownModel
  <2> QED
    BY <2>1, <2>2
<1> QED
  BY <1>1, Invariant, PTL DEF StudioSpec, SaveStoresShownModel

\* The projects that there are before the session are like those that a
\* session leaves.
EarlierFits == \A f \in ProjectFiles \ {None} : Fits(Earlier, f)
EarlierResumes == \A f \in ProjectFiles \ {None} : Resumes(f)

\* Unless the user asks for a mesh from a model file, what command lines store
\* in a project was computed from its cameras.
THEOREM StagesFitCameras ==
    ASSUME EarlierFits, NoMeshOnly
    PROVE  StudioSpec => []CommandsMatchCameras
<1>1. StudioInit => (Commanded => Fitting)
  BY StudioProjectAssumption DEF EarlierFits, StudioInit, DriverInit, Fitting
<1>2. IInv /\ (Commanded => Fitting) /\ [StudioNext]_studioVars => (Commanded => Fitting)'
  BY SessionStep DEF IInv, StudioNext, studioVars, Commanded, Uses
<1>3. IInv /\ (Commanded => Fitting) => CommandsMatchCameras
  <2> SUFFICES ASSUME IInv, Commanded, Fitting, file # None,
                      NEW c \in Stages \ {"sfm"}, file[c] # 0
               PROVE  Alignments(file[c]) \subseteq {file.sfm}
    BY DEF CommandsMatchCameras, StagesMatchCameras, Commanded
  <2>1. Cams(made, file[c]) \subseteq {file.sfm}
    BY DEF Stages, Fitting, Fits
  <2> QED
    BY <2>1 DEF Alignments, Cams
<1> QED
  BY <1>1, <1>2, <1>3, Invariant, PTL DEF StudioSpec

\* Saved progress is that of the saved Gaussians.
THEOREM ProgressMatches ==
    ASSUME EarlierResumes
    PROVE  StudioSpec => []ProgressMatchesModel
<1> DEFINE P == (file # None => Resumes(file)) /\ (Commanded => Progressed)
<1>1. StudioInit => P
  BY StudioProjectAssumption DEF EarlierResumes, StudioInit, DriverInit, Progressed
<1>2. IInv /\ P /\ [StudioNext]_studioVars => P'
  <2> SUFFICES ASSUME IInv, P, [StudioNext]_studioVars PROVE P'
    OBVIOUS
  <2>1. Commanded' = Commanded
    BY DEF StudioNext, studioVars, Commanded, Uses
  <2>2. CASE Commanded
    BY <2>1, <2>2, SessionStep DEF IInv, Progressed
  <2>3. CASE ~Commanded
    BY <2>1, <2>3, StudioStep, Saved DEF IInv
  <2> QED
    BY <2>2, <2>3
<1>3. P => ProgressMatchesModel
  BY DEF ProgressMatchesModel, Resumes
<1> QED
  BY <1>1, <1>2, <1>3, Invariant, PTL DEF StudioSpec

\* When Studio closes or opens another project without a question, the project
\* has everything that Studio made or the user edited or imported.
THEOREM NothingIsLost ==
  ASSUME EarlierModels
  PROVE  StudioSpec => []NothingLostUnasked
<1>1. StudioInit => Lossless
  BY BeginsTended
<1>2. IInv /\ Lossless /\ [StudioNext]_studioVars => Lossless'
  BY StaysTended
<1> QED
  BY <1>1, <1>2, TendedLosesNothing, Invariant, PTL DEF StudioSpec
=============================================================================
