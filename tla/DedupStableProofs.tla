--------------------------- MODULE DedupStableProofs ---------------------------
(***************************************************************************)
(* As long as no harmful step is taken the pipeline loses no file: IInv is *)
(* inductive, and Recoverable, BasesFrozen and the implementation of       *)
(* DebugStore follow from it.  In the configurations of StableConfig no    *)
(* harmful step is ever taken.                                             *)
(***************************************************************************)
EXTENDS DedupProofs

(* The types of what there is, and what the tools make of a file.          *)
LEMMA PipelineFacts ==
  ASSUME PipelineAssumption, TypeOK
  PROVE  /\ None \notin Files
         /\ \A f \in Files : /\ row[f] \in RowType
                             /\ disk[f] \in Forms \cup {"gone"}
                             /\ delta[f] \in DeltaType
         /\ \A r \in Runs, f \in Files : job[r][f] \in JobType
         /\ \A r \in Runs : run[r] \in RunType
BY DEF PipelineAssumption, TypeOK

(* A file is as it was uploaded or in one of the forms of a base, and      *)
(* preparing it leads to those of a base; only CompressInPlace compresses. *)
Known == {"orig"} \cup BaseForms

LEMMA FormFacts ==
  /\ BaseForms \subseteq Known /\ Known \subseteq Forms /\ "gone" \notin Known
  /\ \A x \in Known : /\ Preprocessed(x) \in BaseForms
                      /\ HalfPreprocessed(x) \subseteq Known
                      /\ Preprocessed(x) = "zstd" => x = "zstd"
                      /\ \A y \in HalfPreprocessed(x) : y = "zstd" => x = "zstd"
  /\ \A x \in BaseForms : HalfPreprocessed(x) \subseteq BaseForms
  /\ "zstd" \in BaseForms
BY DEF Known, BaseForms, Forms, Preprocessed, HalfPreprocessed, Decompressed

(* The bytes a delta is decoded with depend on the base alone, and are the *)
(* same before and after the base is compressed in place.                  *)
LEMMA RestoreFacts ==
  /\ \A b : disk'[b] = disk[b] => RestoreForm(b)' = RestoreForm(b)
  /\ \A b : disk[b] # "zstd" => RestoreForm(b) = disk[b]
  /\ \A b : disk[b] \in BaseForms => RestoreForm(b) # "gone"
  /\ \A b : /\ CompressBase /\ disk[b] \in BaseForms /\ disk'[b] \in BaseForms
            => RestoreForm(b)' = RestoreForm(b)
BY DEF RestoreForm, Decompressed, Present, BaseForms, Preprocessed

(* The other runs rest while run r does a step.                            *)
OthersRest(r) ==
  \A s \in Runs : s # r =>
    /\ run[s].pc = "idle" /\ run'[s].pc = "idle"
    /\ \A f \in Files : job[s][f].st = "off" /\ job'[s][f].st = "off"

LEMMA OthersDoRest ==
  ASSUME PipelineAssumption, TypeOK, IInv, NEW r \in Runs, RunStep(r)
  PROVE  OthersRest(r)
<1>1. run[r].pc # "idle"
  BY DEF RunStep, DiscoverStep, WalkDir, Register, ListStep, ListAllPending, ListPendingDirs,
         ClaimDirs, Discovered, FinishRun, RunAborts, GroupStep, StampBase, MarkBase, AbortGroup,
         JoinTargets, CompressInPlace, CompressInPlaceFails, SingleStep, PairWithBase, StampFull,
         MarkFullAsBase, KeepFull, SingleFails, StartSingle, CompressStep, CopyTarget, Encode,
         Verify, RemoveOriginal, MarkDelta, FailStep, CopyFails, EncodeFails, VerifyFails,
         RemoveFails, MarkDeltaFails, MayCompress, At
<1> DEFINE OnlyOf == \A s \in Runs \ {r} : run'[s] = run[s] /\ job'[s] = job[s]
<1>2. OnlyOf
  <2>1. run \in [Runs -> RunType] /\ job \in [Runs -> [Files -> JobType]]
    BY DEF TypeOK
  <2>2. CASE DiscoverStep(r)
    BY <2>1, <2>2 DEF DiscoverStep, WalkDir, Register
  <2>3. CASE ListStep(r)
    <3>1. ASSUME NEW files, StartJobs(r, files) PROVE \A s \in Runs \ {r} : job'[s] = job[s]
      BY <2>1, <3>1 DEF StartJobs
    <3>2. CASE ListAllPending(r)
      BY <2>1, <3>1, <3>2 DEF ListAllPending
    <3>3. CASE ListPendingDirs(r)
      BY <2>1, <3>3 DEF ListPendingDirs
    <3>4. CASE ClaimDirs(r)
      BY <2>1, <3>1, <3>4 DEF ClaimDirs
    <3>5. QED
      BY <2>3, <3>2, <3>3, <3>4 DEF ListStep
  <2>4. CASE FinishRun(r) \/ RunAborts(r)
    BY <2>1, <2>4 DEF FinishRun, RunAborts
  <2>5. ASSUME NEW f \in Files, GroupStep(r, f) PROVE OnlyOf
    BY <2>1, <2>5 DEF GroupStep, StampBase, MarkBase, AbortGroup, JoinTargets, CompressInPlace,
                      CompressInPlaceFails, Goto
  <2>6. ASSUME NEW f \in Files, SingleStep(r, f) PROVE OnlyOf
    BY <2>1, <2>6 DEF SingleStep, PairWithBase, StampFull, MarkFullAsBase, KeepFull,
                      SingleFails, Goto
  <2>7. ASSUME NEW f \in Files, CompressStep(r, f) \/ FailStep(r, f) PROVE OnlyOf
    BY <2>1, <2>7 DEF CompressStep, CopyTarget, Encode, Verify, RemoveOriginal, MarkDelta,
                      FailStep, CopyFails, EncodeFails, VerifyFails, RemoveFails,
                      MarkDeltaFails, FailTarget, Goto
  <2> HIDE DEF OnlyOf
  <2>8. CASE \E f \in Files : \/ GroupStep(r, f) \/ SingleStep(r, f)
                              \/ CompressStep(r, f) \/ FailStep(r, f)
    BY <2>8, <2>5, <2>6, <2>7
  <2>9. QED
    BY <2>2, <2>3, <2>4, <2>8 DEF RunStep
<1>3. \A s \in Runs \ {r} : run[s].pc = "idle"
  BY <1>1 DEF IInv, RunsOverlap
<1>4. \A s \in Runs \ {r}, f \in Files : job[s][f].st = "off"
  BY <1>3 DEF IInv, FileInv, JobInv, JobOK
<1>5. QED
  BY <1>2, <1>3, <1>4 DEF OthersRest

(* A base, or a candidate for one, stays as jobs rely on.                  *)
KeepsBase(b) ==
  /\ IsBase(b) => IsBase(b)' /\ disk'[b] = disk[b]
  /\ row[b].kind \in {"full", "base"} /\ row[b].status = "done" /\ disk[b] \in BaseForms
       => row'[b].kind \in {"full", "base"} /\ row'[b].status = "done" /\ disk'[b] \in BaseForms

(* The step is not about file f and its job.                               *)
Untouched(r, f) ==
  /\ job'[r][f] = job[r][f] /\ delta'[f] = delta[f]
  /\ Present(f)' => Present(f)
  /\ job[r][f].st \in Unsettled => row'[f].kind = "full" /\ row'[f].status \in {"pending", "error"}
  /\ job[r][f].st \in {"base", "joined", "failed"} => row'[f].kind = row[f].kind
  /\ job[r][f].st = "failed" => row'[f].status \in {"pending", "error"}
  /\ job[r][f].st = "stamped" => disk'[f] = disk[f]
  /\ job[r][f].st \in Pairing \cup Compressing => KeepsBase(job[r][f].base)

(* A job no step is about stays as the invariant wants it.                 *)
LEMMA UntouchedJob ==
  ASSUME FileInv, NEW r \in Runs, UNCHANGED run, NEW f \in Files, Untouched(r, f)
  PROVE  JobOK(r, f)'
<1>1. JobOK(r, f)
  BY DEF FileInv, JobInv
<1>2. PICK b, st, work : /\ job[r][f].base = b /\ job[r][f].st = st /\ job[r][f].work = work
                         /\ job'[r][f].base = b /\ job'[r][f].st = st /\ job'[r][f].work = work
  BY DEF Untouched
<1>3. st \in {"ready"} \cup Compressing => /\ IsBase(b) /\ GroupOf[b] = GroupOf[f]
                                           /\ IsBase(b)' /\ disk'[b] = disk[b]
  BY <1>1, <1>2 DEF JobOK, Untouched, KeepsBase, Pairing
<1>4. st = "pairing" => /\ b \in Files /\ GroupOf[b] = GroupOf[f]
                        /\ disk'[b] \in BaseForms
                        /\ row'[b].kind \in {"full", "base"}
                        /\ row'[b].status = "done"
  BY <1>1, <1>2 DEF JobOK, Untouched, KeepsBase, Pairing
<1>5. /\ st = "verified" => delta'[f] = Delta(b, disk'[b], work)
      /\ st = "removed" => delta'[f] = Delta(b, RestoreForm(b)', work) /\ ~Present(f)'
  BY <1>1, <1>2, <1>3, RestoreFacts DEF JobOK, Untouched, Compressing
<1>6. /\ st # "off" => run[r].pc = "work"
      /\ st = "joined" => CompressBase
      /\ st \in Compressing => work \in Forms
      /\ st = "stamped" => disk'[f] \in BaseForms \cup {"gone"}
  BY <1>1, <1>2 DEF JobOK, Untouched
<1>7. /\ st \in Unsettled => row'[f].kind = "full" /\ row'[f].status \in {"pending", "error"}
      /\ st = "failed" => /\ row'[f].kind = "full" \/ (CompressBase /\ row'[f].kind = "base")
                          /\ row'[f].status \in {"pending", "error"}
      /\ st \in {"base", "joined"} => row'[f].kind = "base"
  BY <1>1, <1>2 DEF JobOK, Untouched
<1>8. QED
  BY <1>2, <1>3, <1>4, <1>5, <1>6, <1>7 DEF JobOK, IsBase, Present, RestoreForm

(* A job that is off is as the invariant wants it.                         *)
LEMMA RestingJobs ==
  ASSUME NEW r \in Runs, OthersRest(r)
  PROVE  \A s \in Runs, f \in Files : s # r => JobOK(s, f)'
BY DEF OthersRest, JobOK, Unsettled, Pairing, Compressing

(* A step of the job of f, the others untouched.                           *)
LEMMA OneJob ==
  ASSUME FileInv, NEW r \in Runs, OthersRest(r), UNCHANGED run,
         NEW f \in Files, \A g \in Files \ {f} : Untouched(r, g), JobOK(r, f)'
  PROVE  JobInv'
<1>1. \A g \in Files : JobOK(r, g)'
  <2> SUFFICES ASSUME NEW g \in Files PROVE JobOK(r, g)'
    OBVIOUS
  <2>1. CASE g = f
    BY <2>1
  <2>2. CASE g # f
    BY <2>2, UntouchedJob
  <2>3. QED
    BY <2>1, <2>2
<1>2. QED
  BY <1>1, RestingJobs DEF JobInv


(* The empty server satisfies the invariant.                               *)
LEMMA InitStable == ASSUME PipelineAssumption, Init PROVE FileInv
BY DEF Init, FileInv, RegisteredInv, OnDiskInv, BaseInv, DeltaInv, SeenInv, JobInv, JobOK, GroupInv,
       NoRow, NoJobs, NoJob, Job, IdleRun, Unsettled, Pairing, Compressing, Present, Forms

(* A new upload touches no row and no file that is a base.                 *)
LEMMA UploadStable ==
  ASSUME PipelineAssumption, TypeOK, FileInv, NEW f \in Files, Upload(f)
  PROVE  FileInv'
<1> USE PipelineFacts
<1>1. /\ uploaded' = uploaded \cup {f}
      /\ disk'[f] = "orig" /\ \A g \in Files \ {f} : disk'[g] = disk[g]
      /\ f \notin uploaded
      /\ UNCHANGED <<delta, row, run, job>>
  BY DEF Upload, TypeOK
<1>2. ~Present(f) /\ row[f].status = "absent"
  BY <1>1 DEF FileInv, RegisteredInv
<1>3. ~IsBase(f) /\ row[f].kind # "delta"
  BY <1>2 DEF FileInv, BaseInv, DeltaInv, IsBase
<1>4. RegisteredInv'
  BY <1>1 DEF FileInv, RegisteredInv, Present
<1>5. OnDiskInv'
  BY <1>1 DEF FileInv, OnDiskInv, Present, TypeOK
<1>6. BaseInv'
  BY <1>1, <1>3 DEF FileInv, BaseInv, IsBase
<1>7. DeltaInv'
  BY <1>1, <1>3 DEF FileInv, DeltaInv, IsBase, Present, RestoreForm
<1>8. SeenInv'
  BY <1>1 DEF FileInv, SeenInv
<1>9. JobInv'
  <2>1. \A b \in Files : KeepsBase(b)
    BY <1>1, <1>2, <1>3 DEF KeepsBase, IsBase
  <2>2. ASSUME NEW r \in Runs, NEW g \in Files \ {f} PROVE JobOK(r, g)'
    <3>1. job[r][g].st \in Pairing \cup Compressing => KeepsBase(job[r][g].base)
      BY <2>1 DEF JobType
    <3>2. Untouched(r, g)
      BY <1>1, <3>1 DEF FileInv, JobInv, JobOK, Untouched, Present
    <3>3. QED
      BY <1>1, <3>2, UntouchedJob
  <2>3. ASSUME NEW r \in Runs PROVE JobOK(r, f)'
    <3>1. job[r][f].st \notin Unsettled \cup {"failed"}
      BY <1>2 DEF FileInv, JobInv, JobOK
    <3>2. QED
      BY <1>1, <3>1 DEF FileInv, JobInv, JobOK, Unsettled, Pairing, Compressing
  <2>4. QED
    BY <2>2, <2>3 DEF JobInv
<1>10. GroupInv'
  BY <1>1 DEF FileInv, GroupInv
<1>11. QED
  BY <1>4, <1>5, <1>6, <1>7, <1>8, <1>9, <1>10 DEF FileInv

(* What a step that touches neither rows nor files keeps.                  *)
LEMMA SameFiles ==
  ASSUME TypeOK, FileInv, UNCHANGED <<uploaded, disk, delta, row>>
  PROVE  /\ RegisteredInv' /\ BaseInv' /\ DeltaInv'
         /\ (\A r \in Runs, f \in Files : job[r][f].st = "removed" => job'[r][f].st = "removed")
              => OnDiskInv'
<1>1. RegisteredInv' /\ BaseInv' /\ DeltaInv'
  BY DEF FileInv, RegisteredInv, BaseInv, DeltaInv, IsBase, Present, RestoreForm
<1>2. QED
  BY <1>1 DEF FileInv, OnDiskInv, Present, TypeOK

(* What preparing a file on disk, also half way, leaves in its place.      *)
LEMMA Rewritten ==
  ASSUME FileInv, NEW f \in Files, Present(f),
         NEW x, x = Preprocessed(disk[f]) \/ x \in HalfPreprocessed(disk[f])
  PROVE  /\ x # "gone" /\ x \in {"orig"} \cup BaseForms
         /\ x = "zstd" => CompressBase
         /\ x = Preprocessed(disk[f]) \/ disk[f] \in BaseForms => x \in BaseForms
<1>1. disk[f] \in Known /\ (disk[f] = "zstd" => CompressBase)
  BY DEF FileInv, RegisteredInv, Known, Present
<1>2. x \in Known /\ (x = "zstd" => disk[f] = "zstd")
  BY <1>1, FormFacts
<1>3. x = Preprocessed(disk[f]) \/ disk[f] \in BaseForms => x \in BaseForms
  BY <1>1, FormFacts
<1>4. QED
  BY <1>1, <1>2, <1>3, FormFacts DEF Known

(* A step after which what was there, or about to be recorded, still is.   *)
LEMMA StillThere ==
  ASSUME TypeOK, FileInv, UNCHANGED uploaded, NEW r \in Runs, OthersRest(r),
         \A g \in Files :
           /\ Present(g) => Present(g)' \/ job'[r][g].st = "removed"
           /\ row[g].kind = "delta" => row'[g].kind = "delta"
           /\ job[r][g].st = "removed" => job'[r][g].st = "removed" \/ row'[g].kind = "delta"
  PROVE  OnDiskInv'
<1> SUFFICES ASSUME NEW g \in uploaded, ~Present(g)', row'[g].kind # "delta"
             PROVE  job'[r][g].st = "removed"
  BY DEF OnDiskInv, Present
<1>1. g \in Files /\ ~(\E s \in Runs : s # r /\ job[s][g].st = "removed")
  BY DEF TypeOK, OthersRest
<1>2. CASE Present(g) \/ job[r][g].st = "removed"
  BY <1>1, <1>2
<1>3. CASE ~Present(g) /\ job[r][g].st # "removed"
  BY <1>1, <1>3 DEF FileInv, OnDiskInv
<1>4. QED
  BY <1>2, <1>3

(* The jobs of other runs, and those of a run that walks or starts, stay.  *)
LEMMA SameJobs ==
  ASSUME PipelineAssumption, TypeOK, FileInv, UNCHANGED <<disk, delta, row, job>>,
         \A r \in Runs : run'[r] = run[r] \/ run[r].pc # "work"
  PROVE  JobInv' /\ GroupInv'
<1> USE PipelineFacts
<1>1. ASSUME NEW r \in Runs, NEW f \in Files PROVE JobOK(r, f)'
  <2>1. JobOK(r, f)
    BY DEF FileInv, JobInv
  <2>2. job[r][f].st = "off" \/ run'[r] = run[r]
    BY <2>1 DEF JobOK
  <2>3. QED
    BY <2>1, <2>2 DEF JobOK, IsBase, Present, RestoreForm
<1>2. QED
  BY <1>1 DEF FileInv, JobInv, GroupInv

(* Discovering and listing: no job exists yet, and the rows that are       *)
(* registered are no deltas.                                               *)
LEMMA StartStable ==
  ASSUME PipelineAssumption, TypeOK, FileInv,
         NEW r \in Runs, NEW mode, NEW scope, Start(r, mode, scope)
  PROVE  FileInv'
<1>1. /\ run[r].pc = "idle" /\ run'[r].pc = "discover"
      /\ \A s \in Runs \ {r} : run'[s] = run[s]
      /\ UNCHANGED <<uploaded, disk, delta, row, job>>
  BY DEF Start, TypeOK, IdleRun
<1>2. RegisteredInv' /\ BaseInv' /\ DeltaInv' /\ OnDiskInv'
  BY <1>1, SameFiles
<1>3. SeenInv'
  BY <1>1 DEF FileInv, SeenInv
<1>4. JobInv' /\ GroupInv'
  BY <1>1, SameJobs
<1>5. QED
  BY <1>2, <1>3, <1>4 DEF FileInv

(* WalkDir and Register keep the invariant as long as no base that deltas  *)
(* need is taken: what they find is uploaded and on disk.                  *)
LEMMA DiscoverStable ==
  ASSUME PipelineAssumption, TypeOK, FileInv,
         NEW r \in Runs, OthersRest(r), DiscoverStep(r), ~BaseTaken
  PROVE  FileInv'
<1> USE PipelineFacts
<1>1. \A f \in Files : job[r][f].st = "off"
  <2>1. run[r].pc \in {"discover", "register"}
    BY DEF DiscoverStep, WalkDir, Register
  <2>2. QED
    BY <2>1 DEF FileInv, JobInv, JobOK
<1>2. /\ run[r].pc # "work" /\ UNCHANGED job
      /\ \A s \in Runs \ {r} : run'[s] = run[s]
  BY DEF DiscoverStep, WalkDir, Register, TypeOK
<1>3. \A s \in Runs \ {r} : run'[s].pc = "idle"
  BY DEF OthersRest
<1>4. ASSUME NEW d \in Dirs, WalkDir(r, d) PROVE FileInv'
  <2>1. run'[r].seen = Changed(d) /\ UNCHANGED <<uploaded, disk, delta, row>>
    <3>1. run[r] \in RunType /\ run \in [Runs -> RunType]
      BY DEF TypeOK
    <3>2. QED
      BY <1>4, <3>1 DEF WalkDir, RunType
  <2>2. \A f \in Files : Changed(d)[f] # 0 => Present(f)
    BY DEF Changed
  <2>3. SeenInv'
    BY <1>3, <2>1, <2>2 DEF SeenInv, FileInv, RegisteredInv, DeltaInv
  <2>4. RegisteredInv' /\ BaseInv' /\ DeltaInv' /\ OnDiskInv'
    BY <1>2, <2>1, SameFiles
  <2>5. JobInv' /\ GroupInv'
    BY <1>2, <2>1, SameJobs
  <2>6. QED
    BY <2>3, <2>4, <2>5 DEF FileInv
<1>5. ASSUME Register(r) PROVE FileInv'
  <2> DEFINE seen == run[r].seen
  <2>1. /\ \A f \in Files : row'[f] = IF seen[f] = 0 THEN row[f] ELSE Upserted(row[f], seen[f])
        /\ run'[r].pc # "register"
        /\ UNCHANGED <<uploaded, disk, delta>>
    <3>1. run[r] \in RunType /\ run \in [Runs -> RunType]
      BY DEF TypeOK
    <3>2. QED
      BY <1>5, <3>1 DEF Register, RunType
  <2>2. \A f \in Files : seen[f] # 0 => f \in uploaded /\ row[f].kind # "delta"
    BY <1>5 DEF FileInv, SeenInv, Register
  <2> HIDE DEF seen
  <2>3. \A f \in Files : \/ row'[f] = row[f]
                         \/ /\ row'[f].kind = "full" /\ row[f].kind # "delta"
                            /\ f \in uploaded
    BY <2>1, <2>2, RowFields
  <2>4. RegisteredInv'
    BY <2>1, <2>3 DEF FileInv, RegisteredInv, Present
  <2>5. OnDiskInv'
    BY <1>2, <2>1, <2>3 DEF FileInv, OnDiskInv, Present, TypeOK
  <2>6. BaseInv'
    BY <2>1, <2>3 DEF FileInv, BaseInv
  <2>7. DeltaInv'
    <3>1. ASSUME NEW f \in Files, row[f].kind = "delta" PROVE IsBase(row[f].base)'
      <4>1. row[f].base \in Files /\ f \in Dependents(row[f].base)
        BY <3>1 DEF FileInv, DeltaInv, IsBase, Dependents
      <4>2. row'[row[f].base].kind = "base" /\ row'[f] = row[f]
        BY <2>3, <3>1, <4>1 DEF BaseTaken
      <4>3. QED
        BY <4>1, <4>2 DEF IsBase
    <3>2. QED
      BY <2>1, <2>3, <3>1 DEF FileInv, DeltaInv, IsBase, Present, RestoreForm
  <2>8. SeenInv'
    BY <1>3, <2>1 DEF SeenInv
  <2>9. JobInv'
    <3>1. \A f \in Files : JobOK(r, f)'
      BY <1>1, <1>2 DEF JobOK, Unsettled, Pairing, Compressing
    <3>2. QED
      BY <3>1, RestingJobs DEF JobInv
  <2>10. GroupInv'
    BY <1>2 DEF FileInv, GroupInv
  <2>11. QED
    BY <2>4, <2>5, <2>6, <2>7, <2>8, <2>9, <2>10 DEF FileInv
<1>6. QED
  BY <1>4, <1>5 DEF DiscoverStep

(* A run that has listed its files does not register any.                  *)
LEMMA ListedRun ==
  ASSUME TypeOK, NEW r \in Runs, ListStep(r)
  PROVE  run'[r].pc # "register"
<1>1. run[r] \in RunType /\ run \in [Runs -> RunType]
  BY DEF TypeOK
<1>2. CASE ListAllPending(r)
  <2>1. CASE Pending = {}
    BY <1>1, <1>2, <2>1 DEF ListAllPending, IdleRun
  <2>2. CASE Pending # {}
    <3>1. run'[r] = [run[r] EXCEPT !.pc = "work", !.dirs = DirsOf(Pending)]
      BY <1>1, <1>2, <2>2 DEF ListAllPending
    <3>2. QED
      BY <1>1, <3>1 DEF RunType
  <2>3. QED
    BY <2>1, <2>2
<1>3. CASE ListPendingDirs(r)
  BY <1>1, <1>3 DEF ListPendingDirs, RunType, IdleRun
<1>4. CASE ClaimDirs(r)
  BY <1>1, <1>4 DEF ClaimDirs, RunType
<1>5. QED
  BY <1>2, <1>3, <1>4 DEF ListStep

(* A listed file is full: a base or a delta is done.                       *)
LEMMA ListStable ==
  ASSUME PipelineAssumption, TypeOK, FileInv, NEW r \in Runs, OthersRest(r), ListStep(r)
  PROVE  FileInv'
<1> USE PipelineFacts
<1>1. /\ \A f \in Files : job[r][f].st = "off"
      /\ UNCHANGED <<uploaded, disk, delta, row>>
  <2>1. run[r].pc \in {"discover", "claim"} /\ UNCHANGED <<uploaded, disk, delta, row>>
    BY DEF ListStep, ListAllPending, ListPendingDirs, ClaimDirs, Discovered
  <2>2. QED
    BY <2>1 DEF FileInv, JobInv, JobOK
<1>2. run'[r].pc # "register"
  BY ListedRun
<1>3. ASSUME NEW files \in SUBSET Pending, StartJobs(r, files)
      PROVE  \A f \in Files :
               \/ job'[r][f].st = "off"
               \/ job'[r][f].st = "queued" /\ f \in Pending
  BY <1>1, <1>3, JobFields DEF StartJobs, NoJob, TypeOK, Pending
<1>4. /\ \A f \in Files : \/ job'[r][f].st = "off"
                          \/ job'[r][f].st = "queued" /\ f \in Pending
      /\ \/ run'[r].pc = "work"
         \/ \A f \in Files : job'[r][f].st = "off"
  <2>1. run[r] \in RunType /\ run \in [Runs -> RunType]
    BY DEF TypeOK
  <2>2. CASE ListAllPending(r)
    <3>1. CASE Pending = {}
      BY <1>1, <2>2, <3>1 DEF ListAllPending
    <3>2. CASE Pending # {}
      <4>1. run'[r].pc = "work"
        <5>1. run'[r] = [run[r] EXCEPT !.pc = "work", !.dirs = DirsOf(Pending)]
          BY <2>1, <2>2, <3>2 DEF ListAllPending
        <5>2. QED
          BY <2>1, <5>1 DEF RunType
      <4>2. StartJobs(r, Pending)
        BY <2>2, <3>2 DEF ListAllPending
      <4>3. QED
        BY <1>3, <4>1, <4>2
    <3>3. QED
      BY <3>1, <3>2
  <2>3. CASE ListPendingDirs(r)
    BY <1>1, <2>3 DEF ListPendingDirs
  <2>4. CASE ClaimDirs(r)
    BY <1>3, <2>1, <2>4 DEF ClaimDirs, RunType
  <2>5. QED
    BY <2>2, <2>3, <2>4 DEF ListStep
<1>5. \A f \in Pending : row[f].kind = "full"
  BY DEF FileInv, BaseInv, DeltaInv, Pending, RowType
<1>6. RegisteredInv' /\ BaseInv' /\ DeltaInv' /\ OnDiskInv'
  BY <1>1, SameFiles DEF OthersRest
<1>7. SeenInv'
  BY <1>1, <1>2 DEF SeenInv, OthersRest
<1>8. JobInv'
  <2>1. \A f \in Files : JobOK(r, f)'
    BY <1>1, <1>4, <1>5 DEF JobOK, Pending, Unsettled, Pairing, Compressing
  <2>2. QED
    BY <2>1, RestingJobs DEF JobInv
<1>9. GroupInv'
  BY <1>1, <1>4 DEF GroupInv, OthersRest
<1>10. QED
  BY <1>6, <1>7, <1>8, <1>9 DEF FileInv

(* The work on the base of a group.                                        *)
LEMMA GroupStable ==
  ASSUME PipelineAssumption, TypeOK, FileInv,
         NEW r \in Runs, OthersRest(r), NEW f \in Files, GroupStep(r, f)
  PROVE  FileInv'
<1> USE PipelineFacts
<1>1. /\ \A s \in Runs \ {r} : run[s].pc = "idle"
      /\ \A s \in Runs \ {r}, g \in Files : job[s][g].st = "off" /\ job'[s][g].st = "off"
      /\ \A g \in Files : job[r][g].st \in Pairing \cup Compressing => job[r][g].base \in Files
  BY DEF OthersRest, JobType
<1>2. /\ run[r].pc = "work"
      /\ UNCHANGED <<uploaded, run>>
      /\ \A g \in Members(r, f) : g \in Files /\ job[r][g].st # "off" /\ GroupOf[g] = GroupOf[f]
  BY DEF GroupStep, StampBase, MarkBase, AbortGroup, JoinTargets, CompressInPlace,
         CompressInPlaceFails, At, Members
<1>3. SeenInv'
  BY <1>1, <1>2 DEF SeenInv
<1>4. CASE StampBase(r, f)
  <2>1. /\ job[r][f].st = "queued" /\ Lead(r, f)
        /\ row[f].kind = "full" /\ row[f].status \in {"pending", "error"}
    BY <1>4 DEF StampBase, At, FileInv, JobInv, JobOK, Unsettled
  <2>2. /\ UNCHANGED <<delta, row>>
        /\ job'[r][f].st = "stamped"
        /\ \A g \in Files \ {f} : job'[r][g] = job[r][g] /\ disk'[g] = disk[g]
        /\ Present(f) /\ disk'[f] = Preprocessed(disk[f])
    <3>1. Goto(r, f, "stamped") /\ Present(f) /\ UNCHANGED <<delta, row>>
          /\ disk' = [disk EXCEPT ![f] = Preprocessed(@)]
      BY <1>4 DEF StampBase
    <3>2. job'[r][f].st = "stamped" /\ \A g \in Files \ {f} : job'[r][g] = job[r][g]
      BY <3>1, GotoEffect
    <3>3. disk'[f] = Preprocessed(disk[f]) /\ \A g \in Files \ {f} : disk'[g] = disk[g]
      BY <3>1 DEF TypeOK
    <3>4. QED
      BY <3>1, <3>2, <3>3
  <2>4. /\ disk'[f] \in BaseForms /\ disk'[f] # "gone"
        /\ disk'[f] = "zstd" => CompressBase
    BY <2>2, Rewritten
  <2>5. \A g \in Files \ {f} : GroupOf[g] = GroupOf[f] /\ job[r][g].st # "off"
          => job[r][g].st = "queued" /\ BuildNum[f] <= BuildNum[g]
    <3> SUFFICES ASSUME NEW g \in Files \ {f}, GroupOf[g] = GroupOf[f], job[r][g].st # "off"
                 PROVE  job[r][g].st = "queued" /\ BuildNum[f] <= BuildNum[g]
      OBVIOUS
    <3>1. BuildNum[f] <= BuildNum[g]
      BY <2>1 DEF Lead, Members
    <3>2. job[r][g].st \in {"queued", "stamped"}
      BY <2>1 DEF FileInv, GroupInv
    <3>3. job[r][g].st = "stamped" => BuildNum[g] <= BuildNum[f]
      BY <2>1 DEF FileInv, GroupInv
    <3>4. BuildNum[f] # BuildNum[g] /\ BuildNum[f] \in Nat /\ BuildNum[g] \in Nat
      BY DEF PipelineAssumption
    <3>5. QED
      BY <3>1, <3>2, <3>3, <3>4
  <2>6. RegisteredInv'
    BY <2>2, <2>4, <1>2 DEF FileInv, RegisteredInv, Present
  <2>7. OnDiskInv'
    <3>1. \A g \in Files : /\ Present(g) => Present(g)'
                           /\ job[r][g].st = "removed" => job'[r][g].st = "removed"
      BY <2>1, <2>2, <2>4 DEF Present
    <3>2. QED
      BY <1>2, <2>2, <3>1, StillThere
  <2>8. BaseInv'
    BY <2>1, <2>2 DEF FileInv, BaseInv
  <2>9. DeltaInv'
    BY <2>1, <2>2 DEF FileInv, DeltaInv, IsBase, Present, RestoreForm
  <2>10. JobInv'
    <3>1. \A b \in Files : KeepsBase(b)
      BY <2>1, <2>2 DEF KeepsBase, IsBase
    <3>2. \A g \in Files \ {f} : Untouched(r, g)
      BY <1>1, <2>2, <3>1 DEF FileInv, JobInv, JobOK, Untouched, Present
    <3>3. JobOK(r, f)'
      BY <1>2, <2>1, <2>2, <2>4 DEF JobOK, Unsettled, Pairing, Compressing
    <3>4. QED
      BY <1>2, <3>2, <3>3, OneJob
  <2>11. GroupInv'
    <3>1. \A g \in Files : GroupOf[g] = GroupOf[f] /\ job[r][g].st # "off"
            => job'[r][g].st \in {"queued", "stamped"}
      BY <2>2, <2>5
    <3>2. QED
      BY <1>1, <2>1, <2>2, <2>5, <3>1 DEF FileInv, GroupInv
  <2>12. QED
    BY <1>3, <2>6, <2>7, <2>8, <2>9, <2>10, <2>11 DEF FileInv
<1>5. CASE MarkBase(r, f)
  <2>1. /\ job[r][f].st = "stamped" /\ Present(f)
        /\ row[f].kind = "full" /\ row[f].status \in {"pending", "error"}
        /\ disk[f] \in BaseForms
    BY <1>5 DEF MarkBase, At, FileInv, JobInv, JobOK, Unsettled, Present
  <2>2. /\ UNCHANGED <<disk, delta>>
        /\ row'[f].kind = "base" /\ row'[f].status = "done"
        /\ \A g \in Files \ {f} : row'[g] = row[g]
    BY <1>5, RowFields DEF MarkBase, TypeOK
  <2>3. /\ job'[r][f].st = "base"
        /\ \A g \in Files \ {f} : IF g \in Members(r, f)
                                  THEN job'[r][g].st = "ready" /\ job'[r][g].base = f
                                  ELSE job'[r][g] = job[r][g]
    BY <1>5, JobFields DEF MarkBase, TypeOK
  <2>4. \A g \in Members(r, f) \ {f} : job[r][g].st = "queued"
    BY <1>2, <2>1 DEF FileInv, GroupInv
  <2>5. RegisteredInv'
    BY <1>2, <2>1, <2>2 DEF FileInv, RegisteredInv, Present
  <2>6. OnDiskInv'
    <3>1. \A g \in Files : job[r][g].st = "removed" => job'[r][g].st = "removed"
      BY <2>1, <2>3, <2>4
    <3>2. QED
      BY <1>2, <2>1, <2>2, <3>1, StillThere DEF Present
  <2>7. BaseInv'
    BY <2>1, <2>2 DEF FileInv, BaseInv
  <2>8. DeltaInv'
    BY <2>1, <2>2 DEF FileInv, DeltaInv, IsBase, Present, RestoreForm
  <2>9. JobInv'
    <3>1. \A b \in Files : KeepsBase(b)
      BY <2>1, <2>2 DEF KeepsBase, IsBase
    <3>2. ASSUME NEW g \in Files \ {f}, g \notin Members(r, f) PROVE JobOK(r, g)'
      <4>1. Untouched(r, g)
        BY <1>1, <2>2, <2>3, <3>1, <3>2 DEF FileInv, JobInv, JobOK, Untouched, Present
      <4>2. QED
        BY <1>2, <4>1, UntouchedJob
    <3>3. ASSUME NEW g \in Files \ {f}, g \in Members(r, f) PROVE JobOK(r, g)'
      <4>1. row[g].kind = "full" /\ row[g].status \in {"pending", "error"}
        BY <2>4, <3>3 DEF FileInv, JobInv, JobOK, Unsettled
      <4>2. QED
        BY <1>2, <2>2, <2>3, <3>3, <4>1 DEF JobOK, IsBase, Compressing
    <3>4. JobOK(r, f)'
      BY <1>2, <2>2, <2>3 DEF JobOK, Unsettled, Pairing, Compressing
    <3>5. QED
      BY <3>2, <3>3, <3>4, RestingJobs DEF JobInv
  <2>10. GroupInv'
    BY <1>1, <1>2, <2>1, <2>3, <2>4 DEF FileInv, GroupInv, Members
  <2>11. QED
    BY <1>3, <2>5, <2>6, <2>7, <2>8, <2>9, <2>10 DEF FileInv
<1>6. CASE AbortGroup(r, f)
  <2>1. /\ job[r][f].st \in {"queued", "stamped"}
        /\ row[f].kind = "full" /\ row[f].status \in {"pending", "error"}
    BY <1>6 DEF AbortGroup, At, FileInv, JobInv, JobOK, Unsettled
  <2>2. /\ UNCHANGED delta
        /\ row'[f].kind = "full" /\ row'[f].status = "error"
        /\ \A g \in Files \ {f} : row'[g] = row[g]
    BY <1>6, <2>1, RowFields DEF AbortGroup, TypeOK
  <2>3. /\ job'[r][f].st = "failed"
        /\ \A g \in Files \ {f} : IF g \in Members(r, f) THEN job'[r][g].st = "skipped"
                                  ELSE job'[r][g] = job[r][g]
    BY <1>6, JobFields DEF AbortGroup, TypeOK
  <2>4. /\ \A g \in Files \ {f} : disk'[g] = disk[g]
        /\ \/ disk'[f] = disk[f]
           \/ Present(f) /\ disk'[f] \in HalfPreprocessed(disk[f])
    BY <1>6 DEF AbortGroup, TypeOK
  <2>5. /\ Present(f) <=> Present(f)'
        /\ disk'[f] \in {"gone", "orig"} \cup BaseForms
        /\ disk'[f] = "zstd" => CompressBase
    BY <2>4, Rewritten DEF FileInv, RegisteredInv, Present
  <2>6. \A g \in Members(r, f) \ {f} : job[r][g].st \in {"queued", "stamped"}
    BY <1>2, <2>1 DEF FileInv, GroupInv
  <2>7. RegisteredInv'
    BY <1>2, <2>1, <2>2, <2>4, <2>5 DEF FileInv, RegisteredInv, Present
  <2>8. OnDiskInv'
    <3>1. \A g \in Files : /\ job[r][g].st = "removed" => job'[r][g].st = "removed"
                           /\ Present(g) => Present(g)'
      BY <2>1, <2>3, <2>4, <2>5, <2>6 DEF Present
    <3>2. QED
      BY <1>2, <2>1, <2>2, <3>1, StillThere
  <2>9. BaseInv'
    BY <2>1, <2>2, <2>4 DEF FileInv, BaseInv
  <2>10. DeltaInv'
    BY <2>1, <2>2, <2>4 DEF FileInv, DeltaInv, IsBase, Present, RestoreForm
  <2>11. JobInv'
    <3>1. \A b \in Files : KeepsBase(b)
      BY <2>1, <2>2, <2>4 DEF KeepsBase, IsBase
    <3>2. ASSUME NEW g \in Files \ {f}, g \notin Members(r, f) PROVE JobOK(r, g)'
      <4>1. Untouched(r, g)
        BY <1>1, <2>2, <2>3, <2>4, <3>1, <3>2 DEF FileInv, JobInv, JobOK, Untouched, Present
      <4>2. QED
        BY <1>2, <4>1, UntouchedJob
    <3>3. ASSUME NEW g \in Files \ {f}, g \in Members(r, f) PROVE JobOK(r, g)'
      <4>1. row[g].kind = "full" /\ row[g].status \in {"pending", "error"}
        BY <2>6, <3>3 DEF FileInv, JobInv, JobOK, Unsettled
      <4>2. QED
        BY <1>2, <2>2, <2>3, <3>3, <4>1 DEF JobOK, Compressing
    <3>4. JobOK(r, f)'
      BY <1>2, <2>2, <2>3 DEF JobOK, Unsettled, Pairing, Compressing
    <3>5. QED
      BY <3>2, <3>3, <3>4, RestingJobs DEF JobInv
  <2>12. GroupInv'
    BY <1>1, <1>2, <2>1, <2>3, <2>6 DEF FileInv, GroupInv, Members
  <2>13. QED
    BY <1>3, <2>7, <2>8, <2>9, <2>10, <2>11, <2>12 DEF FileInv
<1>7. CASE JoinTargets(r, f)
  <2>1. /\ job[r][f].st = "base"
        /\ \A g \in Files \ {f} : GroupOf[g] = GroupOf[f] /\ job[r][g].st # "off"
             => job[r][g].st \in Finished
    BY <1>7 DEF JoinTargets, At, Members
  <2>2. /\ UNCHANGED <<disk, delta>>
        /\ job'[r][f].st \in {"joined", "done"} /\ (job'[r][f].st = "joined" => CompressBase)
        /\ \A g \in Files \ {f} : job'[r][g] = job[r][g]
    BY <1>7, GotoEffect DEF JoinTargets
  <2>3. \A g \in Files : \/ row'[g] = row[g]
                         \/ job[r][g].st = "failed" /\ row'[g] = MarkedError(row[g])
    BY <1>7 DEF JoinTargets
  <2>4. \A g \in Files : /\ row'[g].kind = row[g].kind
                         /\ \/ row'[g] = row[g]
                            \/ /\ row'[g].status = "error"
                               /\ row[g].status \in {"pending", "error"}
                               /\ row[g].kind = "full" \/ (CompressBase /\ row[g].kind = "base")
    BY <2>3, RowFields DEF FileInv, JobInv, JobOK
  <2>5. RegisteredInv'
    BY <1>2, <2>2, <2>4 DEF FileInv, RegisteredInv, Present
  <2>6. OnDiskInv'
    BY <1>2, <2>1, <2>2, <2>4, StillThere DEF Present
  <2>7. BaseInv'
    BY <2>2, <2>4 DEF FileInv, BaseInv
  <2>8. DeltaInv'
    BY <2>2, <2>4 DEF FileInv, DeltaInv, IsBase, Present, RestoreForm
  <2>9. JobInv'
    <3>1. \A b \in Files : KeepsBase(b)
      BY <2>2, <2>4 DEF KeepsBase, IsBase
    <3>2. \A g \in Files \ {f} : Untouched(r, g)
      BY <1>1, <2>2, <2>4, <3>1 DEF FileInv, JobInv, JobOK, Untouched, Present
    <3>3. JobOK(r, f)'
      <4>1. row'[f].kind = "base"
        BY <2>1, <2>4 DEF FileInv, JobInv, JobOK
      <4>2. QED
        BY <1>2, <2>2, <4>1 DEF JobOK, Unsettled, Pairing, Compressing
    <3>4. QED
      BY <1>2, <3>2, <3>3, OneJob
  <2>10. GroupInv'
    <3>1. \A g \in Files \ {f} : GroupOf[f] = GroupOf[g] /\ job[r][g].st # "off"
            => job[r][g].st \notin {"queued", "stamped", "joined", "pairing"}
      BY <2>1 DEF Finished
    <3>2. QED
      BY <1>1, <2>1, <2>2, <3>1 DEF FileInv, GroupInv
  <2>11. QED
    BY <1>3, <2>5, <2>6, <2>7, <2>8, <2>9, <2>10 DEF FileInv
<1>8. CASE CompressInPlace(r, f) \/ CompressInPlaceFails(r, f)
  <2>1. /\ job[r][f].st = "joined" /\ CompressBase
        /\ IsBase(f) /\ f \in uploaded /\ disk[f] \in BaseForms
        /\ \A g \in Files \ {f} : GroupOf[g] = GroupOf[f] => job[r][g].st \in Finished \cup {"off"}
    <3>1. job[r][f].st = "joined"
      BY <1>8 DEF CompressInPlace, CompressInPlaceFails, At
    <3>2. CompressBase /\ IsBase(f) /\ disk[f] \in BaseForms
      BY <3>1 DEF FileInv, JobInv, JobOK, BaseInv, IsBase
    <3>3. f \in uploaded
      BY <3>2, FormFacts DEF FileInv, RegisteredInv, Present
    <3>4. QED
      BY <3>1, <3>2, <3>3 DEF FileInv, GroupInv
  <2>2. /\ UNCHANGED delta
        /\ job'[r][f].st \in {"done", "failed"}
        /\ \A g \in Files \ {f} : job'[r][g] = job[r][g] /\ row'[g] = row[g] /\ disk'[g] = disk[g]
        /\ row'[f].kind = "base" /\ row'[f].status \in {row[f].status, "error"}
        /\ job'[r][f].st = "failed" => row'[f].status = "error"
    BY <1>8, <2>1, GotoEffect, RowFields DEF CompressInPlace, CompressInPlaceFails, TypeOK, IsBase
  <2>3. disk'[f] = disk[f] \/ disk'[f] = "zstd"
    BY <1>8 DEF CompressInPlace, CompressInPlaceFails, TypeOK
  <2>4. Present(f) /\ Present(f)' /\ disk'[f] \in BaseForms
    BY <2>1, <2>3, FormFacts DEF Present
  <2>5. RegisteredInv'
    BY <1>2, <2>1, <2>2, <2>4 DEF FileInv, RegisteredInv, Present
  <2>6. OnDiskInv'
    <3>1. \A g \in Files : /\ Present(g) => Present(g)'
                           /\ row[g].kind = "delta" => row'[g].kind = "delta"
                           /\ job[r][g].st = "removed" => job'[r][g].st = "removed"
      BY <2>1, <2>2, <2>4 DEF Present, IsBase
    <3>2. QED
      BY <1>2, <3>1, StillThere
  <2>7. BaseInv'
    <3>1. row'[f].status = "done" \/ row'[f].status = "error"
      BY <2>1, <2>2 DEF FileInv, BaseInv, IsBase
    <3>2. QED
      BY <2>1, <2>2, <2>4, <3>1 DEF FileInv, BaseInv
  <2>8. DeltaInv'
    <3>1. \A b \in Files : IsBase(b) => IsBase(b)' /\ RestoreForm(b)' = RestoreForm(b)
      BY <2>1, <2>2, <2>4, RestoreFacts DEF FileInv, BaseInv, IsBase
    <3>2. \A g \in Files : row'[g].kind = "delta" =>
            /\ row'[g] = row[g] /\ disk'[g] = disk[g] /\ delta'[g] = delta[g]
      BY <2>2
    <3>3. ASSUME NEW g \in Files, row'[g].kind = "delta"
          PROVE  /\ row'[g].status = "done" /\ ~Present(g)' /\ row'[g].sha \in Forms
                 /\ IsBase(row[g].base) /\ IsBase(row[g].base)'
                 /\ delta'[g] = Delta(row[g].base, RestoreForm(row[g].base)', row[g].sha)
      BY <3>1, <3>2, <3>3 DEF FileInv, DeltaInv, IsBase, Present
    <3>4. QED
      BY <3>2, <3>3 DEF DeltaInv, IsBase, Present, RestoreForm
  <2>9. JobInv'
    <3>1. \A b \in Files \ {f} : KeepsBase(b)
      BY <2>2 DEF KeepsBase, IsBase
    <3>2. ASSUME NEW g \in Files \ {f}, job[r][g].st \in Pairing \cup Compressing
          PROVE  KeepsBase(job[r][g].base)
      <4>1. GroupOf[job[r][g].base] = GroupOf[g]
        BY <3>2 DEF FileInv, JobInv, JobOK, Pairing
      <4>2. GroupOf[g] # GroupOf[f]
        BY <2>1, <3>2 DEF Finished, Pairing, Compressing
      <4>3. QED
        BY <1>1, <3>1, <3>2, <4>1, <4>2
    <3>3. \A g \in Files \ {f} : Untouched(r, g)
      BY <2>2, <3>2 DEF FileInv, JobInv, JobOK, Untouched, Present
    <3>4. JobOK(r, f)'
      BY <1>2, <2>1, <2>2 DEF JobOK, Unsettled, Pairing, Compressing
    <3>5. QED
      BY <1>2, <3>3, <3>4, OneJob
  <2>10. GroupInv'
    BY <1>1, <2>1, <2>2 DEF FileInv, GroupInv, Finished
  <2>11. QED
    BY <1>3, <2>5, <2>6, <2>7, <2>8, <2>9, <2>10 DEF FileInv
<1>9. QED
  BY <1>4, <1>5, <1>6, <1>7, <1>8 DEF GroupStep

(* A file that is alone in its group, compressed against a file the        *)
(* database has or kept full.                                              *)
LEMMA SingleStable ==
  ASSUME PipelineAssumption, TypeOK, FileInv,
         NEW r \in Runs, OthersRest(r), NEW f \in Files, SingleStep(r, f)
  PROVE  FileInv'
<1> USE PipelineFacts
<1>1. /\ \A s \in Runs \ {r} : run[s].pc = "idle"
      /\ \A s \in Runs \ {r}, g \in Files : job[s][g].st = "off" /\ job'[s][g].st = "off"
      /\ \A g \in Files : job[r][g].st \in Pairing \cup Compressing => job[r][g].base \in Files
  BY DEF OthersRest, JobType
<1>2. /\ run[r].pc = "work"
      /\ UNCHANGED <<uploaded, delta, run>>
      /\ job[r][f].st \in {"queued", "pairing"}
      /\ StartSingle(r, f) \/ job[r][f].st = "pairing"
  BY DEF SingleStep, StartSingle, PairWithBase, StampFull, MarkFullAsBase, KeepFull,
         SingleFails, At
<1>3. row[f].kind = "full" /\ row[f].status \in {"pending", "error"}
  BY <1>2 DEF FileInv, JobInv, JobOK, Unsettled, Pairing
<1>4. SeenInv'
  BY <1>1, <1>2 DEF SeenInv
<1>5. ASSUME \A g \in Files \ {f} : job'[r][g] = job[r][g],
             job'[r][f].st \in Finished \cup Pairing
      PROVE  GroupInv'
  <2>1. job'[r][f].st \notin {"queued", "stamped", "off", "joined"}
    BY <1>5 DEF Finished, Pairing
  <2>2. CASE StartSingle(r, f)
    <3>1. \A g \in Files \ {f} : GroupOf[g] = GroupOf[f] => job[r][g].st = "off"
      BY <2>2 DEF StartSingle, At, Alone, Members
    <3>2. QED
      BY <1>1, <1>5, <2>1, <3>1 DEF FileInv, GroupInv
  <2>3. CASE job[r][f].st = "pairing"
    <3>1. \A g \in Files \ {f} : GroupOf[g] = GroupOf[f] => job[r][g].st = "off"
      BY <2>3 DEF FileInv, GroupInv
    <3>2. QED
      BY <1>1, <1>5, <2>1, <3>1 DEF FileInv, GroupInv
  <2>4. QED
    BY <1>2, <2>2, <2>3
<1>6. CASE PairWithBase(r, f)
  <2>1. PICK b \in Files : /\ row[b].kind = "base" /\ GroupOf[b] = GroupOf[f]
                           /\ job' = [job EXCEPT ![r][f] = Job("ready", b, "gone")]
    BY <1>6 DEF PairWithBase, BestCandidate, Candidates
  <2>2. /\ UNCHANGED <<disk, row>>
        /\ job'[r][f].st = "ready" /\ job'[r][f].base = b
        /\ \A g \in Files \ {f} : job'[r][g] = job[r][g]
    BY <1>6, <2>1, JobFields DEF PairWithBase, TypeOK
  <2>3. RegisteredInv' /\ BaseInv' /\ DeltaInv' /\ OnDiskInv'
    BY <1>1, <1>2, <2>2, SameFiles
  <2>4. JobInv'
    <3>1. \A b_1 \in Files : KeepsBase(b_1)
      BY <2>2 DEF KeepsBase, IsBase
    <3>2. \A g \in Files \ {f} : Untouched(r, g)
      BY <1>1, <1>2, <2>2, <3>1 DEF FileInv, JobInv, JobOK, Untouched, Present
    <3>3. JobOK(r, f)'
      BY <1>2, <1>3, <2>1, <2>2 DEF JobOK, IsBase, Compressing
    <3>4. QED
      BY <1>2, <3>2, <3>3, OneJob
  <2>5. GroupInv'
    BY <1>5, <2>2 DEF Pairing
  <2>6. QED
    BY <1>4, <2>3, <2>4, <2>5 DEF FileInv
<1>7. CASE StampFull(r, f)
  <2>1. PICK b \in Files : /\ BestCandidate(f, b) /\ row[b].kind = "full" /\ Present(b)
                           /\ disk' = [disk EXCEPT ![b] = Preprocessed(@)]
                           /\ job' = [job EXCEPT ![r][f] = Job("pairing", b, "gone")]
    BY <1>7 DEF StampFull
  <2>2. row[b].status = "done" /\ GroupOf[b] = GroupOf[f]
    BY <2>1 DEF BestCandidate, Candidates
  <2>3. /\ UNCHANGED row
        /\ disk'[b] = Preprocessed(disk[b])
        /\ \A g \in Files \ {b} : disk'[g] = disk[g]
    BY <1>7, <2>1 DEF StampFull, TypeOK
  <2>4. /\ job'[r][f].st = "pairing" /\ job'[r][f].base = b
        /\ \A g \in Files \ {f} : job'[r][g] = job[r][g]
    BY <2>1, JobFields DEF TypeOK
  <2>5. /\ disk'[b] \in BaseForms /\ Present(b)'
        /\ disk'[b] = "zstd" => CompressBase
    BY <2>1, <2>3, Rewritten DEF Present
  <2>6. RegisteredInv' /\ BaseInv'
    BY <1>2, <2>1, <2>3, <2>5 DEF FileInv, RegisteredInv, BaseInv, Present
  <2>7. DeltaInv'
    BY <1>2, <2>1, <2>3 DEF FileInv, DeltaInv, IsBase, Present, RestoreForm
  <2>8. OnDiskInv'
    <3>1. \A g \in Files : /\ Present(g) => Present(g)'
                           /\ job[r][g].st = "removed" => job'[r][g].st = "removed"
      BY <1>2, <2>3, <2>4, <2>5 DEF Present
    <3>2. QED
      BY <1>2, <2>3, <3>1, StillThere
  <2>9. JobInv'
    <3>1. \A c \in Files : KeepsBase(c)
      BY <2>1, <2>3, <2>5 DEF KeepsBase, IsBase
    <3>2. \A g \in Files \ {f} : Untouched(r, g)
      <4>1. ASSUME NEW g \in Files \ {f}, job[r][g].st = "stamped" PROVE g # b
        BY <2>2, <4>1 DEF FileInv, JobInv, JobOK, Unsettled
      <4>2. \A g \in Files : Present(g)' => Present(g)
        BY <2>1, <2>3 DEF Present
      <4>3. QED
        BY <1>1, <1>2, <2>3, <2>4, <3>1, <4>1, <4>2 DEF FileInv, JobInv, JobOK, Untouched
    <3>3. JobOK(r, f)'
      BY <1>2, <1>3, <2>1, <2>2, <2>3, <2>4, <2>5 DEF JobOK, Compressing
    <3>4. QED
      BY <1>2, <3>2, <3>3, OneJob
  <2>10. GroupInv'
    BY <1>5, <2>4 DEF Pairing
  <2>11. QED
    BY <1>4, <2>6, <2>7, <2>8, <2>9, <2>10 DEF FileInv
<1>8. CASE MarkFullAsBase(r, f)
  <2> DEFINE b == job[r][f].base
  <2>1. /\ job[r][f].st = "pairing"
        /\ b \in Files /\ disk[b] \in BaseForms /\ GroupOf[b] = GroupOf[f]
        /\ row[b].kind \in {"full", "base"} /\ row[b].status = "done"
        /\ b # f
    BY <1>3, <1>8 DEF MarkFullAsBase, At, FileInv, JobInv, JobOK
  <2>2. /\ UNCHANGED disk
        /\ job'[r][f].st = "ready" /\ job'[r][f].base = b
        /\ \A g \in Files \ {f} : job'[r][g] = job[r][g]
    BY <1>8, GotoEffect DEF MarkFullAsBase
  <2>3. row' = [row EXCEPT ![b] = MarkedDone(row[b], "base", None, disk[b])] /\ Present(b)
    BY <1>8 DEF MarkFullAsBase
  <2> HIDE DEF b
  <2>4. /\ row'[b].kind = "base" /\ row'[b].status = "done"
        /\ \A g \in Files \ {b} : row'[g] = row[g]
    BY <2>1, <2>3, RowFields DEF TypeOK
  <2>5. RegisteredInv' /\ BaseInv'
    BY <1>2, <2>1, <2>2, <2>3, <2>4 DEF FileInv, RegisteredInv, BaseInv, Present
  <2>6. DeltaInv'
    BY <1>2, <2>1, <2>2, <2>4 DEF FileInv, DeltaInv, IsBase, Present, RestoreForm
  <2>7. OnDiskInv'
    <3>1. \A g \in Files : /\ Present(g) => Present(g)'
                           /\ row[g].kind = "delta" => row'[g].kind = "delta"
                           /\ job[r][g].st = "removed" => job'[r][g].st = "removed"
      BY <2>1, <2>2, <2>4 DEF Present
    <3>2. QED
      BY <1>2, <3>1, StillThere
  <2>8. JobInv'
    <3>1. \A c \in Files : KeepsBase(c)
      BY <2>1, <2>2, <2>4 DEF KeepsBase, IsBase
    <3>2. \A g \in Files \ {f} : Untouched(r, g)
      <4>1. ASSUME NEW g \in Files \ {f},
                   job[r][g].st \in Unsettled \cup {"base", "joined", "failed"}
            PROVE  g # b \/ row[g].kind = "base"
        BY <2>1, <4>1 DEF FileInv, JobInv, JobOK
      <4>2. ASSUME NEW g \in Files \ {f}, job[r][g].st \in Unsettled \cup {"failed"}
            PROVE  g # b
        BY <2>1, <4>2 DEF FileInv, JobInv, JobOK
      <4>3. QED
        BY <1>1, <1>2, <2>2, <2>4, <3>1, <4>1, <4>2 DEF FileInv, JobInv, JobOK, Untouched, Present
    <3>3. JobOK(r, f)'
      BY <1>2, <1>3, <2>1, <2>2, <2>4 DEF JobOK, IsBase, Compressing
    <3>4. QED
      BY <1>2, <3>2, <3>3, OneJob
  <2>9. GroupInv'
    BY <1>5, <2>2 DEF Pairing
  <2>10. QED
    BY <1>4, <2>5, <2>6, <2>7, <2>8, <2>9 DEF FileInv
<1>9. CASE KeepFull(r, f)
  <2>1. /\ UNCHANGED disk /\ Present(f)
        /\ job'[r][f].st = "done"
        /\ \A g \in Files \ {f} : job'[r][g] = job[r][g]
    BY <1>9, GotoEffect DEF KeepFull
  <2>2. /\ row'[f].kind = "full"
        /\ \A g \in Files \ {f} : row'[g] = row[g]
    BY <1>9, RowFields DEF KeepFull, TypeOK
  <2>3. RegisteredInv' /\ BaseInv'
    BY <1>2, <1>3, <2>1, <2>2 DEF FileInv, RegisteredInv, BaseInv, Present
  <2>4. DeltaInv'
    BY <1>2, <1>3, <2>1, <2>2 DEF FileInv, DeltaInv, IsBase, Present, RestoreForm
  <2>5. OnDiskInv'
    BY <1>2, <1>3, <2>1, <2>2, StillThere DEF Present
  <2>6. JobInv'
    <3>1. \A b \in Files : KeepsBase(b)
      BY <1>3, <2>1, <2>2 DEF KeepsBase, IsBase
    <3>2. \A g \in Files \ {f} : Untouched(r, g)
      BY <1>1, <1>2, <2>1, <2>2, <3>1 DEF FileInv, JobInv, JobOK, Untouched, Present
    <3>3. JobOK(r, f)'
      BY <1>2, <2>1, <2>2 DEF JobOK, Unsettled, Pairing, Compressing
    <3>4. QED
      BY <1>2, <3>2, <3>3, OneJob
  <2>7. GroupInv'
    BY <1>5, <2>1 DEF Finished
  <2>8. QED
    BY <1>4, <2>3, <2>4, <2>5, <2>6, <2>7 DEF FileInv
<1>10. CASE SingleFails(r, f)
  <2>1. /\ job'[r][f].st = "failed"
        /\ \A g \in Files \ {f} : job'[r][g] = job[r][g]
    BY <1>10, GotoEffect DEF SingleFails
  <2>2. /\ row'[f].kind = "full" /\ row'[f].status = "error"
        /\ \A g \in Files \ {f} : row'[g] = row[g]
    BY <1>3, <1>10, RowFields DEF SingleFails, TypeOK
  <2>3. \A g \in Files : \/ disk'[g] = disk[g]
                         \/ /\ row[g].kind = "full" /\ row[g].status = "done" /\ Present(g)
                            /\ disk'[g] \in HalfPreprocessed(disk[g])
    <3>1. \/ UNCHANGED disk
          \/ \E b \in Files : /\ row[b].kind = "full" /\ row[b].status = "done" /\ Present(b)
                              /\ \E x \in HalfPreprocessed(disk[b]) :
                                   disk' = [disk EXCEPT ![b] = x]
      BY <1>10 DEF SingleFails, BestCandidate, Candidates
    <3>2. QED
      BY <3>1 DEF TypeOK
  <2>4. \A g \in Files : /\ Present(g)' <=> Present(g)
                         /\ disk'[g] \in {"gone", "orig"} \cup BaseForms
                         /\ disk'[g] = "zstd" => CompressBase
                         /\ disk[g] \in BaseForms => disk'[g] \in BaseForms
    <3> SUFFICES ASSUME NEW g \in Files
                 PROVE  /\ Present(g)' <=> Present(g)
                        /\ disk'[g] \in {"gone", "orig"} \cup BaseForms
                        /\ disk'[g] = "zstd" => CompressBase
                        /\ disk[g] \in BaseForms => disk'[g] \in BaseForms
      OBVIOUS
    <3>1. CASE disk'[g] = disk[g]
      BY <3>1 DEF FileInv, RegisteredInv, Present
    <3>2. CASE Present(g) /\ disk'[g] \in HalfPreprocessed(disk[g])
      BY <3>2, Rewritten DEF Present
    <3>3. QED
      BY <2>3, <3>1, <3>2
  <2>5. RegisteredInv'
    BY <1>2, <1>3, <2>2, <2>4 DEF FileInv, RegisteredInv
  <2>6. BaseInv'
    BY <2>2, <2>3 DEF FileInv, BaseInv
  <2>7. DeltaInv'
    BY <1>2, <1>3, <2>2, <2>3 DEF FileInv, DeltaInv, IsBase, Present, RestoreForm
  <2>8. OnDiskInv'
    BY <1>2, <1>3, <2>1, <2>2, <2>4, StillThere
  <2>9. JobInv'
    <3>1. \A b \in Files : KeepsBase(b)
      BY <1>3, <2>2, <2>3, <2>4 DEF KeepsBase, IsBase
    <3>2. \A g \in Files \ {f} : Untouched(r, g)
      <4>1. ASSUME NEW g \in Files \ {f}, job[r][g].st = "stamped" PROVE disk'[g] = disk[g]
        BY <2>3, <4>1 DEF FileInv, JobInv, JobOK, Unsettled
      <4>2. QED
        BY <1>1, <1>2, <2>1, <2>2, <2>4, <3>1, <4>1 DEF FileInv, JobInv, JobOK, Untouched
    <3>3. JobOK(r, f)'
      BY <1>2, <2>1, <2>2 DEF JobOK, Unsettled, Pairing, Compressing
    <3>4. QED
      BY <1>2, <3>2, <3>3, OneJob
  <2>10. GroupInv'
    BY <1>5, <2>1 DEF Finished
  <2>11. QED
    BY <1>4, <2>5, <2>6, <2>7, <2>8, <2>9, <2>10 DEF FileInv
<1>11. QED
  BY <1>6, <1>7, <1>8, <1>9, <1>10 DEF SingleStep

(* compressOne up to the record of the delta, as long as no original is    *)
(* removed against a compressed base.                                      *)
LEMMA CompressStable ==
  ASSUME PipelineAssumption, TypeOK, FileInv,
         NEW r \in Runs, OthersRest(r), NEW f \in Files, CompressStep(r, f), ~CompressedUsed
  PROVE  FileInv'
<1> USE PipelineFacts
<1> DEFINE b == job[r][f].base
<1>1. /\ \A s \in Runs \ {r} : run[s].pc = "idle"
      /\ \A s \in Runs \ {r}, g \in Files : job[s][g].st = "off" /\ job'[s][g].st = "off"
      /\ \A g \in Files : job[r][g].st \in Pairing \cup Compressing => job[r][g].base \in Files
  BY DEF OthersRest, JobType
<1>2. /\ run[r].pc = "work" /\ UNCHANGED <<uploaded, run>>
      /\ job[r][f].st \in {"ready"} \cup Compressing
  BY DEF CompressStep, CopyTarget, MayCompress, Encode, Verify, RemoveOriginal, MarkDelta, At,
         Compressing
<1>3. /\ row[f].kind = "full" /\ row[f].status \in {"pending", "error"}
      /\ IsBase(b) /\ b # f /\ GroupOf[b] = GroupOf[f]
      /\ job[r][f].st \in Compressing => job[r][f].work \in Forms
  BY <1>2 DEF FileInv, JobInv, JobOK, Unsettled, Pairing, IsBase
<1>4. SeenInv'
  BY <1>1, <1>2 DEF SeenInv
<1>5. ASSUME \A g \in Files \ {f} : job'[r][g] = job[r][g],
             job'[r][f].st \in Compressing \cup Finished
      PROVE  GroupInv'
  <2>1. /\ job[r][f].st \notin Finished \cup {"queued", "stamped", "joined", "pairing", "off"}
        /\ job'[r][f].st \notin {"queued", "stamped", "joined", "pairing", "off"}
    BY <1>2, <1>5 DEF Finished, Compressing
  <2>2. QED
    BY <1>1, <1>5, <2>1 DEF FileInv, GroupInv
<1> HIDE DEF b
<1>6. CASE CopyTarget(r, f) \/ Verify(r, f)
  <2>1. /\ UNCHANGED <<disk, delta, row>>
        /\ \A g \in Files \ {f} : job'[r][g] = job[r][g]
        /\ job[r][f].st \in {"ready", "encoded"}
    <3>1. job \in [Runs -> [Files -> JobType]]
      BY DEF TypeOK
    <3>2. QED
      BY <1>6, <3>1, GotoEffect DEF CopyTarget, MayCompress, Verify, At
  <2>2. /\ job'[r][f].st \in {"copied", "verified"} /\ job'[r][f].base = b
        /\ job'[r][f].work \in Forms
        /\ job'[r][f].st = "verified" => delta[f] = Delta(b, disk[b], job'[r][f].work)
    <3>1. CASE CopyTarget(r, f)
      <4>1. /\ job'[r][f] = [job[r][f] EXCEPT !.st = "copied", !.work = Preprocessed(disk[f])]
            /\ Present(f)
        BY <3>1 DEF CopyTarget, TypeOK
      <4>2. Preprocessed(disk[f]) \in Forms
        BY <4>1, Rewritten, FormFacts DEF Known, Forms, BaseForms
      <4>3. QED
        BY <4>1, <4>2 DEF JobType, b
    <3>2. CASE Verify(r, f)
      BY <1>3, <3>2, GotoEffect DEF Verify, VerifySucceeds, Decodes, At, b, Compressing
    <3>3. QED
      BY <1>6, <3>1, <3>2
  <2>3. RegisteredInv' /\ BaseInv' /\ DeltaInv' /\ OnDiskInv'
    <3>1. \A s \in Runs, g \in Files : job[s][g].st = "removed" => job'[s][g].st = "removed"
      BY <1>1, <2>1
    <3>2. QED
      BY <1>2, <2>1, <3>1, SameFiles
  <2>4. JobInv'
    <3>1. \A c \in Files : KeepsBase(c)
      BY <2>1 DEF KeepsBase, IsBase
    <3>2. \A g \in Files \ {f} : Untouched(r, g)
      BY <1>1, <2>1, <3>1 DEF FileInv, JobInv, JobOK, Untouched, Present
    <3>3. JobOK(r, f)'
      BY <1>2, <1>3, <2>1, <2>2 DEF JobOK, IsBase, Unsettled, Compressing
    <3>4. QED
      BY <1>2, <3>2, <3>3, OneJob
  <2>5. GroupInv'
    BY <1>5, <2>1, <2>2 DEF Compressing
  <2>6. QED
    BY <1>4, <2>3, <2>4, <2>5 DEF FileInv
<1>7. CASE Encode(r, f)
  <2>1. /\ UNCHANGED <<disk, row>>
        /\ \A g \in Files \ {f} : delta'[g] = delta[g]
        /\ job[r][f].st = "copied"
        /\ job'[r][f].st = "encoded" /\ job'[r][f].base = b
        /\ job'[r][f].work = job[r][f].work
        /\ \A g \in Files \ {f} : job'[r][g] = job[r][g]
    BY <1>7, GotoEffect DEF Encode, At, TypeOK, b
  <2>2. RegisteredInv' /\ BaseInv'
    BY <1>2, <2>1 DEF FileInv, RegisteredInv, BaseInv, Present
  <2>3. DeltaInv'
    BY <1>2, <1>3, <2>1 DEF FileInv, DeltaInv, IsBase, Present, RestoreForm
  <2>4. OnDiskInv'
    BY <1>2, <2>1, StillThere DEF Present
  <2>5. JobInv'
    <3>1. \A c \in Files : KeepsBase(c)
      BY <2>1 DEF KeepsBase, IsBase
    <3>2. \A g \in Files \ {f} : Untouched(r, g)
      BY <1>1, <2>1, <3>1 DEF FileInv, JobInv, JobOK, Untouched, Present
    <3>3. JobOK(r, f)'
      BY <1>2, <1>3, <2>1 DEF JobOK, IsBase, Unsettled, Compressing
    <3>4. QED
      BY <1>2, <3>2, <3>3, OneJob
  <2>6. GroupInv'
    BY <1>5, <2>1 DEF Compressing
  <2>7. QED
    BY <1>4, <2>2, <2>3, <2>4, <2>5, <2>6 DEF FileInv
<1>8. CASE RemoveOriginal(r, f)
  <2>1. /\ UNCHANGED <<delta, row>>
        /\ disk'[f] = "gone" /\ \A g \in Files \ {f} : disk'[g] = disk[g]
        /\ job[r][f].st = "verified"
        /\ job'[r][f].st = "removed" /\ job'[r][f].base = b
        /\ job'[r][f].work = job[r][f].work
        /\ \A g \in Files \ {f} : job'[r][g] = job[r][g]
    BY <1>8, GotoEffect DEF RemoveOriginal, At, TypeOK, b
  <2>2. RegisteredInv' /\ BaseInv'
    BY <1>2, <1>3, <2>1 DEF FileInv, RegisteredInv, BaseInv, Present
  <2>3. DeltaInv'
    BY <1>2, <1>3, <2>1 DEF FileInv, DeltaInv, IsBase, Present, RestoreForm
  <2>4. OnDiskInv'
    <3>1. \A g \in Files : /\ Present(g) => Present(g)' \/ job'[r][g].st = "removed"
                           /\ job[r][g].st = "removed" => job'[r][g].st = "removed"
      BY <2>1 DEF Present
    <3>2. QED
      BY <1>2, <2>1, <3>1, StillThere
  <2>5. JobInv'
    <3>1. \A c \in Files : KeepsBase(c)
      BY <1>3, <2>1 DEF KeepsBase, IsBase
    <3>2. \A g \in Files \ {f} : Untouched(r, g)
      BY <1>1, <2>1, <3>1 DEF FileInv, JobInv, JobOK, Untouched, Present
    <3>3. JobOK(r, f)'
      <4>1. delta[f] = Delta(b, disk[b], job[r][f].work) /\ job[r][f].work \in Forms
        BY <1>3, <2>1 DEF FileInv, JobInv, JobOK, Compressing, b
      <4>2. PICK c \in Files : c = b
        BY <1>3 DEF IsBase
      <4>3. disk[c] # "zstd" /\ disk'[c] = disk[c] /\ RestoreForm(c)' = disk[c]
        BY <1>3, <2>1, <4>2, RestoreFacts DEF CompressedUsed, b
      <4>4. QED
        BY <1>2, <1>3, <2>1, <4>1, <4>2, <4>3
           DEF JobOK, IsBase, Present, RestoreForm, Unsettled, Pairing, Compressing
    <3>4. QED
      BY <1>2, <3>2, <3>3, OneJob
  <2>6. GroupInv'
    BY <1>5, <2>1 DEF Compressing
  <2>7. QED
    BY <1>4, <2>2, <2>3, <2>4, <2>5, <2>6 DEF FileInv
<1>9. CASE MarkDelta(r, f)
  <2>1. /\ UNCHANGED <<disk, delta>>
        /\ job[r][f].st = "removed" /\ job'[r][f].st = "done"
        /\ \A g \in Files \ {f} : job'[r][g] = job[r][g]
    BY <1>9, GotoEffect DEF MarkDelta, At
  <2>2. /\ row'[f].kind = "delta" /\ row'[f].status = "done" /\ row'[f].base = b
        /\ row'[f].sha = job[r][f].work
        /\ \A g \in Files \ {f} : row'[g] = row[g]
    BY <1>9, RowFields DEF MarkDelta, TypeOK, b
  <2>3. /\ ~Present(f) /\ delta[f] = Delta(b, RestoreForm(b), job[r][f].work)
        /\ job[r][f].work \in Forms
    BY <1>3, <2>1 DEF FileInv, JobInv, JobOK, Compressing, b
  <2>4. RegisteredInv' /\ BaseInv'
    BY <1>2, <1>3, <2>1, <2>2 DEF FileInv, RegisteredInv, BaseInv, Present
  <2>5. DeltaInv'
    BY <1>2, <1>3, <2>1, <2>2, <2>3 DEF FileInv, DeltaInv, IsBase, Present, RestoreForm
  <2>6. OnDiskInv'
    <3>1. \A g \in Files : /\ Present(g) => Present(g)'
                           /\ row[g].kind = "delta" => row'[g].kind = "delta"
                           /\ job[r][g].st = "removed"
                                => job'[r][g].st = "removed" \/ row'[g].kind = "delta"
      BY <2>1, <2>2 DEF Present
    <3>2. QED
      BY <1>2, <3>1, StillThere
  <2>7. JobInv'
    <3>1. \A c \in Files : KeepsBase(c)
      BY <1>3, <2>1, <2>2 DEF KeepsBase, IsBase
    <3>2. \A g \in Files \ {f} : Untouched(r, g)
      BY <1>1, <2>1, <2>2, <3>1 DEF FileInv, JobInv, JobOK, Untouched, Present
    <3>3. JobOK(r, f)'
      BY <1>2, <2>1 DEF JobOK, Unsettled, Pairing, Compressing
    <3>4. QED
      BY <1>2, <3>2, <3>3, OneJob
  <2>8. GroupInv'
    BY <1>5, <2>1 DEF Finished
  <2>9. QED
    BY <1>4, <2>4, <2>5, <2>6, <2>7, <2>8 DEF FileInv
<1>10. QED
  BY <1>6, <1>7, <1>8, <1>9 DEF CompressStep

(* A target that fails keeps its original, as long as the record of its    *)
(* delta is not what fails.                                                *)
LEMMA FailStable ==
  ASSUME PipelineAssumption, TypeOK, FileInv,
         NEW r \in Runs, OthersRest(r), NEW f \in Files, FailStep(r, f), ~RemovalCutShort
  PROVE  FileInv'
<1> USE PipelineFacts
<1>1. /\ \A s \in Runs \ {r} : run[s].pc = "idle"
      /\ \A s \in Runs \ {r}, g \in Files : job[s][g].st = "off" /\ job'[s][g].st = "off"
      /\ \A g \in Files : job[r][g].st \in Pairing \cup Compressing => job[r][g].base \in Files
  BY DEF OthersRest, JobType
<1>2. /\ run[r].pc = "work" /\ UNCHANGED <<uploaded, disk, run>>
      /\ job[r][f].st \in {"ready"} \cup Compressing
      /\ FailTarget(r, f)
      /\ \A g \in Files \ {f} : delta'[g] = delta[g]
  BY DEF FailStep, CopyFails, MayCompress, EncodeFails, VerifyFails, RemoveFails,
         MarkDeltaFails, FailTarget, At, TypeOK, Compressing
<1>3. row[f].kind = "full" /\ row[f].status \in {"pending", "error"}
  BY <1>2 DEF FileInv, JobInv, JobOK, Unsettled, Pairing
<1>4. /\ job'[r][f].st = "failed"
      /\ \A g \in Files \ {f} : job'[r][g] = job[r][g]
  BY <1>2, GotoEffect DEF FailTarget
<1>5. job[r][f].st # "removed"
  BY <1>4 DEF RemovalCutShort
<1>6. /\ row'[f].kind = "full" /\ row'[f].status \in {"pending", "error"}
      /\ row[f].status # "absent"
      /\ \A g \in Files \ {f} : row'[g] = row[g]
  BY <1>2, <1>3, RowFields DEF FailTarget, TypeOK
<1>7. RegisteredInv' /\ BaseInv'
  BY <1>2, <1>3, <1>6 DEF FileInv, RegisteredInv, BaseInv, Present
<1>8. DeltaInv'
  BY <1>2, <1>3, <1>6 DEF FileInv, DeltaInv, IsBase, Present, RestoreForm
<1>9. OnDiskInv'
  BY <1>2, <1>3, <1>4, <1>5, <1>6, StillThere DEF Present
<1>10. SeenInv'
  BY <1>1, <1>2 DEF SeenInv
<1>11. JobInv'
  <2>1. \A c \in Files : KeepsBase(c)
    BY <1>2, <1>3, <1>6 DEF KeepsBase, IsBase
  <2>2. \A g \in Files \ {f} : Untouched(r, g)
    BY <1>1, <1>2, <1>4, <1>6, <2>1 DEF FileInv, JobInv, JobOK, Untouched, Present
  <2>3. JobOK(r, f)'
    BY <1>2, <1>4, <1>6 DEF JobOK, Unsettled, Pairing, Compressing
  <2>4. QED
    BY <1>2, <2>2, <2>3, OneJob
<1>12. GroupInv'
  <2>1. job[r][f].st \notin {"queued", "stamped", "joined", "pairing", "off"}
    BY <1>2 DEF Compressing
  <2>2. QED
    BY <1>1, <1>4, <2>1 DEF FileInv, GroupInv, Finished
<1>13. QED
  BY <1>7, <1>8, <1>9, <1>10, <1>11, <1>12 DEF FileInv

(* A run that ends has done its jobs, and one that is given up had none; a *)
(* crash ends them all.                                                    *)
LEMMA EndStable ==
  ASSUME PipelineAssumption, TypeOK, FileInv, ~RemovalCutShort,
         Crash \/ \E r \in Runs : OthersRest(r) /\ (FinishRun(r) \/ RunAborts(r))
  PROVE  FileInv'
<1> DEFINE AtRest(r) == run'[r].pc = "idle" /\ \A f \in Files : job'[r][f].st = "off"
<1>1. NoJobs \in [Files -> JobType] /\ \A f \in Files : NoJobs[f].st = "off" /\ IdleRun.pc = "idle"
  BY JobTypes, JobFields DEF NoJobs, NoJob, IdleRun
<1>2. UNCHANGED <<uploaded, disk, delta, row>> /\ \A r \in Runs : AtRest(r)
  <2>1. CASE Crash
    BY <1>1, <2>1 DEF Crash, IdleRun
  <2>2. ASSUME NEW r \in Runs, OthersRest(r), FinishRun(r) \/ RunAborts(r)
        PROVE  UNCHANGED <<uploaded, disk, delta, row>> /\ \A s \in Runs : AtRest(s)
    <3>1. run \in [Runs -> RunType] /\ job \in [Runs -> [Files -> JobType]]
      BY DEF TypeOK
    <3>2. UNCHANGED <<uploaded, disk, delta, row>> /\ run'[r].pc = "idle"
      BY <2>2, <3>1 DEF FinishRun, RunAborts, IdleRun
    <3>3. \A f \in Files : job'[r][f].st = "off"
      <4>1. CASE FinishRun(r)
        BY <1>1, <3>1, <4>1 DEF FinishRun
      <4>2. CASE RunAborts(r)
        BY <4>2 DEF RunAborts, FileInv, JobInv, JobOK
      <4>3. QED
        BY <2>2, <4>1, <4>2
    <3>4. QED
      BY <2>2, <3>2, <3>3 DEF OthersRest
  <2>3. QED
    BY <2>1, <2>2
<1>3. RegisteredInv' /\ BaseInv' /\ DeltaInv' /\ OnDiskInv'
  <2>1. \A r \in Runs, f \in Files : job[r][f].st # "removed"
    BY <1>2 DEF RemovalCutShort
  <2>2. QED
    BY <1>2, <2>1, SameFiles
<1>4. SeenInv'
  BY <1>2 DEF SeenInv
<1>5. JobInv' /\ GroupInv'
  BY <1>2 DEF JobInv, JobOK, GroupInv, Unsettled, Pairing, Compressing
<1>6. QED
  BY <1>3, <1>4, <1>5 DEF FileInv

(* A stuttering step keeps the invariant.                                  *)
LEMMA UnchangedStable == FileInv /\ UNCHANGED vars => FileInv'
<1> SUFFICES ASSUME FileInv, UNCHANGED vars PROVE FileInv'
  OBVIOUS
<1>1. RegisteredInv' /\ OnDiskInv' /\ BaseInv' /\ DeltaInv'
  BY DEF vars, FileInv, RegisteredInv, OnDiskInv, BaseInv, DeltaInv, IsBase, Present, RestoreForm
<1>2. SeenInv' /\ GroupInv'
  BY DEF vars, FileInv, SeenInv, GroupInv
<1>3. JobInv'
  BY DEF vars, FileInv, JobInv, JobOK, IsBase, Present, RestoreForm
<1>4. QED
  BY <1>1, <1>2, <1>3 DEF FileInv

(* Every step that is not a harmful one keeps the invariant, whatever the  *)
(* options, the sizes and the failures.                                    *)
LEMMA StepStable ==
  ASSUME PipelineAssumption, TypeOK, IInv, [Next /\ ~Harmful]_vars
  PROVE  IInv'
<1> USE DEF IInv
<1>1. CASE Next /\ ~Harmful
  <2> USE <1>1 DEF Harmful
  <2>1. ASSUME NEW f \in Files, Upload(f) PROVE FileInv'
    BY <2>1, UploadStable
  <2>2. ASSUME NEW r \in Runs, StartIngest(r) \/ StartBackfill(r) PROVE FileInv'
    BY <2>2, StartStable DEF StartIngest, StartBackfill
  <2>3. ASSUME NEW r \in Runs, RunStep(r) PROVE FileInv'
    <3>1. OthersRest(r)
      BY <2>3, OthersDoRest
    <3>2. CASE \E f \in Files : \/ GroupStep(r, f) \/ SingleStep(r, f)
                                \/ CompressStep(r, f) \/ FailStep(r, f)
      BY <3>1, <3>2, GroupStable, SingleStable, CompressStable, FailStable
    <3>3. QED
      BY <2>3, <3>1, <3>2, DiscoverStable, ListStable, EndStable DEF RunStep
  <2>4. CASE Crash
    BY <2>4, EndStable
  <2>5. QED
    BY <2>1, <2>2, <2>3, <2>4 DEF Next
<1>2. CASE UNCHANGED vars
  BY <1>2, UnchangedStable DEF vars, RunsOverlap
<1>3. QED
  BY <1>1, <1>2

(* A careful behaviour keeps its variables in their types.                 *)
LEMMA CarefulType == PipelineAssumption => (CarefulSpec => []TypeOK)
<1> SUFFICES ASSUME PipelineAssumption PROVE CarefulSpec => []TypeOK
  OBVIOUS
<1>1. Init => TypeOK
  BY InitType
<1>2. TypeOK /\ [Next /\ ~Harmful]_vars => TypeOK'
  BY StepType
<1>3. QED
  BY <1>1, <1>2, PTL DEF CarefulSpec

(* The inductive invariant holds as long as no harmful step is taken.      *)
THEOREM Inductive ==
  ASSUME PipelineAssumption
  PROVE  CarefulSpec => []IInv
<1>1. Init => TypeOK /\ IInv
  BY InitType, InitStable DEF IInv, Init, RunsOverlap, IdleRun
<1>2. TypeOK /\ IInv /\ [Next /\ ~Harmful]_vars => (TypeOK /\ IInv)'
  BY StepType, StepStable
<1>3. QED
  BY <1>1, <1>2, PTL DEF CarefulSpec

(* What the invariant says of an uploaded file: it is on disk or it can be *)
(* restored from its delta, whose base is on disk.                         *)
LEMMA RecoverableFacts ==
  ASSUME PipelineAssumption, TypeOK, FileInv
  PROVE  /\ Recoverable
         /\ \A f \in Files : Held(f) => f \in uploaded
         /\ \A f \in Files : Served(f) <=> Present(f) \/ row[f].kind = "delta"
<1> USE PipelineFacts
<1>1. ASSUME NEW f \in Files, row[f].kind = "delta" PROVE Served(f)
  <2>1. PICK b \in Files : b = row[f].base
    BY <1>1 DEF FileInv, DeltaInv, IsBase
  <2>2. RestoreForm(b) # "gone" /\ delta[f] = Delta(b, RestoreForm(b), row[f].sha)
    BY <1>1, <2>1, RestoreFacts DEF FileInv, DeltaInv, BaseInv, IsBase, RestoreForm, Present
  <2>3. QED
    BY <1>1, <2>1, <2>2 DEF Served, Restores, Decodes
<1>2. ASSUME NEW f \in Files PROVE Served(f) <=> Present(f) \/ row[f].kind = "delta"
  BY <1>1 DEF Served
<1>3. ASSUME NEW f \in Files, NEW r \in Runs, job[r][f].st = "removed" PROVE Held(f)
  <2>1. PICK b, work : b = job[r][f].base /\ work = job[r][f].work
    OBVIOUS
  <2>2. /\ At(r, f, "removed") /\ b \in Files /\ disk[b] \in BaseForms
        /\ delta[f] = Delta(b, RestoreForm(b), work)
    BY <1>3, <2>1 DEF At, FileInv, JobInv, JobOK, BaseInv, IsBase, Compressing, RestoreForm, Present
  <2>3. Restores(f, b, work)
    BY <2>2, RestoreFacts DEF Restores, Decodes
  <2>4. QED
    BY <2>1, <2>2, <2>3 DEF Held
<1>4. Recoverable
  BY <1>2, <1>3 DEF Recoverable, Held, FileInv, OnDiskInv, TypeOK
<1>5. ASSUME NEW f \in Files, f \notin uploaded PROVE ~Held(f)
  <2>1. ~Present(f) /\ row[f].status = "absent"
    BY <1>5 DEF FileInv, RegisteredInv
  <2>2. row[f].kind # "delta" /\ \A r \in Runs : job[r][f].st # "removed"
    BY <2>1 DEF FileInv, DeltaInv, JobInv, JobOK, Unsettled, Compressing
  <2>3. QED
    BY <2>1, <2>2 DEF Held, Served, At
<1>6. QED
  BY <1>2, <1>4, <1>5

(* No file is ever lost unless two runs overlap, a removal is cut short, an*)
(* original is removed against a compressed base or a base is taken:       *)
(* whatever the options, the sizes, the failures and the crashes,          *)
(* compressOne and RestoreToCacheWithOpts fit together for any number of   *)
(* files, directories and groups.                                          *)
THEOREM NoFileLost ==
  ASSUME PipelineAssumption
  PROVE  CarefulSpec => []Recoverable
<1>1. TypeOK /\ IInv => Recoverable
  BY RecoverableFacts DEF IInv
<1>2. CarefulSpec => []TypeOK
  BY CarefulType
<1>3. CarefulSpec => []IInv
  BY Inductive
<1>4. QED
  BY <1>1, <1>2, <1>3, PTL

(* Whatever came before: from a state in which IInv holds, no step of the  *)
(* pipeline, failures and crashes included, loses a file unless it is one  *)
(* of the harmful ones.                                                    *)
THEOREM NoOtherStepLoses ==
  ASSUME PipelineAssumption
  PROVE  Spec => OnlyHarmLoses
<1>1. TypeOK /\ [Next]_vars => [IInv /\ ~Harmful => TypeOK' /\ IInv']_vars
  BY StepType, StepStable
<1>2. TypeOK /\ IInv => Recoverable
  BY RecoverableFacts DEF IInv
<1>3. Spec => []TypeOK
  BY TypeCorrect
<1>4. QED
  BY <1>1, <1>2, <1>3, PTL DEF Spec, OnlyHarmLoses

-----------------------------------------------------------------------------
(* Apart from Upload, RemoveOriginal and MarkDelta no step changes what is *)
(* served: it rewrites only files that stay on disk, and marks only files  *)
(* that are no deltas; a base it only rewrites with CompressBase.          *)
Quiet ==
  \A g \in Files :
    /\ \/ disk'[g] = disk[g]
       \/ Present(g) /\ Present(g)' /\ (row[g].kind = "full" \/ CompressBase)
    /\ row'[g] = row[g] \/ (row[g].kind # "delta" /\ row'[g].kind # "delta")

(* A step that is not of the work on a delta leaves deltas and bases alone.*)
LEMMA QuietStep ==
  ASSUME PipelineAssumption, TypeOK, FileInv, NEW r \in Runs,
         RunStep(r), \A f \in Files : ~RemoveOriginal(r, f) /\ ~MarkDelta(r, f)
  PROVE  Quiet /\ UNCHANGED uploaded
<1> USE PipelineFacts
<1>1. ASSUME NEW f \in Files, Present(f), NEW x,
             x = Preprocessed(disk[f]) \/ x \in HalfPreprocessed(disk[f]),
             disk' = [disk EXCEPT ![f] = x]
      PROVE  /\ Present(f)'
             /\ \A g \in Files : disk'[g] = disk[g] \/ g = f
  BY <1>1, Rewritten DEF TypeOK, Present
<1>2. ASSUME NEW f \in Files, GroupStep(r, f) PROVE Quiet /\ UNCHANGED uploaded
  <2>1. /\ UNCHANGED uploaded
        /\ job[r][f].st \in {"queued", "stamped", "base", "joined"}
        /\ job[r][f].st \in {"queued", "stamped"} => row[f].kind = "full"
        /\ job[r][f].st = "joined" => row[f].kind = "base" /\ CompressBase
    <3>1. /\ UNCHANGED uploaded
          /\ job[r][f].st \in {"queued", "stamped", "base", "joined"}
      BY <1>2 DEF GroupStep, StampBase, MarkBase, AbortGroup, JoinTargets, CompressInPlace,
                  CompressInPlaceFails, At
    <3>2. QED
      BY <3>1 DEF FileInv, JobInv, JobOK, Unsettled
  <2>2. CASE StampBase(r, f)
    BY <1>1, <2>1, <2>2 DEF StampBase, At, Quiet
  <2>3. CASE MarkBase(r, f)
    BY <2>1, <2>3, RowFields DEF MarkBase, At, Quiet, TypeOK
  <2>4. CASE AbortGroup(r, f)
    <3>1. \/ UNCHANGED disk
          \/ /\ Present(f)
             /\ \E x \in HalfPreprocessed(disk[f]) : disk' = [disk EXCEPT ![f] = x]
      BY <2>4 DEF AbortGroup
    <3>2. row' = [row EXCEPT ![f] = MarkedError(row[f])] /\ row[f].kind = "full"
      BY <2>1, <2>4 DEF AbortGroup, At
    <3>3. QED
      BY <1>1, <2>1, <3>1, <3>2, RowFields DEF Quiet, TypeOK
  <2>5. CASE JoinTargets(r, f)
    <3>1. \A g \in Files : \/ row'[g] = row[g]
                           \/ row'[g] = MarkedError(row[g]) /\ row[g].kind # "delta"
      BY <2>5 DEF JoinTargets, FileInv, JobInv, JobOK
    <3>2. QED
      BY <2>1, <2>5, <3>1, RowFields DEF Quiet, JoinTargets
  <2>6. CASE CompressInPlace(r, f)
    BY <2>1, <2>6 DEF CompressInPlace, At, Quiet, TypeOK, Present
  <2>7. CASE CompressInPlaceFails(r, f)
    BY <2>1, <2>7, RowFields DEF CompressInPlaceFails, At, Quiet, TypeOK
  <2>8. QED
    BY <1>2, <2>2, <2>3, <2>4, <2>5, <2>6, <2>7 DEF GroupStep
<1>3. ASSUME NEW f \in Files, SingleStep(r, f) PROVE Quiet /\ UNCHANGED uploaded
  <2>1. /\ UNCHANGED uploaded
        /\ job[r][f].st \in {"queued", "pairing"} /\ row[f].kind = "full"
    <3>1. UNCHANGED uploaded /\ job[r][f].st \in {"queued", "pairing"}
      BY <1>3 DEF SingleStep, StartSingle, PairWithBase, StampFull, MarkFullAsBase, KeepFull,
                  SingleFails, At
    <3>2. QED
      BY <3>1 DEF FileInv, JobInv, JobOK, Unsettled, Pairing
  <2>2. CASE PairWithBase(r, f)
    BY <2>1, <2>2 DEF PairWithBase, Quiet
  <2>3. CASE StampFull(r, f)
    <3>1. PICK b \in Files : /\ row[b].kind = "full" /\ Present(b)
                             /\ disk' = [disk EXCEPT ![b] = Preprocessed(disk[b])]
      BY <2>3 DEF StampFull
    <3>2. UNCHANGED row
      BY <2>3 DEF StampFull
    <3>3. Present(b)' /\ \A g \in Files : disk'[g] = disk[g] \/ g = b
      BY <1>1, <3>1
    <3>4. QED
      BY <2>1, <3>1, <3>2, <3>3 DEF Quiet
  <2>4. CASE MarkFullAsBase(r, f)
    <3> DEFINE b == job[r][f].base
    <3>1. /\ b \in Files /\ row[b].kind \in {"full", "base"}
          /\ row' = [row EXCEPT ![b] = MarkedDone(row[b], "base", None, disk[b])]
          /\ UNCHANGED disk
      BY <2>4 DEF MarkFullAsBase, At, FileInv, JobInv, JobOK
    <3> HIDE DEF b
    <3>2. QED
      BY <2>1, <3>1, RowFields DEF Quiet, TypeOK
  <2>5. CASE KeepFull(r, f)
    BY <2>1, <2>5, RowFields DEF KeepFull, Quiet, TypeOK
  <2>6. CASE SingleFails(r, f)
    <3>1. \/ UNCHANGED disk
          \/ \E b \in Files : /\ row[b].kind = "full" /\ Present(b)
                              /\ \E x \in HalfPreprocessed(disk[b]) :
                                   disk' = [disk EXCEPT ![b] = x]
      BY <2>6 DEF SingleFails
    <3>2. row' = [row EXCEPT ![f] = MarkedError(row[f])]
      BY ONLY <2>6 DEF SingleFails
    <3>3. ASSUME NEW g \in Files, disk'[g] # disk[g]
          PROVE  row[g].kind = "full" /\ Present(g) /\ Present(g)'
      <4>1. PICK b \in Files : /\ row[b].kind = "full" /\ Present(b)
                               /\ \E x \in HalfPreprocessed(disk[b]) :
                                    disk' = [disk EXCEPT ![b] = x]
        BY <3>1, <3>3
      <4>2. Present(b)' /\ \A h \in Files : disk'[h] = disk[h] \/ h = b
        BY <1>1, <4>1
      <4>3. QED
        BY <3>3, <4>1, <4>2
    <3>4. \A g \in Files : \/ row'[g] = row[g]
                           \/ row[g].kind = "full" /\ row'[g].kind = "full"
      BY <2>1, <3>2, RowFields DEF TypeOK
    <3>5. QED
      BY <2>1, <3>3, <3>4 DEF Quiet
  <2>7. QED
    BY <1>3, <2>2, <2>3, <2>4, <2>5, <2>6 DEF SingleStep
<1>4. ASSUME NEW f \in Files, CompressStep(r, f) \/ FailStep(r, f)
      PROVE  Quiet /\ UNCHANGED uploaded
  <2>1. UNCHANGED <<uploaded, disk>>
    BY <1>4 DEF CompressStep, FailStep, CopyTarget, Encode, Verify, CopyFails, EncodeFails,
                VerifyFails, RemoveFails, MarkDeltaFails, FailTarget
  <2>2. row' = row \/ row' = [row EXCEPT ![f] = MarkedError(row[f])]
    BY <1>4 DEF CompressStep, FailStep, CopyTarget, Encode, Verify, CopyFails, EncodeFails,
                VerifyFails, RemoveFails, MarkDeltaFails, FailTarget
  <2>3. row[f].kind = "full"
    <3>1. job[r][f].st \in {"ready", "copied", "encoded", "verified", "removed"}
      BY <1>4 DEF CompressStep, FailStep, CopyTarget, MayCompress, Encode, Verify,
                  RemoveOriginal, MarkDelta, CopyFails, EncodeFails, VerifyFails, RemoveFails,
                  MarkDeltaFails, At
    <3>2. QED
      BY <3>1 DEF FileInv, JobInv, JobOK, Unsettled, Pairing, Compressing
  <2>4. QED
    BY <2>1, <2>2, <2>3, RowFields DEF Quiet, TypeOK
<1>5. CASE DiscoverStep(r)
  <2>1. CASE \E d \in Dirs : WalkDir(r, d)
    BY <2>1 DEF WalkDir, Quiet
  <2>2. CASE Register(r)
    <3>1. \A f \in Files : \/ row'[f] = row[f]
                           \/ row'[f].kind = "full" /\ row[f].kind # "delta"
      BY <2>2, RowFields DEF Register, FileInv, SeenInv
    <3>2. QED
      BY <2>2, <3>1 DEF Register, Quiet
  <2>3. QED
    BY <1>5, <2>1, <2>2 DEF DiscoverStep
<1>6. CASE ListStep(r) \/ FinishRun(r) \/ RunAborts(r)
  BY <1>6 DEF ListStep, ListAllPending, ListPendingDirs, ClaimDirs, FinishRun, RunAborts, Quiet
<1>7. QED
  BY <1>2, <1>3, <1>4, <1>5, <1>6 DEF RunStep

(* Without CompressBase a base keeps its bytes and its record as long as a *)
(* delta needs it.                                                         *)
THEOREM BasesStayFrozen ==
  ASSUME PipelineAssumption, ~CompressBase
  PROVE  CarefulSpec => BasesFrozen
<1> DEFINE Frozen == \A b \in Files : Dependents(b) # {}
             => disk'[b] = disk[b] /\ row'[b].kind = "base" /\ row'[b].status = "done"
<1>1. ASSUME TypeOK, IInv, Next, ~Harmful PROVE Frozen
  <2> USE <1>1, PipelineFacts DEF IInv
  <2>1. IInv' /\ TypeOK'
    BY StepStable, StepType
  <2>2. \A b \in Files : Dependents(b) # {} => /\ row[b].kind = "base" /\ Present(b)
                                               /\ row'[b].kind = "base"
    BY FormFacts DEF FileInv, DeltaInv, BaseInv, IsBase, Dependents, Present, Harmful, BaseTaken
  <2>3. ASSUME NEW b \in Files, row[b].kind = "base", Present(b)
        PROVE  disk'[b] = disk[b]
    <3>1. ASSUME NEW f \in Files, Upload(f) PROVE disk'[b] = disk[b]
      BY <2>3, <3>1 DEF Upload, TypeOK, FileInv, RegisteredInv
    <3>2. ASSUME NEW r \in Runs, StartIngest(r) \/ StartBackfill(r) PROVE UNCHANGED disk
      BY <3>2 DEF StartIngest, StartBackfill, Start
    <3>3. ASSUME NEW r \in Runs, NEW f \in Files, RemoveOriginal(r, f) \/ MarkDelta(r, f)
          PROVE  disk'[b] = disk[b]
      <4>1. job[r][f].st \in {"verified", "removed"}
        BY <3>3 DEF RemoveOriginal, MarkDelta, At
      <4>2. row[f].kind = "full"
        BY <4>1 DEF FileInv, JobInv, JobOK, Unsettled, Compressing
      <4>3. QED
        BY <2>3, <3>3, <4>2 DEF RemoveOriginal, MarkDelta, TypeOK
    <3>4. ASSUME NEW r \in Runs, RunStep(r) PROVE disk'[b] = disk[b]
      BY <2>3, <3>3, <3>4, QuietStep DEF Quiet
    <3>5. Crash => UNCHANGED disk
      BY DEF Crash
    <3>6. QED
      BY <3>1, <3>2, <3>4, <3>5 DEF Next
  <2>4. QED
    BY <2>1, <2>2, <2>3 DEF FileInv, BaseInv
<1>2. TypeOK /\ IInv /\ [Next /\ ~Harmful]_vars => [Frozen]_vars
  BY <1>1
<1>3. CarefulSpec => [][Frozen]_vars
  BY <1>2, CarefulType, Inductive, PTL DEF CarefulSpec
<1>4. QED
  BY <1>3 DEF BasesFrozen

-----------------------------------------------------------------------------
(* The refinement of DebugStore: every uploaded file is held, and the      *)
(* reachable ones are those on disk or recorded as deltas.                 *)
On(f) == Present(f) \/ row[f].kind = "delta"

StoreView == HeldFiles = uploaded /\ ReachableFiles = {f \in uploaded : On(f)}

(* The refinement mapping in terms of the invariant: everything uploaded is*)
(* held, and reachable is what is on disk or recorded.                     *)
LEMMA StoreViewHolds ==
  ASSUME PipelineAssumption, TypeOK, FileInv
  PROVE  StoreView
BY RecoverableFacts DEF HeldFiles, ReachableFiles, Recoverable, StoreView, TypeOK, On

(* Every step that is not harmful is a step of the store or a stutter.     *)
LEMMA StoreStep ==
  ASSUME PipelineAssumption, TypeOK, FileInv, StoreView, StoreView', [Next]_vars
  PROVE  [Store!StoreNext]_Store!storeVars
<1> USE PipelineFacts
<1>1. /\ HeldFiles = uploaded /\ HeldFiles' = uploaded'
      /\ ReachableFiles = {f \in uploaded : On(f)}
      /\ ReachableFiles' = {f \in uploaded' : On(f)'}
      /\ uploaded \subseteq Files
  BY DEF StoreView, TypeOK
<1>2. ASSUME UNCHANGED uploaded, \A f \in Files : On(f)' <=> On(f)
      PROVE  UNCHANGED Store!storeVars
  BY <1>1, <1>2 DEF Store!storeVars
<1>3. ASSUME NEW f \in Files, Upload(f) PROVE Store!Put(f)
  <2>1. /\ f \notin uploaded /\ uploaded' = uploaded \cup {f}
        /\ On(f)' /\ \A g \in Files \ {f} : On(g)' <=> On(g)
    BY <1>3 DEF Upload, On, Present, TypeOK, Forms
  <2>2. QED
    BY <1>1, <2>1 DEF Store!Put
<1>4. ASSUME NEW r \in Runs, NEW f \in Files, RemoveOriginal(r, f) PROVE Store!Withdraw(f)
  <2>1. job[r][f].st = "verified" /\ Present(f) /\ UNCHANGED <<uploaded, row>>
    BY <1>4 DEF RemoveOriginal, At
  <2>2. f \in uploaded /\ row[f].kind = "full"
    BY <2>1 DEF FileInv, JobInv, JobOK, RegisteredInv, Unsettled, Compressing
  <2>3. On(f) /\ ~On(f)' /\ \A g \in Files \ {f} : On(g)' <=> On(g)
    BY <1>4, <2>1, <2>2 DEF RemoveOriginal, On, Present, TypeOK
  <2>4. QED
    BY <1>1, <2>1, <2>2, <2>3 DEF Store!Withdraw
<1>5. ASSUME NEW r \in Runs, NEW f \in Files, MarkDelta(r, f) PROVE Store!Reveal(f)
  <2>1. /\ job[r][f].st = "removed" /\ UNCHANGED <<uploaded, disk>>
        /\ row' = [row EXCEPT ![f] = MarkedDone(row[f], "delta", job[r][f].base, job[r][f].work)]
    BY <1>5 DEF MarkDelta, At
  <2>2. row[f].kind = "full" /\ row[f].status # "absent" /\ ~Present(f)
    BY <2>1 DEF FileInv, JobInv, JobOK, Unsettled, Compressing
  <2>3. f \in uploaded
    BY <2>2 DEF FileInv, RegisteredInv
  <2>4. ~On(f) /\ On(f)' /\ \A g \in Files \ {f} : On(g)' <=> On(g)
    BY <2>1, <2>2, RowFields DEF On, Present, TypeOK
  <2>5. QED
    BY <1>1, <2>1, <2>3, <2>4 DEF Store!Reveal
<1>6. ASSUME NEW r \in Runs, RunStep(r),
             \A f \in Files : ~RemoveOriginal(r, f) /\ ~MarkDelta(r, f)
      PROVE  UNCHANGED Store!storeVars
  <2>1. Quiet /\ UNCHANGED uploaded
    BY <1>6, QuietStep
  <2>2. \A f \in Files : On(f)' <=> On(f)
    BY <2>1 DEF Quiet, On, Present
  <2>3. QED
    BY <1>2, <2>1, <2>2
<1>7. ASSUME NEW r \in Runs, StartIngest(r) \/ StartBackfill(r) PROVE UNCHANGED Store!storeVars
  BY <1>2, <1>7 DEF StartIngest, StartBackfill, Start, On, Present
<1>8. CASE UNCHANGED vars
  BY <1>2, <1>8 DEF vars, On, Present
<1>9. CASE Crash
  BY <1>2, <1>9 DEF Crash, On, Present
<1>10. QED
  BY <1>3, <1>4, <1>5, <1>6, <1>7, <1>8, <1>9 DEF Next, Store!StoreNext

(* The pipeline implements the safety of DebugStore as long as no harmful  *)
(* step is taken: whatever it does to the files on disk, an uploaded file  *)
(* is held for ever, and is only withdrawn to be revealed again.           *)
THEOREM ImplementsStore ==
  ASSUME PipelineAssumption
  PROVE  CarefulSpec => StoreSafety
<1>1. Init => Store!StoreInit
  BY DEF Init, Store!StoreInit, HeldFiles, ReachableFiles
<1>2. TypeOK /\ IInv => StoreView
  BY StoreViewHolds DEF IInv
<1>3. TypeOK /\ IInv /\ StoreView /\ StoreView' /\ [Next /\ ~Harmful]_vars
        => [Store!StoreNext]_Store!storeVars
  BY StoreStep DEF IInv
<1>4. QED
  BY <1>1, <1>2, <1>3, CarefulType, Inductive, PTL DEF CarefulSpec, StoreSafety, Store!StoreSafety

-----------------------------------------------------------------------------
(* Apart from Register no step changes a size in a row, adds a row or takes*)
(* away that a file is a base.                                             *)
RowsKept ==
  \A g \in Files : /\ row'[g].osize = row[g].osize
                   /\ row[g].kind = "base" => row'[g].kind = "base"
                   /\ row[g].status = "absent" => row'[g].status = "absent"

LEMMA KeepsRows ==
  ASSUME PipelineAssumption, TypeOK, FileInv, Next, \A r \in Runs : ~Register(r)
  PROVE  RowsKept
<1> USE PipelineFacts
<1>1. CASE UNCHANGED row
  BY <1>1 DEF RowsKept
<1>2. ASSUME NEW f \in Files, row' = [row EXCEPT ![f] = MarkedError(row[f])],
             row[f].status # "absent"
      PROVE  RowsKept
  BY <1>2, RowFields DEF RowsKept, TypeOK
<1>3. ASSUME NEW f \in Files, NEW kind, NEW b, NEW sha,
             row' = [row EXCEPT ![f] = MarkedDone(row[f], kind, b, sha)],
             row[f].status # "absent", row[f].kind = "full" \/ kind = "base"
      PROVE  RowsKept
  BY <1>3, RowFields DEF RowsKept, TypeOK
<1>4. ASSUME NEW r \in Runs, NEW f \in Files, job[r][f].st \in Unsettled
      PROVE  row[f].status # "absent" /\ row[f].kind = "full"
  BY <1>4 DEF FileInv, JobInv, JobOK
<1>5. ASSUME NEW r \in Runs, NEW f \in Files, GroupStep(r, f) PROVE RowsKept
  <2>1. CASE MarkBase(r, f)
    BY <1>3, <1>4, <2>1 DEF MarkBase, At, Unsettled
  <2>2. CASE AbortGroup(r, f)
    BY <1>2, <1>4, <2>2 DEF AbortGroup, At, Unsettled
  <2>3. CASE JoinTargets(r, f)
    <3>1. \A g \in Files : \/ row'[g] = row[g]
                           \/ row'[g] = MarkedError(row[g]) /\ row[g].status # "absent"
      BY <2>3 DEF JoinTargets, FileInv, JobInv, JobOK
    <3>2. QED
      BY <3>1, RowFields DEF RowsKept
  <2>4. CASE CompressInPlaceFails(r, f)
    BY <1>2, <2>4 DEF CompressInPlaceFails, At, FileInv, JobInv, JobOK, BaseInv
  <2>5. QED
    BY <1>1, <1>5, <2>1, <2>2, <2>3, <2>4 DEF GroupStep, StampBase, CompressInPlace
<1>6. ASSUME NEW r \in Runs, NEW f \in Files, SingleStep(r, f) PROVE RowsKept
  <2>1. job[r][f].st \in {"queued", "pairing"} /\ row[f].status # "absent" /\ row[f].kind = "full"
    BY <1>4, <1>6 DEF SingleStep, StartSingle, PairWithBase, StampFull, MarkFullAsBase, KeepFull,
                      SingleFails, At, Unsettled, Pairing
  <2>2. CASE MarkFullAsBase(r, f)
    <3> DEFINE b == job[r][f].base
    <3>1. /\ b \in Files /\ row[b].status # "absent"
          /\ row' = [row EXCEPT ![b] = MarkedDone(row[b], "base", None, disk[b])]
      BY <2>2 DEF MarkFullAsBase, At, FileInv, JobInv, JobOK
    <3> HIDE DEF b
    <3>2. QED
      BY <1>3, <3>1
  <2>3. CASE KeepFull(r, f)
    BY <1>3, <2>1, <2>3 DEF KeepFull
  <2>4. CASE SingleFails(r, f)
    <3>1. row' = [row EXCEPT ![f] = MarkedError(row[f])]
      BY ONLY <2>4 DEF SingleFails
    <3>2. QED
      BY <1>2, <2>1, <3>1
  <2>5. QED
    BY <1>1, <1>6, <2>2, <2>3, <2>4 DEF SingleStep, PairWithBase, StampFull
<1>7. ASSUME NEW r \in Runs, NEW f \in Files, CompressStep(r, f) \/ FailStep(r, f)
      PROVE  RowsKept
  <2>1. /\ job[r][f].st \in {"ready"} \cup Compressing
        /\ \/ UNCHANGED row
           \/ row' = [row EXCEPT ![f] = MarkedError(row[f])]
           \/ row' = [row EXCEPT ![f] = MarkedDone(row[f], "delta", job[r][f].base, job[r][f].work)]
    BY <1>7 DEF CompressStep, FailStep, CopyTarget, MayCompress, Encode, Verify, RemoveOriginal,
                MarkDelta, CopyFails, EncodeFails, VerifyFails, RemoveFails, MarkDeltaFails,
                FailTarget, At, Compressing
  <2>2. row[f].status # "absent" /\ row[f].kind = "full"
    BY <1>4, <2>1 DEF Unsettled, Pairing
  <2>3. CASE row' = [row EXCEPT ![f] = MarkedError(row[f])]
    BY <1>2, <2>2, <2>3
  <2>4. CASE row' = [row EXCEPT ![f] = MarkedDone(row[f], "delta", job[r][f].base, job[r][f].work)]
    BY <1>3, <2>2, <2>4
  <2>5. QED
    BY <1>1, <2>1, <2>3, <2>4
<1>8. ASSUME NEW r \in Runs, RunStep(r) PROVE RowsKept
  <2>1. CASE \E f \in Files : \/ GroupStep(r, f) \/ SingleStep(r, f)
                              \/ CompressStep(r, f) \/ FailStep(r, f)
    BY <1>5, <1>6, <1>7, <2>1
  <2>2. CASE DiscoverStep(r) \/ ListStep(r) \/ FinishRun(r) \/ RunAborts(r)
    BY <1>1, <2>2 DEF DiscoverStep, WalkDir, ListStep, ListAllPending, ListPendingDirs, ClaimDirs,
                      FinishRun, RunAborts
  <2>3. QED
    BY <1>8, <2>1, <2>2 DEF RunStep
<1>9. QED
  BY <1>1, <1>8 DEF Next, Upload, StartIngest, StartBackfill, Start, Crash

(* In a stable configuration the sizes in the rows are those of the files, *)
(* so that a walk never finds that a base has changed.                     *)
SizeInv ==
  /\ \A f \in Files : row[f].status # "absent" => row[f].osize = SizeOf["orig"]
  /\ \A r \in Runs, f \in Files : run[r].pc = "register" /\ run[r].seen[f] # 0 =>
       run[r].seen[f] = SizeOf["orig"] /\ row[f].kind # "base"

(* The sizes stay what they are.                                           *)
LEMMA SizeStep ==
  ASSUME PipelineAssumption, StableConfig, TypeOK, IInv, SizeInv, [Next]_vars
  PROVE  SizeInv'
<1> USE PipelineFacts
<1>1. ASSUME NEW r \in Runs, Register(r) PROVE SizeInv'
  <2> DEFINE seen == run[r].seen
  <2>1. /\ \A f \in Files : row'[f] = IF seen[f] = 0 THEN row[f] ELSE Upserted(row[f], seen[f])
        /\ \A s \in Runs : run'[s].pc # "register"
    <3>1. run[r] \in RunType /\ run \in [Runs -> RunType] /\ \A s \in Runs : s = r
      BY DEF TypeOK, StableConfig
    <3>2. QED
      BY <1>1, <3>1 DEF Register, RunType
  <2>2. \A f \in Files : seen[f] # 0 => seen[f] = SizeOf["orig"]
    BY <1>1 DEF Register, SizeInv
  <2> HIDE DEF seen
  <2>3. QED
    BY <2>1, <2>2, RowFields DEF SizeInv
<1>2. ASSUME RowsKept,
             \A r \in Runs : run'[r].pc = "register" => /\ run'[r] = run[r]
                                                        /\ UNCHANGED row
      PROVE  SizeInv'
  BY <1>2 DEF RowsKept, SizeInv
<1>3. ASSUME NEW r \in Runs, NEW d \in Dirs, WalkDir(r, d) PROVE SizeInv'
  <2>1. /\ run'[r].seen = Changed(d) /\ UNCHANGED <<row, disk>>
        /\ \A s \in Runs : s = r
    <3>1. run[r] \in RunType /\ run \in [Runs -> RunType]
      BY DEF TypeOK
    <3>2. QED
      BY <1>3, <3>1 DEF WalkDir, RunType, StableConfig
  <2>2. ASSUME NEW f \in Files, Changed(d)[f] # 0
        PROVE  Changed(d)[f] = SizeOf["orig"] /\ row[f].kind # "base"
    <3>1. Present(f) /\ ~UpToDate(f) /\ Changed(d)[f] = SizeOf[disk[f]]
      BY <2>2 DEF Changed
    <3>2. SizeOf[disk[f]] = SizeOf["orig"]
      BY <3>1 DEF IInv, FileInv, RegisteredInv, StableConfig, BaseForms, Present
    <3>3. row[f].kind = "base" => row[f].status = "done"
      BY DEF IInv, FileInv, BaseInv, StableConfig
    <3>4. QED
      BY <3>1, <3>2, <3>3 DEF SizeInv, UpToDate
  <2>3. QED
    BY <2>1, <2>2 DEF SizeInv
<1>4. CASE UNCHANGED vars
  BY <1>4 DEF vars, SizeInv
<1>5. ASSUME Next, \A r \in Runs : ~Register(r) /\ \A d \in Dirs : ~WalkDir(r, d) PROVE SizeInv'
  <2>1. RowsKept
    BY <1>5, KeepsRows DEF IInv
  <2>2. ASSUME NEW r \in Runs, run'[r].pc = "register" PROVE run'[r] = run[r] /\ UNCHANGED row
    <3>1. CASE UNCHANGED <<run, row>>
      BY <3>1
    <3>2. \A s \in Runs : s = r
      BY DEF StableConfig
    <3>3. run \in [Runs -> RunType]
      BY DEF TypeOK
    <3>4. CASE StartIngest(r) \/ StartBackfill(r) \/ FinishRun(r) \/ RunAborts(r) \/ Crash
      <4>1. IdleRun.pc = "idle"
        BY DEF IdleRun
      <4>2. ASSUME NEW mode, NEW scope, Start(r, mode, scope) PROVE run'[r].pc = "discover"
        BY <3>3, <4>2 DEF Start, IdleRun
      <4>3. CASE FinishRun(r) \/ RunAborts(r) \/ Crash
        BY <2>2, <3>3, <4>1, <4>3 DEF FinishRun, RunAborts, Crash
      <4>4. QED
        BY <2>2, <3>4, <4>2, <4>3 DEF StartIngest, StartBackfill
    <3>5. ASSUME NEW f \in Files, \/ GroupStep(r, f) \/ SingleStep(r, f)
                                  \/ CompressStep(r, f) \/ FailStep(r, f)
          PROVE  run[r].pc = "work" /\ UNCHANGED run
      <4>1. GroupStep(r, f) => run[r].pc = "work" /\ UNCHANGED run
        BY DEF GroupStep, StampBase, MarkBase, AbortGroup, JoinTargets, CompressInPlace,
               CompressInPlaceFails, At
      <4>2. SingleStep(r, f) => run[r].pc = "work" /\ UNCHANGED run
        BY DEF SingleStep, StartSingle, PairWithBase, StampFull, MarkFullAsBase, KeepFull,
               SingleFails, At
      <4>3. CompressStep(r, f) \/ FailStep(r, f) => run[r].pc = "work" /\ UNCHANGED run
        BY DEF CompressStep, FailStep, CopyTarget, MayCompress, Encode, Verify, RemoveOriginal,
               MarkDelta, CopyFails, EncodeFails, VerifyFails, RemoveFails, MarkDeltaFails,
               FailTarget, At
      <4>4. QED
        BY <3>5, <4>1, <4>2, <4>3
    <3>6. CASE RunStep(r)
      BY <1>5, <2>2, <3>4, <3>5, <3>6, ListedRun DEF RunStep, DiscoverStep
    <3>7. QED
      BY <1>5, <3>1, <3>2, <3>4, <3>6 DEF Next, Upload
  <2>3. QED
    BY <1>2, <2>1, <2>2
<1>6. QED
  BY <1>1, <1>3, <1>4, <1>5

(* The record of a delta cannot fail, and nothing ends a run before it.    *)
LEMMA NoRemovalCutShort ==
  ASSUME PipelineAssumption, StableConfig, TypeOK, IInv, Next
  PROVE  ~RemovalCutShort
<1> USE PipelineFacts
<1> SUFFICES ASSUME NEW r \in Runs, NEW f \in Files, job[r][f].st = "removed",
                    job'[r][f].st \notin {"removed", "done"}
             PROVE  FALSE
  BY DEF RemovalCutShort
<1>1. run[r].pc = "work" /\ \A s \in Runs : s = r
  BY DEF IInv, FileInv, JobInv, JobOK, StableConfig
<1>2. job'[r][f] # job[r][f]
  OBVIOUS
<1>3. RunStep(r)
  <2>1. ~Crash
    BY DEF Crash, Fault, StableConfig
  <2>2. \A s \in Runs : ~StartIngest(s) /\ ~StartBackfill(s)
    BY <1>1 DEF StartIngest, StartBackfill, Start
  <2>3. \A g \in Files : ~Upload(g)
    BY <1>2 DEF Upload
  <2>4. QED
    BY <1>1, <2>1, <2>2, <2>3 DEF Next
<1>4. ASSUME NEW g \in Files, GroupStep(r, g) PROVE FALSE
  <2>1. CASE MarkBase(r, g) \/ AbortGroup(r, g)
    <3>1. job[r][g].st \in {"queued", "stamped"} /\ f \in Members(r, g) /\ f # g
      BY <1>2, <2>1 DEF MarkBase, AbortGroup, At, TypeOK
    <3>2. QED
      BY <3>1 DEF IInv, FileInv, GroupInv, Members
  <2>2. CASE \/ StampBase(r, g) \/ JoinTargets(r, g)
             \/ CompressInPlace(r, g) \/ CompressInPlaceFails(r, g)
    <3>1. \E st : Goto(r, g, st) /\ job[r][g].st # "removed"
      BY <2>2 DEF StampBase, JoinTargets, CompressInPlace, CompressInPlaceFails, At
    <3>2. QED
      BY <1>2, <3>1, GotoEffect
  <2>3. QED
    BY <1>4, <2>1, <2>2 DEF GroupStep
<1>5. ASSUME NEW g \in Files, SingleStep(r, g) PROVE FALSE
  <2>1. g = f
    BY <1>2, <1>5, GotoEffect DEF SingleStep, PairWithBase, StampFull, MarkFullAsBase, KeepFull,
                                  SingleFails, TypeOK
  <2>2. job[r][g].st # "removed"
    BY <1>5 DEF SingleStep, StartSingle, PairWithBase, StampFull, MarkFullAsBase, KeepFull,
                SingleFails, At
  <2>3. QED
    BY <2>1, <2>2
<1>6. ASSUME NEW g \in Files, CompressStep(r, g) PROVE FALSE
  <2>1. g = f
    BY <1>2, <1>6, GotoEffect DEF CompressStep, CopyTarget, Encode, Verify, RemoveOriginal,
                                  MarkDelta, TypeOK
  <2>2. MarkDelta(r, g)
    BY <1>6, <2>1 DEF CompressStep, CopyTarget, MayCompress, Encode, Verify, RemoveOriginal, At
  <2>3. QED
    BY <2>1, <2>2, GotoEffect DEF MarkDelta
<1>7. ASSUME NEW g \in Files, FailStep(r, g) PROVE FALSE
  <2>1. g = f
    BY <1>2, <1>7, GotoEffect DEF FailStep, CopyFails, EncodeFails, VerifyFails, RemoveFails,
                                  MarkDeltaFails, FailTarget
  <2>2. MarkDeltaFails(r, g)
    BY <1>7, <2>1 DEF FailStep, CopyFails, MayCompress, EncodeFails, VerifyFails, RemoveFails, At
  <2>3. delta[f] = NoDelta
    BY <2>1, <2>2 DEF MarkDeltaFails, Fault, StableConfig
  <2>4. \A x, y : \A b \in Files : Delta(b, x, y) # NoDelta
    BY DEF Delta, NoDelta
  <2>5. QED
    BY <2>3, <2>4 DEF IInv, FileInv, JobInv, JobOK, IsBase, Compressing
<1>8. ~DiscoverStep(r) /\ ~ListStep(r) /\ ~RunAborts(r) /\ ~FinishRun(r)
  BY <1>1 DEF DiscoverStep, WalkDir, Register, ListStep, ListAllPending, ListPendingDirs,
              Discovered, ClaimDirs, RunAborts, FinishRun, Finished
<1>9. QED
  BY <1>3, <1>4, <1>5, <1>6, <1>7, <1>8 DEF RunStep

(* In a stable configuration no step is harmful.                           *)
LEMMA StableNotHarmful ==
  ASSUME PipelineAssumption, StableConfig, TypeOK, IInv, SizeInv, Next
  PROVE  ~Harmful
<1> USE PipelineFacts
<1>1. ~RunsOverlap'
  BY DEF RunsOverlap, StableConfig
<1>2. ~CompressedUsed
  <2>1. \A g \in Files : disk[g] # "zstd"
    BY DEF IInv, FileInv, RegisteredInv, StableConfig
  <2>2. QED
    BY <2>1 DEF CompressedUsed, JobType, Compressing
<1>3. ~BaseTaken
  <2>1. \A b \in Files : Dependents(b) # {} => row[b].kind = "base"
    BY DEF Dependents, IInv, FileInv, DeltaInv, IsBase
  <2>2. ASSUME NEW r \in Runs, Register(r), NEW b \in Files, row[b].kind = "base"
        PROVE  row'[b].kind = "base"
    BY <2>2 DEF Register, SizeInv
  <2>3. QED
    BY <2>1, <2>2, KeepsRows DEF BaseTaken, RowsKept, IInv
<1>4. QED
  BY <1>1, <1>2, <1>3, NoRemovalCutShort DEF Harmful

(* With one run at a time, sizes that the rewriting of a base leaves alone,*)
(* CompressBase off and no failure but of the tools, no harmful step is    *)
(* ever taken: every behaviour is a careful one.                           *)
THEOREM StableIsCareful ==
  ASSUME PipelineAssumption, StableConfig
  PROVE  Spec => CarefulSpec /\ NeverHarmful
<1> DEFINE All == TypeOK /\ IInv /\ SizeInv
<1>1. Init => All
  BY InitType, InitStable DEF IInv, Init, RunsOverlap, IdleRun, SizeInv, NoRow
<1>2. All /\ [Next]_vars => [~Harmful]_vars /\ [Next /\ ~Harmful]_vars
  BY StableNotHarmful
<1>3. All /\ [Next]_vars => All'
  BY <1>2, StepType, StepStable, SizeStep
<1>4. QED
  BY <1>1, <1>2, <1>3, PTL DEF Spec, CarefulSpec, NeverHarmful

(* In a stable configuration no file is ever lost, bases stay frozen and   *)
(* the pipeline implements the safety of DebugStore.                       *)
THEOREM StableLosesNothing ==
  ASSUME PipelineAssumption, StableConfig
  PROVE  Spec => []Recoverable /\ BasesFrozen /\ StoreSafety
<1>1. ~CompressBase
  BY DEF StableConfig
<1>2. QED
  BY <1>1, StableIsCareful, NoFileLost, BasesStayFrozen, ImplementsStore, PTL
================================================================================
