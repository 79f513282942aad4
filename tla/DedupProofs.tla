------------------------------ MODULE DedupProofs ------------------------------
(***************************************************************************)
(* Proofs about the deduplication pipeline, for any set of files,          *)
(* directories and groups.                                                 *)
(***************************************************************************)
EXTENDS DedupInvariant, TLAPS

(* The operators the actions update rows and jobs with stay in the types.  *)
LEMMA RowTypes ==
  ASSUME PipelineAssumption, NEW rw \in RowType
  PROVE  /\ MarkedError(rw) \in RowType
         /\ \A n \in Nat : Upserted(rw, n) \in RowType
         /\ \A kind \in {"full", "base", "delta"}, b \in Files \cup {None},
              sha \in Forms \cup {"gone"} : MarkedDone(rw, kind, b, sha) \in RowType
<1>1. MarkedError(rw) \in RowType
  BY DEF RowType, MarkedError
<1>2. ASSUME NEW n \in Nat PROVE Upserted(rw, n) \in RowType
  BY DEF RowType, Upserted
<1>3. ASSUME NEW kind \in {"full", "base", "delta"}, NEW b \in Files \cup {None},
             NEW sha \in Forms \cup {"gone"}
      PROVE  MarkedDone(rw, kind, b, sha) \in RowType
  BY DEF RowType, MarkedDone
<1>4. QED
  BY <1>1, <1>2, <1>3

(* Preprocessing a file gives one of the forms a file can be in, also when *)
(* it fails half way.                                                      *)
LEMMA FormTypes ==
  ASSUME PipelineAssumption
  PROVE  /\ \A x \in Forms \cup {"gone"} :
              /\ Preprocessed(x) \in Forms \cup {"gone"}
              /\ HalfPreprocessed(x) \subseteq Forms \cup {"gone"}
         /\ \A x \in Forms : Preprocessed(x) \in Forms /\ SizeOf[x] \in Nat
BY DEF Preprocessed, HalfPreprocessed, Decompressed, Forms, PipelineAssumption

(* The jobs and deltas a run writes are in their types.                    *)
LEMMA JobTypes ==
  ASSUME PipelineAssumption
  PROVE  /\ NoJobs \in [Files -> JobType]
         /\ IdleRun \in RunType
         /\ NoRow \in RowType
         /\ NoDelta \in DeltaType
BY DEF NoJobs, NoJob, Job, JobType, IdleRun, RunType, NoRow, RowType, NoDelta, Delta,
       DeltaType, Forms, Pairing, Compressing, Finished

(* The empty server is in its types.                                       *)
LEMMA InitType == PipelineAssumption /\ Init => TypeOK
BY JobTypes DEF Init, TypeOK, Forms

(* Moving a job to a later stage keeps it in its type: a job that is about *)
(* to compress has its base.                                               *)
LEMMA GotoType ==
  ASSUME TypeOK, NEW r \in Runs, NEW f \in Files, NEW st, Goto(r, f, st),
         \/ st \in {"stamped", "joined", "done", "failed"}
         \/ /\ st \in {"ready", "encoded", "verified", "removed"}
            /\ job[r][f].st \in {"pairing", "copied", "encoded", "verified"}
  PROVE  job' \in [Runs -> [Files -> JobType]]
<1>1. job \in [Runs -> [Files -> JobType]] /\ job[r][f] \in JobType
  BY DEF TypeOK
<1>2. [job[r][f] EXCEPT !.st = st] \in JobType
  BY <1>1 DEF JobType, Pairing, Compressing, Finished
<1>3. QED
  BY <1>1, <1>2 DEF Goto

(* What a run does to its own record.                                      *)
LEMMA RunTypes ==
  ASSUME NEW u \in RunType, NEW ds \in SUBSET Dirs, NEW seen \in [Files -> Nat]
  PROVE  /\ [u EXCEPT !.pc = "register", !.left = ds, !.seen = seen] \in RunType
         /\ [u EXCEPT !.pc = "discover", !.seen = seen] \in RunType
         /\ [u EXCEPT !.pc = "work", !.dirs = ds] \in RunType
         /\ [u EXCEPT !.pc = "claim", !.dirs = ds] \in RunType
         /\ [u EXCEPT !.pc = "work"] \in RunType
BY DEF RunType

(* Every step of the pipeline, failures included, keeps the types.         *)
LEMMA StepType ==
  ASSUME PipelineAssumption, TypeOK, [Next]_vars
  PROVE  TypeOK'
<1> USE FormTypes, JobTypes
<1>0. /\ \A r \in Runs : run[r] \in RunType /\ run[r].seen \in [Files -> Nat]
                         /\ run[r].left \in SUBSET Dirs
      /\ \A r \in Runs, u \in RunType :
           run' = [run EXCEPT ![r] = u] => run' \in [Runs -> RunType]
  <2>1. \A u \in RunType : u.seen \in [Files -> Nat] /\ u.left \in SUBSET Dirs
    BY DEF RunType
  <2>2. run \in [Runs -> RunType]
    BY DEF TypeOK
  <2>3. QED
    BY <2>1, <2>2
<1>1. ASSUME NEW f \in Files, Upload(f) PROVE TypeOK'
  BY <1>1 DEF Upload, TypeOK, Forms
<1>2. ASSUME NEW r \in Runs, NEW mode \in {"ingest", "backfill", "dry"},
             NEW scope \in SUBSET Dirs, Start(r, mode, scope)
      PROVE  TypeOK'
  BY <1>2 DEF Start, TypeOK, RunType, IdleRun
<1>3. ASSUME NEW r \in Runs, NEW d \in Dirs, WalkDir(r, d) PROVE TypeOK'
  <2>1. Changed(d) \in [Files -> Nat]
    BY DEF TypeOK, Present, Changed
  <2>2. run' = [run EXCEPT ![r] = [run[r] EXCEPT !.pc = "register",
                                     !.left = run[r].left \ {d}, !.seen = Changed(d)]]
    BY <1>3 DEF WalkDir
  <2>3. run' \in [Runs -> RunType]
    <3>1. run[r].left \ {d} \in SUBSET Dirs
      BY <1>0
    <3>2. QED
      BY <1>0, <2>1, <2>2, <3>1, RunTypes
  <2>4. QED
    BY <1>3, <2>3 DEF WalkDir, TypeOK
<1>4. ASSUME NEW r \in Runs, Register(r) PROVE TypeOK'
  <2>1. row' \in [Files -> RowType]
    <3>1. ASSUME NEW f \in Files PROVE row[f] \in RowType /\ run[r].seen[f] \in Nat
      BY DEF TypeOK, RunType
    <3>2. QED
      BY <1>4, <3>1, RowTypes DEF Register, TypeOK
  <2>2. run' \in [Runs -> RunType]
    <3>1. IdleRun.seen \in [Files -> Nat]
      BY DEF IdleRun
    <3>2. QED
      BY <1>0, <1>4, <3>1, RunTypes DEF Register
  <2>3. QED
    BY <1>4, <2>1, <2>2 DEF Register, TypeOK
<1>5. ASSUME NEW r \in Runs, NEW files \in SUBSET Files, StartJobs(r, files)
      PROVE  job' \in [Runs -> [Files -> JobType]] /\ faults' \in Nat
  <2>1. Job("queued", None, "gone") \in JobType /\ NoJob \in JobType
    BY DEF Job, NoJob, JobType, Pairing, Compressing, Finished
  <2>2. job \in [Runs -> [Files -> JobType]] /\ faults \in Nat
    BY DEF TypeOK
  <2>3. [f \in Files |-> IF f \in files THEN Job("queued", None, "gone") ELSE NoJob]
          \in [Files -> JobType]
    BY <2>1
  <2>4. job' \in [Runs -> [Files -> JobType]]
    BY <1>5, <2>2, <2>3 DEF StartJobs
  <2>5. QED
    BY <1>5, <2>2, <2>4 DEF StartJobs, Fault
<1>6. ASSUME NEW r \in Runs, ListAllPending(r) PROVE TypeOK'
  <2>1. Pending \in SUBSET Files /\ DirsOf(Pending) \in SUBSET Dirs
    BY DEF Pending, DirsOf, PipelineAssumption
  <2>2. run' \in [Runs -> RunType]
    BY <1>0, <1>6, <2>1, RunTypes DEF ListAllPending
  <2>3. job' \in [Runs -> [Files -> JobType]] /\ faults' \in Nat
    <3>1. CASE Pending = {}
      BY <1>6, <3>1 DEF ListAllPending, TypeOK
    <3>2. CASE Pending # {}
      BY <1>5, <1>6, <2>1, <3>2 DEF ListAllPending
    <3>3. QED
      BY <3>1, <3>2
  <2>4. QED
    BY <1>6, <2>2, <2>3 DEF ListAllPending, TypeOK
<1>7. ASSUME NEW r \in Runs, ListPendingDirs(r) PROVE TypeOK'
  <2>1. run' \in [Runs -> RunType]
    BY <1>0, <1>7, RunTypes DEF ListPendingDirs
  <2>2. QED
    BY <1>7, <2>1 DEF ListPendingDirs, TypeOK
<1>8. ASSUME NEW r \in Runs, ClaimDirs(r) PROVE TypeOK'
  <2>1. job' \in [Runs -> [Files -> JobType]] /\ faults' \in Nat
    BY <1>5, <1>8 DEF ClaimDirs, Pending
  <2>2. run' \in [Runs -> RunType]
    BY <1>0, <1>8, RunTypes DEF ClaimDirs
  <2>3. QED
    BY <1>8, <2>1, <2>2 DEF ClaimDirs, TypeOK
<1>9. ASSUME NEW r \in Runs, NEW f \in Files, GroupStep(r, f) PROVE TypeOK'
  <2> USE <1>9
  <2> DEFINE Marks(g, rw) == row' = [row EXCEPT ![g] = rw]
  <2>1. disk[f] \in Forms \cup {"gone"} /\ row[f] \in RowType
    BY DEF TypeOK
  <2>2. MarkedDone(row[f], "base", None, disk[f]) \in RowType
    BY <2>1, RowTypes
  <2>3. ASSUME NEW st1 \in {"base", "failed"}, NEW st2 \in {"ready", "skipped"},
               NEW b \in Files \cup {None}, st2 = "ready" => b \in Files,
               job' = [job EXCEPT ![r] = [g \in Files |->
                         IF g = f THEN Job(st1, None, "gone")
                         ELSE IF g \in Members(r, f) THEN Job(st2, b, "gone") ELSE @[g]]]
        PROVE  job' \in [Runs -> [Files -> JobType]]
    <3>1. /\ Job(st1, None, "gone") \in JobType
          /\ st2 = "ready" => b \in Files
          /\ (st2 = "ready" => b \in Files) => Job(st2, b, "gone") \in JobType
      BY <2>3 DEF JobType, Job, Forms, Pairing, Compressing, Finished
    <3>2. QED
      BY <2>3, <3>1 DEF TypeOK
  <2>4. CASE StampBase(r, f)
    BY <2>1, <2>4, GotoType, FormTypes DEF StampBase, TypeOK
  <2>5. CASE MarkBase(r, f)
    BY <2>2, <2>3, <2>5 DEF MarkBase, TypeOK
  <2>6. CASE AbortGroup(r, f)
    <3>1. disk' \in [Files -> Forms \cup {"gone"}] /\ faults' \in Nat
      BY <2>1, <2>6, FormTypes DEF AbortGroup, TypeOK, Fault
    <3>2. job' \in [Runs -> [Files -> JobType]]
      BY <2>3, <2>6 DEF AbortGroup
    <3>3. QED
      BY <2>1, <2>6, <3>1, <3>2, RowTypes DEF AbortGroup, TypeOK
  <2>7. CASE JoinTargets(r, f)
    <3>1. row' \in [Files -> RowType]
      BY <2>7, RowTypes DEF JoinTargets, TypeOK
    <3>2. job' \in [Runs -> [Files -> JobType]]
      BY <2>7, GotoType DEF JoinTargets, Finished
    <3>3. QED
      BY <2>7, <3>1, <3>2 DEF JoinTargets, TypeOK
  <2>8. CASE CompressInPlace(r, f)
    BY <2>8, GotoType DEF CompressInPlace, TypeOK, Finished, Forms
  <2>9. CASE CompressInPlaceFails(r, f)
    BY <2>1, <2>9, GotoType, RowTypes DEF CompressInPlaceFails, TypeOK, Finished, Fault
  <2>10. QED
    BY <2>4, <2>5, <2>6, <2>7, <2>8, <2>9 DEF GroupStep
<1>10. ASSUME NEW r \in Runs, NEW f \in Files, SingleStep(r, f) PROVE TypeOK'
  <2> USE <1>10
  <2>1. \A g \in Files : disk[g] \in Forms \cup {"gone"} /\ row[g] \in RowType
    BY DEF TypeOK
  <2>2. \A g \in Files, kind \in {"base", "full"} :
          MarkedDone(row[g], kind, None, disk[g]) \in RowType
    BY <2>1, RowTypes
  <2>3. job[r][f] \in JobType
    BY DEF TypeOK
  <2>4. \A b \in Files, st \in {"ready", "pairing"} : Job(st, b, "gone") \in JobType
    BY DEF Job, JobType, Forms, Pairing
  <2>5. CASE PairWithBase(r, f)
    BY <2>4, <2>5 DEF PairWithBase, TypeOK
  <2>6. CASE StampFull(r, f)
    <3>1. PICK b \in Files : /\ disk' = [disk EXCEPT ![b] = Preprocessed(@)]
                             /\ job' = [job EXCEPT ![r][f] = Job("pairing", b, "gone")]
      BY <2>6 DEF StampFull
    <3>2. QED
      BY <2>1, <2>4, <2>6, <3>1, FormTypes DEF StampFull, TypeOK
  <2>7. CASE MarkFullAsBase(r, f)
    <3>1. row' \in [Files -> RowType]
      BY <2>2, <2>7 DEF MarkFullAsBase, TypeOK
    <3>2. QED
      BY <2>7, <3>1, GotoType DEF MarkFullAsBase, TypeOK, At, Pairing
  <2>8. CASE KeepFull(r, f)
    BY <2>2, <2>8, GotoType DEF KeepFull, TypeOK, Finished
  <2>9. CASE SingleFails(r, f)
    <3>1. faults' \in Nat
      BY <2>9 DEF SingleFails, TypeOK, Fault
    <3>2. \/ UNCHANGED disk
          \/ \E b \in Files : \E x \in HalfPreprocessed(disk[b]) :
               disk' = [disk EXCEPT ![b] = x]
      BY <2>9 DEF SingleFails
    <3>3. disk' \in [Files -> Forms \cup {"gone"}]
      BY <2>1, <3>2, FormTypes DEF TypeOK
    <3>4. QED
      BY <2>1, <2>9, <3>1, <3>3, GotoType, RowTypes DEF SingleFails, TypeOK, Finished
  <2>10. QED
    BY <2>5, <2>6, <2>7, <2>8, <2>9 DEF SingleStep
<1>11. ASSUME NEW r \in Runs, NEW f \in Files, CompressStep(r, f) \/ FailStep(r, f)
       PROVE  TypeOK'
  <2> USE <1>11
  <2>1. disk[f] \in Forms \cup {"gone"} /\ row[f] \in RowType /\ job[r][f] \in JobType
    BY DEF TypeOK
  <2>2. \A b \in Files \cup {None}, x \in Forms \cup {"gone"},
          y \in Forms \cup {"gone", "junk"} : Delta(b, x, y) \in DeltaType
    BY DEF Delta, DeltaType
  <2>3. ASSUME job[r][f].st \in Compressing
        PROVE  /\ job[r][f].base \in Files \cup {None}
               /\ disk[job[r][f].base] \in Forms \cup {"gone"}
               /\ job[r][f].work \in Forms \cup {"gone"}
    <3>1. job[r][f].base \in Files /\ job[r][f].work \in Forms \cup {"gone"}
      BY <2>1, <2>3 DEF JobType
    <3>2. QED
      BY <3>1 DEF TypeOK
  <2>4. ASSUME FailTarget(r, f) PROVE job' \in [Runs -> [Files -> JobType]]
                                      /\ row' \in [Files -> RowType]
    BY <2>1, <2>4, GotoType, RowTypes DEF FailTarget, TypeOK, Finished
  <2>10. CASE CopyTarget(r, f)
    <3>1. [job[r][f] EXCEPT !.st = "copied", !.work = Preprocessed(disk[f])] \in JobType
      BY <2>1, <2>10 DEF CopyTarget, MayCompress, At, JobType, Pairing, Compressing
    <3>2. QED
      BY <2>10, <3>1 DEF CopyTarget, TypeOK
  <2>11. CASE Encode(r, f)
    <3>1. job[r][f].st \in Compressing
      BY <2>11 DEF Encode, At, Compressing
    <3>2. delta' \in [Files -> DeltaType]
      <4>1. \A x \in {job[r][f].work, "junk"} :
              Delta(job[r][f].base, disk[job[r][f].base], x) \in DeltaType
        <5> DEFINE b == job[r][f].base
        <5>1. b \in Files \cup {None} /\ disk[b] \in Forms \cup {"gone"}
          BY <2>3, <3>1
        <5>2. \A x \in {job[r][f].work, "junk"} : x \in Forms \cup {"gone", "junk"}
          BY <2>3, <3>1
        <5> HIDE DEF b
        <5>3. \A x \in {job[r][f].work, "junk"} : Delta(b, disk[b], x) \in DeltaType
          BY <2>2, <5>1, <5>2
        <5>4. QED
          BY <5>3 DEF b
      <4>2. QED
        BY <2>11, <4>1 DEF Encode, TypeOK
    <3>3. faults' \in Nat
      BY <2>11 DEF Encode, TypeOK, Fault
    <3>4. QED
      <4>1. job' \in [Runs -> [Files -> JobType]]
        BY <2>11, GotoType DEF Encode, At
      <4>2. QED
        BY <2>11, <3>2, <3>3, <4>1 DEF Encode, TypeOK
  <2>12. CASE Verify(r, f)
    BY <2>12, GotoType DEF Verify, At, TypeOK, Compressing
  <2>13. CASE RemoveOriginal(r, f)
    BY <2>13, GotoType DEF RemoveOriginal, At, TypeOK, Compressing
  <2>14. CASE MarkDelta(r, f)
    <3>1. row' \in [Files -> RowType]
      BY <2>1, <2>14, RowTypes DEF MarkDelta, TypeOK, JobType
    <3>2. QED
      BY <2>14, <3>1, GotoType DEF MarkDelta, TypeOK, Finished
  <2>20. CASE FailStep(r, f)
    <3>1. FailTarget(r, f)
      BY <2>20 DEF FailStep, CopyFails, EncodeFails, VerifyFails, RemoveFails, MarkDeltaFails
    <3>2. faults' \in Nat
      BY <2>20 DEF FailStep, CopyFails, EncodeFails, VerifyFails, RemoveFails,
                   MarkDeltaFails, TypeOK, Fault
    <3>3. delta' \in [Files -> DeltaType]
      <4>1. CASE EncodeFails(r, f)
        <5>1. job[r][f].st \in Compressing
          BY <4>1 DEF EncodeFails, At, Compressing
        <5>2. QED
          <6>1. Delta(job[r][f].base, disk[job[r][f].base], "junk") \in DeltaType
            BY <2>2, <2>3, <5>1
          <6>2. QED
            BY <4>1, <6>1 DEF EncodeFails, TypeOK
      <4>2. CASE VerifyFails(r, f)
        BY <4>2 DEF VerifyFails, TypeOK
      <4>3. QED
        BY <2>20, <4>1, <4>2 DEF FailStep, CopyFails, RemoveFails, MarkDeltaFails, TypeOK
    <3>4. QED
      BY <2>4, <3>1, <3>2, <3>3 DEF FailTarget, TypeOK
  <2>30. QED
    BY <2>10, <2>11, <2>12, <2>13, <2>14, <2>20 DEF CompressStep
<1>12. ASSUME NEW r \in Runs, FinishRun(r) \/ RunAborts(r) PROVE TypeOK'
  <2>1. run' \in [Runs -> RunType] /\ faults' \in Nat
    BY <1>0, <1>12 DEF FinishRun, RunAborts, TypeOK, Fault
  <2>2. job' \in [Runs -> [Files -> JobType]]
    BY <1>12 DEF FinishRun, RunAborts, TypeOK
  <2>3. dirStatus' \in [Dirs -> {"absent", "pending", "processing", "done", "error"}]
    BY <1>12 DEF FinishRun, RunAborts, SettledStatus, TypeOK
  <2>4. QED
    BY <1>12, <2>1, <2>2, <2>3 DEF FinishRun, RunAborts, TypeOK
<1>13. CASE Crash
  BY <1>13 DEF Crash, TypeOK, Fault
<1>14. CASE UNCHANGED vars
  BY <1>14 DEF vars, TypeOK
<1>15. ASSUME NEW r \in Runs, StartIngest(r) \/ StartBackfill(r) PROVE TypeOK'
  <2>1. \A p \in Projects : {d \in Dirs : ProjectOf[d] = p} \in SUBSET Dirs
    OBVIOUS
  <2>2. CASE StartIngest(r)
    BY <1>2, <2>2 DEF StartIngest
  <2>3. CASE StartBackfill(r)
    <3>1. PICK mode \in {"backfill", "dry"} :
            Start(r, mode, Dirs) \/ \E p \in Projects :
                                      Start(r, mode, {d \in Dirs : ProjectOf[d] = p})
      BY <2>3 DEF StartBackfill
    <3>2. PICK scope \in SUBSET Dirs : Start(r, mode, scope)
      BY <2>1, <3>1
    <3>3. QED
      BY <1>2, <3>2
  <2>4. QED
    BY <1>15, <2>2, <2>3
<1>16. ASSUME NEW r \in Runs, RunStep(r) PROVE TypeOK'
  BY <1>3, <1>4, <1>6, <1>7, <1>8, <1>9, <1>10, <1>11, <1>12, <1>16
     DEF RunStep, DiscoverStep, ListStep
<1>17. QED
  BY <1>1, <1>13, <1>14, <1>15, <1>16 DEF Next

(* Rows, runs, jobs and files keep their types in every reachable state,   *)
(* whatever files there are and whatever fails.                            *)
THEOREM TypeCorrect ==
  ASSUME PipelineAssumption
  PROVE  Spec => []TypeOK
<1>1. Init => TypeOK
  BY InitType
<1>2. TypeOK /\ [Next]_vars => TypeOK'
  BY StepType
<1>3. QED
  BY <1>1, <1>2, PTL DEF Spec

(* What the operators on rows and jobs return, field by field.             *)
LEMMA RowFields ==
  ASSUME NEW rw \in RowType
  PROVE  /\ \A kind, b, sha :
              /\ MarkedDone(rw, kind, b, sha).status = "done"
              /\ MarkedDone(rw, kind, b, sha).kind = kind
              /\ MarkedDone(rw, kind, b, sha).base = b
              /\ MarkedDone(rw, kind, b, sha).sha = sha
              /\ MarkedDone(rw, kind, b, sha).osize = rw.osize
         /\ MarkedError(rw).status = "error"
         /\ MarkedError(rw).kind = rw.kind
         /\ MarkedError(rw).base = rw.base
         /\ MarkedError(rw).sha = rw.sha
         /\ MarkedError(rw).osize = rw.osize
         /\ \A n : /\ Upserted(rw, n).kind = "full"
                   /\ Upserted(rw, n).osize = n
                   /\ Upserted(rw, n).status \in {"pending", rw.status}
BY DEF RowType, MarkedDone, MarkedError, Upserted

(* What a job made by StartJobs or MarkBase holds, field by field.         *)
LEMMA JobFields ==
  \A st, b, work : /\ Job(st, b, work).st = st
                   /\ Job(st, b, work).base = b
                   /\ Job(st, b, work).work = work
BY DEF Job

(* Goto changes the stage of one job and nothing else.                     *)
LEMMA GotoEffect ==
  ASSUME TypeOK, NEW r \in Runs, NEW f \in Files, NEW st, Goto(r, f, st)
  PROVE  /\ job'[r][f].st = st
         /\ job'[r][f].base = job[r][f].base
         /\ job'[r][f].work = job[r][f].work
         /\ \A g \in Files \ {f} : job'[r][g] = job[r][g]
         /\ \A s \in Runs \ {r} : job'[s] = job[s]
<1>1. job \in [Runs -> [Files -> JobType]]
  BY DEF TypeOK
<1>2. job[r][f] \in JobType
  BY <1>1
<1>3. job'[r] = [job[r] EXCEPT ![f] = [job[r][f] EXCEPT !.st = st]]
  BY <1>1 DEF Goto
<1>4. job'[r][f] = [job[r][f] EXCEPT !.st = st]
  BY <1>1, <1>3
<1>5. \A s \in Runs \ {r} : job'[s] = job[s]
  BY <1>1 DEF Goto
<1>6. QED
  BY <1>1, <1>2, <1>3, <1>4, <1>5 DEF JobType
================================================================================
