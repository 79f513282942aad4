---------------------------- MODULE DedupDeltaProofs ----------------------------
(***************************************************************************)
(* Why an original may leave the disk.  With xdelta3's refusal to          *)
(* overwrite, or with one run at a time, a file that is gone has a delta   *)
(* in its place that decodes to one of its forms, whatever overlaps,       *)
(* crashes or fails; with one run at a time that delta decodes, from the   *)
(* base as it is on disk, at the moment the original is removed.           *)
(***************************************************************************)
EXTENDS DedupProofs

(* At most one run, or an encoder that leaves the file of another alone.   *)
SoleWriter == ~Overwrites \/ \A r, s \in Runs : r = s

OneRun == \A r, s \in Runs : r = s

(* The delta next to a file is the work of this job.                       *)
Writing == {"encoded", "verified"}

(* Files reach the disk by an upload only, and are compressed only when    *)
(* they are on disk.                                                       *)
OnlyUploaded ==
  \A f \in Files : Present(f) \/ (\E r \in Runs : job[r][f].st \in Compressing) => f \in uploaded

(* A target is compressed against another file, from a copy in one of the  *)
(* forms of a file.                                                        *)
TargetOK(r, f) ==
  /\ job[r][f].st \in Pairing \cup Compressing => job[r][f].base \in Files \ {f}
  /\ job[r][f].st \in Compressing => job[r][f].work \in Forms

(* The job whose delta it is: the original is still on disk, no second job *)
(* has got this far on the file, the encoder has left something, and a     *)
(* delta that was verified says what it decodes to and from what.  A job   *)
(* that may replace a delta finds the original on disk.                    *)
WriterOK(r, f) ==
  /\ job[r][f].st \in Writing => Present(f)
  /\ Overwrites /\ job[r][f].st = "copied" => Present(f)
  /\ job[r][f].st \in Writing => \A s \in Runs \ {r} : job[s][f].st \notin Writing
  /\ ~Overwrites /\ job[r][f].st \in Writing => delta[f] # NoDelta
  /\ job[r][f].st = "verified" => /\ delta[f].base = job[r][f].base
                                  /\ delta[f].to = job[r][f].work

LeftInv == /\ OnlyUploaded
           /\ \A r \in Runs, f \in Files : TargetOK(r, f) /\ WriterOK(r, f)
           /\ DeltaLeft

(* One run: the base of a target stays out of every other work until the   *)
(* target is finished, so that the delta goes on decoding from it; the     *)
(* copy the delta was made from is the preprocessed original.              *)
PairOK(r, f) == LET j == job[r][f] IN
  /\ j.st \in Pairing \cup Compressing =>
       /\ j.base \in Files \ {f} /\ GroupOf[j.base] = GroupOf[f]
       /\ job[r][j.base].st \in {"base", "off"}
  /\ j.st \in {"copied", "encoded", "verified"} => Present(f) /\ j.work = Preprocessed(disk[f])
  /\ j.st = "verified" => Decodes(delta[f], j.base, disk[j.base], j.work)

PairInv == \A r \in Runs, f \in Files : PairOK(r, f)

-----------------------------------------------------------------------------
(* The initial state has neither files nor jobs.                           *)
LEMMA InitLeft == ASSUME PipelineAssumption, Init PROVE LeftInv /\ PairInv
BY DEF Init, LeftInv, PairInv, OnlyUploaded, TargetOK, WriterOK, PairOK, DeltaLeft, Present,
       NoJobs, NoJob, Job, Pairing, Compressing, Writing

(* The types of single files and jobs.                                     *)
LEMMA Pointwise ==
  ASSUME PipelineAssumption, TypeOK
  PROVE  /\ \A f \in Files : /\ row[f] \in RowType
                             /\ disk[f] \in Forms \cup {"gone"}
                             /\ delta[f] \in DeltaType
         /\ \A r \in Runs, f \in Files : job[r][f] \in JobType
         /\ \A x \in Forms : /\ Preprocessed(x) \in Forms
                             /\ HalfPreprocessed(x) \subseteq Forms
         /\ "gone" \notin Forms /\ None \notin Files
BY DEF PipelineAssumption, TypeOK, Forms, Preprocessed, HalfPreprocessed, Decompressed

(* A job that is replaced leaves the others as they are.                   *)
LEMMA JobSet ==
  ASSUME TypeOK, NEW r \in Runs, NEW f \in Files, NEW j, job' = [job EXCEPT ![r][f] = j]
  PROVE  /\ job'[r][f] = j
         /\ \A g \in Files \ {f} : job'[r][g] = job[r][g]
         /\ \A s \in Runs \ {r} : job'[s] = job[s]
BY DEF TypeOK

(* A step that neither writes a delta nor brings or takes a file, and      *)
(* leaves every job alone or outside of the work on a delta.               *)
QuietJob(r, f) ==
  \/ job'[r][f] = job[r][f]
  \/ /\ job'[r][f].st \notin Compressing
     /\ job'[r][f].st \in Pairing => job'[r][f].base \in Files \ {f}

QuietStep ==
  /\ uploaded' = uploaded /\ delta' = delta
  /\ \A f \in Files : Present(f)' <=> Present(f)
  /\ \A r \in Runs, f \in Files : QuietJob(r, f)

LEMMA QuietLeft == ASSUME TypeOK, LeftInv, QuietStep PROVE LeftInv'
<1>1. \A r \in Runs, f \in Files : job'[r][f].st \in Compressing => job'[r][f] = job[r][f]
  BY DEF QuietStep, QuietJob
<1>2. Writing \subseteq Compressing /\ "copied" \in Compressing /\ "verified" \in Writing
  BY DEF Writing, Compressing
<1>3. OnlyUploaded'
  BY <1>1 DEF LeftInv, OnlyUploaded, QuietStep
<1>4. ASSUME NEW r \in Runs, NEW f \in Files PROVE TargetOK(r, f)'
  BY <1>1, Zenon DEF LeftInv, TargetOK, QuietStep, QuietJob
<1>5. ASSUME NEW r \in Runs, NEW f \in Files PROVE WriterOK(r, f)'
  <2>1. WriterOK(r, f) /\ delta' = delta /\ (Present(f)' <=> Present(f))
    BY DEF LeftInv, QuietStep
  <2>2. \A s \in Runs : job'[s][f].st \in Compressing => job'[s][f] = job[s][f]
    BY <1>1
  <2>3. QED
    BY <1>2, <2>1, <2>2 DEF WriterOK
<1>6. DeltaLeft'
  BY DEF LeftInv, DeltaLeft, QuietStep, TypeOK
<1>7. QED
  BY <1>3, <1>4, <1>5, <1>6 DEF LeftInv

(* Moving a job past the work on a delta, or to the pool with the base it  *)
(* already has, is quiet.                                                  *)
LEMMA QuietGoto ==
  ASSUME TypeOK, LeftInv, NEW r \in Runs, NEW f \in Files, NEW st, Goto(r, f, st),
         \/ st \in {"stamped", "joined"} \cup Finished
         \/ st = "ready" /\ job[r][f].st = "pairing"
  PROVE  \A s \in Runs, g \in Files : QuietJob(s, g)
<1>1. /\ job'[r][f].st = st /\ job'[r][f].base = job[r][f].base
      /\ \A g \in Files \ {f} : job'[r][g] = job[r][g]
      /\ \A s \in Runs \ {r} : job'[s] = job[s]
  BY GotoEffect
<1>2. TargetOK(r, f)
  BY DEF LeftInv
<1>3. QuietJob(r, f)
  BY <1>1, <1>2 DEF QuietJob, TargetOK, Pairing, Compressing, Finished
<1>4. QED
  BY <1>1, <1>3 DEF QuietJob

(* Starting, discovering, listing, ending and crashing.                    *)
LEMMA OuterQuiet ==
  ASSUME PipelineAssumption, TypeOK,
         \/ \E r \in Runs : StartIngest(r) \/ StartBackfill(r)
         \/ \E r \in Runs : DiscoverStep(r) \/ ListStep(r) \/ FinishRun(r) \/ RunAborts(r)
         \/ Crash \/ UNCHANGED vars
  PROVE  QuietStep
<1>1. uploaded' = uploaded /\ delta' = delta /\ disk' = disk
  BY DEF StartIngest, StartBackfill, Start, DiscoverStep, WalkDir, Register, ListStep,
         ListAllPending, ListPendingDirs, ClaimDirs, FinishRun, RunAborts, Crash, vars
<1>2. \A r \in Runs, f \in Files : QuietJob(r, f)
  <2>1. job \in [Runs -> [Files -> JobType]]
    BY DEF TypeOK
  <2>2. ASSUME NEW r \in Runs, NEW files, StartJobs(r, files)
        PROVE  \A s \in Runs, f \in Files : QuietJob(s, f)
    BY <2>1, <2>2 DEF StartJobs, QuietJob, Job, NoJob, Compressing, Pairing
  <2>3. ASSUME NEW r \in Runs, ListAllPending(r) \/ ListPendingDirs(r) \/ ClaimDirs(r)
        PROVE  \A s \in Runs, f \in Files : QuietJob(s, f)
    BY <2>2, <2>3 DEF ListAllPending, ListPendingDirs, ClaimDirs, QuietJob
  <2>4. ASSUME NEW r \in Runs, FinishRun(r)
        PROVE  \A s \in Runs, f \in Files : QuietJob(s, f)
    BY <2>1, <2>4 DEF FinishRun, QuietJob, NoJobs, NoJob, Job, Compressing, Pairing
  <2>5. ASSUME Crash PROVE \A s \in Runs, f \in Files : QuietJob(s, f)
    BY <2>1, <2>5 DEF Crash, QuietJob, NoJobs, NoJob, Job, Compressing, Pairing
  <2>6. ASSUME UNCHANGED job PROVE \A s \in Runs, f \in Files : QuietJob(s, f)
    BY <2>6 DEF QuietJob
  <2>7. \/ UNCHANGED job
        \/ \E r \in Runs : ListAllPending(r) \/ ListPendingDirs(r) \/ ClaimDirs(r)
        \/ \E r \in Runs : FinishRun(r)
        \/ Crash
    BY DEF StartIngest, StartBackfill, Start, DiscoverStep, WalkDir, Register, ListStep,
           RunAborts, vars
  <2>8. QED
    BY <2>3, <2>4, <2>5, <2>6, <2>7
<1>3. QED
  BY <1>1, <1>2 DEF QuietStep, Present

(* The work on the base of a group only rewrites a file that is there.     *)
LEMMA GroupQuiet ==
  ASSUME PipelineAssumption, TypeOK, LeftInv, NEW r \in Runs, NEW f \in Files, GroupStep(r, f)
  PROVE  QuietStep
<1> USE Pointwise
<1>1. uploaded' = uploaded /\ delta' = delta
  BY DEF GroupStep, StampBase, MarkBase, AbortGroup, JoinTargets, CompressInPlace,
         CompressInPlaceFails
<1>2. \A g \in Files : Present(g)' <=> Present(g)
  <2>1. \/ UNCHANGED disk
        \/ Present(f) /\ \E x \in Forms : disk' = [disk EXCEPT ![f] = x]
    <3>1. CASE StampBase(r, f)
      BY <3>1 DEF StampBase, Present
    <3>2. CASE AbortGroup(r, f)
      BY <3>2 DEF AbortGroup, Present
    <3>3. CASE CompressInPlace(r, f)
      BY <3>3 DEF CompressInPlace, Forms
    <3>4. QED
      BY <3>1, <3>2, <3>3 DEF GroupStep, MarkBase, JoinTargets, CompressInPlaceFails
  <2>2. QED
    BY <2>1 DEF TypeOK, Present
<1>3. \A s \in Runs, g \in Files : QuietJob(s, g)
  <2> DEFINE Regroup(st1, st2, b) ==
        job' = [job EXCEPT ![r] = [g \in Files |->
                  IF g = f THEN Job(st1, None, "gone")
                  ELSE IF g \in Members(r, f) THEN Job(st2, b, "gone") ELSE @[g]]]
  <2>1. ASSUME NEW st1 \in {"base", "failed"}, NEW st2 \in {"ready", "skipped"}, NEW b,
               st2 = "ready" => b = f, Regroup(st1, st2, b)
        PROVE  \A s \in Runs, g \in Files : QuietJob(s, g)
    <3>1. /\ \A s \in Runs \ {r} : job'[s] = job[s]
          /\ job'[r] = [g \in Files |->
                         IF g = f THEN Job(st1, None, "gone")
                         ELSE IF g \in Members(r, f) THEN Job(st2, b, "gone") ELSE job[r][g]]
      BY <2>1 DEF TypeOK
    <3>2. \A g \in Files : \/ g = f /\ job'[r][g] = Job(st1, None, "gone")
                           \/ g # f /\ job'[r][g] = Job(st2, b, "gone")
                           \/ job'[r][g] = job[r][g]
      BY <3>1
    <3>3. QED
      BY <2>1, <3>1, <3>2, JobFields DEF QuietJob, Compressing, Pairing
  <2>2. CASE MarkBase(r, f)
    <3>1. Regroup("base", "ready", f)
      BY <2>2 DEF MarkBase
    <3> HIDE DEF Regroup
    <3>2. QED
      BY <2>1, <3>1
  <2>3. CASE AbortGroup(r, f)
    <3>1. Regroup("failed", "skipped", None)
      BY <2>3 DEF AbortGroup
    <3> HIDE DEF Regroup
    <3>2. QED
      BY <2>1, <3>1
  <2>4. CASE \E st \in {"stamped", "joined"} \cup Finished : Goto(r, f, st)
    BY <2>4, QuietGoto DEF Finished
  <2>5. QED
    BY <2>2, <2>3, <2>4 DEF GroupStep, StampBase, JoinTargets, CompressInPlace,
                            CompressInPlaceFails, Finished
<1>4. QED
  BY <1>1, <1>2, <1>3 DEF QuietStep

(* A file that is alone gets a base other than itself.                     *)
LEMMA SingleQuiet ==
  ASSUME PipelineAssumption, TypeOK, LeftInv, NEW r \in Runs, NEW f \in Files, SingleStep(r, f)
  PROVE  QuietStep
<1> USE Pointwise
<1>1. uploaded' = uploaded /\ delta' = delta
  BY DEF SingleStep, PairWithBase, StampFull, MarkFullAsBase, KeepFull, SingleFails
<1>2. \A g \in Files : Present(g)' <=> Present(g)
  <2>1. \/ UNCHANGED disk
        \/ \E b \in Files : Present(b) /\ \E x \in Forms : disk' = [disk EXCEPT ![b] = x]
    <3>1. CASE StampFull(r, f)
      BY <3>1 DEF StampFull, Present
    <3>2. CASE SingleFails(r, f)
      BY <3>2 DEF SingleFails, Present
    <3>3. QED
      BY <3>1, <3>2 DEF SingleStep, PairWithBase, MarkFullAsBase, KeepFull
  <2>2. QED
    BY <2>1 DEF TypeOK, Present
<1>3. \A s \in Runs, g \in Files : QuietJob(s, g)
  <2>1. CASE PairWithBase(r, f) \/ StampFull(r, f)
    <3>1. PICK b \in Files \ {f}, st \in Pairing : job' = [job EXCEPT ![r][f] = Job(st, b, "gone")]
      BY <2>1 DEF PairWithBase, StampFull, BestCandidate, Candidates, Pairing
    <3>2. QED
      BY <3>1, JobSet, JobFields DEF QuietJob, Pairing, Compressing
  <2>2. CASE MarkFullAsBase(r, f)
    BY <2>2, QuietGoto DEF MarkFullAsBase, At
  <2>3. CASE KeepFull(r, f) \/ SingleFails(r, f)
    BY <2>3, QuietGoto DEF KeepFull, SingleFails, Finished
  <2>4. QED
    BY <2>1, <2>2, <2>3 DEF SingleStep
<1>4. QED
  BY <1>1, <1>2, <1>3 DEF QuietStep

(* A copy that fails, a removal that fails, and the record of a delta.     *)
LEMMA EndQuiet ==
  ASSUME PipelineAssumption, TypeOK, LeftInv, NEW r \in Runs, NEW f \in Files,
         CopyFails(r, f) \/ RemoveFails(r, f) \/ MarkDeltaFails(r, f) \/ MarkDelta(r, f)
  PROVE  QuietStep
<1>1. UNCHANGED <<uploaded, delta, disk>> /\ (Goto(r, f, "failed") \/ Goto(r, f, "done"))
  BY DEF CopyFails, RemoveFails, MarkDeltaFails, MarkDelta, FailTarget
<1>2. QED
  BY <1>1, QuietGoto DEF QuietStep, Present, Finished

(* A step of one job that may change the file and the delta of its target  *)
(* and nothing else: what is left to show is about that target.            *)
OwnStep(r, f) ==
  /\ uploaded' = uploaded
  /\ \A g \in Files \ {f} : delta'[g] = delta[g] /\ (Present(g)' <=> Present(g))
  /\ Present(f)' => Present(f)
  /\ \A g \in Files \ {f} : job'[r][g] = job[r][g]
  /\ \A s \in Runs \ {r} : job'[s] = job[s]

LEMMA OwnLeft ==
  ASSUME TypeOK, LeftInv, NEW r \in Runs, NEW f \in Files, OwnStep(r, f),
         job'[r][f].st \in Compressing => f \in uploaded,
         TargetOK(r, f)',
         \A s \in Runs : WriterOK(s, f)',
         f \in uploaded => Present(f)' \/ (delta'[f].base # f /\ delta'[f].to \in Forms)
  PROVE  LeftInv'
<1>1. \A s \in Runs, g \in Files : s # r \/ g # f => job'[s][g] = job[s][g]
  BY DEF OwnStep
<1>2. OnlyUploaded'
  BY <1>1 DEF LeftInv, OnlyUploaded, OwnStep
<1>3. ASSUME NEW s \in Runs, NEW g \in Files PROVE TargetOK(s, g)'
  BY <1>1 DEF LeftInv, TargetOK
<1>4. ASSUME NEW s \in Runs, NEW g \in Files PROVE WriterOK(s, g)'
  <2>1. CASE g = f
    BY <2>1
  <2>2. CASE g # f
    <3>1. /\ WriterOK(s, g) /\ delta'[g] = delta[g] /\ (Present(g)' <=> Present(g))
          /\ \A q \in Runs : job'[q][g] = job[q][g]
      BY <1>1, <2>2 DEF LeftInv, OwnStep
    <3>2. QED
      BY <3>1 DEF WriterOK
  <2>3. QED
    BY <2>1, <2>2
<1>5. DeltaLeft'
  BY DEF LeftInv, DeltaLeft, OwnStep, TypeOK
<1>6. QED
  BY <1>2, <1>3, <1>4, <1>5 DEF LeftInv

(* Of the jobs on one file at most one writes: when a job is about to      *)
(* encode, no other has got this far and the original is on disk.          *)
LEMMA Encodable ==
  ASSUME PipelineAssumption, SoleWriter, TypeOK, LeftInv, NEW r \in Runs, NEW f \in Files,
         job[r][f].st = "copied", CanEncode(r, f)
  PROVE  /\ Present(f) /\ f \in uploaded
         /\ \A s \in Runs \ {r} : job[s][f].st \notin Writing
<1>1. /\ f \in uploaded
      /\ \A s \in Runs : WriterOK(s, f)
  BY DEF LeftInv, OnlyUploaded, Compressing
<1>2. CASE Overwrites
  BY <1>1, <1>2 DEF WriterOK, SoleWriter
<1>3. CASE ~Overwrites
  <2>1. delta[f] = NoDelta
    BY <1>3 DEF CanEncode
  <2>2. delta[f].to \notin Forms
    BY <2>1 DEF NoDelta, Delta, Forms
  <2>3. Present(f)
    BY <1>1, <2>2 DEF LeftInv, DeltaLeft
  <2>4. QED
    BY <1>1, <1>3, <2>1, <2>3 DEF WriterOK
<1>4. QED
  BY <1>2, <1>3

(* The other jobs on the file of a step that leaves its delta as it is and *)
(* the file on disk.                                                       *)
LEMMA CopyLeft ==
  ASSUME PipelineAssumption, SoleWriter, TypeOK, LeftInv,
         NEW r \in Runs, NEW f \in Files, CopyTarget(r, f)
  PROVE  LeftInv'
<1> USE Pointwise
<1>1. /\ UNCHANGED <<uploaded, disk, delta>> /\ Present(f) /\ job[r][f].st = "ready"
      /\ job' = [job EXCEPT ![r][f] = [job[r][f] EXCEPT !.st = "copied",
                                                        !.work = Preprocessed(disk[f])]]
  BY DEF CopyTarget, MayCompress, At
<1>2. job[r][f] \in JobType /\ disk[f] \in Forms
  BY <1>1 DEF Present
<1>3. /\ job'[r][f].st = "copied" /\ job'[r][f].base = job[r][f].base
      /\ job'[r][f].work = Preprocessed(disk[f])
      /\ \A g \in Files \ {f} : job'[r][g] = job[r][g]
      /\ \A s \in Runs \ {r} : job'[s] = job[s]
  <2> DEFINE j == [job[r][f] EXCEPT !.st = "copied", !.work = Preprocessed(disk[f])]
  <2>1. j.st = "copied" /\ j.base = job[r][f].base /\ j.work = Preprocessed(disk[f])
    BY <1>2 DEF JobType
  <2>2. job' = [job EXCEPT ![r][f] = j]
    BY <1>1
  <2> HIDE DEF j
  <2>3. /\ job'[r][f] = j
        /\ \A g \in Files \ {f} : job'[r][g] = job[r][g]
        /\ \A s \in Runs \ {r} : job'[s] = job[s]
    BY <2>2 DEF TypeOK
  <2>4. QED
    BY <2>1, <2>3
<1>4. OwnStep(r, f) /\ Present(f)'
  BY <1>1, <1>3 DEF OwnStep, Present
<1>5. f \in uploaded
  BY <1>1 DEF LeftInv, OnlyUploaded
<1>6. TargetOK(r, f)'
  BY <1>1, <1>2, <1>3 DEF LeftInv, TargetOK, Pairing, Compressing
<1>7. \A s \in Runs : WriterOK(s, f)'
  <2>1. ASSUME NEW s \in Runs PROVE WriterOK(s, f)'
    <3>1. WriterOK(s, f)
      BY DEF LeftInv
    <3>2. QED
      BY <1>1, <1>3, <1>4, <3>1 DEF WriterOK, Writing
  <2>2. QED
    BY <2>1
<1>8. QED
  BY <1>4, <1>5, <1>6, <1>7, OwnLeft

(* The encoder writes over nothing that another job relies on.             *)
LEMMA EncodeLeft ==
  ASSUME PipelineAssumption, SoleWriter, TypeOK, LeftInv,
         NEW r \in Runs, NEW f \in Files, Encode(r, f) \/ EncodeFails(r, f)
  PROVE  LeftInv'
<1> USE Pointwise
<1>1. PICK st \in {"encoded", "failed"} : Goto(r, f, st)
  BY DEF Encode, EncodeFails, FailTarget
<1>2. job[r][f].st = "copied" /\ UNCHANGED <<uploaded, disk>>
  BY DEF Encode, EncodeFails, FailTarget, At
<1>3. TargetOK(r, f) /\ job[r][f].base \in Files \ {f} /\ job[r][f].work \in Forms
  BY <1>2 DEF LeftInv, TargetOK, Compressing
<1>4. CASE delta' = delta /\ st = "failed"
  BY <1>1, <1>2, <1>4, QuietGoto, QuietLeft DEF QuietStep, Present, Finished
<1>5. CASE /\ CanEncode(r, f)
           /\ \E x, y : /\ y \in Forms \cup {"junk"}
                        /\ delta' = [delta EXCEPT ![f] = Delta(job[r][f].base, x, y)]
  <2>1. /\ Present(f) /\ f \in uploaded
        /\ \A s \in Runs \ {r} : job[s][f].st \notin Writing
    BY <1>2, <1>5, Encodable
  <2>2. /\ job'[r][f].st = st
        /\ job'[r][f].base = job[r][f].base
        /\ job'[r][f].work = job[r][f].work
        /\ \A g \in Files \ {f} : job'[r][g] = job[r][g]
        /\ \A s \in Runs \ {r} : job'[s] = job[s]
    BY <1>1, GotoEffect
  <2>3. /\ \A g \in Files \ {f} : delta'[g] = delta[g]
        /\ delta'[f] # NoDelta
    BY <1>5 DEF TypeOK, Delta, NoDelta, Forms
  <2>4. OwnStep(r, f) /\ Present(f)'
    BY <1>2, <2>1, <2>2, <2>3 DEF OwnStep, Present
  <2>5. TargetOK(r, f)'
    BY <1>3, <2>2 DEF TargetOK
  <2>6. ASSUME NEW s \in Runs PROVE WriterOK(s, f)'
    <3>1. CASE s = r
      BY <2>1, <2>2, <2>3, <2>4, <3>1 DEF WriterOK, Writing
    <3>2. CASE s # r
      BY <2>1, <2>2, <2>4, <3>2 DEF WriterOK, Writing
    <3>3. QED
      BY <3>1, <3>2
  <2>7. QED
    BY <2>1, <2>4, <2>5, <2>6, OwnLeft
<1>6. QED
  <2>1. \/ delta' = delta /\ EncodeFails(r, f)
        \/ /\ CanEncode(r, f)
           /\ \E x, y : /\ y \in Forms \cup {"junk"}
                        /\ delta' = [delta EXCEPT ![f] = Delta(job[r][f].base, x, y)]
    BY <1>3 DEF Encode, EncodeFails
  <2>2. EncodeFails(r, f) => job'[r][f].st = "failed" /\ job'[r][f].st = st
    BY <1>1, GotoEffect DEF EncodeFails, FailTarget
  <2>3. QED
    BY <1>4, <1>5, <2>1, <2>2

(* Only the job whose delta it is decodes it, deletes it, or removes the   *)
(* original in favour of it.                                               *)
LEMMA WriterLeft ==
  ASSUME PipelineAssumption, SoleWriter, TypeOK, LeftInv, NEW r \in Runs, NEW f \in Files,
         Verify(r, f) \/ VerifyFails(r, f) \/ RemoveOriginal(r, f)
  PROVE  LeftInv'
<1> USE Pointwise
<1>1. job[r][f].st \in Writing /\ uploaded' = uploaded
  BY DEF Verify, VerifyFails, RemoveOriginal, FailTarget, At, Writing
<1>2. PICK st \in {"verified", "failed", "removed"} : Goto(r, f, st)
  BY DEF Verify, VerifyFails, RemoveOriginal, FailTarget
<1>3. /\ job'[r][f].st = st
      /\ job'[r][f].base = job[r][f].base
      /\ job'[r][f].work = job[r][f].work
      /\ \A g \in Files \ {f} : job'[r][g] = job[r][g]
      /\ \A s \in Runs \ {r} : job'[s] = job[s]
  BY <1>2, GotoEffect
<1>4. /\ TargetOK(r, f) /\ WriterOK(r, f) /\ f \in uploaded
      /\ job[r][f].base \in Files \ {f} /\ job[r][f].work \in Forms
  BY <1>1 DEF LeftInv, OnlyUploaded, TargetOK, Writing, Compressing
<1>5. /\ Present(f)
      /\ \A s \in Runs \ {r} : job[s][f].st \notin Writing
  BY <1>1, <1>4 DEF WriterOK
<1>6. TargetOK(r, f)'
  BY <1>3, <1>4 DEF TargetOK
<1>7. CASE Verify(r, f)
  <2>1. /\ UNCHANGED <<disk, delta>> /\ Present(f)' /\ st = "verified"
        /\ delta[f].base = job[r][f].base /\ delta[f].to = job[r][f].work
        /\ delta[f] # NoDelta
    <3>1. UNCHANGED <<disk, delta>> /\ st = "verified"
      BY <1>3, <1>7, GotoEffect DEF Verify
    <3>2. PICK x : delta[f] = Delta(job[r][f].base, x, job[r][f].work)
      BY <1>7 DEF Verify, VerifySucceeds, Decodes
    <3>3. QED
      BY <1>4, <1>5, <3>1, <3>2 DEF Present, Delta, NoDelta
  <2>2. OwnStep(r, f)
    BY <1>1, <1>3, <2>1 DEF OwnStep, Present
  <2>3. ASSUME NEW s \in Runs PROVE WriterOK(s, f)'
    <3>1. CASE s = r
      BY <1>3, <1>5, <2>1, <3>1 DEF WriterOK, Writing
    <3>2. CASE s # r
      BY <1>3, <1>5, <2>1, <3>2 DEF WriterOK, Writing
    <3>3. QED
      BY <3>1, <3>2
  <2>4. QED
    BY <1>4, <1>6, <2>1, <2>2, <2>3, OwnLeft
<1>8. CASE VerifyFails(r, f)
  <2>1. /\ Present(f)' /\ st = "failed"
        /\ disk' = disk /\ \A g \in Files \ {f} : delta'[g] = delta[g]
    BY <1>3, <1>5, <1>8, GotoEffect DEF VerifyFails, FailTarget, Present, TypeOK
  <2>2. OwnStep(r, f)
    BY <1>1, <1>3, <2>1 DEF OwnStep, Present
  <2>3. \A s \in Runs : WriterOK(s, f)'
    BY <1>3, <1>5, <2>1 DEF WriterOK, Writing
  <2>4. QED
    BY <1>4, <1>6, <2>1, <2>2, <2>3, OwnLeft
<1>9. CASE RemoveOriginal(r, f)
  <2>1. /\ job[r][f].st = "verified" /\ st = "removed" /\ delta' = delta
        /\ \A g \in Files \ {f} : disk'[g] = disk[g]
    BY <1>3, <1>9, GotoEffect DEF RemoveOriginal, At, TypeOK
  <2>2. OwnStep(r, f)
    BY <1>1, <1>3, <1>5, <2>1 DEF OwnStep, Present
  <2>3. delta'[f].base # f /\ delta'[f].to \in Forms
    BY <1>4, <2>1 DEF WriterOK
  <2>4. ASSUME NEW s \in Runs PROVE WriterOK(s, f)'
    <3>1. CASE s = r
      BY <1>3, <2>1, <3>1 DEF WriterOK, Writing
    <3>2. CASE s # r
      <4>1. ~Overwrites
        BY <3>2 DEF SoleWriter
      <4>2. job'[s][f].st \notin Writing
        BY <1>3, <1>5, <3>2
      <4>3. QED
        BY <4>1, <4>2 DEF WriterOK, Writing
    <3>3. QED
      BY <3>1, <3>2
  <2>5. QED
    BY <1>4, <1>6, <2>2, <2>3, <2>4, OwnLeft
<1>10. QED
  BY <1>7, <1>8, <1>9

(* A new upload brings a file nobody works on.                             *)
LEMMA UploadLeft ==
  ASSUME TypeOK, LeftInv, NEW f \in Files, Upload(f)
  PROVE  LeftInv'
<1>1. /\ uploaded' = uploaded \cup {f} /\ UNCHANGED <<delta, job>>
      /\ \A g \in Files : Present(g) => Present(g)'
      /\ Present(f)' /\ \A g \in Files \ {f} : Present(g)' => Present(g)
  BY DEF Upload, TypeOK, Present
<1>2. OnlyUploaded'
  BY <1>1 DEF LeftInv, OnlyUploaded
<1>3. ASSUME NEW r \in Runs, NEW g \in Files PROVE TargetOK(r, g)' /\ WriterOK(r, g)'
  <2>1. TargetOK(r, g) /\ WriterOK(r, g)
    BY DEF LeftInv
  <2>2. TargetOK(r, g)'
    BY <1>1, <2>1 DEF TargetOK
  <2>3. WriterOK(r, g)'
    BY <1>1, <2>1 DEF WriterOK
  <2>4. QED
    BY <2>2, <2>3
<1>4. DeltaLeft'
  BY <1>1 DEF LeftInv, DeltaLeft, TypeOK
<1>5. QED
  BY <1>2, <1>3, <1>4 DEF LeftInv

LEMMA StepLeft ==
  ASSUME PipelineAssumption, SoleWriter, TypeOK, LeftInv, [Next]_vars
  PROVE  LeftInv'
<1>1. ASSUME NEW f \in Files, Upload(f) PROVE LeftInv'
  BY <1>1, UploadLeft
<1>2. ASSUME NEW r \in Runs, NEW f \in Files, CompressStep(r, f) PROVE LeftInv'
  BY <1>2, CopyLeft, EncodeLeft, WriterLeft, EndQuiet, QuietLeft DEF CompressStep
<1>3. ASSUME NEW r \in Runs, NEW f \in Files, FailStep(r, f) PROVE LeftInv'
  BY <1>3, EncodeLeft, WriterLeft, EndQuiet, QuietLeft DEF FailStep
<1>4. ASSUME NEW r \in Runs, NEW f \in Files, GroupStep(r, f) \/ SingleStep(r, f) PROVE LeftInv'
  BY <1>4, GroupQuiet, SingleQuiet, QuietLeft
<1>5. ASSUME \/ \E r \in Runs : StartIngest(r) \/ StartBackfill(r)
             \/ \E r \in Runs : DiscoverStep(r) \/ ListStep(r) \/ FinishRun(r) \/ RunAborts(r)
             \/ Crash \/ UNCHANGED vars
      PROVE  LeftInv'
  BY <1>5, OuterQuiet, QuietLeft
<1>6. QED
  BY <1>1, <1>2, <1>3, <1>4, <1>5 DEF Next, RunStep

(* Any number of runs, any strategy, any failure and any crash: as long as *)
(* xdelta3 refuses to overwrite, or only one run is active, an original    *)
(* that is gone has left a delta against another file, to a form of it.    *)
THEOREM OriginalsLeaveDeltas ==
  ASSUME PipelineAssumption, SoleWriter
  PROVE  Spec => []DeltaLeft
<1>1. Init => LeftInv
  BY InitLeft
<1>2. TypeOK /\ LeftInv /\ [Next]_vars => LeftInv'
  BY StepLeft
<1>3. Spec => []TypeOK
  BY TypeCorrect
<1>4. LeftInv => DeltaLeft
  BY DEF LeftInv
<1>5. QED
  BY <1>1, <1>2, <1>3, <1>4, PTL DEF Spec

-----------------------------------------------------------------------------
(* One run at a time: the delta of a verified target decodes.              *)

(* A step that leaves a job, its base, and the bytes of both alone.        *)
LEMMA PairFrame ==
  ASSUME NEW r \in Runs, NEW f \in Files, PairOK(r, f), job'[r][f] = job[r][f],
         job[r][f].st \in Pairing \cup Compressing =>
           /\ job'[r][job[r][f].base].st \in {"base", "off"}
           /\ disk'[f] = disk[f] /\ disk'[job[r][f].base] = disk[job[r][f].base]
           /\ delta'[f] = delta[f]
  PROVE  PairOK(r, f)'
<1>1. PICK st, b, work : /\ job[r][f].st = st /\ job[r][f].base = b /\ job[r][f].work = work
                         /\ job'[r][f].st = st /\ job'[r][f].base = b /\ job'[r][f].work = work
  OBVIOUS
<1>2. {"copied", "encoded", "verified"} \subseteq Compressing
  BY DEF Compressing
<1>3. /\ st \in Pairing \cup Compressing => b \in Files \ {f} /\ GroupOf[b] = GroupOf[f]
      /\ st \in {"copied", "encoded", "verified"} => Present(f) /\ work = Preprocessed(disk[f])
      /\ st = "verified" => Decodes(delta[f], b, disk[b], work)
  BY <1>1 DEF PairOK
<1>4. st \in Pairing \cup Compressing => /\ job'[r][b].st \in {"base", "off"}
                                         /\ disk'[f] = disk[f] /\ disk'[b] = disk[b]
                                         /\ delta'[f] = delta[f]
  BY <1>1
<1>5. /\ st \in {"copied", "encoded", "verified"} =>
           Present(f)' /\ work = Preprocessed(disk'[f])
      /\ st = "verified" => Decodes(delta'[f], b, disk'[b], work)
  BY <1>2, <1>3, <1>4 DEF Present
<1>6. QED
  BY <1>1, <1>3, <1>4, <1>5 DEF PairOK

(* A job outside of the work on a target.                                  *)
LEMMA PairIdle ==
  ASSUME NEW r \in Runs, NEW f \in Files, job'[r][f].st \notin Pairing \cup Compressing
  PROVE  PairOK(r, f)'
BY DEF PairOK, Compressing

(* What a job that compresses knows of its base.                           *)
LEMMA PairFacts ==
  ASSUME TypeOK, PairInv, NEW r \in Runs, NEW f \in Files,
         job[r][f].st \in Pairing \cup Compressing
  PROVE  /\ job[r][f].base \in Files \ {f} /\ GroupOf[job[r][f].base] = GroupOf[f]
         /\ job[r][job[r][f].base].st \in {"base", "off"}
         /\ job[r][job[r][f].base].st \notin Pairing \cup Compressing
         /\ \A h \in Files : GroupOf[h] = GroupOf[f] => f \in Members(r, h)
BY DEF PairInv, PairOK, Members, Pairing, Compressing

LEMMA OuterPair ==
  ASSUME PipelineAssumption, TypeOK, PairInv,
         \/ \E r \in Runs : StartIngest(r) \/ StartBackfill(r)
         \/ \E r \in Runs : DiscoverStep(r) \/ ListStep(r) \/ FinishRun(r) \/ RunAborts(r)
         \/ Crash \/ UNCHANGED vars
  PROVE  PairInv'
<1>1. delta' = delta /\ disk' = disk
  BY DEF StartIngest, StartBackfill, Start, DiscoverStep, WalkDir, Register, ListStep,
         ListAllPending, ListPendingDirs, ClaimDirs, FinishRun, RunAborts, Crash, vars
<1>2. job \in [Runs -> [Files -> JobType]]
  BY DEF TypeOK
<1>3. \A r \in Runs : \/ job'[r] = job[r]
                      \/ \A f \in Files : job'[r][f].st \in {"off", "queued"}
  <2>2. ASSUME NEW r \in Runs, NEW files, StartJobs(r, files)
        PROVE  \A s \in Runs : \/ job'[s] = job[s]
                               \/ \A f \in Files : job'[s][f].st \in {"off", "queued"}
    BY <1>2, <2>2 DEF StartJobs, Job, NoJob
  <2>3. ASSUME NEW r \in Runs, ListAllPending(r) \/ ListPendingDirs(r) \/ ClaimDirs(r)
        PROVE  \/ UNCHANGED job
               \/ \E files : StartJobs(r, files)
    BY <2>3 DEF ListAllPending, ListPendingDirs, ClaimDirs
  <2>4. ASSUME NEW r \in Runs, FinishRun(r)
        PROVE  \A s \in Runs : \/ job'[s] = job[s]
                               \/ \A f \in Files : job'[s][f].st \in {"off", "queued"}
    BY <1>2, <2>4 DEF FinishRun, NoJobs, NoJob, Job
  <2>5. ASSUME Crash PROVE \A s \in Runs, f \in Files : job'[s][f].st = "off"
    BY <2>5 DEF Crash, NoJobs, NoJob, Job
  <2>7. \/ UNCHANGED job
        \/ \E r \in Runs : ListAllPending(r) \/ ListPendingDirs(r) \/ ClaimDirs(r)
        \/ \E r \in Runs : FinishRun(r)
        \/ Crash
    BY DEF StartIngest, StartBackfill, Start, DiscoverStep, WalkDir, Register, ListStep,
           RunAborts, vars
  <2>8. QED
    BY <2>2, <2>3, <2>4, <2>5, <2>7
<1>4. ASSUME NEW r \in Runs, NEW f \in Files PROVE PairOK(r, f)'
  <2>1. CASE job'[r] = job[r]
    <3>1. PairOK(r, f)
      BY DEF PairInv
    <3>2. job[r][f].st \in Pairing \cup Compressing => job[r][job[r][f].base].st \in {"base", "off"}
      BY PairFacts
    <3>3. QED
      BY <1>1, <2>1, <3>1, <3>2, PairFrame
  <2>2. CASE job'[r][f].st \in {"off", "queued"}
    BY <2>2, PairIdle DEF Pairing, Compressing
  <2>3. QED
    BY <1>3, <2>1, <2>2
<1>5. QED
  BY <1>4 DEF PairInv

(* An upload is not about a file that is being compressed, or its base.    *)
LEMMA UploadPair ==
  ASSUME TypeOK, LeftInv, PairInv, NEW f \in Files, Upload(f)
  PROVE  PairInv'
<1>1. /\ f \notin uploaded /\ UNCHANGED <<delta, job>>
      /\ \A g \in Files \ {f} : disk'[g] = disk[g]
  BY DEF Upload, TypeOK
<1>2. ~Present(f) /\ \A r \in Runs : job[r][f].st \notin Compressing
  BY <1>1 DEF LeftInv, OnlyUploaded
<1>3. ASSUME NEW r \in Runs, NEW g \in Files PROVE PairOK(r, g)'
  <2>1. PairOK(r, g)
    BY DEF PairInv
  <2>2. CASE job[r][g].st \in Compressing
    <3>1. g # f /\ job'[r][g] = job[r][g]
      BY <1>1, <1>2, <2>2
    <3>2. PICK b, st, work : /\ job[r][g].base = b /\ job[r][g].st = st /\ job[r][g].work = work
                             /\ job'[r][g].base = b /\ job'[r][g].st = st /\ job'[r][g].work = work
      BY <3>1
    <3>3. /\ b \in Files \ {g} /\ GroupOf[b] = GroupOf[g]
          /\ job[r][b].st \in {"base", "off"} /\ job'[r][b] = job[r][b]
      BY <1>1, <2>2, <3>2, PairFacts
    <3>4. st = "verified" => b # f
      BY <1>2, <2>1, <3>2 DEF PairOK, Decodes, Present
    <3>5. QED
      BY <1>1, <2>1, <3>1, <3>2, <3>3, <3>4 DEF PairOK, Present
  <2>3. CASE job[r][g].st \notin Compressing
    BY <1>1, <2>1, <2>3 DEF PairOK, Compressing
  <2>4. QED
    BY <2>2, <2>3
<1>4. QED
  BY <1>3 DEF PairInv

(* The base of a group is rewritten before its targets start, or after     *)
(* they have all finished.                                                 *)
LEMMA GroupPair ==
  ASSUME PipelineAssumption, OneRun, TypeOK, PairInv,
         NEW r \in Runs, NEW h \in Files, GroupStep(r, h)
  PROVE  PairInv'
<1>1. delta' = delta /\ \A g \in Files \ {h} : disk'[g] = disk[g]
  BY DEF GroupStep, StampBase, MarkBase, AbortGroup, JoinTargets, CompressInPlace,
         CompressInPlaceFails, TypeOK
<1>2. job[r][h].st \in {"queued", "stamped", "base", "joined"}
  BY DEF GroupStep, StampBase, MarkBase, AbortGroup, JoinTargets, CompressInPlace,
         CompressInPlaceFails, At
<1>3. job[r][h].st \notin Pairing \cup Compressing
  BY <1>2 DEF Pairing, Compressing
<1>4. SUFFICES ASSUME NEW f \in Files PROVE PairOK(r, f)'
  BY DEF PairInv, OneRun
<1>5. ASSUME NEW st1 \in {"base", "failed"}, NEW st2 \in {"ready", "skipped"}, NEW b,
             st2 = "ready" => st1 = "base" /\ b = h, UNCHANGED disk \/ job[r][h].st = "queued",
             job' = [job EXCEPT ![r] = [g \in Files |->
                       IF g = h THEN Job(st1, None, "gone")
                       ELSE IF g \in Members(r, h) THEN Job(st2, b, "gone") ELSE @[g]]]
      PROVE  PairOK(r, f)'
  <2>1. job'[r] = [g \in Files |->
                    IF g = h THEN Job(st1, None, "gone")
                    ELSE IF g \in Members(r, h) THEN Job(st2, b, "gone") ELSE job[r][g]]
    BY <1>5 DEF TypeOK
  <2>2. CASE f = h
    BY <2>1, <2>2, JobFields, PairIdle DEF Pairing, Compressing
  <2>3. CASE f # h /\ f \in Members(r, h)
    <3>1. job'[r][f] = Job(st2, b, "gone") /\ job'[r][h].st = st1
      BY <2>1, <2>3, JobFields
    <3>2. GroupOf[h] = GroupOf[f]
      BY <2>3 DEF Members
    <3>3. QED
      BY <1>5, <2>3, <3>1, <3>2, JobFields DEF PairOK, Pairing, Compressing
  <2>4. CASE f # h /\ f \notin Members(r, h)
    <3>1. job'[r][f] = job[r][f]
      BY <2>1, <2>4
    <3>2. ASSUME job[r][f].st \in Pairing \cup Compressing
          PROVE  /\ job'[r][job[r][f].base].st \in {"base", "off"}
                 /\ disk'[f] = disk[f] /\ disk'[job[r][f].base] = disk[job[r][f].base]
      <4>1. PICK c : c = job[r][f].base
        OBVIOUS
      <4>2. /\ c \in Files /\ GroupOf[c] = GroupOf[f] /\ job[r][c].st \in {"base", "off"}
            /\ GroupOf[h] # GroupOf[f]
        BY <2>4, <3>2, <4>1, PairFacts
      <4>3. c # h /\ c \notin Members(r, h)
        BY <4>2 DEF Members
      <4>4. job'[r][c] = job[r][c]
        BY <2>1, <4>2, <4>3
      <4>5. QED
        BY <1>1, <2>4, <4>1, <4>2, <4>3, <4>4
    <3>3. QED
      BY <1>1, <3>1, <3>2, PairFrame DEF PairInv
  <2>5. QED
    BY <2>2, <2>3, <2>4
<1>6. ASSUME NEW st \in {"stamped", "joined", "done", "failed"}, Goto(r, h, st),
             job[r][h].st = "base" => \A g \in Members(r, h) \ {h} : job[r][g].st \in Finished
      PROVE  PairOK(r, f)'
  <2>1. job'[r][h].st = st /\ \A g \in Files \ {h} : job'[r][g] = job[r][g]
    BY <1>6, GotoEffect
  <2>2. CASE f = h
    BY <2>1, <2>2, PairIdle DEF Pairing, Compressing
  <2>3. CASE f # h
    <3>1. ASSUME job[r][f].st \in Pairing \cup Compressing
          PROVE  /\ job'[r][job[r][f].base].st \in {"base", "off"}
                 /\ disk'[f] = disk[f] /\ disk'[job[r][f].base] = disk[job[r][f].base]
      <4>1. PICK c : c = job[r][f].base
        OBVIOUS
      <4>2. /\ c \in Files /\ GroupOf[c] = GroupOf[f] /\ job[r][c].st \in {"base", "off"}
            /\ c = h => f \in Members(r, h)
        BY <3>1, <4>1, PairFacts
      <4>3. c # h
        BY <1>2, <1>6, <2>3, <3>1, <4>2 DEF Finished, Pairing, Compressing
      <4>4. QED
        BY <1>1, <2>1, <2>3, <4>1, <4>2, <4>3
    <3>2. QED
      BY <1>1, <2>1, <2>3, <3>1, PairFrame DEF PairInv
  <2>4. QED
    BY <2>2, <2>3
<1>7. CASE MarkBase(r, h)
  <2>1. UNCHANGED disk /\ job' = [job EXCEPT ![r] = [g \in Files |->
          IF g = h THEN Job("base", None, "gone")
          ELSE IF g \in Members(r, h) THEN Job("ready", h, "gone") ELSE @[g]]]
    BY <1>7 DEF MarkBase
  <2>2. QED
    BY <1>5, <2>1
<1>8. CASE AbortGroup(r, h)
  <2>1. job' = [job EXCEPT ![r] = [g \in Files |->
          IF g = h THEN Job("failed", None, "gone")
          ELSE IF g \in Members(r, h) THEN Job("skipped", None, "gone") ELSE @[g]]]
    BY <1>8 DEF AbortGroup
  <2>2. UNCHANGED disk \/ job[r][h].st = "queued"
    BY <1>8 DEF AbortGroup, At
  <2>3. QED
    BY <1>5, <2>1, <2>2
<1>9. CASE JoinTargets(r, h)
  BY <1>6, <1>9 DEF JoinTargets
<1>10. CASE StampBase(r, h) \/ CompressInPlace(r, h) \/ CompressInPlaceFails(r, h)
  BY <1>6, <1>10 DEF StampBase, CompressInPlace, CompressInPlaceFails, At
<1>11. QED
  BY <1>7, <1>8, <1>9, <1>10 DEF GroupStep

(* A full file becomes the base of a file that is alone: nobody else of    *)
(* the group is being compressed.                                          *)
LEMMA SinglePair ==
  ASSUME PipelineAssumption, OneRun, TypeOK, PairInv,
         NEW r \in Runs, NEW h \in Files, SingleStep(r, h)
  PROVE  PairInv'
<1>1. delta' = delta
  BY DEF SingleStep, PairWithBase, StampFull, MarkFullAsBase, KeepFull, SingleFails
<1>2. \/ disk' = disk
      \/ Alone(r, h) /\ \E c \in Candidates(h) : \E x : disk' = [disk EXCEPT ![c] = x]
  BY DEF SingleStep, PairWithBase, StampFull, MarkFullAsBase, KeepFull, SingleFails,
         StartSingle, BestCandidate
<1>3. /\ job[r][h].st \in {"queued", "pairing"}
      /\ \A g \in Files \ {h} : job'[r][g] = job[r][g]
  <2>1. CASE PairWithBase(r, h) \/ StampFull(r, h)
    <3>1. job[r][h].st = "queued" /\ \E j : job' = [job EXCEPT ![r][h] = j]
      BY <2>1 DEF PairWithBase, StampFull, StartSingle, At
    <3>2. QED
      BY <3>1 DEF TypeOK
  <2>2. CASE MarkFullAsBase(r, h)
    BY <2>2, GotoEffect DEF MarkFullAsBase, At
  <2>3. CASE KeepFull(r, h) \/ SingleFails(r, h)
    BY <2>3, GotoEffect DEF KeepFull, SingleFails, StartSingle, At
  <2>4. QED
    BY <2>1, <2>2, <2>3 DEF SingleStep
<1>4. SUFFICES ASSUME NEW f \in Files PROVE PairOK(r, f)'
  BY DEF PairInv, OneRun
<1>5. CASE f # h
  <2>1. ASSUME job[r][f].st \in Pairing \cup Compressing
        PROVE  /\ job'[r][job[r][f].base].st \in {"base", "off"}
               /\ disk'[f] = disk[f] /\ disk'[job[r][f].base] = disk[job[r][f].base]
    <3>1. PICK c : c = job[r][f].base
      OBVIOUS
    <3>2. /\ c \in Files /\ GroupOf[c] = GroupOf[f] /\ job[r][c].st \in {"base", "off"}
          /\ GroupOf[h] = GroupOf[f] => f \in Members(r, h)
      BY <2>1, <3>1, PairFacts
    <3>3. c # h
      BY <1>3, <3>2
    <3>4. disk'[f] = disk[f] /\ disk'[c] = disk[c]
      <4>1. CASE disk' = disk
        BY <4>1
      <4>2. ASSUME Alone(r, h), NEW d \in Candidates(h), NEW x, disk' = [disk EXCEPT ![d] = x]
            PROVE  disk'[f] = disk[f] /\ disk'[c] = disk[c]
        <5>1. d \in Files /\ GroupOf[d] = GroupOf[h]
          BY DEF Candidates
        <5>2. GroupOf[h] # GroupOf[f]
          BY <1>5, <3>2, <4>2 DEF Alone
        <5>3. d # f /\ d # c
          BY <3>2, <5>1, <5>2
        <5>4. QED
          BY <3>2, <4>2, <5>1, <5>3 DEF TypeOK
      <4>3. QED
        BY <1>2, <4>1, <4>2
    <3>5. QED
      BY <1>3, <3>1, <3>2, <3>3, <3>4
  <2>2. QED
    BY <1>1, <1>3, <1>5, <2>1, PairFrame DEF PairInv
<1>6. CASE f = h
  <2>1. CASE PairWithBase(r, h) \/ StampFull(r, h)
    <3>1. PICK b \in Candidates(h), st \in Pairing :
            job' = [job EXCEPT ![r][h] = Job(st, b, "gone")]
      BY <2>1 DEF PairWithBase, StampFull, BestCandidate, Pairing
    <3>2. b \in Files \ {h} /\ GroupOf[b] = GroupOf[h]
      BY DEF Candidates
    <3>3. job[r][b].st = "off"
      BY <2>1, <3>2 DEF PairWithBase, StampFull, StartSingle, Alone, Members
    <3>4. job'[r][h] = Job(st, b, "gone") /\ job'[r][b] = job[r][b]
      BY <3>1, <3>2 DEF TypeOK
    <3>5. QED
      BY <1>6, <3>2, <3>3, <3>4, JobFields DEF PairOK, Pairing
  <2>2. CASE MarkFullAsBase(r, h)
    <3>1. job[r][h].st = "pairing" /\ Goto(r, h, "ready")
      BY <2>2 DEF MarkFullAsBase, At
    <3>2. job'[r][h].st = "ready" /\ job'[r][h].base = job[r][h].base
      BY <3>1, GotoEffect
    <3>3. PICK c : c = job[r][h].base
      OBVIOUS
    <3>4. c \in Files \ {h} /\ GroupOf[c] = GroupOf[h] /\ job[r][c].st \in {"base", "off"}
      BY <3>1, <3>3, PairFacts DEF Pairing
    <3>5. job'[r][c] = job[r][c]
      BY <1>3, <3>4
    <3>6. QED
      BY <1>6, <3>2, <3>3, <3>4, <3>5 DEF PairOK
  <2>3. CASE KeepFull(r, h) \/ SingleFails(r, h)
    <3>1. job'[r][h].st \in {"done", "failed"}
      BY <2>3, GotoEffect DEF KeepFull, SingleFails
    <3>2. QED
      BY <1>6, <3>1, PairIdle DEF Pairing, Compressing
  <2>4. QED
    BY <2>1, <2>2, <2>3 DEF SingleStep
<1>7. QED
  BY <1>5, <1>6

(* The work on one target touches the base and the other targets nowhere.  *)
LEMMA TargetPair ==
  ASSUME PipelineAssumption, OneRun, TypeOK, PairInv,
         NEW r \in Runs, NEW h \in Files, CompressStep(r, h) \/ FailStep(r, h)
  PROVE  PairInv'
<1> USE Pointwise
<1>1. \A g \in Files \ {h} : delta'[g] = delta[g] /\ disk'[g] = disk[g]
  BY DEF CompressStep, CopyTarget, Encode, Verify, RemoveOriginal, MarkDelta, FailStep,
         CopyFails, EncodeFails, VerifyFails, RemoveFails, MarkDeltaFails, FailTarget, TypeOK
<1>2. job[r][h].st \in Pairing \cup Compressing
  BY DEF CompressStep, CopyTarget, Encode, Verify, RemoveOriginal, MarkDelta, FailStep,
         CopyFails, EncodeFails, VerifyFails, RemoveFails, MarkDeltaFails, MayCompress, At,
         Pairing, Compressing
<1>3. \A g \in Files \ {h} : job'[r][g] = job[r][g]
  <2>1. \E j : job' = [job EXCEPT ![r][h] = j]
    BY DEF CompressStep, CopyTarget, Encode, Verify, RemoveOriginal, MarkDelta, FailStep,
           CopyFails, EncodeFails, VerifyFails, RemoveFails, MarkDeltaFails, FailTarget, Goto
  <2>2. QED
    BY <2>1 DEF TypeOK
<1>4. SUFFICES ASSUME NEW f \in Files PROVE PairOK(r, f)'
  BY DEF PairInv, OneRun
<1>5. CASE f # h
  <2>1. ASSUME job[r][f].st \in Pairing \cup Compressing
        PROVE  /\ job'[r][job[r][f].base].st \in {"base", "off"}
               /\ disk'[f] = disk[f] /\ disk'[job[r][f].base] = disk[job[r][f].base]
               /\ delta'[f] = delta[f]
    <3>1. PICK c : c = job[r][f].base
      OBVIOUS
    <3>2. c \in Files /\ job[r][c].st \in {"base", "off"}
      BY <2>1, <3>1, PairFacts
    <3>3. c # h
      BY <1>2, <3>2 DEF Pairing, Compressing
    <3>4. QED
      BY <1>1, <1>3, <1>5, <3>1, <3>2, <3>3
  <2>2. QED
    BY <1>3, <1>5, <2>1, PairFrame DEF PairInv
<1>6. SUFFICES PairOK(r, h)'
  BY <1>5
<1>7. PICK c : c = job[r][h].base
  OBVIOUS
<1>8. /\ PairOK(r, h) /\ c \in Files \ {h} /\ GroupOf[c] = GroupOf[h]
      /\ job[r][c].st \in {"base", "off"} /\ job'[r][c] = job[r][c] /\ disk'[c] = disk[c]
  BY <1>1, <1>2, <1>3, <1>7, PairFacts DEF PairInv
<1>9. ASSUME NEW st \in {"encoded", "verified", "removed"}, Goto(r, h, st),
             disk'[h] = disk[h] \/ st = "removed",
             st # "removed" => job[r][h].st \in {"copied", "encoded", "verified"},
             st = "verified" => Decodes(delta'[h], c, disk[c], job[r][h].work)
      PROVE  PairOK(r, h)'
  <2>1. PICK work : work = job[r][h].work
    OBVIOUS
  <2>2. job'[r][h].st = st /\ job'[r][h].base = c /\ job'[r][h].work = work
    BY <1>7, <1>9, <2>1, GotoEffect
  <2>3. st # "removed" => Present(h)' /\ work = Preprocessed(disk'[h])
    BY <1>8, <1>9, <2>1 DEF PairOK, Present
  <2>4. st = "verified" => Decodes(delta'[h], c, disk'[c], work)
    BY <1>8, <1>9, <2>1
  <2>5. QED
    BY <1>8, <1>9, <2>2, <2>3, <2>4 DEF PairOK
<1>10. CASE CopyTarget(r, h)
  <2>1. /\ UNCHANGED disk /\ Present(h)
        /\ job'[r][h] = [job[r][h] EXCEPT !.st = "copied", !.work = Preprocessed(disk[h])]
    <3> DEFINE j == [job[r][h] EXCEPT !.st = "copied", !.work = Preprocessed(disk[h])]
    <3>1. UNCHANGED disk /\ Present(h) /\ job' = [job EXCEPT ![r][h] = j]
      BY <1>10 DEF CopyTarget
    <3> HIDE DEF j
    <3>2. job'[r][h] = j
      BY <3>1 DEF TypeOK
    <3>3. QED
      BY <3>1, <3>2 DEF j
  <2>2. /\ job'[r][h].st = "copied" /\ job'[r][h].base = c
        /\ job'[r][h].work = Preprocessed(disk[h])
    BY <1>7, <2>1 DEF JobType
  <2>3. QED
    BY <1>8, <2>1, <2>2 DEF PairOK, Present
<1>11. CASE Encode(r, h)
  BY <1>9, <1>11 DEF Encode, At
<1>12. CASE Verify(r, h)
  <2>1. /\ Goto(r, h, "verified") /\ job[r][h].st = "encoded" /\ disk' = disk
        /\ Decodes(delta'[h], c, disk[c], job[r][h].work)
    BY <1>7, <1>12 DEF Verify, VerifySucceeds, At
  <2>2. QED
    BY <1>9, <2>1
<1>13. CASE RemoveOriginal(r, h)
  BY <1>9, <1>13 DEF RemoveOriginal
<1>14. CASE MarkDelta(r, h) \/ FailStep(r, h)
  <2>1. Goto(r, h, "done") \/ Goto(r, h, "failed")
    BY <1>14 DEF MarkDelta, FailStep, CopyFails, EncodeFails, VerifyFails, RemoveFails,
                 MarkDeltaFails, FailTarget
  <2>2. job'[r][h].st \in {"done", "failed"}
    BY <2>1, GotoEffect
  <2>3. QED
    BY <2>2, PairIdle DEF Pairing, Compressing
<1>15. QED
  BY <1>10, <1>11, <1>12, <1>13, <1>14 DEF CompressStep

LEMMA StepPair ==
  ASSUME PipelineAssumption, OneRun, TypeOK, LeftInv, PairInv, [Next]_vars
  PROVE  PairInv'
BY OuterPair, UploadPair, GroupPair, SinglePair, TargetPair DEF Next, RunStep

(* Files only leave the disk when a run removes a verified original.       *)
LEMMA OnlyRemoved ==
  ASSUME PipelineAssumption, TypeOK, LeftInv, [Next]_vars,
         NEW f \in Files, Present(f), disk'[f] = "gone"
  PROVE  \E r \in Runs : RemoveOriginal(r, f)
<1>1. ~QuietStep
  BY DEF QuietStep, Present
<1>2. \A g \in Files : ~Upload(g)
  BY DEF Upload, TypeOK, Present
<1>3. PICK r \in Runs, g \in Files : CompressStep(r, g) \/ FailStep(r, g)
  <2>1. \A r \in Runs, g \in Files : ~GroupStep(r, g) /\ ~SingleStep(r, g)
    BY <1>1, GroupQuiet, SingleQuiet
  <2>2. /\ ~Crash /\ ~UNCHANGED vars
        /\ \A r \in Runs : /\ ~StartIngest(r) /\ ~StartBackfill(r)
                           /\ ~DiscoverStep(r) /\ ~ListStep(r) /\ ~FinishRun(r) /\ ~RunAborts(r)
    BY <1>1, OuterQuiet
  <2>3. QED
    BY <1>2, <2>1, <2>2 DEF Next, RunStep
<1>4. disk' # disk
  BY DEF Present
<1>5. RemoveOriginal(r, g)
  BY <1>3, <1>4 DEF CompressStep, CopyTarget, Encode, Verify, MarkDelta, FailStep,
         CopyFails, EncodeFails, VerifyFails, RemoveFails, MarkDeltaFails, FailTarget
<1>6. g = f
  BY <1>5 DEF RemoveOriginal, TypeOK, Present
<1>7. QED
  BY <1>5, <1>6

(* With one run at a time, whatever fails and wherever it crashes, an      *)
(* original is removed only while the delta next to it decodes, from the   *)
(* base as it is on disk, to the preprocessed form of that original.       *)
THEOREM RemovalIsVerified ==
  ASSUME PipelineAssumption, OneRun
  PROVE  Spec => RemovalVerified
<1>1. SoleWriter
  BY DEF OneRun, SoleWriter
<1>2. Init => LeftInv /\ PairInv
  BY InitLeft
<1>3. TypeOK /\ LeftInv /\ PairInv /\ [Next]_vars => LeftInv' /\ PairInv'
  BY <1>1, StepLeft, StepPair
<1>4. TypeOK /\ LeftInv /\ PairInv /\ [Next]_vars =>
        [\A f \in Files : Present(f) /\ disk'[f] = "gone"
           => \E b \in Files \ {f} : Decodes(delta[f], b, disk[b], Preprocessed(disk[f]))]_vars
  <2> SUFFICES ASSUME TypeOK, LeftInv, PairInv, [Next]_vars,
                      NEW f \in Files, Present(f), disk'[f] = "gone"
               PROVE  \E b \in Files \ {f} : Decodes(delta[f], b, disk[b], Preprocessed(disk[f]))
    OBVIOUS
  <2>1. PICK r \in Runs : RemoveOriginal(r, f)
    BY OnlyRemoved
  <2>2. job[r][f].st = "verified" /\ PairOK(r, f)
    BY <2>1 DEF RemoveOriginal, At, PairInv
  <2>3. QED
    BY <2>2 DEF PairOK, Compressing
<1>5. Spec => []TypeOK
  BY TypeCorrect
<1>6. QED
  BY <1>2, <1>3, <1>4, <1>5, PTL DEF Spec, RemovalVerified
=================================================================================
