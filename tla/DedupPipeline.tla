---------------------------- MODULE DedupPipeline ----------------------------
(***************************************************************************)
(* The deduplication pipeline of internal/dedup: Discover registers the    *)
(* .debug files of the build_* directories in the database, a run lists    *)
(* the pending ones, groups them by library, turns the first file of a     *)
(* group into a base and replaces each of the others by an xdelta3 delta   *)
(* against it.  Ingest runs (after a scan) and backfill runs (started over *)
(* HTTP) may overlap; a run is a set of goroutines, one per group and one  *)
(* per target.                                                             *)
(*                                                                         *)
(* The bytes of a file are its path and the form they are in.  External    *)
(* tools are modelled by what the pipeline relies on: an xdelta3 delta     *)
(* decodes only from the very bytes it was encoded against.                *)
(***************************************************************************)
EXTENDS Integers, FiniteSets

CONSTANTS
  Files,        \* paths of .debug files that may be uploaded
  Dirs,         \* build_* directories
  Projects,     \* directories that hold build_* directories
  Runs,         \* pipeline runs that may be active at the same time
  None,         \* no base file
  DirOf,        \* build directory of a file
  GroupOf,      \* (normalised project, stem) of a file
  ProjectOf,    \* project of a build directory
  BuildNum,     \* build number in a file's name
  DirNum,       \* build number of a directory
  SizeOf,       \* size of a file in each form
  Preprocess,   \* TRUE: strategy xdelta-decompress-dwz, FALSE: xdelta
  CompressBase, \* option CompressBase
  Overwrites,   \* TRUE if xdelta3 replaces an existing output file
  Workers,      \* groups processed at a time by a run
  FileWorkers,  \* targets compressed at a time by a run
  Batch,        \* build directories a backfill claims
  Modes,        \* kinds of runs started: ingest, backfill, dry
  Faults,       \* what may fail: tool, db, crash
  MaxFaults     \* bound on the failures of a behaviour

(* orig: as uploaded; prep: sections decompressed and dwz applied; zstd:   *)
(* a base after objcopy --compress-debug-sections=zstd.                    *)
Forms == {"orig", "prep", "zstd"}

ASSUME PipelineAssumption ==
  /\ None \notin Files
  /\ DirOf \in [Files -> Dirs]
  /\ DOMAIN GroupOf = Files
  /\ ProjectOf \in [Dirs -> Projects]
  /\ BuildNum \in [Files -> Nat]
  /\ \A f, g \in Files : BuildNum[f] = BuildNum[g] => f = g
  /\ DirNum \in [Dirs -> Nat]
  /\ SizeOf \in [Forms -> Nat \ {0}]
  /\ Preprocess \in BOOLEAN /\ CompressBase \in BOOLEAN /\ Overwrites \in BOOLEAN
  /\ Workers \in Nat \ {0} /\ FileWorkers \in Nat \ {0} /\ Batch \in Nat \ {0}
  /\ Modes \subseteq {"ingest", "backfill", "dry"}
  /\ Faults \subseteq {"tool", "db", "crash"}
  /\ MaxFaults \in Nat

VARIABLES
  uploaded,   \* files that have been copied under a scan root
  disk,       \* form of the file at each path, "gone" if there is none
  delta,      \* the file next to it with the suffix .xdelta
  row,        \* dedup_files, by file path
  dirStatus,  \* dedup_build_dirs.status
  run,        \* each run: what it is doing and what it has read
  job,        \* each run: the state of the work on each file it listed
  faults      \* failures so far

vars == <<uploaded, disk, delta, row, dirStatus, run, job, faults>>

-----------------------------------------------------------------------------
(* Bytes on disk.                                                          *)

Preprocessed(x) == IF Preprocess THEN "prep" ELSE x

Decompressed(x) == IF x # "zstd" THEN x ELSE Preprocessed("orig")

(* A preprocessing that fails may have got past objcopy before dwz failed. *)
HalfPreprocessed(x) == {x, Decompressed(x)}

(* A delta encoded against the bytes of base in form from, which decodes   *)
(* to form to; "junk" is what an encoder writes that fails or goes wrong.  *)
Delta(b, from, to) == [base |-> b, from |-> from, to |-> to]
NoDelta == Delta(None, "gone", "gone")

Present(f) == disk[f] # "gone"

Decodes(d, b, from, to) == from # "gone" /\ d = Delta(b, from, to)

-----------------------------------------------------------------------------
(* Database rows.                                                          *)

NoRow == [status |-> "absent", kind |-> "full", base |-> None,
          sha |-> "gone", blob |-> FALSE, osize |-> 0]

MarkedDone(rw, kind, b, sha) ==
  [rw EXCEPT !.status = "done", !.kind = kind, !.base = b,
             !.sha = sha, !.blob = (kind = "delta")]

(* Mutant of MarkedError: a status the schema does not have.               *)
MarkedFailed(rw) == [rw EXCEPT !.status = "failed"]

MarkedError(rw) == [rw EXCEPT !.status = "error"]

(* Mutant of Upserted: a second registration keeps the first size.         *)
UpsertedKeepingSize(rw, size) ==
  [rw EXCEPT !.osize = IF rw.status = "absent" THEN size ELSE @,
             !.kind = "full",
             !.status = IF rw.kind = "full" /\ rw.blob THEN @ ELSE "pending"]

(* The upsert of a registered file: a row that is full and still has a     *)
(* delta path (a delta registered a second time) keeps its status.         *)
Upserted(rw, size) ==
  [rw EXCEPT !.osize = size,
             !.kind = "full",
             !.status = IF rw.kind = "full" /\ rw.blob THEN @ ELSE "pending"]

(* Mutant of UpToDate: only files that are deltas are skipped.             *)
IsDoneDelta(f) == row[f].status = "done" /\ row[f].kind = "delta"

UpToDate(f) == row[f].status = "done" /\ row[f].osize = SizeOf[disk[f]]

Pending == {f \in Files : row[f].status = "pending"}

DirsOf(files) == {DirOf[f] : f \in files}

-----------------------------------------------------------------------------
(* Runs and their jobs.                                                    *)

IdleRun == [pc |-> "idle", mode |-> "ingest", scope |-> {}, left |-> {},
            dirs |-> {}, seen |-> [f \in Files |-> 0]]

Job(st, b, work) == [st |-> st, base |-> b, work |-> work]
NoJob == Job("off", None, "gone")
NoJobs == [f \in Files |-> NoJob]

Finished == {"done", "failed", "skipped"}
Pairing == {"pairing", "ready"}
Compressing == {"copied", "encoded", "verified", "removed"}

Members(r, f) == {g \in Files : job[r][g].st # "off" /\ GroupOf[g] = GroupOf[f]}

Alone(r, f) == Members(r, f) = {f}

(* sortGroupFiles puts the lowest build number first.                      *)
Lead(r, f) == /\ f \in Members(r, f)
              /\ \A g \in Members(r, f) : BuildNum[f] <= BuildNum[g]

GroupSlotFree(r) ==
  Cardinality({f \in Files : Lead(r, f) /\ job[r][f].st \notin {"queued"} \cup Finished})
    < Workers

PoolSlotFree(r) ==
  Cardinality({f \in Files : ~Alone(r, f) /\ job[r][f].st \in Compressing})
    < FileWorkers

At(r, f, st) == run[r].pc = "work" /\ job[r][f].st = st

Goto(r, f, st) == job' = [job EXCEPT ![r][f] = [@ EXCEPT !.st = st]]

(* One more failure of the given kind.                                     *)
Fault(kind) == /\ kind \in Faults
               /\ faults < MaxFaults
               /\ faults' = faults + 1

-----------------------------------------------------------------------------
Init ==
  /\ uploaded = {}
  /\ disk = [f \in Files |-> "gone"]
  /\ delta = [f \in Files |-> NoDelta]
  /\ row = [f \in Files |-> NoRow]
  /\ dirStatus = [d \in Dirs |-> "absent"]
  /\ run = [r \in Runs |-> IdleRun]
  /\ job = [r \in Runs |-> NoJobs]
  /\ faults = 0

(* A developer copies a new build under a scan root.                       *)
Upload(f) ==
  /\ f \notin uploaded
  /\ uploaded' = uploaded \cup {f}
  /\ disk' = [disk EXCEPT ![f] = "orig"]
  /\ UNCHANGED <<delta, row, dirStatus, run, job, faults>>

-----------------------------------------------------------------------------
(* Discover.                                                               *)

Start(r, mode, scope) ==
  /\ run[r].pc = "idle"
  /\ mode \in Modes
  /\ run' = [run EXCEPT ![r] = [IdleRun EXCEPT
               !.pc = "discover", !.mode = mode, !.scope = scope,
               !.left = {d \in scope : \E f \in uploaded : DirOf[f] = d}]]
  /\ UNCHANGED <<uploaded, disk, delta, row, dirStatus, job, faults>>

StartIngest(r) == Start(r, "ingest", Dirs)

StartBackfill(r) ==
  \E mode \in {"backfill", "dry"} :
    \/ Start(r, mode, Dirs)
    \/ \E p \in Projects : Start(r, mode, {d \in Dirs : ProjectOf[d] = p})

(* The sizes of the files of a directory that their rows are behind on.    *)
Changed(d) == [f \in Files |-> IF DirOf[f] = d /\ Present(f) /\ ~UpToDate(f)
                               THEN SizeOf[disk[f]] ELSE 0]

(* The directory is registered, its files are listed with their sizes and  *)
(* compared with the snapshots of their rows.                              *)
WalkDir(r, d) ==
  /\ run[r].pc = "discover" /\ d \in run[r].left
  /\ dirStatus' = [dirStatus EXCEPT ![d] = IF @ = "absent" THEN "pending" ELSE @]
  /\ run' = [run EXCEPT ![r] = [@ EXCEPT
               !.pc = "register",
               !.left = run[r].left \ {d},
               !.seen = Changed(d)]]
  /\ UNCHANGED <<uploaded, disk, delta, row, job, faults>>

Register(r) ==
  /\ run[r].pc = "register"
  /\ row' = [f \in Files |-> IF run[r].seen[f] = 0 THEN row[f]
                             ELSE Upserted(row[f], run[r].seen[f])]
  /\ run' = [run EXCEPT ![r] = [@ EXCEPT !.pc = "discover", !.seen = IdleRun.seen]]
  /\ UNCHANGED <<uploaded, disk, delta, dirStatus, job, faults>>

Discovered(r) == run[r].pc = "discover" /\ run[r].left = {}

-----------------------------------------------------------------------------
(* Listing and grouping.                                                   *)

(* processGroups gives up on every group when a tool is missing.           *)
StartJobs(r, files) ==
  \/ /\ job' = [job EXCEPT ![r] = [f \in Files |->
                  IF f \in files THEN Job("queued", None, "gone") ELSE NoJob]]
     /\ UNCHANGED faults
  \/ Fault("tool") /\ UNCHANGED job

ListAllPending(r) ==
  /\ Discovered(r) /\ run[r].mode = "ingest"
  /\ IF Pending = {}
     THEN run' = [run EXCEPT ![r] = IdleRun] /\ UNCHANGED <<job, faults>>
     ELSE /\ run' = [run EXCEPT ![r] = [@ EXCEPT !.pc = "work", !.dirs = DirsOf(Pending)]]
          /\ StartJobs(r, Pending)
  /\ UNCHANGED <<uploaded, disk, delta, row, dirStatus>>

(* The first Batch pending directories of the project, by build number.    *)
IsNextBatch(ds, scope) ==
  LET pending == {d \in scope : dirStatus[d] = "pending"}
  IN  /\ ds \subseteq pending
      /\ \/ ds = pending /\ Cardinality(ds) <= Batch
         \/ Cardinality(ds) = Batch
      /\ \A d \in ds, e \in pending \ ds : DirNum[d] <= DirNum[e]

ListPendingDirs(r) ==
  /\ Discovered(r) /\ run[r].mode # "ingest"
  /\ \E ds \in SUBSET Dirs :
       /\ IsNextBatch(ds, run[r].scope)
       /\ run' = IF ds = {} \/ run[r].mode = "dry"
                 THEN [run EXCEPT ![r] = IdleRun]
                 ELSE [run EXCEPT ![r] = [@ EXCEPT !.pc = "claim", !.dirs = ds]]
  /\ UNCHANGED <<uploaded, disk, delta, row, dirStatus, job, faults>>

ClaimDirs(r) ==
  /\ run[r].pc = "claim"
  /\ dirStatus' = [d \in Dirs |-> IF d \in run[r].dirs THEN "processing" ELSE dirStatus[d]]
  /\ run' = [run EXCEPT ![r] = [@ EXCEPT !.pc = "work"]]
  /\ StartJobs(r, {f \in Pending : DirOf[f] \in run[r].dirs})
  /\ UNCHANGED <<uploaded, disk, delta, row>>

-----------------------------------------------------------------------------
(* processGroup: the base of a group of two files or more.                 *)

StampBase(r, f) ==
  /\ At(r, f, "queued") /\ Lead(r, f) /\ ~Alone(r, f) /\ GroupSlotFree(r)
  /\ Present(f)
  /\ disk' = [disk EXCEPT ![f] = Preprocessed(@)]
  /\ Goto(r, f, "stamped")
  /\ UNCHANGED <<uploaded, delta, row, dirStatus, run, faults>>

MarkBase(r, f) ==
  /\ At(r, f, "stamped") /\ ~Alone(r, f)
  /\ Present(f)
  /\ row' = [row EXCEPT ![f] = MarkedDone(@, "base", None, disk[f])]
  /\ job' = [job EXCEPT ![r] = [g \in Files |->
               IF g = f THEN Job("base", None, "gone")
               ELSE IF g \in Members(r, f) THEN Job("ready", f, "gone") ELSE @[g]]]
  /\ UNCHANGED <<uploaded, disk, delta, dirStatus, run, faults>>

(* Any failure on the base abandons the group: only the base is marked.    *)
AbortGroup(r, f) ==
  /\ ~Alone(r, f)
  /\ \/ /\ At(r, f, "queued") /\ Lead(r, f) /\ GroupSlotFree(r)
        /\ \/ ~Present(f) /\ UNCHANGED <<disk, faults>>
           \/ /\ Present(f) /\ Preprocess /\ Fault("tool")
              /\ \E x \in HalfPreprocessed(disk[f]) : disk' = [disk EXCEPT ![f] = x]
     \/ /\ At(r, f, "stamped")
        /\ \/ ~Present(f) /\ UNCHANGED faults
           \/ Present(f) /\ Fault("db")
        /\ UNCHANGED disk
  /\ row' = [row EXCEPT ![f] = MarkedError(@)]
  /\ job' = [job EXCEPT ![r] = [g \in Files |->
               IF g = f THEN Job("failed", None, "gone")
               ELSE IF g \in Members(r, f) THEN Job("skipped", None, "gone") ELSE @[g]]]
  /\ UNCHANGED <<uploaded, delta, dirStatus, run>>

(* Mutant of JoinTargets: a failed target also fails the base.             *)
JoinTargetsAndBase(r, f) ==
  LET failed == {g \in Members(r, f) : job[r][g].st = "failed"}
  IN  /\ At(r, f, "base")
      /\ \A g \in Members(r, f) \ {f} : job[r][g].st \in Finished
      /\ row' = [g \in Files |-> IF g \in failed \/ (g = f /\ failed # {})
                                 THEN MarkedError(row[g]) ELSE row[g]]
      /\ Goto(r, f, IF CompressBase THEN "joined" ELSE "done")
      /\ UNCHANGED <<uploaded, disk, delta, dirStatus, run, faults>>

(* After wg.Wait the targets that failed are marked.                       *)
JoinTargets(r, f) ==
  /\ At(r, f, "base")
  /\ \A g \in Members(r, f) \ {f} : job[r][g].st \in Finished
  /\ row' = [g \in Files |-> IF g \in Members(r, f) /\ job[r][g].st = "failed"
                             THEN MarkedError(row[g]) ELSE row[g]]
  /\ Goto(r, f, IF CompressBase THEN "joined" ELSE "done")
  /\ UNCHANGED <<uploaded, disk, delta, dirStatus, run, faults>>

CompressInPlace(r, f) ==
  /\ At(r, f, "joined")
  /\ Present(f)
  /\ disk' = [disk EXCEPT ![f] = "zstd"]
  /\ Goto(r, f, "done")
  /\ UNCHANGED <<uploaded, delta, row, dirStatus, run, faults>>

CompressInPlaceFails(r, f) ==
  /\ At(r, f, "joined")
  /\ \/ ~Present(f) /\ UNCHANGED faults
     \/ Present(f) /\ Fault("tool")
  /\ row' = [row EXCEPT ![f] = MarkedError(@)]
  /\ Goto(r, f, "failed")
  /\ UNCHANGED <<uploaded, disk, delta, dirStatus, run>>

-----------------------------------------------------------------------------
(* runGroupJob on a group of one file: it is compressed against a base or  *)
(* a full file the database already has for the group, or kept full.       *)

(* Mutant of Candidates: the status of the row is not asked for.           *)
AnyStatusCandidates(f) ==
  {b \in Files \ {f} : row[b].kind \in {"base", "full"} /\ GroupOf[b] = GroupOf[f]}

Candidates(f) ==
  {b \in Files \ {f} : /\ row[b].status = "done"
                       /\ row[b].kind \in {"base", "full"}
                       /\ GroupOf[b] = GroupOf[f]}

BestCandidate(f, b) ==
  b \in Candidates(f) /\ \A c \in Candidates(f) : BuildNum[b] <= BuildNum[c]

StartSingle(r, f) == At(r, f, "queued") /\ Alone(r, f) /\ GroupSlotFree(r)

PairWithBase(r, f) ==
  /\ StartSingle(r, f)
  /\ \E b \in Files :
       /\ BestCandidate(f, b) /\ row[b].kind = "base"
       /\ job' = [job EXCEPT ![r][f] = Job("ready", b, "gone")]
  /\ UNCHANGED <<uploaded, disk, delta, row, dirStatus, run, faults>>

(* prepareBaseForDelta on a full file.                                     *)
StampFull(r, f) ==
  /\ StartSingle(r, f)
  /\ \E b \in Files :
       /\ BestCandidate(f, b) /\ row[b].kind = "full" /\ Present(b)
       /\ disk' = [disk EXCEPT ![b] = Preprocessed(@)]
       /\ job' = [job EXCEPT ![r][f] = Job("pairing", b, "gone")]
  /\ UNCHANGED <<uploaded, delta, row, dirStatus, run, faults>>

MarkFullAsBase(r, f) ==
  LET b == job[r][f].base
  IN  /\ At(r, f, "pairing")
      /\ Present(b)
      /\ row' = [row EXCEPT ![b] = MarkedDone(@, "base", None, disk[b])]
      /\ Goto(r, f, "ready")
      /\ UNCHANGED <<uploaded, disk, delta, dirStatus, run, faults>>

(* Mutant of KeepFull: the row stays as it is.                             *)
KeepFullUnmarked(r, f) ==
  /\ StartSingle(r, f)
  /\ Candidates(f) = {} /\ Present(f)
  /\ Goto(r, f, "done")
  /\ UNCHANGED <<uploaded, disk, delta, row, dirStatus, run, faults>>

KeepFull(r, f) ==
  /\ StartSingle(r, f)
  /\ Candidates(f) = {} /\ Present(f)
  /\ row' = [row EXCEPT ![f] = MarkedDone(@, "full", None, disk[f])]
  /\ Goto(r, f, "done")
  /\ UNCHANGED <<uploaded, disk, delta, dirStatus, run, faults>>

SingleFails(r, f) ==
  /\ \/ /\ StartSingle(r, f)
        /\ \/ \E b \in Files :
                /\ BestCandidate(f, b) /\ row[b].kind = "full"
                /\ \/ ~Present(b) /\ UNCHANGED <<disk, faults>>
                   \/ /\ Present(b) /\ Preprocess /\ Fault("tool")
                      /\ \E x \in HalfPreprocessed(disk[b]) :
                           disk' = [disk EXCEPT ![b] = x]
           \/ /\ Candidates(f) = {}
              /\ \/ ~Present(f) /\ UNCHANGED faults
                 \/ Present(f) /\ Fault("db")
              /\ UNCHANGED disk
     \/ /\ At(r, f, "pairing")
        /\ \/ ~Present(job[r][f].base) /\ UNCHANGED faults
           \/ Present(job[r][f].base) /\ Fault("db")
        /\ UNCHANGED disk
  /\ row' = [row EXCEPT ![f] = MarkedError(@)]
  /\ Goto(r, f, "failed")
  /\ UNCHANGED <<uploaded, delta, dirStatus, run>>

-----------------------------------------------------------------------------
(* compressOne.  The target of a group waits for a slot of the pool; a     *)
(* file that is alone does not use the pool.                               *)

MayCompress(r, f) == At(r, f, "ready") /\ (Alone(r, f) \/ PoolSlotFree(r))

(* Mutant of CopyTarget: targets ask for a slot of the groups, one of      *)
(* which their own group holds.                                            *)
CopyTargetSharing(r, f) ==
  /\ At(r, f, "ready") /\ Present(f)
  /\ job' = IF Alone(r, f) \/ GroupSlotFree(r)
            THEN [job EXCEPT ![r][f] = [@ EXCEPT !.st = "copied", !.work = Preprocessed(disk[f])]]
            ELSE job
  /\ UNCHANGED <<uploaded, disk, delta, row, dirStatus, run, faults>>

CopyTarget(r, f) ==
  /\ MayCompress(r, f)
  /\ Present(f)
  /\ job' = [job EXCEPT ![r][f] = [@ EXCEPT !.st = "copied", !.work = Preprocessed(disk[f])]]
  /\ UNCHANGED <<uploaded, disk, delta, row, dirStatus, run, faults>>

(* Mutant of CanEncode: xdelta3 is told to overwrite.                      *)
CanAlwaysEncode(r, f) == Present(job[r][f].base)

CanEncode(r, f) == Present(job[r][f].base) /\ (Overwrites \/ delta[f] = NoDelta)

Encode(r, f) ==
  LET b == job[r][f].base
  IN  /\ At(r, f, "copied") /\ CanEncode(r, f)
      /\ \/ /\ delta' = [delta EXCEPT ![f] = Delta(b, disk[b], job[r][f].work)]
            /\ UNCHANGED faults
         \/ /\ delta' = [delta EXCEPT ![f] = Delta(b, disk[b], "junk")]
            /\ Fault("tool")
      /\ Goto(r, f, "encoded")
      /\ UNCHANGED <<uploaded, disk, row, dirStatus, run>>

(* Mutant of VerifySucceeds: the decoded hash is not compared.             *)
VerifyUnchecked(r, f) == TRUE

VerifySucceeds(r, f) ==
  LET b == job[r][f].base
  IN  Decodes(delta[f], b, disk[b], job[r][f].work)

Verify(r, f) ==
  /\ At(r, f, "encoded") /\ VerifySucceeds(r, f)
  /\ Goto(r, f, "verified")
  /\ UNCHANGED <<uploaded, disk, delta, row, dirStatus, run, faults>>

RemoveOriginal(r, f) ==
  /\ At(r, f, "verified") /\ Present(f)
  /\ disk' = [disk EXCEPT ![f] = "gone"]
  /\ Goto(r, f, "removed")
  /\ UNCHANGED <<uploaded, delta, row, dirStatus, run, faults>>

(* Mutant of MarkDelta: the row does not say which base it needs.          *)
MarkDeltaUnlinked(r, f) ==
  /\ At(r, f, "removed") /\ delta[f] # NoDelta
  /\ row' = [row EXCEPT ![f] = MarkedDone(@, "delta", None, job[r][f].work)]
  /\ Goto(r, f, "done")
  /\ UNCHANGED <<uploaded, disk, delta, dirStatus, run, faults>>

MarkDelta(r, f) ==
  /\ At(r, f, "removed") /\ delta[f] # NoDelta
  /\ row' = [row EXCEPT ![f] = MarkedDone(@, "delta", job[r][f].base, job[r][f].work)]
  /\ Goto(r, f, "done")
  /\ UNCHANGED <<uploaded, disk, delta, dirStatus, run, faults>>

(* Mutant of FailTarget: compressOne is tried again.                       *)
RetryTarget(r, f) == Goto(r, f, "ready") /\ UNCHANGED <<uploaded, disk, row, dirStatus, run>>

(* The error of a file that is alone is recorded at once, that of a target *)
(* when its group joins.                                                   *)
FailTarget(r, f) ==
  /\ row' = IF Alone(r, f) THEN [row EXCEPT ![f] = MarkedError(@)] ELSE row
  /\ Goto(r, f, "failed")
  /\ UNCHANGED <<uploaded, disk, dirStatus, run>>

CopyFails(r, f) ==
  /\ MayCompress(r, f)
  /\ \/ ~Present(f) /\ UNCHANGED faults
     \/ Present(f) /\ Fault("tool")
  /\ FailTarget(r, f)
  /\ UNCHANGED delta

EncodeFails(r, f) ==
  LET b == job[r][f].base
  IN  /\ At(r, f, "copied")
      /\ \/ ~CanEncode(r, f) /\ UNCHANGED <<delta, faults>>
         \/ /\ CanEncode(r, f) /\ Fault("tool")
            /\ \/ UNCHANGED delta
               \/ delta' = [delta EXCEPT ![f] = Delta(b, disk[b], "junk")]
      /\ FailTarget(r, f)

VerifyFails(r, f) ==
  /\ At(r, f, "encoded")
  /\ \/ ~VerifySucceeds(r, f) /\ UNCHANGED faults
     \/ VerifySucceeds(r, f) /\ Fault("tool")
  /\ delta' = [delta EXCEPT ![f] = NoDelta]
  /\ FailTarget(r, f)

RemoveFails(r, f) ==
  /\ At(r, f, "verified")
  /\ \/ ~Present(f) /\ UNCHANGED faults
     \/ Present(f) /\ Fault("tool")
  /\ FailTarget(r, f)
  /\ UNCHANGED delta

MarkDeltaFails(r, f) ==
  /\ At(r, f, "removed")
  /\ \/ delta[f] = NoDelta /\ UNCHANGED faults
     \/ delta[f] # NoDelta /\ Fault("db")
  /\ FailTarget(r, f)
  /\ UNCHANGED delta

-----------------------------------------------------------------------------
(* FinishBuildDirIfDone on each directory of the run.                      *)

SettledStatus(d) ==
  LET inDir(st) == \E f \in Files : DirOf[f] = d /\ row[f].status = st
  IN  CASE inDir("pending")                   -> dirStatus[d]
        [] ~inDir("pending") /\ inDir("error") -> "error"
        [] OTHER                               -> "done"

FinishRun(r) ==
  /\ run[r].pc = "work"
  /\ \A f \in Files : job[r][f].st \in Finished \cup {"off"}
  /\ dirStatus' = [d \in Dirs |-> IF d \in run[r].dirs THEN SettledStatus(d) ELSE dirStatus[d]]
  /\ run' = [run EXCEPT ![r] = IdleRun]
  /\ job' = [job EXCEPT ![r] = NoJobs]
  /\ UNCHANGED <<uploaded, disk, delta, row, faults>>

(* An error of the database outside the work on a group ends the run; one  *)
(* that claimed directories leaves them claimed.                           *)
RunAborts(r) ==
  /\ run[r].pc \in {"discover", "register", "claim"}
  /\ Fault("db")
  /\ dirStatus' = [d \in Dirs |-> IF run[r].pc = "claim" /\ d \in run[r].dirs
                                  THEN "processing" ELSE dirStatus[d]]
  /\ run' = [run EXCEPT ![r] = IdleRun]
  /\ UNCHANGED <<uploaded, disk, delta, row, job>>

(* The server process dies: what a run knew is lost, its effects stay.     *)
Crash ==
  /\ \E r \in Runs : run[r].pc # "idle"
  /\ Fault("crash")
  /\ run' = [r \in Runs |-> IdleRun]
  /\ job' = [r \in Runs |-> NoJobs]
  /\ UNCHANGED <<uploaded, disk, delta, row, dirStatus>>

-----------------------------------------------------------------------------
DiscoverStep(r) == (\E d \in Dirs : WalkDir(r, d)) \/ Register(r)

ListStep(r) == ListAllPending(r) \/ ListPendingDirs(r) \/ ClaimDirs(r)

GroupStep(r, f) ==
  \/ StampBase(r, f) \/ MarkBase(r, f) \/ AbortGroup(r, f) \/ JoinTargets(r, f)
  \/ CompressInPlace(r, f) \/ CompressInPlaceFails(r, f)

SingleStep(r, f) ==
  \/ PairWithBase(r, f) \/ StampFull(r, f) \/ MarkFullAsBase(r, f)
  \/ KeepFull(r, f) \/ SingleFails(r, f)

CompressStep(r, f) ==
  \/ CopyTarget(r, f) \/ Encode(r, f) \/ Verify(r, f)
  \/ RemoveOriginal(r, f) \/ MarkDelta(r, f)

FailStep(r, f) ==
  \/ CopyFails(r, f) \/ EncodeFails(r, f) \/ VerifyFails(r, f)
  \/ RemoveFails(r, f) \/ MarkDeltaFails(r, f)

RunStep(r) ==
  \/ DiscoverStep(r) \/ ListStep(r) \/ FinishRun(r) \/ RunAborts(r)
  \/ \E f \in Files : GroupStep(r, f) \/ SingleStep(r, f) \/ CompressStep(r, f) \/ FailStep(r, f)

Next ==
  \/ \E f \in Files : Upload(f)
  \/ \E r \in Runs : StartIngest(r) \/ StartBackfill(r) \/ RunStep(r)
  \/ Crash

Spec == Init /\ [][Next]_vars

(* A run that was started goes on, and ingest is started again and again   *)
(* by the scan ticker.                                                     *)
Fairness == \A r \in Runs : WF_vars(RunStep(r)) /\ WF_vars(StartIngest(r))

FairSpec == Spec /\ Fairness

-----------------------------------------------------------------------------
(* Types.                                                                  *)

RowType == [status : {"absent", "pending", "done", "error"},
            kind : {"full", "base", "delta"},
            base : Files \cup {None},
            sha : Forms \cup {"gone"},
            blob : BOOLEAN,
            osize : Nat]

RunType == [pc : {"idle", "discover", "register", "claim", "work"},
            mode : {"ingest", "backfill", "dry"},
            scope : SUBSET Dirs, left : SUBSET Dirs, dirs : SUBSET Dirs,
            seen : [Files -> Nat]]

(* A job that compresses, or is about to, has a base.                      *)
JobType ==
  {j \in [st : {"off", "queued", "stamped", "base", "joined"}
                 \cup Pairing \cup Compressing \cup Finished,
          base : Files \cup {None},
          work : Forms \cup {"gone"}] :
     j.st \in Pairing \cup Compressing => j.base \in Files}

DeltaType == [base : Files \cup {None}, from : Forms \cup {"gone"},
              to : Forms \cup {"gone", "junk"}]

(* Every variable stays in its type: rows, runs and jobs only take the     *)
(* statuses of storage/dedup.go and the stages of internal/dedup.          *)
TypeOK ==
  /\ uploaded \subseteq Files
  /\ disk \in [Files -> Forms \cup {"gone"}]
  /\ delta \in [Files -> DeltaType]
  /\ row \in [Files -> RowType]
  /\ dirStatus \in [Dirs -> {"absent", "pending", "processing", "done", "error"}]
  /\ run \in [Runs -> RunType]
  /\ job \in [Runs -> [Files -> JobType]]
  /\ faults \in Nat

-----------------------------------------------------------------------------
(* RestoreToCacheWithOpts: what a request for the file at path f finds.    *)

(* The bytes handed to xdelta3 -d: with CompressBase a decompressed copy.  *)
RestoreForm(b) == IF CompressBase /\ Present(b) THEN Decompressed(disk[b]) ELSE disk[b]

Restores(f, b, sha) == b # None /\ Decodes(delta[f], b, RestoreForm(b), sha)

Served(f) == IF row[f].kind = "delta" THEN Restores(f, row[f].base, row[f].sha)
             ELSE Present(f)

(* A run has removed the original and is about to record the delta.        *)
Held(f) == \/ Served(f)
           \/ \E r \in Runs : /\ At(r, f, "removed")
                             /\ Restores(f, job[r][f].base, job[r][f].work)

Dependents(b) == {f \in Files : row[f].kind = "delta" /\ row[f].base = b}

-----------------------------------------------------------------------------
(* Safety.                                                                 *)

(* No file is ever lost: what was uploaded can be restored, at once or as  *)
(* soon as the run that is replacing it records its delta.                 *)
Recoverable == \A f \in uploaded : Held(f)

(* Whatever overlaps, crashes or fails, an original only leaves the disk   *)
(* with a delta in its place that decodes to a form of the file: xdelta3's *)
(* refusal to overwrite keeps a second run from replacing or deleting it.  *)
DeltaLeft == \A f \in uploaded : Present(f) \/ (delta[f].base # f /\ delta[f].to \in Forms)

(* The file a recorded delta was encoded against is still on disk.         *)
BaseKept == \A f \in Files : row[f].kind = "delta" => Present(row[f].base)

(* compressOne removes an original only when the delta next to it decodes  *)
(* to its preprocessed form from the base as it is on disk at that moment. *)
RemovalVerified ==
  [][\A f \in Files : Present(f) /\ disk'[f] = "gone"
       => \E b \in Files \ {f} : Decodes(delta[f], b, disk[b], Preprocessed(disk[f]))]_vars

(* As long as a recorded delta needs it, a base keeps its bytes and its    *)
(* role: it is not registered again, replaced by a delta or converted.     *)
BasesFrozen ==
  [][\A b \in Files : Dependents(b) # {}
       => disk'[b] = disk[b] /\ row'[b].kind = "base" /\ row'[b].status = "done"]_vars

-----------------------------------------------------------------------------
(* Liveness.                                                               *)

(* Every run that is started ends.                                         *)
RunsEnd == \A r \in Runs : (run[r].pc # "idle") ~> (run[r].pc = "idle")

(* A registered file does not stay pending for ever.                       *)
PendingSettles ==
  \A f \in Files : (row[f].status = "pending") ~> (row[f].status # "pending")

(* When nothing is uploaded any more, repeated ingests come to rest: no    *)
(* file is registered again because of what the pipeline itself did to it. *)
Converges == <>[](Pending = {})

(* The pipeline implements the promise of DebugStore.                      *)
HeldFiles == {f \in uploaded : Held(f)}
ReachableFiles == {f \in uploaded : Served(f)}

Store == INSTANCE DebugStore WITH held <- HeldFiles, reachable <- ReachableFiles

StoreSafety == Store!StoreSafety
StoreSpec == Store!StoreSpec
=============================================================================
