------------------------------ MODULE IndexProofs ------------------------------
(***************************************************************************)
(* Proofs about the index of the server, for any files, workers, times,    *)
(* failures, requests and ends of the process.                             *)
(***************************************************************************)
EXTENDS Daemon, TLAPS

Times == Stamps \cup {0}

-----------------------------------------------------------------------------
(* The inductive invariant.                                                *)

(* What is on the disk.  A path that was never written has stamp 0.        *)
DiskInv ==
  /\ disk \in [Paths -> [stamp : Times, there : BOOLEAN]]
  /\ \A p \in Paths : disk[p].there => disk[p].stamp \in Stamps
  /\ stable \subseteq {p \in Paths : disk[p].there}
  /\ covered \subseteq Paths

RowsInv ==
  /\ \A k \in DOMAIN rows : rows[k].path \in Paths /\ rows[k].mtime \in Stamps
  /\ RowsTrue

(* A mark is as old as some file at the path, and never younger than it.   *)
ScannedInv ==
  /\ scanned \in [Paths -> Times]
  /\ \A p \in Paths : scanned[p] <= disk[p].stamp
  /\ ScannedIsIndexed

QueueJobs == [path : Paths, stamp : Stamps]

QueueInv ==
  /\ queue \in Seq(QueueJobs)
  /\ \A i \in DOMAIN queue : queue[i].stamp <= disk[queue[i].path].stamp

(* The jobs are records of these fields.                                   *)
JobRecords ==
  /\ job = [w \in Workers |-> job[w]]
  /\ \A w \in Workers :
       job[w] = [step |-> job[w].step, path |-> job[w].path, stamp |-> job[w].stamp,
                 id |-> job[w].id, left |-> job[w].left]

Fresh(w) == job[w].stamp = disk[job[w].path].stamp

Has(k, s) == k \in DOMAIN rows /\ rows[k].mtime >= s

(* Each key of the package is in the index or is still to come.            *)
ToCome(p, s, left) ==
  \A k \in Keys(p, s) :
    Has(k, s) \/ \E m \in left : m.body # Missing /\ MemberKey(p, m.name, m.body) = k

(* What a worker has in hand, if the file has not changed since the walk.  *)
JobInv(w) ==
  LET p == job[w].path
      s == job[w].stamp
  IN
  /\ job[w].step \in {"idle", "read", "add", "mark", "list", "members"}
  /\ ~At(w, "idle") => p \in Paths /\ s \in Stamps /\ s <= disk[p].stamp
  /\ At(w, "read") \/ At(w, "add") => p \in Plain
  /\ At(w, "list") \/ At(w, "members") => p \notin Plain
  /\ At(w, "add") /\ Fresh(w) => Keys(p, s) = {job[w].id}
  /\ At(w, "mark") /\ p \in Complete /\ Fresh(w) => Indexed(p, s)
  /\ At(w, "members") /\ p \in Faithful /\ Fresh(w) =>
       \A m \in job[w].left : MemberKey(p, m.name, m.body) \in Keys(p, s) \cup {NoId}
  /\ At(w, "members") /\ p \in Complete /\ Fresh(w) => ToCome(p, s, job[w].left)

JobsInv == JobRecords /\ \A w \in Workers : JobInv(w)

(* A file the scan has not lost sight of.                                  *)
Queued(p) == \E i \in DOMAIN queue : queue[i].path = p /\ queue[i].stamp = disk[p].stamp
InWork(p) == \E w \in Workers : ~At(w, "idle") /\ job[w].path = p /\ Fresh(w)
Underway(p) == p \in toWalk \/ Queued(p) \/ InWork(p)

CoverInv ==
  /\ errors \in Nat
  /\ errors = 0 => \A p \in stable \cap Complete : Underway(p) \/ Indexed(p, disk[p].stamp)
  /\ CleanScanCovers

IndexInv ==
  /\ DiskInv /\ RowsInv /\ ScannedInv /\ QueueInv /\ JobsInv /\ CoverInv

-----------------------------------------------------------------------------
(* The steps of the server as the index sees them.                         *)
IndexStep ==
  \/ StartWalk \/ WalkStep \/ (\E w \in Workers : WorkerStep(w)) \/ EndWalk
  \/ \E p \in Paths : DeleteFile(p) \/ \E s \in Stamps : WriteFile(p, s)
  \/ IndexLost
  \/ UNCHANGED OnDisk

LEMMA StepsOfRequests ==
  ASSUME NEW q \in Requests, RequestStep(q)
  PROVE  UNCHANGED OnDisk
BY DEF RequestStep, FindNoRow, FindRow, ServePath, Stream, Stat, Create, Fill, FillFails,
       OpenCopy, Cleanup, indexVars, OnDisk

LEMMA StepsOfTheIndex == [Next]_vars => IndexStep
<1>1. ASSUME Next PROVE IndexStep
  <2>1. CASE LoopGoesOn \/ AskRescan \/ Signal \/ Start
    BY <2>1 DEF LoopGoesOn, AskRescan, Signal, Start, OnlyRunner, IndexStep, indexVars, OnDisk
  <2>2. CASE CallScan \/ ReturnScan \/ Stop
    BY <2>2 DEF CallScan, ReturnScan, Stop, IndexStep
  <2>3. CASE ScanStep \/ FileChange
    BY <2>3 DEF ScanStep, FileChange, IndexStep
  <2>4. CASE AskFile
    BY <2>4 DEF AskFile, Request, IndexStep, indexVars, OnDisk
  <2>5. CASE ServeStep
    BY <2>5, StepsOfRequests DEF ServeStep, IndexStep
  <2>6. QED
    BY <1>1, <2>1, <2>2, <2>3, <2>4, <2>5 DEF Next
<1>2. ASSUME UNCHANGED vars PROVE IndexStep
  BY <1>2 DEF vars, IndexStep, indexVars, OnDisk
<1>3. QED
  BY <1>1, <1>2

-----------------------------------------------------------------------------
(* Facts about rows and keys.                                              *)

(* Rows are never lost and never get older.                                *)
Renewed(old, new) ==
  \A k \in DOMAIN old : k \in DOMAIN new /\ new[k].mtime >= old[k].mtime

TimesOk(table) == \A k \in DOMAIN table : table[k].mtime \in Nat

(* What Upsert does: the row comes in unless a younger one is there.       *)
LEMMA UpsertFacts ==
  ASSUME NEW table, NEW key, NEW row, TimesOk(table), row.mtime \in Nat
  PROVE  LET new == Upsert(table, key, row)
         IN /\ Renewed(table, new)
            /\ key \in DOMAIN new /\ new[key].mtime >= row.mtime
            /\ \A k \in DOMAIN new :
                 \/ k = key /\ new[k] = row
                 \/ k \in DOMAIN table /\ new[k] = table[k]
<1> DEFINE new == Upsert(table, key, row)
<1>1. CASE key \in DOMAIN table /\ table[key].mtime > row.mtime
  BY <1>1 DEF Upsert, Renewed, TimesOk
<1>2. CASE ~(key \in DOMAIN table /\ table[key].mtime > row.mtime)
  <2>1. new = [k \in DOMAIN table \cup {key} |-> IF k = key THEN row ELSE table[k]]
    BY <1>2 DEF Upsert
  <2>2. DOMAIN new = DOMAIN table \cup {key} /\ new[key] = row
    BY <2>1
  <2>3. \A k \in DOMAIN table : k # key => new[k] = table[k]
    BY <2>1
  <2>4. key \in DOMAIN table => row.mtime >= table[key].mtime
    BY <1>2 DEF TimesOk
  <2>5. QED
    BY <2>2, <2>3, <2>4 DEF Renewed, TimesOk
<1>3. QED
  BY <1>1, <1>2

LEMMA TimesAreNumbers ==
  /\ IndexAssumption => Times \subseteq Nat /\ Stamps \subseteq Nat /\ 0 \notin Stamps
  /\ IndexAssumption /\ RowsInv => TimesOk(rows)
BY DEF IndexAssumption, Times, RowsInv, TimesOk

(* What is indexed stays so.                                               *)
LEMMA IndexedStays ==
  ASSUME TimesOk(rows), TimesOk(rows'), Renewed(rows, rows'), NEW p, NEW s \in Nat
  PROVE  /\ Indexed(p, s) => Indexed(p, s)'
         /\ \A k : Has(k, s) => Has(k, s)'
         /\ \A left : ToCome(p, s, left) => ToCome(p, s, left)'
<1>1. \A k : Has(k, s) => Has(k, s)'
  BY DEF Has, Renewed, TimesOk
<1>2. Indexed(p, s) => Indexed(p, s)'
  BY DEF Indexed, Renewed, TimesOk
<1>3. ASSUME NEW left, ToCome(p, s, left) PROVE ToCome(p, s, left)'
  BY <1>1, <1>3 DEF ToCome
<1>4. QED
  BY <1>1, <1>2, <1>3

(* A file without an id offers no key, one with an id that one.            *)
LEMMA PlainKeys ==
  ASSUME IndexAssumption, NEW p \in Plain, NEW s \in Stamps
  PROVE  /\ Holds[p][s].type # "elf" => Keys(p, s) = {}
         /\ Holds[p][s].type = "elf" /\ Holds[p][s].id = NoId => Keys(p, s) = {}
         /\ Holds[p][s].type = "elf" /\ Holds[p][s].id # NoId
              => Keys(p, s) = {Holds[p][s].id}
BY DEF Keys

(* The keys of a package whose index can be relied on are those of its     *)
(* members.                                                                *)
LEMMA PackageKeys ==
  ASSUME NothingAssumption, NEW p \in Faithful, p \in Paths, p \notin Plain, NEW s \in Stamps,
         Holds[p][s].type # "broken"
  PROVE  LET members == MembersOf(p, Holds[p][s].entries)
         IN /\ Keys(p, s) = {MemberKey(p, m.name, m.body) : m \in members} \ {NoId}
            /\ \A m \in members : m.body # Missing
<1> DEFINE members == MembersOf(p, Holds[p][s].entries)
<1>1. Kind[p] # "dsc"
  BY DEF Faithful, Plain
<1>2. \A m \in members : m.body # Missing /\ m.name # NoId
  BY <1>1 DEF NothingAssumption
<1>3. CASE p \in Packages
  <2>1. \A m \in members : m.body.type = "elf"
    BY <1>3 DEF MembersOf, ElfMembers, Listed, Regular
  <2>2. p \notin SourcePackages
    BY <1>3 DEF Packages, SourcePackages
  <2>3. \A m \in members : MemberKey(p, m.name, m.body) = m.body.id
    BY <2>1, <2>2 DEF MemberKey
  <2>4. Keys(p, s) = {m.body.id : m \in members} \ {NoId}
    BY <1>3 DEF Keys, MembersOf
  <2>5. QED
    BY <1>2, <2>3, <2>4
<1>4. CASE p \notin Packages
  <2>1. p \in SourcePackages
    BY <1>4 DEF Plain
  <2>2. \A m \in members : MemberKey(p, m.name, m.body) = m.name
    BY <2>1 DEF MemberKey
  <2>3. Keys(p, s) = {m.name : m \in members}
    BY <1>4, <2>1 DEF Keys, MembersOf
  <2>4. QED
    BY <1>2, <2>2, <2>3
<1>5. QED
  BY <1>3, <1>4

LEMMA NoIdIsNoKey ==
  ASSUME IndexAssumption, NothingAssumption, NEW p \in Faithful, p \in Paths,
         NEW s \in Stamps
  PROVE  NoId \notin Keys(p, s)
<1>1. CASE p \in Plain
  BY <1>1, PlainKeys
<1>2. CASE p \notin Plain /\ Holds[p][s].type = "broken"
  BY <1>2 DEF Keys
<1>3. CASE p \notin Plain /\ Holds[p][s].type # "broken"
  BY <1>3, PackageKeys
<1>4. QED
  BY <1>1, <1>2, <1>3

-----------------------------------------------------------------------------
(* Facts about jobs.                                                       *)

(* A worker goes on with its job.                                          *)
LEMMA GoesOn ==
  ASSUME JobRecords, NEW w \in Workers, NEW step, NEW id, NEW left,
         Continue(w, step, id, left)
  PROVE  /\ JobRecords' /\ \A v \in Workers \ {w} : job'[v] = job[v]
         /\ job'[w].path = job[w].path /\ job'[w].stamp = job[w].stamp
         /\ job'[w].step = step /\ job'[w].id = id /\ job'[w].left = left
BY DEF JobRecords, Continue

LEMMA JobReplaced ==
  ASSUME JobRecords, NEW w \in Workers,
         NEW rec, rec = [step |-> rec.step, path |-> rec.path, stamp |-> rec.stamp,
                         id |-> rec.id, left |-> rec.left],
         job' = [job EXCEPT ![w] = rec]
  PROVE  JobRecords' /\ job'[w] = rec /\ \A v \in Workers \ {w} : job'[v] = job[v]
BY DEF JobRecords

(* A worker whose job a step leaves alone has what it had, as long as      *)
(* stamps do not go back.                                                  *)
LEMMA JobStays ==
  ASSUME IndexAssumption, DiskInv, DiskInv', RowsInv, RowsInv', lazy' = lazy,
         Renewed(rows, rows'), \A p \in Paths : disk'[p].stamp >= disk[p].stamp,
         NEW w \in Workers, JobInv(w), job'[w] = job[w]
  PROVE  JobInv(w)'
<1> DEFINE p == job[w].path
           s == job[w].stamp
<1>1. CASE At(w, "idle")
  BY <1>1 DEF JobInv, At
<1>2. CASE ~At(w, "idle")
  <2>1. p \in Paths /\ s \in Stamps /\ s <= disk[p].stamp
    BY <1>2 DEF JobInv
  <2>2. s \in Nat /\ disk[p].stamp \in Nat /\ disk'[p].stamp \in Nat
    BY <2>1, TimesAreNumbers DEF DiskInv
  <2>3. Fresh(w)' => Fresh(w)
    BY <2>1, <2>2 DEF Fresh
  <2>4. /\ Indexed(p, s) => Indexed(p, s)'
        /\ ToCome(p, s, job[w].left) => ToCome(p, s, job[w].left)'
    BY <2>2, TimesAreNumbers, IndexedStays DEF RowsInv, TimesOk
  <2>5. Faithful' = Faithful /\ Complete' = Complete
    BY DEF Faithful, Complete
  <2>6. s <= disk'[p].stamp
    BY <2>1, <2>2
  <2>7. QED
    BY <1>2, <2>1, <2>3, <2>4, <2>5, <2>6 DEF JobInv, At
<1>3. QED
  BY <1>1, <1>2

-----------------------------------------------------------------------------
(* Steps that leave the files alone.                                       *)

LEMMA KeptWhileFilesStay ==
  ASSUME IndexAssumption, IndexInv, UNCHANGED <<lazy, disk>>, RowsInv',
         Renewed(rows, rows')
  PROVE  /\ UNCHANGED <<stable, covered>> => DiskInv'
         /\ UNCHANGED scanned => ScannedInv'
         /\ UNCHANGED queue => QueueInv'
         /\ UNCHANGED covered => CleanScanCovers'
         /\ \A p \in Paths : Indexed(p, disk[p].stamp) => Indexed(p, disk[p].stamp)'
         /\ DiskInv' => \A w \in Workers : job'[w] = job[w] => JobInv(w)'
<1>1. TimesOk(rows) /\ TimesOk(rows)'
  BY TimesAreNumbers DEF IndexInv, RowsInv, TimesOk
<1>2. Complete' = Complete /\ Complete \subseteq Paths
  BY DEF Faithful, Complete, Plain, Packages, SourcePackages
<1>3. \A p \in Paths, s \in Times : Indexed(p, s) => Indexed(p, s)'
  BY <1>1, IndexedStays, TimesAreNumbers
<1>4. \A p \in Paths : disk[p].stamp \in Times /\ disk[p].stamp \in Nat
  BY TimesAreNumbers DEF IndexInv, DiskInv
<1>5. UNCHANGED <<stable, covered>> => DiskInv'
  BY DEF IndexInv, DiskInv
<1>6. UNCHANGED scanned => ScannedInv'
  BY <1>2, <1>3 DEF IndexInv, ScannedInv, ScannedIsIndexed
<1>7. UNCHANGED queue => QueueInv'
  BY DEF IndexInv, QueueInv
<1>8. \A p \in Paths : Indexed(p, disk[p].stamp) => Indexed(p, disk[p].stamp)'
  BY <1>3, <1>4
<1>9. UNCHANGED covered => CleanScanCovers'
  BY <1>2, <1>8 DEF IndexInv, CoverInv, CleanScanCovers
<1>10. ASSUME DiskInv', NEW w \in Workers, job'[w] = job[w] PROVE JobInv(w)'
  <2>1. JobInv(w)
    BY DEF IndexInv, JobsInv
  <2>2. \A p \in Paths : disk'[p].stamp >= disk[p].stamp
    BY <1>4
  <2>3. QED
    BY <1>10, <2>1, <2>2, JobStays DEF IndexInv
<1>11. QED
  BY <1>5, <1>6, <1>7, <1>8, <1>9, <1>10

LEMMA RowsRest == RowsInv /\ UNCHANGED <<rows, disk, lazy>> => RowsInv' /\ Renewed(rows, rows')
<1> SUFFICES ASSUME RowsInv, UNCHANGED <<rows, disk, lazy>>
             PROVE  RowsInv' /\ Renewed(rows, rows')
  OBVIOUS
<1>1. RowsInv'
  BY DEF RowsInv, RowsTrue, Faithful
<1>2. IndexAssumption
  BY IndexAssumption
<1>3. Renewed(rows, rows')
  BY <1>2, TimesAreNumbers DEF Renewed, TimesOk
<1>4. QED
  BY <1>1, <1>3

(* A scan loses sight of no file: each stays under way, or is indexed.     *)
LEMMA NothingLost ==
  ASSUME IndexAssumption, IndexInv, UNCHANGED <<lazy, disk, stable, covered>>, RowsInv',
         Renewed(rows, rows'), errors' \in Nat,
         errors' = 0 => errors = 0,
         errors' = 0 => \A p \in stable \cap Complete :
           Underway(p) => Underway(p)' \/ Indexed(p, disk[p].stamp)'
  PROVE  CoverInv'
<1>1. /\ CleanScanCovers'
      /\ \A p \in Paths : Indexed(p, disk[p].stamp) => Indexed(p, disk[p].stamp)'
  BY KeptWhileFilesStay
<1>2. Complete' = Complete /\ stable \subseteq Paths
  BY DEF Faithful, Complete, IndexInv, DiskInv
<1>3. QED
  BY <1>1, <1>2 DEF IndexInv, CoverInv

(* A step of a worker that goes on with its job, or ends it with an error  *)
(* or after it has indexed the file.                                       *)
LEMMA WorkerKeeps ==
  ASSUME IndexAssumption, IndexInv, UNCHANGED <<lazy, disk, toWalk, queue, stable, covered>>,
         RowsInv', Renewed(rows, rows'), NEW w \in Workers, ~At(w, "idle"),
         \A v \in Workers \ {w} : job'[v] = job[v], errors' \in {errors, errors + 1},
         \/ /\ ~At(w, "idle")'
            /\ job'[w].path = job[w].path /\ job'[w].stamp = job[w].stamp
         \/ errors' = errors + 1
         \/ \A p, s : p = job[w].path /\ s = job[w].stamp /\ p \in Complete /\ Fresh(w)
                       => Indexed(p, s)'
  PROVE  CoverInv'
<1>1. errors \in Nat
  BY DEF IndexInv, CoverInv
<1>2. ASSUME NEW p \in stable \cap Complete, Underway(p), errors' = 0
      PROVE  Underway(p)' \/ Indexed(p, disk[p].stamp)'
  <2>1. CASE p \in toWalk \/ Queued(p)
    BY <2>1 DEF Underway, Queued
  <2>2. ASSUME NEW v \in Workers, ~At(v, "idle"), job[v].path = p, Fresh(v)
        PROVE  Underway(p)' \/ Indexed(p, disk[p].stamp)'
    <3>1. CASE v # w
      BY <2>2, <3>1 DEF Underway, InWork, At, Fresh
    <3>2. CASE v = w
      <4>1. errors' # errors + 1
        BY <1>1, <1>2
      <4>2. CASE /\ ~At(w, "idle")'
                 /\ job'[w].path = job[w].path /\ job'[w].stamp = job[w].stamp
        <5>1. Fresh(w)' /\ job'[w].path = p
          BY <2>2, <3>2, <4>2 DEF Fresh
        <5>2. QED
          BY <4>2, <5>1 DEF Underway, InWork
      <4>3. ASSUME \A x, s : x = job[w].path /\ s = job[w].stamp /\ x \in Complete /\ Fresh(w)
                                => Indexed(x, s)'
            PROVE  Indexed(p, disk[p].stamp)'
        BY <1>2, <2>2, <3>2, <4>3 DEF Fresh
      <4>4. QED
        BY <4>1, <4>2, <4>3
    <3>3. QED
      BY <3>1, <3>2
  <2>3. QED
    BY <1>2, <2>1, <2>2 DEF Underway, InWork
<1>3. QED
  BY <1>1, <1>2, NothingLost

-----------------------------------------------------------------------------
(* The walk.                                                               *)

LEMMA StartWalkKeeps == IndexAssumption /\ IndexInv /\ StartWalk => IndexInv'
<1> SUFFICES ASSUME IndexAssumption, IndexInv, StartWalk PROVE IndexInv'
  OBVIOUS
<1> USE DEF StartWalk
<1>1. RowsInv' /\ Renewed(rows, rows')
  BY RowsRest DEF IndexInv
<1>2. DiskInv'
  BY DEF IndexInv, DiskInv
<1>3. ScannedInv' /\ QueueInv' /\ CleanScanCovers' /\ \A w \in Workers : JobInv(w)'
  BY <1>1, <1>2, KeptWhileFilesStay
<1>4. JobsInv'
  BY <1>3 DEF IndexInv, JobsInv, JobRecords
<1>5. CoverInv'
  BY <1>2, <1>3 DEF CoverInv, Underway, DiskInv
<1>6. QED
  BY <1>1, <1>2, <1>3, <1>4, <1>5 DEF IndexInv

(* The walk may pass by a file only if there is nothing to index.          *)
LEMMA VisitKeeps ==
  ASSUME IndexAssumption, IndexInv, NEW p \in Paths, Visit(p), UNCHANGED queue,
         p \in stable \cap Complete => Indexed(p, disk[p].stamp)
  PROVE  IndexInv'
<1> USE DEF Visit
<1>1. RowsInv' /\ Renewed(rows, rows')
  BY RowsRest DEF IndexInv
<1>2. DiskInv'
  BY DEF IndexInv, DiskInv
<1>3. /\ ScannedInv' /\ QueueInv'
      /\ \A x \in Paths : Indexed(x, disk[x].stamp) => Indexed(x, disk[x].stamp)'
      /\ \A w \in Workers : JobInv(w)'
  BY <1>1, <1>2, KeptWhileFilesStay
<1>4. JobsInv'
  BY <1>3 DEF IndexInv, JobsInv, JobRecords
<1>5. ASSUME NEW x \in stable \cap Complete, Underway(x)
      PROVE  Underway(x)' \/ Indexed(x, disk[x].stamp)'
  <2>1. CASE x = p
    BY <1>3, <1>5, <2>1
  <2>2. CASE x # p
    BY <1>5, <2>2 DEF Underway, Queued, InWork, At, Fresh
  <2>3. QED
    BY <2>1, <2>2
<1>6. CoverInv'
  BY <1>1, <1>5, NothingLost DEF IndexInv, CoverInv
<1>7. QED
  BY <1>1, <1>2, <1>3, <1>4, <1>6 DEF IndexInv

LEMMA EnqueueKeeps ==
  ASSUME IndexAssumption, IndexInv, NEW p \in Paths, Enqueue(p)
  PROVE  IndexInv'
<1> USE DEF Enqueue, Visit
<1> DEFINE new == [path |-> p, stamp |-> disk[p].stamp]
<1>1. RowsInv' /\ Renewed(rows, rows')
  BY RowsRest DEF IndexInv
<1>2. DiskInv'
  BY DEF IndexInv, DiskInv
<1>3. ScannedInv' /\ \A w \in Workers : JobInv(w)'
  BY <1>1, <1>2, KeptWhileFilesStay
<1>4. JobsInv'
  BY <1>3 DEF IndexInv, JobsInv, JobRecords
<1>5. new \in QueueJobs /\ disk[p].stamp \in Nat
  BY TimesAreNumbers DEF IndexInv, DiskInv, QueueJobs
<1>6. /\ queue' \in Seq(QueueJobs)
      /\ DOMAIN queue' = 1..Len(queue) + 1 /\ DOMAIN queue = 1..Len(queue)
      /\ Len(queue) \in Nat
      /\ \A i \in DOMAIN queue : queue'[i] = queue[i]
      /\ queue'[Len(queue) + 1] = new
  BY <1>5 DEF IndexInv, QueueInv
<1>7. QueueInv'
  <2>1. ASSUME NEW i \in DOMAIN queue'
        PROVE  (queue[i].stamp <= disk[queue[i].path].stamp)'
    <3>1. CASE i \in DOMAIN queue
      BY <1>6, <3>1 DEF IndexInv, QueueInv
    <3>2. CASE i = Len(queue) + 1
      BY <1>5, <1>6, <3>2
    <3>3. QED
      BY <1>6, <2>1, <3>1, <3>2
  <2>2. QED
    BY <1>6, <2>1 DEF QueueInv
<1>8. ASSUME NEW x \in stable \cap Complete, Underway(x)
      PROVE  Underway(x)'
  <2>1. CASE x = p
    <3>1. Len(queue) + 1 \in DOMAIN queue'
      BY <1>6
    <3>2. queue'[Len(queue) + 1].path = p /\ queue'[Len(queue) + 1].stamp = disk'[p].stamp
      BY <1>6
    <3>3. QED
      BY <2>1, <3>1, <3>2 DEF Underway, Queued
  <2>2. CASE x # p
    BY <1>6, <1>8, <2>2 DEF Underway, Queued, InWork, At, Fresh
  <2>3. QED
    BY <2>1, <2>2
<1>9. CoverInv'
  BY <1>1, <1>8, NothingLost DEF IndexInv, CoverInv
<1>10. QED
  BY <1>1, <1>2, <1>3, <1>4, <1>7, <1>9 DEF IndexInv

(* What the walk misses is no longer among the files the scan answers for. *)
LEMMA MissedKeeps ==
  ASSUME IndexAssumption, IndexInv, NEW lost, WalkMisses(lost)
  PROVE  IndexInv'
<1> USE DEF WalkMisses
<1>1. /\ UNCHANGED <<lazy, disk, rows, scanned, queue, job, errors, covered>>
      /\ toWalk' = toWalk \ lost /\ stable' = stable \ lost
  OBVIOUS
<1>2. RowsInv' /\ Renewed(rows, rows')
  BY <1>1, RowsRest DEF IndexInv
<1>3. DiskInv'
  BY <1>1 DEF IndexInv, DiskInv
<1>4. /\ ScannedInv' /\ QueueInv' /\ CleanScanCovers'
      /\ \A x \in Paths : Indexed(x, disk[x].stamp) => Indexed(x, disk[x].stamp)'
      /\ \A w \in Workers : JobInv(w)'
  BY <1>1, <1>2, <1>3, KeptWhileFilesStay
<1>5. JobsInv'
  BY <1>1, <1>4 DEF IndexInv, JobsInv, JobRecords
<1>6. ASSUME errors' = 0, NEW x \in stable' \cap Complete'
      PROVE  Underway(x)' \/ Indexed(x, disk[x].stamp)'
  <2>1. x \in stable \cap Complete /\ x \notin lost /\ x \in Paths
    BY <1>1, <1>6 DEF Complete, Faithful, IndexInv, DiskInv
  <2>2. Underway(x) \/ Indexed(x, disk[x].stamp)
    BY <1>1, <1>6, <2>1 DEF IndexInv, CoverInv
  <2>3. Underway(x) => Underway(x)'
    BY <1>1, <2>1 DEF Underway, Queued, InWork, At, Fresh
  <2>4. QED
    BY <1>4, <2>1, <2>2, <2>3
<1>7. CoverInv'
  BY <1>1, <1>4, <1>6 DEF IndexInv, CoverInv
<1>8. QED
  BY <1>2, <1>3, <1>4, <1>5, <1>7 DEF IndexInv

LEMMA WalkKeeps == IndexAssumption /\ NothingAssumption /\ IndexInv /\ WalkStep => IndexInv'
<1> SUFFICES ASSUME IndexAssumption, NothingAssumption, IndexInv, WalkStep
             PROVE  IndexInv'
  OBVIOUS
<1> SUFFICES ASSUME NEW p \in Paths, PassBy(p) \/ SkipUnchanged(p) \/ Enqueue(p)
             PROVE  IndexInv'
  BY MissedKeeps DEF WalkStep
<1>1. CASE PassBy(p)
  <2>1. ASSUME p \in stable, p \in Plain, ~Readable(p) PROVE Indexed(p, disk[p].stamp)
    <3>1. disk[p].there /\ disk[p].stamp \in Stamps
      BY <2>1 DEF IndexInv, DiskInv
    <3>2. Holds[p][disk[p].stamp].type # "elf"
      BY <2>1, <3>1 DEF Readable, Body, NothingAssumption
    <3>3. QED
      BY <2>1, <3>1, <3>2, PlainKeys DEF Indexed
  <2>2. QED
    BY <1>1, <2>1, VisitKeeps DEF PassBy
<1>2. CASE SkipUnchanged(p)
  <2>1. scanned[p] = disk[p].stamp /\ disk[p].stamp # 0
    BY <1>2, TimesAreNumbers DEF SkipUnchanged, NeedsScan, IndexInv, DiskInv
  <2>2. QED
    BY <1>2, <2>1, VisitKeeps DEF SkipUnchanged, IndexInv, ScannedInv, ScannedIsIndexed
<1>3. CASE Enqueue(p)
  BY <1>3, EnqueueKeeps
<1>4. QED
  BY <1>1, <1>2, <1>3

-----------------------------------------------------------------------------
(* The workers.                                                            *)

LEMMA TailFacts ==
  ASSUME NEW S, NEW q \in Seq(S), q # <<>>
  PROVE  /\ Head(q) \in S /\ Head(q) = q[1] /\ Tail(q) \in Seq(S)
         /\ DOMAIN q = 1..Len(q) /\ Len(q) \in Nat \ {0}
         /\ DOMAIN Tail(q) = 1..Len(q) - 1
         /\ \A i \in 1..Len(q) - 1 : Tail(q)[i] = q[i + 1]
OBVIOUS

(* The job a worker takes from the channel.                                *)
Taken(first) ==
  NewJob(IF first.path \in Plain THEN "read" ELSE "list", first.path, first.stamp)

LEMMA TakenJob ==
  ASSUME JobRecords, NEW w \in Workers, TakeJob(w)
  PROVE  /\ JobRecords' /\ job'[w] = Taken(Head(queue))
         /\ \A v \in Workers \ {w} : job'[v] = job[v]
<1>1. job' = [job EXCEPT ![w] = Taken(Head(queue))]
  BY DEF TakeJob, Taken
<1>2. QED
  BY <1>1, JobReplaced DEF Taken, NewJob

LEMMA TakeKeeps ==
  ASSUME IndexAssumption, IndexInv, NEW w \in Workers, TakeJob(w)
  PROVE  IndexInv'
<1> DEFINE first == Head(queue)
<1>1. /\ UNCHANGED <<lazy, disk, rows, scanned, toWalk, errors, stable, covered>>
      /\ queue # <<>> /\ queue' = Tail(queue) /\ At(w, "idle")
  BY DEF TakeJob
<1>2. RowsInv' /\ Renewed(rows, rows')
  BY <1>1, RowsRest DEF IndexInv
<1>3. DiskInv'
  BY <1>1 DEF IndexInv, DiskInv
<1>4. ScannedInv' /\ \A v \in Workers : job'[v] = job[v] => JobInv(v)'
  BY <1>1, <1>2, <1>3, KeptWhileFilesStay
<1>5. /\ first \in QueueJobs /\ first = queue[1]
      /\ queue' \in Seq(QueueJobs)
      /\ DOMAIN queue = 1..Len(queue) /\ Len(queue) \in Nat \ {0}
      /\ DOMAIN queue' = 1..Len(queue) - 1
      /\ \A i \in 1..Len(queue) - 1 : queue'[i] = queue[i + 1]
  <2>1. queue \in Seq(QueueJobs)
    BY DEF IndexInv, QueueInv
  <2>2. QED
    BY <1>1, <2>1, TailFacts
<1>6. first.stamp <= disk[first.path].stamp
  BY <1>5 DEF IndexInv, QueueInv
<1>7. first.path \in Paths /\ first.stamp \in Stamps
  BY <1>5 DEF QueueJobs
<1>8. QueueInv'
  <2>1. ASSUME NEW i \in DOMAIN queue'
        PROVE  (queue[i].stamp <= disk[queue[i].path].stamp)'
    <3>1. i + 1 \in DOMAIN queue
      BY <1>5
    <3>2. QED
      BY <1>1, <1>5, <3>1 DEF IndexInv, QueueInv
  <2>2. QED
    BY <1>5, <2>1 DEF QueueInv
<1>9. /\ JobRecords' /\ job'[w] = Taken(first)
      /\ \A v \in Workers \ {w} : job'[v] = job[v]
  BY TakenJob DEF IndexInv, JobsInv
<1>10. JobInv(w)'
  <2>1. /\ job'[w].step \in {"read", "list"}
        /\ job'[w].step = "read" <=> first.path \in Plain
    BY <1>9 DEF Taken, NewJob
  <2>2. job'[w].path = first.path /\ job'[w].stamp = first.stamp
    BY <1>9 DEF Taken, NewJob
  <2>3. QED
    BY <1>1, <1>5, <1>6, <1>7, <2>1, <2>2 DEF JobInv, At
<1>11. JobsInv'
  BY <1>4, <1>9, <1>10 DEF JobsInv
<1>12. ASSUME NEW p \in stable \cap Complete, Underway(p)
       PROVE  Underway(p)'
  <2>1. CASE p \in toWalk
    BY <1>1, <2>1 DEF Underway
  <2>2. ASSUME NEW i \in DOMAIN queue, queue[i].path = p, queue[i].stamp = disk[p].stamp
        PROVE  Underway(p)'
    <3>1. CASE i = 1
      <4>1. job'[w].path = p /\ job'[w].stamp = disk'[p].stamp /\ ~At(w, "idle")'
        BY <1>1, <1>5, <1>9, <2>2, <3>1 DEF At, Taken, NewJob
      <4>2. QED
        BY <4>1 DEF Underway, InWork, Fresh
    <3>2. CASE i # 1
      <4>1. i - 1 \in DOMAIN queue' /\ queue'[i - 1] = queue[i]
        BY <1>5, <2>2, <3>2
      <4>2. QED
        BY <1>1, <2>2, <4>1 DEF Underway, Queued
    <3>3. QED
      BY <3>1, <3>2
  <2>3. ASSUME NEW v \in Workers, ~At(v, "idle"), job[v].path = p, Fresh(v)
        PROVE  Underway(p)'
    <3>1. v # w
      BY <1>1, <2>3
    <3>2. QED
      BY <1>1, <1>9, <2>3, <3>1 DEF Underway, InWork, At, Fresh
  <2>4. QED
    BY <1>12, <2>1, <2>2, <2>3 DEF Underway, Queued, InWork
<1>13. CoverInv'
  BY <1>1, <1>2, <1>12, NothingLost DEF IndexInv, CoverInv
<1>14. QED
  BY <1>2, <1>3, <1>4, <1>8, <1>11, <1>13 DEF IndexInv

(* A worker that gives its job up with an error.                           *)
LEMMA IdleRecord ==
  ASSUME JobRecords, NEW w \in Workers, job' = [job EXCEPT ![w] = Idle]
  PROVE  /\ JobRecords' /\ At(w, "idle")' /\ JobInv(w)'
         /\ \A v \in Workers \ {w} : job'[v] = job[v]
<1>1. JobRecords' /\ job'[w] = Idle /\ \A v \in Workers \ {w} : job'[v] = job[v]
  BY JobReplaced DEF Idle, NewJob
<1>2. At(w, "idle")'
  BY <1>1 DEF At, Idle, NewJob
<1>3. QED
  BY <1>1, <1>2 DEF JobInv, At

(* What the steps of a worker with a job have in common: the job they      *)
(* leave it with, and that nothing is lost from sight, are left to show.   *)
LEMMA WorkerStepKeeps ==
  ASSUME IndexAssumption, IndexInv,
         UNCHANGED <<lazy, disk, scanned, toWalk, queue, stable, covered>>,
         RowsInv', Renewed(rows, rows'), NEW w \in Workers, ~At(w, "idle"),
         JobRecords', \A v \in Workers \ {w} : job'[v] = job[v], JobInv(w)',
         errors' \in {errors, errors + 1},
         \/ /\ ~At(w, "idle")'
            /\ job'[w].path = job[w].path /\ job'[w].stamp = job[w].stamp
         \/ errors' = errors + 1
  PROVE  IndexInv'
<1>1. DiskInv'
  BY DEF IndexInv, DiskInv
<1>2. ScannedInv' /\ QueueInv' /\ \A v \in Workers \ {w} : JobInv(v)'
  BY <1>1, KeptWhileFilesStay
<1>3. CoverInv'
  BY WorkerKeeps
<1>4. QED
  BY <1>1, <1>2, <1>3 DEF IndexInv, JobsInv

LEMMA ReadKeeps ==
  ASSUME IndexAssumption, NothingAssumption, IndexInv, NEW w \in Workers, ReadElf(w)
  PROVE  IndexInv'
<1> DEFINE p == job[w].path
           s == job[w].stamp
<1>1. /\ UNCHANGED <<lazy, disk, rows, scanned, toWalk, queue, stable, covered>>
      /\ At(w, "read") /\ ~At(w, "idle")
  BY DEF ReadElf, At
<1>2. RowsInv' /\ Renewed(rows, rows') /\ JobRecords /\ JobInv(w)
  BY <1>1, RowsRest DEF IndexInv, JobsInv
<1>3. p \in Plain /\ p \in Paths /\ s \in Stamps /\ s <= disk[p].stamp
  BY <1>1, <1>2 DEF JobInv
<1>4. CASE ~Readable(p) /\ Fails(w)
  <2>1. errors' = errors + 1 /\ job' = [job EXCEPT ![w] = Idle]
    BY <1>4 DEF Fails
  <2>2. QED
    BY <1>1, <1>2, <2>1, IdleRecord, WorkerStepKeeps
<1>5. CASE /\ Readable(p) /\ UNCHANGED errors
           /\ Continue(w, IF Body(p).id = NoId THEN "mark" ELSE "add", Body(p).id, {})
  <2>2. /\ job'[w].step = IF Body(p).id = NoId THEN "mark" ELSE "add"
        /\ job'[w].path = p /\ job'[w].stamp = s
        /\ job'[w].id = Body(p).id /\ JobRecords'
        /\ \A v \in Workers \ {w} : job'[v] = job[v]
    BY <1>2, <1>5, GoesOn
  <2>3. ASSUME s = disk[p].stamp
        PROVE  /\ Body(p).id = NoId => Keys(p, s) = {}
               /\ Body(p).id # NoId => Keys(p, s) = {Body(p).id}
    <3>1. Body(p) = Holds[p][s] /\ Body(p).type = "elf"
      BY <1>3, <1>5, <2>3 DEF Readable, Body
    <3> HIDE DEF p, s
    <3>2. QED
      BY <1>3, <3>1, PlainKeys
  <2>4. JobInv(w)'
    <3>1. /\ job'[w].step \in {"mark", "add"}
          /\ job'[w].step = "mark" <=> Body(p).id = NoId
      BY <2>2
    <3>2. Fresh(w)' <=> s = disk[p].stamp
      BY <1>1, <2>2 DEF Fresh
    <3>3. ASSUME At(w, "add")', Fresh(w)' PROVE Keys(p, s) = {job'[w].id}
      BY <2>2, <2>3, <3>1, <3>2, <3>3 DEF At
    <3>4. ASSUME At(w, "mark")', Fresh(w)' PROVE Keys(p, s) = {}
      BY <2>2, <2>3, <3>1, <3>2, <3>4 DEF At
    <3>5. QED
      BY <1>1, <1>3, <2>2, <3>1, <3>3, <3>4 DEF JobInv, At, Indexed
  <2>5. ~At(w, "idle")'
    BY <2>2 DEF At
  <2>6. QED
    BY <1>1, <1>2, <1>5, <2>2, <2>4, <2>5, WorkerStepKeeps
<1>6. QED
  BY <1>4, <1>5 DEF ReadElf

(* A row for what a worker found.                                          *)
LEMMA RowAdded ==
  ASSUME IndexAssumption, IndexInv, UNCHANGED <<lazy, disk>>, NEW key, NEW row,
         row.path \in Paths, row.mtime \in Stamps, row.mtime <= disk[row.path].stamp,
         row.path \in Faithful /\ row.mtime = disk[row.path].stamp
           => key \in Keys(row.path, row.mtime),
         rows' = Upsert(rows, key, row)
  PROVE  /\ RowsInv' /\ Renewed(rows, rows')
         /\ key \in DOMAIN rows' /\ rows'[key].mtime >= row.mtime
<1>1. TimesOk(rows) /\ row.mtime \in Nat
  BY TimesAreNumbers DEF IndexInv
<1>2. /\ Renewed(rows, rows')
      /\ key \in DOMAIN rows' /\ rows'[key].mtime >= row.mtime
      /\ \A k \in DOMAIN rows' : \/ k = key /\ rows'[k] = row
                                 \/ k \in DOMAIN rows /\ rows'[k] = rows[k]
  BY <1>1, UpsertFacts
<1>3. Faithful' = Faithful
  BY DEF Faithful
<1>4. ASSUME NEW k \in DOMAIN rows'
      PROVE  LET r == rows'[k] IN
             /\ r.path \in Paths /\ r.mtime \in Stamps /\ r.mtime <= disk[r.path].stamp
             /\ r.path \in Faithful /\ r.mtime = disk[r.path].stamp
                  => k \in Keys(r.path, r.mtime)
  <2>1. CASE k = key /\ rows'[k] = row
    BY <2>1
  <2>2. CASE k \in DOMAIN rows /\ rows'[k] = rows[k]
    BY <2>2 DEF IndexInv, RowsInv, RowsTrue
  <2>3. QED
    BY <1>2, <2>1, <2>2
<1>5. RowsInv'
  BY <1>3, <1>4 DEF RowsInv, RowsTrue
<1>6. QED
  BY <1>2, <1>5

LEMMA AddKeeps ==
  ASSUME IndexAssumption, IndexInv, NEW w \in Workers, AddElf(w)
  PROVE  IndexInv'
<1> DEFINE p == job[w].path
           s == job[w].stamp
           row == [path |-> p, name |-> None, mtime |-> s, cached |-> FALSE]
<1>1. /\ UNCHANGED <<lazy, disk, scanned, toWalk, queue, stable, covered>>
      /\ At(w, "add") /\ ~At(w, "idle")
  BY DEF AddElf, At
<1>2. JobRecords /\ JobInv(w)
  BY DEF IndexInv, JobsInv
<1>3. /\ p \in Plain /\ p \in Paths /\ s \in Stamps /\ s <= disk[p].stamp
      /\ s = disk[p].stamp => Keys(p, s) = {job[w].id}
  BY <1>1, <1>2 DEF JobInv, Fresh
<1>4. ASSUME rows' = Upsert(rows, job[w].id, row)
      PROVE  /\ RowsInv' /\ Renewed(rows, rows')
             /\ job[w].id \in DOMAIN rows' /\ rows'[job[w].id].mtime >= s
  <2>1. row.path = p /\ row.mtime = s
    OBVIOUS
  <2> HIDE DEF row
  <2>2. row.path \in Faithful /\ row.mtime = disk[row.path].stamp
          => job[w].id \in Keys(row.path, row.mtime)
    BY <1>3, <2>1
  <2>3. /\ RowsInv' /\ Renewed(rows, rows')
        /\ job[w].id \in DOMAIN rows' /\ rows'[job[w].id].mtime >= row.mtime
    BY <1>1, <1>3, <1>4, <2>1, <2>2, RowAdded
  <2>4. QED
    BY <2>1, <2>3
<1>5. CASE Fails(w)
  <2>1. errors' = errors + 1 /\ job' = [job EXCEPT ![w] = Idle]
    BY <1>5 DEF Fails
  <2>2. RowsInv' /\ Renewed(rows, rows')
    <3>1. CASE rows' = rows
      BY <1>1, <3>1, RowsRest DEF IndexInv
    <3>2. CASE rows' = Upsert(rows, job[w].id, row)
      BY <1>4, <3>2
    <3>3. QED
      BY <3>1, <3>2 DEF AddElf
  <2>3. QED
    BY <1>1, <1>2, <2>1, <2>2, IdleRecord, WorkerStepKeeps
<1>6. CASE /\ rows' = Upsert(rows, job[w].id, row)
           /\ Continue(w, "mark", job[w].id, {}) /\ UNCHANGED errors
  <2>1. RowsInv' /\ Renewed(rows, rows')
    BY <1>4, <1>6
  <2>2. /\ job'[w].step = "mark" /\ job'[w].path = p /\ job'[w].stamp = s
        /\ JobRecords' /\ \A v \in Workers \ {w} : job'[v] = job[v]
    BY <1>2, <1>6, GoesOn
  <2>3. ASSUME s = disk[p].stamp PROVE \A x, t : x = p /\ t = s => Indexed(x, t)'
    BY <1>3, <1>4, <1>6, <2>3 DEF Indexed
  <2>4. JobInv(w)'
    BY <1>1, <1>3, <2>2, <2>3 DEF JobInv, At, Fresh
  <2>5. ~At(w, "idle")'
    BY <2>2 DEF At
  <2>6. QED
    BY <1>1, <1>2, <1>6, <2>1, <2>2, <2>4, <2>5, WorkerStepKeeps
<1>7. QED
  BY <1>5, <1>6 DEF AddElf

LEMMA MarkKeeps ==
  ASSUME IndexAssumption, IndexInv, NEW w \in Workers, Mark(w)
  PROVE  IndexInv'
<1> DEFINE p == job[w].path
           s == job[w].stamp
<1>1. /\ UNCHANGED <<lazy, disk, rows, errors, toWalk, queue, stable, covered>>
      /\ At(w, "mark") /\ ~At(w, "idle") /\ job' = [job EXCEPT ![w] = Idle]
      /\ scanned' = [scanned EXCEPT ![p] = s] \/ scanned' = scanned
  BY DEF Mark, MarkScanned, At
<1>2. /\ RowsInv' /\ Renewed(rows, rows') /\ JobRecords /\ JobInv(w)
      /\ errors \in Nat
  BY <1>1, RowsRest DEF IndexInv, JobsInv, CoverInv
<1>3. /\ p \in Paths /\ s \in Stamps /\ s <= disk[p].stamp
      /\ p \in Complete /\ Fresh(w) => Indexed(p, s)
  BY <1>1, <1>2 DEF JobInv, At
<1>4. DiskInv'
  BY <1>1 DEF IndexInv, DiskInv
<1>5. /\ JobRecords' /\ JobInv(w)'
      /\ \A v \in Workers \ {w} : job'[v] = job[v]
  BY <1>1, <1>2, IdleRecord
<1>6. /\ QueueInv' /\ (UNCHANGED scanned => ScannedInv')
      /\ \A v \in Workers \ {w} : JobInv(v)'
      /\ \A x \in Paths : Indexed(x, disk[x].stamp) => Indexed(x, disk[x].stamp)'
  BY <1>1, <1>2, <1>4, <1>5, KeptWhileFilesStay
<1>7. JobsInv'
  BY <1>5, <1>6 DEF JobsInv
<1>8. ScannedInv'
  <2>1. CASE scanned' = [scanned EXCEPT ![p] = s]
    <3>1. /\ scanned' \in [Paths -> Times] /\ scanned'[p] = s
          /\ \A x \in Paths \ {p} : scanned'[x] = scanned[x]
      BY <1>3, <2>1 DEF IndexInv, ScannedInv, Times
    <3>2. \A x \in Paths : scanned'[x] <= disk'[x].stamp
      BY <1>1, <1>3, <3>1 DEF IndexInv, ScannedInv
    <3>3. Complete' = Complete /\ Complete \subseteq Paths
      BY <1>1 DEF Faithful, Complete, Plain, Packages, SourcePackages
    <3>4. ASSUME NEW x \in Complete, scanned'[x] # 0, scanned'[x] = disk[x].stamp
          PROVE  Indexed(x, disk[x].stamp)'
      <4>1. CASE x = p
        BY <1>3, <1>6, <3>1, <3>4, <4>1 DEF Fresh
      <4>2. CASE x # p
        BY <1>6, <3>1, <3>3, <3>4, <4>2 DEF IndexInv, ScannedInv, ScannedIsIndexed
      <4>3. QED
        BY <4>1, <4>2
    <3>5. ScannedIsIndexed'
      BY <1>1, <3>3, <3>4 DEF ScannedIsIndexed
    <3>6. QED
      BY <3>1, <3>2, <3>5 DEF ScannedInv
  <2>2. CASE UNCHANGED scanned
    BY <1>6, <2>2
  <2>3. QED
    BY <1>1, <2>1, <2>2
<1>9. \A x, t : x = p /\ t = s /\ x \in Complete /\ Fresh(w) => Indexed(x, t)'
  BY <1>1, <1>3, <1>6 DEF Fresh
<1>10. CoverInv'
  BY <1>1, <1>2, <1>5, <1>9, WorkerKeeps
<1>11. QED
  BY <1>2, <1>4, <1>6, <1>7, <1>8, <1>10 DEF IndexInv

LEMMA ListKeeps ==
  ASSUME IndexAssumption, NothingAssumption, IndexInv, NEW w \in Workers, ListMembers(w)
  PROVE  IndexInv'
<1> DEFINE p == job[w].path
           s == job[w].stamp
<1>1. /\ UNCHANGED <<lazy, disk, rows, scanned, toWalk, queue, stable, covered>>
      /\ At(w, "list") /\ ~At(w, "idle")
  BY DEF ListMembers, At
<1>2. RowsInv' /\ Renewed(rows, rows') /\ JobRecords /\ JobInv(w)
  BY <1>1, RowsRest DEF IndexInv, JobsInv
<1>3. p \notin Plain /\ p \in Paths /\ s \in Stamps /\ s <= disk[p].stamp
  BY <1>1, <1>2 DEF JobInv
<1>4. CASE ~Readable(p) /\ Fails(w)
  <2>1. errors' = errors + 1 /\ job' = [job EXCEPT ![w] = Idle]
    BY <1>4 DEF Fails
  <2>2. QED
    BY <1>1, <1>2, <2>1, IdleRecord, WorkerStepKeeps
<1>5. CASE /\ Readable(p) /\ UNCHANGED errors
           /\ Continue(w, "members", None, Members(p))
  <2>1. /\ job'[w].step = "members" /\ job'[w].path = p /\ job'[w].stamp = s
        /\ job'[w].left = Members(p) /\ JobRecords'
        /\ \A v \in Workers \ {w} : job'[v] = job[v]
    BY <1>2, <1>5, GoesOn
  <2>2. ASSUME p \in Faithful, s = disk[p].stamp
        PROVE  /\ Keys(p, s) = {MemberKey(p, m.name, m.body) : m \in Members(p)} \ {NoId}
               /\ \A m \in Members(p) : m.body # Missing
    <3>1. Body(p) = Holds[p][s] /\ Body(p).type # "broken"
      BY <1>3, <1>5, <2>2 DEF Readable, Body
    <3>2. Kind[p] # "dsc"
      BY <1>3, <2>2 DEF Faithful, Plain
    <3>3. Members(p) = MembersOf(p, Holds[p][s].entries)
      BY <3>1, <3>2 DEF Members, Entries
    <3>4. Holds[p][s].type # "broken"
      BY <3>1
    <3> HIDE DEF p, s
    <3>5. QED
      BY <1>3, <2>2, <3>3, <3>4, PackageKeys
  <2>3. Faithful' = Faithful /\ Complete' = Complete
        /\ Complete \subseteq Faithful
    BY <1>1 DEF Faithful, Complete
  <2>4. Fresh(w)' <=> s = disk[p].stamp
    BY <1>1, <2>1 DEF Fresh
  <2>5. ASSUME p \in Faithful, s = disk[p].stamp, NEW m \in Members(p)
        PROVE  MemberKey(p, m.name, m.body) \in Keys(p, s) \cup {NoId}
    BY <2>2, <2>5
  <2>6. ASSUME p \in Faithful, s = disk[p].stamp
        PROVE  \A x, t, left : x = p /\ t = s /\ left = Members(p) => ToCome(x, t, left)'
    BY <2>2, <2>6 DEF ToCome
  <2>7. JobInv(w)'
    BY <1>1, <1>3, <2>1, <2>3, <2>4, <2>5, <2>6 DEF JobInv, At
  <2>8. ~At(w, "idle")'
    BY <2>1 DEF At
  <2>9. QED
    BY <1>1, <1>2, <1>5, <2>1, <2>7, <2>8, WorkerStepKeeps
<1>6. QED
  BY <1>4, <1>5 DEF ListMembers

LEMMA MembersDoneKeeps ==
  ASSUME IndexAssumption, IndexInv, NEW w \in Workers, MembersDone(w)
  PROVE  IndexInv'
<1> DEFINE p == job[w].path
           s == job[w].stamp
<1>1. /\ UNCHANGED <<lazy, disk, rows, scanned, errors, toWalk, queue, stable, covered>>
      /\ At(w, "members") /\ ~At(w, "idle") /\ job[w].left = {}
      /\ Continue(w, "mark", job[w].id, {})
  BY DEF MembersDone, At
<1>2. RowsInv' /\ Renewed(rows, rows') /\ JobRecords /\ JobInv(w)
  BY <1>1, RowsRest DEF IndexInv, JobsInv
<1>3. /\ p \in Paths /\ s \in Stamps /\ s <= disk[p].stamp
      /\ p \in Complete /\ Fresh(w) => Indexed(p, s)
  BY <1>1, <1>2 DEF JobInv, ToCome, Indexed, Has
<1>4. /\ job'[w].step = "mark" /\ job'[w].path = p /\ job'[w].stamp = s
      /\ JobRecords' /\ \A v \in Workers \ {w} : job'[v] = job[v]
  BY <1>1, <1>2, GoesOn
<1>5. /\ Fresh(w)' <=> Fresh(w)
      /\ Complete' = Complete
      /\ Indexed(p, s) => \A x, t : x = p /\ t = s => Indexed(x, t)'
  BY <1>1, <1>4 DEF Fresh, Faithful, Complete, Indexed
<1>6. JobInv(w)'
  BY <1>1, <1>3, <1>4, <1>5 DEF JobInv, At
<1>7. ~At(w, "idle")'
  BY <1>4 DEF At
<1>8. QED
  BY <1>1, <1>2, <1>4, <1>6, <1>7, WorkerStepKeeps

(* A member is passed over without an effect, which only happens where     *)
(* completeness is not relied on, or has no key.                           *)
LEMMA LeftOut ==
  ASSUME IndexAssumption, IndexInv, NEW w \in Workers, NEW m \in job[w].left,
         At(w, "members"), Continue(w, "members", None, job[w].left \ {m}),
         UNCHANGED <<lazy, disk, scanned, toWalk, queue, errors, stable, covered>>,
         RowsInv', Renewed(rows, rows'),
         job[w].path \in Complete /\ Fresh(w) /\ m.body # Missing
           /\ MemberKey(job[w].path, m.name, m.body) \in Keys(job[w].path, job[w].stamp)
           => \A k, t : k = MemberKey(job[w].path, m.name, m.body) /\ t = job[w].stamp
                          => Has(k, t)'
  PROVE  IndexInv'
<1> DEFINE p == job[w].path
           s == job[w].stamp
<1>1. JobRecords /\ JobInv(w) /\ ~At(w, "idle")
  BY DEF IndexInv, JobsInv, At
<1>2. p \notin Plain /\ p \in Paths /\ s \in Stamps /\ s <= disk[p].stamp
  BY <1>1 DEF JobInv
<1>3. /\ job'[w].step = "members" /\ job'[w].path = p /\ job'[w].stamp = s
      /\ job'[w].left = job[w].left \ {m}
      /\ JobRecords' /\ \A v \in Workers \ {w} : job'[v] = job[v]
  BY <1>1, GoesOn
<1>4. /\ Fresh(w)' <=> Fresh(w)
      /\ Complete' = Complete /\ Faithful' = Faithful
  BY <1>3 DEF Fresh, Faithful, Complete
<1>5. ASSUME p \in Complete, Fresh(w), NEW k \in Keys(p, s)
      PROVE  \/ \A t : t = s => Has(k, t)'
             \/ \E n \in job[w].left \ {m} : n.body # Missing /\ MemberKey(p, n.name, n.body) = k
  <2>1. CASE Has(k, s)
    <3>1. \A t : t = s => Has(k, t)'
      BY <1>2, <2>1, IndexedStays, TimesAreNumbers DEF IndexInv, RowsInv, TimesOk
    <3>2. QED
      BY <3>1
  <2>2. CASE m.body # Missing /\ k = MemberKey(p, m.name, m.body)
    BY <1>5, <2>2
  <2>3. QED
    BY <1>1, <1>5, <2>1, <2>2 DEF JobInv, ToCome
<1>6. p \in Complete /\ Fresh(w)
        => \A x, t, left : x = p /\ t = s /\ left = job[w].left \ {m} => ToCome(x, t, left)'
  BY <1>5 DEF ToCome
<1>7. JobInv(w)'
  BY <1>1, <1>2, <1>3, <1>4, <1>6 DEF JobInv, At
<1>8. ~At(w, "idle")'
  BY <1>3 DEF At
<1>9. QED
  BY <1>1, <1>3, <1>7, <1>8, WorkerStepKeeps

LEMMA MemberKeeps ==
  ASSUME IndexAssumption, NothingAssumption, IndexInv, NEW w \in Workers,
         NEW m \in job[w].left, IndexMember(w, m)
  PROVE  IndexInv'
<1> DEFINE p == job[w].path
           s == job[w].stamp
           row == [path |-> p, name |-> m.name, mtime |-> s, cached |-> ~lazy]
<1>1. /\ UNCHANGED <<lazy, disk, scanned, toWalk, queue, errors, stable, covered>>
      /\ At(w, "members") /\ Continue(w, "members", None, job[w].left \ {m})
  BY DEF IndexMember
<1>2. PICK got : /\ Extract(p, m, got)
                 /\ rows' = LET key == IF got = Missing THEN NoId ELSE MemberKey(p, m.name, got)
                            IN IF key = NoId THEN rows ELSE Upsert(rows, key, row)
  BY DEF IndexMember
<1> DEFINE key == IF got = Missing THEN NoId ELSE MemberKey(p, m.name, got)
<1>3. rows' = IF key = NoId THEN rows ELSE Upsert(rows, key, row)
  BY <1>2
<1>4. JobRecords /\ JobInv(w)
  BY DEF IndexInv, JobsInv
<1>5. /\ p \notin Plain /\ p \in Paths /\ s \in Stamps /\ s <= disk[p].stamp
      /\ p \in Faithful /\ s = disk[p].stamp =>
           MemberKey(p, m.name, m.body) \in Keys(p, s) \cup {NoId}
  BY <1>1, <1>4 DEF JobInv, At, Fresh
<1>6. /\ p \in Faithful => got = m.body
      /\ Complete \subseteq Faithful
  BY <1>2, <1>5 DEF Extract, Faithful, Complete
<1>7. row.path = p /\ row.mtime = s
  OBVIOUS
<1>8. row.path \in Faithful /\ row.mtime = disk[row.path].stamp /\ key # NoId
        => key \in Keys(row.path, row.mtime)
  BY <1>5, <1>6, <1>7
<1> HIDE DEF row, key
<1>9. CASE key = NoId
  <2>1. RowsInv' /\ Renewed(rows, rows')
    BY <1>1, <1>3, <1>9, RowsRest DEF IndexInv
  <2>2. ASSUME p \in Complete, m.body # Missing, MemberKey(p, m.name, m.body) \in Keys(p, s)
        PROVE  FALSE
    <3>1. MemberKey(p, m.name, m.body) = NoId
      BY <1>6, <1>9, <2>2 DEF key
    <3> HIDE DEF p, s
    <3>2. QED
      BY <1>5, <1>6, <2>2, <3>1, NoIdIsNoKey
  <2>3. QED
    BY <1>1, <2>1, <2>2, LeftOut
<1>10. CASE key # NoId
  <2>1. rows' = Upsert(rows, key, row)
    BY <1>3, <1>10
  <2>2. /\ RowsInv' /\ Renewed(rows, rows')
        /\ key \in DOMAIN rows' /\ rows'[key].mtime >= s
    <3>1. row.path \in Paths /\ row.mtime \in Stamps /\ row.mtime <= disk[row.path].stamp
      BY <1>5, <1>7
    <3>2. /\ RowsInv' /\ Renewed(rows, rows')
          /\ key \in DOMAIN rows' /\ rows'[key].mtime >= row.mtime
      BY <1>1, <1>8, <1>10, <2>1, <3>1, RowAdded
    <3>3. QED
      BY <1>7, <3>2
  <2>3. ASSUME p \in Complete, m.body # Missing
        PROVE  \A k, t : k = MemberKey(p, m.name, m.body) /\ t = s => Has(k, t)'
    <3>1. key = MemberKey(p, m.name, m.body)
      BY <1>6, <2>3 DEF key
    <3>2. QED
      BY <2>2, <3>1 DEF Has
  <2>4. QED
    BY <1>1, <2>2, <2>3, LeftOut
<1>11. QED
  BY <1>9, <1>10

LEMMA MemberFailsKeeps ==
  ASSUME IndexAssumption, IndexInv, NEW w \in Workers, NEW m \in job[w].left,
         MemberFails(w, m)
  PROVE  IndexInv'
<1>1. /\ UNCHANGED <<lazy, disk, rows, scanned, toWalk, queue, errors, stable, covered>>
      /\ At(w, "members") /\ Continue(w, "members", None, job[w].left \ {m})
      /\ "member" \in FaultKinds
  BY DEF MemberFails, Fault
<1>2. RowsInv' /\ Renewed(rows, rows') /\ JobInv(w)
  BY <1>1, RowsRest DEF IndexInv, JobsInv
<1>3. job[w].path \notin Complete
  BY <1>1, <1>2 DEF Complete, JobInv
<1>4. QED
  BY <1>1, <1>2, <1>3, LeftOut

LEMMA WorkersKeep ==
  ASSUME IndexAssumption, NothingAssumption, IndexInv, NEW w \in Workers, WorkerStep(w)
  PROVE  IndexInv'
BY TakeKeeps, ReadKeeps, AddKeeps, MarkKeeps, ListKeeps, MembersDoneKeeps,
   MemberKeeps, MemberFailsKeeps DEF WorkerStep

-----------------------------------------------------------------------------
(* The end of a scan, the files and the end of the process.                *)

(* With nothing under way, and no error, every file that stayed is indexed. *)
LEMMA EndWalkKeeps == IndexAssumption /\ IndexInv /\ EndWalk => IndexInv'
<1> SUFFICES ASSUME IndexAssumption, IndexInv, EndWalk PROVE IndexInv'
  OBVIOUS
<1>1. /\ UNCHANGED <<lazy, disk, rows, scanned, toWalk, queue, job, errors, stable>>
      /\ toWalk = {} /\ queue = <<>> /\ \A w \in Workers : At(w, "idle")
      /\ covered' = IF errors = 0 THEN covered \cup stable ELSE covered
  BY DEF EndWalk
<1>2. RowsInv' /\ Renewed(rows, rows')
  BY <1>1, RowsRest DEF IndexInv
<1>3. DiskInv'
  BY <1>1 DEF IndexInv, DiskInv
<1>4. ScannedInv' /\ QueueInv' /\ \A w \in Workers : JobInv(w)'
  BY <1>1, <1>2, <1>3, KeptWhileFilesStay
<1>5. JobsInv'
  BY <1>1, <1>4 DEF IndexInv, JobsInv, JobRecords
<1>6. \A p : ~Underway(p) /\ ~Underway(p)'
  BY <1>1 DEF Underway, Queued, InWork, At
<1>7. Complete' = Complete /\ \A p : Indexed(p, disk[p].stamp)' <=> Indexed(p, disk[p].stamp)
  BY <1>1 DEF Complete, Faithful, Indexed
<1>8. CoverInv'
  BY <1>1, <1>6, <1>7 DEF IndexInv, CoverInv, CleanScanCovers
<1>9. QED
  BY <1>2, <1>3, <1>4, <1>5, <1>8 DEF IndexInv

(* A file changes: its stamp grows, or stays with a file that is gone.     *)
LEMMA ChangeKeeps ==
  ASSUME IndexAssumption, IndexInv, NEW p \in Paths, Changed(p),
         NEW file \in [stamp : Times, there : BOOLEAN],
         file.there => file.stamp \in Stamps, file.stamp >= disk[p].stamp,
         disk' = [disk EXCEPT ![p] = file]
  PROVE  IndexInv'
<1>1. /\ UNCHANGED <<lazy, rows, scanned, toWalk, queue, job, errors>>
      /\ stable' = stable \ {p} /\ covered' = covered \ {p}
  BY DEF Changed
<1>2. /\ disk' \in [Paths -> [stamp : Times, there : BOOLEAN]]
      /\ disk'[p] = file /\ \A x \in Paths \ {p} : disk'[x] = disk[x]
  BY DEF IndexInv, DiskInv
<1>3. DiskInv'
  BY <1>1, <1>2 DEF IndexInv, DiskInv
<1>4. \A x \in Paths : /\ disk[x].stamp \in Nat /\ disk'[x].stamp \in Nat
                       /\ disk'[x].stamp >= disk[x].stamp
  BY <1>2, TimesAreNumbers DEF IndexInv, DiskInv
<1>5. /\ Faithful' = Faithful /\ Complete' = Complete
      /\ Complete \subseteq Paths /\ Faithful \subseteq Paths
      /\ \A x, t : Indexed(x, t)' <=> Indexed(x, t)
  BY <1>1 DEF Faithful, Complete, Plain, Packages, SourcePackages, Indexed
<1>6. RowsInv'
  <2>1. ASSUME NEW k \in DOMAIN rows
        PROVE  /\ rows[k].mtime <= disk'[rows[k].path].stamp
               /\ rows[k].path \in Faithful /\ rows[k].mtime = disk'[rows[k].path].stamp
                    => k \in Keys(rows[k].path, rows[k].mtime)
    <3>1. /\ rows[k].path \in Paths /\ rows[k].mtime \in Nat
          /\ rows[k].mtime <= disk[rows[k].path].stamp
      BY TimesAreNumbers DEF IndexInv, RowsInv, RowsTrue, TimesOk
    <3>2. rows[k].mtime = disk'[rows[k].path].stamp
            => rows[k].mtime = disk[rows[k].path].stamp
      BY <1>4, <3>1
    <3>3. QED
      BY <1>4, <3>1, <3>2 DEF IndexInv, RowsInv, RowsTrue
  <2>2. QED
    BY <1>1, <1>5, <2>1 DEF IndexInv, RowsInv, RowsTrue
<1>7. Renewed(rows, rows')
  BY <1>1, TimesAreNumbers DEF Renewed, TimesOk, IndexInv
<1>8. ScannedInv'
  <2>1. ASSUME NEW x \in Paths
        PROVE  /\ scanned[x] <= disk'[x].stamp
               /\ scanned[x] = disk'[x].stamp => scanned[x] = disk[x].stamp
    BY <1>4, TimesAreNumbers DEF IndexInv, ScannedInv
  <2>2. QED
    BY <1>1, <1>5, <2>1 DEF IndexInv, ScannedInv, ScannedIsIndexed
<1>9. QueueInv'
  <2>1. ASSUME NEW i \in DOMAIN queue
        PROVE  queue[i].stamp <= disk'[queue[i].path].stamp
    <3>1. queue[i] \in QueueJobs
      BY DEF IndexInv, QueueInv
    <3>2. queue[i].path \in Paths /\ queue[i].stamp \in Nat
      BY <3>1, TimesAreNumbers DEF QueueJobs
    <3>3. QED
      BY <1>4, <3>2 DEF IndexInv, QueueInv
  <2>2. QED
    BY <1>1, <2>1 DEF IndexInv, QueueInv
<1>10. JobsInv'
  <2>1. \A w \in Workers : JobInv(w)'
    BY <1>1, <1>3, <1>4, <1>6, <1>7, JobStays DEF IndexInv, JobsInv
  <2>2. QED
    BY <1>1, <2>1 DEF IndexInv, JobsInv, JobRecords
<1>11. \A x \in Paths \ {p} : Underway(x) => Underway(x)'
  BY <1>1, <1>2 DEF Underway, Queued, InWork, At, Fresh
<1>12. CoverInv'
  <2>1. CleanScanCovers'
    BY <1>1, <1>2, <1>5 DEF IndexInv, CoverInv, CleanScanCovers, DiskInv
  <2>2. ASSUME errors = 0, NEW x \in stable' \cap Complete
        PROVE  Underway(x)' \/ Indexed(x, disk[x].stamp)'
    BY <1>1, <1>2, <1>5, <1>11, <2>2 DEF IndexInv, CoverInv
  <2>3. QED
    BY <1>1, <1>5, <2>1, <2>2 DEF IndexInv, CoverInv
<1>13. QED
  BY <1>3, <1>6, <1>8, <1>9, <1>10, <1>12 DEF IndexInv

LEMMA FilesKeep ==
  ASSUME IndexAssumption, IndexInv, NEW p \in Paths,
         DeleteFile(p) \/ \E s \in Stamps : WriteFile(p, s)
  PROVE  IndexInv'
<1>1. CASE DeleteFile(p)
  <2>1. disk[p] \in [stamp : Times, there : BOOLEAN]
    BY DEF IndexInv, DiskInv
  <2>2. disk' = [disk EXCEPT ![p].there = FALSE] /\ Changed(p)
    BY <1>1 DEF DeleteFile
  <2> DEFINE file == [disk[p] EXCEPT !.there = FALSE]
  <2>3. /\ file \in [stamp : Times, there : BOOLEAN]
        /\ file.stamp >= disk[p].stamp /\ ~file.there
    <3>1. /\ file.stamp = disk[p].stamp /\ ~file.there
          /\ file \in [stamp : Times, there : BOOLEAN]
      BY <2>1
    <3>2. disk[p].stamp \in Nat
      BY <2>1, TimesAreNumbers
    <3>3. QED
      BY <3>1, <3>2
  <2>4. disk' = [disk EXCEPT ![p] = file]
    BY <2>2
  <2> HIDE DEF file
  <2>5. QED
    BY <2>2, <2>3, <2>4, ChangeKeeps
<1>2. ASSUME NEW s \in Stamps, WriteFile(p, s) PROVE IndexInv'
  <2> DEFINE file == [stamp |-> s, there |-> TRUE]
  <2>1. /\ s > disk[p].stamp /\ Changed(p)
        /\ disk' = [disk EXCEPT ![p] = file]
    BY <1>2 DEF WriteFile
  <2>2. disk[p].stamp \in Nat /\ s \in Nat
    BY TimesAreNumbers DEF IndexInv, DiskInv
  <2>3. /\ file \in [stamp : Times, there : BOOLEAN]
        /\ file.stamp >= disk[p].stamp /\ file.stamp \in Stamps
    BY <2>1, <2>2 DEF Times
  <2> HIDE DEF file
  <2>4. QED
    BY <2>1, <2>3, ChangeKeeps
<1>3. QED
  BY <1>1, <1>2

(* The jobs that are lost leave no file marked that is not indexed.        *)
LEMMA LossKeeps == IndexAssumption /\ IndexInv /\ IndexLost => IndexInv'
<1> SUFFICES ASSUME IndexAssumption, IndexInv, IndexLost PROVE IndexInv'
  OBVIOUS
<1>1. /\ UNCHANGED <<lazy, disk, rows, scanned, covered>>
      /\ queue' = <<>> /\ job' = [w \in Workers |-> Idle]
      /\ errors' = 0 /\ stable' = {}
  BY DEF IndexLost
<1>2. RowsInv' /\ Renewed(rows, rows')
  BY <1>1, RowsRest DEF IndexInv
<1>3. ScannedInv' /\ CleanScanCovers' /\ DiskInv'
  BY <1>1, <1>2, KeptWhileFilesStay DEF IndexInv, DiskInv
<1>4. QueueInv'
  BY <1>1 DEF QueueInv
<1>5. JobsInv'
  BY <1>1 DEF JobsInv, JobRecords, JobInv, At, Idle, NewJob
<1>6. CoverInv'
  BY <1>1, <1>3 DEF CoverInv
<1>7. QED
  BY <1>2, <1>3, <1>4, <1>5, <1>6 DEF IndexInv

LEMMA RestKeeps == IndexInv /\ UNCHANGED OnDisk => IndexInv'
<1> SUFFICES ASSUME IndexInv, UNCHANGED OnDisk PROVE IndexInv'
  OBVIOUS
<1> USE DEF OnDisk
<1>1. DiskInv'
  BY DEF IndexInv, DiskInv
<1>2. /\ Complete' = Complete /\ Faithful' = Faithful
      /\ \A p, s : Indexed(p, s)' <=> Indexed(p, s)
  BY DEF Complete, Faithful, Indexed
<1>3. RowsInv' /\ ScannedInv'
  BY <1>2 DEF IndexInv, RowsInv, RowsTrue, ScannedInv, ScannedIsIndexed
<1>4. QueueInv'
  BY DEF IndexInv, QueueInv
<1>5. JobRecords' /\ \A w \in Workers : JobInv(w)'
  BY <1>2 DEF IndexInv, JobsInv, JobRecords, JobInv, At, Fresh, ToCome, Has
<1>6. CoverInv'
  BY <1>2 DEF IndexInv, CoverInv, CleanScanCovers, Underway, Queued, InWork, At, Fresh
<1>7. QED
  BY <1>1, <1>3, <1>4, <1>5, <1>6 DEF IndexInv, JobsInv

-----------------------------------------------------------------------------
(* The results.                                                            *)

LEMMA StartsRight == IndexAssumption /\ IndexInit => IndexInv
<1> SUFFICES ASSUME IndexAssumption, IndexInit PROVE IndexInv
  OBVIOUS
<1> USE DEF IndexInit
<1>1. DiskInv
  <2>1. ASSUME NEW p \in Paths
        PROVE  disk[p] = [stamp |-> IF p \in AtFirst THEN 1 ELSE 0, there |-> p \in AtFirst]
    OBVIOUS
  <2>2. ASSUME NEW p \in Paths
        PROVE  /\ disk[p] \in [stamp : Times, there : BOOLEAN]
               /\ disk[p].there => disk[p].stamp \in Stamps
    <3>1. CASE p \in AtFirst
      BY <2>1, <3>1 DEF IndexAssumption, Times
    <3>2. CASE p \notin AtFirst
      <4>1. (p \in AtFirst) = FALSE
        BY <3>2
      <4>2. disk[p] = [stamp |-> 0, there |-> FALSE]
        BY <2>1, <4>1
      <4>3. QED
        BY <4>2 DEF Times
    <3>3. QED
      BY <3>1, <3>2
  <2>3. disk = [p \in Paths |-> disk[p]]
    OBVIOUS
  <2>4. disk \in [Paths -> [stamp : Times, there : BOOLEAN]]
    BY <2>2, <2>3
  <2>5. QED
    BY <2>2, <2>4 DEF DiskInv
<1>2. RowsInv
  BY DEF RowsInv, RowsTrue
<1>3. ScannedInv
  <2>1. \A p \in Paths : disk[p].stamp \in Nat /\ scanned[p] = 0
    BY <1>1, TimesAreNumbers DEF DiskInv
  <2>2. scanned \in [Paths -> Times]
    BY DEF Times
  <2>3. Complete \subseteq Paths
    BY DEF Faithful, Complete, Plain, Packages, SourcePackages
  <2>4. QED
    BY <2>1, <2>2, <2>3 DEF ScannedInv, ScannedIsIndexed
<1>4. QueueInv
  BY DEF QueueInv
<1>5. JobsInv
  BY DEF JobsInv, JobRecords, JobInv, At, Idle, NewJob
<1>6. CoverInv
  BY DEF CoverInv, CleanScanCovers
<1>7. QED
  BY <1>1, <1>2, <1>3, <1>4, <1>5, <1>6 DEF IndexInv

LEMMA StepsKeep ==
  ASSUME IndexAssumption, NothingAssumption, IndexInv, [Next]_vars
  PROVE  IndexInv'
<1>1. IndexStep
  BY StepsOfTheIndex
<1>2. QED
  BY <1>1, StartWalkKeeps, WalkKeeps, WorkersKeep, EndWalkKeeps, FilesKeep, LossKeeps,
     RestKeeps DEF IndexStep

(* The server keeps the invariant of its index, whatever it is asked, and  *)
(* whatever ends the process between two steps of a scan.                  *)
THEOREM IndexInductive == Spec => []IndexInv
<1>1. Init => IndexInv
  BY IndexAssumption, StartsRight DEF Init
<1>2. IndexInv /\ [Next]_vars => IndexInv'
  BY IndexAssumption, NothingAssumption, StepsKeep
<1>3. QED
  BY <1>1, <1>2, PTL DEF Spec

(* A file that stat shows as it was when MarkScanned was called is in the  *)
(* index, so that NeedsScan may pass over it: no interleaving of the walk, *)
(* the workers, changes of the file and ends of the process marks what was *)
(* not indexed.                                                            *)
THEOREM MarkedIsIndexed == Spec => []ScannedIsIndexed
<1>1. IndexInv => ScannedIsIndexed
  BY DEF IndexInv, ScannedInv
<1>2. QED
  BY <1>1, IndexInductive, PTL

(* After Scan returned with no error, every file that stayed as it was and *)
(* that the walk did not miss is in the index.  Scan counts no error for a *)
(* file its walk cannot list or open, so that the theorem cannot say more. *)
THEOREM CleanScanIsComplete == Spec => []CleanScanCovers
<1>1. IndexInv => CleanScanCovers
  BY DEF IndexInv, CoverInv
<1>2. QED
  BY <1>1, IndexInductive, PTL

(* A row whose file is unchanged names what the file holds, although the   *)
(* worker reads the file at another time than the walk stats it.           *)
THEOREM RowsAreTrue == Spec => []RowsTrue
<1>1. IndexInv => RowsTrue
  BY DEF IndexInv, RowsInv
<1>2. QED
  BY <1>1, IndexInductive, PTL

LEMMA WorkersRenew ==
  ASSUME IndexAssumption, IndexInv, NEW w \in Workers, WorkerStep(w)
  PROVE  Renewed(rows, rows')
<1>1. TimesOk(rows)
  BY TimesAreNumbers DEF IndexInv
<1>2. rows' = rows => Renewed(rows, rows')
  BY <1>1 DEF Renewed, TimesOk
<1>3. ~At(w, "idle") => job[w].stamp \in Nat
  BY TimesAreNumbers DEF IndexInv, JobsInv, JobInv
<1>4. CASE AddElf(w)
  <2> DEFINE row == [path |-> job[w].path, name |-> None, mtime |-> job[w].stamp,
                     cached |-> FALSE]
  <2>1. row.mtime \in Nat /\ (rows' = rows \/ rows' = Upsert(rows, job[w].id, row))
    BY <1>3, <1>4 DEF AddElf, At
  <2> HIDE DEF row
  <2>2. QED
    BY <1>1, <1>2, <2>1, UpsertFacts
<1>5. ASSUME NEW m \in job[w].left, IndexMember(w, m) PROVE Renewed(rows, rows')
  <2> DEFINE row == [path |-> job[w].path, name |-> m.name, mtime |-> job[w].stamp,
                     cached |-> ~lazy]
  <2>1. row.mtime \in Nat /\ (rows' = rows \/ \E key : rows' = Upsert(rows, key, row))
    BY <1>3, <1>5 DEF IndexMember, At
  <2> HIDE DEF row
  <2>2. QED
    BY <1>1, <1>2, <2>1, UpsertFacts
<1>6. QED
  BY <1>2, <1>4, <1>5
     DEF WorkerStep, TakeJob, ReadElf, Mark, ListMembers, MembersDone, MemberFails

(* No step takes a row out of the index or puts an older one in its place, *)
(* in whatever order the workers' upserts come.                            *)
THEOREM RowsStay == Spec => RowsOnlyRenewed
<1>1. ASSUME IndexInv, [Next]_vars PROVE Renewed(rows, rows')
  <2>1. TimesOk(rows) /\ IndexAssumption
    BY <1>1, IndexAssumption, TimesAreNumbers DEF IndexInv
  <2>2. rows' = rows => Renewed(rows, rows')
    BY <2>1 DEF Renewed, TimesOk
  <2>3. IndexStep
    BY <1>1, StepsOfTheIndex
  <2>4. (\E w \in Workers : WorkerStep(w)) \/ rows' = rows
    BY <2>3 DEF IndexStep, StartWalk, WalkStep, PassBy, WalkMisses, SkipUnchanged, Enqueue,
                Visit, EndWalk, DeleteFile, WriteFile, Changed, IndexLost, OnDisk
  <2>5. QED
    BY <1>1, <2>1, <2>2, <2>4, WorkersRenew
<1>2. IndexInv /\ [Next]_vars
        => [\A k \in DOMAIN rows : k \in DOMAIN rows' /\ rows'[k].mtime >= rows[k].mtime]_rows
  BY <1>1 DEF Renewed
<1>3. QED
  BY <1>2, IndexInductive, PTL DEF Spec, RowsOnlyRenewed
================================================================================
