------------------------------ MODULE ServeProofs ------------------------------
(***************************************************************************)
(* Proofs about the server around the index, for any askers, files,        *)
(* workers, requests, failures and ends of the process: the runner, which  *)
(* decides when to scan, and the requests that are answered meanwhile.     *)
(***************************************************************************)
EXTENDS IndexProofs, FiniteSetTheorems

-----------------------------------------------------------------------------
(* The runner: no request for a rescan is forgotten.                       *)

(* A server that does not scan accepts no requests, so that it needs none  *)
(* of the places RequestKept names.                                        *)
RunnerInv ==
  /\ RunnerTypeOK
  /\ RequestKept
  /\ loop = "disabled" => ~scanEnabled
  /\ ~scanEnabled => Waiting = {}

(* The steps of the server as the runner sees them.                        *)
RunnerStep ==
  \/ LoopStep \/ DedupReturns \/ BeginScan \/ ScanReturns
  \/ \E a \in Askers : Ask(a)
  \/ Cancel \/ ProcessEnds \/ ProcessStarts
  \/ UNCHANGED runnerVars

LEMMA StepsOfTheRunner == [Next]_vars => RunnerStep
<1>1. ASSUME Next PROVE RunnerStep
  <2>1. CASE LoopGoesOn
    BY <2>1 DEF LoopGoesOn, RunnerStep
  <2>2. CASE CallScan \/ ReturnScan
    BY <2>2 DEF CallScan, ReturnScan, RunnerStep
  <2>3. CASE ScanStep \/ FileChange
    BY <2>3 DEF ScanStep, FileChange, OnlyIndex, RunnerStep
  <2>4. CASE AskRescan
    BY <2>4 DEF AskRescan, RunnerStep
  <2>5. CASE AskFile \/ ServeStep
    BY <2>5 DEF AskFile, ServeStep, RunnerStep, runnerVars
  <2>6. CASE Signal \/ Stop \/ Start
    BY <2>6 DEF Signal, Stop, Start, RunnerStep
  <2>7. QED
    BY <1>1, <2>1, <2>2, <2>3, <2>4, <2>5, <2>6 DEF Next
<1>2. ASSUME UNCHANGED vars PROVE RunnerStep
  BY <1>2 DEF vars, RunnerStep
<1>3. QED
  BY <1>1, <1>2

LEMMA RunnerStart == RunnerAssumption /\ RunnerInit => RunnerInv
BY DEF RunnerAssumption, RunnerInit, RunnerInv, RunnerTypeOK, RequestKept, Waiting, Loops

(* What happens to the requests that wait: one is added, a scan begins for *)
(* all of them, or nothing.                                                *)
LEMMA WaitingSteps ==
  ASSUME RunnerTypeOK, RunnerStep
  PROVE  /\ \A a \in Askers : Ask(a) => a \notin Waiting /\ Waiting' = Waiting \cup {a}
         /\ BeginScan => Waiting' = {}
         /\ \/ \E a \in Askers : Ask(a)
            \/ BeginScan
            \/ Waiting' = Waiting
<1>1. ASSUME NEW a \in Askers, Ask(a)
      PROVE  a \notin Waiting /\ Waiting' = Waiting \cup {a}
  BY <1>1 DEF Ask, Waiting, RunnerTypeOK
<1>2. ASSUME BeginScan PROVE Waiting' = {}
  BY <1>2 DEF BeginScan, Waiting, RunnerTypeOK
<1>3. asked' = asked => Waiting' = Waiting
  BY DEF Waiting
<1>4. asked' = asked \/ BeginScan \/ \E a \in Askers : Ask(a)
  BY DEF RunnerStep, LoopStep, BootScanning, BootDisabled, Tick, Receive, Done, Drain,
         FinishScan, DedupReturns, ScanReturns, Cancel, ProcessEnds, ProcessStarts,
         runnerVars
<1>5. QED
  BY <1>1, <1>2, <1>3, <1>4

LEMMA RunnerInvStep == RunnerInv /\ RunnerStep => RunnerInv'
<1> SUFFICES ASSUME RunnerInv, RunnerStep PROVE RunnerInv'
  OBVIOUS
<1>1. /\ \A a \in Askers : Ask(a) => a \notin Waiting /\ Waiting' = Waiting \cup {a}
      /\ BeginScan => Waiting' = {}
      /\ asked' = asked => Waiting' = Waiting
  BY WaitingSteps DEF RunnerInv, Waiting
<1> USE DEF RunnerInv, RunnerTypeOK, Loops, GoTo, RequestKept
<1>2. CASE BootScanning
  BY <1>2, <1>1 DEF BootScanning
<1>3. CASE BootDisabled
  <2>1. Waiting' = Waiting
    BY <1>3, <1>1 DEF BootDisabled
  <2>2. Waiting = {}
    BY <1>3 DEF BootDisabled
  <2>3. QED
    BY <1>3, <2>1, <2>2 DEF BootDisabled
<1>4. CASE Tick \/ Receive \/ Done \/ Drain
  BY <1>4, <1>1 DEF Tick, Receive, Done, Drain
<1>5. CASE BeginScan
  BY <1>5, <1>1 DEF BeginScan
<1>6. CASE ScanReturns \/ DedupReturns \/ FinishScan
  BY <1>6, <1>1 DEF ScanReturns, DedupReturns, FinishScan
<1>7. ASSUME NEW a \in Askers, Ask(a) PROVE RunnerInv'
  BY <1>7, <1>1 DEF Ask
<1>8. CASE Cancel
  BY <1>8, <1>1 DEF Cancel
<1>9. CASE ProcessEnds
  BY <1>9, <1>1 DEF ProcessEnds
<1>10. CASE ProcessStarts
  BY <1>10, <1>1 DEF ProcessStarts
<1>11. CASE UNCHANGED runnerVars
  BY <1>11, <1>1 DEF runnerVars
<1>12. QED
  BY <1>2, <1>3, <1>4, <1>5, <1>6, <1>7, <1>8, <1>11, <1>9, <1>10
  DEF RunnerStep, LoopStep

LEMMA RunnerInductive == Spec => []RunnerInv
<1>1. Init => RunnerInv
  BY RunnerStart, RunnerAssumption DEF Init
<1>2. RunnerInv /\ [Next]_vars => RunnerInv'
  BY RunnerInvStep, StepsOfTheRunner
<1>3. QED
  BY <1>1, <1>2, PTL DEF Spec

(* No request for a rescan is forgotten: until a scan that begins after it *)
(* does, it is in the trigger channel of the runner, or the loop has taken *)
(* it and will scan next.  Trigger, drainTriggers and executeScan together *)
(* see to that.                                                            *)
THEOREM NoRequestForgotten == Spec => []RequestKept
<1>1. RunnerInv => RequestKept
  BY DEF RunnerInv
<1>2. QED
  BY <1>1, RunnerInductive, PTL

(* The runner does what RescanPromise allows: a request counts as honoured *)
(* only when a scan begins, and then all of them are.                      *)
THEOREM RunnerKeepsPromise == Spec => RescanSafety
<1>1. Init => Promise!PromiseInit
  BY DEF Init, RunnerInit, Promise!PromiseInit, Waiting
<1>2. ASSUME RunnerInv, [Next]_vars
      PROVE  [Promise!PromiseNext]_Waiting
  <2>1. RunnerStep
    BY <1>2, StepsOfTheRunner
  <2>2. CASE \E a \in Askers : Ask(a)
    BY <1>2, <2>1, <2>2, WaitingSteps
    DEF RunnerInv, Promise!PromiseNext, Promise!Accept
  <2>3. CASE BeginScan
    BY <1>2, <2>1, <2>3, WaitingSteps
    DEF RunnerInv, Promise!PromiseNext, Promise!ScanBegins
  <2>4. CASE Waiting' = Waiting
    BY <2>4
  <2>5. QED
    BY <1>2, <2>1, <2>2, <2>3, <2>4, WaitingSteps DEF RunnerInv
<1>3. QED
  BY <1>1, <1>2, RunnerInductive, PTL
  DEF Spec, RescanSafety, Promise!PromiseSafety

-----------------------------------------------------------------------------
(* What is listed is what is opened.                                       *)

(* A listed member of a package whose entries have paths of their own is   *)
(* the one its name opens, for every way the formats write names.          *)
LEMMA ListedIsOpened ==
  ASSUME NEW kind, NEW entries, DOMAIN entries \subseteq Nat, DistinctPaths(entries),
         NEW m \in ElfMembers(kind, entries)
  PROVE  OpenMember(kind, entries, m.name) = m.body
<1>1. PICK i \in DOMAIN entries :
        m = [name |-> <<ListedAs(kind, entries[i].name)>>, body |-> entries[i].body]
  BY DEF ElfMembers, Listed, Regular
<1> DEFINE part == ListedAs(kind, entries[i].name)
<1>2. m.name[1] = part /\ Len(m.name) = 1 /\ m.body = entries[i].body
  BY <1>1
<1>3. AnswersTo(kind, entries[i], part)
  BY DEF AnswersTo, ListedAs
<1>4. part.path = entries[i].name.path
  BY DEF ListedAs, Trim
<1>5. ASSUME NEW j \in DOMAIN entries, AnswersTo(kind, entries[j], part)
      PROVE  j = i
  <2>1. entries[j].name.path = part.path
    BY <1>5 DEF AnswersTo, Trim
  <2>2. QED
    BY <1>4, <2>1 DEF DistinctPaths
<1> HIDE DEF part
<1>6. Hits(kind, entries, part) = {i}
  BY <1>3, <1>5 DEF Hits
<1>7. First({i}) = i
  BY DEF First
<1>8. OpenEntry(kind, entries, part) = entries[i].body
  BY <1>6, <1>7 DEF OpenEntry
<1>9. QED
  BY <1>2, <1>8 DEF OpenMember

-----------------------------------------------------------------------------
(* The inductive invariant.                                                *)

(* What the file at a path holds under a stamp, found by a key and the     *)
(* name of a member, None for the file itself.                             *)
Offers(p, s, k, name) ==
  IF p \in Plain THEN k \in Keys(p, s)
  ELSE /\ Holds[p][s].type # "broken"
       /\ \E m \in MembersOf(p, Holds[p][s].entries) :
             m.name = name /\ MemberKey(p, m.name, m.body) = k

(* A row leads where its key says unless its file, whose stamp is given,   *)
(* has changed.                                                            *)
Sound(k, r, stamp, faithful, extract) ==
  /\ r.path \in Paths /\ r.mtime \in Stamps /\ r.mtime <= stamp
  /\ r.path \in Plain => r.name = None
  /\ r.cached => extract
  /\ r.path \in faithful /\ r.mtime = stamp => Offers(r.path, r.mtime, k, r.name)

RowsSound ==
  \A k \in DOMAIN rows : Sound(k, rows[k], disk[rows[k].path].stamp, Faithful, ~lazy)

(* The members a worker has left are those of the file.                    *)
LeftSound(j, stamp, faithful) ==
  j.step = "members" /\ j.path \in faithful /\ j.stamp = stamp =>
    /\ Holds[j.path][j.stamp].type # "broken"
    /\ \A m \in j.left : m \in MembersOf(j.path, Holds[j.path][j.stamp].entries)

JobsSound == \A w \in Workers : LeftSound(job[w], disk[job[w].path].stamp, Faithful)

NoFile == {"upstream", "not found", "forbidden", "error"}

RightAnswer(r, stamp, faithful) ==
  /\ r.step = "answered" /\ r.kind = "file" /\ r.key \in Ids
  /\ r.answer.type \notin NoFile /\ r.row.path \in faithful
  => /\ r.row.mtime \in Stamps
     /\ \/ r.answer.type = "elf" /\ r.answer.id = r.key
        \/ stamp > r.row.mtime

(* A request keeps the row it found.                                       *)
RequestSound(r, stamp, faithful, extract) ==
  /\ r.step \in {"free", "row", "path", "stream", "stat", "create", "fill", "open",
                 "cleanup", "answered"}
  /\ r.kind \in Kinds
  /\ r.step \notin {"free", "row", "answered"} =>
       Sound(r.key, r.row, stamp, faithful, extract)
  /\ r.step = "path" => r.row.name = None \/ r.row.cached
  /\ r.step = "stream" => r.row.name # None
  /\ r.step \in {"stat", "create", "fill", "open", "cleanup"} =>
       r.kind = "section" \/ r.key \notin Ids
  /\ RightAnswer(r, stamp, faithful)

RequestsSound ==
  /\ req = [q \in Requests |-> req[q]]
  /\ \A q \in Requests :
       RequestSound(req[q], disk[req[q].row.path].stamp, Faithful, ~lazy)

ServeInv == IndexInv /\ RowsSound /\ JobsSound /\ RequestsSound

-----------------------------------------------------------------------------
(* Files that change.                                                      *)

LEMMA SoundStays ==
  ASSUME IndexAssumption, NEW k, NEW r, NEW old, NEW new, NEW faithful, NEW extract,
         Sound(k, r, old, faithful, extract),
         r.path \in Paths => old \in Nat /\ new \in Nat /\ new >= old
  PROVE  Sound(k, r, new, faithful, extract)
<1>1. r.mtime \in Nat /\ old \in Nat /\ new \in Nat /\ new >= old /\ r.mtime <= old
  BY TimesAreNumbers DEF Sound
<1>2. r.mtime <= new /\ (r.mtime = new => r.mtime = old)
  BY <1>1
<1>3. QED
  BY <1>2 DEF Sound

LEMMA RequestStays ==
  ASSUME IndexAssumption, NEW r, NEW old, NEW new, NEW faithful, NEW extract,
         faithful \subseteq Paths, RequestSound(r, old, faithful, extract),
         r.row.path \in Paths => old \in Nat /\ new \in Nat /\ new >= old
  PROVE  RequestSound(r, new, faithful, extract)
<1>1. Sound(r.key, r.row, old, faithful, extract)
        => Sound(r.key, r.row, new, faithful, extract)
  BY SoundStays
<1>2. RightAnswer(r, new, faithful)
  <2>1. SUFFICES ASSUME r.step = "answered", r.kind = "file", r.key \in Ids,
                        r.answer.type \notin NoFile, r.row.path \in faithful
                 PROVE  /\ r.row.mtime \in Stamps
                        /\ \/ r.answer.type = "elf" /\ r.answer.id = r.key
                           \/ new > r.row.mtime
    BY DEF RightAnswer
  <2>2. /\ r.row.mtime \in Stamps
        /\ \/ r.answer.type = "elf" /\ r.answer.id = r.key
           \/ old > r.row.mtime
    BY <2>1 DEF RequestSound, RightAnswer
  <2>3. r.row.mtime \in Nat /\ old \in Nat /\ new \in Nat /\ new >= old
    BY <2>1, <2>2, TimesAreNumbers
  <2>4. QED
    BY <2>2, <2>3
<1>3. QED
  BY <1>1, <1>2 DEF RequestSound

(* Rows, jobs and requests that a step leaves alone.                       *)
LEMMA LeftAlone ==
  ASSUME IndexAssumption, IndexInv, IndexInv', UNCHANGED lazy,
         \A p \in Paths : disk'[p].stamp >= disk[p].stamp
  PROVE  /\ \A k, r : Sound(k, r, disk[r.path].stamp, Faithful, ~lazy)
                        => Sound(k, r, disk'[r.path].stamp, Faithful', ~lazy')
         /\ RowsSound /\ UNCHANGED rows => RowsSound'
         /\ JobsSound => \A w \in Workers : job'[w] = job[w]
                           => LeftSound(job'[w], disk'[job'[w].path].stamp, Faithful')
         /\ RequestsSound => \A q \in Requests : req'[q] = req[q]
              => RequestSound(req'[q], disk'[req'[q].row.path].stamp, Faithful', ~lazy')
<1>1. \A p \in Paths : /\ disk[p].stamp \in Nat /\ disk'[p].stamp \in Nat
                       /\ disk'[p].stamp >= disk[p].stamp
  BY TimesAreNumbers DEF IndexInv, DiskInv
<1>2. Faithful' = Faithful /\ lazy' = lazy /\ Faithful \subseteq Paths
  BY DEF Faithful, Plain, Packages, SourcePackages
<1>3. \A k, r : Sound(k, r, disk[r.path].stamp, Faithful, ~lazy)
                  => Sound(k, r, disk'[r.path].stamp, Faithful', ~lazy')
  BY <1>1, <1>2, SoundStays
<1>4. RowsSound /\ UNCHANGED rows => RowsSound'
  BY <1>3 DEF RowsSound
<1>5. ASSUME JobsSound, NEW w \in Workers, job'[w] = job[w]
      PROVE  LeftSound(job'[w], disk'[job'[w].path].stamp, Faithful')
  <2>1. LeftSound(job[w], disk[job[w].path].stamp, Faithful)
    BY <1>5 DEF JobsSound
  <2>2. ASSUME job[w].step = "members"
        PROVE  job[w].stamp = disk'[job[w].path].stamp
                 => job[w].stamp = disk[job[w].path].stamp
    <3>1. /\ job[w].path \in Paths /\ job[w].stamp \in Nat
          /\ job[w].stamp <= disk[job[w].path].stamp
      BY <2>2, TimesAreNumbers DEF IndexInv, JobsInv, JobInv, At
    <3>2. QED
      BY <1>1, <3>1
  <2>3. QED
    BY <1>2, <1>5, <2>1, <2>2 DEF LeftSound
<1>6. ASSUME RequestsSound, NEW q \in Requests, req'[q] = req[q]
      PROVE  RequestSound(req'[q], disk'[req'[q].row.path].stamp, Faithful', ~lazy')
  BY <1>1, <1>2, <1>6, RequestStays DEF RequestsSound
<1>7. QED
  BY <1>3, <1>4, <1>5, <1>6

-----------------------------------------------------------------------------
(* Rows and workers.                                                       *)

LEMMA RowsFollow ==
  ASSUME IndexAssumption, IndexInv, IndexInv', RowsSound, UNCHANGED <<lazy, disk>>,
         NEW key, NEW row, Sound(key, row, disk[row.path].stamp, Faithful, ~lazy),
         rows' = Upsert(rows, key, row)
  PROVE  RowsSound'
<1>1. TimesOk(rows) /\ row.mtime \in Nat
  BY TimesAreNumbers DEF IndexInv, Sound
<1>2. /\ Renewed(rows, rows')
      /\ key \in DOMAIN rows' /\ rows'[key].mtime >= row.mtime
      /\ \A k \in DOMAIN rows' : \/ k = key /\ rows'[k] = row
                                 \/ k \in DOMAIN rows /\ rows'[k] = rows[k]
  BY <1>1, UpsertFacts
<1>3. ASSUME NEW k \in DOMAIN rows'
      PROVE  Sound(k, rows'[k], disk[rows'[k].path].stamp, Faithful, ~lazy)
  BY <1>2, <1>3 DEF RowsSound
<1>4. Faithful' = Faithful
  BY DEF Faithful
<1>5. QED
  BY <1>3, <1>4 DEF RowsSound

LEMMA JobsFollow ==
  ASSUME IndexAssumption, JobsSound, UNCHANGED <<lazy, disk>>,
         NEW w \in Workers, \A v \in Workers \ {w} : job'[v] = job[v],
         LeftSound(job'[w], disk[job'[w].path].stamp, Faithful)
  PROVE  JobsSound'
<1>1. Faithful' = Faithful
  BY DEF Faithful
<1>2. ASSUME NEW v \in Workers
      PROVE  LeftSound(job'[v], disk[job'[v].path].stamp, Faithful)
  BY <1>2 DEF JobsSound
<1>3. QED
  BY <1>1, <1>2 DEF JobsSound

LEMMA AddSound ==
  ASSUME IndexAssumption, IndexInv, IndexInv', RowsSound, JobsSound,
         NEW w \in Workers, AddElf(w)
  PROVE  RowsSound' /\ JobsSound'
<1> DEFINE row == [path |-> job[w].path, name |-> None, mtime |-> job[w].stamp,
                   cached |-> FALSE]
<1>1. UNCHANGED <<lazy, disk>> /\ At(w, "add") /\ JobRecords /\ JobInv(w)
  BY DEF AddElf, IndexInv, JobsInv
<1>2. Sound(job[w].id, row, disk[row.path].stamp, Faithful, ~lazy)
  BY <1>1 DEF JobInv, Sound, Offers, At, Fresh
<1>3. rows' = rows \/ rows' = Upsert(rows, job[w].id, row)
  BY DEF AddElf
<1> HIDE DEF row
<1>4. RowsSound'
  BY <1>1, <1>2, <1>3, RowsFollow, LeftAlone, TimesAreNumbers DEF IndexInv, DiskInv
<1>5. Continue(w, "mark", job[w].id, {}) \/ job' = [job EXCEPT ![w] = Idle]
  BY DEF AddElf, Fails
<1>6. job'[w].step # "members" /\ \A v \in Workers \ {w} : job'[v] = job[v]
  BY <1>1, <1>5, GoesOn, IdleRecord DEF At
<1>7. QED
  BY <1>1, <1>4, <1>6, JobsFollow DEF LeftSound

LEMMA ListSound ==
  ASSUME IndexAssumption, IndexInv, IndexInv', RowsSound, JobsSound,
         NEW w \in Workers, ListMembers(w)
  PROVE  RowsSound' /\ JobsSound'
<1> DEFINE p == job[w].path
           s == job[w].stamp
<1>1. UNCHANGED <<lazy, disk, rows>> /\ At(w, "list") /\ JobRecords /\ JobInv(w)
  BY DEF ListMembers, IndexInv, JobsInv
<1>2. p \notin Plain /\ p \in Paths /\ s \in Stamps
  BY <1>1 DEF JobInv, At
<1>3. RowsSound'
  BY <1>1, LeftAlone, TimesAreNumbers DEF IndexInv, DiskInv
<1>4. CASE job' = [job EXCEPT ![w] = Idle]
  <2>1. job'[w].step # "members" /\ \A v \in Workers \ {w} : job'[v] = job[v]
    BY <1>1, <1>4, IdleRecord DEF At
  <2>2. QED
    BY <1>1, <1>3, <2>1, JobsFollow DEF LeftSound
<1>5. CASE Readable(p) /\ Continue(w, "members", None, Members(p))
  <2>1. /\ job'[w].path = p /\ job'[w].stamp = s /\ job'[w].left = Members(p)
        /\ \A v \in Workers \ {w} : job'[v] = job[v]
    BY <1>1, <1>5, GoesOn
  <2>2. ASSUME p \in Faithful, disk[p].stamp = s
        PROVE  Members(p) = MembersOf(p, Holds[p][s].entries) /\ Holds[p][s].type # "broken"
    <3>1. Body(p) = Holds[p][s] /\ Body(p).type # "broken"
      BY <1>2, <1>5, <2>2 DEF Readable, Body
    <3>2. Kind[p] # "dsc"
      BY <1>2, <2>2 DEF Faithful, Plain
    <3>3. QED
      BY <3>1, <3>2 DEF Members, Entries
  <2>3. LeftSound(job'[w], disk[p].stamp, Faithful)
    BY <2>1, <2>2 DEF LeftSound
  <2>4. QED
    BY <1>1, <1>3, <2>1, <2>3, JobsFollow
<1>6. QED
  BY <1>4, <1>5 DEF ListMembers, Fails

(* A member that is done with, whatever came of it.                        *)
LEMMA LeftOutSound ==
  ASSUME IndexAssumption, IndexInv, JobsSound, UNCHANGED <<lazy, disk>>,
         NEW w \in Workers, NEW m \in job[w].left, At(w, "members"),
         Continue(w, "members", None, job[w].left \ {m})
  PROVE  JobsSound'
<1>1. /\ job'[w].path = job[w].path /\ job'[w].stamp = job[w].stamp
      /\ job'[w].left = job[w].left \ {m}
      /\ \A v \in Workers \ {w} : job'[v] = job[v]
  BY GoesOn DEF IndexInv, JobsInv
<1>2. LeftSound(job[w], disk[job[w].path].stamp, Faithful)
  BY DEF JobsSound
<1>3. LeftSound(job'[w], disk[job'[w].path].stamp, Faithful)
  BY <1>1, <1>2 DEF LeftSound, At
<1>4. QED
  BY <1>1, <1>3, JobsFollow

LEMMA MemberSound ==
  ASSUME IndexAssumption, NothingAssumption, IndexInv, IndexInv', RowsSound, JobsSound,
         NEW w \in Workers, NEW m \in job[w].left, IndexMember(w, m)
  PROVE  RowsSound' /\ JobsSound'
<1> DEFINE p == job[w].path
           s == job[w].stamp
           row == [path |-> p, name |-> m.name, mtime |-> s, cached |-> ~lazy]
<1>1. /\ UNCHANGED <<lazy, disk>> /\ At(w, "members") /\ JobInv(w)
      /\ Continue(w, "members", None, job[w].left \ {m})
  BY DEF IndexMember, IndexInv, JobsInv
<1>2. /\ p \notin Plain /\ p \in Paths /\ s \in Stamps /\ s <= disk[p].stamp
      /\ LeftSound(job[w], disk[p].stamp, Faithful)
  BY <1>1 DEF JobInv, JobsSound, At
<1>3. PICK got : /\ Extract(p, m, got)
                 /\ LET key == IF got = Missing THEN NoId ELSE MemberKey(p, m.name, got)
                    IN rows' = IF key = NoId THEN rows ELSE Upsert(rows, key, row)
  BY DEF IndexMember
<1>4. CASE rows' = rows
  BY <1>1, <1>4, LeftAlone, LeftOutSound, TimesAreNumbers DEF IndexInv, DiskInv
<1>5. CASE rows' = Upsert(rows, MemberKey(p, m.name, got), row)
  <2>1. ASSUME p \in Faithful, s = disk[p].stamp
        PROVE  Offers(p, s, MemberKey(p, m.name, got), m.name)
    <3>1. lazy
      BY <1>2, <2>1 DEF Faithful
    <3>2. got = m.body
      BY <1>3, <3>1 DEF Extract
    <3>3. Holds[p][s].type # "broken" /\ m \in MembersOf(p, Holds[p][s].entries)
      BY <1>1, <1>2, <2>1 DEF LeftSound, At
    <3>4. QED
      BY <1>2, <3>2, <3>3 DEF Offers
  <2>2. Sound(MemberKey(p, m.name, got), row, disk[row.path].stamp, Faithful, ~lazy)
    BY <1>2, <2>1 DEF Sound
  <2> HIDE DEF row
  <2>3. RowsSound'
    BY <1>1, <1>5, <2>2, RowsFollow
  <2>4. QED
    BY <1>1, <2>3, LeftOutSound
<1>6. QED
  BY <1>3, <1>4, <1>5

LEMMA WorkersSound ==
  ASSUME IndexAssumption, NothingAssumption, IndexInv, IndexInv', RowsSound, JobsSound,
         NEW w \in Workers, WorkerStep(w)
  PROVE  RowsSound' /\ JobsSound'
<1> DEFINE Ends == /\ UNCHANGED <<lazy, disk, rows>>
                   /\ \A v \in Workers \ {w} : job'[v] = job[v]
                   /\ job'[w].step # "members"
<1>1. JobRecords /\ \A p \in Paths : UNCHANGED disk => disk'[p].stamp >= disk[p].stamp
  BY TimesAreNumbers DEF IndexInv, JobsInv, DiskInv
<1>2. TakeJob(w) => Ends
  <2>1. \A first : Taken(first).step # "members"
    BY DEF Taken, NewJob
  <2>2. TakeJob(w) => job'[w].step # "members" /\ \A v \in Workers \ {w} : job'[v] = job[v]
    BY <1>1, <2>1, TakenJob
  <2>3. TakeJob(w) => UNCHANGED <<lazy, disk, rows>>
    BY DEF TakeJob
  <2>4. QED
    BY <2>2, <2>3
<1>3. ReadElf(w) => Ends
  <2> SUFFICES ASSUME ReadElf(w) PROVE Ends
    OBVIOUS
  <2>1. \/ job' = [job EXCEPT ![w] = Idle]
        \/ \E step \in {"mark", "add"} : \E id : Continue(w, step, id, {})
    BY DEF ReadElf, Fails
  <2>2. QED
    BY <1>1, <2>1, GoesOn, IdleRecord DEF ReadElf, At
<1>4. Mark(w) => Ends
  BY <1>1, IdleRecord DEF Mark, At
<1>5. MembersDone(w) => Ends
  BY <1>1, GoesOn DEF MembersDone
<1>6. ASSUME NEW m \in job[w].left, MemberFails(w, m) PROVE RowsSound' /\ JobsSound'
  BY <1>1, <1>6, LeftAlone, LeftOutSound DEF MemberFails
<1>7. Ends => RowsSound' /\ JobsSound'
  BY <1>1, LeftAlone, JobsFollow DEF LeftSound
<1> HIDE DEF Ends
<1>8. QED
  BY <1>2, <1>3, <1>4, <1>5, <1>6, <1>7, AddSound, ListSound, MemberSound DEF WorkerStep

-----------------------------------------------------------------------------
(* Requests.                                                               *)

(* A request that goes on, and the others.                                 *)
LEMMA Turn ==
  ASSUME NEW q \in Requests, req = [v \in Requests |-> req[v]],
         NEW step, NEW row, NEW held, NEW answer, Becomes(q, step, row, held, answer)
  PROVE  /\ req' = [v \in Requests |-> req'[v]]
         /\ \A v \in Requests \ {q} : req'[v] = req[v]
         /\ req'[q].step = step /\ req'[q].row = row /\ req'[q].answer = answer
         /\ req'[q].kind = req[q].kind /\ req'[q].key = req[q].key
BY DEF Becomes

(* Only the request whose turn it is has to be looked at.                  *)
LEMMA RequestsFollow ==
  ASSUME IndexAssumption, IndexInv, IndexInv', RequestsSound, UNCHANGED <<lazy, disk>>,
         NEW q \in Requests, req' = [v \in Requests |-> req'[v]],
         \A v \in Requests \ {q} : req'[v] = req[v],
         RequestSound(req'[q], disk[req'[q].row.path].stamp, Faithful, ~lazy)
  PROVE  RequestsSound'
<1>1. Faithful' = Faithful
  BY DEF Faithful
<1>2. ASSUME NEW v \in Requests
      PROVE  RequestSound(req'[v], disk[req'[v].row.path].stamp, Faithful, ~lazy)
  BY <1>2 DEF RequestsSound
<1>3. QED
  BY <1>1, <1>2 DEF RequestsSound

(* The answer to a request for a debug file whose row names a file.        *)
LEMMA PathAnswer ==
  ASSUME IndexAssumption, NothingAssumption, IndexInv, NEW r,
         Sound(r.key, r.row, disk[r.row.path].stamp, Faithful, ~lazy),
         r.row.name = None \/ r.row.cached, r.key \in Ids, r.row.path \in Faithful,
         disk[r.row.path].stamp = r.row.mtime
  PROVE  /\ r.row.name = None
         /\ disk[r.row.path].there =>
              Body(r.row.path).type = "elf" /\ Body(r.row.path).id = r.key
<1> DEFINE p == r.row.path
           s == r.row.mtime
<1>1. p \in Paths /\ s \in Stamps /\ Offers(p, s, r.key, r.row.name)
  BY DEF Sound
<1>2. CASE p \in Plain
  <2>1. r.row.name = None /\ r.key \in Keys(p, s)
    BY <1>1, <1>2 DEF Sound, Offers
  <2> HIDE DEF p, s
  <2>2. Holds[p][s].type = "elf" /\ Holds[p][s].id = r.key
    BY <1>1, <1>2, <2>1, PlainKeys
  <2> USE DEF p, s
  <2>3. QED
    BY <2>1, <2>2 DEF Body
<1>3. CASE p \notin Plain
  <2>1. lazy /\ Kind[p] # "dsc" /\ r.row.name = None
    BY <1>3 DEF Faithful, Sound
  <2>2. PICK m \in MembersOf(p, Holds[p][s].entries) :
           m.name = None /\ Holds[p][s].type # "broken"
    BY <1>1, <1>3, <2>1 DEF Offers
  <2>3. QED
    BY <1>1, <1>3, <2>1, <2>2 DEF NothingAssumption
<1>4. QED
  BY <1>2, <1>3

(* The answer to a request for a debug file that is a member of a package. *)
LEMMA StreamAnswer ==
  ASSUME IndexAssumption, NothingAssumption, PackageAssumption, IndexInv, NEW r,
         Sound(r.key, r.row, disk[r.row.path].stamp, Faithful, ~lazy),
         r.row.name # None, r.key \in Ids, r.row.path \in Faithful,
         disk[r.row.path].stamp = r.row.mtime, disk[r.row.path].there
  PROVE  LET got == OpenMember(Kind[r.row.path], Entries(r.row.path), r.row.name)
         IN got.type = "elf" /\ got.id = r.key
<1> DEFINE p == r.row.path
           s == r.row.mtime
           entries == Holds[p][s].entries
<1>1. p \in Paths /\ s \in Stamps /\ Offers(p, s, r.key, r.row.name) /\ p \notin Plain
  BY DEF Sound
<1>2. lazy /\ Kind[p] # "dsc" /\ p \in Packages \cup SourcePackages
  BY <1>1 DEF Faithful, Plain
<1>3. PICK m \in MembersOf(p, entries) :
         m.name = r.row.name /\ MemberKey(p, m.name, m.body) = r.key
  BY <1>1 DEF Offers
<1>4. Holds[p][s].type # "broken" /\ Entries(p) = entries
  BY <1>1, <1>2 DEF Offers, Entries, Body
<1>5. CASE p \in SourcePackages
  <2>1. p \notin Packages
    BY <1>5 DEF Packages, SourcePackages
  <2>2. m \in SourceMembers(Kind[p], entries) /\ m.name = r.key
    BY <1>3, <1>5, <2>1 DEF MembersOf, MemberKey
  <2>3. QED
    BY <1>1, <1>2, <1>4, <1>5, <2>2 DEF PackageAssumption
<1>6. CASE p \in Packages
  <2>1. p \notin SourcePackages
    BY <1>6 DEF Packages, SourcePackages
  <2>2. m \in ElfMembers(Kind[p], entries)
    BY <1>3, <1>6 DEF MembersOf
  <2>3. DOMAIN entries \subseteq Nat /\ DistinctPaths(entries)
    BY <1>1, <1>2, <1>4, <1>6 DEF PackageAssumption
  <2> HIDE DEF entries, p
  <2>4. OpenMember(Kind[p], entries, m.name) = m.body
    BY <2>2, <2>3, ListedIsOpened
  <2>5. PICK i \in Regular(entries, {"elf"}) : m.body = entries[i].body
    BY <2>2 DEF ElfMembers, Listed
  <2>6. m.body.type = "elf"
    BY <2>5 DEF Regular
  <2> USE DEF entries, p
  <2>7. m.body.id = r.key
    BY <1>3, <2>1, <2>6 DEF MemberKey
  <2>8. QED
    BY <1>3, <1>4, <2>4, <2>6, <2>7
<1>7. QED
  BY <1>2, <1>5, <1>6

(* An answer without a file.                                               *)
LEMMA Refused ==
  ASSUME IndexAssumption, IndexInv, IndexInv', RequestsSound, UNCHANGED <<lazy, disk>>,
         NEW q \in Requests, NEW type \in NoFile, NEW held,
         Becomes(q, "answered", req[q].row, held, Reply(type))
  PROVE  RequestsSound'
<1>1. Reply(type).type \in NoFile
  BY DEF Reply
<1>2. req[q].kind \in Kinds /\ req = [v \in Requests |-> req[v]]
  BY DEF RequestsSound, RequestSound
<1>3. /\ req'[q].step = "answered" /\ req'[q].kind = req[q].kind
      /\ req'[q].answer = Reply(type)
      /\ req' = [v \in Requests |-> req'[v]]
      /\ \A v \in Requests \ {q} : req'[v] = req[v]
  BY <1>2, Turn
<1>4. RequestSound(req'[q], disk[req'[q].row.path].stamp, Faithful, ~lazy)
  BY <1>1, <1>2, <1>3 DEF RequestSound, RightAnswer
<1>5. QED
  BY <1>3, <1>4, RequestsFollow

LEMMA FindNoRowSound ==
  ASSUME IndexAssumption, IndexInv, IndexInv', RequestsSound, UNCHANGED <<lazy, disk>>,
         NEW q \in Requests, FindNoRow(q)
  PROVE  RequestsSound'
BY Refused DEF FindNoRow, Answer, NoFile

LEMMA FindRowSound ==
  ASSUME IndexAssumption, IndexInv, IndexInv', RowsSound, RequestsSound,
         UNCHANGED <<lazy, disk>>, NEW q \in Requests, FindRow(q)
  PROVE  RequestsSound'
<1> DEFINE row == rows[req[q].key]
<1>1. /\ req[q].kind \in Kinds /\ req = [v \in Requests |-> req[v]]
      /\ Sound(req[q].key, row, disk[row.path].stamp, Faithful, ~lazy)
  BY DEF FindRow, RequestsSound, RequestSound, RowsSound
<1>2. CASE \E type \in {"error", "forbidden"} :
             Becomes(q, "answered", req[q].row, req[q].held, Reply(type))
  BY <1>2, Refused DEF NoFile
<1>3. CASE \E step \in {"path", "stat", "stream"} :
             /\ Becomes(q, step, row, None, None)
             /\ step = "path" => row.name = None \/ row.cached
             /\ step = "stream" => row.name # None
             /\ step = "stat" => req[q].kind = "section" \/ req[q].key \notin Ids
  <2>1. PICK step \in {"path", "stat", "stream"} :
           /\ Becomes(q, step, row, None, None)
           /\ step = "path" => row.name = None \/ row.cached
           /\ step = "stream" => row.name # None
           /\ step = "stat" => req[q].kind = "section" \/ req[q].key \notin Ids
    BY <1>3
  <2> HIDE DEF row
  <2>2. /\ req'[q].step = step /\ req'[q].kind = req[q].kind /\ req'[q].key = req[q].key
        /\ req'[q].row = row
        /\ req' = [v \in Requests |-> req'[v]]
        /\ \A v \in Requests \ {q} : req'[v] = req[v]
    BY <1>1, <2>1, Turn
  <2>3. RequestSound(req'[q], disk[req'[q].row.path].stamp, Faithful, ~lazy)
    BY <1>1, <2>1, <2>2 DEF RequestSound, RightAnswer
  <2>4. QED
    BY <2>2, <2>3, RequestsFollow
<1>4. QED
  BY <1>2, <1>3 DEF FindRow, Answer, IsSource

LEMMA ServePathSound ==
  ASSUME IndexAssumption, NothingAssumption, IndexInv, IndexInv', RequestsSound,
         UNCHANGED <<lazy, disk>>, NEW q \in Requests, ServePath(q)
  PROVE  RequestsSound'
<1> DEFINE r == req[q]
           body == IF r.row.name = None THEN Body(r.row.path) ELSE Copy(q)
<1>1. /\ r.kind \in Kinds /\ req = [v \in Requests |-> req[v]]
      /\ Sound(r.key, r.row, disk[r.row.path].stamp, Faithful, ~lazy)
      /\ r.row.name = None \/ r.row.cached
  BY DEF ServePath, AtStep, RequestsSound, RequestSound
<1>2. Becomes(q, "answered", r.row, r.held, Served(q, body))
  BY DEF ServePath, Answer, Row
<1>3. /\ req'[q].step = "answered" /\ req'[q].kind = r.kind /\ req'[q].key = r.key
      /\ req'[q].row = r.row /\ req'[q].answer = Served(q, body)
      /\ req' = [v \in Requests |-> req'[v]]
      /\ \A v \in Requests \ {q} : req'[v] = req[v]
  BY <1>1, <1>2, Turn
<1>4. ASSUME r.kind = "file", r.key \in Ids, Served(q, body).type \notin NoFile,
             r.row.path \in Faithful
      PROVE  /\ r.row.mtime \in Stamps
             /\ \/ Served(q, body).type = "elf" /\ Served(q, body).id = r.key
                \/ disk[r.row.path].stamp > r.row.mtime
  <2>1. /\ r.row.mtime \in Stamps /\ r.row.path \in Paths
        /\ r.row.mtime <= disk[r.row.path].stamp
    BY <1>1 DEF Sound
  <2>2. r.row.mtime \in Nat /\ disk[r.row.path].stamp \in Nat
    BY <2>1, TimesAreNumbers DEF IndexInv, DiskInv
  <2>3. CASE disk[r.row.path].stamp = r.row.mtime
    <3>1. /\ r.row.name = None
          /\ disk[r.row.path].there =>
               Body(r.row.path).type = "elf" /\ Body(r.row.path).id = r.key
      BY <1>1, <1>4, <2>3, PathAnswer
    <3>2. body # Missing
      BY <1>4 DEF Served, Reply, NoFile
    <3>3. body = Body(r.row.path) /\ Served(q, body) = body
      BY <1>4, <3>1, <3>2 DEF Served
    <3>4. disk[r.row.path].there
      BY <3>2, <3>3 DEF Body
    <3>5. QED
      BY <2>1, <3>1, <3>3, <3>4
  <2>4. QED
    BY <2>1, <2>2, <2>3
<1> HIDE DEF body
<1>5. RequestSound(req'[q], disk[req'[q].row.path].stamp, Faithful, ~lazy)
  BY <1>1, <1>3, <1>4 DEF RequestSound, RightAnswer
<1>6. QED
  BY <1>3, <1>5, RequestsFollow

LEMMA StreamSound ==
  ASSUME IndexAssumption, NothingAssumption, PackageAssumption, IndexInv, IndexInv',
         RequestsSound, UNCHANGED <<lazy, disk>>, NEW q \in Requests, Stream(q)
  PROVE  RequestsSound'
<1> DEFINE r == req[q]
           body == IF MemberNow(q) = Missing THEN Reply("error") ELSE MemberNow(q)
<1>1. /\ r.kind \in Kinds /\ req = [v \in Requests |-> req[v]]
      /\ Sound(r.key, r.row, disk[r.row.path].stamp, Faithful, ~lazy)
      /\ r.row.name # None
  BY DEF Stream, AtStep, RequestsSound, RequestSound
<1>2. Becomes(q, "answered", r.row, r.held, body)
  BY DEF Stream, Answer
<1>3. /\ req'[q].step = "answered" /\ req'[q].kind = r.kind /\ req'[q].key = r.key
      /\ req'[q].row = r.row /\ req'[q].answer = body
      /\ req' = [v \in Requests |-> req'[v]]
      /\ \A v \in Requests \ {q} : req'[v] = req[v]
  BY <1>1, <1>2, Turn
<1>4. ASSUME r.key \in Ids, body.type \notin NoFile, r.row.path \in Faithful
      PROVE  /\ r.row.mtime \in Stamps
             /\ \/ body.type = "elf" /\ body.id = r.key
                \/ disk[r.row.path].stamp > r.row.mtime
  <2>1. /\ r.row.mtime \in Stamps /\ r.row.path \in Paths
        /\ r.row.mtime <= disk[r.row.path].stamp
    BY <1>1 DEF Sound
  <2>2. r.row.mtime \in Nat /\ disk[r.row.path].stamp \in Nat
    BY <2>1, TimesAreNumbers DEF IndexInv, DiskInv
  <2>3. MemberNow(q) # Missing /\ body = MemberNow(q)
    BY <1>4 DEF Reply, NoFile
  <2>4. /\ Readable(r.row.path)
        /\ MemberNow(q) = OpenMember(Kind[r.row.path], Entries(r.row.path), r.row.name)
    BY <2>3 DEF MemberNow, Row
  <2>5. disk[r.row.path].there
    BY <2>4 DEF Readable, Body
  <2>6. CASE disk[r.row.path].stamp = r.row.mtime
    <3>1. LET got == OpenMember(Kind[r.row.path], Entries(r.row.path), r.row.name)
          IN got.type = "elf" /\ got.id = r.key
      BY <1>1, <1>4, <2>5, <2>6, StreamAnswer
    <3>2. QED
      BY <2>1, <2>3, <2>4, <3>1
  <2>7. QED
    BY <2>1, <2>2, <2>6
<1> HIDE DEF body
<1>5. RequestSound(req'[q], disk[req'[q].row.path].stamp, Faithful, ~lazy)
  BY <1>1, <1>3, <1>4 DEF RequestSound, RightAnswer
<1>6. QED
  BY <1>3, <1>5, RequestsFollow

(* Sections and sources, which are extracted.                              *)
Away == {"stat", "create", "fill", "open", "cleanup"}

LEMMA AwaySound ==
  ASSUME IndexAssumption, IndexInv, IndexInv', RequestsSound, UNCHANGED <<lazy, disk>>,
         NEW q \in Requests, req[q].step \in Away, NEW step \in Away \cup {"answered"},
         NEW held, NEW answer, Becomes(q, step, req[q].row, held, answer)
  PROVE  RequestsSound'
<1> DEFINE r == req[q]
<1>1. /\ r.kind \in Kinds /\ req = [v \in Requests |-> req[v]]
      /\ Sound(r.key, r.row, disk[r.row.path].stamp, Faithful, ~lazy)
      /\ r.kind = "section" \/ r.key \notin Ids
  BY DEF Away, RequestsSound, RequestSound
<1>2. /\ req'[q].step = step /\ req'[q].kind = r.kind /\ req'[q].key = r.key
      /\ req'[q].row = r.row
      /\ req' = [v \in Requests |-> req'[v]]
      /\ \A v \in Requests \ {q} : req'[v] = req[v]
  BY <1>1, Turn
<1>3. RequestSound(req'[q], disk[req'[q].row.path].stamp, Faithful, ~lazy)
  BY <1>1, <1>2 DEF RequestSound, RightAnswer, Away
<1>4. QED
  BY <1>2, <1>3, RequestsFollow

LEMMA ExtractionSound ==
  ASSUME IndexAssumption, IndexInv, IndexInv', RequestsSound, UNCHANGED <<lazy, disk>>,
         NEW q \in Requests,
         Stat(q) \/ Create(q) \/ Fill(q) \/ FillFails(q) \/ OpenCopy(q) \/ Cleanup(q)
  PROVE  RequestsSound'
<1>1. /\ req[q].step \in Away
      /\ \E step \in Away \cup {"answered"} : \E held, answer :
           Becomes(q, step, req[q].row, held, answer)
  BY DEF Stat, Create, Fill, FillFails, OpenCopy, Cleanup, AtStep, Away, Answer, GoOn, Row
<1>2. QED
  BY <1>1, AwaySound

LEMMA RequestStepsSound ==
  ASSUME IndexAssumption, NothingAssumption, PackageAssumption, IndexInv, IndexInv',
         RowsSound, RequestsSound, NEW q \in Requests, RequestStep(q)
  PROVE  RequestsSound'
<1>1. UNCHANGED <<lazy, disk>>
  BY StepsOfRequests DEF OnDisk
<1>2. QED
  BY <1>1, FindNoRowSound, FindRowSound, ServePathSound, StreamSound, ExtractionSound
     DEF RequestStep

(* A new request has found nothing yet.                                    *)
LEMMA NewRequestSound ==
  ASSUME NEW step \in {"free", "row"}, NEW kind \in Kinds, NEW key, NEW stamp, NEW faithful,
         NEW extract
  PROVE  RequestSound(NewRequest(step, kind, key), stamp, faithful, extract)
BY DEF RequestSound, RightAnswer, NewRequest

-----------------------------------------------------------------------------
(* The results.                                                            *)

(* The steps of the server as a request sees them.                         *)
Answering == \E q \in Requests : RequestStep(q)
Asking == /\ UNCHANGED OnDisk
          /\ \E q \in Requests, kind \in Kinds : \E key :
                req' = [req EXCEPT ![q] = NewRequest("row", kind, key)]
Elsewhere ==
  /\ UNCHANGED req
  /\ \/ StartWalk \/ WalkStep \/ (\E w \in Workers : WorkerStep(w)) \/ EndWalk
     \/ \E p \in Paths : DeleteFile(p) \/ \E s \in Stamps : WriteFile(p, s)
     \/ UNCHANGED OnDisk
Lost == IndexLost /\ RequestsLost

LEMMA StepsOfTheServer == [Next]_vars => Answering \/ Asking \/ Elsewhere \/ Lost
<1>1. ASSUME Next PROVE Answering \/ Asking \/ Elsewhere \/ Lost
  <2>1. CASE LoopGoesOn \/ AskRescan \/ Signal \/ Start
    BY <2>1 DEF LoopGoesOn, AskRescan, Signal, Start, OnlyRunner, Elsewhere, indexVars,
                serveVars, OnDisk
  <2>2. CASE CallScan \/ ReturnScan
    BY <2>2 DEF CallScan, ReturnScan, Elsewhere, serveVars
  <2>3. CASE Stop
    BY <2>3 DEF Stop, Lost
  <2>4. CASE ScanStep \/ FileChange
    BY <2>4 DEF ScanStep, FileChange, OnlyIndex, Elsewhere, serveVars
  <2>5. CASE AskFile
    <3>1. PICK q \in Requests, kind \in Kinds :
             \E key \in Ids \cup UNION {Keys(p, s) : p \in SourcePackages, s \in Stamps} :
                Request(q, kind, key)
      BY <2>5 DEF AskFile
    <3>2. PICK key : Request(q, kind, key)
      BY <3>1
    <3>3. QED
      BY <3>2 DEF Request, Asking, indexVars, OnDisk
  <2>6. CASE ServeStep
    BY <2>6 DEF ServeStep, Answering
  <2>7. QED
    BY <1>1, <2>1, <2>2, <2>3, <2>4, <2>5, <2>6 DEF Next
<1>2. ASSUME UNCHANGED vars PROVE Elsewhere
  BY <1>2 DEF vars, Elsewhere, indexVars, serveVars, OnDisk
<1>3. QED
  BY <1>1, <1>2

LEMMA StampsGrow ==
  ASSUME IndexAssumption, IndexInv, IndexStep
  PROVE  UNCHANGED lazy /\ \A p \in Paths : disk'[p].stamp >= disk[p].stamp
<1>1. \A p \in Paths : disk[p].stamp \in Nat
  BY TimesAreNumbers DEF IndexInv, DiskInv
<1>2. CASE \E p \in Paths : DeleteFile(p) \/ \E s \in Stamps : WriteFile(p, s)
  <2>1. PICK p \in Paths : DeleteFile(p) \/ \E s \in Stamps : WriteFile(p, s)
    BY <1>2
  <2>2. disk = [x \in Paths |-> disk[x]]
    BY DEF IndexInv, DiskInv
  <2>3. CASE DeleteFile(p)
    BY <1>1, <2>2, <2>3 DEF DeleteFile, Changed
  <2>4. CASE \E s \in Stamps : WriteFile(p, s)
    <3>1. PICK s \in Stamps : WriteFile(p, s)
      BY <2>4
    <3>2. s \in Nat /\ s > disk[p].stamp /\ UNCHANGED lazy
          /\ disk' = [disk EXCEPT ![p] = [stamp |-> s, there |-> TRUE]]
      BY <3>1, TimesAreNumbers DEF WriteFile, Changed
    <3>3. QED
      BY <1>1, <2>2, <3>2
  <2>5. QED
    BY <2>1, <2>3, <2>4
<1>3. CASE UNCHANGED <<lazy, disk>>
  BY <1>1, <1>3
<1>4. QED
  BY <1>2, <1>3
     DEF IndexStep, StartWalk, WalkStep, PassBy, WalkMisses, SkipUnchanged, Enqueue,
         Visit, WorkerStep, TakeJob, ReadElf, AddElf, Mark, ListMembers, MembersDone, IndexMember, MemberFails,
         EndWalk, IndexLost, OnDisk

LEMMA ServeStarts == IndexAssumption /\ Init => ServeInv
<1> SUFFICES ASSUME IndexAssumption, Init PROVE ServeInv
  OBVIOUS
<1>1. IndexInv
  BY StartsRight DEF Init
<1>2. RowsSound
  BY DEF Init, IndexInit, RowsSound
<1>3. JobsSound
  BY DEF Init, IndexInit, JobsSound, LeftSound, Idle, NewJob
<1>4. RequestsSound
  BY NewRequestSound DEF Init, ServeInit, NoRequest, RequestsSound, Kinds
<1>5. QED
  BY <1>1, <1>2, <1>3, <1>4 DEF ServeInv

LEMMA ServeKeeps ==
  ASSUME IndexAssumption, NothingAssumption, PackageAssumption, ServeInv, [Next]_vars
  PROVE  ServeInv'
<1>1. IndexInv /\ IndexInv' /\ RowsSound /\ JobsSound /\ RequestsSound
  BY StepsKeep DEF ServeInv
<1>2. UNCHANGED lazy /\ \A p \in Paths : disk'[p].stamp >= disk[p].stamp
  BY <1>1, StepsOfTheIndex, StampsGrow
<1>3. /\ UNCHANGED rows => RowsSound'
      /\ \A w \in Workers : job'[w] = job[w]
           => LeftSound(job'[w], disk'[job'[w].path].stamp, Faithful')
      /\ \A q \in Requests : req'[q] = req[q]
           => RequestSound(req'[q], disk'[req'[q].row.path].stamp, Faithful', ~lazy')
  BY <1>1, <1>2, LeftAlone
<1>4. /\ UNCHANGED job => JobsSound'
      /\ UNCHANGED req => RequestsSound'
  BY <1>1, <1>3 DEF JobsSound, RequestsSound
<1>5. CASE Answering
  BY <1>1, <1>3, <1>4, <1>5, StepsOfRequests, RequestStepsSound DEF Answering, OnDisk, ServeInv
<1>6. CASE Asking
  <2>1. PICK q \in Requests, kind \in Kinds :
           \E key : req' = [req EXCEPT ![q] = NewRequest("row", kind, key)]
    BY <1>6 DEF Asking
  <2>2. /\ req' = [v \in Requests |-> req'[v]]
        /\ \A v \in Requests \ {q} : req'[v] = req[v]
        /\ \E key : req'[q] = NewRequest("row", kind, key)
    BY <1>1, <2>1 DEF RequestsSound
  <2>3. RequestSound(req'[q], disk'[req'[q].row.path].stamp, Faithful', ~lazy')
    BY <2>2, NewRequestSound
  <2>4. RequestsSound'
    BY <1>3, <2>2, <2>3 DEF RequestsSound
  <2>5. QED
    BY <1>1, <1>3, <1>4, <1>6, <2>4 DEF Asking, OnDisk, ServeInv
<1>7. CASE Elsewhere
  <2>1. RequestsSound'
    BY <1>4, <1>7 DEF Elsewhere
  <2>2. CASE \E w \in Workers : WorkerStep(w)
    BY <1>1, <2>1, <2>2, WorkersSound DEF ServeInv
  <2>3. CASE UNCHANGED <<rows, job>>
    BY <1>1, <1>3, <1>4, <2>1, <2>3 DEF ServeInv
  <2>4. QED
    BY <1>7, <2>2, <2>3
       DEF Elsewhere, StartWalk, WalkStep, PassBy, WalkMisses, SkipUnchanged, Enqueue,
           Visit, EndWalk, DeleteFile, WriteFile, Changed, OnDisk
<1>8. CASE Lost
  <2>1. UNCHANGED rows /\ \A w \in Workers : job'[w].step # "members"
    BY <1>8 DEF Lost, IndexLost, Idle, NewJob
  <2>2. JobsSound'
    BY <2>1 DEF JobsSound, LeftSound
  <2>3. RequestsSound'
    BY <1>8, NewRequestSound DEF Lost, RequestsLost, NoRequest, RequestsSound, Kinds
  <2>4. QED
    BY <1>1, <1>3, <2>1, <2>2, <2>3 DEF ServeInv
<1>9. QED
  BY <1>5, <1>6, <1>7, <1>8, StepsOfTheServer

(* The server keeps what its rows, workers and requests rely on.           *)
THEOREM ServeInductive == Spec => []ServeInv
<1>1. Init => ServeInv
  BY IndexAssumption, ServeStarts
<1>2. ServeInv /\ [Next]_vars => ServeInv'
  BY IndexAssumption, NothingAssumption, PackageAssumption, ServeKeeps
<1>3. QED
  BY <1>1, <1>2, PTL DEF Spec

(* A request for a debug file that is answered with a file gets the one    *)
(* with that build-id, unless the file was changed after it was indexed,   *)
(* although serveArtifact looks up the row before it opens what it names.  *)
THEOREM RightFileServed == Spec => []WrongOnlyIfChanged
<1>1. ServeInv => WrongOnlyIfChanged
  BY DEF ServeInv, RequestsSound, RequestSound, RightAnswer, WrongOnlyIfChanged, AtStep, Row,
         NoFile
<1>2. QED
  BY <1>1, ServeInductive, PTL

-----------------------------------------------------------------------------
(* Types and bounds.                                                       *)

BoundsInv ==
  /\ lazy \in BOOLEAN /\ toWalk \subseteq Paths /\ Len(queue) <= QueueSize
  /\ faults \in 0..MaxFaults /\ writes \in 0..MaxWrites
  /\ requested \in 0..MaxAsked /\ stops \in 0..MaxStops

LEMMA Counts ==
  [Next]_vars => /\ UNCHANGED faults \/ \E kind : Fault(kind)
                 /\ \/ UNCHANGED requested
                    \/ requested < MaxAsked /\ requested' = requested + 1
                 /\ \/ UNCHANGED stops
                    \/ stops < MaxStops /\ stops' = stops + 1
<1> DEFINE Fine == UNCHANGED faults \/ \E kind : Fault(kind)
<1>1. ASSUME NEW w \in Workers, WorkerStep(w) PROVE Fine
  <2>1. ASSUME NEW m \in job[w].left, IndexMember(w, m) PROVE Fine
    BY <2>1 DEF IndexMember, Extract
  <2>2. QED
    BY <1>1, <2>1 DEF WorkerStep, TakeJob, ReadElf, AddElf, Mark, MarkScanned, ListMembers,
                      MembersDone, MemberFails
<1>2. WalkStep => Fine
  BY DEF WalkStep, PassBy, WalkMisses, SkipUnchanged, Enqueue, Visit
<1>3. ASSUME NEW q \in Requests, RequestStep(q) PROVE Fine /\ UNCHANGED requested
  BY <1>3 DEF RequestStep, FindNoRow, FindRow, ServePath, Stream, Stat, Create, Fill, FillFails,
              OpenCopy, Cleanup, indexVars
<1>4. CASE LoopGoesOn \/ AskRescan \/ Signal \/ Start \/ UNCHANGED vars
  BY <1>4 DEF LoopGoesOn, AskRescan, Signal, Start, OnlyRunner, indexVars, serveVars, vars
<1>5. CASE CallScan \/ ReturnScan
  BY <1>5 DEF CallScan, ReturnScan, StartWalk, EndWalk, serveVars
<1>6. CASE ScanStep
  BY <1>1, <1>2, <1>6 DEF ScanStep, OnlyIndex, serveVars
<1>7. CASE FileChange
  BY <1>7 DEF FileChange, DeleteFile, WriteFile, Changed, OnlyIndex, serveVars
<1>8. CASE AskFile
  BY <1>8 DEF AskFile, Request, indexVars
<1>9. CASE ServeStep
  BY <1>3, <1>9 DEF ServeStep
<1>10. CASE Stop
  BY <1>10 DEF Stop, IndexLost, RequestsLost
<1>11. QED
  BY <1>4, <1>5, <1>6, <1>7, <1>8, <1>9, <1>10 DEF Next

(* The walk waits while the channel is full, so that it never holds more   *)
(* than its places.                                                        *)
LEMMA ChannelBounded ==
  ASSUME IndexAssumption, IndexInv, IndexStep, toWalk \subseteq Paths, Len(queue) <= QueueSize,
         writes \in 0..MaxWrites
  PROVE  /\ toWalk' \subseteq Paths /\ Len(queue') <= QueueSize
         /\ writes' \in 0..MaxWrites
<1>1. /\ Cardinality(Workers) \in Nat /\ QueueSize \in Nat /\ MaxWrites \in Nat
      /\ queue \in Seq(QueueJobs)
  BY FS_CardinalityType DEF IndexAssumption, QueueSize, IndexInv, QueueInv
<1>2. /\ Len(queue) \in Nat
      /\ Len(queue) < QueueSize => \A x : Len(Append(queue, x)) <= QueueSize
      /\ queue # <<>> => Len(Tail(queue)) <= QueueSize
      /\ Len(<<>>) <= QueueSize
  BY <1>1
<1>3. CASE WalkStep
  BY <1>2, <1>3 DEF WalkStep, PassBy, WalkMisses, SkipUnchanged, Enqueue, Visit
<1>4. CASE \E w \in Workers : WorkerStep(w)
  BY <1>2, <1>4
     DEF WorkerStep, TakeJob, ReadElf, AddElf, Mark, ListMembers, MembersDone, IndexMember,
         MemberFails
<1>5. CASE \E p \in Paths : DeleteFile(p) \/ \E s \in Stamps : WriteFile(p, s)
  BY <1>1, <1>5 DEF DeleteFile, WriteFile, Changed
<1>6. CASE StartWalk \/ EndWalk \/ IndexLost \/ UNCHANGED OnDisk
  BY <1>2, <1>6 DEF StartWalk, EndWalk, IndexLost, OnDisk
<1>7. QED
  BY <1>3, <1>4, <1>5, <1>6 DEF IndexStep

LEMMA BoundsKeep ==
  ASSUME IndexAssumption, ServeAssumption, DaemonAssumption, IndexInv, BoundsInv, [Next]_vars
  PROVE  BoundsInv'
<1>1. IndexStep /\ UNCHANGED lazy
  BY StepsOfTheIndex, StampsGrow
<1>2. toWalk' \subseteq Paths /\ Len(queue') <= QueueSize /\ writes' \in 0..MaxWrites
  BY <1>1, ChannelBounded DEF BoundsInv
<1>3. /\ faults' \in 0..MaxFaults /\ requested' \in 0..MaxAsked /\ stops' \in 0..MaxStops
  <2>1. MaxFaults \in Nat /\ MaxAsked \in Nat /\ MaxStops \in Nat
    BY DEF IndexAssumption, ServeAssumption, DaemonAssumption
  <2>2. \/ faults' = faults
        \/ faults < MaxFaults /\ faults' = faults + 1
    BY Counts DEF Fault
  <2>3. QED
    BY <2>1, <2>2, Counts DEF BoundsInv
<1>4. QED
  BY <1>1, <1>2, <1>3 DEF BoundsInv, QueueSize

LEMMA BoundsStart ==
  IndexAssumption /\ ServeAssumption /\ DaemonAssumption /\ Init => BoundsInv
<1> SUFFICES ASSUME IndexAssumption, ServeAssumption, DaemonAssumption, Init PROVE BoundsInv
  OBVIOUS
<1>1. Cardinality(Workers) \in Nat
  BY FS_CardinalityType DEF IndexAssumption
<1>2. QED
  BY <1>1 DEF Init, IndexInit, ServeInit, IndexAssumption, ServeAssumption, DaemonAssumption,
              BoundsInv, QueueSize

LEMMA BoundsHold == Spec => []BoundsInv
<1>1. Init => BoundsInv
  BY BoundsStart, IndexAssumption, ServeAssumption, DaemonAssumption
<1>2. IndexInv /\ BoundsInv /\ [Next]_vars => BoundsInv'
  BY BoundsKeep, IndexAssumption, ServeAssumption, DaemonAssumption
<1>3. QED
  BY <1>1, <1>2, IndexInductive, PTL DEF Spec

(* Every part of the server stays of its type, and the jobs channel within *)
(* its places.                                                             *)
THEOREM ServerTypeCorrect == Spec => []TypeOK
<1>1. IndexInv /\ BoundsInv => IndexTypeOK
  <2> SUFFICES ASSUME IndexInv, BoundsInv PROVE IndexTypeOK
    OBVIOUS
  <2>1. \A i \in DOMAIN queue : queue[i].path \in Paths /\ queue[i].stamp \in Stamps
    <3>1. \A i \in DOMAIN queue : queue[i] \in QueueJobs
      BY DEF IndexInv, QueueInv
    <3>2. QED
      BY <3>1 DEF QueueJobs
  <2>2. disk \in [Paths -> [stamp : Stamps \cup {0}, there : BOOLEAN]]
    BY DEF IndexInv, DiskInv, Times
  <2>3. scanned \in [Paths -> Stamps \cup {0}]
    BY DEF IndexInv, ScannedInv, Times
  <2>4. stable \subseteq Paths /\ covered \subseteq Paths
    BY DEF IndexInv, DiskInv
  <2>5. \A k \in DOMAIN rows : rows[k].path \in Paths /\ rows[k].mtime \in Stamps
    BY DEF IndexInv, RowsInv
  <2>6. ASSUME NEW w \in Workers
        PROVE  /\ job[w].step \in {"idle", "read", "add", "mark", "list", "members"}
               /\ ~At(w, "idle") => job[w].path \in Paths /\ job[w].stamp \in Stamps
    BY DEF IndexInv, JobsInv, JobInv
  <2>7. errors \in Nat
    BY DEF IndexInv, CoverInv
  <2>8. QED
    BY <2>1, <2>2, <2>3, <2>4, <2>5, <2>6, <2>7 DEF BoundsInv, IndexTypeOK
<1>2. ServeInv /\ BoundsInv => ServeTypeOK
  BY DEF ServeInv, RequestsSound, RequestSound, Sound, BoundsInv, ServeTypeOK, Row
<1>3. RunnerInv => RunnerTypeOK
  BY DEF RunnerInv
<1>4. ServeInv => IndexInv
  BY DEF ServeInv
<1>5. RunnerInv /\ ServeInv /\ BoundsInv => TypeOK
  BY <1>1, <1>2, <1>3, <1>4 DEF TypeOK, BoundsInv
<1>6. QED
  BY <1>5, BoundsHold, RunnerInductive, ServeInductive, PTL

-----------------------------------------------------------------------------
(* The copies that requests make.                                          *)

OneOfAName(files) ==
  \A i, j \in DOMAIN files :
     files[i].path = files[j].path /\ files[i].name = files[j].name => i = j

IsFile(f) == f = [path |-> f.path, name |-> f.name, body |-> f.body, by |-> f.by]

Directory(files) == /\ \E S : files \in Seq(S)
                    /\ \A i \in DOMAIN files : IsFile(files[i])
                    /\ OneOfAName(files)

(* Every file of the one directory is of the other.                        *)
From(new, old) == \A i \in DOMAIN new : \E j \in DOMAIN old : new[i] = old[j]

LEMMA Joined ==
  ASSUME NEW S, NEW front \in Seq(S), NEW back \in Seq(S)
  PROVE  /\ front \o back \in Seq(S) /\ Len(front \o back) = Len(front) + Len(back)
         /\ \A j \in 1..(Len(front) + Len(back)) :
              (front \o back)[j] = IF j <= Len(front) THEN front[j] ELSE back[j - Len(front)]
OBVIOUS

LEMMA OthersFacts ==
  ASSUME Directory(cache), NEW p, NEW name
  PROVE  LET new == Others(p, name)
         IN /\ Directory(new) /\ From(new, cache)
            /\ \A i \in DOMAIN new : new[i].path # p \/ new[i].name # name
<1> DEFINE new == Others(p, name)
<1>1. PICK S : cache \in Seq(S)
  BY DEF Directory
<1>2. CASE InCache(p, name) = {}
  BY <1>2 DEF Others, Directory, From, InCache
<1>3. CASE InCache(p, name) # {}
  <2> DEFINE i == CHOOSE i \in InCache(p, name) : TRUE
  <2>1. i \in InCache(p, name)
    BY <1>3
  <2>2. new = SubSeq(cache, 1, i - 1) \o SubSeq(cache, i + 1, Len(cache))
    BY <1>3 DEF Others
  <2> HIDE DEF i, new
  <2>3. i \in 1..Len(cache) /\ cache[i].path = p /\ cache[i].name = name
    BY <1>1, <2>1 DEF InCache
  <2> DEFINE front == SubSeq(cache, 1, i - 1)
             back == SubSeq(cache, i + 1, Len(cache))
  <2>4. /\ front \in Seq(S) /\ Len(front) = i - 1
        /\ \A j \in 1..(i - 1) : front[j] = cache[j]
    BY <1>1, <2>3
  <2>5. /\ back \in Seq(S) /\ Len(back) = Len(cache) - i
        /\ \A j \in 1..(Len(cache) - i) : back[j] = cache[i + j]
    BY <1>1, <2>3
  <2>11. new = front \o back
    BY <2>2
  <2> HIDE DEF front, back
  <2>6. /\ new \in Seq(S) /\ Len(new) = Len(cache) - 1
        /\ \A j \in 1..(Len(cache) - 1) : new[j] = IF j < i THEN front[j] ELSE back[j - i + 1]
    <3>1. /\ new \in Seq(S) /\ Len(new) = Len(front) + Len(back)
          /\ \A j \in 1..(Len(front) + Len(back)) :
               new[j] = IF j <= Len(front) THEN front[j] ELSE back[j - Len(front)]
      BY <2>4, <2>5, <2>11, Joined
    <3>2. Len(cache) \in Nat /\ Len(front) + Len(back) = Len(cache) - 1
      BY <1>1, <2>3, <2>4, <2>5
    <3>3. ASSUME NEW j \in 1..(Len(cache) - 1)
          PROVE  new[j] = IF j < i THEN front[j] ELSE back[j - i + 1]
      <4>1. Len(front) = i - 1 /\ i \in Int /\ j \in Int
        BY <1>1, <2>3, <2>4
      <4>2. j - (i - 1) = j - i + 1 /\ (j <= i - 1 <=> j < i)
        BY <4>1
      <4>3. j \in 1..(Len(front) + Len(back))
        BY <3>2
      <4>4. QED
        BY <3>1, <4>1, <4>2, <4>3
    <3>4. QED
      BY <3>1, <3>2, <3>3
  <2> DEFINE at(j) == IF j < i THEN j ELSE j + 1
  <2>7. ASSUME NEW j \in DOMAIN new
        PROVE  at(j) \in DOMAIN cache /\ at(j) # i /\ new[j] = cache[at(j)]
    <3>1. j \in 1..(Len(cache) - 1)
      BY <1>1, <2>6
    <3>2. CASE j < i
      BY <1>1, <2>3, <2>4, <2>6, <3>1, <3>2
    <3>3. CASE ~(j < i)
      <4>1. j - i + 1 \in 1..(Len(cache) - i) /\ i + (j - i + 1) = j + 1
        BY <1>1, <2>3, <3>1, <3>3
      <4>2. new[j] = cache[j + 1]
        BY <2>5, <2>6, <3>1, <3>3, <4>1
      <4>3. j + 1 \in DOMAIN cache /\ j + 1 # i
        BY <1>1, <2>3, <3>1, <3>3
      <4>4. QED
        BY <3>3, <4>2, <4>3
    <3>4. QED
      BY <3>2, <3>3
  <2>8. \A j, k \in DOMAIN new : at(j) = at(k) => j = k
    BY <2>3, <2>6
  <2> HIDE DEF at
  <2>9. i \in DOMAIN cache
    BY <1>1, <2>3
  <2>10. OneOfAName(new)
    BY <2>7, <2>8 DEF Directory, OneOfAName
  <2>12. \A j \in DOMAIN new : new[j].path # p \/ new[j].name # name
    BY <2>3, <2>7, <2>9 DEF Directory, OneOfAName
  <2>13. Directory(new) /\ From(new, cache)
    BY <2>6, <2>7, <2>10 DEF Directory, From
  <2>14. QED
    BY <2>12, <2>13 DEF new
<1>4. QED
  BY <1>2, <1>3

LEMMA CacheWithFacts ==
  ASSUME Directory(cache), NEW p, NEW name, NEW body, NEW by
  PROVE  LET new == CacheWith(p, name, body, by)
         IN /\ Directory(new)
            /\ \A i \in DOMAIN new : \/ new[i].path = p /\ new[i].name = name
                                     \/ \E j \in DOMAIN cache : new[i] = cache[j]
<1> DEFINE others == Others(p, name)
           file == [path |-> p, name |-> name, body |-> body, by |-> by]
           new == CacheWith(p, name, body, by)
<1>1. /\ Directory(others) /\ From(others, cache)
      /\ \A i \in DOMAIN others : others[i].path # p \/ others[i].name # name
  BY OthersFacts
<1>2. new = Append(others, file) /\ file.path = p /\ file.name = name /\ IsFile(file)
  BY DEF CacheWith, IsFile
<1> HIDE DEF others, new, file
<1>3. PICK S : others \in Seq(S)
  BY <1>1 DEF Directory
<1>4. new \in Seq(S \cup {file})
  BY <1>2, <1>3
<1>5. \A i \in DOMAIN new : \/ i \in DOMAIN others /\ new[i] = others[i]
                            \/ i = Len(others) + 1 /\ new[i] = file
  <2>1. /\ Len(new) = Len(others) + 1 /\ new[Len(others) + 1] = file
        /\ \A i \in 1..Len(others) : new[i] = others[i]
    BY <1>2, <1>3
  <2>2. DOMAIN new = 1..(Len(others) + 1) /\ DOMAIN others = 1..Len(others)
    BY <1>3, <1>4, <2>1
  <2>3. Len(others) \in Nat
    BY <1>3
  <2>4. \A i \in 1..(Len(others) + 1) : i \in 1..Len(others) \/ i = Len(others) + 1
    BY <2>3
  <2>5. ASSUME NEW i \in DOMAIN new
        PROVE  \/ i \in DOMAIN others /\ new[i] = others[i]
               \/ i = Len(others) + 1 /\ new[i] = file
    <3>1. CASE i \in 1..Len(others)
      BY <2>1, <2>2, <3>1
    <3>2. CASE i = Len(others) + 1
      BY <2>1, <3>2
    <3>3. QED
      BY <2>2, <2>4, <2>5, <3>1, <3>2
  <2>6. QED
    BY <2>5
<1>6. OneOfAName(new)
  BY <1>1, <1>2, <1>5 DEF Directory, OneOfAName
<1>7. Directory(new)
  BY <1>1, <1>2, <1>4, <1>5, <1>6 DEF Directory
<1>8. \A i \in DOMAIN new : \/ new[i].path = p /\ new[i].name = name
                            \/ \E j \in DOMAIN cache : new[i] = cache[j]
  BY <1>1, <1>2, <1>5 DEF From
<1>9. QED
  BY <1>7, <1>8 DEF new

LEMMA PruneFacts ==
  ASSUME IndexAssumption, Directory(cache)
  PROVE  Directory(Prune(cache)) /\ From(Prune(cache), cache)
<1>1. PICK S : cache \in Seq(S)
  BY DEF Directory
<1>2. CASE CacheMax = 0 \/ Len(cache) <= CacheMax
  BY <1>2 DEF Prune, Directory, From
<1>3. CASE ~(CacheMax = 0 \/ Len(cache) <= CacheMax)
  <2> DEFINE n == Len(cache) - CacheMax
             new == SubSeq(cache, n + 1, Len(cache))
  <2>1. CacheMax \in Nat /\ Len(cache) \in Nat /\ Prune(cache) = new
    BY <1>1, <1>3 DEF IndexAssumption, Prune
  <2>2. n \in Nat /\ n + CacheMax = Len(cache)
    BY <1>3, <2>1
  <2> HIDE DEF n
  <2>3. /\ new \in Seq(S) /\ Len(new) = CacheMax
        /\ \A j \in 1..CacheMax : new[j] = cache[n + j]
    BY <1>1, <2>1, <2>2
  <2> HIDE DEF new
  <2>4. \A j \in DOMAIN new : j \in Nat /\ n + j \in DOMAIN cache /\ new[j] = cache[n + j]
    BY <1>1, <2>1, <2>2, <2>3
  <2>5. OneOfAName(new)
    BY <2>2, <2>4 DEF Directory, OneOfAName
  <2>6. Directory(new) /\ From(new, cache)
    BY <2>3, <2>4, <2>5 DEF Directory, From
  <2>7. QED
    BY <2>1, <2>6
<1>4. QED
  BY <1>2, <1>3

(* Only the members of a source package are found under a name.            *)
Named(k, p) == k \in Ids \/ p \in SourcePackages

JobNames(j) ==
  /\ j.step = "add" => j.id \in Ids
  /\ j.step = "members" /\ j.path \in Packages =>
       \A m \in j.left : m.body.type = "elf" /\ m.body.id \in Ids \cup {NoId}

RequestNames(r) == r.step \in Away => r.kind = "section" \/ r.row.path \in SourcePackages

NamesInv ==
  /\ \A k \in DOMAIN rows : Named(k, rows[k].path)
  /\ \A w \in Workers : JobNames(job[w])
  /\ \A q \in Requests : RequestNames(req[q])

(* A copy that the request it was made for still has to remove.            *)
Fetching == {"fill", "open", "cleanup"}

Awaited(f) ==
  \E q \in Requests :
     /\ req[q].step \in Fetching /\ req[q].kind = "section"
     /\ req[q].row.path = f.path /\ req[q].row.name = f.name

Accounted(f) == f.path \in SourcePackages \/ Awaited(f)

CopiesInv == Directory(cache) /\ \A i \in DOMAIN cache : Accounted(cache[i])

LeaveInv == lazy => NamesInv /\ (faults = 0 /\ stops = 0 => CopiesInv)

-----------------------------------------------------------------------------
LEMMA RowNames ==
  ASSUME NEW key, NEW row, Named(key, row.path), \A k \in DOMAIN rows : Named(k, rows[k].path),
         rows' = Upsert(rows, key, row)
  PROVE  \A k \in DOMAIN rows' : Named(k, rows'[k].path)
<1>1. CASE rows' = rows
  BY <1>1
<1>2. CASE rows' = [k \in DOMAIN rows \cup {key} |-> IF k = key THEN row ELSE rows[k]]
  BY <1>2
<1>3. QED
  BY <1>1, <1>2 DEF Upsert

LEMMA ReadNames ==
  ASSUME IndexAssumption, IndexInv, NEW w \in Workers, JobNames(job[w]), ReadElf(w)
  PROVE  JobNames(job'[w])
<1> DEFINE p == job[w].path
<1>1. JobRecords /\ At(w, "read") /\ p \in Plain /\ p \in Paths
  BY DEF ReadElf, IndexInv, JobsInv, JobInv, At
<1>2. CASE job' = [job EXCEPT ![w] = Idle]
  BY <1>1, <1>2, IdleRecord DEF JobNames, At
<1>3. CASE /\ Readable(p)
           /\ Continue(w, IF Body(p).id = NoId THEN "mark" ELSE "add", Body(p).id, {})
  <2>1. Body(p) # Missing /\ Body(p).type = "elf"
    BY <1>1, <1>3 DEF Readable
  <2>2. disk[p].stamp \in Stamps /\ Body(p) = Holds[p][disk[p].stamp]
    BY <1>1, <2>1 DEF Body, IndexInv, DiskInv
  <2>3. Body(p).id \in Ids \cup {NoId}
    BY <1>1, <2>1, <2>2 DEF IndexAssumption
  <2>4. /\ job'[w].step = IF Body(p).id = NoId THEN "mark" ELSE "add"
        /\ job'[w].id = Body(p).id
    BY <1>1, <1>3, GoesOn
  <2>5. QED
    BY <2>3, <2>4 DEF JobNames
<1>4. QED
  BY <1>2, <1>3 DEF ReadElf, Fails

LEMMA ListedIsElf ==
  ASSUME NEW kind, NEW entries, NEW m \in ElfMembers(kind, entries)
  PROVE  m.body.type = "elf"
<1>1. PICK i \in Regular(entries, {"elf"}) : m.body = entries[i].body
  BY DEF ElfMembers, Listed
<1>2. QED
  BY <1>1 DEF Regular

LEMMA ListNames ==
  ASSUME IndexAssumption, PackageAssumption, IndexInv, NEW w \in Workers, ListMembers(w)
  PROVE  JobNames(job'[w])
<1> DEFINE p == job[w].path
<1>1. JobRecords /\ At(w, "list") /\ p \notin Plain /\ p \in Paths
  BY DEF ListMembers, IndexInv, JobsInv, JobInv, At
<1>2. CASE job' = [job EXCEPT ![w] = Idle]
  BY <1>1, <1>2, IdleRecord DEF JobNames, At
<1>3. CASE Readable(p) /\ Continue(w, "members", None, Members(p))
  <2>1. job'[w].step = "members" /\ job'[w].path = p /\ job'[w].left = Members(p)
    BY <1>1, <1>3, GoesOn
  <2>2. ASSUME p \in Packages, NEW m \in Members(p)
        PROVE  m.body.type = "elf" /\ m.body.id \in Ids \cup {NoId}
    <3>1. Kind[p] # "dsc"
      BY <2>2 DEF Packages
    <3>2. Body(p) # Missing /\ Body(p).type # "broken"
      BY <1>1, <1>3 DEF Readable
    <3>3. disk[p].stamp \in Stamps /\ Body(p) = Holds[p][disk[p].stamp]
      BY <1>1, <3>2 DEF Body, IndexInv, DiskInv
    <3>4. m \in ElfMembers(Kind[p], Holds[p][disk[p].stamp].entries)
      BY <2>2, <3>1, <3>3 DEF Members, MembersOf, Entries
    <3>5. m.body.type = "elf"
      BY <3>4, ListedIsElf
    <3>6. m.body.id \in Ids \cup {NoId}
      BY <2>2, <3>1, <3>2, <3>3, <3>4 DEF PackageAssumption
    <3>7. QED
      BY <3>5, <3>6
  <2> HIDE DEF p
  <2>3. QED
    BY <2>1, <2>2 DEF JobNames
<1>4. QED
  BY <1>2, <1>3 DEF ListMembers, Fails

LEMMA MemberNames ==
  ASSUME IndexAssumption, IndexInv, lazy, \A k \in DOMAIN rows : Named(k, rows[k].path),
         NEW w \in Workers, JobNames(job[w]), NEW m \in job[w].left, IndexMember(w, m)
  PROVE  UNCHANGED cache /\ \A k \in DOMAIN rows' : Named(k, rows'[k].path)
<1> DEFINE p == job[w].path
           row == [path |-> p, name |-> m.name, mtime |-> job[w].stamp, cached |-> ~lazy]
<1>1. At(w, "members") /\ p \notin Plain /\ p \in Paths
  BY DEF IndexMember, IndexInv, JobsInv, JobInv, At
<1>2. PICK got : /\ Extract(p, m, got)
                 /\ LET key == IF got = Missing THEN NoId ELSE MemberKey(p, m.name, got)
                    IN rows' = IF key = NoId THEN rows ELSE Upsert(rows, key, row)
  BY DEF IndexMember
<1>3. got = m.body /\ UNCHANGED cache
  BY <1>2 DEF Extract
<1> DEFINE key == IF got = Missing THEN NoId ELSE MemberKey(p, m.name, got)
<1>4. key = NoId \/ Named(key, p)
  <2>1. CASE p \in SourcePackages
    BY <2>1 DEF Named
  <2>2. CASE p \in Packages /\ p \notin SourcePackages
    BY <1>1, <1>3, <2>2 DEF MemberKey, Named, JobNames, At
  <2>3. QED
    BY <1>1, <2>1, <2>2 DEF Plain
<1>5. row.path = p
  OBVIOUS
<1>6. rows' = IF key = NoId THEN rows ELSE Upsert(rows, key, row)
  BY <1>2
<1> HIDE DEF key, row, p
<1>7. QED
  BY <1>3, <1>4, <1>5, <1>6, RowNames

LEMMA WorkerNames ==
  ASSUME IndexAssumption, PackageAssumption, IndexInv, lazy,
         \A k \in DOMAIN rows : Named(k, rows[k].path), \A v \in Workers : JobNames(job[v]),
         NEW w \in Workers, WorkerStep(w)
  PROVE  /\ UNCHANGED cache /\ \A k \in DOMAIN rows' : Named(k, rows'[k].path)
         /\ \A v \in Workers : JobNames(job'[v])
<1> DEFINE Fine == /\ UNCHANGED cache /\ \A k \in DOMAIN rows' : Named(k, rows'[k].path)
                   /\ JobNames(job'[w]) /\ \A v \in Workers \ {w} : job'[v] = job[v]
<1>1. JobRecords /\ JobNames(job[w])
  BY DEF IndexInv, JobsInv
<1>2. TakeJob(w) => Fine
  <2> SUFFICES ASSUME TakeJob(w) PROVE Fine
    OBVIOUS
  <2>1. \A first : JobNames(Taken(first))
    BY DEF Taken, NewJob, JobNames
  <2>2. JobNames(job'[w]) /\ \A v \in Workers \ {w} : job'[v] = job[v]
    BY <1>1, <2>1, TakenJob
  <2>3. QED
    BY <2>2 DEF TakeJob
<1>3. ReadElf(w) => Fine
  <2> SUFFICES ASSUME ReadElf(w) PROVE Fine
    OBVIOUS
  <2>1. \/ job' = [job EXCEPT ![w] = Idle]
        \/ \E step, id : Continue(w, step, id, {})
    BY DEF ReadElf, Fails
  <2>2. \A v \in Workers \ {w} : job'[v] = job[v]
    BY <1>1, <2>1, GoesOn, IdleRecord
  <2>3. QED
    BY <1>1, <2>2, ReadNames DEF ReadElf
<1>4. AddElf(w) => Fine
  <2> SUFFICES ASSUME AddElf(w) PROVE Fine
    OBVIOUS
  <2>1. \/ job' = [job EXCEPT ![w] = Idle]
        \/ Continue(w, "mark", job[w].id, {})
    BY DEF AddElf, Fails
  <2>2. JobNames(job'[w]) /\ \A v \in Workers \ {w} : job'[v] = job[v]
    BY <1>1, <2>1, GoesOn, IdleRecord DEF JobNames, At
  <2>3. rows' = rows \/ \E row : rows' = Upsert(rows, job[w].id, row)
    BY DEF AddElf
  <2>4. \A row : Named(job[w].id, row.path)
    BY <1>1 DEF AddElf, At, JobNames, Named
  <2>5. \A k \in DOMAIN rows' : Named(k, rows'[k].path)
    BY <2>3, <2>4, RowNames
  <2>6. QED
    BY <2>2, <2>5 DEF AddElf
<1>5. Mark(w) => Fine
  BY <1>1, IdleRecord DEF Mark, JobNames, At
<1>6. ListMembers(w) => Fine
  <2> SUFFICES ASSUME ListMembers(w) PROVE Fine
    OBVIOUS
  <2>1. \/ job' = [job EXCEPT ![w] = Idle]
        \/ \E left : Continue(w, "members", None, left)
    BY DEF ListMembers, Fails
  <2>2. \A v \in Workers \ {w} : job'[v] = job[v]
    BY <1>1, <2>1, GoesOn, IdleRecord
  <2>3. QED
    BY <2>2, ListNames DEF ListMembers
<1>7. MembersDone(w) => Fine
  BY <1>1, GoesOn DEF MembersDone, JobNames
<1>8. ASSUME NEW m \in job[w].left, IndexMember(w, m) \/ MemberFails(w, m)
      PROVE  Fine
  <2>1. At(w, "members") /\ Continue(w, "members", None, job[w].left \ {m})
    BY <1>8 DEF IndexMember, MemberFails
  <2>2. JobNames(job'[w]) /\ \A v \in Workers \ {w} : job'[v] = job[v]
    BY <1>1, <2>1, GoesOn DEF JobNames, At
  <2>3. UNCHANGED cache /\ \A k \in DOMAIN rows' : Named(k, rows'[k].path)
    BY <1>1, <1>8, MemberNames DEF MemberFails
  <2>4. QED
    BY <2>2, <2>3
<1>9. Fine
  BY <1>2, <1>3, <1>4, <1>5, <1>6, <1>7, <1>8 DEF WorkerStep
<1>10. QED
  BY <1>9

(* A request that goes on leaves what the others wait for, and what it     *)
(* waits for itself if it goes on waiting.                                 *)
LEMMA AwaitedStays ==
  ASSUME NEW q \in Requests, \A v \in Requests \ {q} : req'[v] = req[v],
         NEW f, Awaited(f),
         \/ ~(req[q].step \in Fetching /\ req[q].kind = "section")
         \/ req[q].row.path # f.path \/ req[q].row.name # f.name
         \/ /\ req'[q].step \in Fetching /\ req'[q].kind = req[q].kind
            /\ req'[q].row = req[q].row
  PROVE  Awaited(f)'
BY DEF Awaited, Fetching

LEMMA CopiesStay ==
  ASSUME CopiesInv, UNCHANGED cache, \A f : Awaited(f) => Awaited(f)'
  PROVE  CopiesInv'
BY DEF CopiesInv, Accounted, Awaited

LEMMA CreateLeaves ==
  ASSUME CopiesInv, RequestsSound,
         NEW q \in Requests, RequestNames(req[q]), Create(q)
  PROVE  CopiesInv'
<1> DEFINE p == Row(q).path
           name == Row(q).name
<1>1. /\ req[q].step = "create" /\ cache' = CacheWith(p, name, Partial, q)
      /\ req[q].kind = "section" \/ p \in SourcePackages
  BY DEF Create, AtStep, RequestNames, Away, Row
<1>2. /\ req'[q].step = "fill" /\ req'[q].kind = req[q].kind /\ req'[q].row = req[q].row
      /\ \A v \in Requests \ {q} : req'[v] = req[v]
  BY Turn DEF Create, GoOn, RequestsSound
<1>3. /\ Directory(cache')
      /\ \A i \in DOMAIN cache' : \/ cache'[i].path = p /\ cache'[i].name = name
                                  \/ \E j \in DOMAIN cache : cache'[i] = cache[j]
  BY <1>1, CacheWithFacts DEF CopiesInv
<1>4. ASSUME NEW f, Accounted(f) PROVE Accounted(f)'
  BY <1>1, <1>2, <1>4, AwaitedStays DEF Accounted, Fetching
<1>5. ASSUME NEW f, f.path = p, f.name = name PROVE Accounted(f)'
  BY <1>1, <1>2, <1>5 DEF Accounted, Awaited, Fetching, Row
<1>6. QED
  BY <1>3, <1>4, <1>5 DEF CopiesInv, Accounted, Awaited

LEMMA FillLeaves ==
  ASSUME CopiesInv, RequestsSound,
         NEW q \in Requests, Fill(q)
  PROVE  CopiesInv'
<1>1. /\ req'[q].step = "open" /\ req'[q].kind = req[q].kind /\ req'[q].row = req[q].row
      /\ \A v \in Requests \ {q} : req'[v] = req[v]
  BY Turn DEF Fill, GoOn, RequestsSound
<1>2. ASSUME NEW f, Accounted(f) PROVE Accounted(f)'
  BY <1>1, <1>2, AwaitedStays DEF Accounted, Fetching
<1>3. DOMAIN cache' = DOMAIN cache
  BY DEF Fill
<1>4. ASSUME NEW i \in DOMAIN cache
      PROVE  /\ IsFile(cache'[i]) /\ cache'[i].path = cache[i].path
             /\ cache'[i].name = cache[i].name
  <2>1. IsFile(cache[i])
    BY DEF CopiesInv, Directory
  <2>2. \/ cache'[i] = cache[i]
        \/ cache'[i] = [cache[i] EXCEPT !.body = req[q].held]
    BY DEF Fill
  <2>3. QED
    BY <2>1, <2>2 DEF IsFile
<1>5. OneOfAName(cache')
  BY <1>3, <1>4 DEF CopiesInv, Directory, OneOfAName
<1>6. \E S : cache' \in Seq(S)
  <2>1. PICK S : cache \in Seq(S)
    BY DEF CopiesInv, Directory
  <2> DEFINE T == {cache'[i] : i \in DOMAIN cache'}
  <2>2. DOMAIN cache' = 1..Len(cache) /\ Len(cache) \in Nat
    BY <1>3, <2>1
  <2>3. cache' = [i \in 1..Len(cache) |-> cache'[i]]
    BY <2>1 DEF Fill
  <2>4. cache' \in Seq(T)
    BY <2>2, <2>3
  <2>5. QED
    BY <2>4
<1>7. Directory(cache')
  BY <1>3, <1>4, <1>5, <1>6 DEF Directory
<1>8. QED
  BY <1>2, <1>3, <1>4, <1>7 DEF CopiesInv, Accounted, Awaited

LEMMA CleanupLeaves ==
  ASSUME CopiesInv, RequestsSound,
         NEW q \in Requests, Cleanup(q)
  PROVE  CopiesInv'
<1>1. \A v \in Requests \ {q} : req'[v] = req[v]
  BY Turn DEF Cleanup, GoOn, RequestsSound
<1>2. /\ Directory(cache') /\ From(cache', cache)
      /\ \A i \in DOMAIN cache' : cache'[i].path # Row(q).path \/ cache'[i].name # Row(q).name
  BY OthersFacts DEF Cleanup, CopiesInv
<1>3. ASSUME NEW f, Accounted(f), f.path # Row(q).path \/ f.name # Row(q).name PROVE Accounted(f)'
  BY <1>1, <1>3, AwaitedStays DEF Accounted, Row
<1>4. \A i \in DOMAIN cache' : Accounted(cache'[i])
  BY <1>2 DEF CopiesInv, From
<1>5. QED
  BY <1>2, <1>3, <1>4 DEF CopiesInv, Accounted, Awaited

LEMMA RequestLeaves ==
  ASSUME IndexAssumption, lazy, \A k \in DOMAIN rows : Named(k, rows[k].path), RequestsSound,
         NEW q \in Requests, RequestNames(req[q]), RequestStep(q)
  PROVE  /\ RequestNames(req'[q]) /\ \A v \in Requests \ {q} : req'[v] = req[v]
         /\ faults \in Nat /\ faults' = 0 /\ CopiesInv => CopiesInv'
<1>1. req = [v \in Requests |-> req[v]]
  BY DEF RequestsSound
<1>2. \E step, row, held, answer : Becomes(q, step, row, held, answer)
  BY DEF RequestStep, FindNoRow, FindRow, ServePath, Stream, Stat, Create, Fill, FillFails,
         OpenCopy, Cleanup, Answer, GoOn
<1>3. \A v \in Requests \ {q} : req'[v] = req[v]
  BY <1>1, <1>2, Turn
<1>4. RequestNames(req'[q])
  <2>1. ASSUME FindRow(q) PROVE RequestNames(req'[q])
    <3>1. CASE \E type : Answer(q, Reply(type))
      BY <1>1, <3>1, Turn DEF Answer, RequestNames, Away
    <3> DEFINE row == rows[req[q].key]
    <3>2. CASE \E step \in {"path", "stat", "stream"} :
                 /\ Becomes(q, step, row, None, None)
                 /\ step = "stat" => req[q].kind = "section" \/ req[q].key \notin Ids
      <4>1. PICK step \in {"path", "stat", "stream"} :
               /\ Becomes(q, step, row, None, None)
               /\ step = "stat" => req[q].kind = "section" \/ req[q].key \notin Ids
        BY <3>2
      <4>2. req'[q].step = step /\ req'[q].kind = req[q].kind /\ req'[q].row = row
        BY <1>1, <4>1, Turn
      <4>3. Named(req[q].key, row.path)
        BY <2>1 DEF FindRow
      <4>4. QED
        BY <4>1, <4>2, <4>3 DEF RequestNames, Named, Away
    <3>3. QED
      BY <2>1, <3>1, <3>2 DEF FindRow, IsSource
  <2>2. ASSUME FindNoRow(q) \/ ServePath(q) \/ Stream(q) PROVE RequestNames(req'[q])
    <3>1. \E row, held, answer : Becomes(q, "answered", row, held, answer)
      BY <2>2 DEF FindNoRow, ServePath, Stream, Answer
    <3>2. QED
      BY <1>1, <3>1, Turn DEF RequestNames, Away
  <2>3. ASSUME Stat(q) \/ Create(q) \/ Fill(q) \/ FillFails(q) \/ OpenCopy(q) \/ Cleanup(q)
        PROVE  RequestNames(req'[q])
    <3>1. /\ req[q].step \in Away
          /\ \E step, held, answer : Becomes(q, step, req[q].row, held, answer)
      BY <2>3 DEF Stat, Create, Fill, FillFails, OpenCopy, Cleanup, AtStep, Away, Answer,
                  GoOn, Row
    <3>2. req'[q].kind = req[q].kind /\ req'[q].row = req[q].row
      BY <1>1, <3>1, Turn
    <3>3. QED
      BY <3>1, <3>2 DEF RequestNames
  <2>4. QED
    BY <2>1, <2>2, <2>3 DEF RequestStep
<1>5. ASSUME faults \in Nat, faults' = 0, CopiesInv PROVE CopiesInv'
  <2>1. ~FillFails(q)
    BY <1>5 DEF FillFails, Fault
  <2>2. CASE Create(q) \/ Fill(q) \/ Cleanup(q)
    BY <1>5, <2>2, CreateLeaves, FillLeaves, CleanupLeaves
  <2>3. CASE OpenCopy(q)
    <3>1. req[q].kind = "section" => req'[q].step = "cleanup"
      BY <1>1, <2>3, Turn DEF OpenCopy
    <3>2. req'[q].kind = req[q].kind /\ req'[q].row = req[q].row
      BY <1>1, <2>3, Turn DEF OpenCopy, Row
    <3>3. \A f : Awaited(f) => Awaited(f)'
      BY <1>3, <3>1, <3>2, AwaitedStays DEF Fetching
    <3>4. QED
      BY <1>5, <2>3, <3>3, CopiesStay DEF OpenCopy, indexVars
  <2>4. CASE FindNoRow(q) \/ FindRow(q) \/ ServePath(q) \/ Stream(q) \/ Stat(q)
    <3>1. req[q].step \notin Fetching /\ UNCHANGED cache
      BY <2>4 DEF FindNoRow, FindRow, ServePath, Stream, Stat, AtStep, Fetching, indexVars
    <3>2. \A f : Awaited(f) => Awaited(f)'
      BY <1>3, <3>1, AwaitedStays
    <3>3. QED
      BY <1>5, <3>1, <3>2, CopiesStay
  <2>5. QED
    BY <2>1, <2>2, <2>3, <2>4 DEF RequestStep
<1>6. QED
  BY <1>3, <1>4, <1>5

(* The steps of the server as the copies see them.                         *)
Answered == UNCHANGED stops /\ \E q \in Requests : RequestStep(q)
AskedFor == /\ UNCHANGED <<rows, job, cache, faults, stops>>
            /\ \E q \in Requests : \E kind, key : Request(q, kind, key)
ScanOrRest == /\ UNCHANGED <<req, stops>>
              /\ (\E w \in Workers : WorkerStep(w)) \/ EndWalk \/ UNCHANGED <<rows, job, cache>>
Stopped == stops' = stops + 1 /\ IndexLost /\ RequestsLost

LEMMA StepsOfCopies == [Next]_vars => Answered \/ AskedFor \/ ScanOrRest \/ Stopped
<1>1. CASE LoopGoesOn \/ AskRescan \/ Signal \/ Start \/ UNCHANGED vars
  BY <1>1 DEF LoopGoesOn, AskRescan, Signal, Start, OnlyRunner, ScanOrRest, indexVars,
              serveVars, vars
<1>2. CASE CallScan \/ ReturnScan
  BY <1>2 DEF CallScan, ReturnScan, StartWalk, ScanOrRest, serveVars
<1>3. CASE ScanStep \/ FileChange
  BY <1>3 DEF ScanStep, WalkStep, PassBy, WalkMisses, SkipUnchanged, Enqueue, Visit, FileChange,
              DeleteFile, WriteFile, Changed, OnlyIndex, ScanOrRest, serveVars
<1>4. CASE AskFile
  <2>1. PICK q \in Requests, kind \in Kinds :
           \E key \in Ids \cup UNION {Keys(p, s) : p \in SourcePackages, s \in Stamps} :
              Request(q, kind, key)
    BY <1>4 DEF AskFile
  <2>2. PICK key : Request(q, kind, key)
    BY <2>1
  <2>3. QED
    <3>1. UNCHANGED <<rows, job, cache, faults>>
      BY <2>2 DEF Request, indexVars
    <3>2. UNCHANGED stops
      BY <1>4 DEF AskFile
    <3>3. QED
      BY <2>1, <2>2, <3>1, <3>2 DEF AskedFor
<1>5. CASE ServeStep
  BY <1>5 DEF ServeStep, Answered
<1>6. CASE Stop
  BY <1>6 DEF Stop, Stopped
<1>7. QED
  BY <1>1, <1>2, <1>3, <1>4, <1>5, <1>6 DEF Next

LEMMA LeaveKeeps ==
  ASSUME IndexAssumption, ServeAssumption, DaemonAssumption, PackageAssumption, ServeInv,
         BoundsInv, LeaveInv, [Next]_vars
  PROVE  LeaveInv'
<1>1. /\ IndexInv /\ RequestsSound /\ UNCHANGED lazy
      /\ faults \in Nat /\ faults' \in Nat /\ stops \in Nat
      /\ faults' = 0 => faults = 0
      /\ stops' = 0 => stops = 0
  <2>1. IndexInv /\ RequestsSound
    BY DEF ServeInv
  <2>2. UNCHANGED lazy
    BY <2>1, StepsOfTheIndex, StampsGrow
  <2>3. faults \in Nat /\ stops \in Nat
    BY DEF BoundsInv, IndexAssumption, DaemonAssumption
  <2>4. /\ faults' = faults \/ faults' = faults + 1
        /\ stops' = stops \/ stops' = stops + 1
    BY Counts DEF Fault
  <2>5. QED
    BY <2>1, <2>2, <2>3, <2>4
<1> SUFFICES ASSUME lazy, NamesInv, faults = 0 /\ stops = 0 => CopiesInv
             PROVE  NamesInv' /\ (faults' = 0 /\ stops' = 0 => CopiesInv')
  BY <1>1 DEF LeaveInv
<1>2. CASE Answered
  <2>1. PICK q \in Requests : RequestStep(q)
    BY <1>2 DEF Answered
  <2>2. /\ RequestNames(req'[q]) /\ \A v \in Requests \ {q} : req'[v] = req[v]
        /\ faults' = 0 /\ CopiesInv => CopiesInv'
    BY <1>1, <2>1, RequestLeaves DEF NamesInv
  <2>3. UNCHANGED <<rows, job>>
    BY <2>1, StepsOfRequests DEF OnDisk
  <2>4. NamesInv'
    BY <2>2, <2>3 DEF NamesInv
  <2>5. QED
    BY <1>1, <2>2, <2>4
<1>3. CASE AskedFor
  <2>1. UNCHANGED <<rows, job, cache>> /\ \E q \in Requests : \E kind, key : Request(q, kind, key)
    BY <1>3 DEF AskedFor
  <2>2. PICK q \in Requests : \E kind, key : Request(q, kind, key)
    BY <2>1
  <2>3. /\ req[q].step \notin Fetching /\ req'[q].step = "row"
        /\ \A v \in Requests \ {q} : req'[v] = req[v]
    BY <1>1, <2>2 DEF Request, NewRequest, RequestsSound, Fetching
  <2>4. NamesInv'
    BY <2>1, <2>3 DEF NamesInv, RequestNames, Away
  <2>5. \A f : Awaited(f) => Awaited(f)'
    BY <2>3, AwaitedStays
  <2>6. QED
    BY <1>1, <2>1, <2>4, <2>5, CopiesStay
<1>4. CASE ScanOrRest
  <2>1. UNCHANGED req
    BY <1>4 DEF ScanOrRest
  <2>2. \A f : Awaited(f) => Awaited(f)'
    BY <2>1 DEF Awaited
  <2>3. CASE \E w \in Workers : WorkerStep(w)
    <3>1. UNCHANGED cache /\ NamesInv'
      BY <1>1, <2>1, <2>3, WorkerNames DEF NamesInv
    <3>2. QED
      BY <1>1, <2>2, <3>1, CopiesStay
  <2>4. CASE UNCHANGED <<rows, job, cache>>
    BY <1>1, <2>1, <2>2, <2>4, CopiesStay DEF NamesInv
  <2>5. CASE EndWalk
    <3>1. UNCHANGED <<rows, job>> /\ cache' = Prune(cache)
      BY <2>5 DEF EndWalk
    <3>2. NamesInv'
      BY <2>1, <3>1 DEF NamesInv
    <3>3. CopiesInv => CopiesInv'
      <4>1. CopiesInv => Directory(cache') /\ From(cache', cache)
        BY <3>1, PruneFacts DEF CopiesInv
      <4>2. QED
        BY <2>1, <4>1 DEF CopiesInv, From, Accounted, Awaited
    <3>4. QED
      BY <1>1, <3>2, <3>3
  <2>6. QED
    BY <1>4, <2>3, <2>4, <2>5 DEF ScanOrRest
<1>5. CASE Stopped
  <2>1. stops' # 0
    BY <1>1, <1>5 DEF Stopped
  <2>2. UNCHANGED rows
    BY <1>5 DEF Stopped, IndexLost
  <2>3. \A w \in Workers : JobNames(job'[w])
    BY <1>5 DEF Stopped, IndexLost, Idle, NewJob, JobNames
  <2>4. \A q \in Requests : RequestNames(req'[q])
    BY <1>5 DEF Stopped, RequestsLost, NoRequest, NewRequest, RequestNames, Away
  <2>5. QED
    BY <2>1, <2>2, <2>3, <2>4 DEF NamesInv
<1>6. QED
  BY <1>2, <1>3, <1>4, <1>5, StepsOfCopies

LEMMA LeaveStarts == Init => LeaveInv
<1> SUFFICES ASSUME Init PROVE LeaveInv
  OBVIOUS
<1>1. NamesInv
  BY DEF Init, IndexInit, ServeInit, NamesInv, Idle, NewJob, JobNames, NoRequest, NewRequest,
         RequestNames, Away
<1>2. cache = <<>>
  BY DEF Init, IndexInit
<1>3. \E S : cache \in Seq(S)
  BY <1>2
<1>4. DOMAIN cache = {}
  BY <1>2
<1>5. CopiesInv
  BY <1>3, <1>4 DEF CopiesInv, Directory, OneOfAName
<1>6. QED
  BY <1>1, <1>5 DEF LeaveInv

(* With lazy extraction and no copy that broke off, a cache in which no    *)
(* request is under way holds members of source packages only: each copy   *)
(* that openArtifact makes for a section is removed, however the requests  *)
(* overlap, unless the process ended in between.                           *)
THEOREM SectionsRemoveCopies == Spec => [](stops = 0 => SectionsLeaveNothing)
<1>1. LeaveInv => (stops = 0 => SectionsLeaveNothing)
  BY DEF LeaveInv, CopiesInv, Accounted, Awaited, Fetching, SectionsLeaveNothing, Open
<1>2. ServeInv /\ BoundsInv /\ LeaveInv /\ [Next]_vars => LeaveInv'
  BY LeaveKeeps, IndexAssumption, ServeAssumption, DaemonAssumption, PackageAssumption
<1>3. Spec => []BoundsInv
  BY BoundsHold
<1>4. QED
  BY <1>1, <1>2, <1>3, LeaveStarts, ServeInductive, PTL DEF Spec
================================================================================
