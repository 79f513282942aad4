-------------------------------- MODULE Indexer --------------------------------
(***************************************************************************)
(* internal/indexer with the tables of internal/storage it fills and the   *)
(* cache directory of internal/archive and internal/cache.  A scan walks   *)
(* the roots and hands every file that changed since it was last scanned   *)
(* to a pool of workers; these read the files, which may change under      *)
(* them, and write the index row by row.  The tables and the cache outlive *)
(* the process.                                                            *)
(***************************************************************************)
EXTENDS PackageMembers, FiniteSets

CONSTANTS
  Paths,      \* files that are under the scan roots at some time
  Kind,       \* what the name of a file says it is
  Holds,      \* what each file holds, by the stamp that stat shows for it
  AtFirst,    \* the files that are there when the server first starts
  Tarball,    \* the tarball that each .dsc names, a file in its directory
  Ids,        \* build-ids
  NoId,       \* an ELF file without a build-id
  None,       \* no row, no member
  Stamps,     \* modification times
  Workers,    \* the workers of a scan
  CacheMax,   \* limit of the cache directory, in files
  LazyModes,  \* the values of lazyExtract that are considered
  FaultKinds, \* the calls that may fail
  MaxFaults,  \* bound on the failures of a behaviour
  MaxWrites   \* bound on the changes of the files

Packages == {p \in Paths : Kind[p] \in {"deb", "rpm", "tar"}}
SourcePackages == {p \in Paths : Kind[p] \in {"srpm", "dsc"}}
Plain == Paths \ (Packages \cup SourcePackages)

(* The members a package or source package has, given its entries.         *)
MembersOf(p, entries) == IF p \in Packages THEN ElfMembers(Kind[p], entries)
                                           ELSE SourceMembers(Kind[p], entries)

ASSUME IndexAssumption ==
  /\ Stamps \subseteq Nat \ {0} /\ 1 \in Stamps
  /\ AtFirst \subseteq Paths
  /\ Kind \in [Paths -> {"file", "deb", "rpm", "tar", "srpm", "dsc"}]
  /\ \A p \in Plain : \A s \in Stamps :
        \/ Holds[p][s].type = "text"
        \/ Holds[p][s].type = "elf" /\ Holds[p][s].id \in Ids \cup {NoId}
  /\ NoId \notin Ids
  /\ LazyModes \subseteq BOOLEAN
  /\ CacheMax \in Nat /\ MaxFaults \in Nat /\ MaxWrites \in Nat
  /\ IsFiniteSet(Workers)

(* What stands for nothing is neither held by a file nor a member.         *)
ASSUME NothingAssumption ==
  \A p \in Paths : \A s \in Stamps :
    /\ Holds[p][s] # Missing
    /\ p \notin Plain /\ Kind[p] # "dsc" /\ Holds[p][s].type # "broken" =>
         \A m \in MembersOf(p, Holds[p][s].entries) :
            m.body # Missing /\ m.name \notin {NoId, None}

VARIABLES
  lazy,       \* configuration: members of packages are not extracted
  disk,       \* each path: the stamp of its last file and whether it is there
  writes,     \* changes of the files so far
  rows,       \* artifacts, by build-id, and sources, by name
  scanned,    \* scanned_files: the stamp each path was last marked with, or 0
  cache,      \* the files of the cache directory, the oldest first
  toWalk,     \* paths the walk has not come to
  queue,      \* the jobs channel
  job,        \* what each worker does
  errors,     \* errorsCount
  faults,     \* failures so far
  stable,     \* the files that have not changed since the scan began, and that
              \* its walk has not missed
  covered     \* the files that have not changed since a scan that found no
              \* error began, whose walk did not miss them

indexVars == <<lazy, disk, writes, rows, scanned, cache, toWalk, queue, job,
               errors, faults, stable, covered>>

QueueSize == 2 * Cardinality(Workers)

NewJob(step, p, s) ==
  [step |-> step, path |-> p, stamp |-> s, id |-> None, left |-> {}]

Idle == NewJob("idle", None, 0)

Continue(w, step, id, left) ==
  job' = [job EXCEPT ![w] = [step |-> step, path |-> job[w].path,
                             stamp |-> job[w].stamp, id |-> id, left |-> left]]

IndexInit ==
  /\ lazy \in LazyModes
  /\ disk = [p \in Paths |-> [stamp |-> IF p \in AtFirst THEN 1 ELSE 0,
                               there |-> p \in AtFirst]]
  /\ writes = 0
  /\ rows = [k \in {} |-> None]
  /\ scanned = [p \in Paths |-> 0]
  /\ cache = <<>>
  /\ toWalk = {} /\ queue = <<>> /\ job = [w \in Workers |-> Idle]
  /\ errors = 0 /\ faults = 0
  /\ stable = {} /\ covered = {}

Fault(kind) == /\ kind \in FaultKinds
               /\ faults < MaxFaults
               /\ faults' = faults + 1

-----------------------------------------------------------------------------
(* The files: a path is written with a later stamp than it had, or loses   *)
(* its file.                                                               *)
Changed(p) == /\ writes < MaxWrites
              /\ writes' = writes + 1
              /\ stable' = stable \ {p}
              /\ covered' = covered \ {p}
              /\ UNCHANGED <<lazy, rows, scanned, cache, toWalk, queue, job,
                             errors, faults>>

WriteFile(p, s) == /\ s > disk[p].stamp
                   /\ disk' = [disk EXCEPT ![p] = [stamp |-> s, there |-> TRUE]]
                   /\ Changed(p)

DeleteFile(p) == /\ disk[p].there
                 /\ disk' = [disk EXCEPT ![p].there = FALSE]
                 /\ Changed(p)

Body(p) == IF disk[p].there THEN Holds[p][disk[p].stamp] ELSE Missing

(* The entries of a package; those of a .dsc are the tarballs it names     *)
(* that have arrived.                                                      *)
Entries(p) ==
  IF Kind[p] # "dsc" THEN Body(p).entries
  ELSE LET t == Body(Tarball[p])
       IN IF t = Missing \/ t.type # "tar" THEN <<>>
          ELSE <<[name |-> [form |-> "plain", path |-> Tarball[p]],
                  link |-> FALSE, body |-> t]>>

Readable(p) == IF p \in Plain THEN Body(p) # Missing /\ Body(p).type = "elf"
                              ELSE Body(p) # Missing /\ Body(p).type # "broken"

Members(p) == MembersOf(p, Entries(p))

-----------------------------------------------------------------------------
(* Mutant: the last write wins, whatever its time.                         *)
UpsertAlways(table, key, row) ==
  [k \in DOMAIN table \cup {key} |-> IF k = key THEN row ELSE table[k]]

(* The upsert of AddArtifact and AddSourceLocation: a row gives way to one *)
(* that is not older.                                                      *)
Upsert(table, key, row) ==
  IF key \in DOMAIN table /\ table[key].mtime > row.mtime THEN table
  ELSE [k \in DOMAIN table \cup {key} |-> IF k = key THEN row ELSE table[k]]

(* Mutant: a file that was scanned once is never scanned again.            *)
NeedsScanOnce(p) == scanned[p] = 0

NeedsScan(p) == scanned[p] # disk[p].stamp

(* MarkScanned, whose error is ignored.                                    *)
MarkScanned(p, s) ==
  \/ scanned' = [scanned EXCEPT ![p] = s] /\ UNCHANGED faults
  \/ Fault("mark") /\ UNCHANGED scanned

-----------------------------------------------------------------------------
(* Scan up to the walk.                                                    *)
StartWalk ==
  /\ toWalk' = Paths
  /\ stable' = {p \in Paths : disk[p].there}
  /\ errors' = 0
  /\ UNCHANGED <<lazy, disk, writes, rows, scanned, cache, queue, job, faults,
                 covered>>

Visit(p) == /\ p \in toWalk
            /\ toWalk' = toWalk \ {p}
            /\ UNCHANGED <<lazy, disk, writes, rows, scanned, cache, job, errors,
                           stable, covered>>

(* WalkDir passes a path: it has no file, it has one that came after the   *)
(* directory was listed, or the file is neither a package nor an ELF file. *)
PassBy(p) == /\ Visit(p)
             /\ \/ p \notin stable
                \/ p \in Plain /\ ~Readable(p)
             /\ UNCHANGED <<queue, faults>>

(* A directory cannot be listed, which loses what is below it, or a file   *)
(* cannot be looked at by Info or opened and read by IsELF.  The walk goes *)
(* on without these files, and counts no error.                            *)
WalkMisses(lost) == /\ lost # {} /\ Fault("walk")
                    /\ toWalk' = toWalk \ lost
                    /\ stable' = stable \ lost
                    /\ UNCHANGED <<lazy, disk, writes, rows, scanned, cache,
                                   queue, job, errors, covered>>

SkipUnchanged(p) == /\ Visit(p)
                    /\ disk[p].there /\ (p \in Plain => Readable(p))
                    /\ ~NeedsScan(p)
                    /\ UNCHANGED <<queue, faults>>

(* Mutant: a channel without a limit.                                      *)
EnqueueUnbounded(p) == /\ Visit(p)
                       /\ disk[p].there /\ NeedsScan(p) /\ UNCHANGED faults
                       /\ queue' = Append(queue, [path |-> p, stamp |-> disk[p].stamp])

(* A file that NeedsScan fails for is scanned.  The channel blocks when it *)
(* is full.                                                                *)
Enqueue(p) == /\ Visit(p)
              /\ disk[p].there /\ (p \in Plain => Readable(p))
              /\ \/ NeedsScan(p) /\ UNCHANGED faults
                 \/ ~NeedsScan(p) /\ Fault("needs")
              /\ Len(queue) < QueueSize
              /\ queue' = Append(queue, [path |-> p, stamp |-> disk[p].stamp])

WalkStep == \/ \E p \in Paths : PassBy(p) \/ SkipUnchanged(p) \/ Enqueue(p)
            \/ \E lost \in SUBSET toWalk : WalkMisses(lost)

-----------------------------------------------------------------------------
(* The workers.                                                            *)
At(w, step) == job[w].step = step

TakeJob(w) ==
  /\ At(w, "idle") /\ queue # <<>>
  /\ job' = [job EXCEPT ![w] =
                NewJob(IF Head(queue).path \in Plain THEN "read" ELSE "list",
                       Head(queue).path, Head(queue).stamp)]
  /\ queue' = Tail(queue)
  /\ UNCHANGED <<lazy, disk, writes, rows, scanned, cache, toWalk, errors,
                 faults, stable, covered>>

(* Mutant: an error that is logged but not counted.                        *)
FailsQuietly(w) == job' = [job EXCEPT ![w] = Idle] /\ UNCHANGED errors

Fails(w) == /\ job' = [job EXCEPT ![w] = Idle]
            /\ errors' = errors + 1

(* indexELF reads the file as it is now, which may not be the one the walk *)
(* saw; one without a build-id is marked so that it is not read again.     *)
ReadElf(w) ==
  LET p == job[w].path IN
  /\ At(w, "read")
  /\ \/ ~Readable(p) /\ Fails(w)
     \/ /\ Readable(p)
        /\ Continue(w, IF Body(p).id = NoId THEN "mark" ELSE "add", Body(p).id, {})
        /\ UNCHANGED errors
  /\ UNCHANGED <<lazy, disk, writes, rows, scanned, cache, toWalk, queue,
                 faults, stable, covered>>

(* Mutant: a row that could not be stored is passed over like a member.    *)
AddElfIgnored(w) ==
  LET row == [path |-> job[w].path, name |-> None, mtime |-> job[w].stamp,
              cached |-> FALSE]
  IN
  /\ At(w, "add")
  /\ \/ rows' = Upsert(rows, job[w].id, row) /\ UNCHANGED faults
     \/ Fault("add") /\ UNCHANGED rows
  /\ Continue(w, "mark", job[w].id, {})
  /\ UNCHANGED <<lazy, disk, writes, scanned, cache, toWalk, queue, errors,
                 stable, covered>>

(* Mutant: the modification time is asked for again when the row is        *)
(* written.                                                                *)
AddElfRestat(w) ==
  /\ At(w, "add")
  /\ rows' = Upsert(rows, job[w].id,
        [path |-> job[w].path, name |-> None, cached |-> FALSE,
         mtime |-> disk[job[w].path].stamp])
  /\ Continue(w, "mark", job[w].id, {})
  /\ UNCHANGED <<lazy, disk, writes, scanned, cache, toWalk, queue, errors,
                 faults, stable, covered>>

(* The row is written before its sources are looked up in the DWARF data,  *)
(* where indexELF may fail once more.                                      *)
AddElf(w) ==
  LET p == job[w].path
      row == [path |-> p, name |-> None, mtime |-> job[w].stamp, cached |-> FALSE]
  IN
  /\ At(w, "add")
  /\ \/ /\ rows' = Upsert(rows, job[w].id, row)
        /\ Continue(w, "mark", job[w].id, {})
        /\ UNCHANGED <<errors, faults>>
     \/ Fault("dwarf") /\ rows' = Upsert(rows, job[w].id, row) /\ Fails(w)
     \/ Fault("add") /\ UNCHANGED rows /\ Fails(w)
  /\ UNCHANGED <<lazy, disk, writes, scanned, cache, toWalk, queue, stable,
                 covered>>

Mark(w) ==
  /\ At(w, "mark")
  /\ MarkScanned(job[w].path, job[w].stamp)
  /\ job' = [job EXCEPT ![w] = Idle]
  /\ UNCHANGED <<lazy, disk, writes, rows, cache, toWalk, queue, errors, stable,
                 covered>>

(* indexArchive and indexSourcePackage hold the members in memory.         *)
ListMembers(w) ==
  LET p == job[w].path IN
  /\ At(w, "list")
  /\ \/ ~Readable(p) /\ Fails(w)
     \/ /\ Readable(p)
        /\ Continue(w, "members", None, Members(p))
        /\ UNCHANGED errors
  /\ UNCHANGED <<lazy, disk, writes, rows, scanned, cache, toWalk, queue,
                 faults, stable, covered>>

-----------------------------------------------------------------------------
(* The cache directory.  A file is named by the package and the member; a  *)
(* new one is the youngest.                                                *)
InCache(p, name) == {i \in DOMAIN cache : cache[i].path = p /\ cache[i].name = name}

(* The directory without the one file of that name, if it is there.        *)
Others(p, name) ==
  IF InCache(p, name) = {} THEN cache
  ELSE LET i == CHOOSE i \in InCache(p, name) : TRUE
       IN SubSeq(cache, 1, i - 1) \o SubSeq(cache, i + 1, Len(cache))

Partial == [type |-> "partial"]

CacheWith(p, name, body, by) ==
  Append(Others(p, name),
         [path |-> p, name |-> name, body |-> body, by |-> by])

(* ExtractToCache returns any file of that name, whatever it holds and     *)
(* however old the package was that it came from; a copy that breaks off   *)
(* stays.  With lazyExtract the index reads the member from memory.        *)
Extract(p, m, got) ==
  \/ lazy /\ got = m.body /\ UNCHANGED <<cache, faults>>
  \/ /\ ~lazy /\ ~SafeName(m.name)
     /\ got = Missing /\ UNCHANGED <<cache, faults>>
  \/ /\ ~lazy /\ SafeName(m.name)
     /\ \/ \E i \in InCache(p, m.name) :
             got = cache[i].body /\ UNCHANGED <<cache, faults>>
        \/ /\ InCache(p, m.name) = {}
           /\ \/ /\ got = m.body
                 /\ cache' = CacheWith(p, m.name, m.body, None)
                 /\ UNCHANGED faults
              \/ /\ got = Missing /\ Fault("extract")
                 /\ cache' = CacheWith(p, m.name, Partial, None)

MemberKey(p, name, body) ==
  IF p \in SourcePackages THEN name
  ELSE IF body.type = "elf" THEN body.id ELSE NoId

(* Mutant: the time of the package is the one it has when the member is    *)
(* stored.                                                                 *)
IndexMemberRestat(w, m) ==
  LET p == job[w].path
      key == MemberKey(p, m.name, m.body)
  IN
  /\ At(w, "members") /\ m \in job[w].left /\ lazy
  /\ Continue(w, "members", None, job[w].left \ {m})
  /\ rows' = IF key = NoId THEN rows
             ELSE Upsert(rows, key, [path |-> p, name |-> m.name, cached |-> FALSE,
                                     mtime |-> disk[p].stamp])
  /\ UNCHANGED <<lazy, disk, writes, scanned, cache, toWalk, queue, errors,
                 faults, stable, covered>>

(* A member that cannot be extracted, read or stored is passed over: the   *)
(* package is marked as scanned without it, and no error is counted.       *)
IndexMember(w, m) ==
  LET p == job[w].path
      row == [path |-> p, name |-> m.name, mtime |-> job[w].stamp,
              cached |-> ~lazy]
  IN
  /\ At(w, "members") /\ m \in job[w].left
  /\ Continue(w, "members", None, job[w].left \ {m})
  /\ \E got \in {m.body, Missing} \cup {cache[i].body : i \in DOMAIN cache} :
        /\ Extract(p, m, got)
        /\ LET key == IF got = Missing THEN NoId ELSE MemberKey(p, m.name, got)
           IN rows' = IF key = NoId THEN rows ELSE Upsert(rows, key, row)
  /\ UNCHANGED <<lazy, disk, writes, scanned, toWalk, queue, errors, stable,
                 covered>>

MemberFails(w, m) ==
  /\ At(w, "members") /\ m \in job[w].left
  /\ Continue(w, "members", None, job[w].left \ {m})
  /\ Fault("member")
  /\ UNCHANGED <<lazy, disk, writes, rows, scanned, cache, toWalk, queue, errors,
                 stable, covered>>

MembersDone(w) ==
  /\ At(w, "members") /\ job[w].left = {}
  /\ Continue(w, "mark", job[w].id, {})
  /\ UNCHANGED <<lazy, disk, writes, rows, scanned, cache, toWalk, queue, errors,
                 faults, stable, covered>>

WorkerStep(w) ==
  \/ TakeJob(w) \/ ReadElf(w) \/ AddElf(w) \/ Mark(w)
  \/ ListMembers(w) \/ MembersDone(w)
  \/ \E m \in job[w].left : IndexMember(w, m) \/ MemberFails(w, m)

-----------------------------------------------------------------------------
(* Prune removes the oldest files until the directory is small enough; no  *)
(* limit is written as 0.                                                  *)
Prune(files) == IF CacheMax = 0 \/ Len(files) <= CacheMax THEN files
                ELSE SubSeq(files, Len(files) - CacheMax + 1, Len(files))

(* Scan after the walk: the workers have emptied the channel.              *)
EndWalk ==
  /\ toWalk = {} /\ queue = <<>> /\ \A w \in Workers : At(w, "idle")
  /\ cache' = Prune(cache)
  /\ covered' = IF errors = 0 THEN covered \cup stable ELSE covered
  /\ UNCHANGED <<lazy, disk, writes, rows, scanned, toWalk, queue, job, errors,
                 faults, stable>>

(* The process ends: what the scan had in memory is gone.                  *)
IndexLost ==
  /\ toWalk' = {} /\ queue' = <<>> /\ job' = [w \in Workers |-> Idle]
  /\ errors' = 0 /\ stable' = {}
  /\ UNCHANGED <<lazy, disk, writes, rows, scanned, cache, faults, covered>>

-----------------------------------------------------------------------------
(* The keys a file offers: under these it should be found in the index.    *)
Keys(p, s) ==
  LET body == Holds[p][s] IN
  IF p \in Plain THEN IF body.type = "elf" THEN {body.id} \ {NoId} ELSE {}
  ELSE IF body.type = "broken" THEN {}
  ELSE IF p \in Packages
    THEN {m.body.id : m \in ElfMembers(Kind[p], body.entries)} \ {NoId}
    ELSE {m.name : m \in SourceMembers(Kind[p], body.entries)}

Indexed(p, s) == \A k \in Keys(p, s) : k \in DOMAIN rows /\ rows[k].mtime >= s

(* Files whose rows can be relied on: what was extracted may be left over  *)
(* from an older package, and a .dsc may be read before its tarball is     *)
(* there.  A member that fails is passed over, so that packages can be     *)
(* relied on to be complete only while no member fails.                    *)
Faithful == Plain \cup {p \in Packages \cup SourcePackages : lazy /\ Kind[p] # "dsc"}

Complete == IF "member" \in FaultKinds THEN Plain ELSE Faithful

IndexTypeOK ==
  /\ lazy \in BOOLEAN
  /\ disk \in [Paths -> [stamp : Stamps \cup {0}, there : BOOLEAN]]
  /\ scanned \in [Paths -> Stamps \cup {0}]
  /\ \A k \in DOMAIN rows : rows[k].path \in Paths /\ rows[k].mtime \in Stamps
  /\ toWalk \subseteq Paths /\ stable \subseteq Paths /\ covered \subseteq Paths
  /\ \A i \in DOMAIN queue : queue[i].path \in Paths /\ queue[i].stamp \in Stamps
  /\ Len(queue) <= QueueSize
  /\ \A w \in Workers :
       /\ job[w].step \in {"idle", "read", "add", "mark", "list", "members"}
       /\ ~At(w, "idle") => job[w].path \in Paths /\ job[w].stamp \in Stamps
  /\ errors \in Nat /\ faults \in 0..MaxFaults /\ writes \in 0..MaxWrites

(* A file that stat shows as it was when it was marked is in the index:    *)
(* otherwise no later scan would look at it again.                         *)
ScannedIsIndexed ==
  \A p \in Complete :
     scanned[p] # 0 /\ scanned[p] = disk[p].stamp => Indexed(p, scanned[p])

(* A scan that reports no error has left every file that did not change    *)
(* meanwhile in the index, but for those that its walk could not list or   *)
(* open, of which the report says nothing.                                 *)
CleanScanCovers == \A p \in covered \cap Complete : Indexed(p, disk[p].stamp)

(* A row whose file has not changed since names what it should.            *)
RowsTrue ==
  \A k \in DOMAIN rows :
     LET p == rows[k].path IN
     /\ rows[k].mtime <= disk[p].stamp
     /\ p \in Faithful /\ rows[k].mtime = disk[p].stamp => k \in Keys(p, rows[k].mtime)
===============================================================================
