-------------------------------- MODULE Serving --------------------------------
(***************************************************************************)
(* internal/webapi: requests for a debug file, a source or a section,      *)
(* answered from the index, the files and the cache while a scan changes   *)
(* them, or passed to the upstream servers of internal/federation.  Every  *)
(* request looks up a row first and uses the file that the row names       *)
(* later.  Deduplication is not part of this model.                        *)
(***************************************************************************)
EXTENDS Indexer

CONSTANTS
  Requests,   \* requests served at the same time
  MaxAsked,   \* bound on the requests of a behaviour
  Upstream    \* the keys that some upstream server has

ASSUME ServeAssumption == MaxAsked \in Nat

(* No two entries of a package have one path, a debug file in it has a     *)
(* build-id or none, and the name of a source is no build-id.              *)
ASSUME PackageAssumption ==
  \A p \in Packages \cup SourcePackages : \A s \in Stamps :
    Kind[p] # "dsc" /\ Holds[p][s].type # "broken" =>
      LET entries == Holds[p][s].entries IN
      /\ p \in Packages =>
           /\ DOMAIN entries \subseteq Nat /\ DistinctPaths(entries)
           /\ \A m \in ElfMembers(Kind[p], entries) : m.body.id \in Ids \cup {NoId}
      /\ p \in SourcePackages =>
           \A m \in SourceMembers(Kind[p], entries) : m.name \notin Ids

VARIABLES
  req,        \* each request: its progress, what it asks for, the row it
              \* found, the member it holds in memory and its answer
  requested   \* requests so far

serveVars == <<req, requested>>

Kinds == {"file", "section"}
NewRequest(step, kind, key) ==
  [step |-> step, kind |-> kind, key |-> key, row |-> None, held |-> None,
   answer |-> None]

NoRequest == NewRequest("free", "file", None)
Open == {q \in Requests : req[q].step \notin {"free", "answered"}}

ServeInit == req = [q \in Requests |-> NoRequest] /\ requested = 0

OnDisk == <<lazy, disk, writes, rows, scanned, toWalk, queue, job, errors, stable,
            covered>>

AtStep(q, step) == req[q].step = step

Becomes(q, step, row, held, answer) ==
  req' = [req EXCEPT ![q] = [step |-> step, kind |-> req[q].kind, key |-> req[q].key,
                             row |-> row, held |-> held, answer |-> answer]]

GoOn(q, step) == Becomes(q, step, req[q].row, req[q].held, req[q].answer)

(* An answer without a file.                                               *)
Reply(type) == [type |-> type]

Answer(q, body) == Becomes(q, "answered", req[q].row, req[q].held, body)

IsSource(key) == key \notin Ids

-----------------------------------------------------------------------------
(* ServeHTTP.  There are no sections of a source.                          *)
Request(q, kind, key) ==
  /\ req[q].step \in {"free", "answered"}
  /\ requested < MaxAsked
  /\ requested' = requested + 1
  /\ IsSource(key) => kind = "file"
  /\ req' = [req EXCEPT ![q] = NewRequest("row", kind, key)]
  /\ UNCHANGED indexVars

(* GetArtifactLocation, GetArtifactPaths, GetSource: without a row the     *)
(* upstream servers are asked in their order.                              *)
FindNoRow(q) ==
  /\ AtStep(q, "row")
  /\ req[q].key \notin DOMAIN rows
  /\ Answer(q, Reply(IF req[q].key \in Upstream THEN "upstream" ELSE "not found"))
  /\ UNCHANGED <<indexVars, requested>>

(* A row names a file, a file in the cache, or the member of a package. A  *)
(* member that is asked for as a whole is streamed, one that is needed as  *)
(* a file is extracted; its path is checked before.                        *)
FindRow(q) ==
  /\ AtStep(q, "row")
  /\ req[q].key \in DOMAIN rows
  /\ LET row == rows[req[q].key]
     IN IF row.name # None /\ ~row.cached /\ ~SafeName(row.name)
        THEN Answer(q, Reply(IF IsSource(req[q].key) THEN "error" ELSE "forbidden"))
        ELSE Becomes(q, IF row.name = None \/ row.cached THEN "path"
                        ELSE IF req[q].kind = "section" \/ IsSource(req[q].key) THEN "stat"
                        ELSE "stream",
                     row, None, None)
  /\ UNCHANGED <<indexVars, requested>>

Row(q) == req[q].row
CacheOf(q) == InCache(Row(q).path, Row(q).name)

(* The member as it is in the package now.                                 *)
MemberNow(q) ==
  LET p == Row(q).path
  IN IF ~Readable(p) THEN Missing
     ELSE OpenMember(Kind[p], Entries(p), Row(q).name)

Copy(q) == IF CacheOf(q) = {} THEN Missing
           ELSE cache[CHOOSE i \in CacheOf(q) : TRUE].body

(* serveResolvedFile, or elfsection.Extract for a section, finds at the    *)
(* path what is there now.                                                 *)
Served(q, body) ==
  IF req[q].kind = "section"
  THEN IF body = Missing \/ body.type # "elf" THEN Reply("error") ELSE body
  ELSE IF body = Missing THEN Reply("not found") ELSE body

ServePath(q) ==
  /\ AtStep(q, "path")
  /\ Answer(q, Served(q, IF Row(q).name = None THEN Body(Row(q).path)
                                               ELSE Copy(q)))
  /\ UNCHANGED <<indexVars, requested>>

(* streamMember                                                            *)
Stream(q) ==
  /\ AtStep(q, "stream")
  /\ Answer(q, IF MemberNow(q) = Missing THEN Reply("error") ELSE MemberNow(q))
  /\ UNCHANGED <<indexVars, requested>>

-----------------------------------------------------------------------------
(* ExtractMember for a request, in the steps another request may come      *)
(* between: the test for the file and the reading of the member, the       *)
(* creation of the file, the copying.                                      *)
Stat(q) ==
  /\ AtStep(q, "stat")
  /\ IF CacheOf(q) # {} THEN GoOn(q, "open")
     ELSE IF MemberNow(q) = Missing THEN Answer(q, Reply("error"))
     ELSE Becomes(q, "create", Row(q), MemberNow(q), None)
  /\ UNCHANGED <<indexVars, requested>>

(* Opened with O_TRUNC, so that a file another request has created is      *)
(* emptied.                                                                *)
Create(q) ==
  /\ AtStep(q, "create")
  /\ cache' = CacheWith(Row(q).path, Row(q).name, Partial, q)
  /\ GoOn(q, "fill")
  /\ UNCHANGED <<OnDisk, faults, requested>>

(* The copy is complete, in the file that has this name unless that was    *)
(* removed or emptied since.                                               *)
Fill(q) ==
  /\ AtStep(q, "fill")
  /\ cache' = [i \in DOMAIN cache |->
                 IF i \in CacheOf(q) /\ cache[i].by = q
                 THEN [cache[i] EXCEPT !.body = req[q].held] ELSE cache[i]]
  /\ GoOn(q, "open")
  /\ UNCHANGED <<OnDisk, faults, requested>>

(* A copy that breaks off stays, and the request fails.                    *)
FillFails(q) ==
  /\ AtStep(q, "fill")
  /\ Fault("copy")
  /\ Answer(q, Reply("error"))
  /\ UNCHANGED <<OnDisk, cache, requested>>

(* Mutant: nothing removes the copy made for a section.                    *)
OpenCopyKept(q) ==
  /\ AtStep(q, "open")
  /\ Answer(q, Served(q, Copy(q)))
  /\ UNCHANGED <<indexVars, requested>>

(* The file is opened by its name once more.  A section request removes it *)
(* when it is done, a source stays in the cache.                           *)
OpenCopy(q) ==
  /\ AtStep(q, "open")
  /\ Becomes(q, IF req[q].kind = "section" THEN "cleanup" ELSE "answered",
             Row(q), req[q].held, Served(q, Copy(q)))
  /\ UNCHANGED <<indexVars, requested>>

Cleanup(q) ==
  /\ AtStep(q, "cleanup")
  /\ cache' = Others(Row(q).path, Row(q).name)
  /\ GoOn(q, "answered")
  /\ UNCHANGED <<OnDisk, faults, requested>>

RequestStep(q) ==
  \/ FindNoRow(q) \/ FindRow(q) \/ ServePath(q) \/ Stream(q)
  \/ Stat(q) \/ Create(q) \/ Fill(q) \/ FillFails(q) \/ OpenCopy(q) \/ Cleanup(q)

(* The process ends: its requests are gone.                                *)
RequestsLost == req' = [q \in Requests |-> NoRequest] /\ UNCHANGED requested

-----------------------------------------------------------------------------
ServeTypeOK ==
  /\ \A q \in Requests :
       /\ req[q].step \in {"free", "row", "path", "stream", "stat", "create",
                           "fill", "open", "cleanup", "answered"}
       /\ req[q].kind \in Kinds
       /\ req[q].step \notin {"free", "row", "answered"} =>
            Row(q).path \in Paths
  /\ requested \in 0..MaxAsked

(* The debug file a request was answered with is the one it asked for,     *)
(* unless that was changed after it was indexed: the row is out of date    *)
(* then.                                                                   *)
WrongOnlyIfChanged ==
  \A q \in Requests :
     LET key == req[q].key
         answer == req[q].answer IN
     /\ AtStep(q, "answered") /\ req[q].kind = "file" /\ key \in Ids
     /\ answer.type \notin {"upstream", "not found", "forbidden", "error"}
     /\ Row(q).path \in Faithful
     => \/ answer.type = "elf" /\ answer.id = key
        \/ disk[Row(q).path].stamp > Row(q).mtime

(* Requests for sections leave nothing behind in the cache when no copy    *)
(* broke off, however they overlap.                                        *)
SectionsLeaveNothing ==
  lazy /\ faults = 0 /\ Open = {} =>
    \A i \in DOMAIN cache : cache[i].path \in SourcePackages
===============================================================================
