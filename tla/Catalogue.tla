------------------------------- MODULE Catalogue -------------------------------
(***************************************************************************)
(* Users look through the index while a scan and a deduplication change    *)
(* it: a client of /metadata or /ui/api/search asks for page after page,   *)
(* and /ui/api/browse reads the artifacts first and the rows of            *)
(* dedup_files then.  A query sees the tables as they are at one moment,   *)
(* two queries do not.  One user at a time is enough, since they only      *)
(* read.                                                                   *)
(***************************************************************************)
EXTENDS Listings, Glob

CONSTANTS
  Artifacts,    \* rows the index may write
  AtFirst,      \* rows that are there when the server starts
  DedupFiles,   \* rows of dedup_files the pipeline may write
  Searches,     \* what a client may page through
  Queries,      \* what may be looked for in the tree
  None,         \* nothing looked for
  MaxChanges,   \* bound on the changes of the tables
  MaxTimeouts   \* bound on the requests that run out of time

ASSUME TablesAssumption ==
  /\ \A r \in Artifacts : /\ r.place \in Nat
                         /\ \E i \in DOMAIN IdOrder : IdOrder[i] = r.id
  /\ DOMAIN IdOrder \subseteq Nat
  /\ Artifacts \cap DedupFiles = {}
  /\ \A s \in Searches : s.limit \in Nat
  /\ \A r \in Artifacts : r.type \in {"debuginfo", "executable"}

IsSequence(s) == s \in Seq(ToSet(s))
IsPath(p) == IsSequence(p) /\ \A i \in DOMAIN p : IsSequence(p[i])

(* The table has at most one row of each build-id and type.                *)
ASSUME AtFirstAssumption ==
  /\ AtFirst \subseteq Artifacts /\ IsFiniteSet(AtFirst)
  /\ \A r, t \in AtFirst : r.id = t.id /\ r.type = t.type => r = t

(* A member of a package has a name; the pipeline takes files *.debug, and *)
(* no package is called that.                                              *)
ASSUME PathsAssumption ==
  /\ \A p \in Roots : IsPath(p)
  /\ \A r \in Artifacts :
       /\ IsPath(r.file) /\ IsPath(r.archive) /\ IsPath(r.member)
       /\ Packed(r) => r.member # <<>>
  /\ \A d \in DedupFiles :
       /\ IsPath(d.path) /\ IsPath(d.project)
       /\ \A r \in Artifacts : Packed(r) => r.archive # d.path

(* What a user sees of two files tells them apart: the scan roots leave    *)
(* them different paths, and no name has the arrow of a package in it.     *)
PathsTell ==
  /\ \A r \in Artifacts, d \in DedupFiles :
       ~Packed(r) /\ r.file # d.path => Relative(r.file) # Relative(d.path)
  /\ \A d \in DedupFiles : ~Has(Relative(d.path), "arrow")

VARIABLES
  table,        \* artifacts
  dedup,        \* dedup_files
  user,         \* what the user does, and what came of it
  changes,      \* changes so far
  timeouts      \* requests that ran out of time so far

vars == <<table, dedup, user, changes, timeouts>>

(* seen are the rows that were there when the user began and did not       *)
(* change; moved tells that a row the search keeps went elsewhere, or that *)
(* its order leaves something open; grown that the table changed at all;   *)
(* rewound that an answer sent the client back.                            *)
NoUser == [step |-> "away", seen |-> {}, moved |-> FALSE, grown |-> FALSE,
           search |-> None, offset |-> 0, later |-> FALSE, got |-> {},
           twice |-> FALSE, rewound |-> FALSE, query |-> None, found |-> {},
           shown |-> {}]

Init ==
  /\ table = AtFirst /\ dedup = {}
  /\ user = NoUser
  /\ changes = 0 /\ timeouts = 0

At(step) == user.step = step
Paging == At("page") \/ At("paged")

-----------------------------------------------------------------------------
(* AddArtifact: the row of a build-id and type is replaced by one that is  *)
(* not older.                                                              *)
Same(r, t) == r.id = t.id /\ r.type = t.type

Upserted(rows, row) == {r \in rows : ~Same(r, row)} \cup {row}

Leaves(old, row) == Paging /\ \E r \in old :
  /\ Keeps(user.search, r)
  /\ \/ ~Keeps(user.search, row)
     \/ Position(user.search, r) # Position(user.search, row)

WriteArtifact(row) ==
  LET old == {r \in table : Same(r, row)} IN
  /\ changes < MaxChanges
  /\ \A r \in old : r.mtime <= row.mtime
  /\ row \notin table
  /\ table' = Upserted(table, row)
  /\ user' = [user EXCEPT !.seen = @ \ old, !.grown = TRUE,
                          !.moved = @ \/ Leaves(old, row)]
  /\ changes' = changes + 1
  /\ UNCHANGED <<dedup, timeouts>>

WriteDedup(row) ==
  /\ changes < MaxChanges
  /\ row \notin dedup
  /\ dedup' = {d \in dedup : d.path # row.path} \cup {row}
  /\ user' = [user EXCEPT !.seen = {d \in @ : d \notin dedup \/ d.path # row.path}]
  /\ changes' = changes + 1
  /\ UNCHANGED <<table, timeouts>>

-----------------------------------------------------------------------------
(* A client that follows next_offset until the answer is complete.         *)
StartPaging(s) ==
  /\ At("away")
  /\ user' = [NoUser EXCEPT !.step = "page", !.search = s,
                            !.seen = {r \in table : Keeps(s, r)}]
  /\ UNCHANGED <<table, dedup, changes, timeouts>>

Keys(rows) == {<<r.id, r.type>> : r \in rows}

TakePage(page, kept) ==
  LET keys == Keys({page.results[i] : i \in DOMAIN page.results}) IN
  user' = [user EXCEPT
    !.step = IF page.complete THEN "paged" ELSE "page",
    !.offset = page.next, !.later = TRUE,
    !.got = @ \cup keys, !.twice = @ \/ keys \cap user.got # {},
    !.moved = @ \/ Ties(user.search, kept),
    !.rewound = @ \/ (~page.complete /\ page.next < user.offset)]

(* SearchMetadataQuery, SearchPathForUI, SearchNameForUI.                  *)
GetPage ==
  LET s == user.search
      limit == LimitOf(s.via, user.later, s.limit) IN
  /\ At("page")
  /\ UNCHANGED <<table, dedup, changes>>
  /\ \E kept \in {{r \in table : Keeps(s, r)}} : \E order \in Orders(s, kept) :
       \/ /\ TakePage(Page(order, user.offset, limit, FALSE, Len(order)), kept)
          /\ UNCHANGED timeouts
       \/ /\ timeouts < MaxTimeouts /\ timeouts' = timeouts + 1
          /\ \E seen \in 0..Len(order) :
               TakePage(Page(order, user.offset, limit, TRUE, seen), kept)

(* The error of a cancelled context: the client asks again.                *)
PageFails ==
  /\ At("page")
  /\ timeouts < MaxTimeouts /\ timeouts' = timeouts + 1
  /\ UNCHANGED <<table, dedup, user, changes>>

-----------------------------------------------------------------------------
(* BrowseFilesForUI: the artifacts, then the files under deduplication.    *)
StartBrowsing(q) ==
  /\ At("away")
  /\ user' = [NoUser EXCEPT !.step = "browse", !.query = q,
                            !.seen = table \cup dedup,
                            !.found = SearchDebugFiles(table, q)]
  /\ UNCHANGED <<table, dedup, changes, timeouts>>

FinishBrowsing ==
  LET q == user.query
      rest == SearchDedupFiles(dedup, q, PathsOf(user.found)) IN
  /\ At("browse")
  /\ user' = [user EXCEPT !.step = "browsed", !.found = {},
        !.shown = {ArtifactLeaf(r, q) : r \in user.found}
                    \cup {DedupLeaf(d) : d \in rest}]
  /\ UNCHANGED <<table, dedup, changes, timeouts>>

Leave ==
  /\ At("paged") \/ At("browsed")
  /\ user' = NoUser
  /\ UNCHANGED <<table, dedup, changes, timeouts>>

-----------------------------------------------------------------------------
Next ==
  \/ \E row \in Artifacts : WriteArtifact(row)
  \/ \E row \in DedupFiles : WriteDedup(row)
  \/ \E s \in Searches : StartPaging(s)
  \/ GetPage \/ PageFails
  \/ \E q \in Queries : StartBrowsing(q)
  \/ FinishBrowsing \/ Leave

Spec == Init /\ [][Next]_vars

(* The client asks on and the server answers.                              *)
FairSpec == Spec /\ WF_vars(GetPage)

-----------------------------------------------------------------------------
(* A client has got every row its search keeps that was there all the      *)
(* time, unless a row of the search went elsewhere meanwhile or the order  *)
(* of the rows left something open: then the next page may begin too late. *)
PagesMissNothing ==
  At("paged") /\ ~user.moved => Keys(user.seen) \subseteq user.got

(* While the table stays as it is no row is on two pages, whatever runs    *)
(* out of time, unless the client was sent back: a search without a limit  *)
(* that runs out of time before its first new row names no next offset.    *)
PagesRepeatNothing ==
  Paging /\ ~user.grown /\ ~user.moved /\ ~user.rewound => ~user.twice

(* Following next_offset comes to an end.                                  *)
PagingEnds == At("page") ~> At("paged")

(* What was in one of the tables all the time is in the tree, although the *)
(* two are read one after the other.  A word is not found in the names of  *)
(* packages and their members, which the database does not look at.        *)
BrowseMissesNothing ==
  At("browsed") =>
    /\ \A r \in table \cap user.seen :
         /\ IsDebugUIFile(r) /\ Unified(user.query, Display(r), r.commit, r.id)
         /\ Packed(r) => user.query.form # "word"
         => \E l \in user.shown : l.key = <<r.id, r.type>>
    /\ \A d \in dedup \cap user.seen :
         /\ d.status # "error"
         /\ Unified(user.query, Relative(d.path), d.commit, NoCommit)
         => \E l \in user.shown : l.rel = Relative(d.path)

(* A file that is in both tables is shown once, as an artifact.            *)
BrowseShowsOnce ==
  \A l, m \in user.shown : l.from = "artifact" /\ m.from = "dedup" => l.rel # m.rel

(* Every file shown is at one node of the tree: that of its commit or that *)
(* of its directory.                                                       *)
TreeHoldsEach ==
  LET tree == Tree(user.shown) IN
  At("browsed") => \A l \in user.shown :
    \E n \in tree :
      /\ \A m \in tree : l \in m.files <=> m = n
      /\ /\ l.commit = NoCommit
         /\ Len(l.rel) > Len(l.project) /\ IsPrefix(l.project, l.rel)
         => n.path = Front(l.rel)

(* A group shows every row of its build-id, and no group is missing, as    *)
(* long as two rows for each are not more than are read.                   *)
GroupsWhole ==
  At("away") => \A limit \in 1..RowCap \div 2 : \A order \in ByIdOnly(table) :
    LET groups == Groups(order, limit)
        ids == {r.id : r \in table} IN
    /\ \A g \in groups : g.rows = {r \in table : r.id = g.id}
    /\ Cardinality(groups) >= limit \/ {g.id : g \in groups} = ids

(* The patterns mean what they say, whatever is in the tables: GlobAgrees  *)
(* depends on no variable, and is looked at once, before anything changes. *)
PatternsAgree == changes = 0 /\ timeouts = 0 /\ At("away") => GlobAgrees
================================================================================
