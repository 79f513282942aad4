-------------------------------- MODULE Listings --------------------------------
(***************************************************************************)
(* How the rows of artifacts and dedup_files are searched, cut into pages, *)
(* grouped and put into the tree of the web UI: internal/storage and the   *)
(* parameters internal/webapi and internal/webui take.                     *)
(*                                                                         *)
(* A path is a sequence of components, a component a sequence of words: a  *)
(* search for a word finds the texts that contain it.  The field place of  *)
(* a row says where its column file_path comes in the order of texts.      *)
(***************************************************************************)
EXTENDS SequencesExt

CONSTANTS
  Roots,        \* the scan roots
  IdOrder,      \* the build-ids in their order
  DebugNames,   \* words that a name ending in .debug has
  NoCommit,     \* no commit is known
  DefaultLimit, \* the page size of /metadata
  MaxLimit,     \* the largest page /metadata gives
  RowCap        \* the most rows a search for a build-id reads

ASSUME ListingAssumption ==
  /\ DefaultLimit \in Nat \ {0} /\ DefaultLimit <= MaxLimit /\ MaxLimit \in Nat
  /\ RowCap \in Nat

Has(path, word) ==
  \E i \in DOMAIN path : \E j \in DOMAIN path[i] : path[i][j] = word

IdPlace(id) == CHOOSE i \in DOMAIN IdOrder : IdOrder[i] = id

-----------------------------------------------------------------------------
(* RelativeToScanRoots: the part below the root that leaves the least.     *)
Relative(path) ==
  LET roots == {r \in Roots : IsStrictPrefix(r, path)}
      deepest == CHOOSE r \in roots : \A s \in roots : Len(s) <= Len(r)
  IN IF path \in Roots THEN <<>>
     ELSE IF roots = {} THEN path
     ELSE SubSeq(path, Len(deepest) + 1, Len(path))

(* The arrow between a package and its member is no separator.             *)
Arrow(package, member) ==
  IF package = <<>> THEN <<<<"arrow">> \o Head(member)>> \o Tail(member)
  ELSE Front(package) \o <<Last(package) \o <<"arrow">> \o Head(member)>>
         \o Tail(member)

(* toRecord: a row of a package has its member as File and the package as  *)
(* FilePath, whatever its column file_path holds.                          *)
Packed(row) == row.archive # <<>>
File(row) == IF Packed(row) THEN row.member ELSE row.file
FilePath(row) == IF Packed(row) THEN row.archive ELSE row.file

Display(row) == IF Packed(row) THEN Arrow(Relative(row.archive), row.member)
                               ELSE Relative(row.file)

DebugName(path) == path # <<>> /\ \E w \in DebugNames : Has(<<Last(path)>>, w)

IsDebugUIFile(row) == row.type = "debuginfo" \/ DebugName(File(row))

-----------------------------------------------------------------------------
(* matchesUnifiedQuery.  A query is a word or a glob around a word; either *)
(* finds the texts that contain the word.                                  *)
AnyQuery(q) == q.form = "any"

Unified(q, rel, commit, id) ==
  AnyQuery(q) \/ Has(rel, q.word) \/ commit = q.word \/ id = q.word

(* A word is looked for by the database first, in the columns it has.      *)
SqlFilter(q, row) ==
  q.form = "word" =>
    /\ row.type = "debuginfo" \/ DebugName(row.file)
    /\ Has(row.file, q.word) \/ row.commit = q.word \/ row.id = q.word

SearchDebugFiles(rows, q) ==
  {r \in rows : /\ SqlFilter(q, r) /\ IsDebugUIFile(r)
                /\ Unified(q, Display(r), r.commit, r.id)}

(* Mutant: the paths as they are displayed.                                *)
PathsShown(rows) == {Display(r) : r \in rows}

PathsOf(rows) == {FilePath(r) : r \in rows}

(* Mutant: only the files that are still to be compressed.                 *)
SearchPendingFiles(files, q, skip) ==
  {d \in files : /\ d.status = "pending" /\ d.path \notin skip
                 /\ Unified(q, Relative(d.path), d.commit, NoCommit)}

(* SearchDedupFilesForUI: the files that are not among the artifacts found *)
(* for the same query.  What the database filters out is filtered out by   *)
(* the query, too: a relative path is part of the path.                    *)
SearchDedupFiles(files, q, skip) ==
  {d \in files : /\ d.status # "error" /\ d.path \notin skip
                 /\ Unified(q, Relative(d.path), d.commit, NoCommit)}

-----------------------------------------------------------------------------
(* UIProjectFromRelativePath                                               *)
ProjectOf(rel) ==
  IF Len(rel) >= 2 /\ rel[1] \in {<<"Released">>, <<"Unsorted">>}
  THEN SubSeq(rel, 1, 2) ELSE SubSeq(rel, 1, 1)

(* The leaves of the tree.  With a query the commit may come from the ELF  *)
(* file itself, if that is not in a package.                               *)
ArtifactLeaf(row, q) ==
  [from |-> "artifact", key |-> <<row.id, row.type>>, rel |-> Display(row),
   project |-> ProjectOf(Display(row)),
   commit |-> IF row.commit = NoCommit /\ ~AnyQuery(q) /\ ~Packed(row)
              THEN row.comment ELSE row.commit]

DedupLeaf(d) ==
  [from |-> "dedup", key |-> <<>>, rel |-> Relative(d.path),
   project |-> d.project, commit |-> d.commit]

(* The directory of a leaf under its project: filepath.Dir of what is left *)
(* of the path when the project is cut off its front.                      *)
DirOf(leaf) ==
  LET rest == IF IsPrefix(leaf.project, leaf.rel)
              THEN SubSeq(leaf.rel, Len(leaf.project) + 1, Len(leaf.rel))
              ELSE leaf.rel
  IN IF rest = <<>> THEN <<>> ELSE Front(rest)

CommitNodes(leaves) ==
  {[group |-> "commit", path |-> <<<<c>>>>,
    files |-> {l \in leaves : l.commit = c}] : c \in {l.commit : l \in leaves}}

(* Mutant: a directory is only made for the leaves right under a project.  *)
ShallowNodes(leaves) ==
  {[group |-> "dir", path |-> l.project,
    files |-> {m \in leaves : m.project = l.project /\ Len(DirOf(m)) < 2}] :
      l \in leaves}

(* buildProjectDirTree: a node for the project and for every directory on  *)
(* the way to a leaf.                                                      *)
DirNodes(leaves) ==
  UNION {{[group |-> IF dir = <<>> THEN "project" ELSE "dir",
           path |-> leaf.project \o dir,
           files |-> {l \in leaves : l.project = leaf.project /\ DirOf(l) = dir}] :
             dir \in Prefixes(DirOf(leaf))} : leaf \in leaves}

(* BuildUITreeFromFiles                                                    *)
Tree(leaves) ==
  LET known == {l \in leaves : l.commit # NoCommit}
  IN CommitNodes(known) \cup DirNodes(leaves \ known)

-----------------------------------------------------------------------------
(* The rows a paged search keeps.                                          *)
Keeps(s, row) ==
  CASE s.key = "glob" ->
         Has(File(row), s.word) \/ (Packed(row) /\ Has(row.archive, s.word))
    [] s.key = "buildid" -> row.id = s.word
    [] s.key = "path" -> Has(Display(row), s.word)
    [] s.key = "name" -> Has(<<Last(File(row))>>, s.word)

(* ORDER BY build_id, type is a total order, the primary key; ORDER BY     *)
(* file_path, type is not.                                                 *)
ByText(s) == s.key \in {"path", "name"}

TypePlace(row) == IF row.type = "debuginfo" THEN 1 ELSE 2

Position(s, row) ==
  <<IF ByText(s) THEN row.place ELSE IdPlace(row.id), TypePlace(row)>>

Ahead(p, q) == p[1] < q[1] \/ (p[1] = q[1] /\ p[2] < q[2])

Orders(s, rows) ==
  LET behind == {rt \in rows \X rows : Ahead(Position(s, rt[2]), Position(s, rt[1]))}
  IN {o \in SetToSeqs(rows) :
        \A i, j \in DOMAIN o : i < j => <<o[i], o[j]>> \notin behind}

Ties(s, rows) == \E r, t \in rows : r # t /\ Position(s, r) = Position(s, t)

(* Mutants: the offset counts from this page on; every page is taken to be *)
(* full.                                                                   *)
NextFromHere(offset, limit, results) == Len(results)

NextAfterFull(offset, limit, results) == offset + limit

(* What next_offset an incomplete answer has.  None is written as 0, which *)
(* is what a client reads.                                                 *)
NextOffset(offset, limit, results) ==
  IF limit = 0 /\ results = <<>> THEN 0 ELSE offset + Len(results)

(* collectMetadata, given the rows to keep in their order, of which it saw *)
(* the first "seen" before its time was up, if it was.                     *)
Page(order, offset, limit, timedOut, seen) ==
  LET rest == SubSeq(order, offset + 1, seen)
      more == limit > 0 /\ Len(rest) > limit
      results == IF more THEN SubSeq(rest, 1, limit) ELSE rest
      complete == ~more /\ ~timedOut
  IN [results |-> results, complete |-> complete,
      next |-> IF complete THEN 0 ELSE NextOffset(offset, limit, results)]

(* parseMetadataPagination, and the limit of /ui/api/search, which is used *)
(* as it is.  No limit is written as 0.                                    *)
LimitOf(via, hasOffset, limit) ==
  LET capped == IF limit > MaxLimit THEN MaxLimit ELSE limit
  IN IF via = "ui" THEN limit
     ELSE IF hasOffset /\ capped = 0 THEN DefaultLimit ELSE capped

-----------------------------------------------------------------------------
(* Mutant: as many rows as groups.                                         *)
RawLimitOne(limit) == IF limit > RowCap THEN RowCap ELSE limit

(* SearchBuildIDGroupedForUI, for the empty query: the rows of up to limit *)
(* build-ids, of the first rows in the order of the ids.                   *)
RawLimit(limit) == IF 4 * limit > RowCap THEN RowCap ELSE 4 * limit

First(order, n) == SubSeq(order, 1, IF n < Len(order) THEN n ELSE Len(order))

ByIdOnly(rows) ==
  {o \in SetToSeqs(rows) : \A i, j \in DOMAIN o :
     IdPlace(o[i].id) < IdPlace(o[j].id) => i < j}

(* The groups are made of the rows read, in the order of their first rows. *)
Groups(order, limit) ==
  LET raw == First(order, RawLimit(limit))
      ids == {raw[i].id : i \in DOMAIN raw}
      ahead(id) == Cardinality({k \in ids : IdPlace(k) < IdPlace(id)})
  IN {[id |-> id, rows |-> {r \in ToSet(raw) : r.id = id}] :
        id \in {k \in ids : ahead(k) < limit}}
================================================================================
