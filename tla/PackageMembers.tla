---------------------------- MODULE PackageMembers ----------------------------
(***************************************************************************)
(* internal/archive: which members of a package are listed when it is      *)
(* indexed, under which name, and which entry a name opens when a member   *)
(* is asked for later.  The two are separate walks of the package that     *)
(* have to agree on the names.  A package is the sequence of its entries;  *)
(* what an entry holds is a record with a type: elf, source, text, or a    *)
(* tar with entries of its own.                                            *)
(*                                                                         *)
(* A name is a sequence of one or two parts, the second one the name       *)
(* inside a nested tar ("outer!inner").  A part says how its path is       *)
(* written: plain, with a leading ./, or absolute.                         *)
(***************************************************************************)
EXTENDS Naturals, Sequences

CONSTANT Missing        \* what opening a name yields that no entry has

Trim(part) == [form |-> IF part.form = "dot" THEN "plain" ELSE part.form,
               path |-> part.path]

(* ValidateMemberPath refuses a path that leaves the package.              *)
SafeName(name) == \A i \in DOMAIN name : name[i].form # "absolute"

(* A name that reads the same whether or not the leading ./ is cut off.    *)
ListedAs(kind, part) == IF kind \in {"rpm", "srpm"} THEN Trim(part) ELSE part

Regular(entries, types) ==
  {i \in DOMAIN entries : ~entries[i].link /\ entries[i].body.type \in types}

Listed(kind, entries, types) ==
  {[name |-> <<ListedAs(kind, entries[i].name)>>, body |-> entries[i].body] :
      i \in Regular(entries, types)}

(* ListELFMembers: .deb, .rpm and tar.                                     *)
ElfMembers(kind, entries) == Listed(kind, entries, {"elf"})

(* The sources in the tars of a source package, which are entries of an    *)
(* .srpm and files beside a .dsc.                                          *)
InTars(kind, entries) ==
  UNION {{[m EXCEPT !.name = <<ListedAs(kind, entries[i].name)>> \o @] :
             m \in Listed("tar", entries[i].body.entries, {"source"})} :
           i \in Regular(entries, {"tar"})}

(* ListSourceMembers: an .srpm also holds sources of its own.              *)
SourceMembers(kind, entries) ==
  InTars(kind, entries)
    \cup (IF kind = "srpm" THEN Listed(kind, entries, {"source"}) ELSE {})

-----------------------------------------------------------------------------
(* An entry answers to the name it was given and, in a tar, to the one     *)
(* without ./ as well; in an rpm to the latter only.                       *)
AnswersTo(kind, entry, part) ==
  Trim(entry.name) = part \/ (kind \notin {"rpm", "srpm"} /\ entry.name = part)

Hits(kind, entries, part) ==
  {i \in DOMAIN entries : AnswersTo(kind, entries[i], part)}

First(hits) == CHOOSE i \in hits : \A j \in hits : i <= j

OpenEntry(kind, entries, part) ==
  LET hits == Hits(kind, entries, part)
  IN IF hits = {} THEN Missing ELSE entries[First(hits)].body

(* OpenMemberReader.  The tar that a .dsc names is opened as a file.       *)
OpenMember(kind, entries, name) ==
  LET outer == OpenEntry(kind, entries, name[1])
  IN IF Len(name) = 1 THEN outer
     ELSE IF outer = Missing \/ outer.type # "tar" THEN Missing
     ELSE OpenEntry("tar", outer.entries, name[2])

(* No two entries of the package are the same path.                        *)
DistinctPaths(entries) ==
  \A i, j \in DOMAIN entries :
     entries[i].name.path = entries[j].name.path => i = j
================================================================================
