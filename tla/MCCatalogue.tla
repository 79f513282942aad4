------------------------------ MODULE MCCatalogue ------------------------------
(* An instance of Catalogue, and the patterns and names Glob is checked    *)
(* with.                                                                   *)
EXTENDS Catalogue

Path(words) == [i \in DOMAIN words |-> <<words[i]>>]

TheRoots == {Path(<<"srv">>), Path(<<"srv", "mirror">>)}

(* Three files of a build under deduplication, one of them also reached    *)
(* under a root within the root, and a package.                            *)
Lib == Path(<<"srv", "Released", "net", "b1", "lib.debug">>)
Tool == Path(<<"srv", "mirror", "Unsorted", "tool.debug">>)
Flat == Path(<<"srv", "flat.debug">>)
Deb == Path(<<"srv", "net.deb">>)
Member == Path(<<"usr", "lib.debug">>)
Exe == Path(<<"opt", "tool">>)
NoPath == <<>>

PlaceOf(path) == CASE path = NoPath -> 0 [] path = Exe -> 1 [] path = Lib -> 2
                   [] path = Flat -> 3 [] path = Tool -> 4

Plain(id, type, path, commit, comment, mtime) ==
  [id |-> id, type |-> type, file |-> path, place |-> PlaceOf(path),
   archive |-> NoPath, member |-> NoPath,
   commit |-> commit, comment |-> comment, mtime |-> mtime]

(* The executable of the second build, which no search and no query finds: *)
(* with it the table has more rows than are read for two groups.           *)
Installed == Plain("2", "executable", Exe, NoCommit, NoCommit, 1)
TheFirst == {Installed}

(* A build-id with both types; one whose file moves; one of a package.     *)
TheArtifacts ==
  {Installed,
   Plain("1", "debuginfo", Lib, NoCommit, "c", 1),
   Plain("1", "executable", Flat, NoCommit, NoCommit, 1),
   Plain("2", "debuginfo", Tool, NoCommit, NoCommit, 1),
   Plain("2", "debuginfo", Lib, "c", "c", 2),
   [id |-> "3", type |-> "debuginfo", file |-> NoPath, place |-> PlaceOf(NoPath),
    archive |-> Deb, member |-> Member,
    commit |-> NoCommit, comment |-> NoCommit, mtime |-> 1]}

InDedup(path, project, commit, status) ==
  [path |-> path, project |-> project, commit |-> commit, status |-> status]

TheDedupFiles ==
  {InDedup(Lib, Path(<<"Released", "net">>), "c", "done"),
   InDedup(Lib, Path(<<"Released", "net">>), "c", "error"),
   InDedup(Tool, Path(<<"Unsorted", "tool">>), NoCommit, "pending")}

(* Under these two roots no two files are shown alike.                     *)
ASSUME TheRootsTell == PathsTell

TheIds == <<"1", "2", "3">>

Paged(via, key, word, limit) ==
  [via |-> via, key |-> key, word |-> word, limit |-> limit]
TheSearches ==
  {Paged("metadata", "glob", "srv", 1),
   Paged("metadata", "glob", "lib.debug", 0),
   Paged("ui", "path", "lib.debug", 1),
   Paged("ui", "name", "lib.debug", 0),
   Paged("metadata", "buildid", "1", 2)}

TheQueries == {[form |-> "any", word |-> ""], [form |-> "word", word |-> "c"],
               [form |-> "glob", word |-> "lib.debug"]}

-----------------------------------------------------------------------------
a == 97
b == 98
TheLetters == {a, b, Slash}

One(c) == [star |-> FALSE, wild |-> FALSE, chars |-> {c}, spelling |-> <<c>>]
Listed(c) == [spelling |-> <<c>>, chars |-> {c}]
Span(low, high) == [spelling |-> <<low, Dash, high>>, chars |-> low..high]
Class(chars, mark, items) ==
  [star |-> FALSE, wild |-> TRUE, chars |-> chars, mark |-> mark, items |-> items,
   spelling |-> <<Open>> \o (mark \o Spelling(items)) \o <<Close>>]

TheTokens ==
  {One(a), One(Slash),
   [star |-> TRUE, wild |-> TRUE, chars |-> {}, spelling |-> <<Star>>],
   [star |-> FALSE, wild |-> TRUE, chars |-> TheLetters, spelling |-> <<Question>>],
   Class({a, Slash}, <<>>, <<Listed(a), Listed(Slash)>>),
   Class(TheLetters \ {a}, <<Not>>, <<Listed(a)>>),
   Class({a, b}, <<>>, <<Span(a, b), Listed(Dash)>>)}
================================================================================
