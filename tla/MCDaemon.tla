------------------------------- MODULE MCDaemon -------------------------------
(* Instances of Daemon.  The files of an instance are strings; what one    *)
(* holds depends on its stamp, 1 for the first upload and 2 for the next.  *)
EXTENDS Daemon, TLC

CONSTANTS b1, b2, b3, w1, w2, a1, a2, r1, r2

TwoStamps == 1..2
AllIds == {b1, b2, b3}
TwoIds == {b1, b2}

Elf(id) == [type |-> "elf", id |-> id]
Text == [type |-> "text"]
Source == [type |-> "source"]
Tar(entries) == [type |-> "tar", entries |-> entries]
Package(entries) == [type |-> "package", entries |-> entries]
Part(form, path) == [form |-> form, path |-> path]
Entry(form, path, body) == [name |-> Part(form, path), link |-> FALSE, body |-> body]
Link(path) == [name |-> Part("plain", path), link |-> TRUE, body |-> Text]

(* Two builds of a library at one path, a copy of the first elsewhere that *)
(* is then stripped of its build-id, and a package with the second build.  *)
ScanPaths == {"lib", "copy", "deb"}
ScanKind == [p \in ScanPaths |-> IF p = "deb" THEN "deb" ELSE "file"]
ScanHolds ==
  [lib |-> <<Elf(b1), Elf(b2)>>,
   copy |-> <<Elf(b1), Elf(NoId)>>,
   deb |-> <<Package(<<Entry("dot", "m", Elf(b2)), Link("n")>>),
             Package(<<Entry("dot", "m", Elf(b3)), Entry("absolute", "n", Elf(NoId))>>)>>]

SameRequests == Permutations(Requests)
SameWorkers == Permutations(Workers)

Periodic == {<<TRUE, TRUE>>}
AllModes == BOOLEAN \X BOOLEAN

(* One file and its next version.                                          *)
LivePaths == {"lib"}
LiveKind == [p \in LivePaths |-> "file"]
LiveHolds == [lib |-> <<Elf(b1), Elf(b2)>>]

(* A file, a .dsc, and the tarball it names with a source and a debug file *)
(* that changes and gets a twin of an unsafe name.                         *)
ServePaths == {"lib", "dsc", "tgz"}
ServeKind == [lib |-> "file", dsc |-> "dsc", tgz |-> "tar"]
Contents(id) == <<Entry("plain", "s", Source), Entry("dot", "m", Elf(id))>>
Unsafe == Entry("absolute", "k", Elf(b2))
ServeHolds ==
  [lib |-> <<Elf(b1), Elf(b1)>>,
   dsc |-> <<Package(<<>>), [type |-> "broken"]>>,
   tgz |-> <<Tar(Contents(b1)), Tar(Contents(b2) \o <<Unsafe>>)>>]
ServeTarball == [dsc |-> "tgz"]

NoTarball == [p \in {} |-> None]
===============================================================================
