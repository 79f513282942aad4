--------------------------- MODULE MCDedupPipeline ---------------------------
(* Instances of DedupPipeline.  A file is its build number; builds 1 and 2 *)
(* are in a first directory, the others in a second one.                   *)
EXTENDS DedupInvariant, TLC

Interchangeable == Permutations(Runs)

TwoBuilds == 1..2
ThreeBuilds == 1..3
FourBuilds == 1..4
FiveBuilds == 1..5
TwoDirs == {"d1", "d2"}
TwoProjects == {"p1", "p2"}

DirOfBuild == [f \in Files |-> IF f <= 2 THEN "d1" ELSE "d2"]
NumOfFile == [f \in Files |-> f]
NumOfDir == [d \in TwoDirs |-> IF d = "d1" THEN 1 ELSE 2]
(* Two projects that only differ in a version, so with one group key.      *)
ProjectOfDir == [d \in TwoDirs |-> IF d = "d1" THEN "p1" ELSE "p2"]

(* Every file is a build of one library.                                   *)
OneLibrary == [f \in Files |-> "lib"]

(* Two groups, of three builds in both directories and of two in one.      *)
TwoLibraries == [f \in Files |-> IF f <= 3 THEN "lib" ELSE "tool"]

(* Forms of one size: preprocessing and compressing leave a file as long   *)
(* as it was.                                                              *)
SameSize == [x \in Forms |-> 10]
(* dwz and the compression of sections change the size.                    *)
OwnSize == [x \in Forms |-> CASE x = "orig" -> 30 [] x = "prep" -> 20 [] x = "zstd" -> 10]
==============================================================================
