--------------------------- MODULE MCRestoreCache ---------------------------
(* Instances of RestoreCache: two files and two or three requests, all of  *)
(* which are interchangeable.                                              *)
EXTENDS RestoreCache, TLC

Interchangeable == Permutations(Files) \cup Permutations(Requests)
===============================================================================
