----------------------------- MODULE RescanPromise -----------------------------
(***************************************************************************)
(* What an operator who asks for a rescan is promised: a scan that begins  *)
(* after the request was accepted, whatever the server was doing when it   *)
(* arrived.  A scan under way may have passed the file the operator has in *)
(* mind, so that it does not count.                                        *)
(***************************************************************************)
CONSTANT Askers         \* those who ask for rescans

VARIABLE waiting        \* the askers whose request no scan has followed yet

PromiseInit == waiting = {}

Accept(a) == /\ a \notin waiting
             /\ waiting' = waiting \cup {a}

(* One scan answers every request accepted before it begins.               *)
ScanBegins == /\ waiting # {}
              /\ waiting' = {}

PromiseNext == ScanBegins \/ \E a \in Askers : Accept(a)

PromiseSafety == PromiseInit /\ [][PromiseNext]_waiting

PromiseSpec == PromiseSafety /\ WF_waiting(ScanBegins)
================================================================================
