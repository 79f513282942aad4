-------------------------------- MODULE Daemon --------------------------------
(***************************************************************************)
(* The server of cmd/debuginfod: the runner that scans, the index that a   *)
(* scan fills, the requests that are served from it, and the end and the   *)
(* start of the process they share.                                        *)
(***************************************************************************)
EXTENDS ScanRunner, Serving

CONSTANT MaxStops       \* bound on the ends of the process

ASSUME DaemonAssumption == MaxStops \in Nat

VARIABLE stops          \* ends of the process so far

vars == <<runnerVars, indexVars, serveVars, stops>>

Init == RunnerInit /\ IndexInit /\ ServeInit /\ stops = 0

OnlyRunner == UNCHANGED <<indexVars, serveVars, stops>>
OnlyIndex == UNCHANGED <<runnerVars, serveVars, stops>>

-----------------------------------------------------------------------------
(* The runner calls Scan, and Scan returns when its workers are done.      *)
CallScan == BeginScan /\ StartWalk /\ UNCHANGED <<serveVars, stops>>
ReturnScan == ScanReturns /\ EndWalk /\ UNCHANGED <<serveVars, stops>>

ScanStep == /\ loop = "scan"
            /\ WalkStep \/ \E w \in Workers : WorkerStep(w)
            /\ OnlyIndex

LoopGoesOn == (LoopStep \/ DedupReturns) /\ OnlyRunner

(* Others may ask, change files or end the process at any time.            *)
AskRescan == (\E a \in Askers : Ask(a)) /\ OnlyRunner

FileChange == /\ \E p \in Paths : DeleteFile(p) \/ \E s \in Stamps : WriteFile(p, s)
              /\ OnlyIndex

AskFile == /\ Up
           /\ \E q \in Requests, kind \in Kinds :
                \E key \in Ids \cup UNION {Keys(p, s) : p \in SourcePackages, s \in Stamps} :
                   Request(q, kind, key)
           /\ UNCHANGED <<runnerVars, stops>>

ServeStep == /\ Up
             /\ \E q \in Requests : RequestStep(q)
             /\ UNCHANGED <<runnerVars, stops>>

Signal == stops < MaxStops /\ Cancel /\ OnlyRunner

(* main has returned, or the process was killed.  Its memory is lost, the  *)
(* database and the cache directory are not.                               *)
Stop == /\ stops < MaxStops
        /\ stops' = stops + 1
        /\ ProcessEnds /\ IndexLost /\ RequestsLost

Start == ProcessStarts /\ OnlyRunner

Next == \/ LoopGoesOn \/ CallScan \/ ScanStep \/ ReturnScan
        \/ AskRescan \/ FileChange \/ AskFile \/ ServeStep
        \/ Signal \/ Stop \/ Start

Spec == Init /\ [][Next]_vars

(* Every goroutine goes on, the interval passes, a process that was told   *)
(* to stop ends and one that ended is started again.                       *)
Fairness ==
  /\ WF_vars(LoopGoesOn) /\ WF_vars(CallScan) /\ WF_vars(ReturnScan)
  /\ WF_vars(loop = "scan" /\ WalkStep /\ OnlyIndex)
  /\ \A w \in Workers : WF_vars(loop = "scan" /\ WorkerStep(w) /\ OnlyIndex)
  /\ WF_vars(cancelled /\ Stop)
  /\ WF_vars(Start)

FairSpec == Spec /\ Fairness

-----------------------------------------------------------------------------
TypeOK == RunnerTypeOK /\ IndexTypeOK /\ ServeTypeOK /\ stops \in 0..MaxStops

(* A file that is there and stays as it is comes into the index, with a    *)
(* ticker and without anybody asking, whatever fails on the way.           *)
EventuallyIndexed ==
  \A p \in Plain : \A s \in Stamps :
     <>[](ticker /\ scanEnabled /\ disk[p] = [stamp |-> s, there |-> TRUE])
        => <>[]Indexed(p, s)

(* What is in the index is in it for good, and never gets older.           *)
RowsOnlyRenewed ==
  [][\A k \in DOMAIN rows : k \in DOMAIN rows' /\ rows'[k].mtime >= rows[k].mtime]_rows
===============================================================================
