------------------------------ MODULE ScanRunner ------------------------------
(***************************************************************************)
(* The goroutine of internal/scanrunner that scans at the start, at every  *)
(* tick and whenever somebody asks (POST /admin/rescan, the button of the  *)
(* web UI, SIGUSR1), and what it publishes in internal/metrics.  The scan  *)
(* itself, the deduplication after it and the life of the process are      *)
(* actions of the modules that compose this one: here they are the steps   *)
(* in which control leaves the loop and comes back.                        *)
(***************************************************************************)
EXTENDS Naturals

CONSTANTS
  Askers,       \* those who ask for rescans
  ScanModes,    \* configurations that are considered: <<scanEnabled, ticker>>
  Signals       \* whether the process may be told to stop

ASSUME RunnerAssumption == ScanModes \subseteq BOOLEAN \X BOOLEAN

VARIABLES
  scanEnabled,  \* configuration: whether this server scans at all
  ticker,       \* configuration: whether the rescan interval is positive
  loop,         \* where the runner is
  trigger,      \* the trigger channel, which holds at most one request
  cancelled,    \* the context of the runner: SIGTERM or SIGINT arrived
  ready,        \* what /readyz answers
  phase,        \* metrics.ScanPhase: idle, indexing or dedup
  asked         \* each asker's last request: none, waiting, covered by a scan

runnerVars ==
  <<scanEnabled, ticker, loop, trigger, cancelled, ready, phase, asked>>

Loops == {"boot", "disabled", "select", "drain", "begin", "scan", "dedup",
          "finish", "stopped", "down"}

RunnerTypeOK ==
  /\ scanEnabled \in BOOLEAN /\ ticker \in BOOLEAN
  /\ loop \in Loops
  /\ trigger \in BOOLEAN /\ cancelled \in BOOLEAN /\ ready \in BOOLEAN
  /\ phase \in {"idle", "indexing", "dedup"}
  /\ asked \in [Askers -> {"none", "waiting", "covered"}]

Up == loop # "down"

RunnerInit ==
  /\ \E m \in ScanModes : scanEnabled = m[1] /\ ticker = m[2]
  /\ loop = "boot"
  /\ trigger = FALSE /\ cancelled = FALSE /\ ready = FALSE
  /\ phase = "idle"
  /\ asked = [a \in Askers |-> "none"]

GoTo(here, there) == loop = here /\ loop' = there

-----------------------------------------------------------------------------
(* Run: the first scan needs no request; a server that does not scan is    *)
(* ready at once and only waits for its context.                           *)
BootScanning ==
  /\ scanEnabled
  /\ GoTo("boot", "begin")
  /\ UNCHANGED <<scanEnabled, ticker, trigger, cancelled, ready, phase, asked>>

BootDisabled ==
  /\ ~scanEnabled
  /\ GoTo("boot", "disabled")
  /\ ready' = TRUE
  /\ UNCHANGED <<scanEnabled, ticker, trigger, cancelled, phase, asked>>

(* The select statement takes any branch that is ready.                    *)
Tick ==
  /\ ticker
  /\ GoTo("select", "begin")
  /\ UNCHANGED <<scanEnabled, ticker, trigger, cancelled, ready, phase, asked>>

Receive ==
  /\ trigger
  /\ GoTo("select", "drain")
  /\ trigger' = FALSE
  /\ UNCHANGED <<scanEnabled, ticker, cancelled, ready, phase, asked>>

Done ==
  /\ cancelled
  /\ loop \in {"select", "disabled"}
  /\ loop' = "stopped"
  /\ UNCHANGED <<scanEnabled, ticker, trigger, cancelled, ready, phase, asked>>

(* drainTriggers forgets the requests that came between the receive and    *)
(* the scan; they are older than the scan.                                 *)
Drain ==
  /\ GoTo("drain", "begin")
  /\ trigger' = FALSE
  /\ UNCHANGED <<scanEnabled, ticker, cancelled, ready, phase, asked>>

(* executeScan up to the call of Indexer.Scan.  Only Run calls it, so that *)
(* its test for a scan under way never holds.                              *)
BeginScan ==
  /\ GoTo("begin", "scan")
  /\ phase' = "indexing"
  /\ asked' = [a \in Askers |-> IF asked[a] = "waiting" THEN "covered"
                                                       ELSE asked[a]]
  /\ UNCHANGED <<scanEnabled, ticker, trigger, cancelled, ready>>

(* Indexer.Scan has recorded its numbers, which makes the server ready,    *)
(* and returned without an error, as it always does.                       *)
ScanReturns ==
  /\ GoTo("scan", "dedup")
  /\ ready' = TRUE
  /\ phase' = "dedup"
  /\ UNCHANGED <<scanEnabled, ticker, trigger, cancelled, asked>>

(* RunIngestAfterScan has returned, with an error or not.                  *)
DedupReturns ==
  /\ GoTo("dedup", "finish")
  /\ ready' = TRUE
  /\ UNCHANGED <<scanEnabled, ticker, trigger, cancelled, phase, asked>>

(* Mutant: the requests that came during the scan are drained after it.    *)
FinishScanDrains ==
  /\ GoTo("finish", "select")
  /\ phase' = "idle" /\ trigger' = FALSE
  /\ UNCHANGED <<scanEnabled, ticker, cancelled, ready, asked>>

FinishScan ==
  /\ GoTo("finish", "select")
  /\ phase' = "idle"
  /\ UNCHANGED <<scanEnabled, ticker, trigger, cancelled, ready, asked>>

-----------------------------------------------------------------------------
(* Trigger never blocks: a request that finds the channel full leaves its  *)
(* work to the one in it.  A server that does not scan answers 409.        *)
Ask(a) ==
  /\ Up /\ scanEnabled
  /\ asked[a] # "waiting"
  /\ trigger' = TRUE
  /\ asked' = [asked EXCEPT ![a] = "waiting"]
  /\ UNCHANGED <<scanEnabled, ticker, loop, cancelled, ready, phase>>

(* main: a signal cancels the context.                                     *)
Cancel ==
  /\ Signals /\ Up /\ ~cancelled
  /\ cancelled' = TRUE
  /\ UNCHANGED <<scanEnabled, ticker, loop, trigger, ready, phase, asked>>

(* The process ends.  main returns once the HTTP server has shut down and  *)
(* does not wait for the runner, so that a shutdown may cut a scan short   *)
(* just as a crash does.                                                   *)
ProcessEnds ==
  /\ Up
  /\ loop' = "down"
  /\ UNCHANGED <<scanEnabled, ticker, trigger, cancelled, ready, phase, asked>>

(* A new process knows nothing of the requests the old one had accepted.   *)
ProcessStarts ==
  /\ GoTo("down", "boot")
  /\ trigger' = FALSE /\ cancelled' = FALSE /\ ready' = FALSE
  /\ phase' = "idle"
  /\ UNCHANGED <<scanEnabled, ticker, asked>>

(* The steps of the loop that do not wait for a scan or a deduplication.   *)
LoopStep == BootScanning \/ BootDisabled \/ Tick \/ Receive \/ Done \/ Drain
            \/ FinishScan

-----------------------------------------------------------------------------
Waiting == {a \in Askers : asked[a] = "waiting"}

(* A request that no scan has followed is in the channel, or the loop is   *)
(* on its way to the scan that follows it, unless the server stops.        *)
RequestKept ==
  Waiting # {} => trigger \/ loop \in {"boot", "drain", "begin", "stopped", "down"}

(* Every accepted request is followed by a scan that begins later.         *)
Promise == INSTANCE RescanPromise WITH waiting <- Waiting

RescanSafety == Promise!PromiseSafety
RescanHonoured == Promise!PromiseSpec
===============================================================================
