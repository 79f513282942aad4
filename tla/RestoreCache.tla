----------------------------- MODULE RestoreCache -----------------------------
(***************************************************************************)
(* Requests for debug files the deduplication may replace by deltas:       *)
(* internal/webapi resolves an artifact to a path with                     *)
(* RestoreToCacheWithOpts, which decodes a delta into the cache directory, *)
(* and then serves whatever is at that path.  Requests run concurrently    *)
(* with each other and with the pipeline that replaces the files.  The     *)
(* cache has no limit, so that nothing is pruned from it.                  *)
(***************************************************************************)
EXTENDS Naturals

CONSTANTS
  Files,      \* paths of debug files in the index
  Requests,   \* requests served at the same time
  None,       \* no file
  SizeKept,   \* TRUE if a restored file has the size of the uploaded one
  MaxFaults   \* bound on the failures of a behaviour

ASSUME CacheAssumption ==
  /\ None \notin Files
  /\ SizeKept \in BOOLEAN
  /\ MaxFaults \in Nat

VARIABLES
  original,   \* the files that are on disk as such
  kind,       \* storage kind of each file's row: full or delta
  yields,     \* what the delta of a file decodes to with its base: the
              \* recorded bytes, other bytes, or the base is missing
  copy,       \* what is in the file's copy in dedup-restored
  req,        \* each request: its progress, file, the kind it read, its body
  faults      \* failures so far

vars == <<original, kind, yields, copy, req, faults>>

IdleRequest == [pc |-> "idle", file |-> None, from |-> "full", body |-> "none"]

File(q) == req[q].file

Advance(q, pc) == req' = [req EXCEPT ![q] = [@ EXCEPT !.pc = pc]]

Fault == faults < MaxFaults /\ faults' = faults + 1

-----------------------------------------------------------------------------
Init ==
  /\ original = Files
  /\ kind = [f \in Files |-> "full"]
  /\ yields = [f \in Files |-> "recorded"]
  /\ copy = [f \in Files |-> "none"]
  /\ req = [q \in Requests |-> IdleRequest]
  /\ faults = 0

(* serveArtifact: a request that has been answered makes room for another. *)
Request(q, f) ==
  /\ req[q].pc \in {"idle", "answered", "failed"}
  /\ req' = [req EXCEPT ![q] = [IdleRequest EXCEPT !.pc = "row", !.file = f]]
  /\ UNCHANGED <<original, kind, yields, copy, faults>>

ReadRow(q) ==
  /\ req[q].pc = "row"
  /\ req' = [req EXCEPT ![q] = [@ EXCEPT
               !.from = kind[File(q)],
               !.pc = IF kind[File(q)] = "delta" THEN "look" ELSE "stat"]]
  /\ UNCHANGED <<original, kind, yields, copy, faults>>

StatOriginal(q) ==
  /\ req[q].pc = "stat"
  /\ Advance(q, IF File(q) \in original THEN "open" ELSE "failed")
  /\ UNCHANGED <<original, kind, yields, copy, faults>>

-----------------------------------------------------------------------------
(* restoreDelta.                                                           *)

(* A copy in the cache is only used if it has the size the file was        *)
(* registered with and the recorded hash.                                  *)
Usable(f) == SizeKept /\ copy[f] = "recorded"

LookUp(q) ==
  /\ req[q].pc = "look"
  /\ Advance(q, CASE yields[File(q)] = "missing" -> "failed"
                  [] yields[File(q)] # "missing" /\ Usable(File(q)) -> "open"
                  [] OTHER -> "decode")
  /\ UNCHANGED <<original, kind, yields, copy, faults>>

(* Mutant of CanWrite: xdelta3 is told to overwrite.                       *)
CanOverwrite(f) == yields[f] # "missing"

(* xdelta3 does not write to a file that exists: that looking and creating *)
(* are one step is assumed of the tool.                                    *)
CanWrite(f) == yields[f] # "missing" /\ copy[f] = "none"

StartDecode(q) ==
  /\ req[q].pc = "decode" /\ CanWrite(File(q))
  /\ copy' = [copy EXCEPT ![File(q)] = "part"]
  /\ Advance(q, "writing")
  /\ UNCHANGED <<original, kind, yields, faults>>

DecodeRefused(q) ==
  /\ req[q].pc = "decode"
  /\ \/ ~CanWrite(File(q)) /\ UNCHANGED faults
     \/ CanWrite(File(q)) /\ Fault
  /\ Advance(q, "failed")
  /\ UNCHANGED <<original, kind, yields, copy>>

(* Mutant of FinishDecode: a base that has gone is taken for an outcome.   *)
FinishUnguarded(q) ==
  /\ req[q].pc = "writing"
  /\ copy' = [copy EXCEPT ![File(q)] = yields[File(q)]]
  /\ Advance(q, "hash")
  /\ UNCHANGED <<original, kind, yields, faults>>

FinishDecode(q) ==
  /\ req[q].pc = "writing"
  /\ copy' = [copy EXCEPT ![File(q)] =
               IF yields[File(q)] = "recorded" THEN "recorded" ELSE "other"]
  /\ Advance(q, "hash")
  /\ UNCHANGED <<original, kind, yields, faults>>

(* A decoder that fails, or a copy that cannot be read back, is left as    *)
(* it is.                                                                  *)
DecodeBreaks(q) ==
  /\ req[q].pc \in {"writing", "hash"}
  /\ Fault
  /\ Advance(q, "failed")
  /\ UNCHANGED <<original, kind, yields, copy>>

(* Mutant of CheckHash: the hash of the copy is not compared.              *)
HashUnchecked(q) ==
  /\ req[q].pc = "hash"
  /\ Advance(q, "open")
  /\ UNCHANGED <<original, kind, yields, copy, faults>>

CheckHash(q) ==
  /\ req[q].pc = "hash"
  /\ Advance(q, IF copy[File(q)] = "recorded" THEN "open" ELSE "drop")
  /\ UNCHANGED <<original, kind, yields, copy, faults>>

DropCopy(q) ==
  /\ req[q].pc = "drop"
  /\ copy' = [copy EXCEPT ![File(q)] = "none"]
  /\ Advance(q, "failed")
  /\ UNCHANGED <<original, kind, yields, faults>>

(* serveResolvedFile opens the path it was given and sends what is there.  *)
Serve(q) ==
  LET found == IF req[q].from = "delta" THEN copy[File(q)]
               ELSE IF File(q) \in original THEN "original" ELSE "none"
  IN  /\ req[q].pc = "open"
      /\ req' = [req EXCEPT ![q] = [@ EXCEPT
                   !.pc = IF found = "none" THEN "failed" ELSE "answered",
                   !.body = found]]
      /\ UNCHANGED <<original, kind, yields, copy, faults>>

-----------------------------------------------------------------------------
(* What happens to the files meanwhile.                                    *)

(* compressOne replaces a file by a delta ...                              *)
RemoveOriginal(f) ==
  /\ f \in original
  /\ original' = original \ {f}
  /\ UNCHANGED <<kind, yields, copy, req, faults>>

RecordDelta(f) ==
  /\ f \notin original /\ kind[f] = "full"
  /\ kind' = [kind EXCEPT ![f] = "delta"]
  /\ UNCHANGED <<original, yields, copy, req, faults>>

(* ... and a later run rewrites or removes its base.                       *)
ChangeBase(f) ==
  /\ kind[f] = "delta" /\ yields[f] = "recorded"
  /\ \E y \in {"other", "missing"} : yields' = [yields EXCEPT ![f] = y]
  /\ UNCHANGED <<original, kind, copy, req, faults>>

(* The server process dies: copies stay as far as they were written.       *)
Crash ==
  /\ Fault
  /\ req' = [q \in Requests |-> IdleRequest]
  /\ UNCHANGED <<original, kind, yields, copy>>

-----------------------------------------------------------------------------
Restore(q) ==
  \/ LookUp(q) \/ StartDecode(q) \/ DecodeRefused(q) \/ FinishDecode(q)
  \/ DecodeBreaks(q) \/ CheckHash(q) \/ DropCopy(q)

Answer(q) ==
  \/ \E f \in Files : Request(q, f)
  \/ ReadRow(q) \/ StatOriginal(q) \/ Restore(q) \/ Serve(q)

Next ==
  \/ \E q \in Requests : Answer(q)
  \/ \E f \in Files : RemoveOriginal(f) \/ RecordDelta(f) \/ ChangeBase(f)
  \/ Crash

Spec == Init /\ [][Next]_vars

-----------------------------------------------------------------------------
(* Types and properties.                                                   *)

Contents == {"none", "part", "recorded", "other"}

RequestType ==
  [pc : {"idle", "row", "stat", "look", "decode", "writing", "hash", "drop",
         "open", "answered", "failed"},
   file : Files \cup {None},
   from : {"full", "delta"},
   body : Contents \cup {"original"}]

(* A request that is under way has a file.                                 *)
TypeOK ==
  /\ original \subseteq Files
  /\ kind \in [Files -> {"full", "delta"}]
  /\ yields \in [Files -> {"recorded", "other", "missing"}]
  /\ copy \in [Files -> Contents]
  /\ req \in [Requests -> RequestType]
  /\ \A q \in Requests : req[q].pc # "idle" => File(q) \in Files
  /\ faults \in Nat

(* A request is answered with the file as uploaded or with the recorded    *)
(* bytes of its delta: never with a copy another request is still writing, *)
(* a left-over of a decoder that failed, or the outcome of a changed base. *)
BodyIntact ==
  \A q \in Requests : req[q].pc = "answered" => req[q].body \in {"original", "recorded"}

(* No request removes or rewrites a complete copy that others may be about *)
(* to serve.                                                               *)
CopyKept ==
  [][\A f \in Files : copy[f] = "recorded" => copy'[f] = copy[f]]_vars

(* A request that finds a delta with an intact base is answered.           *)
DeltaAnswered ==
  \A q \in Requests :
    req[q].pc = "failed" /\ req[q].from = "delta" => yields[File(q)] # "recorded"
===============================================================================
