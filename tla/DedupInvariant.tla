---------------------------- MODULE DedupInvariant ----------------------------
(***************************************************************************)
(* When the pipeline keeps every file.  Four things lose one; as long as   *)
(* none of them happens, whatever the options, the sizes and the failures, *)
(* every file can be restored.  IInv is the inductive invariant behind     *)
(* that, and StableConfig says in which configurations none of the four    *)
(* can happen.                                                             *)
(***************************************************************************)
EXTENDS DedupPipeline

(* Two runs are under way: one walks a directory, or has listed the pending*)
(* files, while the other works on them.                                   *)
RunsOverlap == \E r, s \in Runs : r # s /\ run[r].pc # "idle" /\ run[s].pc # "idle"

(* The process ends, or the database fails, after the original of a file   *)
(* was removed and before its delta is recorded.                           *)
RemovalCutShort ==
  \E r \in Runs, f \in Files :
    job[r][f].st = "removed" /\ job'[r][f].st \notin {"removed", "done"}

(* An original is removed against a base in compressed form, although the  *)
(* restore decompresses bases first.                                       *)
CompressedUsed ==
  \E r \in Runs, f \in Files :
    /\ job[r][f].st = "verified" /\ job'[r][f].st = "removed"
    /\ disk[job[r][f].base] = "zstd"

(* A base that deltas need is registered as a new upload, since its size   *)
(* is not the one in its row.                                              *)
BaseTaken == \E b \in Files : Dependents(b) # {} /\ row'[b].kind # "base"

Harmful == RunsOverlap' \/ RemovalCutShort \/ CompressedUsed \/ BaseTaken

(* The behaviours in which none of this happens.                           *)
CarefulSpec == Init /\ [][Next /\ ~Harmful]_vars

(* One run at a time, a strategy that does not change the size of the      *)
(* files it rewrites, CompressBase off, and no failure but of the tools.   *)
StableConfig ==
  /\ \A r, s \in Runs : r = s
  /\ SizeOf[Preprocessed("orig")] = SizeOf["orig"]
  /\ ~CompressBase
  /\ Faults \subseteq {"tool"}

-----------------------------------------------------------------------------
IsBase(b) == b \in Files /\ row[b].kind = "base"

(* The forms of a file that was prepared to be a base.                     *)
BaseForms == {Preprocessed("orig"), "zstd"}

(* A job that still has to do something, or gave up.                       *)
Unsettled == {"queued", "stamped", "skipped"} \cup Pairing \cup Compressing

(* Only what was uploaded is on disk or registered; bases are compressed   *)
(* with CompressBase only.                                                 *)
RegisteredInv ==
  \A f \in Files :
    /\ Present(f) \/ row[f].status # "absent" => f \in uploaded
    /\ disk[f] \in {"gone", "orig"} \cup BaseForms
    /\ disk[f] = "zstd" => CompressBase

(* An uploaded file is on disk, recorded as a delta, or between the two.   *)
OnDiskInv ==
  \A f \in uploaded : \/ Present(f)
                      \/ row[f].kind = "delta"
                      \/ \E r \in Runs : job[r][f].st = "removed"

(* A base is on disk, prepared and settled, or its compression failed.     *)
BaseInv ==
  \A b \in Files : row[b].kind = "base" =>
    /\ disk[b] \in BaseForms
    /\ row[b].status = "done" \/ (CompressBase /\ row[b].status = "error")

(* A delta decodes from its base as a request restores it.                 *)
DeltaInv ==
  \A f \in Files : row[f].kind = "delta" =>
    /\ row[f].status = "done" /\ ~Present(f)
    /\ IsBase(row[f].base)
    /\ row[f].sha \in Forms
    /\ delta[f] = Delta(row[f].base, RestoreForm(row[f].base), row[f].sha)

(* A directory walk does not find the files deltas stand for.              *)
SeenInv ==
  \A r \in Runs, f \in Files : run[r].pc = "register" /\ run[r].seen[f] # 0 =>
    f \in uploaded /\ row[f].kind # "delta"

(* A job exists while its run works; an unsettled one is about a full file *)
(* that is not done, and compresses against a base of its group.           *)
JobOK(r, f) == LET j == job[r][f] IN
  /\ j.st # "off" => run[r].pc = "work"
  /\ j.st \in {"base", "joined"} => row[f].kind = "base"
  /\ j.st = "joined" => CompressBase
  /\ j.st \in Unsettled => row[f].kind = "full" /\ row[f].status \in {"pending", "error"}
  /\ j.st = "failed" => /\ row[f].kind = "full" \/ (CompressBase /\ row[f].kind = "base")
                        /\ row[f].status \in {"pending", "error"}
  /\ j.st = "stamped" => disk[f] \in BaseForms \cup {"gone"}
  /\ j.st \in {"ready"} \cup Compressing => IsBase(j.base) /\ GroupOf[j.base] = GroupOf[f]
  /\ j.st = "pairing" => /\ j.base \in Files /\ GroupOf[j.base] = GroupOf[f]
                         /\ disk[j.base] \in BaseForms
                         /\ row[j.base].kind \in {"full", "base"}
                         /\ row[j.base].status = "done"
  /\ j.st \in Compressing => j.work \in Forms
  /\ j.st = "removed" => /\ ~Present(f)
                         /\ delta[f] = Delta(j.base, RestoreForm(j.base), j.work)
  /\ j.st = "verified" => delta[f] = Delta(j.base, disk[j.base], j.work)

JobInv == \A r \in Runs, f \in Files : JobOK(r, f)

(* The targets of a group wait until its base is marked, and are finished  *)
(* when the base is compressed; a file that is paired is alone.            *)
GroupInv ==
  \A r \in Runs, f, g \in Files :
    f # g /\ GroupOf[f] = GroupOf[g] /\ job[r][g].st # "off" =>
      /\ job[r][f].st = "queued" => job[r][g].st \in {"queued", "stamped"}
      /\ job[r][f].st = "stamped" => job[r][g].st = "queued" /\ BuildNum[f] <= BuildNum[g]
      /\ job[r][f].st = "joined" => job[r][g].st \in Finished
      /\ job[r][f].st # "pairing"

(* What Recoverable and StoreSafety rest on: bases are on disk, deltas     *)
(* decode from them, and no job that is under way is about a file another  *)
(* file depends on.                                                        *)
FileInv == /\ RegisteredInv /\ OnDiskInv /\ BaseInv /\ DeltaInv
           /\ SeenInv /\ JobInv /\ GroupInv

IInv == FileInv /\ ~RunsOverlap

-----------------------------------------------------------------------------
(* Only a harmful step loses a file: from a state in which IInv holds, any *)
(* other step of the pipeline, its failures and crashes leads to one in    *)
(* which it holds again and every uploaded file can be restored.           *)
OnlyHarmLoses == [][IInv /\ ~Harmful => IInv' /\ Recoverable']_vars

(* In the stable configurations no harmful step is ever taken.             *)
NeverHarmful == [][~Harmful]_vars
===============================================================================
