---------------------------- MODULE RestoreProofs ----------------------------
(***************************************************************************)
(* Proofs about RestoreCache: a copy in the cache has one writer, which is *)
(* why a request can serve it by its path.                                 *)
(***************************************************************************)
EXTENDS RestoreCache, TLAPS

Writing == {"writing", "hash", "drop"}

(* A request that decodes is the only one that does so for its file, and   *)
(* the copy is what its progress says.                                     *)
WriterInv ==
  /\ \A q \in Requests :
       /\ req[q].pc = "writing" => copy[File(q)] = "part"
       /\ req[q].pc = "hash" => copy[File(q)] \in {"recorded", "other"}
       /\ req[q].pc = "drop" => copy[File(q)] = "other"
  /\ \A q, p \in Requests :
       req[q].pc \in Writing /\ req[p].pc \in Writing /\ File(q) = File(p) => q = p

(* A path that was handed out for a delta has the recorded bytes.          *)
ServedInv ==
  /\ \A q \in Requests :
       /\ req[q].pc = "open" /\ req[q].from = "delta" => copy[File(q)] = "recorded"
       /\ req[q].pc = "stat" => req[q].from = "full"
  /\ BodyIntact

CacheInv == WriterInv /\ ServedInv

(* The step of one request to another stage.                               *)
Moved(q, pc) ==
  /\ \A p \in Requests :
       /\ req'[p].pc = IF p = q THEN pc ELSE req[p].pc
       /\ req'[p].file = req[p].file
       /\ req'[p].from = req[p].from
       /\ req'[p].body = req[p].body

(* Advance moves one request and leaves the others alone.                  *)
LEMMA AdvanceEffect ==
  ASSUME TypeOK, NEW q \in Requests, NEW pc, Advance(q, pc)
  PROVE  Moved(q, pc)
<1>1. ASSUME NEW p \in Requests
      PROVE  req'[p] = IF p = q THEN [req[q] EXCEPT !.pc = pc] ELSE req[p]
  BY DEF Advance, TypeOK
<1>2. ASSUME NEW p \in Requests PROVE req[p] \in RequestType
  BY DEF TypeOK
<1>3. QED
  BY <1>1, <1>2 DEF Moved, RequestType

(* The types and the invariant hold at the start.                          *)
LEMMA CacheInit == CacheAssumption /\ Init => TypeOK /\ CacheInv
BY DEF CacheAssumption, Init, TypeOK, RequestType, Contents, IdleRequest, CacheInv,
       WriterInv, ServedInv, Writing, BodyIntact, File

(* Advancing a request keeps its type.                                     *)
LEMMA AdvanceType ==
  ASSUME TypeOK, NEW q \in Requests,
         NEW pc \in {"stat", "look", "decode", "writing", "hash", "drop", "open", "failed"},
         req[q].pc # "idle", Advance(q, pc)
  PROVE  /\ req' \in [Requests -> RequestType]
         /\ \A p \in Requests : req'[p].pc # "idle" => req'[p].file \in Files
<1>1. [req[q] EXCEPT !.pc = pc] \in RequestType
  BY DEF TypeOK, RequestType
<1>2. req' \in [Requests -> RequestType]
  BY <1>1 DEF Advance, TypeOK
<1>3. QED
  BY <1>2, AdvanceEffect DEF Moved, TypeOK, File

(* Requests stay in their type when they read a row and when they serve.   *)
LEMMA RequestTypes ==
  ASSUME NEW x \in RequestType
  PROVE  /\ \A k \in {"full", "delta"}, pc \in {"look", "stat"} :
              [x EXCEPT !.from = k, !.pc = pc] \in RequestType
         /\ \A pc \in {"answered", "failed"}, b \in Contents \cup {"original"} :
              [x EXCEPT !.pc = pc, !.body = b] \in RequestType
BY DEF RequestType

(* Every step keeps the types.                                             *)
LEMMA CacheTypeStep ==
  ASSUME CacheAssumption, TypeOK, [Next]_vars
  PROVE  TypeOK'
<1>1. ASSUME NEW q \in Requests, NEW f \in Files, Request(q, f) PROVE TypeOK'
  BY <1>1 DEF Request, TypeOK, RequestType, Contents, IdleRequest, File
<1>2. ASSUME NEW q \in Requests, ReadRow(q) PROVE TypeOK'
  <2>1. File(q) \in Files /\ kind[File(q)] \in {"full", "delta"}
    BY <1>2 DEF ReadRow, TypeOK
  <2>2. PICK pc \in {"look", "stat"} :
          req' = [req EXCEPT ![q] = [@ EXCEPT !.from = kind[File(q)], !.pc = pc]]
    BY <1>2 DEF ReadRow
  <2>3. [req[q] EXCEPT !.from = kind[File(q)], !.pc = pc] \in RequestType
    BY <2>1, RequestTypes DEF TypeOK
  <2>4. req' \in [Requests -> RequestType]
    BY <2>2, <2>3 DEF TypeOK
  <2>5. \A p \in Requests : req'[p].pc # "idle" => File(p)' \in Files
    BY <1>2, <2>1, <2>2 DEF TypeOK, RequestType, File
  <2>6. QED
    BY <1>2, <2>4, <2>5 DEF ReadRow, TypeOK
<1>3. ASSUME NEW q \in Requests, StatOriginal(q) PROVE TypeOK'
  BY <1>3, AdvanceType DEF StatOriginal, TypeOK, File
<1>4. ASSUME NEW q \in Requests, Restore(q) PROVE TypeOK'
  <2>1. CASE LookUp(q)
    BY <2>1, AdvanceType DEF LookUp, TypeOK, File
  <2>2. CASE StartDecode(q)
    BY <2>2, AdvanceType DEF StartDecode, TypeOK, File, Contents
  <2>3. CASE DecodeRefused(q)
    BY <2>3, AdvanceType DEF DecodeRefused, Fault, TypeOK, File
  <2>4. CASE FinishDecode(q)
    BY <2>4, AdvanceType DEF FinishDecode, TypeOK, File, Contents
  <2>5. CASE DecodeBreaks(q)
    BY <2>5, AdvanceType DEF DecodeBreaks, Fault, TypeOK, File
  <2>6. CASE CheckHash(q)
    BY <2>6, AdvanceType DEF CheckHash, TypeOK, File
  <2>7. CASE DropCopy(q)
    BY <2>7, AdvanceType DEF DropCopy, TypeOK, File, Contents
  <2>8. QED
    BY <1>4, <2>1, <2>2, <2>3, <2>4, <2>5, <2>6, <2>7 DEF Restore
<1>5. ASSUME NEW q \in Requests, Serve(q) PROVE TypeOK'
  <2>1. File(q) \in Files /\ copy[File(q)] \in Contents
    BY <1>5 DEF Serve, TypeOK
  <2>2. PICK pc \in {"answered", "failed"}, body \in Contents \cup {"original"} :
          req' = [req EXCEPT ![q] = [@ EXCEPT !.pc = pc, !.body = body]]
    BY <1>5, <2>1 DEF Serve, Contents
  <2>3. [req[q] EXCEPT !.pc = pc, !.body = body] \in RequestType
    BY RequestTypes DEF TypeOK
  <2>4. req' \in [Requests -> RequestType]
    BY <2>2, <2>3 DEF TypeOK
  <2>5. \A p \in Requests : req'[p].pc # "idle" => File(p)' \in Files
    BY <1>5, <2>1, <2>2 DEF TypeOK, RequestType, File
  <2>6. QED
    BY <1>5, <2>4, <2>5 DEF Serve, TypeOK
<1>6. ASSUME NEW f \in Files, RemoveOriginal(f) \/ RecordDelta(f) \/ ChangeBase(f)
      PROVE  TypeOK'
  BY <1>6 DEF RemoveOriginal, RecordDelta, ChangeBase, TypeOK, File
<1>7. ASSUME Crash PROVE TypeOK'
  BY <1>7 DEF Crash, Fault, IdleRequest, TypeOK, RequestType, Contents, File
<1>8. ASSUME UNCHANGED vars PROVE TypeOK'
  BY <1>8 DEF vars, TypeOK, File
<1>9. QED
  BY <1>1, <1>2, <1>3, <1>4, <1>5, <1>6, <1>7, <1>8 DEF Next, Answer

(* A step of restoreDelta: the copy of a file is only written by the one   *)
(* request that decodes it.                                                *)
LEMMA RestoreKeeps ==
  ASSUME TypeOK, CacheInv, NEW q \in Requests, Restore(q)
  PROVE  CacheInv'
<1> USE DEF CacheInv, WriterInv, ServedInv, BodyIntact, Writing, File, Moved
<1>1. CASE LookUp(q) \/ DecodeRefused(q) \/ DecodeBreaks(q) \/ CheckHash(q)
  <2>1. PICK pc \in {"failed", "open", "decode", "drop"} :
          /\ Advance(q, pc) /\ UNCHANGED copy
          /\ pc = "open" => copy[req[q].file] = "recorded"
          /\ pc = "drop" => req[q].pc = "hash" /\ copy[req[q].file] = "other"
    BY <1>1 DEF LookUp, Usable, DecodeRefused, DecodeBreaks, CheckHash
  <2>2. Moved(q, pc)
    BY <2>1, AdvanceEffect
  <2>3. QED
    BY <2>1, <2>2
<1>2. CASE StartDecode(q) \/ FinishDecode(q) \/ DropCopy(q)
  <2>1. PICK pc \in {"writing", "hash", "failed"} :
          /\ Advance(q, pc)
          /\ pc = "writing" => copy[req[q].file] = "none" /\ copy'[req[q].file] = "part"
          /\ pc # "writing" => req[q].pc \in Writing /\ copy[req[q].file] # "recorded"
          /\ pc = "hash" => copy'[req[q].file] \in {"recorded", "other"}
          /\ \A p \in Requests : req[p].pc # "idle" /\ req[p].file # req[q].file
                => copy'[req[p].file] = copy[req[p].file]
    BY <1>2 DEF StartDecode, FinishDecode, DropCopy, CanWrite, TypeOK
  <2>2. Moved(q, pc)
    BY <2>1, AdvanceEffect
  <2>3. QED
    BY <2>1, <2>2
<1>3. QED
  BY <1>1, <1>2 DEF Restore

(* Every step keeps the invariant.                                         *)
LEMMA CacheStep ==
  ASSUME TypeOK, CacheInv, [Next]_vars
  PROVE  CacheInv'
<1> USE DEF CacheInv, WriterInv, ServedInv, BodyIntact, Writing, File
<1>1. ASSUME NEW q \in Requests, NEW f \in Files, Request(q, f) PROVE CacheInv'
  BY <1>1 DEF Request, IdleRequest, TypeOK, RequestType
<1>2. ASSUME NEW q \in Requests, ReadRow(q) PROVE CacheInv'
  BY <1>2 DEF ReadRow, TypeOK, RequestType
<1>3. ASSUME NEW q \in Requests, StatOriginal(q) PROVE CacheInv'
  <2>1. PICK pc \in {"open", "failed"} : Advance(q, pc)
    BY <1>3 DEF StatOriginal
  <2>2. Moved(q, pc) /\ req[q].from = "full" /\ UNCHANGED copy
    BY <1>3, <2>1, AdvanceEffect DEF StatOriginal
  <2>3. QED
    BY <2>1, <2>2 DEF Moved
<1>4. ASSUME NEW q \in Requests, Restore(q) PROVE CacheInv'
  BY <1>4, RestoreKeeps
<1>5. ASSUME NEW q \in Requests, Serve(q) PROVE CacheInv'
  BY <1>5 DEF Serve, TypeOK, RequestType
<1>6. ASSUME NEW f \in Files, RemoveOriginal(f) \/ RecordDelta(f) \/ ChangeBase(f)
      PROVE  CacheInv'
  BY <1>6 DEF RemoveOriginal, RecordDelta, ChangeBase
<1>7. ASSUME Crash PROVE CacheInv'
  BY <1>7 DEF Crash, IdleRequest
<1>8. ASSUME UNCHANGED vars PROVE CacheInv'
  BY <1>8 DEF vars
<1>9. QED
  BY <1>1, <1>2, <1>3, <1>4, <1>5, <1>6, <1>7, <1>8 DEF Next, Answer

(* Every variable stays in its type, and a request under way has a file.   *)
THEOREM CacheTypes ==
  ASSUME CacheAssumption
  PROVE  Spec => []TypeOK
<1>1. Init => TypeOK
  BY CacheInit
<1>2. TypeOK /\ [Next]_vars => TypeOK'
  BY CacheTypeStep
<1>3. QED
  BY <1>1, <1>2, PTL DEF Spec

(* However requests, runs of the pipeline, failures of the decoder and     *)
(* restarts interleave, a request is answered with intact bytes.           *)
THEOREM AnswersIntact ==
  ASSUME CacheAssumption
  PROVE  Spec => []BodyIntact
<1>1. Init => TypeOK /\ CacheInv
  BY CacheInit
<1>2. TypeOK /\ CacheInv /\ [Next]_vars => (TypeOK /\ CacheInv)'
  BY CacheTypeStep, CacheStep
<1>3. TypeOK /\ CacheInv => BodyIntact
  BY DEF CacheInv, ServedInv
<1>4. QED
  BY <1>1, <1>2, <1>3, PTL DEF Spec

(* A complete copy is never removed or rewritten.                          *)
THEOREM CopiesStay ==
  ASSUME CacheAssumption
  PROVE  Spec => CopyKept
<1>1. Init => TypeOK /\ CacheInv
  BY CacheInit
<1>2. TypeOK /\ CacheInv /\ [Next]_vars => (TypeOK /\ CacheInv)'
  BY CacheTypeStep, CacheStep
<1> DEFINE Keeps == \A f \in Files : copy[f] = "recorded" => copy'[f] = copy[f]
<1>3. ASSUME TypeOK, CacheInv, [Next]_vars PROVE Keeps
  <2>1. ASSUME NEW q \in Requests, StartDecode(q) \/ FinishDecode(q) \/ DropCopy(q)
        PROVE  Keeps
    <3>1. File(q) \in Files /\ copy[File(q)] # "recorded"
      BY <1>3, <2>1 DEF StartDecode, FinishDecode, DropCopy, CanWrite, TypeOK,
                        CacheInv, WriterInv
    <3>2. QED
      BY <1>3, <2>1, <3>1 DEF StartDecode, FinishDecode, DropCopy, TypeOK
  <2>2. CASE UNCHANGED copy
    BY <2>2
  <2>3. QED
    BY <1>3, <2>1, <2>2 DEF Next, Answer, Restore, Request, ReadRow, StatOriginal, LookUp,
       DecodeRefused, DecodeBreaks, CheckHash, Serve, RemoveOriginal, RecordDelta,
       ChangeBase, Crash, vars
<1>4. TypeOK /\ CacheInv /\ [Next]_vars => [Keeps]_vars
  BY <1>3
<1>5. QED
  BY <1>1, <1>2, <1>4, PTL DEF Spec, CopyKept
===============================================================================
