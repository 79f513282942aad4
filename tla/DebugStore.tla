------------------------------ MODULE DebugStore ------------------------------
(***************************************************************************)
(* What the server promises about the debug files uploaded to it, whatever *)
(* the deduplication does to them on disk: a file that was uploaded stays  *)
(* held for ever, and a held file that a request cannot reach for a moment *)
(* becomes reachable again without anybody uploading it a second time.     *)
(***************************************************************************)

CONSTANT Files          \* paths of .debug files under the scan roots

VARIABLES held,         \* the files whose content the server still has
          reachable     \* the files a restore request is answered for

storeVars == <<held, reachable>>

StoreInit == held = {} /\ reachable = {}

Put(f) == /\ f \notin held
          /\ held' = held \cup {f}
          /\ reachable' = reachable \cup {f}

Withdraw(f) == /\ f \in reachable
               /\ reachable' = reachable \ {f}
               /\ UNCHANGED held

Reveal(f) == /\ f \in held \ reachable
             /\ reachable' = reachable \cup {f}
             /\ UNCHANGED held

StoreNext == \E f \in Files : Put(f) \/ Withdraw(f) \/ Reveal(f)

StoreSafety == StoreInit /\ [][StoreNext]_storeVars

StoreSpec == StoreSafety /\ \A f \in Files : WF_storeVars(Reveal(f))
===============================================================================
