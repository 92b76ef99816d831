------------------------------ MODULE MCWorkers -------------------------------
(* The components around the background works of a stable root, checked one  *)
(* after the other in one run: they share no variable, and part says which   *)
(* of them runs.                                                             *)
EXTENDS CompactWorker, OpClock, LockOrder, WorkOwnership, Promotion,
        Demotion, CompactMerge, TLC

VARIABLE part  \* the component that runs

(* CPUs and callers are interchangeable.                                   *)
Symmetry == Permutations(Cpu) \cup Permutations(Caller)

(* Which operations run together.  Promotions and renames do not: together *)
(* they deadlock, see MixedSets.                                           *)
SafeSets == {Kinds \ {"promote"}, Kinds \ {"rename"}}

(* Cut a behaviour where a directory was captured twice, a changed delta   *)
(* passed for the captured one, or a demotion stranded a branch.  Names     *)
(* hash in their own order, which loses nothing.                           *)
Sound == /\ CapturedOnce /\ Unharmed
         /\ \A m, n \in Names : m < n => hash[m] <= hash[n]

Init ==
  /\ part \in {"worker", "clock", "locks", "works", "promote", "demote",
               "merge"}
  /\ \/ part = "worker"
     \/ /\ part # "worker"
        /\ level = 0
  /\ WorkerInit
  /\ \/ part = "clock"
     \/ /\ part # "clock"
        /\ precise = FALSE
  /\ ClockInit
  /\ \/ part = "locks"
     \/ /\ part # "locks"
        /\ kinds = Kinds \ {"promote"}
  /\ LockInit
  /\ \/ part = "works"
     \/ /\ part # "works"
        /\ cached = FALSE
  /\ OwnInit
  /\ PromotionInit
  /\ DemotionInit
  /\ \/ part = "merge"
     \/ /\ part # "merge"
        /\ hash = [n \in Names |-> 0]
        /\ old = [s \in {} |-> 0]
        /\ captured = [s \in {} |-> 0]
  /\ MergeInit

Next ==
  \/ /\ part = "worker"
     /\ WorkerNext
     /\ UNCHANGED <<part, clockVars, lockVars, ownVars, proVars, demVars,
                    mergeVars>>
  \/ /\ part = "clock"
     /\ ClockNext
     /\ UNCHANGED <<part, workerVars, lockVars, ownVars, proVars, demVars,
                    mergeVars>>
  \/ /\ part = "locks"
     /\ LockNext
     /\ UNCHANGED <<part, workerVars, clockVars, ownVars, proVars, demVars,
                    mergeVars>>
  \/ /\ part = "works"
     /\ OwnNext
     /\ UNCHANGED <<part, workerVars, clockVars, lockVars, proVars, demVars,
                    mergeVars>>
  \/ /\ part = "promote"
     /\ PromotionNext
     /\ UNCHANGED <<part, workerVars, clockVars, lockVars, ownVars, demVars,
                    mergeVars>>
  \/ /\ part = "demote"
     /\ DemotionNext
     /\ UNCHANGED <<part, workerVars, clockVars, lockVars, ownVars, proVars,
                    mergeVars>>
  \/ /\ part = "merge"
     /\ MergeNext
     /\ UNCHANGED <<part, workerVars, clockVars, lockVars, ownVars, proVars,
                    demVars>>

Spec == Init /\ [][Next]_<<part, workerVars, clockVars, lockVars, ownVars, proVars,
                         demVars, mergeVars>>

(* Every variable of the component that runs keeps its type.               *)
WorkersTypeOK ==
  CASE part = "worker" -> WorkerTypeOK
    [] part = "clock" -> ClockTypeOK
    [] part = "locks" -> LockTypeOK
    [] part = "works" -> OwnTypeOK
    [] part = "promote" -> PromotionTypeOK
    [] part = "demote" -> DemotionTypeOK
    [] part = "merge" -> MergeTypeOK
===============================================================================
