------------------------------ MODULE MCStorage -------------------------------
(* The components between a directory and the disk, checked one after the  *)
(* other in one run: they share no variable, and part says which of them   *)
(* runs.                                                                   *)
EXTENDS Journal, FastCommit, Orphan, XattrBlock, Mmp, Buddy, BlockAlloc,
        ExtentTree, TLC

VARIABLE part  \* the component that runs

CONSTANTS f1, f2

(* The blocks of the two files that are written.                           *)
Sizes == (f1 :> 3) @@ (f2 :> 1)

(* Inodes, tasks, blocks, attributes, nodes, regions and preallocations are*)
(* interchangeable: two of a kind, which are the same two for several kinds. *)
Symmetry ==
  UNION {Permutations(S) : S \in {Inode, Syncer}}

(* Cut a behaviour where a window of FastCommit or a split of ExtentTree   *)
(* has gone wrong or a race of Mmp was lost: their properties hold in the  *)
(* other ones.                                                             *)
Sound == windows = {} /\ races = {} /\ exposed = {}

Init ==
  /\ part \in {"journal", "fast", "orphan", "xattr", "mmp", "buddy",
               "alloc", "extents"}
  /\ JournalInit
  /\ FastInit
  /\ OrphanInit
  /\ XattrInit
  /\ MmpInit
  /\ \/ part = "buddy"
     \/ /\ part # "buddy"
        /\ group = Generated({})
  /\ BuddyInit
  /\ AllocInit
  /\ ExtentInit

Next ==
  \/ /\ part = "journal"
     /\ JournalNext
     /\ UNCHANGED <<part, fcVars, orphanVars, xattrVars, mmpVars, buddyVars,
                    allocVars, extVars>>
  \/ /\ part = "fast"
     /\ FastNext
     /\ UNCHANGED <<part, jnlVars, orphanVars, xattrVars, mmpVars,
                    buddyVars, allocVars, extVars>>
  \/ /\ part = "orphan"
     /\ OrphanNext
     /\ UNCHANGED <<part, jnlVars, fcVars, xattrVars, mmpVars, buddyVars,
                    allocVars, extVars>>
  \/ /\ part = "xattr"
     /\ XattrNext
     /\ UNCHANGED <<part, jnlVars, fcVars, orphanVars, mmpVars, buddyVars,
                    allocVars, extVars>>
  \/ /\ part = "mmp"
     /\ MmpNext
     /\ UNCHANGED <<part, jnlVars, fcVars, orphanVars, xattrVars, buddyVars,
                    allocVars, extVars>>
  \/ /\ part = "buddy"
     /\ BuddyNext
     /\ UNCHANGED <<part, jnlVars, fcVars, orphanVars, xattrVars, mmpVars,
                    allocVars, extVars>>
  \/ /\ part = "alloc"
     /\ AllocNext
     /\ UNCHANGED <<part, jnlVars, fcVars, orphanVars, xattrVars, mmpVars,
                    buddyVars, extVars>>
  \/ /\ part = "extents"
     /\ ExtentNext
     /\ UNCHANGED <<part, jnlVars, fcVars, orphanVars, xattrVars, mmpVars,
                    buddyVars, allocVars>>

Spec == Init /\ [][Next]_<<part, jnlVars, fcVars, orphanVars, xattrVars, mmpVars,
                         buddyVars, allocVars, extVars>>

(* Every variable of the component that runs keeps its type.               *)
StorageTypeOK ==
  CASE part = "journal" -> JournalTypeOK
    [] part = "fast" -> FastTypeOK
    [] part = "orphan" -> OrphanTypeOK
    [] part = "xattr" -> XattrTypeOK
    [] part = "mmp" -> MmpTypeOK
    [] part = "buddy" -> BuddyTypeOK
    [] part = "alloc" -> AllocTypeOK
    [] part = "extents" -> ExtentTypeOK
===============================================================================
