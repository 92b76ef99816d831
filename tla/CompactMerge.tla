----------------------------- MODULE CompactMerge -----------------------------
(* How a compaction turns the base and the captured delta into the next    *)
(* base: collect what the delta leaves of the base, append what it inserts,*)
(* merge the two sorted runs, and drop the directories a branch demotion   *)
(* left unreachable (compact_collect_slots and what follows it).  Each     *)
(* turn of one of its loops is a step.                                     *)
(*                                                                         *)
(* An entry is a name in a directory; its value is the plid of an interior *)
(* directory, Leaf for anything else in the base, Other for anything else  *)
(* the delta inserted.                                                     *)
EXTENDS Integers, Sequences, FiniteSets, Functions

CONSTANTS
  Names,        \* a set of numbers, in the order of memcmp
  MergeParents, \* parent_count: plids are 0..MergeParents - 1
  MergeHashes,  \* hash32 values, a set of numbers
  Ties          \* tiebreak64 values, a set of numbers

ASSUME MergeAssumption ==
  /\ Names \subseteq Nat /\ IsFiniteSet(Names)
  /\ MergeParents \in Nat \ {0}
  /\ MergeHashes \subseteq Nat /\ Ties \subseteq Nat

MergePlid == 0..MergeParents - 1
Slot == MergePlid \X Names
Leaf == 0
Other == -1
Deleted == -2
Value == {Leaf, Other} \cup (MergePlid \ {0})

VARIABLES
  hash, tie,      \* the two hashes of every name
  old,            \* the values of the slots of the base
  captured,       \* the captured delta: what it says of the slots it holds
  mergePhase,     \* the loop the compaction is in
  oldBase,        \* the slots of the base, in order, it has not read yet
  runs,           \* the two sorted runs, of pairs of a slot and its value
  merged,         \* the merged run
  slots,          \* the next base
  toVisit, live   \* compact_drop_dead_plids: plids to visit, plids found

mergeVars == <<hash, tie, old, captured, mergePhase, oldBase, runs, merged,
               slots, toVisit, live>>

-----------------------------------------------------------------------------
(* compact_slot_prefix_le: by plid and hash32, then by tiebreak64.         *)
PrefixLess(s, u) ==
  \/ s[1] < u[1]
  \/ s[1] = u[1] /\ hash[s[2]] < hash[u[2]]
  \/ s[1] = u[1] /\ hash[s[2]] = hash[u[2]] /\ tie[s[2]] < tie[u[2]]
PrefixLe(s, u) == ~PrefixLess(u, s)

(* delta_entry_cmp: by prefix, then by name.                               *)
TreeLess(s, u) == PrefixLess(s, u) \/ (PrefixLe(s, u) /\ s[2] < u[2])

(* What base and delta say together, and the plids reached from the root.  *)
Said(s) == IF s \in DOMAIN captured THEN captured[s] ELSE old[s]
Shown == {s \in (DOMAIN old \cup DOMAIN captured) : Said(s) # Deleted}
LeadsWithin(P) ==
  \A s \in Shown : s[1] \in P /\ Said(s) > 0 => Said(s) \in P
Reached ==
  {p \in MergePlid : \A P \in SUBSET MergePlid : 0 \in P /\ LeadsWithin(P) => p \in P}

(* The slots of a base are sorted by prefix; names of one prefix are in    *)
(* the order in which they came to it.                                     *)
BaseOrders(S) ==
  {q \in [1..Cardinality(S) -> S] :
     /\ Range(q) = S
     /\ \A j, k \in DOMAIN q : j < k => PrefixLe(q[j], q[k])}

(* A directory has at most one entry, and none below itself.  A delta      *)
(* holds a DELETE only for a slot of the base.                             *)
MergeInit ==
  /\ hash \in [Names -> MergeHashes] /\ tie \in [Names -> Ties]
  /\ \E used \in SUBSET Slot, noted \in SUBSET Slot :
       /\ old \in [used -> Value \ {Other}]
       /\ captured \in [noted -> (Value \ {Leaf}) \cup {Deleted}]
       /\ \A s \in noted \ used : captured[s] # Deleted
       /\ oldBase \in BaseOrders(used)
  /\ \A s, u \in Shown : s # u /\ Said(s) > 0 => Said(s) # Said(u)
  /\ \A s, u \in DOMAIN old : s # u /\ old[s] > 0 => old[s] # old[u]
  /\ mergePhase = "base" /\ runs = <<<<>>, <<>>>>
  /\ merged = <<>> /\ slots = <<>>
  /\ toVisit = {0} /\ live = {0}

-----------------------------------------------------------------------------
(* Mutant: an insert of the delta does not replace the slot of the base.   *)
KeptOld(s) == IF s \in DOMAIN captured /\ captured[s] = Deleted THEN Deleted ELSE old[s]

(* What the delta leaves of a slot of the base.                            *)
Kept(s) == IF s \in DOMAIN captured THEN captured[s] ELSE old[s]

UnchangedByCollect ==
  UNCHANGED <<hash, tie, old, captured, merged, slots, toVisit, live>>

(* compact_collect_slots: the base without its tombstones ...              *)
CollectBase ==
  /\ mergePhase = "base" /\ oldBase # <<>>
  /\ oldBase' = Tail(oldBase)
  /\ LET s == Head(oldBase) IN
       runs' = IF Kept(s) = Deleted THEN runs
               ELSE [runs EXCEPT ![1] = Append(@, <<s, Kept(s)>>)]
  /\ UNCHANGED mergePhase
  /\ UnchangedByCollect

BaseDone ==
  /\ mergePhase = "base" /\ oldBase = <<>>
  /\ mergePhase' = "inserts"
  /\ UNCHANGED <<oldBase, runs>>
  /\ UnchangedByCollect

(* ... then what is inserted and not in the base (ext5_stable_base_has).   *)
Inserts ==
  {s \in DOMAIN captured : captured[s] # Deleted /\ s \notin DOMAIN old}
ToInsert == {s \in Inserts : \A k \in DOMAIN runs[2] : runs[2][k][1] # s}

CollectInsert(s) ==
  /\ mergePhase = "inserts"
  /\ s \in ToInsert /\ \A u \in ToInsert : ~TreeLess(u, s)
  /\ runs' = [runs EXCEPT ![2] = Append(@, <<s, captured[s]>>)]
  /\ UNCHANGED <<mergePhase, oldBase>>
  /\ UnchangedByCollect

InsertsDone ==
  /\ mergePhase = "inserts" /\ ToInsert = {}
  /\ mergePhase' = "merge"
  /\ UNCHANGED <<oldBase, runs>>
  /\ UnchangedByCollect

-----------------------------------------------------------------------------
UnchangedByMerge == UNCHANGED <<hash, tie, old, captured, oldBase, toVisit, live>>

(* compact_merge_sorted_runs: the smaller head, the base's of equal ones.  *)
TakesBase ==
  /\ runs[1] # <<>>
  /\ runs[2] # <<>> => PrefixLe(Head(runs[1])[1], Head(runs[2])[1])

MergeFrom(k) ==
  /\ mergePhase = "merge"
  /\ runs[k] # <<>> /\ (k = 1 <=> TakesBase)
  /\ merged' = Append(merged, Head(runs[k]))
  /\ runs' = [runs EXCEPT ![k] = Tail(@)]
  /\ UNCHANGED <<mergePhase, slots>>
  /\ UnchangedByMerge

(* With one parent there is nothing to prune.                              *)
MergeDone ==
  /\ mergePhase = "merge" /\ runs = <<<<>>, <<>>>>
  /\ IF merged = <<>> \/ MergeParents = 1
     THEN mergePhase' = "done" /\ slots' = merged
     ELSE mergePhase' = "prune" /\ UNCHANGED slots
  /\ UNCHANGED <<runs, merged>>
  /\ UnchangedByMerge

UnchangedByPrune == UNCHANGED <<hash, tie, old, captured, oldBase, runs>>

(* compact_drop_dead_plids refuses slots that are not sorted by plid, then *)
(* follows the directories of one plid after the other ...                 *)
Follow(p) ==
  LET found == {merged[k][2] : k \in {i \in DOMAIN merged : merged[i][1][1] = p}}
               \cap ((MergePlid \ {0}) \ live)
  IN  /\ mergePhase = "prune" /\ p \in toVisit
      /\ \A j, k \in DOMAIN merged : j < k => merged[j][1][1] <= merged[k][1][1]
      /\ live' = live \cup found
      /\ toVisit' = (toVisit \ {p}) \cup found
      /\ UNCHANGED <<mergePhase, merged, slots>>
      /\ UnchangedByPrune

FollowDone ==
  /\ mergePhase = "prune" /\ toVisit = {}
  /\ mergePhase' = "drop"
  /\ UNCHANGED <<merged, slots, toVisit, live>>
  /\ UnchangedByPrune

(* ... and keeps the slots of the plids found.                             *)
Drop ==
  /\ mergePhase = "drop" /\ merged # <<>>
  /\ slots' = IF Head(merged)[1][1] \in live THEN Append(slots, Head(merged))
              ELSE slots
  /\ merged' = Tail(merged)
  /\ UNCHANGED <<mergePhase, toVisit, live>>
  /\ UnchangedByPrune

DropDone ==
  /\ mergePhase = "drop" /\ merged = <<>>
  /\ mergePhase' = "done"
  /\ UNCHANGED <<merged, slots, toVisit, live>>
  /\ UnchangedByPrune

MergeNext ==
  \/ CollectBase \/ BaseDone
  \/ \E s \in Slot : CollectInsert(s)
  \/ InsertsDone
  \/ MergeFrom(1) \/ MergeFrom(2) \/ MergeDone
  \/ \E p \in MergePlid : Follow(p)
  \/ FollowDone \/ Drop \/ DropDone

MergeSpec == MergeInit /\ [][MergeNext]_mergeVars

-----------------------------------------------------------------------------
(* The types of the variables.                                             *)
MergeTypeOK ==
  /\ mergePhase \in {"base", "inserts", "merge", "prune", "drop", "done"}
  /\ \A q \in {runs[1], runs[2], merged, slots} : Range(q) \subseteq Slot \X Value
  /\ Range(oldBase) \subseteq Slot
  /\ live \subseteq MergePlid /\ toVisit \subseteq MergePlid

(* The next base is what base and delta said together of the directories   *)
(* the root still reaches, each name once, in the order the index over it  *)
(* and the search for a slot rely on.                                      *)
MergedIsNamespace ==
  mergePhase = "done" =>
    /\ Range(slots) = {<<s, Said(s)>> : s \in {u \in Shown : u[1] \in Reached}}
    /\ \A j, k \in DOMAIN slots :
         j < k => slots[j][1] # slots[k][1] /\ PrefixLe(slots[j][1], slots[k][1])
===============================================================================
