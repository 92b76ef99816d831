------------------------------ MODULE InodePool ------------------------------
(***************************************************************************)
(* The run of inodes a stable root reserves for the files created below    *)
(* it.  The cursor into the run lives in memory and moves at every         *)
(* creation; it reaches the descriptor only when the pool is reserved and  *)
(* when a compaction cuts a generation.  When the root's inode was evicted *)
(* or the machine stopped, it is recovered from the descriptor and the     *)
(* INSERT records that survived.                                           *)
(***************************************************************************)
EXTENDS Naturals, FiniteSets, FiniteSetsExt

CONSTANTS MaxInode,  \* inodes are 1..MaxInode
          PoolCount, \* size of a reservation
          MaxOps     \* bound: creations, removals and reservations

ASSUME PoolAssumption ==
  MaxInode \in Nat /\ PoolCount \in 1..MaxInode /\ MaxOps \in Nat

VARIABLES
  pool,     \* i_li_pool_*: [start, count, used]
  loaded,   \* a blob is installed
  parses,   \* the pools that parses under way have read
  reserve,  \* the reservation under way: [pc, start]
  dir,      \* what the root holds on disk: [base, inserts, desc, inUse];
            \* history, atGoal: inodes it got from the pool's cursor
  durable,  \* dir as the last journal commit left it
  goal,     \* a creation between taking its goal and its record; 0 if none
  rewound,  \* history: a reservation has reset a cursor that had moved
  poolOps   \* bound

poolVars == <<pool, loaded, parses, reserve, dir, durable, goal, rewound,
              poolOps>>

PoolInodes == 1..MaxInode
NoPool == [start |-> 0, count |-> 0, used |-> 0]
PoolState == [start : 0..MaxInode, count : {0, PoolCount}, used : 0..PoolCount]
NoReserve == [pc |-> "idle", start |-> 0]
InPool(i, p) == i >= p.start /\ i < p.start + p.count
Live == dir.base \cup dir.inserts

PoolInit ==
  /\ pool = NoPool
  /\ loaded = FALSE
  /\ parses = {}
  /\ reserve = NoReserve
  /\ \E used \in SUBSET ({1, 2} \cap PoolInodes) :  \* of other directories
       dir = [base |-> {}, inserts |-> {}, desc |-> NoPool, inUse |-> used,
              atGoal |-> {}]
  /\ durable = dir
  /\ goal = 0
  /\ rewound = FALSE
  /\ poolOps = 0

-----------------------------------------------------------------------------
(* ext5_stable_parse_blob: the descriptor's cursor, moved past every       *)
(* INSERT of the pool.                                                     *)
Recovered ==
  LET p == dir.desc
      past == {i - p.start + 1 : i \in {j \in dir.inserts : InPool(j, p)}}
  IN  IF p.count > 0 /\ p.used < p.count
      THEN [p EXCEPT !.used = Max(past \cup {p.used})] ELSE p

(* ext5_stable_ensure_blob parses without a lock ...                       *)
ParseBlob ==
  /\ ~loaded
  /\ parses' = parses \cup {Recovered}
  /\ UNCHANGED <<pool, loaded, reserve, dir, durable, goal, rewound, poolOps>>

(* Mutant: an install always takes the pool from the descriptor.           *)
EnsureRewinds(p) ==
  /\ p \in parses
  /\ parses' \in {parses, parses \ {p}}
  /\ loaded' = TRUE
  /\ pool' = IF loaded THEN pool ELSE p
  /\ UNCHANGED <<reserve, dir, durable, goal, rewound, poolOps>>

(* ... and installs under i_li_lock: the first parse wins, and a pool that *)
(* is live in memory stays.  Other parses may have read the same.          *)
EnsurePool(p) ==
  /\ p \in parses
  /\ parses' \in {parses, parses \ {p}}
  /\ loaded' = TRUE
  /\ \/ ~loaded /\ pool.count = 0 /\ pool' = p
     \/ (loaded \/ pool.count > 0) /\ UNCHANGED pool
  /\ UNCHANGED <<reserve, dir, durable, goal, rewound, poolOps>>

(* The shrinker drops the blob alone.                                      *)
ShrinkBlob ==
  /\ loaded
  /\ loaded' = FALSE
  /\ UNCHANGED <<pool, parses, reserve, dir, durable, goal, rewound, poolOps>>

(* The root's inode is evicted: nothing that is in progress holds it.      *)
EvictRoot ==
  /\ goal = 0
  /\ parses = {}
  /\ reserve.pc = "idle"
  /\ loaded' = FALSE
  /\ pool' = NoPool
  /\ UNCHANGED <<parses, reserve, dir, durable, goal, rewound, poolOps>>

CountPoolOp == poolOps < MaxOps /\ poolOps' = poolOps + 1

(* ext5_stable_find_free_run: the first run of free inodes.                *)
FreeRuns == {s \in PoolInodes : /\ s + PoolCount - 1 <= MaxInode
                                /\ s..(s + PoolCount - 1) \cap dir.inUse = {}}

Reserved == [start |-> reserve.start, count |-> PoolCount, used |-> 0]

(* ext5_stable_reserve_inode_pool holds li_transition_lock and the root's  *)
(* i_rwsem: no demotion and no publication meanwhile, but creations in     *)
(* interiors.  Under i_li_lock it looks for a pool and for a run, which it *)
(* does not mark in use ...                                                *)
ReserveChecks ==
  /\ loaded
  /\ reserve.pc = "idle"
  /\ pool.count = 0
  /\ FreeRuns # {}
  /\ CountPoolOp
  /\ reserve' = [pc |-> "persist", start |-> Min(FreeRuns)]
  /\ UNCHANGED <<pool, loaded, parses, dir, durable, goal, rewound>>

(* ... gives the lock up, writes the descriptor or fails ...               *)
PersistPool ==
  /\ reserve.pc = "persist"
  /\ dir' = [dir EXCEPT !.desc = Reserved]
  /\ reserve' = [reserve EXCEPT !.pc = "set"]
  /\ UNCHANGED <<pool, loaded, parses, durable, goal, rewound, poolOps>>

PersistFails ==
  /\ reserve.pc = "persist"
  /\ reserve' = NoReserve
  /\ UNCHANGED <<pool, loaded, parses, dir, durable, goal, rewound, poolOps>>

(* ... and sets the pool in memory, whatever it is by then.                *)
SetPool ==
  /\ reserve.pc = "set"
  /\ pool' = Reserved
  /\ reserve' = NoReserve
  /\ rewound' = (rewound \/ pool.used > 0)
  /\ UNCHANGED <<loaded, parses, dir, durable, goal, poolOps>>

-----------------------------------------------------------------------------
(* ext5_stable_pool_take_goal moves the cursor before the inode exists.    *)
TakeGoal ==
  /\ goal = 0
  /\ pool.count > 0 /\ pool.used < pool.count
  /\ CountPoolOp
  /\ goal' = pool.start + pool.used
  /\ pool' = [pool EXCEPT !.used = @ + 1]
  /\ UNCHANGED <<loaded, parses, reserve, dir, durable, rewound>>

(* __ext5_new_inode takes the first free inode from the goal on: the       *)
(* bitmap is authoritative; then the INSERT is appended, or the creation   *)
(* fails.                                                                  *)
CreateAtGoal ==
  /\ goal > 0
  /\ loaded
  /\ LET free == {i \in goal..MaxInode : i \notin dir.inUse}
     IN  /\ free # {}
         /\ dir' = [dir EXCEPT !.inserts = @ \cup {Min(free)},
                               !.inUse = @ \cup {Min(free)},
                               !.atGoal = @ \cup ({goal} \cap {Min(free)})]
  /\ goal' = 0
  /\ UNCHANGED <<pool, loaded, parses, reserve, durable, rewound, poolOps>>

CreateFails ==
  /\ goal > 0
  /\ goal' = 0
  /\ UNCHANGED <<pool, loaded, parses, reserve, dir, durable, rewound,
                 poolOps>>

(* An unlink, and the inode's eviction, free the inode; it may be used     *)
(* outside the root later.                                                 *)
UnlinkPooled(i) ==
  /\ i \in Live
  /\ loaded
  /\ dir' = [dir EXCEPT !.base = @ \ {i}, !.inserts = @ \ {i},
                        !.inUse = @ \ {i}, !.atGoal = @ \ {i}]
  /\ UNCHANGED <<pool, loaded, parses, reserve, durable, goal, rewound,
                 poolOps>>

AllocateElsewhere(i) ==
  /\ i \notin dir.inUse
  /\ CountPoolOp
  /\ dir' = [dir EXCEPT !.inUse = @ \cup {i}]
  /\ UNCHANGED <<pool, loaded, parses, reserve, durable, goal, rewound>>

(* Mutant: the cut leaves the cursor as it was read at the last mount.     *)
CutKeepsCursor ==
  /\ loaded
  /\ reserve.pc = "idle"
  /\ dir' = [dir EXCEPT !.base = Live, !.inserts = {}]
  /\ UNCHANGED <<pool, loaded, parses, reserve, durable, goal, rewound,
                 poolOps>>

(* __ext5_compact_subtree stores the cursor with the new generation.       *)
CutGeneration ==
  /\ loaded
  /\ reserve.pc = "idle"
  /\ dir' = [dir EXCEPT !.base = Live, !.inserts = {}, !.desc = pool]
  /\ UNCHANGED <<pool, loaded, parses, reserve, durable, goal, rewound,
                 poolOps>>

(* demote_publish_root_shadow gives the pool up.                           *)
DemotePool ==
  /\ loaded
  /\ goal = 0
  /\ reserve.pc = "idle"
  /\ pool' = NoPool
  /\ dir' = [dir EXCEPT !.base = {}, !.inserts = {}, !.desc = NoPool,
                        !.atGoal = {}]
  /\ UNCHANGED <<loaded, parses, reserve, durable, goal, rewound, poolOps>>

(* Everything above is journaled metadata; a commit makes it durable, and  *)
(* a crash returns to the last one.                                        *)
PoolCommit ==
  /\ durable' = dir
  /\ UNCHANGED <<pool, loaded, parses, reserve, dir, goal, rewound, poolOps>>

PoolCrash ==
  /\ pool' = NoPool
  /\ loaded' = FALSE
  /\ parses' = {}
  /\ reserve' = NoReserve
  /\ dir' = durable
  /\ goal' = 0
  /\ UNCHANGED <<durable, rewound, poolOps>>

PoolNext ==
  \/ ParseBlob
  \/ \E p \in PoolState : EnsurePool(p)
  \/ ShrinkBlob \/ EvictRoot
  \/ ReserveChecks \/ PersistPool \/ PersistFails \/ SetPool
  \/ TakeGoal \/ CreateAtGoal \/ CreateFails
  \/ \E i \in PoolInodes : UnlinkPooled(i) \/ AllocateElsewhere(i)
  \/ CutGeneration \/ DemotePool \/ PoolCommit \/ PoolCrash

PoolSpec == PoolInit /\ [][PoolNext]_poolVars

-----------------------------------------------------------------------------
DirState == [base : SUBSET PoolInodes, inserts : SUBSET PoolInodes,
             desc : PoolState, inUse : SUBSET PoolInodes,
             atGoal : SUBSET PoolInodes]

(* The types of the variables.                                             *)
PoolTypeOK ==
  /\ pool \in PoolState
  /\ loaded \in BOOLEAN
  /\ parses \subseteq PoolState
  /\ reserve \in [pc : {"idle", "persist", "set"}, start : 0..MaxInode]
  /\ dir \in DirState
  /\ durable \in DirState
  /\ goal \in 0..MaxInode
  /\ rewound \in BOOLEAN
  /\ poolOps \in 0..MaxOps

(* The next goal lies beyond every inode that the same pool has given to a *)
(* name that still exists: "a later reparse must not overwrite a           *)
(* reservation or rewind its cursor" (ext5_stable_ensure_blob).            *)
CursorCovers ==
  \A i \in dir.atGoal : InPool(i, pool) => i < pool.start + pool.used

(* So it is as long as no reservation has found a cursor that a reparse of *)
(* the persisted pool had set going: neither a reparse, nor an eviction,   *)
(* nor a crash brings the cursor back over an inode in use.                *)
CursorCoversPool == ~rewound => CursorCovers
=============================================================================
