------------------------------ MODULE XattrBlock ------------------------------
(* Extended attribute blocks that several inodes share: the reference count*)
(* in the block, the cache that finds a block with the wanted content, and *)
(* setting, removing and deleting attributes beside each other (xattr.c).  *)
(*                                                                         *)
(* A thread per inode, under its xattr_sem, in a handle; an action is what *)
(* happens under one hold of a buffer lock.                                *)
EXTENDS Naturals, FiniteSets

CONSTANTS
  Owner,   \* inodes
  AttrBlock,   \* disk blocks
  NoAttrBlock, \* i_file_acl = 0
  AttrSet, \* attribute sets
  Empty,   \* no attribute
  MaxRef   \* EXT5_XATTR_REFCOUNT_MAX

ASSUME XattrAssumption ==
  NoAttrBlock \notin AttrBlock /\ Empty \notin AttrSet /\ MaxRef \in Nat \ {0}

VARIABLES
  acl,    \* i_file_acl
  attrs,  \* the attributes the inode should have
  block,  \* per block: h_refcount, 0 when it is free, and its content
  cache,  \* per block: in mb_cache, MBE_REUSABLE_B, and who else holds the entry
  job     \* per inode: its operation

xattrVars == <<acl, attrs, block, cache, job>>

NoEntry == [in |-> FALSE, reusable |-> FALSE, users |-> {}]
NoJob == [pc |-> "none", want |-> Empty, inPlace |-> FALSE, new |-> NoAttrBlock]

XattrInit ==
  /\ acl = [i \in Owner |-> NoAttrBlock] /\ attrs = [i \in Owner |-> Empty]
  /\ block = [b \in AttrBlock |-> [ref |-> 0, content |-> Empty]]
  /\ cache = [b \in AttrBlock |-> NoEntry]
  /\ job = [i \in Owner |-> NoJob]

JobAt(i, pc) == job[i].pc = pc
SetJob(i, new) == job' = [job EXCEPT ![i] = new]
JobGoto(i, pc) == job' = [job EXCEPT ![i].pc = pc]

(* mb_cache_entry_create: nothing when the block has an entry.             *)
Inserted(b, ref) ==
  IF cache[b].in THEN cache
  ELSE [cache EXCEPT ![b] = [in |-> TRUE, reusable |-> ref < MaxRef, users |-> {}]]

-----------------------------------------------------------------------------
(* ext5_xattr_set_handle, for some new set of attributes.                  *)
SetBegin(i, v) ==
  /\ JobAt(i, "none") /\ v # attrs[i]
  /\ SetJob(i, [NoJob EXCEPT !.want = v,
                      !.pc = IF acl[i] = NoAttrBlock THEN "find" ELSE "modify"])
  /\ UNCHANGED <<acl, attrs, block, cache>>

(* Mutant: nobody looks whether the entry of the block is in use.          *)
AlwaysMine(b) == block[b].ref = 1

(* Only this inode refers to the block, and nobody is about to.            *)
Mine(b) == block[b].ref = 1 /\ cache[b].users = {}

(* ext5_xattr_block_set up to "inserted": modify the block in place, its   *)
(* entry deleted first, or work on a copy of it.                           *)
Modify(i) ==
  LET b == acl[i]
  IN  /\ JobAt(i, "modify")
      /\ IF Mine(b)
         THEN /\ cache' = [cache EXCEPT ![b] = NoEntry]
              /\ block' = [block EXCEPT ![b].content = job[i].want]
              /\ SetJob(i, [job[i] EXCEPT !.pc = "find", !.inPlace = TRUE])
         ELSE JobGoto(i, "find") /\ UNCHANGED <<block, cache>>
      /\ UNCHANGED <<acl, attrs>>

(* ext5_xattr_block_cache_find: hold an entry, then compare the block      *)
(* without its lock.  Without a match, or with a match the cache has lost, *)
(* there is no block to share.                                             *)
FindNothing(i) ==
  /\ JobAt(i, "find") /\ job[i].want # Empty
  /\ JobGoto(i, "place") /\ UNCHANGED <<acl, attrs, block, cache>>

FindEntry(i, b) ==
  /\ JobAt(i, "find") /\ job[i].want # Empty
  /\ cache[b].in /\ cache[b].reusable
  /\ cache' = [cache EXCEPT ![b].users = @ \cup {i}]
  /\ SetJob(i, [job[i] EXCEPT !.pc = "compare", !.new = b])
  /\ UNCHANGED <<acl, attrs, block>>

Put(i, b) == [cache EXCEPT ![b].users = @ \ {i}]

Compare(i) ==
  LET b == job[i].new
  IN  /\ JobAt(i, "compare")
      /\ IF block[b].content # job[i].want
         THEN /\ SetJob(i, [job[i] EXCEPT !.pc = "find", !.new = NoAttrBlock])
              /\ cache' = Put(i, b)
         ELSE JobGoto(i, IF b = acl[i] THEN "keep" ELSE "reuse") /\ UNCHANGED cache
      /\ UNCHANGED <<acl, attrs, block>>

Keep(i) ==
  /\ JobAt(i, "keep")
  /\ cache' = Put(i, job[i].new) /\ JobGoto(i, "update")
  /\ UNCHANGED <<acl, attrs, block>>

(* Mutant: the count is not looked at again under the lock.                *)
ReuseUnchecked(i) ==
  LET b == job[i].new
  IN  /\ JobAt(i, "reuse")
      /\ block' = [block EXCEPT ![b].ref = @ + 1]
      /\ cache' = [Put(i, b) EXCEPT ![b].reusable = @ /\ block[b].ref + 1 < MaxRef]
      /\ JobGoto(i, "update")
      /\ UNCHANGED <<acl, attrs>>

(* Under the buffer lock: another reference, unless there are too many by  *)
(* now; then look again.                                                   *)
Reuse(i) ==
  LET b == job[i].new
  IN  /\ JobAt(i, "reuse")
      /\ \/ /\ block[b].ref < MaxRef
            /\ block' = [block EXCEPT ![b].ref = @ + 1]
            /\ cache' = [Put(i, b) EXCEPT ![b].reusable = @ /\ block[b].ref + 1 < MaxRef]
            /\ JobGoto(i, "update")
         \/ /\ block[b].ref >= MaxRef
            /\ cache' = Put(i, b)
            /\ SetJob(i, [job[i] EXCEPT !.pc = "find", !.new = NoAttrBlock])
            /\ UNCHANGED block
      /\ UNCHANGED <<acl, attrs>>

(* Nothing to share: the block modified in place, or a new one.            *)
PlaceSame(i) ==
  /\ JobAt(i, "place") /\ job[i].inPlace
  /\ cache' = Inserted(acl[i], block[acl[i]].ref)
  /\ SetJob(i, [job[i] EXCEPT !.pc = "update", !.new = acl[i]])
  /\ UNCHANGED <<acl, attrs, block>>

PlaceNew(i, b) ==
  /\ JobAt(i, "place") /\ ~job[i].inPlace /\ block[b].ref = 0
  /\ block' = [block EXCEPT ![b] = [ref |-> 1, content |-> job[i].want]]
  /\ cache' = Inserted(b, 1)
  /\ SetJob(i, [job[i] EXCEPT !.pc = "update", !.new = b])
  /\ UNCHANGED <<acl, attrs>>

(* No space: the block was not touched, and the inode keeps it.            *)
PlaceFails(i) ==
  /\ JobAt(i, "place") /\ ~job[i].inPlace
  /\ SetJob(i, NoJob) /\ UNCHANGED <<acl, attrs, block, cache>>

(* Update the inode, then drop the previous block.                         *)
UpdateInode(i) ==
  /\ JobAt(i, "update") \/ (JobAt(i, "find") /\ job[i].want = Empty)
  /\ acl' = [acl EXCEPT ![i] = job[i].new]
  /\ attrs' = [attrs EXCEPT ![i] = job[i].want]
  /\ SetJob(i, IF acl[i] \in {NoAttrBlock, job[i].new} THEN NoJob
            ELSE [NoJob EXCEPT !.pc = "release", !.new = acl[i]])
  /\ UNCHANGED <<block, cache>>

(* ext5_xattr_delete_inode, when the inode goes.                           *)
Delete(i) ==
  /\ JobAt(i, "none") /\ acl[i] # NoAttrBlock
  /\ SetJob(i, [NoJob EXCEPT !.pc = "release", !.new = acl[i]])
  /\ acl' = [acl EXCEPT ![i] = NoAttrBlock] /\ attrs' = [attrs EXCEPT ![i] = Empty]
  /\ UNCHANGED <<block, cache>>

(* Mutant: the last reference is dropped beside a thread that found the    *)
(* block in the cache.                                                     *)
NobodyWaits(b) == TRUE

(* mb_cache_entry_wait_unused, when the entry could not be deleted.        *)
NobodyHolds(b) == cache[b].users = {}

(* ext5_xattr_release_block.                                               *)
Release(i) ==
  LET b == job[i].new
  IN  /\ JobAt(i, "release")
      /\ \/ /\ block[b].ref = 1 /\ NobodyHolds(b)
            /\ block' = [block EXCEPT ![b] = [ref |-> 0, content |-> Empty]]
            /\ cache' = [cache EXCEPT ![b] = NoEntry]
         \/ /\ block[b].ref > 1
            /\ block' = [block EXCEPT ![b].ref = @ - 1]
            /\ cache' = [cache EXCEPT ![b].reusable =
                           @ \/ (cache[b].in /\ block[b].ref = MaxRef)]
      /\ SetJob(i, NoJob)
      /\ UNCHANGED <<acl, attrs>>

(* Reading attributes enters the block in the cache; memory pressure       *)
(* removes an entry nobody holds.                                          *)
ReadAttrs(i) ==
  /\ JobAt(i, "none") /\ acl[i] # NoAttrBlock /\ ~cache[acl[i]].in
  /\ cache' = Inserted(acl[i], block[acl[i]].ref)
  /\ UNCHANGED <<acl, attrs, block, job>>

ShrinkCache(b) ==
  /\ cache[b].in /\ cache[b].users = {}
  /\ cache' = [cache EXCEPT ![b] = NoEntry]
  /\ UNCHANGED <<acl, attrs, block, job>>

XattrNext ==
  \/ \E i \in Owner :
       \/ \E v \in AttrSet \cup {Empty} : SetBegin(i, v)
       \/ Modify(i) \/ FindNothing(i) \/ Compare(i) \/ Keep(i) \/ Reuse(i)
       \/ \E b \in AttrBlock : FindEntry(i, b) \/ PlaceNew(i, b)
       \/ PlaceSame(i) \/ PlaceFails(i) \/ UpdateInode(i)
       \/ Delete(i) \/ Release(i) \/ ReadAttrs(i)
  \/ \E b \in AttrBlock : ShrinkCache(b)

XattrSpec == XattrInit /\ [][XattrNext]_xattrVars

-----------------------------------------------------------------------------
XattrTypeOK ==
  /\ acl \in [Owner -> AttrBlock \cup {NoAttrBlock}]
  /\ attrs \in [Owner -> AttrSet \cup {Empty}]
  /\ block \in [AttrBlock -> [ref : 0..MaxRef, content : AttrSet \cup {Empty}]]
  /\ cache \in [AttrBlock -> [in : BOOLEAN, reusable : BOOLEAN, users : SUBSET Owner]]
  /\ \A i \in Owner : job[i].new \in AttrBlock \cup {NoAttrBlock}

(* The references to b: inodes that have it, one that has added or not yet *)
(* dropped its reference.                                                  *)
Holders(b) ==
  {i \in Owner : \/ acl[i] = b
                 \/ job[i].new = b /\ job[i].pc \in {"update", "release"}}

(* However settings, deletions and the cache interleave: a block counts    *)
(* the inodes that refer to it and is free when there are none, and every  *)
(* inode at rest reads the attributes that were set on it last.            *)
SharedBlockSafe ==
  /\ \A b \in AttrBlock : block[b].ref = Cardinality(Holders(b))
  /\ \A i \in Owner :
       JobAt(i, "none") =>
         attrs[i] = IF acl[i] = NoAttrBlock THEN Empty ELSE block[acl[i]].content
===============================================================================
