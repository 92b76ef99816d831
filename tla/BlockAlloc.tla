------------------------------ MODULE BlockAlloc ------------------------------
(* The block allocator on one group: what the bitmap on disk, the bitmap in*)
(* memory, the preallocations and the blocks freed by a transaction that   *)
(* has not committed each hold, while files allocate and free (mballoc.c,  *)
(* data=ordered).  Which free extent a search prefers is left open; the    *)
(* buddy that is derived from the bitmap in memory is module Buddy.        *)
(*                                                                         *)
(* i_data_sem lets one operation at a time work on a file, so a file names *)
(* the task that works on it.                                              *)
EXTENDS Integers, FiniteSets, FiniteSetsExt

CONSTANTS
  Blocks,    \* clusters of the group
  Writer,    \* files
  Lblks,     \* per file, its logical blocks
  Pa,        \* room for ext5_prealloc_space: without it an allocation fails
  GroupGoal, \* s_mb_group_prealloc
  MaxLen,    \* the longest request
  NoFile, NoPa

ASSUME AllocAssumption ==
  /\ {Blocks, GroupGoal, MaxLen} \subseteq Nat \ {0}
  /\ Lblks \in [Writer -> Nat]
  /\ NoFile \notin Writer /\ NoPa \notin Pa

VARIABLES
  bitmap,  \* the bitmap block: clusters marked used
  core,    \* the bitmap in the buddy cache
  bbFree,  \* bb_free of the group
  pas,     \* the preallocations
  pending, \* s_freed_data_list: clusters freed by the running and by the
           \* committing transaction
  ctx,     \* per file, the ext5_allocation_context and how far it got
  lg,      \* the file whose task holds lg_mutex of the one locality group
  map      \* per file, the cluster of every logical block

allocVars == <<bitmap, core, bbFree, pas, pending, ctx, lg, map>>

Cluster == 0..(Blocks - 1)
Lblk(f) == 0..(Lblks[f] - 1)
NoBlock == -1
Run(first, len) == first..(first + len - 1)

NoPrealloc == [kind |-> "free", file |-> NoFile, lstart |-> 0, pstart |-> 0,
               len |-> 0, unused |-> 0, count |-> 0, deleted |-> FALSE]
NoContext == [at |-> "idle", lblk |-> 0, len |-> 0, gstart |-> 0, glen |-> 0,
         start |-> 0, got |-> 0, pa |-> NoPa, pin |-> FALSE, freeing |-> {}]

AllocInit ==
  /\ bitmap = {} /\ core = {} /\ bbFree = Blocks
  /\ pas = [p \in Pa |-> NoPrealloc]
  /\ pending = [running |-> {}, committing |-> {}]
  /\ ctx = [f \in Writer |-> NoContext] /\ lg = NoFile
  /\ map = [f \in Writer |-> [l \in Lblk(f) |-> NoBlock]]

PaBlocks(p) == Run(pas[p].pstart, pas[p].len)
Listed == {p \in Pa : pas[p].kind \in {"inode", "group"}}  \* bb_prealloc_list
Live(p) == p \in Listed /\ ~pas[p].deleted
OfFile(f) == {p \in Listed : pas[p].kind = "inode" /\ pas[p].file = f}
LastOf(p) == pas[p].lstart + pas[p].len - 1
Ctx(f, c) == ctx' = [ctx EXCEPT ![f] = c]
GoTo(f, pc) == Ctx(f, [ctx[f] EXCEPT !.at = pc])

-----------------------------------------------------------------------------
(* The buddy cache.  A page is dropped when nobody holds it; the group's   *)
(* first pending cluster holds it, and so does a context that has taken    *)
(* clusters it has not marked on disk.                                     *)
(* Mutant: ext5_mb_free_metadata takes no reference.                       *)
HeldByContext == \E f \in Writer : ctx[f].pin

Held == \/ pending.running \cup pending.committing # {}
        \/ \E f \in Writer : ctx[f].pin

(* ext5_mb_init_cache and ext5_mb_generate_from_pa: preallocations count,  *)
(* the deleted ones too.                                                   *)
Regenerated == bitmap \cup UNION {PaBlocks(p) : p \in Listed}

(* The page was dropped and is loaded anew.  What happened in between did  *)
(* not look at it.                                                         *)
Reload == /\ ~Held
          /\ core' = Regenerated
          /\ UNCHANGED <<bitmap, bbFree, pas, pending, ctx, lg, map>>

MarkCore(blocks) == core' = core \cup blocks /\ bbFree' = bbFree - Cardinality(blocks)
FreeCore(blocks) == core' = core \ blocks /\ bbFree' = bbFree + Cardinality(blocks)

-----------------------------------------------------------------------------
(* ext5_mb_use_preallocated, the inode's part: the live preallocation that *)
(* covers the first block asked for, as far as it reaches.                 *)
Covering(f, l) ==
  {p \in OfFile(f) : ~pas[p].deleted /\ l \in Run(pas[p].lstart, pas[p].len)}

(* ext5_mb_use_inode_pa: where in p, and how much of it.                   *)
InPa(p, l, n) ==
  LET start == pas[p].pstart + (l - pas[p].lstart)
  IN [start |-> start, got |-> Min({n, pas[p].pstart + pas[p].len - start})]

UsePrealloc(f, l, n) ==
  \E p \in Covering(f, l) :
    LET use == InPa(p, l, n)
    IN /\ pas[p].unused > 0
       /\ pas' = [pas EXCEPT ![p].unused = @ - use.got, ![p].count = @ + 1]
       /\ Ctx(f, [NoContext EXCEPT !.at = "mark", !.lblk = l, !.pa = p,
                              !.start = use.start, !.got = use.got])
       /\ UNCHANGED lg

(* ... and the locality group's part, under lg_mutex.                      *)
UseGroup(f, l, n) ==
  \E p \in Listed :
    /\ lg = NoFile /\ Covering(f, l) = {}
    /\ pas[p].kind = "group" /\ ~pas[p].deleted /\ pas[p].unused >= n
    /\ lg' = f
    /\ pas' = [pas EXCEPT ![p].count = @ + 1]
    /\ Ctx(f, [NoContext EXCEPT !.at = "mark", !.lblk = l, !.pa = p,
                           !.start = pas[p].pstart, !.got = n])

(* ext5_mb_pa_adjust_overlap and what ext5_mb_normalize_request does about *)
(* mapped neighbours: no block of the goal is mapped or preallocated.      *)
Goals(f, l) ==
  LET taken(b) == map[f][b] # NoBlock \/ Covering(f, b) # {}
  IN {g \in Lblk(f) \X (1..Lblks[f]) :
        /\ l \in Run(g[1], g[2]) /\ g[1] + g[2] <= Lblks[f]
        /\ \A b \in Run(g[1], g[2]) : ~taken(b)}

(* A fresh descriptor, and a goal: the preallocation's length for a        *)
(* locality group, a range around the request, or the request alone (for   *)
(* one the flags forbid to preallocate for).                               *)
Search(f, l, n) ==
  \E p \in Pa, grouped \in BOOLEAN :
    /\ pas[p].kind = "free" /\ Covering(f, l) = {}
    /\ grouped => lg = NoFile /\ \A q \in Listed :
         ~(pas[q].kind = "group" /\ ~pas[q].deleted /\ pas[q].unused >= n)
    /\ lg' = IF grouped THEN f ELSE lg
    /\ pas' = [pas EXCEPT ![p] = [NoPrealloc EXCEPT !.kind = "new", !.count = 1]]
    /\ \E g \in IF grouped THEN {<<l, GroupGoal>>} ELSE Goals(f, l) \cup {<<l, n>>} :
         Ctx(f, [NoContext EXCEPT !.at = "scan", !.lblk = l, !.len = n, !.pa = p,
                             !.gstart = g[1], !.glen = g[2]])

(* ext5_mb_new_blocks, up to the search.                                   *)
Request(f) ==
  \E l \in Lblk(f), n \in 1..MaxLen :
    /\ ctx[f].at = "idle" /\ l + n <= Lblks[f]
    /\ \A b \in Run(l, n) : map[f][b] = NoBlock
    /\ UsePrealloc(f, l, n) \/ UseGroup(f, l, n) \/ Search(f, l, n)
    /\ UNCHANGED <<bitmap, core, bbFree, pending, map>>

-----------------------------------------------------------------------------
(* ext5_mb_new_inode_pa: where in the goal the found extent is put, if it  *)
(* is shorter, so that it covers the block asked for.                      *)
PaStart(c, got) ==
  LET end == c.gstart + c.glen
  IN CASE got >= c.glen -> c.gstart
       [] got < c.glen /\ c.lblk >= end - got -> end - got
       [] got < c.glen /\ c.lblk < end - got
            /\ c.lblk + c.len <= c.gstart + got -> c.gstart
       [] OTHER -> c.lblk

(* ext5_mb_use_best_found: take the extent, at most the goal, out of the   *)
(* bitmap in memory; what was not asked for becomes a preallocation, of    *)
(* the locality group or of the file.                                      *)
UseBest(f, start, found) ==
  LET c == ctx[f]
      got == Min({found, c.glen})
      grouped == lg = f
      lstart == IF grouped THEN start ELSE PaStart(c, got)
      skip == IF grouped THEN 0 ELSE c.lblk - lstart
      used == Min({c.len, got - skip})
      taken == [c EXCEPT !.at = "mark", !.pin = TRUE, !.len = 0,
                        !.gstart = 0, !.glen = 0]
  IN /\ MarkCore(Run(start, got))
     /\ IF c.len < got
        THEN /\ pas' = [pas EXCEPT ![c.pa] =
                  [kind |-> IF grouped THEN "group" ELSE "inode",
                   file |-> IF grouped THEN NoFile ELSE f, lstart |-> lstart,
                   pstart |-> start, len |-> got, count |-> 1, deleted |-> FALSE,
                   unused |-> IF grouped THEN got ELSE got - used]]
             /\ Ctx(f, [taken EXCEPT !.start = start + skip, !.got = used])
        ELSE /\ pas' = [pas EXCEPT ![c.pa] = NoPrealloc]
             /\ Ctx(f, [taken EXCEPT !.start = start, !.got = got, !.pa = NoPa])

FreeAt(start, len) == start + len <= Blocks /\ Run(start, len) \cap core = {}

(* mb_find_extent: as many free clusters from start on as are needed, or as*)
(* there are.                                                              *)
Found(start, needed) == Max({0} \cup {len \in 1..needed : FreeAt(start, len)})

(* A scan of the group under its lock takes what it finds ...              *)
Scan(f) ==
  /\ ctx[f].at = "scan"
  /\ \E start \in Cluster \ core : UseBest(f, start, Found(start, ctx[f].glen))
  /\ UNCHANGED <<bitmap, pending, lg, map>>

(* ... or, if it is not all that is wanted, remembers it and goes on.      *)
ScanRemembers(f) ==
  /\ ctx[f].at = "scan"
  /\ \E start \in Cluster \ core :
       LET len == Found(start, ctx[f].glen)
       IN /\ len < ctx[f].glen
          /\ Ctx(f, [ctx[f] EXCEPT !.at = "best", !.start = start, !.got = len])
  /\ UNCHANGED <<bitmap, core, bbFree, pas, pending, lg, map>>

(* Somebody may have taken it meanwhile, or a part of it.                  *)
Remaining(c) == Found(c.start, c.got)

(* ext5_mb_try_best_found.                                                 *)
TryBest(f) ==
  /\ ctx[f].at = "best"
  /\ IF Remaining(ctx[f]) > 0
     THEN UseBest(f, ctx[f].start, Remaining(ctx[f]))
     ELSE /\ Ctx(f, [ctx[f] EXCEPT !.at = "scan", !.start = 0, !.got = 0])
          /\ UNCHANGED <<core, bbFree, pas>>
  /\ UNCHANGED <<bitmap, pending, lg, map>>

-----------------------------------------------------------------------------
(* ext5_mb_release_inode_pa frees what is not marked on disk,              *)
(* ext5_mb_release_group_pa all of it.                                     *)
NotUsed(p) == IF pas[p].kind = "inode" THEN PaBlocks(p) \ bitmap ELSE PaBlocks(p)

ReleasePas(released) ==
  /\ FreeCore(UNION {NotUsed(p) : p \in released})
  /\ pas' = [p \in Pa |-> IF p \in released THEN NoPrealloc ELSE pas[p]]

(* Preallocations nobody uses at this moment.                              *)
Discardable == {p \in Listed : pas[p].count = 0 /\ ~pas[p].deleted}

(* Nothing found: ext5_mb_discard_preallocations takes the group's away and*)
(* the search goes on; in the end there is no space.                       *)
NothingFound(f) ==
  /\ ctx[f].at = "scan" /\ core = Cluster
  /\ GoTo(f, "discard")
  /\ UNCHANGED <<bitmap, core, bbFree, pas, pending, lg, map>>

DiscardGroup(f) ==
  /\ ctx[f].at = "discard" /\ Discardable # {}
  /\ ReleasePas(Discardable)
  /\ GoTo(f, "scan")
  /\ UNCHANGED <<bitmap, pending, lg, map>>

NoSpace(f) ==
  /\ ctx[f].at = "discard" /\ Discardable = {}
  /\ pas' = [pas EXCEPT ![ctx[f].pa] = NoPrealloc]
  /\ Ctx(f, NoContext)
  /\ lg' = IF lg = f THEN NoFile ELSE lg
  /\ UNCHANGED <<bitmap, core, bbFree, pending, map>>

-----------------------------------------------------------------------------
(* ext5_mb_mark_diskspace_used.                                            *)
MarkOnDisk(f) ==
  /\ ctx[f].at = "mark"
  /\ bitmap' = bitmap \cup Run(ctx[f].start, ctx[f].got)
  /\ GoTo(f, "release")
  /\ UNCHANGED <<core, bbFree, pas, pending, lg, map>>

(* It fails: ext5_discard_allocated_blocks gives the clusters back, to the *)
(* preallocation they came from if that is a file's.                       *)
MarkFails(f) ==
  LET c == ctx[f] IN
  /\ c.at = "mark"
  /\ IF c.pa = NoPa
     THEN /\ FreeCore(Run(c.start, c.got))
          /\ UNCHANGED pas
     ELSE /\ pas' = [pas EXCEPT ![c.pa].unused =
                       IF pas[c.pa].kind = "inode" THEN @ + c.got ELSE @]
          /\ UNCHANGED <<core, bbFree>>
  /\ Ctx(f, [c EXCEPT !.at = "release", !.start = 0, !.got = 0])
  /\ UNCHANGED <<bitmap, pending, lg, map>>

(* What ext5_mb_release_context leaves of the preallocation: a locality    *)
(* group's moves past what was used of it.                                 *)
Moved(pa, got) ==
  IF pa.kind = "group"
  THEN [pa EXCEPT !.pstart = @ + got, !.lstart = @ + got, !.len = @ - got,
                  !.unused = @ - got]
  ELSE pa

(* ext5_mb_release_context: give up the buddy's page ...                   *)
Unpins(f) == Ctx(f, [ctx[f] EXCEPT !.at = "insert", !.pin = FALSE])

(* ... once ext5_mb_put_pa is through: a preallocation that is used up     *)
(* goes, in two steps.                                                     *)
ReleaseContext(f) ==
  LET c == ctx[f] IN
  /\ c.at = "release"
  /\ IF c.pa = NoPa
     THEN Unpins(f) /\ UNCHANGED pas
     ELSE LET left == [Moved(pas[c.pa], c.got) EXCEPT !.count = @ - 1]
              empty == left.unused = 0 /\ left.count = 0 /\ ~left.deleted
          IN /\ pas' = [pas EXCEPT ![c.pa] = [left EXCEPT !.deleted = @ \/ empty]]
             /\ IF empty THEN GoTo(f, "drop") ELSE Unpins(f)
  /\ UNCHANGED <<bitmap, core, bbFree, pending, lg, map>>

DropPa(f) ==
  /\ ctx[f].at = "drop"
  /\ pas' = [pas EXCEPT ![ctx[f].pa] = NoPrealloc]
  /\ Unpins(f)
  /\ UNCHANGED <<bitmap, core, bbFree, pending, lg, map>>

(* Back in ext5_ext_map_blocks the clusters become an extent of the file,  *)
(* or, when that fails, are freed again.                                   *)
Insert(f) ==
  LET c == ctx[f] IN
  /\ c.at = "insert"
  /\ map' = [map EXCEPT ![f] = [l \in Lblk(f) |->
               IF l \in Run(c.lblk, c.got) THEN c.start + (l - c.lblk) ELSE @[l]]]
  /\ Ctx(f, NoContext)
  /\ lg' = IF lg = f THEN NoFile ELSE lg
  /\ UNCHANGED <<bitmap, core, bbFree, pas, pending>>

InsertFails(f) ==
  LET c == ctx[f] IN
  /\ c.at = "insert" /\ c.got > 0
  /\ Ctx(f, [NoContext EXCEPT !.at = "collect", !.freeing = Run(c.start, c.got)])
  /\ lg' = IF lg = f THEN NoFile ELSE lg
  /\ UNCHANGED <<bitmap, core, bbFree, pas, pending, map>>

-----------------------------------------------------------------------------
(* ext5_truncate: from some block on.                                      *)
TruncateFile(f) ==
  \E l \in Lblk(f) :
    LET cut == {b \in Lblk(f) : b >= l /\ map[f][b] # NoBlock} IN
    /\ ctx[f].at = "idle" /\ cut # {}
    /\ map' = [map EXCEPT ![f] = [b \in Lblk(f) |-> IF b \in cut THEN NoBlock ELSE @[b]]]
    /\ Ctx(f, [NoContext EXCEPT !.at = "collect", !.freeing = {map[f][b] : b \in cut}])
    /\ UNCHANGED <<bitmap, core, bbFree, pas, pending, lg>>

(* ext5_discard_preallocations: mark the file's preallocations deleted,    *)
(* then release them one by one under the group lock.                      *)
CollectPas(f) ==
  /\ ctx[f].at = "collect"
  /\ \A p \in OfFile(f) : pas[p].count = 0 /\ ~pas[p].deleted
  /\ pas' = [p \in Pa |-> IF p \in OfFile(f) THEN [pas[p] EXCEPT !.deleted = TRUE]
                          ELSE pas[p]]
  /\ GoTo(f, "release pas")
  /\ UNCHANGED <<bitmap, core, bbFree, pending, lg, map>>

ReleasePa(f) ==
  /\ ctx[f].at = "release pas"
  /\ \E p \in {q \in OfFile(f) : pas[q].deleted} : ReleasePas({p})
  /\ UNCHANGED <<bitmap, pending, ctx, lg, map>>

(* ext5_mb_clear_bb: the bitmap on disk first, with the buddy loaded; then *)
(* the clusters wait for the transaction to commit.                        *)
ClearOnDisk(f) ==
  /\ ctx[f].at = "release pas"
  /\ ~\E p \in OfFile(f) : pas[p].deleted
  /\ bitmap' = bitmap \ ctx[f].freeing
  /\ Ctx(f, [ctx[f] EXCEPT !.at = "pend", !.pin = TRUE])
  /\ UNCHANGED <<core, bbFree, pas, pending, lg, map>>

MbFreeMetadata(f) ==
  /\ ctx[f].at = "pend"
  /\ pending' = [pending EXCEPT !.running = @ \cup ctx[f].freeing]
  /\ Ctx(f, NoContext)
  /\ UNCHANGED <<bitmap, core, bbFree, pas, lg, map>>

(* The journal: a commit starts when no handle is freeing and the one      *)
(* before is done; when it has finished, ext5_process_freed_data.          *)
CommitStarts ==
  /\ pending.running # {} /\ pending.committing = {}
  /\ \A f \in Writer : ctx[f].at # "pend"
  /\ pending' = [running |-> {}, committing |-> pending.running]
  /\ UNCHANGED <<bitmap, core, bbFree, pas, ctx, lg, map>>

ProcessFreedData ==
  /\ pending.committing # {}
  /\ FreeCore(pending.committing)
  /\ pending' = [pending EXCEPT !.committing = {}]
  /\ UNCHANGED <<bitmap, pas, ctx, lg, map>>

AllocNext ==
  \/ Reload \/ CommitStarts \/ ProcessFreedData
  \/ \E f \in Writer :
       \/ Request(f) \/ Scan(f) \/ ScanRemembers(f) \/ TryBest(f)
       \/ NothingFound(f) \/ DiscardGroup(f) \/ NoSpace(f)
       \/ MarkOnDisk(f) \/ MarkFails(f) \/ ReleaseContext(f) \/ DropPa(f)
       \/ Insert(f) \/ InsertFails(f)
       \/ TruncateFile(f) \/ CollectPas(f) \/ ReleasePa(f) \/ ClearOnDisk(f)
       \/ MbFreeMetadata(f)

AllocSpec == AllocInit /\ [][AllocNext]_allocVars

-----------------------------------------------------------------------------
AllocTypeOK ==
  /\ bitmap \subseteq Cluster
  /\ core \subseteq Cluster
  /\ bbFree \in 0..Blocks
  /\ \A p \in Pa : pas[p].unused \in 0..Blocks /\ pas[p].count \in 0..1
  /\ \A t \in {"running", "committing"} : pending[t] \subseteq Cluster
  /\ lg \in Writer \cup {NoFile}
  /\ \A f \in Writer : map[f] \in [Lblk(f) -> Cluster \cup {NoBlock}]

(* Who has a cluster: an extent, an operation that has taken or is freeing *)
(* it, the unused part of a preallocation, a transaction to commit.        *)
Mapped(f) == {map[f][l] : l \in Lblk(f)} \ {NoBlock}
InHand(f) ==
  CASE ctx[f].at \in {"mark", "release", "drop", "insert"} ->
         Run(ctx[f].start, ctx[f].got)
    [] OTHER -> ctx[f].freeing
Reserve(p) == PaBlocks(p) \ (bitmap \cup UNION {InHand(f) : f \in Writer})

Owned == [f \in Writer |-> Mapped(f) \cup InHand(f)]
Waiting == pending.running \cup pending.committing

(* Every cluster has at most one owner: no two files, and no logical blocks*)
(* of one, share a cluster; none that is used is in reserve or waits for a *)
(* commit; the bitmap on disk says used of what the files hold, the bitmap *)
(* in memory of everything that has an owner and of nothing else, and      *)
(* bb_free counts the rest, so that generating the buddy again agrees.     *)
BlocksAccounted ==
  LET used == UNION {Owned[f] : f \in Writer}
      reserve == UNION {Reserve(p) : p \in Listed}
      all == used \cup reserve \cup Waiting
  IN /\ \A f, g \in Writer : f # g => Owned[f] \cap Owned[g] = {}
     /\ \A f \in Writer : \A l, m \in Lblk(f) :
          l # m => map[f][l] # map[f][m] \/ map[f][l] = NoBlock
     /\ used \cap Waiting = {} /\ reserve \cap Waiting = {}
     /\ \A f \in Writer : Mapped(f) \subseteq bitmap
     /\ core = all
     /\ bbFree = Blocks - Cardinality(all)
=============================================================================
