---------------------------- MODULE WorkOwnership ----------------------------
(***************************************************************************)
(* The delayed works of a directory (promotion, demotion, compaction), the *)
(* reference each one holds on its inode while it is queued or running,    *)
(* and the end of both: eviction disables the works, and unmount cancels   *)
(* them, drops their references and evicts every inode.                    *)
(***************************************************************************)
EXTENDS Naturals, FiniteSets

CONSTANTS Host,     \* the stable root: it runs all three works
          Moved,    \* an interior of it, moved to another root
          Conventional,    \* conventional directories: promotion only
          MaxQueued \* bound: works queued while mounted

ASSUME OwnershipAssumption == Host # Moved /\ {Host, Moved} \cap Conventional = {}
                              /\ MaxQueued \in Nat

Dirs3 == {Host, Moved} \cup Conventional
Work == ({Host} \X {"promote", "demote", "compact"})
        \cup ({Moved} \cup Conventional) \X {"promote"}
Owner(w) == w[1]

VARIABLES
  work,     \* per work: queued, its callback's progress, disabled, the
            \* reference flag of work_ref_lock
  life,     \* per inode: "live", "evicting", "freed"
  users,    \* inodes that dentries and open files refer to
  cached,   \* i_subtree_root_inode of the interior refers to the root
  target,   \* demote_target_ref of the root refers to the interior
  request,  \* i_li_demote_pending of the root: 0, 1, 2, 3
  phase,    \* of the mount
  draining, \* ext5_li_drain_inode_work: works still to cancel, inode by inode
  drained,  \* inodes it is done with
  queuedSoFar

ownVars == <<work, life, users, cached, target, request, phase, draining,
             drained, queuedSoFar>>

Idle3 == [pend |-> FALSE, run |-> "no", dis |-> FALSE, held |-> FALSE]
WorkState == [pend : BOOLEAN, run : {"no", "began", "goes on", "ends"},
              dis : BOOLEAN, held : BOOLEAN]
NotDraining == [dir |-> Host, works |-> {}, on |-> FALSE, sync |-> FALSE]

OwnInit ==
  /\ work = [w \in Work |-> Idle3]
  /\ life = [d \in Dirs3 |-> "live"]
  /\ users = Dirs3
  /\ cached \in BOOLEAN
  /\ target = FALSE
  /\ request = 0
  /\ phase = "mounted"
  /\ draining = NotDraining
  /\ drained = {}
  /\ queuedSoFar = 0

Shutting == phase # "mounted"
Demote == <<Host, "demote">>
Compacting == <<Host, "compact">>

(* What keeps an inode's i_count above zero.                               *)
Pinned(d) ==
  \/ d \in users
  \/ \E w \in Work : Owner(w) = d /\ work[w].held
  \/ d = Host /\ cached
  \/ d = Moved /\ target
  \/ draining.on /\ draining.dir = d

-----------------------------------------------------------------------------
(* ext5_li_work_queue and ext5_li_work_mod: igrab, mark the reference and  *)
(* queue under work_ref_lock; igrab fails on an inode being evicted.       *)
CanGrab(w) == work[w].held \/ life[Owner(w)] = "live"
Queued(w) == [work EXCEPT ![w].held = @ \/ ~work[w].dis,
                          ![w].pend = @ \/ ~work[w].dis]

UnchangedByQueue == UNCHANGED <<life, users, cached, target, phase, draining,
                                drained>>
CountQueue == queuedSoFar < MaxQueued /\ queuedSoFar' = queuedSoFar + 1

(* A lookup, a mutation or an ioctl in a directory in use schedules a      *)
(* promotion or a compaction ...                                           *)
Schedule(w) ==
  /\ phase = "mounted"
  /\ w # Demote
  /\ Owner(w) \in users
  /\ CanGrab(w)
  /\ CountQueue
  /\ work' = Queued(w)
  /\ UNCHANGED request
  /\ UnchangedByQueue

(* ... or a demotion, once: i_li_demote_pending is claimed first.          *)
ScheduleDemote3 ==
  /\ phase = "mounted"
  /\ Host \in users
  /\ request = 0
  /\ CountQueue
  /\ request' = 1
  /\ work' = Queued(Demote)
  /\ UnchangedByQueue

(* A rename of the interior into another root reserves the demotion and    *)
(* holds the interior; when it commits, the work is queued.                *)
ReserveHandoff ==
  /\ phase = "mounted"
  /\ {Host, Moved} \subseteq users
  /\ request = 0
  /\ CountQueue
  /\ request' = 2
  /\ target' = TRUE
  /\ UNCHANGED <<work, life, users, cached, phase, draining, drained>>

StartHandoff ==
  /\ request = 2
  /\ request' = 3
  /\ work' = Queued(Demote)
  /\ UnchangedByQueue
  /\ UNCHANGED queuedSoFar

CancelHandoff ==
  /\ request = 2
  /\ request' = 0
  /\ target' = FALSE
  /\ UNCHANGED <<work, life, users, cached, phase, draining, drained,
                 queuedSoFar>>

(* A path walk below the interior caches the root in it.                   *)
CacheRoot ==
  /\ phase = "mounted"
  /\ Moved \in users /\ ~cached /\ life[Host] = "live"
  /\ cached' = TRUE
  /\ UNCHANGED <<work, life, users, target, request, phase, draining, drained,
                 queuedSoFar>>

Forget3(d) ==
  /\ d \in users
  /\ d \in {Host, Moved} => request # 2   \* a rename holds both
  /\ users' = users \ {d}
  /\ UNCHANGED <<work, life, cached, target, request, phase, draining,
                 drained, queuedSoFar>>

-----------------------------------------------------------------------------
(* The callbacks.  The first thing each does is to look at the flag.       *)
CallbackStarts(w) ==
  /\ work[w].pend /\ work[w].run = "no"
  /\ work' = [work EXCEPT ![w].pend = FALSE, ![w].run =
                IF Shutting THEN "ends" ELSE "began"]
  /\ IF w = Demote /\ Shutting   \* out_release
     THEN request' = 0 /\ target' = FALSE
     ELSE UNCHANGED <<request, target>>
  /\ UNCHANGED <<life, users, cached, phase, draining, drained, queuedSoFar>>

(* It re-arms itself, having looked at the flag again: nothing is disabled *)
(* by the flag, only by a cancellation under way.                          *)
CallbackLooksAgain(w) ==
  /\ work[w].run = "began"
  /\ ~Shutting
  /\ work' = [work EXCEPT ![w].run = "goes on"]
  /\ UNCHANGED <<life, users, cached, target, request, phase, draining,
                 drained, queuedSoFar>>

CallbackRearms(w) ==
  /\ work[w].run = "goes on"
  /\ queuedSoFar < MaxQueued \/ work[w].dis
  /\ queuedSoFar' = IF work[w].dis THEN queuedSoFar ELSE queuedSoFar + 1
  /\ work' = [work EXCEPT ![w].run = "ends",
                          ![w].pend = @ \/ ~work[w].dis]
  /\ UNCHANGED request
  /\ UnchangedByQueue

(* A compaction asks for the demotion of its root.                         *)
CompactionDemotes ==
  /\ work[Compacting].run = "goes on"
  /\ request = 0
  /\ CanGrab(Demote)
  /\ LET queues == ~work[Demote].dis   \* else: -ESTALE, the claim is undone
     IN  /\ request' = IF queues THEN 1 ELSE 0
         /\ work' = [Queued(Demote) EXCEPT ![Compacting].run = "ends"]
  /\ UnchangedByQueue
  /\ UNCHANGED queuedSoFar

(* It is done; a demotion clears its request and lets its target go.       *)
CallbackDone(w) ==
  /\ work[w].run = "began"
  /\ work' = [work EXCEPT ![w].run = "ends"]
  /\ IF w = Demote THEN request' = 0 /\ target' = FALSE
     ELSE UNCHANGED <<request, target>>
  /\ UNCHANGED <<life, users, cached, phase, draining, drained, queuedSoFar>>

(* Mutant: the last run is not told from one that was queued again.        *)
FinishAlwaysDrops(w) ==
  /\ work[w].run = "ends"
  /\ work' = [work EXCEPT ![w].run = "no", ![w].held = FALSE]
  /\ UNCHANGED <<life, users, cached, target, request, phase, draining,
                 drained, queuedSoFar>>

(* ext5_li_work_ref_finish drops the reference unless it is queued again.  *)
CallbackFinishes(w) ==
  /\ work[w].run = "ends"
  /\ work' = [work EXCEPT ![w].run = "no", ![w].held = @ /\ work[w].pend]
  /\ UNCHANGED <<life, users, cached, target, request, phase, draining,
                 drained, queuedSoFar>>

-----------------------------------------------------------------------------
(* ext5_kill_sb raises the flag and walks the inodes.                      *)
ShutDown ==
  /\ phase = "mounted"
  /\ users = {}
  /\ request # 2
  /\ phase' = "drain"
  /\ UNCHANGED <<work, life, users, cached, target, request, draining,
                 drained, queuedSoFar>>

DrainInode(d) ==
  /\ phase = "drain"
  /\ ~draining.on
  /\ d \notin drained
  /\ life[d] = "live"
  /\ draining' = [dir |-> d, works |-> {w \in Work : Owner(w) = d},
                  on |-> TRUE, sync |-> FALSE]
  /\ UNCHANGED <<work, life, users, cached, target, request, phase, drained,
                 queuedSoFar>>

(* cancel_delayed_work_sync, promotion first, compaction last: a queued    *)
(* work is taken back, a running one can not re-arm and is waited for.     *)
DrainOrder(w) == CASE w[2] = "promote" -> 1 [] w[2] = "demote" -> 2
                   [] w[2] = "compact" -> 3
NextToCancel == CHOOSE w \in draining.works :
                  \A v \in draining.works : DrainOrder(w) <= DrainOrder(v)

DrainCancels ==
  /\ draining.on /\ draining.works # {} /\ ~draining.sync
  /\ draining' = [draining EXCEPT !.sync = TRUE]
  /\ work' = [work EXCEPT ![NextToCancel].dis = TRUE,
                          ![NextToCancel].pend = FALSE]
  /\ UNCHANGED <<life, users, cached, target, request, phase, drained,
                 queuedSoFar>>

DrainWaits ==
  /\ draining.sync
  /\ work[NextToCancel].run = "no"
  /\ work' = [work EXCEPT ![NextToCancel].dis = FALSE]
  /\ draining' = [draining EXCEPT !.sync = FALSE,
                                  !.works = @ \ {NextToCancel}]
  /\ UNCHANGED <<life, users, cached, target, request, phase, drained,
                 queuedSoFar>>

(* Mutant: the walk cancels and leaves the references.                     *)
DrainKeepsRefs ==
  /\ draining.on /\ draining.works = {}
  /\ drained' = drained \cup {draining.dir}
  /\ draining' = NotDraining
  /\ UNCHANGED <<work, life, users, cached, target, request, phase,
                 queuedSoFar>>

(* ext5_li_work_ref_release_all                                            *)
DrainReleases ==
  /\ draining.on /\ draining.works = {}
  /\ work' = [w \in Work |-> IF Owner(w) = draining.dir
                             THEN [work[w] EXCEPT !.held = FALSE] ELSE work[w]]
  /\ drained' = drained \cup {draining.dir}
  /\ draining' = NotDraining
  /\ UNCHANGED <<life, users, cached, target, request, phase, queuedSoFar>>

(* Both queues are flushed: what is queued has run.                        *)
Flushed ==
  /\ phase = "drain"
  /\ ~draining.on
  /\ \A d \in Dirs3 : life[d] = "freed" \/ d \in drained
  /\ \A w \in Work : ~work[w].pend /\ work[w].run = "no"
  /\ phase' = "evict"
  /\ UNCHANGED <<work, life, users, cached, target, request, draining,
                 drained, queuedSoFar>>

(* iput_final, the inode shrinker and evict_inodes: an inode that nothing  *)
(* refers to is evicted; its works are disabled first ...                  *)
EvictDisables(d) ==
  /\ life[d] = "live"
  /\ ~Pinned(d)
  /\ life' = [life EXCEPT ![d] = "evicting"]
  /\ work' = [w \in Work |-> IF Owner(w) = d
                             THEN [work[w] EXCEPT !.dis = TRUE, !.pend = FALSE]
                             ELSE work[w]]
  /\ UNCHANGED <<users, cached, target, request, phase, draining, drained,
                 queuedSoFar>>

(* ... and their callbacks waited for; then it gives its references up.    *)
EvictFrees(d) ==
  /\ life[d] = "evicting"
  /\ \A w \in Work : Owner(w) = d => work[w].run = "no"
  /\ life' = [life EXCEPT ![d] = "freed"]
  /\ target' = (target /\ d # Host)
  /\ request' = IF d = Host THEN 0 ELSE request
  /\ cached' = (cached /\ d # Moved)
  /\ UNCHANGED <<work, users, phase, draining, drained, queuedSoFar>>

(* generic_shutdown_super finds no inode left that it could evict.         *)
Unmounted ==
  /\ phase = "evict"
  /\ \A d \in Dirs3 : life[d] = "freed" \/ (life[d] = "live" /\ Pinned(d))
  /\ phase' = "unmounted"
  /\ UNCHANGED <<work, life, users, cached, target, request, draining,
                 drained, queuedSoFar>>

OwnNext ==
  \/ \E w \in Work :
       \/ Schedule(w) \/ CallbackStarts(w) \/ CallbackLooksAgain(w)
       \/ CallbackRearms(w) \/ CallbackDone(w) \/ CallbackFinishes(w)
  \/ ScheduleDemote3 \/ CompactionDemotes
  \/ ReserveHandoff \/ StartHandoff \/ CancelHandoff \/ CacheRoot
  \/ ShutDown \/ DrainCancels \/ DrainWaits \/ DrainReleases \/ Flushed
  \/ Unmounted
  \/ \E d \in Dirs3 : Forget3(d) \/ DrainInode(d) \/ EvictDisables(d)
                      \/ EvictFrees(d)

OwnSpec == OwnInit /\ [][OwnNext]_ownVars

-----------------------------------------------------------------------------
(* The types of the variables.                                             *)
OwnTypeOK ==
  /\ work \in [Work -> WorkState]
  /\ life \in [Dirs3 -> {"live", "evicting", "freed"}]
  /\ users \subseteq Dirs3
  /\ cached \in BOOLEAN /\ target \in BOOLEAN
  /\ request \in 0..3
  /\ phase \in {"mounted", "drain", "evict", "unmounted"}
  /\ draining.dir \in Dirs3 /\ draining.works \subseteq Work
  /\ drained \subseteq Dirs3
  /\ queuedSoFar \in 0..MaxQueued

(* While mounted, a work that is queued or running holds its inode, so an  *)
(* eviction never meets a callback, whatever re-arms a work while its      *)
(* callback ends.  No callback runs on an inode that was freed, not even    *)
(* one queued after the walk had dropped the references.  And the unmount  *)
(* leaves no inode behind, unless a hand-off was cancelled.                *)
WorksHoldInodes ==
  /\ ~Shutting => \A w \in Work :
                    work[w].pend \/ work[w].run # "no" =>
                      work[w].held /\ life[Owner(w)] = "live"
  /\ \A w \in Work : work[w].run # "no" => life[Owner(w)] # "freed"
  /\ phase = "unmounted" => target \/ \A d \in Dirs3 : life[d] = "freed"

(* delayed_unmount_smoke.sh: no "Busy inodes" after an unmount.            *)
NothingLingers ==
  phase = "unmounted" => \A d \in Dirs3 : life[d] = "freed"
=============================================================================
