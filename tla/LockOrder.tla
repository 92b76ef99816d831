------------------------------ MODULE LockOrder ------------------------------
(***************************************************************************)
(* The locks that namespace operations, directory reads, compaction,       *)
(* demotion and promotion take, in the order the code takes them: the      *)
(* mount's transition lock, the VFS rename mutex, directory rwsems, journal*)
(* handles and the roots' i_li_lock.  A caller is a sequence of steps; a   *)
(* handle waits for a commit that waits for the handles already open.      *)
(*                                                                         *)
(* The directories: up holds root, root holds left and right, other is a   *)
(* root elsewhere on the same mount.                                       *)
(***************************************************************************)
EXTENDS Naturals, Sequences, FiniteSets

CONSTANTS Caller,       \* threads
          OpSets,       \* sets of kinds of operation that may run together
          ReclaimStarts \* an allocation with GFP_KERNEL may evict an inode
                        \* whose eviction starts a handle

Kinds == {"mutate", "rename", "list", "compact", "demote", "subsume",
          "reserve", "promote"}
ASSUME LockAssumption ==
  /\ OpSets \subseteq SUBSET Kinds /\ ReclaimStarts \in BOOLEAN
  /\ "none" \notin Caller

VARIABLES
  kinds,    \* the kinds of operation of this behaviour
  left,     \* per caller: the steps it has still to take
  owner,    \* locks held for writing: the caller, or "none"
  shared,   \* locks held for reading: the callers
  handles,  \* callers with an open handle
  barrier   \* the running transaction is locked: jbd3 waits for its handles

lockVars == <<kinds, left, owner, shared, handles, barrier>>

Tree == {"up", "root", "left", "right", "other"}
Region == {"root", "left", "right"}      \* one stable region, or about to be
Roots == {"root", "other"}
RootOf(d) == IF d \in Region THEN "root" ELSE d

Rw(d) == <<"i_rwsem", d>>
Li(r) == <<"i_li_lock", r>>
Ref(r) == <<"refs", r>>                  \* references to the installed blob
Transition == <<"li_transition_lock", "up">>
RenameMutex == <<"s_vfs_rename_mutex", "up">>
Locks == ({"i_rwsem", "i_li_lock", "refs"} \X Tree)
         \cup {Transition, RenameMutex}

LockInit ==
  /\ kinds \in OpSets
  /\ left = [c \in Caller |-> <<>>]
  /\ owner = [l \in Locks |-> "none"]
  /\ shared = [l \in Locks |-> {}]
  /\ handles = {}
  /\ barrier = FALSE

-----------------------------------------------------------------------------
(* The steps.  "check" may fail and "try" finds a lock taken: both then go *)
(* to the next "out", which gives up every lock but those it keeps.        *)
Step(act, l) == [act |-> act, lock |-> l, keep |-> {}]
Acquire(l) == <<Step("lock", l)>>
Share(l) == <<Step("share", l)>>
Release(l) == <<Step("unlock", l)>>
Briefly(l) == Acquire(l) \o Release(l)
TryLock(l) == <<Step("try", l)>>
Check == <<Step("check", Transition)>>
Start == <<Step("start", Transition)>>
Stop == <<Step("stop", Transition)>>
Handle == Start \o Stop
Drain(r) == <<Step("drain", Ref(r))>>
Out(keep) == <<[act |-> "out", lock |-> Transition, keep |-> keep]>>
Allocate == IF ReclaimStarts THEN Handle ELSE <<>>

(* ext5_create, ext5_unlink: the VFS holds the directory, the handle is    *)
(* open, ext5_stable_append_delta takes i_li_lock.                         *)
Mutate(d) ==
  Acquire(Rw(d)) \o Start
  \o (IF d = "up" THEN <<>> ELSE Briefly(Li(RootOf(d)))) \o Stop \o Out({})

(* ext5_stable_rename_links locks two roots in the order of their inodes.  *)
RootsInOrder(d, e) ==
  LET r == {RootOf(d), RootOf(e)} \cap Roots
  IN  IF Cardinality(r) = 2 THEN Acquire(Li("root")) \o Acquire(Li("other"))
      ELSE IF r = {} THEN <<>> ELSE Acquire(Li(CHOOSE x \in r : TRUE))

(* lock_rename: the mutex, then an ancestor before what is below it and    *)
(* otherwise in the order of the arguments; then ext5_rename.              *)
Ancestor(d, e) == \/ d = "up" /\ e \in Region
                  \/ d = "root" /\ e \in {"left", "right"}

Rename(d, e) ==
  Acquire(RenameMutex)
  \o (IF Ancestor(e, d) THEN Acquire(Rw(e)) \o Acquire(Rw(d))
      ELSE Acquire(Rw(d)) \o Acquire(Rw(e)))
  \o Start \o RootsInOrder(d, e) \o Stop \o Out({})

(* ext5_stable_readdir: the delta is copied under i_li_lock, into memory   *)
(* allocated with GFP_KERNEL under that lock.                              *)
List(d) ==
  Share(Rw(d)) \o Share(Ref(RootOf(d)))
  \o Acquire(Li(RootOf(d))) \o Allocate \o Release(Li(RootOf(d))) \o Out({})

(* __ext5_compact_subtree: capture, size the staging range, copy the tail, *)
(* publish, drain the readers of the old blob, punch it.                   *)
Compact(r) ==
  Briefly(Li(r))
  \o Acquire(Rw(r)) \o Briefly(Li(r)) \o Start \o Briefly(Li(r)) \o Stop
  \o Briefly(Li(r)) \o Release(Rw(r))
  \o Acquire(Li(r)) \o Check \o Allocate \o Release(Li(r)) \o Handle
  \o Acquire(Rw(r)) \o Start \o Acquire(Li(r)) \o Check \o Release(Li(r))
  \o Stop \o Release(Rw(r)) \o Drain(r)
  \o Acquire(Rw(r)) \o Handle \o Out({})

(* __ext5_demote_subtree of the region, its caller holding keep; its table *)
(* and the copy of the delta are allocated under i_li_lock.                *)
DemoteBody(keep) ==
  Acquire(Rw("root")) \o Acquire(Li("root")) \o Check \o Allocate
  \o Release(Li("root")) \o Release(Rw("root"))
  \o Acquire(Li("root")) \o Check \o Allocate \o Release(Li("root"))
  \o Handle
  \o TryLock(RenameMutex)
  \o Acquire(Rw("root")) \o Acquire(Li("root")) \o Check \o Release(Li("root"))
  \o Acquire(Rw("left")) \o Acquire(Rw("right")) \o Release(RenameMutex)
  \o Acquire(Li("root")) \o Check \o Release(Li("root")) \o Handle
  \o Acquire(Li("root")) \o Check \o Release(Li("root")) \o Handle
  \o Out(keep) \o Drain("root") \o Handle \o Briefly(Rw("root"))

(* Mutant: the interiors are locked without the rename mutex.              *)
DemoteUngated ==
  Acquire(Transition)
  \o Acquire(Rw("root")) \o Acquire(Rw("left")) \o Acquire(Rw("right"))
  \o Acquire(Li("root")) \o Check \o Release(Li("root")) \o Handle \o Out({})

(* ext5_demote_with_transition_lock                                        *)
DemoteRegion == Acquire(Transition) \o DemoteBody({Transition}) \o Out({})

(* ext5_demote_subtree_for_promote also holds the root's parent.           *)
Subsume ==
  Acquire(Transition) \o Share(Rw("up")) \o Check
  \o DemoteBody({Transition, Rw("up")}) \o Out({})

(* ext5_stable_reserve_inode_pool                                          *)
Reserve(r) ==
  Acquire(Transition) \o Acquire(Rw(r)) \o Briefly(Li(r)) \o Handle
  \o Briefly(Li(r)) \o Out({})

(* __ext5_promote_subtree: the walk reads one directory at a time; the     *)
(* captured set is locked parents first and children as they were met.     *)
Promote(x, y) ==
  Share(Rw("root")) \o Out({}) \o Share(Rw(x)) \o Out({}) \o Share(Rw(y))
  \o Out({}) \o Handle
  \o Acquire(Transition)
  \o Acquire(Rw("root")) \o Acquire(Rw(x)) \o Acquire(Rw(y)) \o Check
  \o Handle \o Handle \o Out({})

Programs(k) ==
  CASE k = "mutate" -> {Mutate(d) : d \in Tree}
    [] k = "rename" -> UNION {{Rename(d, e) : e \in Tree \ {d}} : d \in Tree}
    [] k = "list" -> {List(d) : d \in Region}
    [] k = "compact" -> {Compact("root")}
    [] k = "demote" -> {DemoteRegion}
    [] k = "subsume" -> {Subsume}
    [] k = "reserve" -> {Reserve("root")}
    [] k = "promote" -> {Promote("left", "right"), Promote("right", "left")}

-----------------------------------------------------------------------------
Idle(c) == left[c] = <<>>
Next1(c) == Head(left[c])
Taking(c, act) == ~Idle(c) /\ Next1(c).act = act
Remaining(c) == left' = [left EXCEPT ![c] = Tail(@)]

Begin(c) ==
  /\ Idle(c)
  /\ \E k \in kinds : \E p \in Programs(k) : left' = [left EXCEPT ![c] = p]
  /\ UNCHANGED <<kinds, owner, shared, handles, barrier>>

FreeForWriting(l) == owner[l] = "none" /\ shared[l] = {}

TakeLock(c) ==
  /\ Taking(c, "lock") \/ Taking(c, "try")
  /\ FreeForWriting(Next1(c).lock)
  /\ owner' = [owner EXCEPT ![Next1(c).lock] = c]
  /\ Remaining(c)
  /\ UNCHANGED <<kinds, shared, handles, barrier>>

TakeShared(c) ==
  /\ Taking(c, "share")
  /\ owner[Next1(c).lock] = "none"
  /\ shared' = [shared EXCEPT ![Next1(c).lock] = @ \cup {c}]
  /\ Remaining(c)
  /\ UNCHANGED <<kinds, owner, handles, barrier>>

GiveLock(c) ==
  /\ Taking(c, "unlock")
  /\ owner' = [owner EXCEPT ![Next1(c).lock] = "none"]
  /\ Remaining(c)
  /\ UNCHANGED <<kinds, shared, handles, barrier>>

Passes(c) ==
  /\ Taking(c, "check") \/ (Taking(c, "drain") /\ shared[Next1(c).lock] = {})
  /\ Remaining(c)
  /\ UNCHANGED <<kinds, owner, shared, handles, barrier>>

(* An error path: skip to the clean-up.                                    *)
Fails(c) ==
  /\ \/ Taking(c, "check")
     \/ Taking(c, "try") /\ ~FreeForWriting(Next1(c).lock)
  /\ LET i == CHOOSE j \in DOMAIN left[c] :
                /\ left[c][j].act = "out"
                /\ \A k \in 1..(j - 1) : left[c][k].act # "out"
     IN  left' = [left EXCEPT ![c] = SubSeq(@, i, Len(@))]
  /\ UNCHANGED <<kinds, owner, shared, handles, barrier>>

CleansUp(c) ==
  /\ Taking(c, "out")
  /\ LET keep == Next1(c).keep
     IN  /\ owner' = [l \in Locks |-> IF owner[l] = c /\ l \notin keep
                                      THEN "none" ELSE owner[l]]
         /\ shared' = [l \in Locks |-> IF l \in keep THEN shared[l]
                                       ELSE shared[l] \ {c}]
  /\ handles' = handles \ {c}
  /\ Remaining(c)
  /\ UNCHANGED <<kinds, barrier>>

(* jbd3__journal_start waits for a locked transaction; a nested start      *)
(* joins the caller's own handle.                                          *)
StartHandle(c) ==
  /\ Taking(c, "start")
  /\ c \in handles \/ ~barrier
  /\ handles' = handles \cup {c}
  /\ Remaining(c)
  /\ UNCHANGED <<kinds, owner, shared, barrier>>

StopHandle(c) ==
  /\ Taking(c, "stop")
  /\ handles' = handles \ {c}
  /\ Remaining(c)
  /\ UNCHANGED <<kinds, owner, shared, barrier>>

(* kjournald3 locks the transaction, and goes on when its handles stopped. *)
CommitLocks ==
  /\ ~barrier
  /\ barrier' = TRUE
  /\ UNCHANGED <<kinds, left, owner, shared, handles>>

CommitProceeds ==
  /\ barrier
  /\ handles = {}
  /\ barrier' = FALSE
  /\ UNCHANGED <<kinds, left, owner, shared, handles>>

LockNext ==
  \/ \E c \in Caller :
       \/ Begin(c) \/ TakeLock(c) \/ TakeShared(c) \/ GiveLock(c)
       \/ Passes(c) \/ Fails(c) \/ CleansUp(c)
       \/ StartHandle(c) \/ StopHandle(c)
  \/ CommitLocks \/ CommitProceeds

LockSpec == LockInit /\ [][LockNext]_lockVars

-----------------------------------------------------------------------------
(* Whom a caller waits for.                                                *)
WaitsFor(c) ==
  CASE Idle(c) -> {}
    [] Taking(c, "lock") ->
         shared[Next1(c).lock] \cup ({owner[Next1(c).lock]} \ {"none"})
    [] Taking(c, "share") -> {owner[Next1(c).lock]} \ {"none"}
    [] Taking(c, "drain") -> shared[Next1(c).lock]
    [] Taking(c, "start") -> IF barrier /\ c \notin handles THEN handles
                             ELSE {}
    [] OTHER -> {}

(* The types of the variables.                                             *)
LockTypeOK ==
  /\ kinds \in OpSets
  /\ \A c \in Caller : \A i \in DOMAIN left[c] : left[c][i].lock \in Locks
  /\ owner \in [Locks -> Caller \cup {"none"}]
  /\ shared \in [Locks -> SUBSET Caller]
  /\ handles \subseteq Caller
  /\ barrier \in BOOLEAN

(* No circle of callers waits for each other's locks and handles: neither  *)
(* two renames that lock the same two roots, nor a rename and a demotion   *)
(* that lock directories, nor a commit between a handle and i_li_lock.     *)
(* Of any callers, one waits for none of them.                             *)
NobodyStuck ==
  \A callers \in (SUBSET Caller) \ {{}} :
    \E c \in callers : WaitsFor(c) \cap callers = {}
=============================================================================
