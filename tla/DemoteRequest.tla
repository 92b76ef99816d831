--------------------------- MODULE DemoteRequest ---------------------------
(***************************************************************************)
(* The one demotion request of a stable root: who may claim it, merge into *)
(* it, reserve it for a rename, run it and release it.                     *)
(*                                                                         *)
(* Callers (the compaction worker, renames) and the demote worker share    *)
(* atomics, not a lock; each atomic the others can observe in between is a *)
(* step of its own.  What a demotion does to the index is one step here.   *)
(***************************************************************************)
EXTENDS Naturals, FiniteSets

CONSTANTS Churn,    \* the compaction worker of the root
          Renamer,  \* the cross-directory rename s_vfs_rename_mutex admits
          Plid,     \* branches a request may name
          Whole     \* plid 0: the whole root

ASSUME DemoteRequestAssumption == Whole \notin Plid /\ Churn # Renamer

Caller == {Churn, Renamer}

VARIABLES
  pending,   \* i_li_demote_pending: 0 idle, 1 policy, 2 reserved, 3 rehome
  req,       \* i_li_demote_plid, _urgent; hint: target, parent and version
  target,    \* demote_target_ref: the branch whose inode is held, or Whole
  rehome,    \* branches whose inode has i_li_rehome_pending set
  call,      \* per caller: where it is in its call, and its arguments
  queued,    \* demote_work is on its timer or on the queue
  held,      \* demote_work_ref: the work pins the root inode
  wk,        \* the running callback and its locals
  branches,  \* branches the root still routes; {} once it is demoted
  root,      \* EXT5_LIDIR_ROOT_FL
  merged,    \* history: a merge has hit a reserved or started hand-off
  stray      \* history: a merge has re-armed work that was no longer queued

requestVars == <<pending, req, target, rehome, call, queued, held, wk,
                 branches, root, merged, stray>>

Request == [plid : Plid \cup {Whole}, urgent : BOOLEAN, hint : BOOLEAN]

CallPc == {"idle", "seen", "kick", "claimed", "reserved", "renaming",
           "started"}

Call == [pc : CallPc, plid : Plid \cup {Whole}, wait : BOOLEAN,
         hint : BOOLEAN]

Worker == [pc : {"idle", "run", "again", "release", "publish", "finish"},
           plid : Plid \cup {Whole}, rehome : BOOLEAN]

NoCall == [pc |-> "idle", plid |-> Whole, wait |-> FALSE, hint |-> FALSE]
NoRun == [pc |-> "idle", plid |-> Whole, rehome |-> FALSE]

Goto(c, pc) == call' = [call EXCEPT ![c].pc = pc]

-----------------------------------------------------------------------------
(* A promoted root with nothing requested.                                 *)
RequestInit ==
  /\ pending = 0
  /\ req = [plid |-> Whole, urgent |-> FALSE, hint |-> FALSE]
  /\ target = Whole
  /\ rehome = {}
  /\ call = [c \in Caller |-> NoCall]
  /\ queued = FALSE
  /\ held = FALSE
  /\ wk = NoRun
  /\ branches = Plid
  /\ root = TRUE
  /\ merged = FALSE
  /\ stray = FALSE

-----------------------------------------------------------------------------
(* What callers ask for: churn waits for the root to be idle, a rename     *)
(* that must be retried asks for the whole root, or for a branch by hint.  *)
Wanted(c) ==
  IF c = Churn
  THEN [plid : Plid \cup {Whole}, wait : {TRUE}, hint : {FALSE}]
  ELSE [plid : {Whole}, wait : {FALSE}, hint : {FALSE}]
       \cup [plid : Plid, wait : {FALSE}, hint : {TRUE}]

(* __ext5_schedule_demote_plid: try to take the request from 0 to 1.  A    *)
(* hand-off in states 2 and 3 refuses the caller.                          *)
Claim(c, w) ==
  /\ call[c].pc = "idle"
  /\ root
  /\ pending < 2
  /\ call' = [call EXCEPT ![c] =
                [pc |-> IF pending = 0 THEN "claimed" ELSE "seen",
                 plid |-> w.plid, wait |-> w.wait, hint |-> w.hint]]
  /\ pending' = 1
  /\ UNCHANGED <<req, target, rehome, queued, held, wk, branches, root,
                 merged, stray>>

(* The claimant fills the request in and queues the work with a reference; *)
(* if the work is queued already it gives the claim back.                  *)
QueueClaimed(c) ==
  /\ call[c].pc = "claimed"
  /\ Goto(c, "idle")
  /\ IF queued
     THEN /\ pending' = 0
          /\ req' = [plid |-> call[c].plid, urgent |-> FALSE, hint |-> FALSE]
          /\ UNCHANGED <<queued, held>>
     ELSE /\ req' = [plid |-> call[c].plid, urgent |-> ~call[c].wait,
                     hint |-> call[c].hint]
          /\ queued' = TRUE
          /\ held' = TRUE
          /\ UNCHANGED pending
  /\ UNCHANGED <<target, rehome, wk, branches, root, merged, stray>>

(* A caller that saw state 1 merges into the request: plid 0 widens it to  *)
(* the whole root, an urgent caller marks it and looks whether the work is *)
(* queued.                                                                 *)
Merge(c) ==
  /\ call[c].pc = "seen"
  /\ req' = [plid |-> IF call[c].plid = Whole THEN Whole ELSE req.plid,
             urgent |-> req.urgent \/ ~call[c].wait,
             hint |-> req.hint /\ call[c].plid # Whole]
  /\ Goto(c, IF ~call[c].wait /\ queued THEN "kick" ELSE "idle")
  /\ merged' = (merged \/ pending \in {2, 3})
  /\ UNCHANGED <<pending, target, rehome, queued, held, wk, branches, root,
                 stray>>

(* ... and then calls mod_delayed_work, which queues it if it is not.      *)
Kick(c) ==
  /\ call[c].pc = "kick"
  /\ Goto(c, "idle")
  /\ queued' = TRUE
  /\ stray' = (stray \/ ~queued)
  /\ UNCHANGED <<pending, req, target, rehome, held, wk, branches, root,
                 merged>>

-----------------------------------------------------------------------------
(* ext5_reserve_demote_plid_rename, before the rename touches a name.      *)
Reserve(c, p) ==
  /\ c = Renamer
  /\ call[c].pc = "idle"
  /\ root
  /\ pending = 0
  /\ IF target # Whole
     THEN UNCHANGED <<pending, req, target, call>>
     ELSE /\ pending' = 2
          /\ target' = p
          /\ req' = [plid |-> p, urgent |-> TRUE, hint |-> TRUE]
          /\ call' = [call EXCEPT ![c] = [pc |-> "reserved", plid |-> p,
                                          wait |-> FALSE, hint |-> TRUE]]
  /\ UNCHANGED <<rehome, queued, held, wk, branches, root, merged, stray>>

(* Mutant: the cancel subtracts instead of checking for state 2.           *)
CancelBySubtracting(c) ==
  /\ call[c].pc \in {"reserved", "renaming"}
  /\ Goto(c, "idle")
  /\ pending' = pending - 2
  /\ req' = [req EXCEPT !.urgent = FALSE, !.hint = FALSE]
  /\ target' = Whole
  /\ rehome' = rehome \ {target}
  /\ UNCHANGED <<queued, held, wk, branches, root, merged, stray>>

(* Mutant: the cancel leaves the target behind.                            *)
CancelKeepsTarget(c) ==
  /\ call[c].pc \in {"reserved", "renaming"}
  /\ Goto(c, "idle")
  /\ IF pending = 2
     THEN /\ pending' = 0
          /\ req' = [req EXCEPT !.urgent = FALSE, !.hint = FALSE]
          /\ rehome' = rehome \ {target}
     ELSE UNCHANGED <<pending, req, rehome>>
  /\ UNCHANGED <<target, queued, held, wk, branches, root, merged, stray>>

(* ext5_cancel_reserved_demote_plid_rename.                                *)
CancelReserved(c) ==
  /\ call[c].pc \in {"reserved", "renaming"}
  /\ Goto(c, "idle")
  /\ IF pending = 2
     THEN /\ pending' = 0
          /\ req' = [req EXCEPT !.urgent = FALSE, !.hint = FALSE]
          /\ target' = Whole
          /\ rehome' = rehome \ {target}
     ELSE UNCHANGED <<pending, req, target, rehome>>
  /\ UNCHANGED <<queued, held, wk, branches, root, merged, stray>>

(* Mutant: ext5_rename does not look again.                                *)
RenameNoRecheck(c) ==
  /\ call[c].pc = "reserved"
  /\ Goto(c, "renaming")
  /\ rehome' = rehome \cup {call[c].plid}
  /\ UNCHANGED <<pending, req, target, queued, held, wk, branches, root,
                 merged, stray>>

(* ext5_rename looks again: an earlier worker may have taken the branch    *)
(* out of the root (then only the cancel is left).                         *)
RenameRecheck(c) ==
  /\ call[c].pc = "reserved"
  /\ call[c].plid \in branches
  /\ Goto(c, "renaming")
  /\ rehome' = rehome \cup {call[c].plid}
  /\ UNCHANGED <<pending, req, target, queued, held, wk, branches, root,
                 merged, stray>>

(* The rename committed: ext5_start_reserved_demote_plid_rename takes the  *)
(* request from 2 to 3, or warns and forgets it.                           *)
StartReserved(c) ==
  /\ call[c].pc = "renaming"
  /\ req' = [req EXCEPT !.hint = TRUE]
  /\ IF pending = 2
     THEN pending' = 3 /\ Goto(c, "started")
     ELSE UNCHANGED pending /\ Goto(c, "idle")
  /\ UNCHANGED <<target, rehome, queued, held, wk, branches, root, merged,
                 stray>>

(* ... and queues the work with a reference.                               *)
QueueStarted(c) ==
  /\ call[c].pc = "started"
  /\ Goto(c, "idle")
  /\ queued' = TRUE
  /\ held' = TRUE
  /\ UNCHANGED <<pending, req, target, rehome, wk, branches, root, merged,
                 stray>>

-----------------------------------------------------------------------------
(* __ext5_demote_work_fn reads the request.  A request that is not urgent  *)
(* may be put off until the root is idle.                                  *)
WorkRun ==
  /\ queued
  /\ wk.pc = "idle"
  /\ wk' = [pc |-> IF root THEN "run" ELSE "release", plid |-> req.plid,
            rehome |-> target # Whole /\ target \in rehome]
  /\ queued' = FALSE
  /\ UNCHANGED <<pending, req, target, rehome, call, held, branches, root,
                 merged, stray>>

WorkDefer ==
  /\ queued
  /\ wk.pc = "idle"
  /\ ~req.urgent
  /\ wk' = [NoRun EXCEPT !.pc = "finish"]
  /\ UNCHANGED <<pending, req, target, rehome, call, queued, held, branches,
                 root, merged, stray>>

(* A demotion of p needs the root and the branch, and s_vfs_rename_mutex   *)
(* before it locks the directories; it leaves p unrouted.                  *)
Demoted(p) ==
  /\ root
  /\ \A c \in Caller : call[c].pc \notin {"reserved", "renaming"}
  /\ \/ p = Whole /\ branches' = {} /\ root' = FALSE /\ rehome' = {}
     \/ /\ p \in branches
        /\ branches' = branches \ {p}
        /\ rehome' = rehome \ {p}
        /\ UNCHANGED root

(* The demotion succeeds; if the request was widened meanwhile, the whole  *)
(* root is next.                                                           *)
WorkDemote ==
  /\ wk.pc = "run"
  /\ Demoted(wk.plid)
  /\ wk' = [wk EXCEPT !.pc = IF wk.plid # Whole /\ req.plid = Whole /\ root
                             THEN "again" ELSE "release"]
  /\ UNCHANGED <<pending, req, target, call, queued, held, merged, stray>>

WorkDemoteAgain ==
  /\ wk.pc = "again"
  /\ Demoted(Whole)
  /\ wk' = [wk EXCEPT !.pc = "release"]
  /\ UNCHANGED <<pending, req, target, call, queued, held, merged, stray>>

(* A validation lost to a mutation or a compaction (-EAGAIN), or a rehome  *)
(* failed: keep the request and queue the work again.                      *)
WorkRetry ==
  /\ wk.pc \in {"run", "again"}
  /\ req' = [req EXCEPT !.urgent = FALSE, !.hint = @ /\ wk.rehome]
  /\ queued' = TRUE
  /\ wk' = [wk EXCEPT !.pc = "finish"]
  /\ UNCHANGED <<pending, target, rehome, call, held, branches, root, merged,
                 stray>>

(* Mutant: a rehome that failed is given up as well.                       *)
WorkFailAny ==
  /\ wk.pc \in {"run", "again"}
  /\ wk' = [wk EXCEPT !.pc = "release"]
  /\ UNCHANGED <<pending, req, target, rehome, call, queued, held, branches,
                 root, merged, stray>>

(* Any other failure of a demotion that is not a rehome gives it up.       *)
WorkFail ==
  /\ wk.pc \in {"run", "again"}
  /\ ~wk.rehome
  /\ wk' = [wk EXCEPT !.pc = "release"]
  /\ UNCHANGED <<pending, req, target, rehome, call, queued, held, branches,
                 root, merged, stray>>

(* Mutant: IDLE is published together with the cleared fields, and again.  *)
WorkReleaseIdle ==
  /\ wk.pc = "release"
  /\ target' = Whole
  /\ rehome' = rehome \ {target}
  /\ req' = [req EXCEPT !.urgent = FALSE, !.hint = FALSE]
  /\ pending' = 0
  /\ wk' = [wk EXCEPT !.pc = "publish"]
  /\ UNCHANGED <<call, queued, held, branches, root, merged, stray>>

(* out_release: clear the request, drop the target ...                     *)
WorkRelease ==
  /\ wk.pc = "release"
  /\ target' = Whole
  /\ rehome' = rehome \ {target}
  /\ req' = [req EXCEPT !.urgent = FALSE, !.hint = FALSE]
  /\ wk' = [wk EXCEPT !.pc = "publish"]
  /\ UNCHANGED <<pending, call, queued, held, branches, root, merged, stray>>

(* ... and publish IDLE last.                                              *)
WorkPublish ==
  /\ wk.pc = "publish"
  /\ pending' = 0
  /\ wk' = [wk EXCEPT !.pc = "finish"]
  /\ UNCHANGED <<req, target, rehome, call, queued, held, branches, root,
                 merged, stray>>

(* Mutant: the reference goes although the work has been queued again.     *)
WorkFinishDrops ==
  /\ wk.pc = "finish"
  /\ held' = FALSE
  /\ wk' = NoRun
  /\ UNCHANGED <<pending, req, target, rehome, call, queued, branches, root,
                 merged, stray>>

(* ext5_li_work_ref_finish: the reference goes with the last callback.     *)
WorkFinish ==
  /\ wk.pc = "finish"
  /\ held' = (held /\ queued)
  /\ wk' = NoRun
  /\ UNCHANGED <<pending, req, target, rehome, call, queued, branches, root,
                 merged, stray>>

-----------------------------------------------------------------------------
(* The debug ioctl and a promotion that subsumes the root demote it        *)
(* without a request; a later promotion makes it a root again.             *)
ForeignDemote ==
  /\ Demoted(Whole)
  /\ UNCHANGED <<pending, req, target, call, queued, held, wk, merged, stray>>

Promote ==
  /\ ~root
  /\ root' = TRUE
  /\ branches' = Plid \ {target}
  /\ UNCHANGED <<pending, req, target, rehome, call, queued, held, wk,
                 merged, stray>>

RequestNext ==
  \/ \E c \in Caller :
       \/ \E w \in Wanted(c) : Claim(c, w)
       \/ QueueClaimed(c)
       \/ Merge(c)
       \/ Kick(c)
       \/ \E p \in Plid : Reserve(c, p)
       \/ CancelReserved(c)
       \/ RenameRecheck(c)
       \/ StartReserved(c)
       \/ QueueStarted(c)
  \/ WorkRun
  \/ WorkDefer
  \/ WorkDemote
  \/ WorkDemoteAgain
  \/ WorkRetry
  \/ WorkFail
  \/ WorkRelease
  \/ WorkPublish
  \/ WorkFinish
  \/ ForeignDemote
  \/ Promote

RequestSpec == RequestInit /\ [][RequestNext]_requestVars
-----------------------------------------------------------------------------
RequestTypeOK ==
  /\ pending \in 0..3
  /\ req \in Request
  /\ target \in Plid \cup {Whole}
  /\ rehome \subseteq Plid
  /\ call \in [Caller -> Call]
  /\ queued \in BOOLEAN
  /\ held \in BOOLEAN
  /\ wk \in Worker
  /\ branches \subseteq Plid
  /\ root \in BOOLEAN
  /\ merged \in BOOLEAN
  /\ stray \in BOOLEAN

Busy == wk.pc \in {"run", "again", "release", "publish"}

At(pc) == {c \in Caller : call[c].pc = pc}

(* Unless a merge re-armed work that had already run, a request that is    *)
(* not idle has somebody who will release it: its claimant, its rename, or *)
(* the work, queued or running.  An orphan would refuse compaction and     *)
(* demotion of the root for good (i_li_demote_pending).                    *)
RequestOwned ==
  ~stray =>
    /\ pending = 1 => At("claimed") # {} \/ queued \/ Busy
    /\ pending = 2 => At("reserved") \cup At("renaming") # {}
    /\ pending = 3 => At("started") # {} \/ queued \/ Busy
    /\ pending = 0 => ~Busy /\ \A pc \in {"claimed", "started"} : At(pc) = {}

(* Until then the branch a hand-off holds is the one its rename moves, and *)
(* no other path takes or drops it (demote_target_ref, rehome_pending).    *)
TargetHeld ==
  ~stray => /\ target # Whole => pending \in {2, 3}
            /\ \A c \in Caller :
                 call[c].pc \in {"reserved", "renaming", "started"} =>
                   target = call[c].plid

(* Until then the moved branch keeps its source route from the rename's    *)
(* second look to the start of the worker (ext5_rename).                   *)
RouteKept ==
  ~stray => \A c \in Caller :
              call[c].pc = "renaming" => call[c].plid \in branches

(* Until then a started hand-off lets go of its branch only when the       *)
(* branch has left the root, however often the demotion fails before       *)
(* (__ext5_demote_work_fn, "the committed route stays valid").             *)
HandoffCarriedOut ==
  [][~stray' /\ pending = 3 /\ target # Whole /\ target' = Whole =>
       target \notin branches']_requestVars

(* Until then work that is queued or running pins the root inode.          *)
WorkPinsInode == ~stray /\ (queued \/ wk.pc # "idle") => held

-----------------------------------------------------------------------------
(* "States 2 and 3 own a cross-model handoff; merge nothing into them"     *)
(* (__ext5_schedule_demote_plid): the branch a hand-off asks for stays the *)
(* one its rename gave.                                                    *)
NothingMerged ==
  [][pending' = pending /\ pending \in {2, 3} =>
       req'.plid = req.plid]_requestVars

(* "queued work always pins the inode" (ext5_li_work_queue).               *)
QueuedPinsInode == queued => held
=============================================================================
