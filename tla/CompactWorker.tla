--------------------------- MODULE CompactWorker ---------------------------
(***************************************************************************)
(* Who wakes the compaction worker of a stable root, and when.  An append  *)
(* that finds the delta over its watermark claims the installed generation *)
(* and queues the work; the worker clears claims, defers to a busy root,   *)
(* compacts, retries, and queues itself again for a refill.                *)
(*                                                                         *)
(* The claims are atomics.  Appenders hold i_li_lock while they queue, so  *)
(* there is one at a time; eviction and publication take that lock too.    *)
(* The worker does not.                                                    *)
(***************************************************************************)
EXTENDS Naturals

CONSTANT MaxGen  \* bound: generations ever installed

ASSUME CompactWorkerAssumption == MaxGen \in Nat \ {0}

VARIABLES
  gen,       \* generation of the newest descriptor
  level,     \* its delta: 0 below the watermark, 1 over it, 2 urgent
  blob,      \* i_stable_blob # NULL
  sched,     \* i_li_compact_scheduled_generation
  urg,       \* i_li_compact_urgent_generation
  queue,     \* the two callers of ext5_stable_queue_compact
  queued,    \* compact_work is on its timer or on the queue
  wk,        \* the running callback and the generation it looked at
  demote,    \* i_li_demote_pending # 0
  excused,   \* history: the worker last gave up in the open
  abandoned  \* history: the generation whose claim a worker left behind, or 0

workerVars ==
  <<gen, level, blob, sched, urg, queue, queued, wk, demote, excused,
    abandoned>>

Gens == 0..MaxGen

QueueCall == [pc : {"idle", "claim", "urgent", "mod"}, gen : Gens,
              urgent : BOOLEAN, claimed : BOOLEAN]

NoQueueCall == [pc |-> "idle", gen |-> 0, urgent |-> FALSE, claimed |-> FALSE]

Worker == [pc : {"idle", "look", "unclaim", "unurge", "recheck", "build",
                 "fail", "failUrge", "rescan", "queue"}, gen : Gens]

AtWork(pc, g) == wk' = [pc |-> pc, gen |-> g]

WorkerInit ==
  /\ gen = 1
  /\ level \in 0..2
  /\ blob = FALSE
  /\ sched = 0
  /\ urg = 0
  /\ queue = [c \in {"append", "worker"} |-> NoQueueCall]
  /\ queued = FALSE
  /\ wk = [pc |-> "idle", gen |-> 0]
  /\ demote = FALSE
  /\ excused = TRUE
  /\ abandoned = 0

Unlocked == queue["append"].pc = "idle"

-----------------------------------------------------------------------------
(* ext5_stable_ensure_blob installs, the shrinker uninstalls.              *)
Parse ==
  /\ ~blob
  /\ blob' = TRUE
  /\ excused' = TRUE
  /\ UNCHANGED <<gen, level, sched, urg, queue, queued, wk, demote,
                 abandoned>>

Evict ==
  /\ blob
  /\ Unlocked
  /\ blob' = FALSE
  /\ UNCHANGED <<gen, level, sched, urg, queue, queued, wk, demote, excused,
                 abandoned>>

(* ext5_stable_append_delta under i_li_lock: one more record, and a call   *)
(* of ext5_stable_queue_compact if the delta is over its watermark, unless *)
(* a demotion is about to dissolve the root.                               *)
LogRecord ==
  /\ blob
  /\ Unlocked
  /\ level' \in {level, level + 1} \cap 0..2
  /\ IF level' > 0 /\ ~demote
     THEN /\ queue' = [queue EXCEPT !["append"] =
                         [pc |-> "claim", gen |-> gen, urgent |-> level' = 2,
                          claimed |-> FALSE]]
          /\ excused' = FALSE
     ELSE UNCHANGED queue /\ excused' = (excused \/ demote)
  /\ UNCHANGED <<gen, blob, sched, urg, queued, wk, demote, abandoned>>

(* Mutant: a cancelled tail may rewind an empty delta.                     *)
CancelTailUnguarded ==
  /\ blob
  /\ Unlocked
  /\ level' = level - 1
  /\ UNCHANGED <<gen, blob, sched, urg, queue, queued, wk, demote, excused,
                 abandoned>>

(* A cancelled tail takes a record back.                                   *)
CancelTail ==
  /\ blob
  /\ Unlocked
  /\ level > 0
  /\ level' = level - 1
  /\ UNCHANGED <<gen, blob, sched, urg, queue, queued, wk, demote, excused,
                 abandoned>>

-----------------------------------------------------------------------------
(* ext5_stable_queue_compact: claim the generation ...                     *)
QueueClaim(c) ==
  /\ queue[c].pc = "claim"
  /\ sched' = queue[c].gen
  /\ LET claimed == sched # queue[c].gen
     IN  queue' = [queue EXCEPT ![c] =
                     IF queue[c].urgent \/ claimed
                     THEN [@ EXCEPT !.claimed = claimed,
                                    !.pc = IF queue[c].urgent
                                           THEN "urgent" ELSE "mod"]
                     ELSE NoQueueCall]
  /\ UNCHANGED <<gen, level, blob, urg, queued, wk, demote, excused,
                 abandoned>>

(* ... and its urgency, unless both were claimed before ...                *)
QueueUrgent(c) ==
  /\ queue[c].pc = "urgent"
  /\ urg' = queue[c].gen
  /\ queue' = [queue EXCEPT ![c] =
                 IF urg = queue[c].gen /\ ~queue[c].claimed
                 THEN NoQueueCall ELSE [@ EXCEPT !.pc = "mod"]]
  /\ UNCHANGED <<gen, level, blob, sched, queued, wk, demote, excused,
                 abandoned>>

(* ... and arm the work.                                                   *)
QueueMod(c) ==
  /\ queue[c].pc = "mod"
  /\ queued' = TRUE
  /\ queue' = [queue EXCEPT ![c] = NoQueueCall]
  /\ UNCHANGED <<gen, level, blob, sched, urg, wk, demote, excused, abandoned>>

-----------------------------------------------------------------------------
(* __ext5_stable_compact_work.  A demotion request takes precedence: drop  *)
(* both claims.                                                            *)
WorkStart ==
  /\ queued
  /\ wk.pc = "idle"
  /\ queued' = FALSE
  /\ IF demote
     THEN /\ sched' = 0
          /\ urg' = 0
          /\ excused' = TRUE
          /\ UNCHANGED wk
     ELSE AtWork("look", 0) /\ UNCHANGED <<sched, urg, excused>>
  /\ UNCHANGED <<gen, level, blob, queue, demote, abandoned>>

Over == blob /\ level > 0

(* ext5_stable_delta_over_watermark.  Without a blob there is no           *)
(* generation to unclaim; a delta that is not urgent may wait for an idle  *)
(* root.                                                                   *)
WorkLook ==
  /\ wk.pc = "look"
  /\ \/ Over /\ AtWork("build", gen) /\ UNCHANGED <<queued, abandoned>>
     \/ /\ Over /\ level = 1
        /\ AtWork("idle", 0) /\ queued' = TRUE /\ UNCHANGED abandoned
     \/ /\ blob /\ ~Over
        /\ AtWork("unclaim", gen) /\ UNCHANGED <<queued, abandoned>>
     \/ /\ ~blob
        /\ AtWork("recheck", 0)
        /\ abandoned' = sched
        /\ UNCHANGED queued
  /\ UNCHANGED <<gen, level, blob, sched, urg, queue, demote, excused>>

Unset(claim, g) == IF claim = g THEN 0 ELSE claim

WorkUnclaim ==
  /\ wk.pc \in {"unclaim", "fail"}
  /\ sched' = Unset(sched, wk.gen)
  /\ AtWork(IF wk.pc = "unclaim" THEN "unurge" ELSE "failUrge", wk.gen)
  /\ UNCHANGED <<gen, level, blob, urg, queue, queued, demote, excused,
                 abandoned>>

WorkUnurge ==
  /\ wk.pc \in {"unurge", "failUrge"}
  /\ urg' = Unset(urg, wk.gen)
  /\ AtWork(IF wk.pc = "unurge" THEN "recheck" ELSE "idle", 0)
  /\ excused' = (excused \/ wk.pc = "failUrge")
  /\ UNCHANGED <<gen, level, blob, sched, queue, queued, demote, abandoned>>

(* Mutant: the worker does not look again after it dropped its claim.      *)
WorkNoRecheck ==
  /\ wk.pc \in {"recheck", "rescan"}
  /\ IF Over /\ wk.pc = "rescan"
     THEN /\ queue' = [queue EXCEPT !["worker"] =
                         [pc |-> "claim", gen |-> gen, urgent |-> level = 2,
                          claimed |-> FALSE]]
          /\ AtWork("queue", 0)
     ELSE UNCHANGED queue /\ AtWork("idle", 0)
  /\ UNCHANGED <<gen, level, blob, sched, urg, queued, demote, excused,
                 abandoned>>

(* Look again: an appender may have seen the old claim.  The same after a  *)
(* compaction: a refill during reclamation gets a later callback.          *)
WorkRecheck ==
  /\ wk.pc \in {"recheck", "rescan"}
  /\ IF Over
     THEN /\ queue' = [queue EXCEPT !["worker"] =
                         [pc |-> "claim", gen |-> gen, urgent |-> level = 2,
                          claimed |-> FALSE]]
          /\ AtWork("queue", 0)
     ELSE UNCHANGED queue /\ AtWork("idle", 0)
  /\ UNCHANGED <<gen, level, blob, sched, urg, queued, demote, excused,
                 abandoned>>

WorkQueued ==
  /\ wk.pc = "queue"
  /\ queue["worker"].pc = "idle"
  /\ AtWork("idle", 0)
  /\ UNCHANGED <<gen, level, blob, sched, urg, queue, queued, demote, excused,
                 abandoned>>

(* Rapid refills: ask for a demotion instead of compacting.  The request   *)
(* is accepted, or merged into one that has come in meanwhile ...          *)
WorkDemotes ==
  /\ wk.pc = "build"
  /\ demote' = TRUE
  /\ excused' = TRUE
  /\ abandoned' = wk.gen
  /\ AtWork("idle", 0)
  /\ UNCHANGED <<gen, level, blob, sched, urg, queue, queued>>

(* ... or it is refused: a rename has reserved the root (-EAGAIN), or the   *)
(* work cannot be queued.  The callback returns and keeps its claim.       *)
WorkRefused ==
  /\ wk.pc = "build"
  /\ abandoned' = wk.gen
  /\ AtWork("idle", 0)
  /\ UNCHANGED <<gen, level, blob, sched, urg, queue, queued, demote, excused>>

(* ext5_stable_compact published: a new generation whose delta is the tail *)
(* copied while it was built.                                              *)
WorkCompacts ==
  /\ wk.pc = "build"
  /\ ~demote
  /\ Unlocked
  /\ gen < MaxGen
  /\ gen' = gen + 1
  /\ level' \in 0..level
  /\ blob' = TRUE
  /\ AtWork("rescan", 0)
  /\ UNCHANGED <<sched, urg, queue, queued, demote, excused, abandoned>>

(* Every record was cancelled meanwhile: already compact, so no new        *)
(* generation, and the claim on this one stays.                            *)
WorkFindsEmpty ==
  /\ wk.pc = "build"
  /\ blob
  /\ level = 0
  /\ abandoned' = wk.gen
  /\ AtWork("rescan", 0)
  /\ UNCHANGED <<gen, level, blob, sched, urg, queue, queued, demote, excused>>

(* It yielded to mutations or to a demotion request (-EAGAIN), or failed.  *)
WorkYields ==
  /\ wk.pc = "build"
  /\ queued' = TRUE
  /\ AtWork("rescan", 0)
  /\ UNCHANGED <<gen, level, blob, sched, urg, queue, demote, excused,
                 abandoned>>

WorkFails ==
  /\ wk.pc = "build"
  /\ AtWork("fail", wk.gen)
  /\ UNCHANGED <<gen, level, blob, sched, urg, queue, queued, demote, excused,
                 abandoned>>

-----------------------------------------------------------------------------
(* The ioctl compacts by itself.                                           *)
ForceCompact ==
  /\ ~demote
  /\ Unlocked
  /\ gen < MaxGen
  /\ gen' = gen + 1
  /\ level' \in 0..level
  /\ blob' = TRUE
  /\ excused' = TRUE
  /\ UNCHANGED <<sched, urg, queue, queued, wk, demote, abandoned>>

(* A demotion is requested; its worker takes a branch out, which drops the *)
(* claims, or gives up.                                                    *)
RequestDemote ==
  /\ ~demote
  /\ demote' = TRUE
  /\ UNCHANGED <<gen, level, blob, sched, urg, queue, queued, wk, excused,
                 abandoned>>

DemoteBranch ==
  /\ demote
  /\ Unlocked
  /\ sched' = 0
  /\ urg' = 0
  /\ excused' = TRUE
  /\ UNCHANGED <<gen, level, blob, queue, queued, wk, demote, abandoned>>

ReleaseDemote ==
  /\ demote
  /\ demote' = FALSE
  /\ UNCHANGED <<gen, level, blob, sched, urg, queue, queued, wk, excused,
                 abandoned>>

WorkerNext ==
  \/ Parse
  \/ Evict
  \/ LogRecord
  \/ CancelTail
  \/ \E c \in {"append", "worker"} :
       QueueClaim(c) \/ QueueUrgent(c) \/ QueueMod(c)
  \/ WorkStart
  \/ WorkLook
  \/ WorkUnclaim
  \/ WorkUnurge
  \/ WorkRecheck
  \/ WorkQueued
  \/ WorkDemotes
  \/ WorkRefused
  \/ WorkCompacts
  \/ WorkFindsEmpty
  \/ WorkYields
  \/ WorkFails
  \/ ForceCompact
  \/ RequestDemote
  \/ DemoteBranch
  \/ ReleaseDemote

WorkerSpec == WorkerInit /\ [][WorkerNext]_workerVars
-----------------------------------------------------------------------------
WorkerTypeOK ==
  /\ gen \in Gens
  /\ level \in 0..2
  /\ blob \in BOOLEAN
  /\ sched \in Gens
  /\ urg \in Gens
  /\ queue \in [{"append", "worker"} -> QueueCall]
  /\ queued \in BOOLEAN
  /\ wk \in Worker
  /\ demote \in BOOLEAN
  /\ excused \in BOOLEAN
  /\ abandoned \in Gens

(* An append that crossed the watermark has a worker on its way as long as *)
(* the delta stays over it, unless a worker has since given up for a       *)
(* demotion request or a failure: no wake-up falls between an appender     *)
(* that sees a claim and a worker that clears it.                          *)
Awaited == queued \/ wk.pc # "idle" \/ ~Unlocked

Woken == Over /\ ~excused => Awaited

(* The same for every generation but one whose claim a worker has left     *)
(* behind: it found no blob, it asked for a demotion and was heard or      *)
(* refused, or it found the delta emptied by cancels.                      *)
WokenUnlessAbandoned == abandoned # gen => Woken
=============================================================================
