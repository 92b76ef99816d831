---------------------------- MODULE Workers_proofs ----------------------------
(* Proofs about the components around the background works of a stable     *)
(* root: who wakes the compaction (CompactWorker), what the works hold     *)
(* (WorkOwnership), what a compaction makes (CompactMerge), and the clock  *)
(* the policy reads (OpClock).                                             *)
EXTENDS CompactWorker, OpClock, WorkOwnership, CompactMerge, TLAPS, FiniteSetTheorems

Callers == {"append", "worker"}

(* Every generation that is written down anywhere is not newer than the    *)
(* root's, and an appender, which holds i_li_lock, knows the newest.       *)
Ordered ==
  /\ 0 < gen /\ sched <= gen /\ abandoned <= gen /\ wk.gen <= gen
  /\ \A c \in Callers : queue[c].gen <= gen
  /\ queue["append"].pc # "idle" => queue["append"].gen = gen
  /\ queue["worker"].pc # "idle" => wk.pc = "queue"
  /\ wk.pc = "build" /\ wk.gen < gen => abandoned < gen

(* A call that has just claimed the newest generation.                     *)
Claimed(c) ==
  /\ queue[c].pc \in {"urgent", "mod"}
  /\ queue[c].claimed /\ queue[c].gen = gen

(* Somebody still acts for a claim of the newest generation: it is queued, *)
(* or about to be, or a callback has it in hand and will drop it.          *)
ClaimIsKept ==
  sched = gen /\ abandoned # gen =>
    \/ queued
    \/ \E c \in Callers : Claimed(c)
    \/ wk.pc = "look"
    \/ wk.pc \in {"build", "unclaim", "fail"} /\ wk.gen = gen

(* A call that looks at the claim or arms the work.  A callback that builds *)
(* from an older generation may return without looking at this one.        *)
Pushes(c) == queue[c].gen = gen /\ (queue[c].pc \in {"claim", "mod"} \/ Claimed(c))

Coming ==
  \/ queued
  \/ wk.pc \notin {"idle", "queue", "build"}
  \/ wk.pc = "build" /\ wk.gen = gen
  \/ \E c \in Callers : Pushes(c)

CallIsComing == abandoned # gen /\ Over /\ ~excused => Coming

WorkerIInv == WorkerTypeOK /\ Ordered /\ ClaimIsKept /\ CallIsComing

-----------------------------------------------------------------------------
LEMMA WorkerInitIInv == WorkerInit => WorkerIInv
<1> SUFFICES ASSUME WorkerInit PROVE WorkerIInv
  OBVIOUS
<1>1. WorkerTypeOK
  <2>1. NoQueueCall \in QueueCall
    BY CompactWorkerAssumption DEF NoQueueCall, QueueCall, Gens
  <2>2. wk \in Worker /\ gen \in Gens /\ 0 \in Gens
    BY CompactWorkerAssumption DEF WorkerInit, Worker, Gens
  <2> QED
    BY <2>1, <2>2 DEF WorkerInit, WorkerTypeOK
<1>2. Ordered /\ ClaimIsKept /\ CallIsComing
  BY CompactWorkerAssumption DEF WorkerInit, NoQueueCall, Ordered, ClaimIsKept,
     CallIsComing, Callers
<1> QED
  BY <1>1, <1>2 DEF WorkerIInv

LEMMA WorkerStepType ==
  ASSUME WorkerTypeOK, Ordered, [WorkerNext]_workerVars
  PROVE  WorkerTypeOK'
<1> USE CompactWorkerAssumption DEF WorkerTypeOK
<1>1. gen \in Gens /\ sched \in Gens /\ wk.gen \in Gens /\ 0 \in Gens
  BY DEF Gens, Worker
<1>2. \A c \in Callers : queue[c] \in QueueCall /\ queue[c].gen \in Gens
  BY DEF Callers, QueueCall
<1>3. NoQueueCall \in QueueCall
  BY <1>1 DEF NoQueueCall, QueueCall
<1>4. \A u \in BOOLEAN :
        [pc |-> "claim", gen |-> gen, urgent |-> u, claimed |-> FALSE]
          \in QueueCall
  BY <1>1 DEF QueueCall
<1>5. \A g \in Gens, pc \in {"idle", "look", "unclaim", "unurge", "recheck",
                            "build", "fail", "failUrge", "rescan", "queue"} :
        AtWork(pc, g) => wk' \in Worker
  BY DEF AtWork, Worker
<1>a. CASE Parse
  BY <1>a DEF Parse
<1>b. CASE Evict
  BY <1>b DEF Evict
<1>c. CASE LogRecord
  BY <1>c, <1>4 DEF LogRecord
<1>d. CASE CancelTail
  BY <1>d DEF CancelTail
<1>e. ASSUME NEW c \in Callers, QueueClaim(c) PROVE WorkerTypeOK'
  <2>1. \A b \in BOOLEAN, pc \in {"urgent", "mod"} :
          [queue[c] EXCEPT !.claimed = b, !.pc = pc] \in QueueCall
    BY <1>2 DEF QueueCall
  <2>2. queue' \in [Callers -> QueueCall]
    BY <1>e, <2>1, <1>3 DEF QueueClaim, Callers
  <2> QED
    BY <1>e, <2>2, <1>2 DEF QueueClaim, Callers
<1>f. ASSUME NEW c \in Callers, QueueUrgent(c) PROVE WorkerTypeOK'
  <2>1. [queue[c] EXCEPT !.pc = "mod"] \in QueueCall
    BY <1>2 DEF QueueCall
  <2> QED
    BY <1>f, <2>1, <1>2, <1>3 DEF QueueUrgent, Callers
<1>g. ASSUME NEW c \in Callers, QueueMod(c) PROVE WorkerTypeOK'
  BY <1>g, <1>3 DEF QueueMod, Callers
<1>h. CASE WorkStart
  BY <1>h, <1>1, <1>5 DEF WorkStart
<1>i. CASE WorkLook
  BY <1>i, <1>1, <1>5 DEF WorkLook
<1>j. CASE WorkUnclaim
  BY <1>j, <1>1, <1>5 DEF WorkUnclaim, Unset
<1>k. CASE WorkUnurge
  BY <1>k, <1>1, <1>5 DEF WorkUnurge, Unset
<1>l. CASE WorkRecheck
  BY <1>l, <1>1, <1>4, <1>5 DEF WorkRecheck
<1>m. CASE WorkQueued
  BY <1>m, <1>1, <1>5 DEF WorkQueued
<1>n. CASE WorkDemotes \/ WorkRefused
  BY <1>n, <1>1, <1>5 DEF WorkDemotes, WorkRefused
<1>o. CASE WorkCompacts
  BY <1>o, <1>1, <1>5 DEF WorkCompacts, Gens
<1>p. CASE WorkFindsEmpty
  BY <1>p, <1>1, <1>5 DEF WorkFindsEmpty
<1>q. CASE WorkYields
  BY <1>q, <1>1, <1>5 DEF WorkYields
<1>r. CASE WorkFails
  BY <1>r, <1>1, <1>5 DEF WorkFails
<1>s. CASE ForceCompact
  BY <1>s DEF ForceCompact, Gens
<1>t. CASE RequestDemote \/ ReleaseDemote
  BY <1>t DEF RequestDemote, ReleaseDemote
<1>u. CASE DemoteBranch
  BY <1>u, <1>1 DEF DemoteBranch
<1>v. CASE UNCHANGED workerVars
  BY <1>v DEF workerVars
<1> QED
  BY <1>a, <1>b, <1>c, <1>d, <1>e, <1>f, <1>g, <1>h, <1>i, <1>j, <1>k, <1>l,
     <1>m, <1>n, <1>o, <1>p, <1>q, <1>r, <1>s, <1>t, <1>u, <1>v
     DEF WorkerNext, Callers

LEMMA WorkerStepSafe ==
  ASSUME WorkerIInv, [WorkerNext]_workerVars
  PROVE  Ordered' /\ ClaimIsKept' /\ CallIsComing'
<1> DEFINE Goal == Ordered' /\ ClaimIsKept' /\ CallIsComing'
<1>0. WorkerTypeOK /\ Ordered /\ ClaimIsKept /\ CallIsComing
  BY DEF WorkerIInv
<1> USE <1>0, CompactWorkerAssumption DEF WorkerTypeOK, Gens, Worker, QueueCall,
        NoQueueCall, AtWork, Ordered, ClaimIsKept, CallIsComing, Coming, Pushes,
        Claimed, Over, Callers
<1>1. CASE Parse \/ Evict \/ CancelTail
  BY <1>1 DEF Parse, Evict, CancelTail
<1>2. CASE LogRecord
  BY <1>2 DEF LogRecord, Unlocked
<1>3. ASSUME NEW c \in Callers, QueueClaim(c) PROVE Goal
  <2>1. CASE queue[c].urgent
    BY <1>3, <2>1 DEF QueueClaim
  <2>2. CASE ~queue[c].urgent /\ sched # queue[c].gen
    BY <1>3, <2>2 DEF QueueClaim
  <2>3. CASE ~queue[c].urgent /\ sched = queue[c].gen
    BY <1>3, <2>3 DEF QueueClaim
  <2> QED
    BY <2>1, <2>2, <2>3
<1>4. ASSUME NEW c \in Callers, QueueUrgent(c) PROVE Goal
  BY <1>4 DEF QueueUrgent
<1>5. ASSUME NEW c \in Callers, QueueMod(c) PROVE Goal
  BY <1>5 DEF QueueMod
<1>6. CASE WorkStart
  BY <1>6 DEF WorkStart
<1>7. CASE WorkLook
  BY <1>7 DEF WorkLook
<1>8. CASE WorkUnclaim
  BY <1>8 DEF WorkUnclaim, Unset
<1>9. CASE WorkUnurge
  BY <1>9 DEF WorkUnurge, Unset
<1>10. CASE WorkRecheck
  BY <1>10 DEF WorkRecheck
<1>11. CASE WorkQueued
  BY <1>11 DEF WorkQueued
<1>12. CASE WorkDemotes \/ WorkFindsEmpty
  BY <1>12 DEF WorkDemotes, WorkFindsEmpty
<1>r. CASE WorkRefused
  BY <1>r DEF WorkRefused
<1>13. CASE WorkYields \/ WorkFails
  BY <1>13 DEF WorkYields, WorkFails
<1>14. CASE WorkCompacts
  BY <1>14 DEF WorkCompacts, Unlocked
<1>15. CASE ForceCompact
  BY <1>15 DEF ForceCompact, Unlocked
<1>16. CASE RequestDemote \/ DemoteBranch \/ ReleaseDemote
  BY <1>16 DEF RequestDemote, DemoteBranch, ReleaseDemote
<1>17. CASE UNCHANGED workerVars
  BY <1>17 DEF workerVars
<1> QED
  BY <1>1, <1>2, <1>3, <1>4, <1>5, <1>6, <1>7, <1>8, <1>9, <1>10, <1>11,
     <1>12, <1>13, <1>14, <1>15, <1>16, <1>17, <1>r DEF WorkerNext

LEMMA WorkerInvariance == WorkerSpec => []WorkerIInv
<1>1. WorkerIInv /\ [WorkerNext]_workerVars => WorkerIInv'
  BY WorkerStepType, WorkerStepSafe DEF WorkerIInv
<1> QED
  BY WorkerInitIInv, <1>1, PTL DEF WorkerSpec

(* No wake-up of the compaction worker falls between an appender that sees *)
(* a claim and the worker that clears it, for any number of generations,   *)
(* as long as no worker has left its claim on the generation behind.       *)
THEOREM NoWakeupLost == WorkerSpec => []WokenUnlessAbandoned
<1>1. WorkerIInv => WokenUnlessAbandoned
  BY DEF WorkerIInv, WorkerTypeOK, Ordered, CallIsComing, Coming, Pushes,
     Claimed, Callers, WokenUnlessAbandoned, Woken, Awaited, Over, Unlocked
<1> QED
  BY <1>1, WorkerInvariance, PTL

-----------------------------------------------------------------------------
(* The works.                                                              *)
OwnType ==
  /\ OwnTypeOK
  /\ draining \in [dir : Dirs3, works : SUBSET Work, on : BOOLEAN,
                   sync : BOOLEAN]

(* A reference is only ever taken on an inode that is in use, and while    *)
(* mounted a work that is queued or running has one.  An inode on its way  *)
(* out has its works disabled and none queued.                             *)
Holding ==
  /\ \A w \in Work : work[w].held => life[Owner(w)] = "live"
  /\ ~Shutting => \A w \in Work : work[w].pend \/ work[w].run # "no" => work[w].held
  /\ \A w \in Work : life[Owner(w)] # "live" => work[w].dis /\ ~work[w].pend
  /\ \A w \in Work : life[Owner(w)] = "freed" => work[w].run = "no"

(* Who is referred to, and who is not when the file system shuts down.     *)
Referred ==
  /\ \A d \in users : life[d] = "live"
  /\ request = 2 => {Host, Moved} \subseteq users
  /\ Shutting => users = {} /\ request # 2
  /\ target => life[Host] # "freed"
  /\ cached => life[Moved] # "freed"

(* The walk over the inodes: what it has cancelled stays cancelled, but    *)
(* for a demotion that a compaction asks for before it is cancelled too.   *)
Cancelled == ~work[Compacting].pend /\ work[Compacting].run = "no"

Draining3 ==
  /\ draining.on => /\ phase = "drain" /\ life[draining.dir] = "live"
                    /\ \A w \in draining.works : Owner(w) = draining.dir
  /\ draining.sync => /\ draining.on /\ draining.works # {}
                      /\ work[NextToCancel].dis /\ ~work[NextToCancel].pend
  /\ draining.on /\ draining.dir = Host /\ Compacting \notin draining.works => Cancelled
  /\ Host \in drained => Cancelled
  /\ drained # {} => Shutting
  /\ ~draining.on => ~draining.sync /\ draining.works = {}
  /\ \A d \in drained : \A w \in Work : Owner(w) = d => ~work[w].held

(* After the queues were flushed no work is left, and what is still in     *)
(* memory after the eviction is a root and the interior that refers to it. *)
Quiet ==
  phase \in {"evict", "unmounted"} =>
    /\ ~draining.on
    /\ \A w \in Work : ~work[w].pend /\ work[w].run = "no" /\ ~work[w].held

Left ==
  phase = "unmounted" =>
    \/ \A d \in Dirs3 : life[d] = "freed"
    \/ /\ target /\ cached
       /\ life[Host] = "live" /\ life[Moved] = "live"

OwnIInv == OwnType /\ Holding /\ Referred /\ Draining3 /\ Quiet /\ Left

LEMMA WorkFacts ==
  /\ Demote \in Work /\ Owner(Demote) = Host
  /\ Compacting \in Work /\ Owner(Compacting) = Host /\ Demote # Compacting
  /\ Host \in Dirs3 /\ Moved \in Dirs3 /\ Host # Moved
  /\ \A w \in Work : Owner(w) \in Dirs3
BY OwnershipAssumption DEF Demote, Compacting, Work, Owner, Dirs3

(* cancel_delayed_work_sync always has a next work to cancel.              *)
LEMMA NextIsLeft ==
  ASSUME OwnType, draining.works # {}
  PROVE  NextToCancel \in draining.works /\ NextToCancel \in Work
<1>1. \A w \in draining.works : w[2] \in {"promote", "demote", "compact"}
  BY DEF OwnType, OwnTypeOK, Work
<1>2. \A w \in draining.works : DrainOrder(w) \in 1..3
  BY <1>1 DEF DrainOrder
<1>3. \E w \in draining.works : \A v \in draining.works : DrainOrder(w) <= DrainOrder(v)
  <2>1. CASE \E w \in draining.works : DrainOrder(w) = 1
    BY <1>2, <2>1
  <2>2. CASE /\ ~ \E w \in draining.works : DrainOrder(w) = 1
             /\ \E w \in draining.works : DrainOrder(w) = 2
    BY <1>2, <2>2
  <2>3. CASE \A w \in draining.works : DrainOrder(w) = 3
    BY <1>2, <2>3
  <2> QED
    BY <1>2, <2>1, <2>2, <2>3
<1>4. NextToCancel \in draining.works
  BY <1>3 DEF NextToCancel
<1> QED
  BY <1>4 DEF OwnType, OwnTypeOK

LEMMA OwnInitIInv == OwnInit => OwnIInv
<1> SUFFICES ASSUME OwnInit PROVE OwnIInv
  OBVIOUS
<1>1. OwnType
  <2>1. Idle3 \in WorkState
    BY DEF Idle3, WorkState
  <2>2. NotDraining \in [dir : Dirs3, works : SUBSET Work, on : BOOLEAN,
                        sync : BOOLEAN]
    BY WorkFacts DEF NotDraining
  <2> QED
    <3>1. work \in [Work -> WorkState] /\ users \subseteq Dirs3
      BY <2>1 DEF OwnInit
    <3>2. /\ draining \in [dir : Dirs3, works : SUBSET Work, on : BOOLEAN,
                            sync : BOOLEAN]
          /\ draining.dir \in Dirs3 /\ draining.works \subseteq Work
      BY <2>2 DEF OwnInit
    <3>3. /\ life \in [Dirs3 -> {"live", "evicting", "freed"}]
          /\ cached \in BOOLEAN /\ target \in BOOLEAN
          /\ phase \in {"mounted", "drain", "evict", "unmounted"}
          /\ drained \subseteq Dirs3
      BY DEF OwnInit
    <3>4. request \in 0..3 /\ queuedSoFar \in 0..MaxQueued
      <4>1. request = 0 /\ queuedSoFar = 0
        BY DEF OwnInit
      <4> QED
        BY <4>1, OwnershipAssumption
    <3> QED
      BY <3>1, <3>2, <3>3, <3>4 DEF OwnType, OwnTypeOK
<1>2. Holding /\ Referred /\ Draining3 /\ Quiet /\ Left
  BY WorkFacts DEF OwnInit, Idle3, NotDraining, Holding, Referred, Draining3,
     Quiet, Left, Shutting, Cancelled
<1> QED
  BY <1>1, <1>2 DEF OwnIInv

-----------------------------------------------------------------------------
(* What a step does to the works, field by field.                          *)
LEMMA QueuedFields ==
  ASSUME OwnType, NEW w \in Work
  PROVE  /\ Queued(w) \in [Work -> WorkState]
         /\ \A v \in Work :
              /\ Queued(w)[v].run = work[v].run /\ Queued(w)[v].dis = work[v].dis
              /\ Queued(w)[v].held = (work[v].held \/ (v = w /\ ~work[w].dis))
              /\ Queued(w)[v].pend = (work[v].pend \/ (v = w /\ ~work[w].dis))
<1> DEFINE h == work[w].held \/ ~work[w].dis
           p == work[w].pend \/ ~work[w].dis
<1>1. work \in [Work -> WorkState]
  BY DEF OwnType, OwnTypeOK
<1>2. h \in BOOLEAN /\ p \in BOOLEAN
  OBVIOUS
<1>3. Queued(w) = [work EXCEPT ![w] = [work[w] EXCEPT !.held = h, !.pend = p]]
  BY <1>1 DEF Queued, WorkState
<1> HIDE DEF h, p
<1>4. /\ [work[w] EXCEPT !.held = h, !.pend = p] \in WorkState
      /\ [work[w] EXCEPT !.held = h, !.pend = p].held = h
      /\ [work[w] EXCEPT !.held = h, !.pend = p].pend = p
      /\ [work[w] EXCEPT !.held = h, !.pend = p].run = work[w].run
      /\ [work[w] EXCEPT !.held = h, !.pend = p].dis = work[w].dis
  BY <1>1, <1>2 DEF WorkState
<1>5. \A v \in Work \ {w} : Queued(w)[v] = work[v]
  BY <1>1, <1>3
<1>6. Queued(w)[w] = [work[w] EXCEPT !.held = h, !.pend = p]
  BY <1>1, <1>3
<1>7. Queued(w) \in [Work -> WorkState]
  BY <1>1, <1>3, <1>4
<1>8. /\ Queued(w)[w].held = h /\ Queued(w)[w].pend = p
      /\ Queued(w)[w].run = work[w].run /\ Queued(w)[w].dis = work[w].dis
  BY <1>4, <1>6
<1>9. /\ \A v \in Work : /\ Queued(w)[v].run = work[v].run
                         /\ Queued(w)[v].dis = work[v].dis
  BY <1>5, <1>8
<1>10. /\ h = (work[w].held \/ (w = w /\ ~work[w].dis))
       /\ p = (work[w].pend \/ (w = w /\ ~work[w].dis))
  BY DEF h, p
<1> QED
  BY <1>1, <1>5, <1>7, <1>8, <1>9, <1>10 DEF WorkState

-----------------------------------------------------------------------------
LEMMA OwnStepType ==
  ASSUME OwnType, [OwnNext]_ownVars
  PROVE  OwnType'
<1> USE OwnershipAssumption DEF OwnType, OwnTypeOK, UnchangedByQueue, CountQueue
<1>1. ASSUME NEW w \in Work, Schedule(w) PROVE OwnType'
  BY <1>1, QueuedFields DEF Schedule
<1>2. CASE ScheduleDemote3 \/ StartHandoff \/ CompactionDemotes
  <2>1. /\ Queued(Demote) \in [Work -> WorkState] /\ Compacting \in Work
        /\ Queued(Demote)[Compacting] \in WorkState
    BY WorkFacts, QueuedFields
  <2>2. [Queued(Demote) EXCEPT ![Compacting].run = "ends"] \in [Work -> WorkState]
    <3>1. [Queued(Demote)[Compacting] EXCEPT !.run = "ends"] \in WorkState
      BY <2>1 DEF WorkState
    <3> QED
      BY <2>1, <3>1
  <2>3. CASE ScheduleDemote3
    BY <2>1, <2>3 DEF ScheduleDemote3
  <2>4. CASE StartHandoff
    BY <2>1, <2>4 DEF StartHandoff
  <2>5. CASE CompactionDemotes
    <3>1. request' \in {0, 1} /\ work' \in [Work -> WorkState]
          /\ UNCHANGED <<life, users, cached, target, phase, draining, drained,
                         queuedSoFar>>
      BY <2>2, <2>5 DEF CompactionDemotes
    <3>2. request' \in 0..3
      BY <3>1
    <3> QED
      BY <3>1, <3>2
  <2> QED
    BY <1>2, <2>3, <2>4, <2>5
<1>3. CASE ReserveHandoff \/ CancelHandoff \/ CacheRoot
  <2>1. CASE ReserveHandoff
    BY <2>1 DEF ReserveHandoff
  <2>2. CASE CancelHandoff
    <3>1. request' = 0 /\ target' \in {FALSE}
          /\ UNCHANGED <<work, life, users, cached, phase, draining, drained,
                         queuedSoFar>>
      BY <2>2 DEF CancelHandoff
    <3>2. request' \in 0..3
      BY <3>1
    <3>3. target' \in BOOLEAN
      BY <3>1
    <3> QED
      BY <3>1, <3>2, <3>3
  <2>3. CASE CacheRoot
    BY <2>3 DEF CacheRoot
  <2> QED
    BY <1>3, <2>1, <2>2, <2>3
<1>4. ASSUME NEW w \in Work PROVE
        /\ \A b \in BOOLEAN, r \in {"no", "began", "goes on", "ends"} :
             /\ [work[w] EXCEPT !.run = r] \in WorkState
             /\ [work[w] EXCEPT !.dis = b] \in WorkState
             /\ [work[w] EXCEPT !.held = b] \in WorkState
             /\ [work[w] EXCEPT !.pend = b, !.run = r] \in WorkState
             /\ [work[w] EXCEPT !.run = r, !.pend = b] \in WorkState
             /\ [work[w] EXCEPT !.run = r, !.held = b] \in WorkState
        /\ [work[w] EXCEPT !.dis = TRUE, !.pend = FALSE] \in WorkState
        /\ work[w] \in WorkState
  BY DEF WorkState
<1>5. ASSUME NEW w \in Work, CallbackStarts(w) PROVE OwnType'
  <2>1. work' \in [Work -> WorkState]
    BY <1>5, <1>4 DEF CallbackStarts
  <2>2. request' \in {request, 0} /\ target' \in {target, FALSE}
    BY <1>5 DEF CallbackStarts
  <2>3. request' \in 0..3
    BY <2>2
  <2>4. target' \in BOOLEAN
    BY <2>2
  <2>5. UNCHANGED <<life, users, cached, phase, draining, drained, queuedSoFar>>
    BY <1>5 DEF CallbackStarts
  <2> QED
    BY <2>1, <2>3, <2>4, <2>5
<1>6. ASSUME NEW w \in Work, CallbackLooksAgain(w) PROVE OwnType'
  BY <1>6, <1>4 DEF CallbackLooksAgain
<1>7. ASSUME NEW w \in Work, CallbackRearms(w) PROVE OwnType'
  <2>1. (work[w].pend \/ ~work[w].dis) \in BOOLEAN
    OBVIOUS
  <2>2. work' \in [Work -> WorkState]
    BY <1>7, <1>4, <2>1 DEF CallbackRearms
  <2>3. \/ queuedSoFar' = queuedSoFar
        \/ queuedSoFar < MaxQueued /\ queuedSoFar' = queuedSoFar + 1
    BY <1>7 DEF CallbackRearms
  <2>4. queuedSoFar' \in 0..MaxQueued
    BY <2>3
  <2> QED
    BY <1>7, <2>2, <2>4 DEF CallbackRearms
<1>8. ASSUME NEW w \in Work, CallbackDone(w) PROVE OwnType'
  <2>1. work' \in [Work -> WorkState]
    BY <1>8, <1>4 DEF CallbackDone
  <2>2. request' \in {request, 0} /\ target' \in {target, FALSE}
    BY <1>8 DEF CallbackDone
  <2>3. request' \in 0..3
    BY <2>2
  <2>4. target' \in BOOLEAN
    BY <2>2
  <2>5. UNCHANGED <<life, users, cached, phase, draining, drained, queuedSoFar>>
    BY <1>8 DEF CallbackDone
  <2> QED
    BY <2>1, <2>3, <2>4, <2>5
<1>9. ASSUME NEW w \in Work, CallbackFinishes(w) PROVE OwnType'
  <2>1. (work[w].held /\ work[w].pend) \in BOOLEAN
    OBVIOUS
  <2>2. work' \in [Work -> WorkState]
    BY <1>9, <1>4, <2>1 DEF CallbackFinishes
  <2> QED
    BY <1>9, <2>2 DEF CallbackFinishes
<1>10. CASE ShutDown \/ Flushed \/ Unmounted
  BY <1>10 DEF ShutDown, Flushed, Unmounted
<1>11. CASE DrainCancels
  BY <1>11, <1>4, NextIsLeft DEF DrainCancels
<1>12. CASE DrainWaits
  BY <1>12, <1>4 DEF DrainWaits
<1>13. CASE DrainReleases
  <2>1. NotDraining \in [dir : Dirs3, works : SUBSET Work, on : BOOLEAN,
                        sync : BOOLEAN]
    BY WorkFacts DEF NotDraining
  <2>2. work' \in [Work -> WorkState]
    BY <1>13, <1>4 DEF DrainReleases
  <2> QED
    BY <1>13, <2>1, <2>2 DEF DrainReleases
<1>14. ASSUME NEW d \in Dirs3, Forget3(d) PROVE OwnType'
  BY <1>14 DEF Forget3
<1>15. ASSUME NEW d \in Dirs3, DrainInode(d) PROVE OwnType'
  BY <1>15 DEF DrainInode
<1>16. ASSUME NEW d \in Dirs3, EvictDisables(d) PROVE OwnType'
  <2>1. work' \in [Work -> WorkState]
    BY <1>16, <1>4 DEF EvictDisables
  <2> QED
    BY <1>16, <2>1 DEF EvictDisables
<1>17. ASSUME NEW d \in Dirs3, EvictFrees(d) PROVE OwnType'
  BY <1>17 DEF EvictFrees
<1>18. CASE UNCHANGED ownVars
  BY <1>18 DEF ownVars
<1> QED
  BY <1>1, <1>2, <1>3, <1>5, <1>6, <1>7, <1>8, <1>9, <1>10, <1>11, <1>12,
     <1>13, <1>14, <1>15, <1>16, <1>17, <1>18 DEF OwnNext

-----------------------------------------------------------------------------
OwnSafe == Holding /\ Referred /\ Draining3 /\ Quiet /\ Left

(* Work is queued only where the inode is held or in use.                  *)
LEMMA QueueSafe ==
  ASSUME OwnType, OwnSafe, NEW w \in Work, CanGrab(w),
         phase \notin {"evict", "unmounted"},
         \/ ~Shutting
         \/ w # Compacting /\ Owner(w) \notin drained,
         UNCHANGED <<life, users, cached, target, phase, draining, drained>>,
         \A v \in Work :
           /\ work'[v].dis = work[v].dis
           /\ work'[v].run # "no" => work[v].run # "no"
           /\ v = Compacting /\ work[v].run = "no" => work'[v].run = "no"
           /\ work'[v].held = (work[v].held \/ (v = w /\ ~work[w].dis))
           /\ work'[v].pend = (work[v].pend \/ (v = w /\ ~work[w].dis)),
         request' = 2 => request = 2
  PROVE  OwnSafe'
<1>1. Holding'
  <2>1. \A v \in Work : life[Owner(v)] # "live" => ~(v = w /\ ~work[w].dis)
    BY DEF OwnSafe, Holding, CanGrab
  <2>2. Shutting' = Shutting
    BY DEF Shutting
  <2> QED
    BY <2>1, <2>2 DEF OwnSafe, Holding, CanGrab
<1>2. Referred'
  BY DEF OwnSafe, Referred, Shutting
<1>3. Draining3'
  <2>1. NextToCancel' = NextToCancel
    BY DEF NextToCancel
  <2>2. draining.sync => NextToCancel \in Work
    BY NextIsLeft DEF OwnSafe, Draining3
  <2>3. ASSUME Cancelled, Shutting PROVE Cancelled'
    BY <2>3, WorkFacts DEF Cancelled
  <2>4. drained # {} \/ draining.on => Shutting
    BY DEF OwnSafe, Draining3, Shutting
  <2>5. Shutting' = Shutting
    BY DEF Shutting
  <2>6. \A d \in drained : \A v \in Work : Owner(v) = d => ~work'[v].held
    BY <2>4 DEF OwnSafe, Draining3
  <2>7. draining.sync => work'[NextToCancel].dis /\ ~work'[NextToCancel].pend
    BY <2>2 DEF OwnSafe, Draining3
  <2> QED
    BY <2>1, <2>3, <2>4, <2>5, <2>6, <2>7 DEF OwnSafe, Draining3
<1>4. Quiet' /\ Left'
  BY DEF OwnSafe, Quiet, Left
<1> QED
  BY <1>1, <1>2, <1>3, <1>4 DEF OwnSafe

LEMMA OwnStepQueue ==
  ASSUME OwnType, OwnSafe,
         \/ \E w \in Work : Schedule(w)
         \/ ScheduleDemote3 \/ StartHandoff \/ CompactionDemotes
  PROVE  OwnSafe'
<1>1. ASSUME NEW w \in Work, Schedule(w) PROVE OwnSafe'
  <2>1. ~Shutting /\ CanGrab(w) /\ work' = Queued(w) /\ phase = "mounted"
        /\ UNCHANGED <<request, life, users, cached, target, phase, draining, drained>>
    BY <1>1 DEF Schedule, Shutting, UnchangedByQueue
  <2> QED
    BY <2>1, QueuedFields, QueueSafe
<1>2. CASE ScheduleDemote3
  <2>1. ~Shutting /\ work' = Queued(Demote) /\ phase = "mounted" /\ request' # 2
        /\ UNCHANGED <<life, users, cached, target, phase, draining, drained>>
        /\ Host \in users
    BY <1>2 DEF ScheduleDemote3, Shutting, UnchangedByQueue
  <2>2. CanGrab(Demote)
    BY <2>1, WorkFacts DEF CanGrab, OwnSafe, Referred
  <2> QED
    BY <2>1, <2>2, WorkFacts, QueuedFields, QueueSafe
<1>3. CASE StartHandoff
  <2>1. request = 2 /\ work' = Queued(Demote) /\ request' # 2
        /\ UNCHANGED <<life, users, cached, target, phase, draining, drained>>
    BY <1>3 DEF StartHandoff, UnchangedByQueue
  <2>2. ~Shutting /\ Host \in users /\ phase = "mounted"
    BY <2>1 DEF OwnSafe, Referred, Shutting
  <2>3. CanGrab(Demote)
    BY <2>2, WorkFacts DEF CanGrab, OwnSafe, Referred
  <2> QED
    BY <2>1, <2>2, <2>3, WorkFacts, QueuedFields, QueueSafe
<1>4. CASE CompactionDemotes
  <2>1. /\ work[Compacting].run = "goes on" /\ CanGrab(Demote)
        /\ request' \in {0, 1}
        /\ UNCHANGED <<life, users, cached, target, phase, draining, drained>>
        /\ work' = [Queued(Demote) EXCEPT ![Compacting].run = "ends"]
    BY <1>4 DEF CompactionDemotes, UnchangedByQueue
  <2>2. phase \notin {"evict", "unmounted"} /\ Host \notin drained
    BY <2>1, WorkFacts DEF OwnSafe, Quiet, Draining3, Cancelled
  <2>3. \A v \in Work :
          /\ work'[v].dis = Queued(Demote)[v].dis
          /\ work'[v].held = Queued(Demote)[v].held
          /\ work'[v].pend = Queued(Demote)[v].pend
          /\ v # Compacting => work'[v].run = Queued(Demote)[v].run
    <3>1. Queued(Demote) \in [Work -> WorkState]
      BY WorkFacts, QueuedFields
    <3> HIDE DEF Queued
    <3>2. \A v \in Work : v # Compacting => work'[v] = Queued(Demote)[v]
      BY <2>1, <3>1, WorkFacts
    <3>3. work'[Compacting] = [Queued(Demote)[Compacting] EXCEPT !.run = "ends"]
      BY <2>1, <3>1, WorkFacts
    <3>4. /\ work'[Compacting].dis = Queued(Demote)[Compacting].dis
          /\ work'[Compacting].held = Queued(Demote)[Compacting].held
          /\ work'[Compacting].pend = Queued(Demote)[Compacting].pend
      <4>1. Queued(Demote)[Compacting] \in WorkState
        BY <3>1, WorkFacts
      <4> QED
        BY <3>3, <4>1 DEF WorkState
    <3> QED
      BY <3>2, <3>4
  <2>4. \A v \in Work :
          /\ work'[v].dis = work[v].dis
          /\ work'[v].run # "no" => work[v].run # "no"
          /\ v = Compacting /\ work[v].run = "no" => work'[v].run = "no"
          /\ work'[v].held = (work[v].held \/ (v = Demote /\ ~work[Demote].dis))
          /\ work'[v].pend = (work[v].pend \/ (v = Demote /\ ~work[Demote].dis))
    <3>1. \A v \in Work :
            /\ Queued(Demote)[v].run = work[v].run
            /\ Queued(Demote)[v].dis = work[v].dis
            /\ Queued(Demote)[v].held = (work[v].held \/ (v = Demote /\ ~work[Demote].dis))
            /\ Queued(Demote)[v].pend = (work[v].pend \/ (v = Demote /\ ~work[Demote].dis))
      BY WorkFacts, QueuedFields
    <3>2. \A v \in Work : work'[v].run # "no" => work[v].run # "no"
      BY <2>1, <2>3, <3>1
    <3>3. work[Compacting].run # "no"
      BY <2>1
    <3> QED
      BY <2>3, <3>1, <3>2, <3>3
  <2>5. ~(request' = 2)
    <3>1. request' \in {0, 1}
      BY <2>1
    <3> QED
      BY <3>1
  <2>6. ~Shutting \/ (Demote # Compacting /\ Owner(Demote) \notin drained)
    BY <2>2, WorkFacts
  <2> QED
    BY <2>1, <2>2, <2>4, <2>5, <2>6, WorkFacts, QueueSafe
<1> QED
  BY <1>1, <1>2, <1>3, <1>4

-----------------------------------------------------------------------------
(* A callback's steps leave the inodes and the walk alone; it re-arms only *)
(* a work that is not disabled, and ends without a reference unless its    *)
(* work is queued again.                                                   *)
LEMMA CallbackSafe ==
  ASSUME OwnType, OwnSafe, NEW w \in Work,
         \/ CallbackStarts(w) \/ CallbackLooksAgain(w) \/ CallbackRearms(w)
         \/ CallbackDone(w) \/ CallbackFinishes(w)
  PROVE  OwnSafe'
<1>1. /\ UNCHANGED <<life, users, cached, phase, draining, drained>>
      /\ target' => target
  <2>1. UNCHANGED <<life, users, cached, phase, draining, drained>>
    BY DEF CallbackStarts, CallbackLooksAgain, CallbackRearms, CallbackDone,
           CallbackFinishes, UnchangedByQueue
  <2>2. target' = target \/ target' = FALSE
    BY DEF CallbackStarts, CallbackLooksAgain, CallbackRearms, CallbackDone,
           CallbackFinishes, UnchangedByQueue
  <2> QED
    BY <2>1, <2>2
<1>2. request' = 2 => request = 2
  <2>1. request' = request \/ request' = 0
    BY DEF CallbackStarts, CallbackLooksAgain, CallbackRearms, CallbackDone,
           CallbackFinishes
  <2> QED
    BY <2>1
<1>3. /\ \A v \in Work \ {w} : work'[v] = work[v]
      /\ work'[w].dis = work[w].dis
      /\ work'[w].held => work[w].held
      /\ work'[w].run # "no" => work[w].run # "no" \/ work[w].pend
      /\ work'[w].pend => work[w].pend \/ (work[w].run # "no" /\ ~work[w].dis)
      /\ work[w].held => work'[w].held \/ (~work'[w].pend /\ work'[w].run = "no")
      /\ work[w].pend \/ work[w].run # "no"
  <2>1. work \in [Work -> WorkState]
    BY DEF OwnType, OwnTypeOK
  <2>2. CASE CallbackStarts(w)
    BY <2>1, <2>2 DEF CallbackStarts, WorkState
  <2>3. CASE CallbackLooksAgain(w)
    BY <2>1, <2>3 DEF CallbackLooksAgain, WorkState
  <2>4. CASE CallbackRearms(w)
    BY <2>1, <2>4 DEF CallbackRearms, WorkState
  <2>5. CASE CallbackDone(w)
    BY <2>1, <2>5 DEF CallbackDone, WorkState
  <2>6. CASE CallbackFinishes(w)
    BY <2>1, <2>6 DEF CallbackFinishes, WorkState
  <2> QED
    BY <2>2, <2>3, <2>4, <2>5, <2>6
<1>4. Shutting' = Shutting /\ NextToCancel' = NextToCancel
  BY <1>1 DEF Shutting, NextToCancel
<1>5. Holding'
  BY <1>1, <1>3, <1>4 DEF OwnSafe, Holding
<1>6. Referred'
  <2>1. /\ \A d \in users' : life'[d] = "live"
        /\ target' => life'[Host] # "freed"
        /\ cached' => life'[Moved] # "freed"
    BY <1>1 DEF OwnSafe, Referred
  <2>2. request' = 2 => {Host, Moved} \subseteq users'
    BY <1>1, <1>2 DEF OwnSafe, Referred
  <2>3. Shutting' => users' = {} /\ request' # 2
    BY <1>1, <1>2, <1>4 DEF OwnSafe, Referred
  <2> QED
    BY <2>1, <2>2, <2>3 DEF Referred
<1>7. Draining3'
  <2>1. draining.sync => NextToCancel \in Work
    BY NextIsLeft DEF OwnSafe, Draining3
  <2>2. Cancelled => Cancelled'
    BY <1>3, WorkFacts DEF Cancelled
  <2>3. draining.sync => work'[NextToCancel].dis /\ ~work'[NextToCancel].pend
    BY <1>3, <2>1 DEF OwnSafe, Draining3
  <2>4. \A d \in drained : \A v \in Work : Owner(v) = d => ~work'[v].held
    BY <1>3 DEF OwnSafe, Draining3
  <2> QED
    BY <1>1, <1>4, <2>2, <2>3, <2>4 DEF OwnSafe, Draining3
<1>8. Quiet' /\ Left'
  BY <1>1, <1>3 DEF OwnSafe, Quiet, Left
<1> QED
  BY <1>5, <1>6, <1>7, <1>8 DEF OwnSafe

-----------------------------------------------------------------------------
(* The unmount: the walk, the flush and the eviction.                      *)
LEMMA UnmountSafe ==
  ASSUME OwnType, OwnSafe,
         \/ ShutDown \/ DrainCancels \/ DrainWaits \/ DrainReleases \/ Flushed
         \/ Unmounted \/ \E d \in Dirs3 : DrainInode(d)
  PROVE  OwnSafe'
<1> USE DEF OwnSafe
<1>0. work \in [Work -> WorkState]
  BY DEF OwnType, OwnTypeOK
<1>1. CASE ShutDown
  BY <1>1 DEF ShutDown, Shutting, Holding, Referred, Draining3, Quiet, Left,
     NextToCancel, Cancelled
<1>2. ASSUME NEW d \in Dirs3, DrainInode(d) PROVE OwnSafe'
  BY <1>2, WorkFacts DEF DrainInode, Shutting, Holding, Referred, Draining3,
     Quiet, Left, Cancelled
<1>3. CASE DrainCancels
  <2>1. /\ UNCHANGED <<life, users, cached, target, request, phase, drained>>
        /\ draining.on /\ draining.works # {}
        /\ draining' = [draining EXCEPT !.sync = TRUE]
    BY <1>3 DEF DrainCancels
  <2>2. /\ draining'.sync /\ draining'.on = draining.on
        /\ draining'.dir = draining.dir /\ draining'.works = draining.works
    BY <2>1 DEF OwnType
  <2>3. NextToCancel \in Work /\ NextToCancel' = NextToCancel
    BY <2>1, <2>2, NextIsLeft DEF NextToCancel
  <2>4. /\ \A v \in Work \ {NextToCancel} : work'[v] = work[v]
        /\ work'[NextToCancel].dis /\ ~work'[NextToCancel].pend
        /\ work'[NextToCancel].run = work[NextToCancel].run
        /\ work'[NextToCancel].held = work[NextToCancel].held
    BY <1>0, <1>3, <2>3 DEF DrainCancels, WorkState
  <2> HIDE DEF NextToCancel
  <2>5. Holding' /\ Referred' /\ Quiet' /\ Left'
    BY <2>1, <2>2, <2>3, <2>4 DEF Holding, Referred, Quiet, Left, Shutting
  <2>6. Cancelled => Cancelled'
    BY <2>3, <2>4, WorkFacts DEF Cancelled
  <2>7. Draining3'
    BY <2>1, <2>2, <2>3, <2>4, <2>6 DEF Draining3, Shutting
  <2> QED
    BY <2>5, <2>7
<1>4. CASE DrainWaits
  <2>1. /\ UNCHANGED <<life, users, cached, target, request, phase, drained>>
        /\ draining.sync /\ work[NextToCancel].run = "no"
        /\ draining' = [draining EXCEPT !.sync = FALSE,
                                        !.works = @ \ {NextToCancel}]
    BY <1>4 DEF DrainWaits
  <2>2. /\ ~draining'.sync /\ draining'.on = draining.on
        /\ draining'.dir = draining.dir
        /\ draining'.works = draining.works \ {NextToCancel}
    BY <2>1 DEF OwnType
  <2>3. NextToCancel \in Work /\ NextToCancel \in draining.works
        /\ draining.on /\ ~work[NextToCancel].pend
    BY <2>1, <2>2, NextIsLeft DEF Draining3
  <2>4. /\ \A v \in Work \ {NextToCancel} : work'[v] = work[v]
        /\ ~work'[NextToCancel].pend
        /\ work'[NextToCancel].run = "no"
        /\ work'[NextToCancel].held = work[NextToCancel].held
    BY <1>0, <1>4, <2>1, <2>3 DEF DrainWaits, WorkState
  <2>5. life[Owner(NextToCancel)] = "live"
    BY <2>3 DEF Draining3
  <2>6. Holding' /\ Referred' /\ Quiet' /\ Left'
    BY <2>1, <2>2, <2>3, <2>4, <2>5 DEF Holding, Referred, Quiet, Left, Shutting
  <2>7. Cancelled \/ NextToCancel = Compacting => Cancelled'
    BY <2>3, <2>4, WorkFacts DEF Cancelled
  <2>8. Draining3'
    BY <2>1, <2>2, <2>3, <2>4, <2>7 DEF Draining3, Shutting
  <2> QED
    BY <2>6, <2>8
<1>5. CASE DrainReleases
  <2>1. /\ UNCHANGED <<life, users, cached, target, request, phase>>
        /\ draining.on /\ draining.works = {} /\ draining' = NotDraining
        /\ drained' = drained \cup {draining.dir}
    BY <1>5 DEF DrainReleases
  <2>2. ~draining'.sync /\ ~draining'.on /\ draining'.works = {}
    BY <2>1 DEF NotDraining
  <2>3. \A v \in Work : /\ work'[v].pend = work[v].pend
                        /\ work'[v].run = work[v].run
                        /\ work'[v].dis = work[v].dis
                        /\ Owner(v) = draining.dir => ~work'[v].held
                        /\ Owner(v) # draining.dir => work'[v].held = work[v].held
    BY <1>0, <1>5 DEF DrainReleases, WorkState
  <2>4. Shutting /\ Shutting' /\ phase = "drain"
    BY <2>1 DEF Shutting, Draining3
  <2>5. Holding' /\ Referred' /\ Quiet' /\ Left'
    BY <2>1, <2>2, <2>3, <2>4 DEF Holding, Referred, Quiet, Left
  <2>6. Cancelled => Cancelled'
    BY <2>3, WorkFacts DEF Cancelled
  <2>7. draining.dir = Host => Cancelled
    BY <2>1 DEF Draining3
  <2>8. Draining3'
    BY <2>1, <2>2, <2>3, <2>4, <2>6, <2>7 DEF Draining3
  <2> QED
    BY <2>5, <2>8
<1>6. CASE Flushed
  <2>1. /\ UNCHANGED <<work, life, users, cached, target, request, draining, drained>>
        /\ ~draining.on /\ phase = "drain" /\ phase' = "evict"
        /\ \A w \in Work : ~work[w].pend /\ work[w].run = "no"
        /\ \A d \in Dirs3 : life[d] = "freed" \/ d \in drained
    BY <1>6 DEF Flushed
  <2>2. \A w \in Work : ~work[w].held
    BY <2>1, WorkFacts DEF Holding, Draining3
  <2>3. NextToCancel' = NextToCancel /\ Cancelled' = Cancelled
    BY <2>1 DEF NextToCancel, Cancelled
  <2> QED
    BY <2>1, <2>2, <2>3 DEF Holding, Referred, Draining3, Quiet, Left, Shutting
<1>7. CASE Unmounted
  <2>1. /\ UNCHANGED <<work, life, users, cached, target, request, draining, drained>>
        /\ phase = "evict" /\ phase' = "unmounted"
        /\ \A d \in Dirs3 : life[d] = "freed" \/ (life[d] = "live" /\ Pinned(d))
    BY <1>7 DEF Unmounted
  <2>2. users = {} /\ ~draining.on /\ \A w \in Work : ~work[w].held
    BY <2>1 DEF Referred, Quiet, Shutting
  <2>3. \A d \in Dirs3 : Pinned(d) => (d = Host /\ cached) \/ (d = Moved /\ target)
    BY <2>2 DEF Pinned
  <2>4. Left'
    BY <2>1, <2>3, WorkFacts DEF Left, Referred
  <2>5. NextToCancel' = NextToCancel /\ Cancelled' = Cancelled
    BY <2>1 DEF NextToCancel, Cancelled
  <2> QED
    BY <2>1, <2>2, <2>4, <2>5 DEF Holding, Referred, Draining3, Quiet, Shutting
<1> QED
  BY <1>1, <1>2, <1>3, <1>4, <1>5, <1>6, <1>7

-----------------------------------------------------------------------------
(* Uses come and go; an eviction meets no reference and no callback.       *)
LEMMA UseSafe ==
  ASSUME OwnType, OwnSafe,
         \/ ReserveHandoff \/ CancelHandoff \/ CacheRoot
         \/ \E d \in Dirs3 : Forget3(d) \/ EvictDisables(d) \/ EvictFrees(d)
         \/ UNCHANGED ownVars
  PROVE  OwnSafe'
<1> USE DEF OwnSafe
<1>0. work \in [Work -> WorkState] /\ life \in [Dirs3 -> {"live", "evicting", "freed"}]
  BY DEF OwnType, OwnTypeOK
<1>a. UNCHANGED draining => NextToCancel' = NextToCancel
  BY DEF NextToCancel
<1>b. UNCHANGED work => Cancelled' = Cancelled
  BY DEF Cancelled
<1>1. CASE ReserveHandoff \/ CancelHandoff
  <2>1. /\ UNCHANGED <<work, life, users, cached, phase, draining, drained>>
        /\ \/ request' = 2 /\ phase = "mounted" /\ {Host, Moved} \subseteq users
           \/ request' = 0 /\ target' = FALSE /\ ~Shutting
    BY <1>1 DEF ReserveHandoff, CancelHandoff, Referred
  <2>2. Referred'
    <3>1. CASE request' = 2 /\ phase = "mounted" /\ {Host, Moved} \subseteq users
      BY <2>1, <3>1 DEF Referred, Shutting
    <3>2. CASE request' = 0 /\ target' = FALSE /\ ~Shutting
      BY <2>1, <3>2 DEF Referred, Shutting
    <3> QED
      BY <2>1, <3>1, <3>2
  <2>3. ~Shutting /\ ~Shutting' /\ phase' = "mounted"
    BY <2>1 DEF Shutting
  <2>4. Holding' /\ Draining3'
    BY <1>a, <1>b, <2>1, <2>3 DEF Holding, Draining3
  <2> QED
    BY <2>2, <2>3, <2>4 DEF Quiet, Left
<1>2. CASE CacheRoot
  <2>1. /\ UNCHANGED <<work, life, users, target, request, phase, draining, drained>>
        /\ phase = "mounted" /\ Moved \in users
    BY <1>2 DEF CacheRoot
  <2> QED
    BY <1>a, <1>b, <2>1 DEF Holding, Referred, Draining3, Quiet, Left, Shutting
<1>3. ASSUME NEW d \in Dirs3, Forget3(d) PROVE OwnSafe'
  <2>1. /\ UNCHANGED <<work, life, cached, target, request, phase, draining, drained>>
        /\ users' = users \ {d} /\ d \in users
        /\ d \in {Host, Moved} => request # 2
    BY <1>3 DEF Forget3
  <2>2. Referred'
    <3>1. request = 2 => Host \in users' /\ Moved \in users'
      BY <2>1 DEF Referred
    <3>2. users' \subseteq users /\ Shutting' = Shutting
      BY <2>1 DEF Shutting
    <3> QED
      BY <2>1, <3>1, <3>2 DEF Referred
  <2>3. Holding' /\ Draining3'
    BY <1>a, <1>b, <2>1 DEF Holding, Draining3, Shutting
  <2> QED
    BY <2>1, <2>2, <2>3 DEF Quiet, Left
<1>4. ASSUME NEW d \in Dirs3, EvictDisables(d) PROVE OwnSafe'
  <2>1. /\ UNCHANGED <<users, cached, target, request, phase, draining, drained>>
        /\ life' = [life EXCEPT ![d] = "evicting"] /\ life[d] = "live" /\ ~Pinned(d)
    BY <1>4 DEF EvictDisables
  <2>2. \A v \in Work : /\ work'[v].run = work[v].run
                        /\ work'[v].held = work[v].held
                        /\ Owner(v) = d => work'[v].dis /\ ~work'[v].pend
                        /\ Owner(v) # d => work'[v] = work[v]
    BY <1>0, <1>4 DEF EvictDisables, WorkState
  <2>3. /\ d \notin users /\ \A v \in Work : Owner(v) = d => ~work[v].held
        /\ d = Host => ~cached
        /\ d = Moved => ~target
        /\ draining.on => draining.dir # d
    BY <2>1 DEF Pinned
  <2>4. \A v \in Work : work'[v].pend => work[v].pend
    BY <2>2
  <2>5. \A v \in Work : work[v].dis /\ ~work[v].pend => work'[v].dis /\ ~work'[v].pend
    BY <2>2
  <2>6. \A v \in Work : life'[Owner(v)] = IF Owner(v) = d THEN "evicting" ELSE life[Owner(v)]
    BY <1>0, <2>1, WorkFacts
  <2>7. Holding'
    BY <2>1, <2>2, <2>3, <2>4, <2>6 DEF Holding, Shutting
  <2>8. Referred'
    BY <1>0, <2>1, <2>3, WorkFacts DEF Referred, Shutting
  <2>9. draining.sync => NextToCancel \in Work
    BY NextIsLeft DEF Draining3
  <2>10. Cancelled => Cancelled'
    BY <2>2, <2>4, WorkFacts DEF Cancelled
  <2>11. Draining3'
    BY <1>0, <1>a, <2>1, <2>2, <2>3, <2>5, <2>9, <2>10 DEF Draining3, Shutting
  <2>12. Quiet'
    BY <2>1, <2>2, <2>4 DEF Quiet
  <2>13. Left'
    BY <1>0, <2>1, <2>3 DEF Left
  <2> QED
    BY <2>7, <2>8, <2>11, <2>12, <2>13
<1>5. ASSUME NEW d \in Dirs3, EvictFrees(d) PROVE OwnSafe'
  <2>1. /\ UNCHANGED <<work, users, phase, draining, drained>>
        /\ life' = [life EXCEPT ![d] = "freed"] /\ life[d] = "evicting"
        /\ \A w \in Work : Owner(w) = d => work[w].run = "no"
        /\ request' = (IF d = Host THEN 0 ELSE request)
        /\ target' = (target /\ d # Host) /\ cached' = (cached /\ d # Moved)
    BY <1>5 DEF EvictFrees
  <2>2. Shutting' = Shutting /\ d \notin users
    BY <2>1 DEF Shutting, Referred
  <2>3. Holding'
    BY <1>0, <2>1, <2>2, WorkFacts DEF Holding
  <2>4. request' = 2 => request = 2
    <3>1. request' = request \/ request' = 0
      BY <2>1
    <3> QED
      BY <3>1
  <2>5. target' => target /\ d # Host
    BY <2>1
  <2>6. cached' => cached /\ d # Moved
    BY <2>1
  <2>7. Referred'
    BY <1>0, <2>1, <2>2, <2>4, <2>5, <2>6, WorkFacts DEF Referred
  <2>8. Draining3'
    BY <1>0, <1>a, <1>b, <2>1, <2>2 DEF Draining3
  <2>9. Quiet'
    BY <2>1 DEF Quiet
  <2>10. phase = "unmounted" /\ ~(\A e \in Dirs3 : life[e] = "freed") => d # Host /\ d # Moved
    BY <2>1 DEF Left
  <2>11. Left'
    BY <1>0, <2>1, <2>10, WorkFacts DEF Left
  <2> QED
    BY <2>3, <2>7, <2>8, <2>9, <2>11
<1>6. CASE UNCHANGED ownVars
  BY <1>6, <1>a, <1>b DEF ownVars, Holding, Referred, Draining3, Quiet, Left, Shutting
<1> QED
  BY <1>1, <1>2, <1>3, <1>4, <1>5, <1>6

LEMMA OwnInvariance == OwnSpec => []OwnIInv
<1>1. OwnIInv /\ [OwnNext]_ownVars => OwnIInv'
  <2> SUFFICES ASSUME OwnIInv, [OwnNext]_ownVars PROVE OwnIInv'
    OBVIOUS
  <2>1. OwnType /\ OwnSafe
    BY DEF OwnIInv, OwnSafe
  <2>2. OwnType'
    BY <2>1, OwnStepType
  <2>3. OwnSafe'
    BY <2>1, OwnStepQueue, CallbackSafe, UnmountSafe, UseSafe DEF OwnNext
  <2> QED
    BY <2>2, <2>3 DEF OwnIInv, OwnSafe
<1> QED
  BY OwnInitIInv, <1>1, PTL DEF OwnSpec

(* For any number of conventional directories beside the root and its      *)
(* interior: an eviction meets no callback, none runs on a freed inode,    *)
(* and an unmount leaves no inode behind unless a hand-off was cancelled.  *)
THEOREM WorksAreHeld == OwnSpec => []WorksHoldInodes
<1>1. OwnIInv => WorksHoldInodes
  <2> SUFFICES ASSUME OwnIInv PROVE WorksHoldInodes
    OBVIOUS
  <2>1. ~Shutting => \A w \in Work :
                      work[w].pend \/ work[w].run # "no" =>
                        work[w].held /\ life[Owner(w)] = "live"
    BY DEF OwnIInv, Holding
  <2>2. \A w \in Work : work[w].run # "no" => life[Owner(w)] # "freed"
    BY DEF OwnIInv, Holding
  <2>3. phase = "unmounted" => target \/ \A d \in Dirs3 : life[d] = "freed"
    BY DEF OwnIInv, Left
  <2> QED
    BY <2>1, <2>2, <2>3 DEF WorksHoldInodes
<1> QED
  BY <1>1, OwnInvariance, PTL

-----------------------------------------------------------------------------
(* CompactMerge: whatever the order of its loops finds the slots in, the   *)
(* next base is the namespace of the directories the root still reaches.   *)

(* The order of two slots under given hashes (PrefixLe with the hashes as  *)
(* arguments), and of lists and sets of slots.                             *)
Le(h, t, s, u) ==
  ~(\/ u[1] < s[1]
    \/ u[1] = s[1] /\ h[u[2]] < h[s[2]]
    \/ u[1] = s[1] /\ h[u[2]] = h[s[2]] /\ t[u[2]] < t[s[2]])
SlotPair == Slot \X Value
HashMaps == [Names -> MergeHashes]
TieMaps == [Names -> Ties]

PairBefore(h, t, x, y) == x[1] # y[1] /\ Le(h, t, x[1], y[1])
InOrder(h, t, q) ==
  \A j, k \in DOMAIN q : j < k => PairBefore(h, t, q[j], q[k])
Precedes(h, t, S, T) == \A x \in S, y \in T : PairBefore(h, t, x, y)

(* What there is to merge, by origin, and what is not collected yet.       *)
AllSlots == {<<s, Said(s)>> : s \in Shown}
FromBase == {<<s, Said(s)>> : s \in {u \in Shown : u \in DOMAIN old}}
FromDelta == {<<s, Said(s)>> : s \in Inserts}
Waiting == {<<s, Said(s)>> : s \in {u \in Shown : u \in Range(oldBase)}}
ToCome == {<<s, Said(s)>> : s \in ToInsert}
Live(S) == {x \in S : x[1][1] \in live}

MergeTyped ==
  /\ hash \in HashMaps /\ tie \in TieMaps
  /\ DOMAIN old \subseteq Slot /\ \A s \in DOMAIN old : old[s] \in Value
  /\ DOMAIN captured \subseteq Slot
  /\ \A s \in DOMAIN captured : captured[s] \in Value \cup {Deleted}
  /\ oldBase \in Seq(Slot)
  /\ runs \in [1..2 -> Seq(SlotPair)]
  /\ merged \in Seq(SlotPair) /\ slots \in Seq(SlotPair)
  /\ live \in SUBSET MergePlid /\ toVisit \in SUBSET MergePlid

(* While the base is read: what is collected and what waits is the base    *)
(* under the delta, and all that waits comes later in the order.           *)
BaseInv ==
  /\ Range(oldBase) \subseteq DOMAIN old
  /\ \A j, k \in DOMAIN oldBase :
       j < k => oldBase[j] # oldBase[k] /\ Le(hash, tie, oldBase[j], oldBase[k])
  /\ FromBase = Range(runs[1]) \cup Waiting
  /\ \A x \in Range(runs[1]), s \in Range(oldBase) :
       x[1] # s /\ Le(hash, tie, x[1], s)
  /\ InOrder(hash, tie, runs[1]) /\ runs[2] = <<>>

(* While the inserts are appended: the base's run is done, and the run of  *)
(* the inserts precedes what is still to come.                             *)
InsertsInv ==
  /\ Range(runs[1]) = FromBase /\ InOrder(hash, tie, runs[1])
  /\ Range(runs[2]) \subseteq FromDelta /\ InOrder(hash, tie, runs[2])
  /\ Precedes(hash, tie, Range(runs[2]), ToCome)

(* While the runs are merged: nothing is lost between the three, and what  *)
(* is merged precedes what is not.                                         *)
MergeInv ==
  /\ Range(runs[1]) \subseteq FromBase /\ Range(runs[2]) \subseteq FromDelta
  /\ InOrder(hash, tie, merged)
  /\ InOrder(hash, tie, runs[1]) /\ InOrder(hash, tie, runs[2])
  /\ Precedes(hash, tie, Range(merged), Range(runs[1]) \cup Range(runs[2]))
  /\ Range(merged) \cup Range(runs[1]) \cup Range(runs[2]) = AllSlots

(* While directories are followed: what is found is reached, and a         *)
(* directory that was visited has all its children found.                  *)
PruneInv ==
  /\ Range(merged) = AllSlots /\ InOrder(hash, tie, merged)
  /\ 0 \in live /\ live \subseteq Reached /\ toVisit \subseteq live
  /\ \A s \in Shown : s[1] \in live \ toVisit /\ Said(s) > 0 => Said(s) \in live

(* While slots are dropped: those of the directories found are kept or     *)
(* still to come.                                                          *)
DropInv ==
  /\ live = Reached
  /\ InOrder(hash, tie, merged) /\ InOrder(hash, tie, slots)
  /\ Precedes(hash, tie, Range(slots), Range(merged))
  /\ Live(AllSlots) = Range(slots) \cup Live(Range(merged))

(* The property, in the terms of the proof.                                *)
DoneInv ==
  /\ Range(slots) = {<<s, Said(s)>> : s \in {u \in Shown : u[1] \in Reached}}
  /\ InOrder(hash, tie, slots)

MergeIInv ==
  /\ MergeTyped
  /\ mergePhase \in {"base", "inserts", "merge", "prune", "drop", "done"}
  /\ mergePhase \in {"base", "inserts"} => merged = <<>>
  /\ mergePhase \in {"base", "inserts", "merge"} => toVisit = {0} /\ live = {0}
  /\ mergePhase \in {"base", "inserts", "merge", "prune"} => slots = <<>>
  /\ mergePhase = "base" => BaseInv
  /\ mergePhase = "inserts" => InsertsInv
  /\ mergePhase = "merge" => MergeInv
  /\ mergePhase = "prune" => PruneInv
  /\ mergePhase = "drop" => DropInv
  /\ mergePhase = "done" => DoneInv

-----------------------------------------------------------------------------
(* What the order compares is numbers.                                     *)
LEMMA SlotNumbers ==
  ASSUME NEW h \in HashMaps, NEW t \in TieMaps, NEW s \in Slot
  PROVE  s[1] \in MergePlid /\ s[1] \in Nat /\ h[s[2]] \in Nat /\ t[s[2]] \in Nat
<1>1. s[1] \in MergePlid /\ s[2] \in Names
  BY DEF Slot
<1>2. MergeParents \in Nat /\ MergeHashes \subseteq Nat /\ Ties \subseteq Nat
  BY MergeAssumption
<1>3. h[s[2]] \in MergeHashes /\ t[s[2]] \in Ties
  BY <1>1 DEF HashMaps, TieMaps
<1>4. s[1] \in Nat
  BY <1>1, <1>2 DEF MergePlid
<1> QED
  BY <1>1, <1>2, <1>3, <1>4

(* Of two slots one is not after the other.                                *)
LEMMA LeIsTotal ==
  ASSUME NEW h \in HashMaps, NEW t \in TieMaps, NEW s \in Slot, NEW u \in Slot,
         ~Le(h, t, s, u)
  PROVE  Le(h, t, u, s)
<1>1. /\ s[1] \in Nat /\ h[s[2]] \in Nat /\ t[s[2]] \in Nat
      /\ u[1] \in Nat /\ h[u[2]] \in Nat /\ t[u[2]] \in Nat
  BY SlotNumbers
<1> QED
  BY <1>1 DEF Le

(* The order of the runs carries over.                                     *)
LEMMA LeIsTransitive ==
  ASSUME NEW h \in HashMaps, NEW t \in TieMaps,
         NEW s \in Slot, NEW u \in Slot, NEW v \in Slot,
         Le(h, t, s, u), Le(h, t, u, v)
  PROVE  Le(h, t, s, v)
<1>1. /\ s[1] \in Nat /\ h[s[2]] \in Nat /\ t[s[2]] \in Nat
      /\ u[1] \in Nat /\ h[u[2]] \in Nat /\ t[u[2]] \in Nat
      /\ v[1] \in Nat /\ h[v[2]] \in Nat /\ t[v[2]] \in Nat
  BY SlotNumbers
<1> QED
  BY <1>1 DEF Le

(* What a list holds after one more element.                               *)
LEMMA RangeOfAppend ==
  ASSUME NEW S, NEW q \in Seq(S), NEW x \in S
  PROVE  Append(q, x) \in Seq(S) /\ Range(Append(q, x)) = Range(q) \cup {x}
<1>1. \A k \in DOMAIN Append(q, x) :
        Append(q, x)[k] = IF k \in DOMAIN q THEN q[k] ELSE x
  OBVIOUS
<1>2. DOMAIN q \subseteq DOMAIN Append(q, x)
  OBVIOUS
<1>3. Len(q) + 1 \in DOMAIN Append(q, x) /\ Len(q) + 1 \notin DOMAIN q
  OBVIOUS
<1>4. Append(q, x) \in Seq(S)
  OBVIOUS
<1> QED
  BY <1>1, <1>2, <1>3, <1>4 DEF Range

(* What a list holds after its first element.                              *)
LEMMA RangeOfTail ==
  ASSUME NEW S, NEW q \in Seq(S), q # <<>>
  PROVE  /\ Tail(q) \in Seq(S) /\ Head(q) \in S
         /\ Range(q) = {Head(q)} \cup Range(Tail(q))
         /\ 1 \in DOMAIN q /\ Head(q) = q[1]
         /\ \A k \in DOMAIN Tail(q) : k \in Nat /\ k + 1 \in DOMAIN q /\ k + 1 > 1
                                      /\ Tail(q)[k] = q[k + 1]
<1>1. /\ Tail(q) \in Seq(S) /\ Head(q) \in S /\ 1 \in DOMAIN q /\ Head(q) = q[1]
      /\ Len(Tail(q)) = Len(q) - 1
  OBVIOUS
<1>2. \A k \in DOMAIN Tail(q) : k \in Nat /\ k + 1 \in DOMAIN q /\ k + 1 > 1
                                /\ Tail(q)[k] = q[k + 1]
  OBVIOUS
<1>3. \A k \in DOMAIN q : k = 1 \/ (k - 1 \in DOMAIN Tail(q) /\ q[k] = Tail(q)[k - 1])
  OBVIOUS
<1>4. \A x : x \in Range(q) <=> \E k \in DOMAIN q : q[k] = x
  BY DEF Range
<1>5. \A x : x \in Range(Tail(q)) <=> \E k \in DOMAIN Tail(q) : Tail(q)[k] = x
  BY DEF Range
<1>6. \A x : x \in Range(q) => x = Head(q) \/ x \in Range(Tail(q))
  BY <1>1, <1>3, <1>4, <1>5
<1>7. \A x : x = Head(q) \/ x \in Range(Tail(q)) => x \in Range(q)
  BY <1>1, <1>2, <1>4, <1>5
<1> QED
  BY <1>1, <1>2, <1>6, <1>7

(* A last element after all others keeps the order.                        *)
LEMMA InOrderAppend ==
  ASSUME NEW h, NEW t, NEW q \in Seq(SlotPair), NEW x \in SlotPair,
         InOrder(h, t, q), \A y \in Range(q) : PairBefore(h, t, y, x)
  PROVE  InOrder(h, t, Append(q, x))
<1>1. \A k \in DOMAIN q : PairBefore(h, t, q[k], x)
  BY DEF Range
<1>2. \A k \in DOMAIN Append(q, x) :
        \/ k \in DOMAIN q /\ Append(q, x)[k] = q[k]
        \/ k = Len(q) + 1 /\ Append(q, x)[k] = x
  OBVIOUS
<1>3. \A j, k \in DOMAIN Append(q, x) : j < k => j \in DOMAIN q
  OBVIOUS
<1> SUFFICES ASSUME NEW j \in DOMAIN Append(q, x), NEW k \in DOMAIN Append(q, x),
                    j < k
             PROVE  PairBefore(h, t, Append(q, x)[j], Append(q, x)[k])
  BY DEF InOrder
<1>4. j \in DOMAIN q /\ Append(q, x)[j] = q[j]
  <2>1. j \in DOMAIN q
    BY <1>3
  <2> QED
    BY <2>1
<1> QED
  BY <1>1, <1>2, <1>4 DEF InOrder

(* The rest of an ordered list is ordered, and after the head.             *)
LEMMA InOrderTail ==
  ASSUME NEW h, NEW t, NEW q \in Seq(SlotPair), q # <<>>, InOrder(h, t, q)
  PROVE  /\ InOrder(h, t, Tail(q))
         /\ \A y \in Range(Tail(q)) : PairBefore(h, t, Head(q), y)
<1>1. /\ 1 \in DOMAIN q /\ Head(q) = q[1]
      /\ \A k \in DOMAIN Tail(q) : k \in Nat /\ k + 1 \in DOMAIN q /\ k + 1 > 1
                                   /\ Tail(q)[k] = q[k + 1]
  BY RangeOfTail
<1>2. \A y \in Range(Tail(q)) : PairBefore(h, t, Head(q), y)
  <2> SUFFICES ASSUME NEW k \in DOMAIN Tail(q)
               PROVE  PairBefore(h, t, Head(q), Tail(q)[k])
    BY DEF Range
  <2>1. k + 1 \in DOMAIN q /\ 1 < k + 1 /\ Tail(q)[k] = q[k + 1]
    BY <1>1
  <2> QED
    BY <1>1, <2>1 DEF InOrder
<1>3. ASSUME NEW j \in DOMAIN Tail(q), NEW k \in DOMAIN Tail(q), j < k
      PROVE  PairBefore(h, t, Tail(q)[j], Tail(q)[k])
  <2>1. /\ j + 1 \in DOMAIN q /\ Tail(q)[j] = q[j + 1]
        /\ k + 1 \in DOMAIN q /\ Tail(q)[k] = q[k + 1]
        /\ j + 1 < k + 1
    BY <1>1, <1>3
  <2> QED
    BY <2>1 DEF InOrder
<1> QED
  BY <1>2, <1>3 DEF InOrder

(* A step changes neither base nor delta, so nothing said of them.         *)
LEMMA MergeFrame ==
  ASSUME UNCHANGED <<hash, tie, old, captured>>
  PROVE  /\ Shown' = Shown /\ Inserts' = Inserts /\ Reached' = Reached
         /\ AllSlots' = AllSlots /\ FromBase' = FromBase /\ FromDelta' = FromDelta
         /\ \A s : Said(s)' = Said(s)
<1>1. Shown' = Shown /\ Inserts' = Inserts
  BY DEF Shown, Said, Inserts
<1>2. AllSlots' = AllSlots /\ FromBase' = FromBase /\ FromDelta' = FromDelta
  BY <1>1 DEF AllSlots, FromBase, FromDelta, Said
<1>3. Reached' = Reached
  BY <1>1 DEF Reached, LeadsWithin, Said
<1>4. \A s : Said(s)' = Said(s)
  BY DEF Said
<1> QED
  BY <1>1, <1>2, <1>3, <1>4

(* Every slot shown comes from the base or from an insert, not from both.  *)
LEMMA WhatIsSaid ==
  ASSUME MergeTyped
  PROVE  /\ \A s \in Shown : s \in Slot /\ Said(s) \in Value /\ <<s, Said(s)>> \in SlotPair
         /\ Inserts \subseteq Shown
         /\ \A s \in Inserts : captured[s] = Said(s)
         /\ \A s \in DOMAIN old : Kept(s) = Said(s)
         /\ AllSlots = FromBase \cup FromDelta
         /\ \A x \in AllSlots : x \in SlotPair /\ x[1] \in Shown /\ x[2] = Said(x[1])
         /\ \A x \in FromBase, y \in FromDelta : x[1] # y[1]
<1>1. \A s \in Shown : s \in Slot /\ Said(s) \in Value
  BY DEF MergeTyped, Shown, Said
<1>2. \A s \in Shown : <<s, Said(s)>> \in SlotPair
  BY <1>1 DEF SlotPair
<1>3. \A s \in Inserts : s \in Shown /\ captured[s] = Said(s) /\ s \notin DOMAIN old
  BY DEF Inserts, Shown, Said
<1>4. \A s \in DOMAIN old : Kept(s) = Said(s)
  BY DEF Kept, Said
<1>5. \A s \in Shown : s \in DOMAIN old \/ s \in Inserts
  BY DEF Shown, Inserts, Said
<1>6. AllSlots = FromBase \cup FromDelta
  BY <1>3, <1>5 DEF AllSlots, FromBase, FromDelta
<1>7. \A x \in AllSlots : x \in SlotPair /\ x[1] \in Shown /\ x[2] = Said(x[1])
  BY <1>2 DEF AllSlots
<1>8. \A x \in FromBase, y \in FromDelta : x[1] # y[1]
  BY <1>3 DEF FromBase, FromDelta
<1> QED
  BY <1>1, <1>2, <1>3, <1>4, <1>6, <1>7, <1>8

-----------------------------------------------------------------------------
(* A base lists each of its slots once, as many as it has.                 *)
LEMMA MergeInitIInv == MergeInit => MergeIInv
<1> SUFFICES ASSUME MergeInit PROVE MergeIInv
  OBVIOUS
<1>1. PICK used \in SUBSET Slot, noted \in SUBSET Slot :
        /\ old \in [used -> Value \ {Other}]
        /\ captured \in [noted -> (Value \ {Leaf}) \cup {Deleted}]
        /\ oldBase \in BaseOrders(used)
  BY DEF MergeInit
<1>2. Cardinality(used) \in Nat
  <2>1. IsFiniteSet(Names) /\ IsFiniteSet(MergePlid)
    BY MergeAssumption, FS_Interval DEF MergePlid
  <2>2. IsFiniteSet(Slot)
    BY <2>1, FS_Product DEF Slot
  <2> QED
    BY <2>2, FS_Subset, FS_CardinalityType
<1>3. /\ oldBase \in Seq(Slot) /\ Range(oldBase) = used
      /\ \A j, k \in DOMAIN oldBase : j < k => PrefixLe(oldBase[j], oldBase[k])
  BY <1>1, <1>2 DEF BaseOrders
<1>4. DOMAIN old = used /\ \A s \in DOMAIN old : old[s] \in Value
  BY <1>1
<1>5. DOMAIN captured = noted /\ \A s \in DOMAIN captured : captured[s] \in Value \cup {Deleted}
  BY <1>1
<1>6. \A j, k \in DOMAIN oldBase : j < k => oldBase[j] # oldBase[k]
  <2> DEFINE n == Cardinality(used)
  <2>1. IsFiniteSet(1..n) /\ Cardinality(1..n) = Cardinality(used)
    BY <1>2, FS_Interval
  <2>2. oldBase \in [1..n -> used] /\ Range(oldBase) = used
    BY <1>1 DEF BaseOrders
  <2>3. oldBase \in Surjection(1..n, used)
    BY <2>2 DEF Surjection, Range
  <2>4. oldBase \in Injection(1..n, used)
    BY <2>1, <2>3, FS_SurjSameCardinalityImpliesInj
  <2>5. \A j, k \in 1..n : j # k => oldBase[j] # oldBase[k]
    BY <2>2, <2>4 DEF Injection, IsInjective
  <2> QED
    BY <1>2, <2>2, <2>5
<1>7. \A j, k \in DOMAIN oldBase : j < k => Le(hash, tie, oldBase[j], oldBase[k])
  BY <1>3 DEF Le, PrefixLe, PrefixLess
<1>8. /\ mergePhase = "base" /\ runs = <<<<>>, <<>>>> /\ merged = <<>>
      /\ slots = <<>> /\ toVisit = {0} /\ live = {0}
      /\ hash \in HashMaps /\ tie \in TieMaps
  BY DEF MergeInit, HashMaps, TieMaps
<1>9. runs \in [1..2 -> Seq(SlotPair)] /\ runs[1] = <<>> /\ runs[2] = <<>>
  <2>1. <<>> \in Seq(SlotPair)
    OBVIOUS
  <2>2. \A S : \A a, b \in S : <<a, b>> \in [1..2 -> S]
    OBVIOUS
  <2>3. runs \in [1..2 -> Seq(SlotPair)]
    BY <1>8, <2>1, <2>2
  <2> QED
    BY <1>8, <2>3
<1>10. MergeTyped
  <2>1. 0 \in MergePlid
    BY MergeAssumption DEF MergePlid
  <2> QED
    BY <1>3, <1>4, <1>5, <1>8, <1>9, <2>1 DEF MergeTyped
<1>11. Range(runs[1]) = {}
  BY <1>9 DEF Range
<1>12. FromBase = Waiting
  BY <1>3, <1>4 DEF FromBase, Waiting
<1>13. BaseInv
  BY <1>3, <1>4, <1>6, <1>7, <1>9, <1>11, <1>12 DEF BaseInv, InOrder
<1> QED
  BY <1>8, <1>10, <1>13 DEF MergeIInv

(* Collecting a slot of the base: kept with what the delta says, or gone.  *)
LEMMA CollectBaseKeeps ==
  ASSUME MergeIInv, CollectBase
  PROVE  MergeIInv'
<1>1. MergeTyped /\ BaseInv /\ mergePhase = "base"
  BY DEF MergeIInv, CollectBase
<1> DEFINE s == Head(oldBase)
<1>2. /\ oldBase # <<>> /\ oldBase' = Tail(oldBase) /\ mergePhase' = "base"
      /\ runs' = IF Kept(s) = Deleted THEN runs
                 ELSE [runs EXCEPT ![1] = Append(runs[1], <<s, Kept(s)>>)]
      /\ UNCHANGED <<hash, tie, old, captured, merged, slots, toVisit, live>>
  BY <1>1 DEF CollectBase, UnchangedByCollect, MergeTyped
<1>3. oldBase \in Seq(Slot) /\ runs \in [1..2 -> Seq(SlotPair)]
  BY <1>1 DEF MergeTyped
<1>4. /\ Tail(oldBase) \in Seq(Slot) /\ s \in Slot
      /\ Range(oldBase) = {s} \cup Range(Tail(oldBase))
      /\ 1 \in DOMAIN oldBase /\ s = oldBase[1]
      /\ \A k \in DOMAIN Tail(oldBase) :
           k \in Nat /\ k + 1 \in DOMAIN oldBase /\ k + 1 > 1
           /\ Tail(oldBase)[k] = oldBase[k + 1]
  BY <1>2, <1>3, RangeOfTail
<1>5. s \in DOMAIN old /\ Kept(s) = Said(s)
  BY <1>1, <1>4, WhatIsSaid DEF BaseInv
<1>6. s \in Shown <=> Said(s) # Deleted
  BY <1>5 DEF Shown
<1>7. /\ Shown' = Shown /\ FromBase' = FromBase /\ \A u : Said(u)' = Said(u)
  BY <1>2, MergeFrame
<1>8. /\ Range(oldBase') \subseteq DOMAIN old'
      /\ oldBase' \in Seq(Slot)
      /\ \A j, k \in DOMAIN oldBase' :
           j < k => oldBase'[j] # oldBase'[k] /\ Le(hash, tie, oldBase'[j], oldBase'[k])
      /\ \A u \in Range(oldBase') : s # u /\ Le(hash, tie, s, u)
  <2>1. Range(oldBase') \subseteq DOMAIN old' /\ oldBase' \in Seq(Slot)
    BY <1>1, <1>2, <1>4 DEF BaseInv
  <2>2. ASSUME NEW j \in DOMAIN oldBase', NEW k \in DOMAIN oldBase', j < k
        PROVE  oldBase'[j] # oldBase'[k] /\ Le(hash, tie, oldBase'[j], oldBase'[k])
    <3>1. j + 1 < k + 1 /\ j + 1 \in DOMAIN oldBase /\ k + 1 \in DOMAIN oldBase
          /\ oldBase'[j] = oldBase[j + 1] /\ oldBase'[k] = oldBase[k + 1]
      BY <1>2, <1>4, <2>2
    <3> QED
      BY <1>1, <3>1 DEF BaseInv
  <2>3. ASSUME NEW k \in DOMAIN oldBase'
        PROVE  s # oldBase'[k] /\ Le(hash, tie, s, oldBase'[k])
    <3>1. 1 < k + 1 /\ k + 1 \in DOMAIN oldBase /\ oldBase'[k] = oldBase[k + 1]
      BY <1>2, <1>4
    <3> QED
      BY <1>1, <1>4, <3>1 DEF BaseInv
  <2>4. \A u \in Range(oldBase') : s # u /\ Le(hash, tie, s, u)
    BY <2>3 DEF Range
  <2> QED
    BY <2>1, <2>2, <2>4
<1>9. \A u : u \in Shown /\ u \in Range(oldBase) <=>
             (u = s /\ s \in Shown) \/ (u \in Shown /\ u \in Range(oldBase'))
  BY <1>2, <1>4
<1>10. Waiting' = {<<u, Said(u)>> : u \in {v \in Shown : v \in Range(oldBase')}}
  BY <1>7 DEF Waiting
<1>11. Waiting = Waiting' \cup (IF s \in Shown THEN {<<s, Said(s)>>} ELSE {})
  BY <1>9, <1>10 DEF Waiting
<1>12. \A x \in Range(runs[1]), u \in Range(oldBase) :
         x[1] # u /\ Le(hash, tie, x[1], u)
  BY <1>1 DEF BaseInv
<1>13. CASE s \notin Shown
  <2>1. runs' = runs
    BY <1>2, <1>5, <1>6, <1>13
  <2>2. BaseInv'
    BY <1>1, <1>2, <1>4, <1>7, <1>8, <1>11, <1>12, <1>13, <2>1 DEF BaseInv
  <2>3. MergeTyped'
    BY <1>1, <1>2, <1>8, <2>1 DEF MergeTyped
  <2> QED
    BY <1>1, <1>2, <2>2, <2>3 DEF MergeIInv
<1>14. CASE s \in Shown
  <2> DEFINE x == <<s, Said(s)>>
  <2>1. x \in SlotPair /\ x[1] = s
    BY <1>1, <1>14, WhatIsSaid
  <2>2. runs' = [runs EXCEPT ![1] = Append(runs[1], x)]
    BY <1>2, <1>5, <1>6, <1>14
  <2> HIDE DEF x
  <2>3. Append(runs[1], x) \in Seq(SlotPair)
        /\ Range(Append(runs[1], x)) = Range(runs[1]) \cup {x}
    BY <1>3, <2>1, RangeOfAppend
  <2>4. runs' \in [1..2 -> Seq(SlotPair)] /\ runs'[1] = Append(runs[1], x)
        /\ runs'[2] = runs[2]
    BY <1>3, <2>2, <2>3
  <2>5. \A y \in Range(runs[1]) : PairBefore(hash, tie, y, x)
    BY <1>4, <1>12, <2>1 DEF PairBefore
  <2>6. InOrder(hash, tie, Append(runs[1], x))
    BY <1>1, <1>3, <2>1, <2>5, InOrderAppend DEF BaseInv
  <2>7. \A y \in Range(runs'[1]), u \in Range(oldBase') :
          y[1] # u /\ Le(hash, tie, y[1], u)
    <3>1. \A u \in Range(oldBase') : u \in Range(oldBase)
      BY <1>2, <1>4
    <3>2. \A y \in Range(runs'[1]) : y \in Range(runs[1]) \/ y = x
      BY <2>3, <2>4
    <3> QED
      BY <1>8, <1>12, <2>1, <3>1, <3>2
  <2>8. FromBase' = Range(runs'[1]) \cup Waiting'
    <3>1. FromBase = Range(runs[1]) \cup Waiting
      BY <1>1 DEF BaseInv
    <3>2. Waiting = Waiting' \cup {x}
      BY <1>11, <1>14 DEF x
    <3> QED
      BY <1>7, <2>3, <2>4, <3>1, <3>2
  <2>9. BaseInv'
    BY <1>1, <1>2, <1>8, <2>4, <2>6, <2>7, <2>8 DEF BaseInv
  <2>10. MergeTyped'
    BY <1>1, <1>2, <1>8, <2>4 DEF MergeTyped
  <2> QED
    BY <1>1, <1>2, <2>9, <2>10 DEF MergeIInv
<1> QED
  BY <1>13, <1>14

(* At the end of the base nothing of it waits.                             *)
LEMMA BaseDoneKeeps ==
  ASSUME MergeIInv, BaseDone
  PROVE  MergeIInv'
<1>1. MergeTyped /\ BaseInv /\ oldBase = <<>> /\ merged = <<>> /\ slots = <<>>
      /\ toVisit = {0} /\ live = {0}
  BY DEF MergeIInv, BaseDone
<1>2. /\ mergePhase' = "inserts"
      /\ UNCHANGED <<hash, tie, old, captured, oldBase, runs, merged, slots,
                     toVisit, live>>
  BY DEF BaseDone, UnchangedByCollect
<1>3. FromBase' = FromBase
  BY <1>2, MergeFrame
<1>4. Range(oldBase) = {} /\ Range(runs[2]) = {}
  BY <1>1 DEF Range, BaseInv
<1>5. Range(runs[1]) = FromBase
  BY <1>1, <1>4 DEF BaseInv, Waiting
<1>6. InsertsInv'
  BY <1>1, <1>2, <1>3, <1>4, <1>5 DEF InsertsInv, BaseInv, InOrder, Precedes
<1>7. MergeTyped'
  BY <1>1, <1>2 DEF MergeTyped
<1> QED
  BY <1>1, <1>2, <1>6, <1>7 DEF MergeIInv

(* The least insert that is not collected comes before all others left.    *)
LEMMA CollectInsertKeeps ==
  ASSUME MergeIInv, NEW s \in Slot, CollectInsert(s)
  PROVE  MergeIInv'
<1>1. MergeTyped /\ InsertsInv
  BY DEF MergeIInv, CollectInsert
<1>2. s \in ToInsert /\ \A u \in ToInsert : ~TreeLess(u, s)
  BY DEF CollectInsert
<1>3. s \in Inserts /\ captured[s] = Said(s)
  BY <1>1, <1>2, WhatIsSaid DEF ToInsert
<1> DEFINE x == <<s, Said(s)>>
<1>4. /\ mergePhase = "inserts" /\ mergePhase' = "inserts"
      /\ runs' = [runs EXCEPT ![2] = Append(runs[2], x)]
      /\ UNCHANGED <<hash, tie, old, captured, oldBase, merged, slots, toVisit, live>>
  BY <1>1, <1>3 DEF CollectInsert, UnchangedByCollect, MergeTyped
<1>5. x \in SlotPair /\ x[1] = s /\ x \in FromDelta
  BY <1>1, <1>3, WhatIsSaid DEF FromDelta
<1> HIDE DEF x
<1>6. runs \in [1..2 -> Seq(SlotPair)]
  BY <1>1 DEF MergeTyped
<1>7. Append(runs[2], x) \in Seq(SlotPair)
      /\ Range(Append(runs[2], x)) = Range(runs[2]) \cup {x}
  BY <1>5, <1>6, RangeOfAppend
<1>8. runs' \in [1..2 -> Seq(SlotPair)] /\ runs'[2] = Append(runs[2], x)
      /\ runs'[1] = runs[1]
  BY <1>4, <1>6, <1>7
<1>9. Inserts' = Inserts /\ FromBase' = FromBase /\ FromDelta' = FromDelta
      /\ \A u : Said(u)' = Said(u)
  BY <1>4, MergeFrame
<1>10. \A u : u \in ToInsert' => u \in ToInsert /\ u # s
  <2>1. \A u : u \in ToInsert <=>
                 u \in Inserts /\ \A y \in Range(runs[2]) : y[1] # u
    BY DEF ToInsert, Range
  <2>2. \A u : u \in ToInsert' <=>
                 u \in Inserts /\ \A y \in Range(runs'[2]) : y[1] # u
    BY <1>9 DEF ToInsert, Range
  <2> QED
    BY <1>5, <1>7, <1>8, <2>1, <2>2
<1>11. \A y \in Range(runs[2]), u \in ToInsert : y[1] # u /\ Le(hash, tie, y[1], u)
  <2>1. \A u \in ToInsert : <<u, Said(u)>> \in ToCome
    BY DEF ToCome
  <2>2. \A y \in Range(runs[2]), u \in ToInsert :
          PairBefore(hash, tie, y, <<u, Said(u)>>)
    BY <1>1, <2>1 DEF InsertsInv, Precedes
  <2> QED
    BY <2>2 DEF PairBefore
<1>12. \A u \in ToInsert : Le(hash, tie, s, u)
  BY <1>2 DEF TreeLess, PrefixLess, Le
<1>13. \A y \in Range(runs'[2]), u \in ToInsert' :
         y[1] # u /\ Le(hash, tie, y[1], u)
  BY <1>5, <1>7, <1>8, <1>10, <1>11, <1>12
<1>14. Precedes(hash, tie, Range(runs'[2]), ToCome')
  <2>1. ToCome' = {<<u, Said(u)>> : u \in ToInsert'}
    BY <1>9 DEF ToCome
  <2>2. \A z \in ToCome' : z[1] \in ToInsert'
    BY <2>1
  <2> QED
    BY <1>13, <2>2 DEF Precedes, PairBefore
<1>15. InOrder(hash, tie, runs'[2])
  <2>1. \A y \in Range(runs[2]) : PairBefore(hash, tie, y, x)
    BY <1>2, <1>5, <1>11 DEF PairBefore
  <2> QED
    BY <1>1, <1>5, <1>6, <1>8, <2>1, InOrderAppend DEF InsertsInv
<1>16. InsertsInv'
  BY <1>1, <1>4, <1>5, <1>7, <1>8, <1>9, <1>14, <1>15 DEF InsertsInv
<1>17. MergeTyped'
  BY <1>1, <1>4, <1>8 DEF MergeTyped
<1> QED
  BY <1>4, <1>16, <1>17 DEF MergeIInv

(* With all inserts collected the two runs hold everything.                *)
LEMMA InsertsDoneKeeps ==
  ASSUME MergeIInv, InsertsDone
  PROVE  MergeIInv'
<1>1. MergeTyped /\ InsertsInv /\ ToInsert = {} /\ merged = <<>> /\ slots = <<>>
      /\ toVisit = {0} /\ live = {0}
  BY DEF MergeIInv, InsertsDone
<1>2. /\ mergePhase' = "merge"
      /\ UNCHANGED <<hash, tie, old, captured, oldBase, runs, merged, slots,
                     toVisit, live>>
  BY DEF InsertsDone, UnchangedByCollect
<1>3. AllSlots' = AllSlots /\ FromBase' = FromBase /\ FromDelta' = FromDelta
  BY <1>2, MergeFrame
<1>4. Range(merged) = {}
  BY <1>1 DEF Range
<1>5. FromDelta \subseteq Range(runs[2])
  <2> SUFFICES ASSUME NEW s \in Inserts
               PROVE  <<s, Said(s)>> \in Range(runs[2])
    BY DEF FromDelta
  <2>1. PICK k \in DOMAIN runs[2] : runs[2][k][1] = s
    BY <1>1 DEF ToInsert
  <2>2. runs[2][k] \in Range(runs[2])
    BY DEF Range
  <2>3. runs[2][k] \in FromDelta
    BY <1>1, <2>2 DEF InsertsInv
  <2>4. runs[2][k] = <<s, Said(s)>>
    BY <2>1, <2>3 DEF FromDelta
  <2> QED
    BY <2>2, <2>4
<1>6. Range(merged) \cup Range(runs[1]) \cup Range(runs[2]) = AllSlots
  BY <1>1, <1>4, <1>5, WhatIsSaid DEF InsertsInv
<1>7. MergeInv'
  BY <1>1, <1>2, <1>3, <1>4, <1>6 DEF MergeInv, InsertsInv, InOrder, Precedes
<1>8. MergeTyped'
  BY <1>1, <1>2 DEF MergeTyped
<1> QED
  BY <1>1, <1>2, <1>7, <1>8 DEF MergeIInv

(* The head of the run that is taken comes before all that is left.        *)
LEMMA HeadIsFirst ==
  ASSUME MergeTyped, MergeInv, NEW k \in {1, 2}, runs[k] # <<>>, k = 1 <=> TakesBase
  PROVE  /\ Head(runs[k]) \in SlotPair
         /\ Range(runs[k]) = {Head(runs[k])} \cup Range(Tail(runs[k]))
         /\ Tail(runs[k]) \in Seq(SlotPair) /\ InOrder(hash, tie, Tail(runs[k]))
         /\ \A y \in Range(Tail(runs[k])) \cup Range(runs[3 - k]) :
              PairBefore(hash, tie, Head(runs[k]), y)
<1> DEFINE h == Head(runs[k])
<1>1. runs \in [1..2 -> Seq(SlotPair)] /\ hash \in HashMaps /\ tie \in TieMaps
  BY DEF MergeTyped
<1>2. 3 - k \in {1, 2} /\ 3 - k # k /\ (k = 1 => 3 - k = 2) /\ (k = 2 => 3 - k = 1)
  OBVIOUS
<1> DEFINE o == 3 - k
<1>3. runs[k] \in Seq(SlotPair) /\ runs[o] \in Seq(SlotPair)
      /\ InOrder(hash, tie, runs[k]) /\ InOrder(hash, tie, runs[o])
  BY <1>1, <1>2 DEF MergeInv
<1> HIDE DEF o
<1>4. /\ Tail(runs[k]) \in Seq(SlotPair) /\ h \in SlotPair
      /\ Range(runs[k]) = {h} \cup Range(Tail(runs[k]))
  BY <1>3, RangeOfTail
<1>5. InOrder(hash, tie, Tail(runs[k]))
      /\ \A y \in Range(Tail(runs[k])) : PairBefore(hash, tie, h, y)
  BY <1>3, InOrderTail
<1>6. \A y \in Range(runs[o]) : h[1] # y[1]
  <2>1. Range(runs[1]) \subseteq FromBase /\ Range(runs[2]) \subseteq FromDelta
    BY DEF MergeInv
  <2>2. h \in Range(runs[k])
    BY <1>4
  <2>3. \A x \in FromBase, y \in FromDelta : x[1] # y[1]
    BY WhatIsSaid
  <2>4. CASE k = 1
    BY <1>2, <2>1, <2>2, <2>3, <2>4 DEF o
  <2>5. CASE k = 2
    BY <1>2, <2>1, <2>2, <2>3, <2>5 DEF o
  <2> QED
    BY <2>4, <2>5
<1>7. \A y \in Range(runs[o]) : Le(hash, tie, h[1], y[1])
  <2> SUFFICES ASSUME NEW y \in Range(runs[o]) PROVE Le(hash, tie, h[1], y[1])
    OBVIOUS
  <2> DEFINE g == Head(runs[o])
  <2>1. runs[o] # <<>>
    BY DEF Range
  <2>2. g \in SlotPair /\ Range(runs[o]) = {g} \cup Range(Tail(runs[o]))
    BY <1>3, <2>1, RangeOfTail
  <2>3. y = g \/ PairBefore(hash, tie, g, y)
    BY <1>3, <2>1, <2>2, InOrderTail
  <2>4. Range(runs[o]) \subseteq SlotPair
    BY <1>3 DEF Range
  <2>5. h[1] \in Slot /\ g[1] \in Slot /\ y[1] \in Slot
    BY <1>4, <2>2, <2>4 DEF SlotPair
  <2>6. Le(hash, tie, h[1], g[1])
    <3>1. CASE k = 1
      <4>1. PrefixLe(h[1], g[1])
        BY <1>2, <2>1, <3>1 DEF TakesBase, o
      <4> QED
        BY <4>1 DEF PrefixLe, PrefixLess, Le
    <3>2. CASE k = 2
      <4>1. ~PrefixLe(g[1], h[1])
        BY <1>2, <2>1, <3>2 DEF TakesBase, o
      <4>2. ~Le(hash, tie, g[1], h[1])
        BY <4>1 DEF PrefixLe, PrefixLess, Le
      <4> QED
        BY <1>1, <2>5, <4>2, LeIsTotal
    <3> QED
      BY <3>1, <3>2
  <2>7. CASE y = g
    BY <2>6, <2>7
  <2>8. CASE PairBefore(hash, tie, g, y)
    <3>1. Le(hash, tie, g[1], y[1])
      BY <2>8 DEF PairBefore
    <3> QED
      BY <1>1, <2>5, <2>6, <3>1, LeIsTransitive
  <2> QED
    BY <2>3, <2>7, <2>8
<1>8. \A y \in Range(runs[o]) : PairBefore(hash, tie, h, y)
  BY <1>6, <1>7 DEF PairBefore
<1> QED
  BY <1>4, <1>5, <1>8 DEF o

(* Taking the smaller head keeps the merged run first.                     *)
LEMMA MergeFromKeeps ==
  ASSUME MergeIInv, NEW k \in {1, 2}, MergeFrom(k)
  PROVE  MergeIInv'
<1>1. MergeTyped /\ MergeInv /\ slots = <<>> /\ toVisit = {0} /\ live = {0}
  BY DEF MergeIInv, MergeFrom
<1> DEFINE h == Head(runs[k])
<1> DEFINE o == 3 - k
<1>2. o \in {1, 2} /\ o # k /\ {k, o} = {1, 2}
  OBVIOUS
<1>3. /\ mergePhase' = "merge" /\ runs[k] # <<>> /\ (k = 1 <=> TakesBase)
      /\ merged' = Append(merged, h)
      /\ runs' = [runs EXCEPT ![k] = Tail(runs[k])]
      /\ UNCHANGED <<hash, tie, old, captured, oldBase, slots, toVisit, live>>
  BY <1>1 DEF MergeFrom, UnchangedByMerge, MergeTyped
<1>4. /\ h \in SlotPair
      /\ Range(runs[k]) = {h} \cup Range(Tail(runs[k]))
      /\ Tail(runs[k]) \in Seq(SlotPair) /\ InOrder(hash, tie, Tail(runs[k]))
      /\ \A y \in Range(Tail(runs[k])) \cup Range(runs[o]) : PairBefore(hash, tie, h, y)
  BY <1>1, <1>3, HeadIsFirst
<1> HIDE DEF o, h
<1>5. runs \in [1..2 -> Seq(SlotPair)] /\ merged \in Seq(SlotPair)
  BY <1>1 DEF MergeTyped
<1>6. runs' \in [1..2 -> Seq(SlotPair)] /\ runs'[k] = Tail(runs[k]) /\ runs'[o] = runs[o]
  BY <1>2, <1>3, <1>4, <1>5
<1>7. merged' \in Seq(SlotPair) /\ Range(merged') = Range(merged) \cup {h}
  BY <1>3, <1>4, <1>5, RangeOfAppend
<1>8. AllSlots' = AllSlots /\ FromBase' = FromBase /\ FromDelta' = FromDelta
  BY <1>3, MergeFrame
<1>9. \A S, T : Range(runs[1]) \cup Range(runs[2]) = Range(runs[k]) \cup Range(runs[o])
                /\ Range(runs'[1]) \cup Range(runs'[2]) = Range(runs'[k]) \cup Range(runs'[o])
  BY <1>2
<1>10. Range(merged) \cup Range(runs[1]) \cup Range(runs[2]) = AllSlots
       /\ Precedes(hash, tie, Range(merged), Range(runs[1]) \cup Range(runs[2]))
       /\ InOrder(hash, tie, merged)
  BY <1>1 DEF MergeInv
<1>11. Range(merged') \cup Range(runs'[1]) \cup Range(runs'[2]) = AllSlots
  BY <1>4, <1>6, <1>7, <1>9, <1>10
<1>12. Precedes(hash, tie, Range(merged'), Range(runs'[1]) \cup Range(runs'[2]))
  <2>1. \A y \in Range(runs'[1]) \cup Range(runs'[2]) :
          /\ y \in Range(runs[1]) \cup Range(runs[2])
          /\ PairBefore(hash, tie, h, y)
    BY <1>4, <1>6, <1>9
  <2> QED
    BY <1>7, <1>10, <2>1 DEF Precedes
<1>13. InOrder(hash, tie, merged')
  <2>1. \A y \in Range(merged) : PairBefore(hash, tie, y, h)
    BY <1>4, <1>9, <1>10 DEF Precedes
  <2> QED
    BY <1>3, <1>4, <1>5, <1>10, <2>1, InOrderAppend
<1>14. /\ Range(runs'[1]) \subseteq FromBase /\ Range(runs'[2]) \subseteq FromDelta
       /\ InOrder(hash, tie, runs'[1]) /\ InOrder(hash, tie, runs'[2])
  <2>1. CASE k = 1 /\ o = 2
    BY <1>1, <1>4, <1>6, <2>1 DEF MergeInv
  <2>2. CASE k = 2 /\ o = 1
    BY <1>1, <1>4, <1>6, <2>2 DEF MergeInv
  <2> QED
    BY <1>2, <2>1, <2>2
<1>15. MergeInv'
  BY <1>3, <1>8, <1>11, <1>12, <1>13, <1>14 DEF MergeInv
<1>16. MergeTyped'
  BY <1>1, <1>3, <1>6, <1>7 DEF MergeTyped
<1> QED
  BY <1>1, <1>3, <1>15, <1>16 DEF MergeIInv

(* The merged run is everything, in order; with one parent that is all.    *)
LEMMA MergeDoneKeeps ==
  ASSUME MergeIInv, MergeDone
  PROVE  MergeIInv'
<1>1. MergeTyped /\ MergeInv /\ slots = <<>> /\ toVisit = {0} /\ live = {0}
  BY DEF MergeIInv, MergeDone
<1>2. /\ runs = <<<<>>, <<>>>>
      /\ IF merged = <<>> \/ MergeParents = 1
         THEN mergePhase' = "done" /\ slots' = merged
         ELSE mergePhase' = "prune" /\ slots' = slots
      /\ UNCHANGED <<hash, tie, old, captured, oldBase, runs, merged, toVisit, live>>
  BY DEF MergeDone, UnchangedByMerge
<1>3. runs[1] = <<>> /\ runs[2] = <<>>
  BY <1>2
<1>4. Range(runs[1]) = {} /\ Range(runs[2]) = {}
  BY <1>3 DEF Range
<1>5. Range(merged) = AllSlots /\ InOrder(hash, tie, merged)
  BY <1>1, <1>4 DEF MergeInv
<1>6. /\ Shown' = Shown /\ Reached' = Reached /\ AllSlots' = AllSlots
      /\ \A s : Said(s)' = Said(s)
  BY <1>2, MergeFrame
<1>7. 0 \in MergePlid /\ 0 \in Reached
  BY MergeAssumption DEF MergePlid, Reached
<1>8. CASE merged = <<>> \/ MergeParents = 1
  <2>1. \A s \in Shown : s[1] \in Reached
    <3>1. CASE merged = <<>>
      <4>1. AllSlots = {}
        BY <1>5, <3>1 DEF Range
      <4> QED
        BY <4>1 DEF AllSlots
    <3>2. CASE MergeParents = 1
      <4>1. MergePlid = {0}
        BY <3>2 DEF MergePlid
      <4>2. \A s \in Shown : s[1] = 0
        BY <1>1, <4>1, WhatIsSaid DEF Slot
      <4> QED
        BY <1>7, <4>2
    <3> QED
      BY <1>8, <3>1, <3>2
  <2>2. AllSlots = {<<s, Said(s)>> : s \in {u \in Shown : u[1] \in Reached}}
    BY <2>1 DEF AllSlots
  <2>3. mergePhase' = "done" /\ slots' = merged
    BY <1>2, <1>8
  <2>4. DoneInv'
    BY <1>2, <1>5, <1>6, <2>2, <2>3 DEF DoneInv
  <2>5. MergeTyped'
    BY <1>1, <1>2, <2>3 DEF MergeTyped
  <2> QED
    BY <2>3, <2>4, <2>5 DEF MergeIInv
<1>9. CASE ~(merged = <<>> \/ MergeParents = 1)
  <2>1. mergePhase' = "prune" /\ slots' = <<>>
    BY <1>1, <1>2, <1>9
  <2>2. PruneInv'
    BY <1>1, <1>2, <1>5, <1>6, <1>7 DEF PruneInv
  <2>3. MergeTyped'
    BY <1>1, <1>2, <2>1 DEF MergeTyped
  <2> QED
    BY <2>1, <2>2, <2>3 DEF MergeIInv
<1> QED
  BY <1>8, <1>9

(* A visited directory leads only to what is reached, and to all of it.    *)
LEMMA FollowKeeps ==
  ASSUME MergeIInv, NEW p \in MergePlid, Follow(p)
  PROVE  MergeIInv'
<1>1. MergeTyped /\ PruneInv /\ slots = <<>>
  BY DEF MergeIInv, Follow
<1> DEFINE found ==
      {merged[k][2] : k \in {i \in DOMAIN merged : merged[i][1][1] = p}}
      \cap ((MergePlid \ {0}) \ live)
<1>2. /\ mergePhase' = "prune" /\ p \in toVisit
      /\ live' = live \cup found /\ toVisit' = (toVisit \ {p}) \cup found
      /\ UNCHANGED <<hash, tie, old, captured, oldBase, runs, merged, slots>>
  BY DEF Follow, UnchangedByPrune
<1>3. found \subseteq (MergePlid \ {0}) \ live
  OBVIOUS
<1>4. live \in SUBSET MergePlid /\ toVisit \in SUBSET MergePlid
  BY <1>1 DEF MergeTyped
<1>5. \A v \in found : \E s \in Shown : s[1] = p /\ Said(s) = v
  <2> SUFFICES ASSUME NEW k \in DOMAIN merged, merged[k][1][1] = p
               PROVE  \E s \in Shown : s[1] = p /\ Said(s) = merged[k][2]
    OBVIOUS
  <2>1. merged[k] \in AllSlots
    BY <1>1 DEF PruneInv, Range
  <2>2. merged[k][1] \in Shown /\ merged[k][2] = Said(merged[k][1])
    BY <1>1, <2>1, WhatIsSaid
  <2> QED
    BY <2>2
<1>6. \A s \in Shown : s[1] = p /\ Said(s) > 0 => Said(s) \in live \cup found
  <2> SUFFICES ASSUME NEW s \in Shown, s[1] = p, Said(s) > 0
               PROVE  Said(s) \in live \cup found
    OBVIOUS
  <2>1. <<s, Said(s)>> \in Range(merged)
    BY <1>1 DEF PruneInv, AllSlots
  <2>2. PICK k \in DOMAIN merged : merged[k] = <<s, Said(s)>>
    BY <2>1 DEF Range
  <2>3. Said(s) \in Value
    BY <1>1, WhatIsSaid
  <2>4. Said(s) \in MergePlid \ {0}
    BY <2>3 DEF Value, Leaf, Other
  <2>5. merged[k][1][1] = p /\ merged[k][2] = Said(s)
    BY <2>2
  <2> QED
    BY <2>4, <2>5
<1>7. p \in Reached /\ p \in MergePlid
  <2>1. toVisit \subseteq live
    BY <1>1, MergeAssumption DEF PruneInv
  <2> QED
    BY <1>1, <1>2, <2>1 DEF PruneInv
<1> HIDE DEF found
<1>8. found \subseteq Reached
  <2> SUFFICES ASSUME NEW v \in found, NEW P \in SUBSET MergePlid,
                      0 \in P, LeadsWithin(P)
               PROVE  v \in P
    BY <1>3 DEF Reached
  <2>1. p \in P
    BY <1>7 DEF Reached
  <2>2. PICK s \in Shown : s[1] = p /\ Said(s) = v
    BY <1>5
  <2>3. v > 0
    BY <1>3, MergeAssumption DEF MergePlid
  <2> QED
    BY <2>1, <2>2, <2>3 DEF LeadsWithin
<1>9. /\ Shown' = Shown /\ Reached' = Reached /\ AllSlots' = AllSlots
      /\ \A s : Said(s)' = Said(s)
  BY <1>2, MergeFrame
<1>10. /\ 0 \in live' /\ live' \subseteq Reached /\ toVisit' \subseteq live'
       /\ live' \in SUBSET MergePlid /\ toVisit' \in SUBSET MergePlid
  BY <1>1, <1>2, <1>3, <1>4, <1>8 DEF PruneInv
<1>11. ASSUME NEW s \in Shown, s[1] \in live' \ toVisit', Said(s) > 0
       PROVE  Said(s) \in live'
  <2>1. s[1] \in live \ toVisit \/ s[1] = p
    BY <1>2, <1>11
  <2>2. CASE s[1] \in live \ toVisit
    BY <1>1, <1>2, <1>11, <2>2 DEF PruneInv
  <2>3. CASE s[1] = p
    BY <1>2, <1>6, <1>11, <2>3
  <2> QED
    BY <2>1, <2>2, <2>3
<1>12. Range(merged') = AllSlots' /\ InOrder(hash, tie, merged)'
  BY <1>1, <1>2, <1>9 DEF PruneInv, InOrder
<1>13. PruneInv'
  BY <1>9, <1>10, <1>11, <1>12 DEF PruneInv
<1>14. MergeTyped'
  BY <1>1, <1>2, <1>10 DEF MergeTyped
<1> QED
  BY <1>1, <1>2, <1>13, <1>14 DEF MergeIInv

(* With nothing to visit, what is found is closed: it is what is reached.  *)
LEMMA FollowDoneKeeps ==
  ASSUME MergeIInv, FollowDone
  PROVE  MergeIInv'
<1>1. MergeTyped /\ PruneInv /\ slots = <<>> /\ toVisit = {}
  BY DEF MergeIInv, FollowDone
<1>2. /\ mergePhase' = "drop"
      /\ UNCHANGED <<hash, tie, old, captured, oldBase, runs, merged, slots,
                     toVisit, live>>
  BY DEF FollowDone, UnchangedByPrune
<1>3. live \in SUBSET MergePlid /\ 0 \in live /\ live \subseteq Reached
  BY <1>1 DEF MergeTyped, PruneInv
<1>4. LeadsWithin(live)
  BY <1>1 DEF PruneInv, LeadsWithin
<1>5. live = Reached
  BY <1>3, <1>4 DEF Reached
<1>6. Reached' = Reached /\ AllSlots' = AllSlots
  BY <1>2, MergeFrame
<1>7. Range(slots) = {} /\ InOrder(hash, tie, slots)
  BY <1>1 DEF Range, InOrder
<1>8. Live(AllSlots) = Live(Range(merged))
  BY <1>1 DEF PruneInv
<1>9. DropInv
  BY <1>1, <1>5, <1>7, <1>8 DEF DropInv, PruneInv, Precedes
<1>10. DropInv'
  BY <1>2, <1>6, <1>9 DEF DropInv, InOrder, Precedes, Live
<1>11. MergeTyped'
  BY <1>1, <1>2 DEF MergeTyped
<1> QED
  BY <1>2, <1>10, <1>11 DEF MergeIInv

(* Keeping or dropping the next slot.                                      *)
LEMMA DropKeeps ==
  ASSUME MergeIInv, Drop
  PROVE  MergeIInv'
<1>1. MergeTyped /\ DropInv
  BY DEF MergeIInv, Drop
<1> DEFINE h == Head(merged)
<1>2. /\ mergePhase' = "drop" /\ merged # <<>> /\ merged' = Tail(merged)
      /\ slots' = IF h[1][1] \in live THEN Append(slots, h) ELSE slots
      /\ UNCHANGED <<hash, tie, old, captured, oldBase, runs, toVisit, live>>
  BY DEF Drop, UnchangedByPrune
<1>3. merged \in Seq(SlotPair) /\ slots \in Seq(SlotPair)
  BY <1>1 DEF MergeTyped
<1>4. /\ Tail(merged) \in Seq(SlotPair) /\ h \in SlotPair
      /\ Range(merged) = {h} \cup Range(Tail(merged))
  BY <1>2, <1>3, RangeOfTail
<1>5. /\ InOrder(hash, tie, Tail(merged))
      /\ \A y \in Range(Tail(merged)) : PairBefore(hash, tie, h, y)
  BY <1>1, <1>2, <1>3, InOrderTail DEF DropInv
<1> HIDE DEF h
<1>6. Append(slots, h) \in Seq(SlotPair)
      /\ Range(Append(slots, h)) = Range(slots) \cup {h}
  BY <1>3, <1>4, RangeOfAppend
<1>7. InOrder(hash, tie, Append(slots, h))
  <2>1. \A y \in Range(slots) : PairBefore(hash, tie, y, h)
    BY <1>1, <1>4 DEF DropInv, Precedes
  <2>2. InOrder(hash, tie, slots)
    BY <1>1 DEF DropInv
  <2> QED
    BY <1>3, <1>4, <2>1, <2>2, InOrderAppend
<1>8. /\ slots' \in Seq(SlotPair) /\ InOrder(hash, tie, slots')
      /\ Range(slots') = Range(slots) \cup Live({h})
  <2>1. CASE h[1][1] \in live
    BY <1>2, <1>6, <1>7, <2>1 DEF Live
  <2>2. CASE h[1][1] \notin live
    BY <1>1, <1>2, <1>3, <2>2 DEF Live, DropInv
  <2> QED
    BY <2>1, <2>2
<1>9. Live(AllSlots) = Range(slots') \cup Live(Range(merged'))
  BY <1>1, <1>2, <1>4, <1>8 DEF DropInv, Live
<1>10. Precedes(hash, tie, Range(slots'), Range(merged'))
  <2>1. \A y \in Range(slots') : y \in Range(slots) \/ y = h
    BY <1>8 DEF Live
  <2>2. \A z \in Range(merged') : z \in Range(merged) /\ PairBefore(hash, tie, h, z)
    BY <1>2, <1>4, <1>5
  <2> QED
    BY <1>1, <2>1, <2>2 DEF DropInv, Precedes
<1>11. Reached' = Reached /\ AllSlots' = AllSlots
  BY <1>2, MergeFrame
<1>12. DropInv'
  <2>1. \A S : Live(S)' = {x \in S' : x[1][1] \in live}
    BY <1>2 DEF Live
  <2>2. Live(AllSlots)' = Live(AllSlots) /\ Live(Range(merged))' = Live(Range(merged'))
    BY <1>2, <1>11 DEF Live
  <2>3. InOrder(hash, tie, merged)'
    BY <1>2, <1>5 DEF InOrder
  <2>4. InOrder(hash, tie, slots)'
    BY <1>2, <1>8 DEF InOrder
  <2>5. Precedes(hash, tie, Range(slots), Range(merged))'
    BY <1>2, <1>10 DEF Precedes
  <2>6. live' = Reached'
    BY <1>1, <1>2, <1>11 DEF DropInv
  <2> QED
    BY <1>9, <2>2, <2>3, <2>4, <2>5, <2>6 DEF DropInv
<1>13. MergeTyped'
  BY <1>1, <1>2, <1>4, <1>8 DEF MergeTyped
<1> QED
  BY <1>2, <1>12, <1>13 DEF MergeIInv

(* With all slots looked at, those of the directories found are kept.      *)
LEMMA DropDoneKeeps ==
  ASSUME MergeIInv, DropDone
  PROVE  MergeIInv'
<1>1. MergeTyped /\ DropInv /\ merged = <<>>
  BY DEF MergeIInv, DropDone
<1>2. /\ mergePhase' = "done"
      /\ UNCHANGED <<hash, tie, old, captured, oldBase, runs, merged, slots,
                     toVisit, live>>
  BY DEF DropDone, UnchangedByPrune
<1>3. Range(merged) = {}
  BY <1>1 DEF Range
<1>4. Range(slots) = Live(AllSlots) /\ InOrder(hash, tie, slots) /\ live = Reached
  BY <1>1, <1>3 DEF DropInv, Live
<1>5. Live(AllSlots) = {<<s, Said(s)>> : s \in {u \in Shown : u[1] \in Reached}}
  BY <1>4 DEF Live, AllSlots
<1>6. DoneInv
  BY <1>4, <1>5 DEF DoneInv
<1>7. /\ Shown' = Shown /\ Reached' = Reached /\ \A s : Said(s)' = Said(s)
  BY <1>2, MergeFrame
<1>8. DoneInv'
  BY <1>2, <1>6, <1>7 DEF DoneInv, InOrder
<1>9. MergeTyped'
  BY <1>1, <1>2 DEF MergeTyped
<1> QED
  BY <1>2, <1>8, <1>9 DEF MergeIInv

(* A step that changes nothing.                                            *)
LEMMA MergeStutterKeeps ==
  ASSUME MergeIInv, UNCHANGED mergeVars
  PROVE  MergeIInv'
<1>1. UNCHANGED <<hash, tie, old, captured, mergePhase, oldBase, runs, merged,
                  slots, toVisit, live>>
  BY DEF mergeVars
<1>2. /\ Shown' = Shown /\ Reached' = Reached /\ Inserts' = Inserts
      /\ AllSlots' = AllSlots /\ FromBase' = FromBase /\ FromDelta' = FromDelta
      /\ \A s : Said(s)' = Said(s)
  BY <1>1, MergeFrame
<1>3. MergeTyped'
  BY <1>1 DEF MergeIInv, MergeTyped
<1>4. BaseInv' <=> BaseInv
  BY <1>1, <1>2 DEF BaseInv, InOrder, Waiting
<1>5. InsertsInv' <=> InsertsInv
  BY <1>1, <1>2 DEF InsertsInv, InOrder, Precedes, ToCome, ToInsert
<1>6. MergeInv' <=> MergeInv
  BY <1>1, <1>2 DEF MergeInv, InOrder, Precedes
<1>7. PruneInv' <=> PruneInv
  BY <1>1, <1>2 DEF PruneInv, InOrder
<1>8. DropInv' <=> DropInv
  BY <1>1, <1>2 DEF DropInv, InOrder, Precedes, Live
<1>9. DoneInv' <=> DoneInv
  BY <1>1, <1>2 DEF DoneInv, InOrder
<1> QED
  BY <1>1, <1>3, <1>4, <1>5, <1>6, <1>7, <1>8, <1>9 DEF MergeIInv

(* Every step keeps the invariant.                                         *)
LEMMA MergeStep == MergeIInv /\ [MergeNext]_mergeVars => MergeIInv'
<1> SUFFICES ASSUME MergeIInv, [MergeNext]_mergeVars PROVE MergeIInv'
  OBVIOUS
<1>1. CASE CollectBase
  BY <1>1, CollectBaseKeeps
<1>2. CASE BaseDone
  BY <1>2, BaseDoneKeeps
<1>3. ASSUME NEW s \in Slot, CollectInsert(s) PROVE MergeIInv'
  BY <1>3, CollectInsertKeeps
<1>4. CASE InsertsDone
  BY <1>4, InsertsDoneKeeps
<1>5. ASSUME NEW k \in {1, 2}, MergeFrom(k) PROVE MergeIInv'
  BY <1>5, MergeFromKeeps
<1>6. CASE MergeDone
  BY <1>6, MergeDoneKeeps
<1>7. ASSUME NEW p \in MergePlid, Follow(p) PROVE MergeIInv'
  BY <1>7, FollowKeeps
<1>8. CASE FollowDone
  BY <1>8, FollowDoneKeeps
<1>9. CASE Drop
  BY <1>9, DropKeeps
<1>10. CASE DropDone
  BY <1>10, DropDoneKeeps
<1>11. CASE UNCHANGED mergeVars
  BY <1>11, MergeStutterKeeps
<1>12. MergeFrom(1) => \E k \in {1, 2} : MergeFrom(k)
  OBVIOUS
<1>13. MergeFrom(2) => \E k \in {1, 2} : MergeFrom(k)
  OBVIOUS
<1> QED
  BY <1>1, <1>2, <1>3, <1>4, <1>5, <1>6, <1>7, <1>8, <1>9, <1>10, <1>11, <1>12,
     <1>13 DEF MergeNext

(* A compaction's next base is what base and delta said together of the    *)
(* directories the root reaches, each name once and in the order that      *)
(* lookups rely on (compact_collect_slots, compact_merge_sorted_runs,      *)
(* compact_drop_dead_plids).  Property: MergedIsNamespace.                 *)
THEOREM MergeIsNamespace == MergeSpec => []MergedIsNamespace
<1>1. MergeIInv => MergedIsNamespace
  <2> SUFFICES ASSUME MergeIInv, mergePhase = "done" PROVE DoneInv => MergedIsNamespace
    BY DEF MergeIInv, MergedIsNamespace
  <2> QED
    BY DEF DoneInv, MergedIsNamespace, InOrder, PairBefore, Le, PrefixLe, PrefixLess
<1> QED
  BY <1>1, MergeInitIInv, MergeStep, PTL DEF MergeSpec

-----------------------------------------------------------------------------
(* OpClock: what the counters and their readers add up to.                 *)
(* A CPU that publishes has a full batch, one that counts has not.         *)
BatchIsFull ==
  \A c \in Cpu : /\ publish[c] = "no" => local[c] < Batch
                 /\ publish[c] # "no" => local[c] = Batch

ClockIInv ==
  /\ ClockTypeOK /\ BatchIsFull
  /\ IsFiniteSet(Unpublished) /\ EveryTickCounted

-----------------------------------------------------------------------------
LEMMA ClockInitIInv == ClockInit => ClockIInv
<1> SUFFICES ASSUME ClockInit PROVE ClockIInv
  OBVIOUS
<1> USE OpClockAssumption
<1>1. ClockTypeOK
  <2>1. [left |-> {}, sum |-> 0, ask |-> FALSE, since |-> 0] \in Reading
    BY DEF Reading
  <2> QED
    BY <2>1 DEF ClockInit, ClockTypeOK
<1>2. BatchIsFull
  BY DEF ClockInit, BatchIsFull
<1>3. Unpublished = {}
  BY DEF ClockInit, Unpublished, Pending
<1>4. IsFiniteSet(Unpublished) /\ EveryTickCounted
  BY <1>3, FS_EmptySet DEF ClockInit, EveryTickCounted
<1> QED
  BY <1>1, <1>2, <1>4 DEF ClockIInv

LEMMA ClockStepType == ClockTypeOK /\ BatchIsFull /\ [ClockNext]_clockVars => ClockTypeOK'
<1> SUFFICES ASSUME ClockTypeOK, BatchIsFull, [ClockNext]_clockVars PROVE ClockTypeOK'
  OBVIOUS
<1> USE OpClockAssumption
<1>1. ASSUME NEW c \in Cpu, TickPrecise(c) \/ Tick(c) \/ Add(c) \/ Clear(c)
      PROVE  ClockTypeOK'
  <2>1. CASE TickPrecise(c)
    BY <2>1 DEF TickPrecise, ClockTypeOK
  <2>2. CASE Tick(c)
    <3>1. local[c] + 1 \in 0..Batch
      BY <2>2 DEF Tick, ClockTypeOK, BatchIsFull
    <3> QED
      BY <2>2, <3>1 DEF Tick, ClockTypeOK
  <2>3. CASE Add(c)
    BY <2>3 DEF Add, ClockTypeOK
  <2>4. CASE Clear(c)
    BY <2>4 DEF Clear, ClockTypeOK
  <2> QED
    BY <1>1, <2>1, <2>2, <2>3, <2>4
<1>2. CASE Retune
  BY <1>2 DEF Retune, ClockTypeOK
<1>3. ASSUME NEW r \in Reader, read' = [read EXCEPT ![r] = read'[r]], read'[r] \in Reading,
             UNCHANGED <<clock, local, publish, precise, ticks>>
      PROVE  ClockTypeOK'
  BY <1>3 DEF ClockTypeOK
<1>4. ASSUME NEW r \in Reader, ReadExact(r) \/ ReadNow(r)
      PROVE  ClockTypeOK'
  <2>1. ticks \in Nat
    BY DEF ClockTypeOK
  <2>2. read'[r] \in Reading /\ read' = [read EXCEPT ![r] = read'[r]]
    <3>1. CASE ReadExact(r)
      BY <3>1, <2>1 DEF ReadExact, ClockTypeOK, Reading
    <3>2. CASE ReadNow(r)
      BY <3>2, <2>1 DEF ReadNow, ClockTypeOK, Reading
    <3> QED
      BY <1>4, <3>1, <3>2
  <2> QED
    BY <1>3, <1>4, <2>2 DEF ReadExact, ReadNow
<1>5. ASSUME NEW r \in Reader, ReadMode(r)
      PROVE  ClockTypeOK'
  <2>1. read[r] \in Reading
    BY DEF ClockTypeOK
  <2>2. read'[r] \in Reading /\ read' = [read EXCEPT ![r] = read'[r]]
    BY <1>5, <2>1 DEF ReadMode, ClockTypeOK, Reading
  <2> QED
    BY <1>3, <1>5, <2>2 DEF ReadMode
<1>6. ASSUME NEW r \in Reader, NEW x \in Cpu \cup {Clock}, ReadNext(r, x)
      PROVE  ClockTypeOK'
  <2> DEFINE v == IF x = Clock THEN clock ELSE local[x]
  <2>1. read[r] \in Reading /\ v \in Nat
    BY DEF ClockTypeOK
  <2>2. read' = [read EXCEPT ![r].left = @ \ {x}, ![r].sum = @ + v]
    BY <1>6 DEF ReadNext
  <2> HIDE DEF v
  <2>3. read'[r] = [left |-> read[r].left \ {x}, sum |-> read[r].sum + v,
                    ask |-> read[r].ask, since |-> read[r].since]
    BY <2>1, <2>2 DEF ClockTypeOK, Reading
  <2>4. read'[r] \in Reading
    <3>1. /\ read[r].left \ {x} \in SUBSET (Cpu \cup {Clock})
          /\ read[r].ask \in BOOLEAN /\ read[r].since \in Nat
      BY <2>1 DEF Reading
    <3>2. read[r].sum + v \in Nat
      BY <2>1 DEF Reading
    <3> QED
      BY <2>3, <3>1, <3>2 DEF Reading
  <2>5. read' = [read EXCEPT ![r] = read'[r]]
    BY <2>2 DEF ClockTypeOK
  <2> QED
    BY <1>3, <1>6, <2>4, <2>5 DEF ReadNext
<1>7. CASE UNCHANGED clockVars
  BY <1>7 DEF clockVars, ClockTypeOK
<1> QED
  BY <1>1, <1>2, <1>4, <1>5, <1>6, <1>7 DEF ClockNext

-----------------------------------------------------------------------------
(* One tick more on a CPU that counts.                                     *)
LEMMA ClockCountsTick ==
  ASSUME ClockIInv, ClockTypeOK', NEW c \in Cpu, Tick(c)
  PROVE  BatchIsFull' /\ IsFiniteSet(Unpublished') /\ EveryTickCounted'
<1> USE OpClockAssumption
<1>1. local[c] \in 0..Batch /\ local[c] < Batch /\ local'[c] = local[c] + 1
  BY DEF ClockIInv, ClockTypeOK, BatchIsFull, Tick
<1>2. /\ Pending(c) = local[c] /\ Pending(c)' = local[c] + 1
      /\ \A d \in Cpu \ {c} : Pending(d)' = Pending(d)
  BY <1>1 DEF Tick, Pending, ClockIInv, ClockTypeOK
<1>3. \A d \in Cpu : Pending(d) \in 0..Batch /\ Pending(d)' \in 0..Batch
  BY DEF Pending, ClockIInv, ClockTypeOK
<1>4. BatchIsFull'
  BY <1>1 DEF Tick, BatchIsFull, ClockIInv, ClockTypeOK
<1> DEFINE new == <<c, local[c] + 1>>
<1>5. /\ Unpublished' = Unpublished \cup {new}
      /\ new \notin Unpublished
  <2>1. Unpublished' = {t \in Cpu \X (1..Batch) : t[2] <= Pending(t[1])'}
    BY DEF Unpublished
  <2>2. new \in Unpublished' /\ new \notin Unpublished
    BY <1>1, <1>2, <2>1 DEF Unpublished
  <2>3. ASSUME NEW t \in Unpublished PROVE t \in Unpublished'
    BY <1>1, <1>2, <1>3, <2>1 DEF Unpublished
  <2>4. ASSUME NEW t \in Unpublished', t # new PROVE t \in Unpublished
    <3>1. t \in Cpu \X (1..Batch) /\ t[2] <= Pending(t[1])' /\ t = <<t[1], t[2]>>
      BY <2>1
    <3>2. CASE t[1] = c
      BY <1>1, <1>2, <2>4, <3>1, <3>2 DEF Unpublished
    <3>3. CASE t[1] # c
      BY <1>2, <3>1, <3>3 DEF Unpublished
    <3> QED
      BY <3>2, <3>3
  <2> QED
    BY <2>2, <2>3, <2>4
<1> HIDE DEF new
<1>6. IsFiniteSet(Unpublished') /\ Cardinality(Unpublished') = Cardinality(Unpublished) + 1
  BY <1>5, FS_AddElement DEF ClockIInv
<1>7. Cardinality(Unpublished) \in Nat
  BY FS_CardinalityType DEF ClockIInv
<1>8. EveryTickCounted'
  BY <1>6, <1>7 DEF EveryTickCounted, ClockIInv, ClockTypeOK, Tick
<1> QED
  BY <1>4, <1>6, <1>8

(* A full batch moves into the shared counter.                             *)
LEMMA ClockAddsBatch ==
  ASSUME ClockIInv, ClockTypeOK', NEW c \in Cpu, Add(c)
  PROVE  BatchIsFull' /\ IsFiniteSet(Unpublished') /\ EveryTickCounted'
<1> USE OpClockAssumption
<1>1. local' = local /\ local[c] = Batch /\ publish[c] = "add" /\ publish'[c] = "clear"
  BY DEF ClockIInv, ClockTypeOK, BatchIsFull, Add
<1>2. /\ Pending(c) = Batch /\ Pending(c)' = 0
      /\ \A d \in Cpu \ {c} : Pending(d)' = Pending(d)
  BY <1>1 DEF Add, Pending, ClockIInv, ClockTypeOK
<1>4. BatchIsFull'
  BY <1>1 DEF Add, BatchIsFull, ClockIInv, ClockTypeOK
<1> DEFINE batch == {c} \X (1..Batch)
<1>5. Unpublished' = Unpublished \ batch /\ Unpublished \cap batch = batch
  <2>1. Unpublished' = {t \in Cpu \X (1..Batch) : t[2] <= Pending(t[1])'}
    BY DEF Unpublished
  <2>2. ASSUME NEW t \in batch PROVE t \in Unpublished /\ t \notin Unpublished'
    BY <1>2, <2>1 DEF Unpublished
  <2>3. ASSUME NEW t \in Cpu \X (1..Batch), t \notin batch
        PROVE  t \in Unpublished <=> t \in Unpublished'
    <3>1. t[1] # c /\ t[1] \in Cpu
      BY <2>3
    <3> QED
      BY <1>2, <2>1, <3>1 DEF Unpublished
  <2>4. Unpublished \subseteq Cpu \X (1..Batch) /\ Unpublished' \subseteq Cpu \X (1..Batch)
    BY <2>1 DEF Unpublished
  <2> QED
    BY <2>2, <2>3, <2>4
<1>6. Cardinality(batch) = Batch
  <2>1. IsFiniteSet({c}) /\ Cardinality({c}) = 1
    BY FS_Singleton
  <2>2. IsFiniteSet(1..Batch) /\ Cardinality(1..Batch) = Batch
    BY FS_Interval
  <2>3. Cardinality(batch) = 1 * Batch
    BY <2>1, <2>2, FS_Product
  <2> QED
    BY <2>3
<1> HIDE DEF batch
<1>7. /\ IsFiniteSet(Unpublished')
      /\ Cardinality(Unpublished') = Cardinality(Unpublished) - Batch
  BY <1>5, <1>6, FS_Difference DEF ClockIInv
<1>8. Cardinality(Unpublished) \in Nat
  BY FS_CardinalityType DEF ClockIInv
<1>9. EveryTickCounted'
  BY <1>7, <1>8 DEF EveryTickCounted, ClockIInv, ClockTypeOK, Add
<1> QED
  BY <1>4, <1>7, <1>9

LEMMA ClockStep == ClockIInv /\ [ClockNext]_clockVars => ClockIInv'
<1> SUFFICES ASSUME ClockIInv, [ClockNext]_clockVars PROVE ClockIInv'
  OBVIOUS
<1> USE OpClockAssumption
<1>1. ClockTypeOK'
  BY ClockStepType DEF ClockIInv
<1>2. ASSUME BatchIsFull', Unpublished' = Unpublished, clock' - clock = ticks' - ticks
      PROVE  ClockIInv'
  <2>1. Cardinality(Unpublished) \in Nat
    BY FS_CardinalityType DEF ClockIInv
  <2>2. EveryTickCounted'
    BY <1>1, <1>2, <2>1 DEF EveryTickCounted, ClockIInv, ClockTypeOK
  <2> QED
    BY <1>1, <1>2, <2>2 DEF ClockIInv
<1>3. ASSUME UNCHANGED <<clock, local, publish, ticks>> PROVE ClockIInv'
  <2>1. BatchIsFull'
    BY <1>3 DEF BatchIsFull, ClockIInv
  <2>2. Unpublished' = Unpublished
    BY <1>3 DEF Unpublished, Pending
  <2> QED
    BY <1>2, <1>3, <2>1, <2>2 DEF ClockIInv, ClockTypeOK
<1>4. ASSUME NEW c \in Cpu, TickPrecise(c) PROVE ClockIInv'
  <2>1. BatchIsFull'
    BY <1>4 DEF TickPrecise, BatchIsFull, ClockIInv
  <2>2. Unpublished' = Unpublished
    BY <1>4 DEF TickPrecise, Unpublished, Pending
  <2> QED
    BY <1>2, <1>4, <2>1, <2>2 DEF TickPrecise, ClockIInv, ClockTypeOK
<1>5. ASSUME NEW c \in Cpu, Tick(c) PROVE ClockIInv'
  BY <1>1, <1>5, ClockCountsTick DEF ClockIInv
<1>6. ASSUME NEW c \in Cpu, Add(c) PROVE ClockIInv'
  BY <1>1, <1>6, ClockAddsBatch DEF ClockIInv
<1>7. ASSUME NEW c \in Cpu, Clear(c) PROVE ClockIInv'
  <2>1. BatchIsFull'
    BY <1>7 DEF Clear, BatchIsFull, ClockIInv, ClockTypeOK
  <2>2. \A d \in Cpu : Pending(d)' = Pending(d)
    BY <1>7 DEF Clear, Pending, ClockIInv, ClockTypeOK
  <2>3. Unpublished' = Unpublished
    BY <2>2 DEF Unpublished
  <2> QED
    BY <1>2, <1>7, <2>1, <2>3 DEF Clear, ClockIInv, ClockTypeOK
<1>8. CASE \/ Retune \/ UNCHANGED clockVars
           \/ \E r \in Reader : ReadExact(r) \/ ReadNow(r) \/ ReadMode(r)
                \/ \E x \in Cpu \cup {Clock} : ReadNext(r, x)
  BY <1>3, <1>8 DEF Retune, clockVars, ReadExact, ReadNow, ReadMode, ReadNext
<1> QED
  BY <1>4, <1>5, <1>6, <1>7, <1>8 DEF ClockNext

-----------------------------------------------------------------------------

(* What a reader has added up so far: of the shared counter no more than   *)
(* there are operations, of a CPU's counter no more than a batch; and with *)
(* the shared counter all that was published when it began.                *)
FromShared(rd) == IF Clock \in rd.left THEN 0 ELSE ticks
FromCpus(rd) == Cardinality((Cpu \ rd.left) \X (1..Batch))
AddedUp(rd) ==
  /\ rd.since <= ticks
  /\ rd.sum <= FromShared(rd) + FromCpus(rd)
  /\ rd.ask => rd.left \subseteq {Clock} /\ rd.sum <= FromShared(rd)
  /\ Clock \notin rd.left => rd.since <= rd.sum + Slack

ReadersAddUp == \A r \in Reader : AddedUp(read[r])

LEMMA ClockBatches ==
  /\ IsFiniteSet(Cpu \X (1..Batch)) /\ Cardinality(Cpu \X (1..Batch)) = Slack
  /\ Slack \in Nat
<1> USE OpClockAssumption
<1>1. IsFiniteSet(1..Batch) /\ Cardinality(1..Batch) = Batch
  BY FS_Interval
<1>2. /\ IsFiniteSet(Cpu \X (1..Batch))
      /\ Cardinality(Cpu \X (1..Batch)) = Cardinality(Cpu) * Batch
  BY <1>1, FS_Product
<1>3. Cardinality(Cpu) \in Nat
  BY FS_CardinalityType
<1>4. Cardinality(Cpu) * Batch = Slack
  BY <1>3 DEF Slack
<1>5. Cardinality(Cpu \X (1..Batch)) \in Nat
  BY <1>2, FS_CardinalityType
<1> QED
  BY <1>2, <1>4, <1>5

(* The CPUs already read have given at most their batches: none yet, one   *)
(* batch more with each, and never more than one per CPU.                  *)
LEMMA ClockFromCpus ==
  ASSUME NEW rd
  PROVE  /\ FromCpus(rd) \in Nat /\ FromCpus(rd) <= Slack
         /\ \A c \in Cpu : \A new : c \in rd.left /\ new.left = rd.left \ {c}
              => FromCpus(new) = FromCpus(rd) + Batch
<1> USE OpClockAssumption
<1> DEFINE had == (Cpu \ rd.left) \X (1..Batch)
<1>1. had \in SUBSET (Cpu \X (1..Batch))
  OBVIOUS
<1>2. IsFiniteSet(had) /\ Cardinality(had) <= Slack /\ Cardinality(had) \in Nat
  BY <1>1, ClockBatches, FS_Subset, FS_CardinalityType
<1>3. ASSUME NEW c \in Cpu, NEW new, c \in rd.left, new.left = rd.left \ {c}
      PROVE  FromCpus(new) = FromCpus(rd) + Batch
  <2> DEFINE one == {c} \X (1..Batch)
  <2>1. (Cpu \ new.left) \X (1..Batch) = had \cup one
    <3>1. Cpu \ new.left = (Cpu \ rd.left) \cup {c}
      BY <1>3
    <3> QED
      BY <3>1
  <2>2. had \cap one = {}
    BY <1>3
  <2>3. IsFiniteSet({c}) /\ Cardinality({c}) = 1
    BY FS_Singleton
  <2>4. IsFiniteSet(1..Batch) /\ Cardinality(1..Batch) = Batch
    BY FS_Interval
  <2>5. IsFiniteSet(one) /\ Cardinality(one) = 1 * Batch
    BY <2>3, <2>4, FS_Product
  <2> HIDE DEF had, one
  <2>6. Cardinality(had \cup one) = Cardinality(had) + Cardinality(one) - Cardinality({})
    BY <1>2, <2>2, <2>5, FS_Union
  <2>7. Cardinality({}) = 0
    BY FS_EmptySet
  <2>8. FromCpus(rd) = Cardinality(had) /\ FromCpus(new) = Cardinality(had \cup one)
    BY <2>1 DEF FromCpus, had
  <2> QED
    BY <1>2, <2>5, <2>6, <2>7, <2>8
<1> QED
  BY <1>2, <1>3 DEF FromCpus

(* The shared counter is behind by what the CPUs have not published.       *)
LEMMA ClockLag == ClockIInv => clock <= ticks /\ ticks <= clock + Slack
<1> SUFFICES ASSUME ClockIInv PROVE clock <= ticks /\ ticks <= clock + Slack
  OBVIOUS
<1>1. Unpublished \in SUBSET (Cpu \X (1..Batch))
  BY DEF Unpublished
<1>2. Cardinality(Unpublished) <= Slack /\ Cardinality(Unpublished) \in Nat
  BY <1>1, ClockBatches, FS_Subset, FS_CardinalityType
<1> QED
  BY <1>2, ClockBatches DEF ClockIInv, EveryTickCounted, ClockTypeOK

(* A reader's sum moves on its own loads only, but the clock ticks under it.*)
LEMMA ReaderWaits ==
  ASSUME ClockTypeOK, NEW r \in Reader, AddedUp(read[r]), read'[r] = read[r],
         ticks' \in Nat, ticks <= ticks'
  PROVE  AddedUp(read[r])'
<1> DEFINE rd == read[r]
<1>1. /\ rd.sum \in Nat /\ rd.since \in Nat /\ ticks \in Nat
      /\ FromCpus(rd) \in Nat /\ Slack \in Nat
  BY ClockFromCpus, ClockBatches DEF ClockTypeOK, Reading
<1>2. (FromCpus(rd))' = FromCpus(rd) /\ Slack' = Slack
  BY DEF FromCpus, Slack
<1>3. FromShared(rd) \in Nat /\ (FromShared(rd))' \in Nat /\ FromShared(rd) <= (FromShared(rd))'
  BY <1>1 DEF FromShared
<1>4. rd' = rd
  OBVIOUS
<1> HIDE DEF rd
<1>5. AddedUp(rd)
  BY DEF rd
<1>6. AddedUp(rd)'
  BY <1>1, <1>2, <1>3, <1>4, <1>5 DEF AddedUp
<1> QED
  BY <1>6 DEF rd

(* What each load does to the reader that makes it.                        *)
LEMMA ReaderLoads ==
  ASSUME ClockIInv, NEW r \in Reader, NEW x \in Cpu \cup {Clock},
         AddedUp(read[r]), ReadNext(r, x)
  PROVE  AddedUp(read[r])'
<1> USE OpClockAssumption
<1> DEFINE rd == read[r]
           new == [rd EXCEPT !.left = @ \ {x},
                             !.sum = @ + (IF x = Clock THEN clock ELSE local[x])]
<1>1. rd \in Reading /\ x \in rd.left /\ ticks' = ticks /\ rd' = new
  BY DEF ReadNext, ClockIInv, ClockTypeOK
<1>2. /\ new.left = rd.left \ {x} /\ new.ask = rd.ask /\ new.since = rd.since
      /\ new.sum = rd.sum + (IF x = Clock THEN clock ELSE local[x])
  BY <1>1 DEF Reading
<1>3. /\ rd.sum \in Nat /\ rd.since \in Nat /\ ticks \in Nat /\ clock \in Nat
      /\ clock <= ticks /\ ticks <= clock + Slack /\ Slack \in Nat
  BY <1>1, ClockLag, ClockBatches DEF Reading, ClockIInv, ClockTypeOK
<1> HIDE DEF rd, new
<1>4. AddedUp(rd)
  BY DEF rd
<1>5. /\ FromCpus(rd) \in Nat
      /\ \A c \in Cpu : c \in rd.left /\ new.left = rd.left \ {c}
              => FromCpus(new) = FromCpus(rd) + Batch
  BY ClockFromCpus
<1>6. AddedUp(new)
  <2>1. CASE x = Clock
    <3>1. /\ FromShared(rd) = 0 /\ FromShared(new) = ticks
          /\ new.sum = rd.sum + clock
      BY <1>1, <1>2, <2>1 DEF FromShared
    <3>2. FromCpus(new) = FromCpus(rd)
      <4>1. Cpu \ new.left = Cpu \ rd.left
        BY <1>2, <2>1
      <4> QED
        BY <4>1 DEF FromCpus
    <3>3. new.left \subseteq rd.left
      BY <1>2
    <3> QED
      BY <1>2, <1>3, <1>4, <1>5, <3>1, <3>2, <3>3 DEF AddedUp
  <2>2. CASE x # Clock
    <3>1. x \in Cpu /\ local[x] \in 0..Batch /\ new.sum = rd.sum + local[x]
      BY <1>2, <2>2 DEF ClockIInv, ClockTypeOK
    <3>2. FromCpus(new) = FromCpus(rd) + Batch
      BY <1>1, <1>2, <1>5, <3>1
    <3>3. /\ FromShared(new) = FromShared(rd) /\ FromShared(rd) \in Nat
          /\ Clock \in new.left <=> Clock \in rd.left
      BY <1>2, <1>3, <2>2 DEF FromShared
    <3>4. ~ new.ask
      BY <1>1, <1>2, <1>4, <2>2 DEF AddedUp
    <3>5. new.sum <= FromShared(new) + FromCpus(new)
      BY <1>3, <1>4, <1>5, <3>1, <3>2, <3>3 DEF AddedUp
    <3>6. Clock \notin new.left => new.since <= new.sum + Slack
      BY <1>2, <1>3, <1>4, <3>1, <3>3 DEF AddedUp
    <3>7. new.since <= ticks
      BY <1>2, <1>4 DEF AddedUp
    <3> QED
      BY <3>4, <3>5, <3>6, <3>7 DEF AddedUp
  <2> QED
    BY <2>1, <2>2
<1>7. AddedUp(rd)'
  BY <1>1, <1>6 DEF AddedUp, FromShared, FromCpus, Slack
<1> QED
  BY <1>7 DEF rd

LEMMA ReaderBegins ==
  ASSUME ClockIInv, NEW r \in Reader, AddedUp(read[r]),
         ReadExact(r) \/ ReadNow(r) \/ ReadMode(r)
  PROVE  AddedUp(read[r])'
<1> DEFINE rd == read[r]
           new == read'[r]
<1>1. rd \in Reading /\ ticks' = ticks /\ ticks \in Nat
  BY DEF ReadExact, ReadNow, ReadMode, ClockIInv, ClockTypeOK
<1>2. FromCpus(new) \in Nat /\ Slack \in Nat
  BY ClockFromCpus, ClockBatches
<1>3. CASE ReadExact(r) \/ ReadNow(r)
  <2>1. new.sum = 0 /\ new.since = ticks /\ Clock \in new.left
    BY <1>3 DEF ReadExact, ReadNow, ClockIInv, ClockTypeOK
  <2>2. new.ask => new.left \subseteq {Clock}
    BY <1>3 DEF ReadExact, ReadNow, ClockIInv, ClockTypeOK
  <2> QED
    BY <1>1, <1>2, <2>1, <2>2 DEF AddedUp, FromShared, FromCpus, Slack
<1>4. CASE ReadMode(r)
  <2>1. /\ rd.ask /\ ~new.ask /\ new.sum = rd.sum /\ new.since = rd.since
        /\ (Clock \in new.left <=> Clock \in rd.left)
    BY <1>1, <1>4, OpClockAssumption DEF ReadMode, ClockIInv, ClockTypeOK, Reading
  <2>2. AddedUp(rd) /\ rd.sum \in Nat /\ rd.since \in Nat
    BY <1>1 DEF Reading
  <2>3. FromShared(new) = FromShared(rd) /\ FromShared(new) \in Nat
    BY <1>1, <2>1 DEF FromShared
  <2> HIDE DEF rd, new
  <2>4. AddedUp(new)
    BY <1>1, <1>2, <2>1, <2>2, <2>3 DEF AddedUp
  <2> QED
    BY <1>1, <2>4 DEF new, AddedUp, FromShared, FromCpus, Slack
<1> QED
  BY <1>3, <1>4

LEMMA ReadersStep ==
  ClockIInv /\ ReadersAddUp /\ [ClockNext]_clockVars => ReadersAddUp'
<1> SUFFICES ASSUME ClockIInv, ReadersAddUp, [ClockNext]_clockVars, NEW r \in Reader
             PROVE  AddedUp(read[r])'
  BY DEF ReadersAddUp
<1>1. AddedUp(read[r])
  BY DEF ReadersAddUp
<1>2. ClockTypeOK /\ ticks' \in Nat
  <2>1. ClockTypeOK'
    BY ClockStepType DEF ClockIInv
  <2> QED
    BY <2>1, OpClockAssumption DEF ClockTypeOK, ClockIInv
<1>3. CASE read'[r] = read[r] /\ ticks <= ticks'
  BY <1>1, <1>2, <1>3, ReaderWaits
<1>4. ticks <= ticks /\ ticks <= ticks + 1
  BY <1>2, OpClockAssumption DEF ClockTypeOK
<1>5. ASSUME NEW c \in Cpu, TickPrecise(c) \/ Tick(c) \/ Add(c) \/ Clear(c)
      PROVE  AddedUp(read[r])'
  BY <1>3, <1>4, <1>5 DEF TickPrecise, Tick, Add, Clear
<1>6. CASE Retune \/ UNCHANGED clockVars
  BY <1>3, <1>4, <1>6 DEF Retune, clockVars
<1>7. ASSUME NEW s \in Reader, s # r,
             \/ ReadExact(s) \/ ReadNow(s) \/ ReadMode(s)
             \/ \E x \in Cpu \cup {Clock} : ReadNext(s, x)
      PROVE  AddedUp(read[r])'
  BY <1>2, <1>3, <1>4, <1>7 DEF ReadExact, ReadNow, ReadMode, ReadNext, ClockTypeOK
<1>8. CASE ReadExact(r) \/ ReadNow(r) \/ ReadMode(r)
  BY <1>1, <1>8, ReaderBegins
<1>9. ASSUME NEW x \in Cpu \cup {Clock}, ReadNext(r, x) PROVE AddedUp(read[r])'
  BY <1>1, <1>9, ReaderLoads
<1> QED
  BY <1>5, <1>6, <1>7, <1>8, <1>9 DEF ClockNext

(* However many CPUs tick and publish, the counters lose no operation and  *)
(* count none twice, and however the batches move under a reader and       *)
(* whatever the mode becomes, its sum is off by at most a batch per CPU.   *)
THEOREM ClockIsKept == ClockSpec => []ClockWithinBatches
<1>1. ClockInit => ReadersAddUp
  <2> SUFFICES ASSUME ClockInit, NEW r \in Reader PROVE AddedUp(read[r])
    BY DEF ReadersAddUp
  <2>1. read[r] = [left |-> {}, sum |-> 0, ask |-> FALSE, since |-> 0] /\ ticks = 0
    BY DEF ClockInit
  <2>2. FromCpus(read[r]) \in Nat /\ Slack \in Nat
    BY ClockFromCpus, ClockBatches
  <2> QED
    BY <2>1, <2>2 DEF AddedUp, FromShared
<1>2. ClockIInv /\ ReadersAddUp => ReadWithinBatches
  <2> SUFFICES ASSUME ClockIInv, ReadersAddUp, NEW r \in Reader, Done(r)
               PROVE  /\ read[r].since <= read[r].sum + Slack
                      /\ read[r].sum <= ticks + Slack
    BY DEF ReadWithinBatches
  <2>1. AddedUp(read[r]) /\ read[r] \in Reading /\ ticks \in Nat /\ read[r].left = {}
    BY OpClockAssumption DEF ReadersAddUp, ClockIInv, ClockTypeOK, Done
  <2>2. FromCpus(read[r]) \in Nat /\ FromCpus(read[r]) <= Slack /\ Slack \in Nat
    BY ClockFromCpus, ClockBatches
  <2>3. FromShared(read[r]) = ticks /\ read[r].sum \in Nat
    BY <2>1 DEF FromShared, Reading
  <2> QED
    BY <2>1, <2>2, <2>3 DEF AddedUp
<1>3. ClockSpec => [](ClockIInv /\ ReadersAddUp)
  <2>1. ClockInit => ClockIInv /\ ReadersAddUp
    BY <1>1, ClockInitIInv
  <2>2. ClockIInv /\ ReadersAddUp /\ [ClockNext]_clockVars => (ClockIInv /\ ReadersAddUp)'
    BY ClockStep, ReadersStep
  <2> QED
    BY <2>1, <2>2, PTL DEF ClockSpec
<1>4. ClockIInv /\ ReadersAddUp => ClockWithinBatches
  BY <1>2 DEF ClockWithinBatches, ClockIInv
<1> QED
  BY <1>3, <1>4, PTL
===============================================================================
