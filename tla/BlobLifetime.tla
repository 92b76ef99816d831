---------------------------- MODULE BlobLifetime ----------------------------
(***************************************************************************)
(* Who may still be using a parsed generation when it is freed, and its    *)
(* blocks when they are punched.  Lookups read the installed blob inside   *)
(* RCU, or inside SRCU when the payload is not pinned; readdir takes a     *)
(* reference; the shrinker takes one for the blob it looks at; compaction  *)
(* and demotion pin the blob they replace, wait for both grace periods and *)
(* for the references, and then free the old generation's blocks.          *)
(***************************************************************************)
EXTENDS Naturals, FiniteSets

CONSTANTS Blob,    \* struct ext5_stable_blob objects
          NoBlob,
          Thread,  \* callers of lookup, readdir and ext5_stable_ensure_blob
          LastGen  \* bound: generations ever published

ASSUME BlobLifetimeAssumption ==
  NoBlob \notin Blob /\ IsFiniteSet(Thread) /\ LastGen \in Nat \ {0}

VARIABLES
  obj,        \* per blob: allocated or not, references, generation, flags
  installed,  \* i_stable_blob
  newest,     \* generation of the newest descriptor; 0 once demoted
  alloc,      \* generations whose payload blocks are allocated
  gate,       \* i_li_compact_staging
  hostLive,   \* the root's inode is in memory
  th,         \* per thread: where it is, and the blob it holds
  grace,      \* per retired blob: the callback it waits for, and for whom
  shr,        \* the shrinker: where it is, and the blob it looks at
  job,        \* the compaction and the demotion, and the blobs they hold
  stale,      \* history: a thread installed a generation no longer newest
  freedHeld,  \* history: ext5_stable_ensure_blob freed a referenced blob
  outlived    \* history: a blob was evicted while readdir held it

lifeVars == <<obj, installed, newest, alloc, gate, hostLive, th, grace, shr,
              job, stale, freedHeld, outlived>>

Job == {"compact", "demote"}
Gen == 0..LastGen

Object == [live : BOOLEAN, refs : 0..(Cardinality(Thread) + 5), gen : Gen,
           listed : BOOLEAN, pinned : BOOLEAN]
Gone == [live |-> FALSE, refs |-> 0, gen |-> 0, listed |-> FALSE,
         pinned |-> FALSE]

ThreadState == [pc : {"idle", "parsed", "rcu", "rcuRead", "srcuRead",
                      "refLoad", "refRead"},
                blob : Blob \cup {NoBlob}]
AtRest == [pc |-> "idle", blob |-> NoBlob]

JobState == [pc : {"idle", "build", "publish", "unlist", "rcu", "srcu",
                   "put", "drain", "punch", "out"},
             old : Blob \cup {NoBlob}, new : Blob \cup {NoBlob},
             wait : SUBSET Thread]
NoJob == [pc |-> "idle", old |-> NoBlob, new |-> NoBlob, wait |-> {}]

NoGrace == [phase |-> "none", wait |-> {}]

LifeInit ==
  /\ obj = [b \in Blob |-> Gone]
  /\ installed = NoBlob
  /\ newest = 1
  /\ alloc = {1}
  /\ gate = FALSE
  /\ hostLive = TRUE
  /\ th = [t \in Thread |-> AtRest]
  /\ grace = [b \in Blob |-> NoGrace]
  /\ shr = AtRest
  /\ job = [j \in Job |-> NoJob]
  /\ stale = FALSE
  /\ freedHeld = FALSE
  /\ outlived = FALSE

-----------------------------------------------------------------------------
InRcu == {t \in Thread : th[t].pc \in {"rcu", "rcuRead", "refLoad"}}
InSrcu == {t \in Thread : th[t].pc = "srcuRead"}

(* Memory that nothing points to may be allocated again.                   *)
Unused(b) ==
  /\ ~obj[b].live
  /\ installed # b /\ shr.blob # b
  /\ \A t \in Thread : th[t].blob # b
  /\ \A j \in Job : b \notin {job[j].old, job[j].new}

(* ext5_stable_blob_put.                                                   *)
Put(o, b) == [o EXCEPT ![b] = IF @.refs <= 1 THEN Gone
                              ELSE [o[b] EXCEPT !.refs = @ - 1]]

Take(o, b) == [o EXCEPT ![b].refs = @ + 1]

Unlist(o, b) == [o EXCEPT ![b].listed = FALSE]

(* A reader's exit is what a grace period that began before it waits for.  *)
Leave(t) ==
  /\ grace' = [b \in Blob |-> [grace[b] EXCEPT !.wait = @ \ {t}]]
  /\ job' = [j \in Job |-> [job[j] EXCEPT !.wait = @ \ {t}]]

Fresh(b, g, listed) ==
  \E pinned \in BOOLEAN :
    obj' = [obj EXCEPT ![b] = [live |-> TRUE, refs |-> 1, gen |-> g,
                               listed |-> listed, pinned |-> pinned]]

-----------------------------------------------------------------------------
(* ext5_stable_ensure_blob: parse without a lock ...                       *)
EnsureParses(t, b) ==
  /\ hostLive
  /\ newest > 0
  /\ installed = NoBlob
  /\ th[t].pc = "idle"
  /\ Unused(b)
  /\ Fresh(b, newest, TRUE)
  /\ th' = [th EXCEPT ![t] = [pc |-> "parsed", blob |-> b]]
  /\ UNCHANGED <<installed, newest, alloc, gate, hostLive, grace, shr, job,
                 stale, freedHeld, outlived>>

(* ... then install, or free the parse of the thread that lost the race,   *)
(* whoever else has found it on the list.                                  *)
EnsureInstalls(t) ==
  LET b == th[t].blob
  IN  /\ th[t].pc = "parsed"
      /\ th' = [th EXCEPT ![t] = AtRest]
      /\ IF installed = NoBlob
         THEN /\ installed' = b
              /\ stale' = (stale \/ obj[b].gen # newest)
              /\ UNCHANGED <<obj, freedHeld>>
         ELSE /\ obj' = [obj EXCEPT ![b] = Gone]
              /\ freedHeld' = (freedHeld \/ obj[b].refs > 1)
              /\ UNCHANGED <<installed, stale>>
      /\ UNCHANGED <<newest, alloc, gate, hostLive, grace, shr, job,
                     outlived>>

-----------------------------------------------------------------------------
(* ext5_stable_inode_by_name: a pinned payload is read inside RCU; without *)
(* pins the lookup changes to SRCU and loads the pointer again.            *)
LookupRcu(t) ==
  /\ th[t].pc = "idle"
  /\ installed # NoBlob
  /\ th' = [th EXCEPT ![t] = [pc |-> IF obj[installed].pinned
                                     THEN "rcuRead" ELSE "rcu",
                              blob |-> installed]]
  /\ UNCHANGED <<obj, installed, newest, alloc, gate, hostLive, grace, shr,
                 job, stale, freedHeld, outlived>>

LookupSrcu(t) ==
  /\ th[t].pc = "rcu"
  /\ th' = [th EXCEPT ![t] =
              IF installed = NoBlob THEN AtRest
              ELSE [pc |-> "srcuRead", blob |-> installed]]
  /\ Leave(t)
  /\ UNCHANGED <<obj, installed, newest, alloc, gate, hostLive, shr, stale,
                 freedHeld, outlived>>

LookupDone(t) ==
  /\ th[t].pc \in {"rcuRead", "srcuRead"}
  /\ th' = [th EXCEPT ![t] = AtRest]
  /\ Leave(t)
  /\ UNCHANGED <<obj, installed, newest, alloc, gate, hostLive, shr, stale,
                 freedHeld, outlived>>

(* ext5_stable_readdir and ext5_stable_empty_dir: load the pointer inside  *)
(* RCU, take a reference unless the last one is gone, and leave RCU.       *)
ReaddirLoad(t) ==
  /\ th[t].pc = "idle"
  /\ installed # NoBlob
  /\ th' = [th EXCEPT ![t] = [pc |-> "refLoad", blob |-> installed]]
  /\ UNCHANGED <<obj, installed, newest, alloc, gate, hostLive, grace, shr,
                 job, stale, freedHeld, outlived>>

ReaddirTake(t) ==
  LET b == th[t].blob
  IN  /\ th[t].pc = "refLoad"
      /\ IF obj[b].refs = 0
         THEN /\ th' = [th EXCEPT ![t] = AtRest]
              /\ UNCHANGED obj
         ELSE /\ th' = [th EXCEPT ![t].pc = "refRead"]
              /\ obj' = Take(obj, b)
      /\ outlived' = (outlived \/ (obj[b].refs > 0 /\ grace[b].phase # "none"))
      /\ Leave(t)
      /\ UNCHANGED <<installed, newest, alloc, gate, hostLive, shr, stale,
                     freedHeld>>

ReaddirDone(t) ==
  /\ th[t].pc = "refRead"
  /\ obj' = Put(obj, th[t].blob)
  /\ th' = [th EXCEPT ![t] = AtRest]
  /\ UNCHANGED <<installed, newest, alloc, gate, hostLive, grace, shr, job,
                 stale, freedHeld, outlived>>

-----------------------------------------------------------------------------
(* ext5_li_model_scan.  The list may hold a blob that is still being       *)
(* installed, or one that is already replaced.                             *)
ShrinkPick(b) ==
  /\ shr.pc = "idle"
  /\ obj[b].listed
  /\ obj[b].refs > 0
  /\ obj' = Take(obj, b)
  /\ shr' = [pc |-> "have", blob |-> b]
  /\ UNCHANGED <<installed, newest, alloc, gate, hostLive, th, grace, job,
                 stale, freedHeld, outlived>>

HeldByReaddir(b) == \E t \in Thread : th[t] = [pc |-> "refRead", blob |-> b]

ShrinkEvict ==
  LET b == shr.blob
  IN  /\ shr.pc = "have"
      /\ ~gate
      /\ installed = b
      /\ installed' = NoBlob
      /\ obj' = Unlist(obj, b)
      /\ grace' = [grace EXCEPT ![b] = [phase |-> "rcu", wait |-> InRcu]]
      /\ outlived' = (outlived \/ HeldByReaddir(b))
      /\ shr' = [shr EXCEPT !.pc = "put"]
      /\ UNCHANGED <<newest, alloc, gate, hostLive, th, job, stale,
                     freedHeld>>

(* The inode is on its way out, i_li_lock is taken, a compaction stages,   *)
(* or the blob is not installed.                                           *)
ShrinkSkip ==
  /\ shr.pc = "have"
  /\ shr' = [shr EXCEPT !.pc = "put"]
  /\ UNCHANGED <<obj, installed, newest, alloc, gate, hostLive, th, grace,
                 job, stale, freedHeld, outlived>>

ShrinkPut ==
  /\ shr.pc = "put"
  /\ obj' = Put(obj, shr.blob)
  /\ shr' = AtRest
  /\ UNCHANGED <<installed, newest, alloc, gate, hostLive, th, grace, job,
                 stale, freedHeld, outlived>>

(* Mutant: the installed reference is dropped after the RCU grace period.  *)
GraceRcuOnly(b) ==
  /\ grace[b].phase = "rcu"
  /\ grace[b].wait = {}
  /\ grace' = [grace EXCEPT ![b] = NoGrace]
  /\ obj' = Put(obj, b)
  /\ UNCHANGED <<installed, newest, alloc, gate, hostLive, th, shr, job,
                 stale, freedHeld, outlived>>

(* ext5_stable_free_blob_rcu_cb: from the RCU callback to the SRCU one.    *)
GraceRcu(b) ==
  /\ grace[b].phase = "rcu"
  /\ grace[b].wait = {}
  /\ grace' = [grace EXCEPT ![b] = [phase |-> "srcu", wait |-> InSrcu]]
  /\ UNCHANGED <<obj, installed, newest, alloc, gate, hostLive, th, shr, job,
                 stale, freedHeld, outlived>>

(* ext5_stable_free_blob_srcu_cb: drop the installed reference.            *)
GraceSrcu(b) ==
  /\ grace[b].phase = "srcu"
  /\ grace[b].wait = {}
  /\ grace' = [grace EXCEPT ![b] = NoGrace]
  /\ obj' = Put(obj, b)
  /\ UNCHANGED <<installed, newest, alloc, gate, hostLive, th, shr, job,
                 stale, freedHeld, outlived>>

(* ext5_stable_forget_dir: the inode is evicted; whoever works on the root *)
(* holds an inode reference, so nobody does.                               *)
Forget ==
  /\ hostLive
  /\ \A t \in Thread : th[t].pc = "idle"
  /\ \A j \in Job : job[j].pc = "idle"
  /\ shr.pc # "have"
  /\ hostLive' = FALSE
  /\ installed' = NoBlob
  /\ IF installed = NoBlob
     THEN UNCHANGED <<obj, grace>>
     ELSE /\ obj' = Unlist(obj, installed)
          /\ grace' = [grace EXCEPT ![installed] = [phase |-> "rcu",
                                                    wait |-> InRcu]]
  /\ UNCHANGED <<newest, alloc, gate, th, shr, job, stale, freedHeld,
                 outlived>>

Reload ==
  /\ ~hostLive
  /\ hostLive' = TRUE
  /\ UNCHANGED <<obj, installed, newest, alloc, gate, th, grace, shr, job,
                 stale, freedHeld, outlived>>

-----------------------------------------------------------------------------
(* ext5_stable_compact takes the gate and pins the installed blob;         *)
(* __ext5_demote_subtree pins it and leaves the gate alone.                *)
JobPins(j) ==
  /\ job[j].pc = "idle"
  /\ installed # NoBlob
  /\ ~gate
  /\ gate' = (j = "compact")
  /\ obj' = Take(obj, installed)
  /\ job' = [job EXCEPT ![j] = [NoJob EXCEPT !.pc = IF j = "compact"
                                                    THEN "build"
                                                    ELSE "publish",
                                             !.old = installed]]
  /\ UNCHANGED <<installed, newest, alloc, hostLive, th, grace, shr, stale,
                 freedHeld, outlived>>

(* The staged generation is parsed as a private blob.                      *)
CompactBuilds(b) ==
  /\ job["compact"].pc = "build"
  /\ newest < LastGen
  /\ Unused(b)
  /\ Fresh(b, newest + 1, FALSE)
  /\ alloc' = alloc \cup {newest + 1}
  /\ job' = [job EXCEPT !["compact"] = [@ EXCEPT !.pc = "publish",
                                                 !.new = b]]
  /\ UNCHANGED <<installed, newest, gate, hostLive, th, grace, shr, stale,
                 freedHeld, outlived>>

(* Publication under i_li_lock: the new blob joins the list and replaces   *)
(* the old one.                                                            *)
CompactPublishes ==
  LET c == job["compact"]
  IN  /\ c.pc = "publish"
      /\ installed = c.old
      /\ installed' = c.new
      /\ newest' = newest + 1
      /\ obj' = [obj EXCEPT ![c.new].listed = TRUE]
      /\ job' = [job EXCEPT !["compact"] = [@ EXCEPT !.pc = "unlist",
                                                     !.new = NoBlob]]
      /\ UNCHANGED <<alloc, gate, hostLive, th, grace, shr, stale,
                     freedHeld, outlived>>

(* A whole-root demotion detaches the blob; the root is conventional.      *)
DemotePublishes ==
  LET d == job["demote"]
  IN  /\ d.pc = "publish"
      /\ installed = d.old
      /\ ~gate
      /\ installed' = NoBlob
      /\ newest' = 0
      /\ job' = [job EXCEPT !["demote"].pc = "unlist"]
      /\ UNCHANGED <<obj, alloc, gate, hostLive, th, grace, shr, stale,
                     freedHeld, outlived>>

(* Either gives up before publication: put the private blob, keep the old; *)
(* the staged blocks stay for the next attempt.                            *)
JobFails(j) ==
  /\ job[j].pc \in {"build", "publish"}
  /\ LET o == IF job[j].new = NoBlob THEN obj ELSE Put(obj, job[j].new)
     IN  obj' = Put(o, job[j].old)
  /\ gate' = (gate /\ j # "compact")
  /\ job' = [job EXCEPT ![j] = NoJob]
  /\ UNCHANGED <<installed, newest, alloc, hostLive, th, grace, shr, stale,
                 freedHeld, outlived>>

JobUnlists(j) ==
  /\ job[j].pc = "unlist"
  /\ obj' = Unlist(obj, job[j].old)
  /\ job' = [job EXCEPT ![j] = [@ EXCEPT !.pc = "rcu", !.wait = InRcu]]
  /\ UNCHANGED <<installed, newest, alloc, gate, hostLive, th, grace, shr,
                 stale, freedHeld, outlived>>

(* Mutant: readers without pins are not waited for.                        *)
JobWaitsRcuOnly(j) ==
  /\ job[j].pc = "rcu"
  /\ job[j].wait = {}
  /\ job' = [job EXCEPT ![j].pc = "srcu"]
  /\ UNCHANGED <<obj, installed, newest, alloc, gate, hostLive, th, grace,
                 shr, stale, freedHeld, outlived>>

(* synchronize_rcu, and with it the start of synchronize_srcu.             *)
JobWaitsRcu(j) ==
  /\ job[j].pc = "rcu"
  /\ job[j].wait = {}
  /\ job' = [job EXCEPT ![j] = [@ EXCEPT !.pc = "srcu", !.wait = InSrcu]]
  /\ UNCHANGED <<obj, installed, newest, alloc, gate, hostLive, th, grace,
                 shr, stale, freedHeld, outlived>>

(* synchronize_srcu returns: put the installed reference.                  *)
JobPutsInstalled(j) ==
  /\ job[j].pc = "srcu"
  /\ job[j].wait = {}
  /\ obj' = Put(obj, job[j].old)
  /\ job' = [job EXCEPT ![j].pc = "drain"]
  /\ UNCHANGED <<installed, newest, alloc, gate, hostLive, th, grace, shr,
                 stale, freedHeld, outlived>>

(* Mutant: the old blocks are freed without waiting for references.        *)
JobDrainsNobody(j) ==
  /\ job[j].pc = "drain"
  /\ alloc' = alloc \ {obj[job[j].old].gen}
  /\ job' = [job EXCEPT ![j].pc = "out"]
  /\ UNCHANGED <<obj, installed, newest, gate, hostLive, th, grace, shr,
                 stale, freedHeld, outlived>>

(* Only the job's own pin is left: unpin, and free the old blocks unless   *)
(* an error left them to the old descriptor.                               *)
JobDrains(j) ==
  /\ job[j].pc = "drain"
  /\ obj[job[j].old].refs = 1
  /\ \/ alloc' = alloc \ {obj[job[j].old].gen}
     \/ j = "compact" /\ UNCHANGED alloc
  /\ job' = [job EXCEPT ![j].pc = "out"]
  /\ UNCHANGED <<obj, installed, newest, gate, hostLive, th, grace, shr,
                 stale, freedHeld, outlived>>

JobEnds(j) ==
  /\ job[j].pc = "out"
  /\ obj' = Put(obj, job[j].old)
  /\ gate' = (gate /\ j # "compact")
  /\ job' = [job EXCEPT ![j] = NoJob]
  /\ UNCHANGED <<installed, newest, alloc, hostLive, th, grace, shr, stale,
                 freedHeld, outlived>>

-----------------------------------------------------------------------------
Read(t) == LookupRcu(t) \/ LookupSrcu(t) \/ LookupDone(t) \/ ReaddirLoad(t)
             \/ ReaddirTake(t) \/ ReaddirDone(t)

Shrink == (\E b \in Blob : ShrinkPick(b)) \/ ShrinkEvict \/ ShrinkSkip
            \/ ShrinkPut

Reclaim(j) == JobUnlists(j) \/ JobWaitsRcu(j) \/ JobPutsInstalled(j)
                \/ JobDrains(j) \/ JobEnds(j)

LifeNext ==
  \/ \E t \in Thread : Read(t) \/ EnsureInstalls(t)
                         \/ \E b \in Blob : EnsureParses(t, b)
  \/ Shrink
  \/ \E b \in Blob : GraceRcu(b) \/ GraceSrcu(b) \/ CompactBuilds(b)
  \/ Forget
  \/ Reload
  \/ CompactPublishes
  \/ DemotePublishes
  \/ \E j \in Job : JobPins(j) \/ JobFails(j) \/ Reclaim(j)

LifeSpec == LifeInit /\ [][LifeNext]_lifeVars

-----------------------------------------------------------------------------
Reading == {t \in Thread : th[t].pc \in {"rcuRead", "srcuRead", "refRead"}}

(* Readers that sleep outside RCU hold the memory; those inside it may     *)
(* hold a blob whose last reference is about to go.                        *)
Using(b) == {t \in Thread : th[t].blob = b /\ th[t].pc # "idle"}

(* Every variable has its type.                                            *)
LifeTypeOK ==
  /\ obj \in [Blob -> Object]
  /\ installed \in Blob \cup {NoBlob}
  /\ newest \in Gen
  /\ alloc \subseteq Gen
  /\ gate \in BOOLEAN
  /\ hostLive \in BOOLEAN
  /\ th \in [Thread -> ThreadState]
  /\ grace \in [Blob -> [phase : {"none", "rcu", "srcu"},
                         wait : SUBSET Thread]]
  /\ shr \in [pc : {"idle", "have", "put"}, blob : Blob \cup {NoBlob}]
  /\ job \in [Job -> JobState]
  /\ stale \in BOOLEAN
  /\ freedHeld \in BOOLEAN
  /\ outlived \in BOOLEAN

(* Whoever uses a blob finds it allocated: lookups in RCU and SRCU,        *)
(* readdir, the shrinker, compaction and demotion, until they are done     *)
(* (ext5_stable_free_blob frees it with the last reference).  And nobody   *)
(* reads a punched block: before ext5_stable_compact or                    *)
(* __ext5_demote_subtree frees a generation's payload, its readers have    *)
(* drained.                                                                *)
ReadersSafe ==
  /\ freedHeld \/ \A b \in Blob : (\/ Using(b) # {} \/ installed = b
                                   \/ shr.blob = b
                                   \/ \E j \in Job : b \in {job[j].old,
                                                            job[j].new})
                                  => obj[b].live
  /\ freedHeld \/ stale \/ outlived
       \/ \A t \in Reading : obj[th[t].blob].gen \in alloc

(* What the comment above ext5_stable_blob's refs and the one before the   *)
(* punch promise without exception: nobody frees what another holds ...    *)
HeldBlobLives == ~freedHeld

(* ... and readers from before a publication drain before the punch.       *)
ReadersDrain ==
  stale \/ freedHeld \/ \A t \in Reading : obj[th[t].blob].gen \in alloc
=============================================================================
