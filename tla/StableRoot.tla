----------------------------- MODULE StableRoot -----------------------------
(***************************************************************************)
(* One stable subtree root: its descriptor slots and delta log on disk,    *)
(* the parsed generation ("blob") installed behind an RCU pointer, the     *)
(* threads that parse it on demand, the shrinker that drops it, and the    *)
(* stage-and-swap compaction that replaces it, under crashes.              *)
(*                                                                         *)
(* i_li_lock makes every section under it one step; what the code does     *)
(* between two such sections (parse, merge, stage, flush) is where other   *)
(* actors interleave.                                                      *)
(***************************************************************************)
EXTENDS DeltaLog

CONSTANTS Thread,     \* callers of ext5_stable_ensure_blob
          NoGen,      \* an empty descriptor slot
          NoBlob,     \* i_stable_blob == NULL, or nothing parsed
          CopyRounds, \* catch-up rounds before compaction gives up (8)
          MaxSeq,     \* bound: no append makes next_seq pass it
          MaxGen      \* bound: no compaction starts at this generation

VARIABLES
  slot,      \* the two descriptor slots with the regions they describe
  mem,       \* the installed blob, or NoBlob
  parsed,    \* per thread: a blob parsed but not yet installed
  cmp,       \* the compaction in flight
  demotePending, \* i_li_demote_pending # 0
  ns,        \* what the VFS operations have made of the namespace
  saved,     \* slot and ns as of the last journal commit
  tainted    \* history: a race named below has dropped a mutation

vars == <<slot, mem, parsed, cmp, demotePending, ns, saved, tainted>>

Generation == [gen : Nat, base : Maps, seqBase : Nat, log : Logs]

Slots == [{0, 1} -> Generation \cup {NoGen}]

(* struct ext5_stable_blob with its struct ext5_stable_delta; floor is     *)
(* snapshot_floor_bytes.                                                   *)
Blob == [gen : Nat, base : Maps, seqBase : Nat, tree : Trees, used : Nat,
         nextSeq : Nat, floor : Nat]

(* Locals of ext5_stable_compact.  staged is the new delta region; rewound *)
(* is history: a cancellation has taken the source log below the copied    *)
(* cut.  "leaked": it returned without opening the staging gate.           *)
Compaction ==
  [pc : {"idle", "called", "merge", "copy", "final", "reclaim", "leaked"},
   gen : Nat,
   snapUsed : Nat, snapSeq : Nat, base : Maps, staged : Logs,
   copied : Nat, copiedSeq : Nat, round : Nat, rewound : BOOLEAN]

Idle == [pc |-> "idle", gen |-> 0, snapUsed |-> 0, snapSeq |-> 0,
         base |-> [n \in Name |-> NoIno], staged |-> EmptyLog,
         copied |-> 0, copiedSeq |-> 0, round |-> 0, rewound |-> FALSE]

ASSUME StableRootAssumption == /\ NoGen \notin Generation
                               /\ NoBlob \notin Blob
                               /\ CopyRounds \in Nat
                               /\ MaxSeq \in Nat
                               /\ MaxGen \in Nat

-----------------------------------------------------------------------------
(* Mutant: mount takes the oldest valid descriptor.                        *)
ActiveSlotOldest(slots) ==
  CHOOSE s \in {0, 1} :
    /\ slots[s] # NoGen
    /\ \A t \in {0, 1} : slots[t] # NoGen => slots[t].gen >= slots[s].gen

(* The valid slot with the highest generation.                             *)
ActiveSlot(slots) ==
  CHOOSE s \in {0, 1} :
    /\ slots[s] # NoGen
    /\ \A t \in {0, 1} : slots[t] # NoGen => slots[t].gen <= slots[s].gen

ActiveGen(slots) == slots[ActiveSlot(slots)]

(* Descriptor and base, then replay of the delta region into a new tree.   *)
ParseGen(g) ==
  LET k == ReplayLength(g.log, g.seqBase)
  IN  [gen |-> g.gen, base |-> g.base, seqBase |-> g.seqBase,
       tree |-> ReplayTree(g.log, k), used |-> k,
       nextSeq |-> g.seqBase + k + 1, floor |-> 0]

ParseBlob(slots) == ParseGen(ActiveGen(slots))

(* The binding a lookup through a blob, or after a fresh parse, returns.   *)
View(b) == Overlay(b.base, b.tree)
DiskView(slots) ==
  LET g == ActiveGen(slots)
  IN  Fold(g.base, g.log, ReplayLength(g.log, g.seqBase))
VisibleMap == IF mem # NoBlob THEN View(mem) ELSE DiskView(slot)

(* i_li_compact_staging.                                                   *)
Staging == cmp.pc \notin {"idle", "called"}
Building == cmp.pc \in {"merge", "copy", "final", "reclaim"}

-----------------------------------------------------------------------------
(* mkfs and promotion leave generation 1 with an empty log.                *)
Init ==
  /\ ns \in Maps
  /\ slot = [s \in {0, 1} |->
               IF s = 1 THEN [gen |-> 1, base |-> ns, seqBase |-> 0,
                              log |-> EmptyLog]
                        ELSE NoGen]
  /\ mem = NoBlob
  /\ parsed = [t \in Thread |-> NoBlob]
  /\ cmp = Idle
  /\ demotePending = FALSE
  /\ saved = [slot |-> slot, ns |-> ns]
  /\ tainted = FALSE

-----------------------------------------------------------------------------
(* ext5_stable_ensure_blob: the pointer is NULL, so parse without a lock.  *)
EnsureParse(t) ==
  /\ mem = NoBlob
  /\ parsed[t] = NoBlob
  /\ parsed' = [parsed EXCEPT ![t] = ParseBlob(slot)]
  /\ UNCHANGED <<slot, mem, cmp, demotePending, ns, saved, tainted>>

(* ... then take i_li_lock and install unless someone else has.  History:  *)
(* what is installed may no longer be what a parse would read.             *)
EnsureInstall(t) ==
  /\ parsed[t] # NoBlob
  /\ parsed' = [parsed EXCEPT ![t] = NoBlob]
  /\ IF mem = NoBlob
     THEN /\ mem' = parsed[t]
          /\ tainted' = (tainted \/ parsed[t] # ParseBlob(slot))
     ELSE UNCHANGED <<mem, tainted>>
  /\ UNCHANGED <<slot, cmp, demotePending, ns, saved>>

(* ext5_li_model_scan: the shrinker uninstalls the blob unless compaction  *)
(* is staging from it.                                                     *)
Shrink ==
  /\ mem # NoBlob
  /\ ~Staging
  /\ mem' = NoBlob
  /\ UNCHANGED <<slot, parsed, cmp, demotePending, ns, saved, tainted>>

-----------------------------------------------------------------------------
(* The log of generation g as the slots hold it, and an update of it; the  *)
(* region of a reclaimed generation is a hole nobody reads.                *)
Holds(slots, g) == slots[g % 2] # NoGen /\ slots[g % 2].gen = g

LogOf(slots, g) == IF Holds(slots, g) THEN slots[g % 2].log ELSE EmptyLog

SetLog(slots, g, log) ==
  IF Holds(slots, g) THEN [slots EXCEPT ![g % 2].log = log] ELSE slots

(* ext5_stable_delta_apply followed by the caller's record fields.         *)
Applied(tree, rec, tail) ==
  [tree EXCEPT ![rec.name] = [op |-> rec.op, ino |-> rec.ino,
                              seq |-> rec.seq, tail |-> tail]]

Rec(seq, op, n, i) == [seq |-> seq, op |-> op, name |-> n, ino |-> i]

(* ext5_stable_append_delta, the path that writes a record.                *)
AppendRecord(rec, tail) ==
  /\ mem.used + 1 <= Region
  /\ mem.nextSeq + 1 <= MaxSeq
  /\ slot' = SetLog(slot, mem.gen, Write(LogOf(slot, mem.gen), mem.used, rec))
  /\ mem' = [mem EXCEPT !.tree = Applied(@, rec, tail),
                        !.used = @ + 1, !.nextSeq = rec.seq + 1]

(* Mutant: tail_cancellable is not consulted.                              *)
CancellableAnyInsert(n) ==
  LET e == mem.tree[n]
  IN  /\ e # NoEntry
      /\ e.op = INSERT
      /\ e.seq - mem.seqBase > mem.floor
      /\ e.seq - mem.seqBase = mem.used
      /\ e.seq + 1 = mem.nextSeq

(* Mutant: the snapshot floor is not consulted.                            *)
CancellableBelowFloor(n) ==
  LET e == mem.tree[n]
  IN  /\ e # NoEntry
      /\ e.op = INSERT
      /\ e.tail
      /\ e.seq - mem.seqBase > 0
      /\ e.seq - mem.seqBase = mem.used
      /\ e.seq + 1 = mem.nextSeq

(* The newest record is the INSERT of n, made when n was absent, and no    *)
(* compaction snapshot covers it.                                          *)
Cancellable(n) ==
  LET e == mem.tree[n]
  IN  /\ e # NoEntry
      /\ e.op = INSERT
      /\ e.tail
      /\ e.seq - mem.seqBase > mem.floor
      /\ e.seq - mem.seqBase = mem.used
      /\ e.seq + 1 = mem.nextSeq

(* Mutant: the rewind stays in memory, the record stays valid on disk.     *)
CancelRecordInMemory(n) ==
  LET e == mem.tree[n]
      k == e.seq - mem.seqBase
  IN  /\ UNCHANGED slot
      /\ mem' = [mem EXCEPT !.tree[n] = NoEntry,
                            !.used = k - 1, !.nextSeq = e.seq]
      /\ cmp' = [cmp EXCEPT !.rewound = @ \/ (/\ cmp.pc \in {"copy", "final"}
                                              /\ k - 1 < cmp.copied)]

(* Mutant: the rewind goes one record too far.                             *)
CancelRecordTwice(n) ==
  LET e == mem.tree[n]
      k == e.seq - mem.seqBase
  IN  /\ slot' = SetLog(slot, mem.gen, Cancel(LogOf(slot, mem.gen), k))
      /\ mem' = [mem EXCEPT !.tree[n] = NoEntry,
                            !.used = k - 2, !.nextSeq = e.seq - 1]
      /\ UNCHANGED cmp

(* ext5_stable_append_delta, the path that rewrites it to NOP and rewinds. *)
CancelRecord(n) ==
  LET e == mem.tree[n]
      k == e.seq - mem.seqBase
  IN  /\ slot' = SetLog(slot, mem.gen, Cancel(LogOf(slot, mem.gen), k))
      /\ mem' = [mem EXCEPT !.tree[n] = NoEntry,
                            !.used = k - 1, !.nextSeq = e.seq]
      /\ cmp' = [cmp EXCEPT !.rewound = @ \/ (/\ cmp.pc \in {"copy", "final"}
                                              /\ k - 1 < cmp.copied)]

(* ext5_stable_add_link for a name the VFS found absent, from create or    *)
(* link.  An INSERT over an existing entry gives no authority to cancel.   *)
Create(n, i) ==
  /\ mem # NoBlob
  /\ ns[n] = NoIno
  /\ AppendRecord(Rec(mem.nextSeq, INSERT, n, i), mem.tree[n] = NoEntry)
  /\ ns' = [ns EXCEPT ![n] = i]
  /\ UNCHANGED <<parsed, cmp, demotePending, saved, tainted>>

(* ext5_stable_delete_name for a name that exists.                         *)
Unlink(n) ==
  /\ mem # NoBlob
  /\ ns[n] # NoIno
  /\ \/ Cancellable(n) /\ CancelRecord(n)
     \/ /\ ~Cancellable(n)
        /\ AppendRecord(Rec(mem.nextSeq, DELETE, n, NoIno), FALSE)
        /\ UNCHANGED cmp
  /\ ns' = [ns EXCEPT ![n] = NoIno]
  /\ UNCHANGED <<parsed, demotePending, saved, tainted>>

(* Mutant: the in-memory tree never learns the tombstone of the old name.  *)
RenameKeepsOld(o, n) ==
  LET ins == Rec(mem.nextSeq, INSERT, n, ns[o])
      del == Rec(mem.nextSeq + 1, DELETE, o, NoIno)
  IN  /\ mem # NoBlob
      /\ o # n
      /\ ns[o] # NoIno
      /\ mem.used + 2 <= Region
      /\ mem.nextSeq + 2 <= MaxSeq
      /\ slot' = SetLog(slot, mem.gen,
                         Write(Write(LogOf(slot, mem.gen), mem.used, ins),
                               mem.used + 1, del))
      /\ mem' = [mem EXCEPT !.tree = Applied(@, ins, FALSE),
                            !.used = @ + 2, !.nextSeq = @ + 2]
      /\ ns' = [ns EXCEPT ![n] = ns[o], ![o] = NoIno]
      /\ UNCHANGED <<parsed, cmp, demotePending, saved, tainted>>

(* ext5_stable_rename_links within one root: INSERT of the new name and    *)
(* DELETE of the old one, both reserved before either is written.          *)
Rename(o, n) ==
  LET ins == Rec(mem.nextSeq, INSERT, n, ns[o])
      del == Rec(mem.nextSeq + 1, DELETE, o, NoIno)
  IN  /\ mem # NoBlob
      /\ o # n
      /\ ns[o] # NoIno
      /\ mem.used + 2 <= Region
      /\ mem.nextSeq + 2 <= MaxSeq
      /\ slot' = SetLog(slot, mem.gen,
                         Write(Write(LogOf(slot, mem.gen), mem.used, ins),
                               mem.used + 1, del))
      /\ mem' = [mem EXCEPT !.tree = Applied(Applied(@, ins, FALSE),
                                             del, FALSE),
                            !.used = @ + 2, !.nextSeq = @ + 2]
      /\ ns' = [ns EXCEPT ![n] = ns[o], ![o] = NoIno]
      /\ UNCHANGED <<parsed, cmp, demotePending, saved, tainted>>

-----------------------------------------------------------------------------
(* ext5_stable_compact: have a blob parsed, take no lock yet.              *)
CompactCall ==
  /\ cmp.pc = "idle"
  /\ mem # NoBlob
  /\ cmp' = [Idle EXCEPT !.pc = "called"]
  /\ UNCHANGED <<slot, mem, parsed, demotePending, ns, saved, tainted>>

(* Under i_li_lock: nothing to do, or not now.                             *)
CompactSkip ==
  /\ cmp.pc = "called"
  /\ demotePending \/ (mem # NoBlob /\ mem.used = 0)
  /\ cmp' = Idle
  /\ UNCHANGED <<slot, mem, parsed, demotePending, ns, saved, tainted>>

(* The blob is gone: -ENOENT, but the gate is taken and the way out opens  *)
(* it only for a compaction that has a blob.                               *)
CompactNoBlob ==
  /\ cmp.pc = "called"
  /\ ~demotePending
  /\ mem = NoBlob
  /\ cmp' = [cmp EXCEPT !.pc = "leaked"]
  /\ UNCHANGED <<slot, mem, parsed, demotePending, ns, saved, tainted>>

(* Claim the staging gate, remember the cut and make the prefix below it   *)
(* immutable.                                                              *)
CompactBegin ==
  /\ cmp.pc = "called"
  /\ ~demotePending
  /\ mem # NoBlob
  /\ mem.used # 0
  /\ mem.gen < MaxGen
  /\ cmp' = [Idle EXCEPT !.pc = "merge", !.gen = mem.gen,
                         !.snapUsed = mem.used, !.snapSeq = mem.nextSeq]
  /\ mem' = [mem EXCEPT !.floor = mem.used]
  /\ UNCHANGED <<slot, parsed, demotePending, ns, saved, tainted>>

(* Give up: the old descriptor stays authoritative.                        *)
CompactAbort ==
  /\ cmp.pc \in {"merge", "copy", "final"}
  /\ cmp' = Idle
  /\ mem' = IF mem # NoBlob /\ mem.gen = cmp.gen
            THEN [mem EXCEPT !.floor = 0] ELSE mem
  /\ UNCHANGED <<slot, parsed, demotePending, ns, saved, tainted>>

(* The prefix of the log replays exactly to the remembered cut.            *)
ExactCut(log) ==
  /\ \A i \in 1..cmp.snapUsed : Accepted(log, mem.seqBase, i)
  /\ mem.seqBase + cmp.snapUsed + 1 = cmp.snapSeq

(* Mutant: catch-up starts at the source's end, not at the snapshot cut.   *)
CompactMergeSkipsTail ==
  LET log == LogOf(slot, cmp.gen)
  IN  /\ cmp.pc = "merge"
      /\ mem # NoBlob
      /\ mem.gen = cmp.gen
      /\ mem.used >= cmp.snapUsed
      /\ ExactCut(log)
      /\ cmp' = [cmp EXCEPT
                   !.pc = "copy",
                   !.base = Overlay(mem.base, ReplayTree(log, cmp.snapUsed)),
                   !.copied = mem.used, !.copiedSeq = mem.nextSeq]
      /\ UNCHANGED <<slot, mem, parsed, demotePending, ns, saved, tainted>>

(* Replay the prefix into a private tree, merge it with the base, stage    *)
(* and flush the new base.                                                 *)
CompactMerge ==
  LET log == LogOf(slot, cmp.gen)
  IN  /\ cmp.pc = "merge"
      /\ mem # NoBlob
      /\ mem.gen = cmp.gen
      /\ mem.used >= cmp.snapUsed
      /\ ExactCut(log)
      /\ cmp' = [cmp EXCEPT
                   !.pc = "copy",
                   !.base = Overlay(mem.base, ReplayTree(log, cmp.snapUsed)),
                   !.copied = cmp.snapUsed, !.copiedSeq = cmp.snapSeq]
      /\ UNCHANGED <<slot, mem, parsed, demotePending, ns, saved, tainted>>

(* A round of catch-up: copy the records past the copied cut into the      *)
(* staged delta, or find none and parse the staged generation.             *)
CompactCopyTail ==
  /\ cmp.pc = "copy"
  /\ cmp.round < CopyRounds
  /\ mem # NoBlob
  /\ mem.gen = cmp.gen
  /\ mem.used >= cmp.copied
  /\ mem.used - cmp.snapUsed <= Region
  /\ cmp' = IF mem.used > cmp.copied
            THEN [cmp EXCEPT
                    !.staged = CopyCells(@, LogOf(slot, cmp.gen), cmp.copied,
                                         mem.used, cmp.snapUsed),
                    !.copied = mem.used, !.copiedSeq = mem.nextSeq,
                    !.round = @ + 1]
            ELSE [cmp EXCEPT !.pc = "final"]
  /\ UNCHANGED <<slot, mem, parsed, demotePending, ns, saved, tainted>>

(* Mutant: delta_seq_base is the next sequence number itself.              *)
StagedGenSeqBase == [gen |-> cmp.gen + 1, base |-> cmp.base,
                     seqBase |-> cmp.snapSeq, log |-> cmp.staged]

(* The staged generation; its log continues the sequence of the old one.   *)
StagedGen == [gen |-> cmp.gen + 1, base |-> cmp.base,
              seqBase |-> cmp.snapSeq - 1, log |-> cmp.staged]

(* The final check of the source cut under i_li_lock.                      *)
CutHolds == /\ mem # NoBlob
            /\ mem.gen = cmp.gen
            /\ mem.used = cmp.copied
            /\ mem.nextSeq = cmp.copiedSeq

(* Write the descriptor into the inactive slot and swap the blob.          *)
CompactPublish ==
  /\ cmp.pc = "final"
  /\ ~demotePending
  /\ CutHolds
  /\ slot' = [slot EXCEPT ![(cmp.gen + 1) % 2] = StagedGen]
  /\ mem' = ParseGen(StagedGen)
  /\ cmp' = [cmp EXCEPT !.pc = "reclaim"]
  /\ tainted' = (tainted \/ cmp.rewound)
  /\ UNCHANGED <<parsed, demotePending, ns, saved>>

(* Mutant: a lost validation does not use up a round.                      *)
CompactRetryForever ==
  /\ cmp.pc = "final"
  /\ ~demotePending
  /\ ~CutHolds
  /\ cmp' = [cmp EXCEPT !.pc = "copy"]
  /\ UNCHANGED <<slot, mem, parsed, demotePending, ns, saved, tainted>>

(* The source moved since the last round: copy again.                      *)
CompactRetry ==
  /\ cmp.pc = "final"
  /\ ~demotePending
  /\ ~CutHolds
  /\ cmp' = [cmp EXCEPT !.pc = "copy", !.round = @ + 1]
  /\ UNCHANGED <<slot, mem, parsed, demotePending, ns, saved, tainted>>

(* After the readers of the old blob drain: reclaim its regions, unless    *)
(* the publication reported an error.                                      *)
CompactReclaim ==
  /\ cmp.pc = "reclaim"
  /\ \/ slot' = [slot EXCEPT ![cmp.gen % 2] = NoGen]
     \/ UNCHANGED slot
  /\ cmp' = Idle
  /\ UNCHANGED <<mem, parsed, demotePending, ns, saved, tainted>>

Compact == \/ CompactCall
           \/ CompactSkip
           \/ CompactNoBlob
           \/ CompactBegin
           \/ CompactMerge
           \/ CompactCopyTail
           \/ CompactPublish
           \/ CompactRetry
           \/ CompactAbort
           \/ CompactReclaim

-----------------------------------------------------------------------------
(* A demotion request is claimed, and later released by its worker.        *)
ScheduleDemote ==
  /\ ~demotePending
  /\ demotePending' = TRUE
  /\ UNCHANGED <<slot, mem, parsed, cmp, ns, saved, tainted>>

ReleaseDemote ==
  /\ demotePending
  /\ demotePending' = FALSE
  /\ UNCHANGED <<slot, mem, parsed, cmp, ns, saved, tainted>>

(* The journal commits the running transaction: the records and the        *)
(* descriptor share handles with the inode updates they belong to.         *)
Commit ==
  /\ saved' = [slot |-> slot, ns |-> ns]
  /\ UNCHANGED <<slot, mem, parsed, cmp, demotePending, ns, tainted>>

(* Power loss and remount: journal replay restores the last commit, all    *)
(* in-memory state is gone.                                                *)
Crash ==
  /\ slot' = saved.slot
  /\ ns' = saved.ns
  /\ mem' = NoBlob
  /\ parsed' = [t \in Thread |-> NoBlob]
  /\ cmp' = Idle
  /\ demotePending' = FALSE
  /\ UNCHANGED <<saved, tainted>>

-----------------------------------------------------------------------------
Next == \/ \E t \in Thread : EnsureParse(t) \/ EnsureInstall(t)
        \/ Shrink
        \/ \E n \in Name, i \in Ino : Create(n, i)
        \/ \E n \in Name : Unlink(n)
        \/ \E o, n \in Name : Rename(o, n)
        \/ Compact
        \/ ScheduleDemote
        \/ ReleaseDemote
        \/ Commit
        \/ Crash

Spec == Init /\ [][Next]_vars

(* The compaction worker runs once it has started; its loops are bounded.  *)
FairSpec == Spec /\ WF_vars(\/ CompactMerge \/ CompactCopyTail
                            \/ CompactPublish \/ CompactRetry
                            \/ CompactAbort \/ CompactReclaim)
-----------------------------------------------------------------------------
TypeOK ==
  /\ slot \in Slots
  /\ mem \in Blob \cup {NoBlob}
  /\ parsed \in [Thread -> Blob \cup {NoBlob}]
  /\ cmp \in Compaction
  /\ demotePending \in BOOLEAN
  /\ ns \in Maps
  /\ saved \in [slot : Slots, ns : Maps]
  /\ tainted \in BOOLEAN

(* Until one of the two races below fires, a lookup through the installed  *)
(* blob returns exactly what the VFS operations have made of the namespace *)
(* (ext5_stable_inode_by_name after any interleaving of append, cancel,    *)
(* rename, eviction, reparse and compaction).                              *)
BlobIsNamespace == ~tainted /\ mem # NoBlob => View(mem) = ns

(* Until then the bytes on disk tell the same story: a parse at any moment *)
(* (ext5_stable_parse_blob) rebuilds the namespace, cancelled tails and    *)
(* half-done compactions included.                                         *)
DiskIsNamespace == ~tainted => DiskView(slot) = ns

(* Until then a power loss returns the namespace of the last commit: each  *)
(* record commits with the inode updates of its handle.                    *)
CrashConsistent == ~tainted => DiskView(saved.slot) = saved.ns

(* Until then the staged base, the copied tail and what is left of the     *)
(* source log past the copied cut make up the namespace, unless the source *)
(* was rewound below the cut (ext5_stable_compact between its rounds).     *)
StagedPlusTail ==
  ~tainted /\ cmp.pc \in {"copy", "final"} /\ ~cmp.rewound =>
    LET tail == mem.used - cmp.snapUsed
        log == CopyCells(cmp.staged, LogOf(slot, cmp.gen), cmp.copied,
                         mem.used, cmp.snapUsed)
    IN  /\ ReplayLength(log, cmp.snapSeq - 1) = tail
        /\ Fold(cmp.base, log, tail) = ns

(* The records below the snapshot floor never change while compaction      *)
(* merges them ("The prefix below snapshot_floor_bytes is immutable").     *)
PrefixImmutable ==
  [][cmp.pc = "merge" /\ cmp'.pc \in {"merge", "copy"} =>
       \A i \in 1..cmp.snapUsed :
         LogOf(slot', cmp.gen)[i] = LogOf(slot, cmp.gen)[i]]_vars

(* Until a race has fired a published generation carries the sequence on:  *)
(* the next record of the root has the number it would have had without    *)
(* the compaction, so replay never sees a gap or a repeated number across  *)
(* generations.                                                            *)
SequenceContinues ==
  [][~tainted /\ cmp.pc = "final" /\ cmp'.pc = "reclaim" =>
       /\ mem'.nextSeq = mem.nextSeq
       /\ mem'.nextSeq = mem'.seqBase + mem'.used + 1]_vars

(* Until then every step is a whole operation of the abstract map, or      *)
(* invisible: parse, eviction, staging, publication and reclaim change no  *)
(* binding, and a crash loses exactly the uncommitted operations.          *)
Abstract == INSTANCE DirMap WITH map <- VisibleMap, durable <- saved.ns

RefinesDirMap == /\ Abstract!Init
                 /\ [][tainted' \/ Abstract!Next]_<<VisibleMap, saved.ns>>

(* A compaction that builds ends and opens the staging gate: its catch-up  *)
(* rounds are bounded, so a stream of appends cannot keep demotion and     *)
(* eviction out forever.                                                   *)
CompactionEnds == Building ~> ~Staging

-----------------------------------------------------------------------------
(* A failed compaction leaves the root as it was and the next one succeeds *)
(* (utils/tests/shadow_enospc_smoke.sh): a compaction that has taken the   *)
(* staging gate opens it again, however it ends.                           *)
GateReleased == Staging ~> ~Staging

(* "Publication validates the source cut" (ext5_stable_compact): what it   *)
(* publishes is the namespace its source had.                              *)
PublishValidatesCut ==
  [][cmp.pc = "final" /\ cmp'.pc = "reclaim" => View(mem') = View(mem)]_vars

(* "Lost the race; another thread parsed first" (ext5_stable_ensure_blob): *)
(* the only race of two parses is who installs; what is installed is what  *)
(* the disk holds.                                                         *)
InstallIsCurrent ==
  [][mem = NoBlob /\ mem' # NoBlob => View(mem') = DiskView(slot)]_vars
=============================================================================
