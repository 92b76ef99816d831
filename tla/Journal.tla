------------------------------- MODULE Journal -------------------------------
(* The journal: transactions, their commit, checkpointing, revoke records    *)
(* and recovery (jbd3).  A block holds metadata, which is changed under a    *)
(* handle and logged, or file data, which is written in place.               *)
(*                                                                           *)
(* The content of a block is who wrote it last: t for metadata of            *)
(* transaction t, -t for data of a file that owns the block since t.  The    *)
(* handles of a transaction are taken together (open).  A transaction takes  *)
(* one slot of the log, which stands for j_max_transaction_buffers blocks.   *)
(* The journal is on a device of its own, as then the flushes differ.        *)
EXTENDS Integers, FiniteSets

CONSTANTS
  Block,     \* blocks of the file system
  LogSlots,  \* what the log has room for, in transactions
  MaxTid     \* bound: the last transaction

ASSUME JournalAssumption ==
  /\ IsFiniteSet(Block)
  /\ LogSlots \in Nat \ {0}
  /\ MaxTid \in Nat \ {0}

Tid == 1..MaxTid
NoTid == 0
Unused == MaxTid + 1        \* the content of a block that is free
Unfrozen == MaxTid + 1      \* b_frozen_data = NULL
Content == -MaxTid..MaxTid

VARIABLES
  jh,          \* per block, its journal head and buffer
  running,     \* j_running_transaction
  open,        \* it has handles: t_updates > 0
  committing,  \* j_committing_transaction
  stage,       \* where jbd3_journal_commit_transaction is
  nextTid,     \* j_transaction_sequence
  revoke,      \* the revoke table of the running transaction
  revoking,    \* the table of the committing one
  freedBy,     \* per block, the transaction that freed it, until its callback
  checkpoints, \* j_checkpoint_transactions
  tail,        \* j_tail_sequence and j_tail, on disk as in memory
  newTail,     \* the tail a commit has found and not stored yet
  slots,       \* the log
  disk,        \* per block, what its device may hold after a power failure
  wrote,       \* and what was written to it last
  want,        \* what the handles made of the blocks: as of the running
               \* transaction, of the committing one, of the last durable one
  mounted      \* recovery has ended

jnlVars == <<jh, running, open, committing, stage, nextTid, revoke, revoking, freedBy,
             checkpoints, tail, newTail, slots, disk, wrote, want, mounted>>

commitVars == <<committing, stage, revoking, newTail>>
tranVars == <<running, open, nextTid>>
logVars == <<tail, slots>>
devVars == <<disk, wrote>>

-----------------------------------------------------------------------------
Clean(content) ==
  [data |-> content, dirty |-> FALSE, tx |-> NoTid, next |-> NoTid, list |-> "none",
   modified |-> FALSE, jbddirty |-> FALSE, freed |-> FALSE, frozen |-> Unfrozen,
   cp |-> NoTid]

(* __jbd3_journal_file_buffer: what was dirty is the journal's to write.   *)
File(r, t, list) ==
  [r EXCEPT !.tx = t, !.list = list, !.dirty = FALSE,
            !.jbddirty = r.dirty \/ r.jbddirty]

(* __jbd3_journal_unfile_buffer: it is the VM's to write.                  *)
Unfile(r) ==
  [r EXCEPT !.tx = NoTid, !.list = "none", !.jbddirty = FALSE,
            !.dirty = r.dirty \/ r.jbddirty]

(* __jbd3_journal_refile_buffer.                                           *)
Refile(r) ==
  IF r.next = NoTid THEN Unfile(r)
  ELSE [r EXCEPT !.tx = r.next, !.next = NoTid,
                 !.list = IF r.freed THEN "forget"
                          ELSE IF r.modified THEN "metadata" ELSE "reserved"]

(* __jbd3_journal_remove_checkpoint: a transaction whose last buffer goes  *)
(* leaves the list.                                                        *)
StillListed(heads) == {t \in checkpoints : \E b \in Block : heads[b].cp = t}

(* jbd3_journal_try_remove_checkpoint, and who calls it: checkpointing,    *)
(* the shrinker, a commit, a page that is being freed.                     *)
Removable(b) == jh[b].cp # NoTid /\ jh[b].tx = NoTid /\ ~jh[b].dirty

Dropped(heads, bs) == [b \in Block |-> IF b \in bs THEN [heads[b] EXCEPT !.cp = NoTid]
                                       ELSE heads[b]]

-----------------------------------------------------------------------------
(* Recovery, as do_one_pass reads the log from the tail on.                *)
SlotOf(t) == (tail.slot + t - tail.tid) % LogSlots
InLog(t) == slots[SlotOf(t)]

(* PASS_SCAN: the first transaction that is not there.                     *)
LogEnd ==
  CHOOSE e \in tail.tid..MaxTid + 1 :
    /\ \A t \in tail.tid..e - 1 : InLog(t).tid = t
    /\ InLog(e).tid # e

Logged == tail.tid..LogEnd - 1

(* PASS_REVOKE with jbd3_journal_test_revoke.                              *)
Revoked(b, t) == \E u \in Logged : u >= t /\ b \in InLog(u).revokes

(* PASS_REPLAY, over a device that holds the contents d.                   *)
Replayed(d) ==
  [b \in Block |->
     LET copies == {t \in Logged : b \in DOMAIN InLog(t).blocks /\ ~Revoked(b, t)}
     IN  IF copies = {} THEN d[b]
         ELSE InLog(CHOOSE t \in copies : \A u \in copies : u <= t).blocks[b]]

Survivors == {d \in [Block -> UNION {disk[b] : b \in Block}] :
                \A b \in Block : d[b] \in disk[b]}

Write(b, content) ==
  /\ wrote' = [wrote EXCEPT ![b] = content]
  /\ disk' = [disk EXCEPT ![b] = @ \cup {content}]

(* blkdev_issue_flush.                                                     *)
Flush == UNCHANGED wrote /\ disk' = [b \in Block |-> {wrote[b]}]

-----------------------------------------------------------------------------
JournalInit ==
  /\ jh = [b \in Block |-> Clean(0)]
  /\ running = NoTid /\ open = FALSE /\ nextTid = 1
  /\ committing = NoTid /\ stage = "none"
  /\ revoke = {} /\ revoking = {} /\ checkpoints = {}
  /\ freedBy = [b \in Block |-> NoTid]
  /\ tail = [tid |-> 1, slot |-> 0] /\ newTail = tail.tid
  /\ slots = [s \in 0..LogSlots - 1 |->
                [tid |-> NoTid, blocks |-> [b \in {} |-> 0], revokes |-> {}]]
  /\ wrote = [b \in Block |-> 0] /\ disk = [b \in Block |-> {0}]
  /\ want = [run |-> wrote, com |-> wrote, dur |-> wrote]
  /\ mounted = TRUE

-----------------------------------------------------------------------------
(* Handles.                                                                *)

(* jbd3_log_space_left: what transactions since the tail do not fill.      *)
SpaceLeft ==
  LogSlots - ((IF running = NoTid THEN nextTid ELSE running) - tail.tid)

(* start_this_handle with add_transaction_credits: in the running          *)
(* transaction or a new one.  A locked transaction or a full log makes the *)
(* caller wait.                                                            *)
StartHandle ==
  /\ mounted /\ ~open /\ stage # "locked" /\ SpaceLeft >= 1
  /\ IF running # NoTid THEN UNCHANGED <<running, nextTid>>
     ELSE nextTid <= MaxTid /\ running' = nextTid /\ nextTid' = nextTid + 1
  /\ open' = TRUE
  /\ UNCHANGED <<jh, commitVars, revoke, freedBy, checkpoints, logVars, devVars,
                 want, mounted>>

StopHandle ==
  /\ open /\ open' = FALSE
  /\ UNCHANGED <<jh, running, nextTid, commitVars, revoke, freedBy, checkpoints,
                 logVars, devVars, want, mounted>>

(* What a handle makes of block b.                                         *)
Makes(b, content) ==
  want' = IF committing = NoTid
          THEN [want EXCEPT !.run[b] = content, !.com[b] = content]
          ELSE [want EXCEPT !.run[b] = content]

(* The access functions put the buffer into the running transaction; then  *)
(* the caller changes it and jbd3_journal_dirty_metadata says so.  Nothing *)
(* can come between that matters, as the handle is open.                   *)
Dirtied(r) ==
  LET changed == [r EXCEPT !.data = running, !.modified = TRUE, !.jbddirty = TRUE]
  IN  IF r.tx = running THEN File(changed, running, "metadata") ELSE changed

(* Mutant: the copy that commits is not frozen.                            *)
GrantedUnfrozen(r) ==
  IF running \in {r.tx, r.next} THEN r
  ELSE IF r.tx = NoTid THEN File([r EXCEPT !.modified = FALSE], running, "reserved")
  ELSE [r EXCEPT !.modified = FALSE, !.next = running]

(* do_get_write_access.                                                    *)
Granted(r) ==
  IF running \in {r.tx, r.next} THEN r
  ELSE IF r.tx = NoTid THEN File([r EXCEPT !.modified = FALSE], running, "reserved")
  ELSE [r EXCEPT !.modified = FALSE, !.next = running,
                 !.frozen = IF r.list = "metadata" /\ r.frozen = Unfrozen
                            THEN r.data ELSE r.frozen]

(* jbd3_journal_get_write_access alone: the caller may then leave the      *)
(* buffer as it is.  It waits for a buffer that is on its way to the log.  *)
GetWriteAccess(b) ==
  /\ open /\ want.run[b] \in 0..MaxTid
  /\ jh[b].list = "shadow" => jh[b].frozen # Unfrozen \/ running \in {jh[b].tx, jh[b].next}
  /\ jh' = [jh EXCEPT ![b] = Granted(@)]
  /\ revoke' = revoke \ {b}
  /\ UNCHANGED <<tranVars, commitVars, freedBy, checkpoints, logVars, devVars,
                 want, mounted>>

DirtyMetadata(b) ==
  /\ open /\ want.run[b] \in 0..MaxTid
  /\ running \in {jh[b].tx, jh[b].next}
  /\ jh' = [jh EXCEPT ![b] = Dirtied(@)]
  /\ Makes(b, running)
  /\ UNCHANGED <<tranVars, commitVars, revoke, freedBy, checkpoints, logVars, devVars,
                 mounted>>

(* A free block becomes metadata: jbd3_journal_get_create_access, change,  *)
(* jbd3_journal_dirty_metadata.                                            *)
Reusable(b) == want.run[b] = Unused /\ freedBy[b] = NoTid

CreateMetadata(b) ==
  /\ open /\ Reusable(b)
  /\ jh' = [jh EXCEPT ![b] =
              Dirtied(IF @.tx = NoTid
                      THEN File([@ EXCEPT !.dirty = FALSE, !.modified = FALSE],
                                running, "reserved")
                      ELSE [@ EXCEPT !.modified = FALSE, !.next = running])]
  /\ revoke' = revoke \ {b}
  /\ Makes(b, running)
  /\ UNCHANGED <<tranVars, commitVars, freedBy, checkpoints, logVars, devVars, mounted>>

(* Mutant: the buffer leaves its checkpoint at once.                       *)
ForgottenAtOnce(r) ==
  LET s == [r EXCEPT !.modified = FALSE]
      off == [s EXCEPT !.dirty = FALSE, !.jbddirty = FALSE]
  IN  CASE r.tx = running -> [Unfile(off) EXCEPT !.cp = NoTid]
        [] r.tx # running /\ r.tx # NoTid ->
             [s EXCEPT !.freed = TRUE, !.next = running]
        [] r.tx = NoTid -> [s EXCEPT !.cp = NoTid, !.dirty = FALSE]

(* What jbd3_journal_forget clears of a buffer of the running transaction. *)
Cleared(r) == [r EXCEPT !.modified = FALSE, !.dirty = FALSE, !.jbddirty = FALSE]

(* jbd3_journal_forget.                                                    *)
Forgotten(r) ==
  LET s == [r EXCEPT !.modified = FALSE]
  IN  CASE r.tx = running /\ r.cp # NoTid -> File(Cleared(r), running, "forget")
        [] r.tx = running /\ r.cp = NoTid -> Unfile(Cleared(r))
        [] r.tx # running /\ r.tx # NoTid ->
             [s EXCEPT !.freed = TRUE, !.next = running]
        [] r.tx = NoTid /\ r.cp = NoTid -> [s EXCEPT !.dirty = FALSE]
        [] r.tx = NoTid /\ r.cp # NoTid /\ ~r.dirty -> [s EXCEPT !.cp = NoTid]
        [] OTHER -> File([s EXCEPT !.dirty = FALSE], running, "forget")

(* A metadata block is freed: jbd3_journal_revoke, which calls forget.     *)
FreeMetadata(b) ==
  /\ open /\ want.run[b] \in 0..MaxTid
  /\ jh' = [jh EXCEPT ![b] = Forgotten(@)]
  /\ checkpoints' = StillListed(jh')
  /\ revoke' = revoke \cup {b}
  /\ freedBy' = [freedBy EXCEPT ![b] = running]
  /\ Makes(b, Unused)
  /\ UNCHANGED <<tranVars, commitVars, logVars, devVars, mounted>>

(* A free block becomes file data: the inode joins the transaction         *)
(* (jbd3_journal_file_inode).                                              *)
AllocateData(b) ==
  /\ open /\ Reusable(b)
  /\ Makes(b, -running)
  /\ UNCHANGED <<jh, tranVars, commitVars, revoke, freedBy, checkpoints, logVars,
                 devVars, mounted>>

(* The page is written back when the kernel likes.                         *)
WriteData(b) ==
  /\ want.run[b] < 0 /\ wrote[b] # want.run[b]
  /\ Write(b, want.run[b])
  /\ UNCHANGED <<jh, tranVars, commitVars, revoke, freedBy, checkpoints, logVars,
                 want, mounted>>

(* jbd3_journal_begin_ordered_truncate writes data out that a committing   *)
(* transaction waits for; then its page goes and the block is freed.       *)
FreeData(b) ==
  /\ open /\ want.run[b] < 0
  /\ IF committing = -want.run[b] THEN Write(b, want.run[b]) ELSE UNCHANGED devVars
  /\ freedBy' = [freedBy EXCEPT ![b] = running]
  /\ Makes(b, Unused)
  /\ UNCHANGED <<jh, tranVars, commitVars, revoke, checkpoints, logVars, mounted>>

-----------------------------------------------------------------------------
(* jbd3_journal_commit_transaction.                                        *)
CommitLock ==
  /\ running # NoTid /\ stage = "none"
  /\ stage' = "locked"
  /\ UNCHANGED <<jh, tranVars, committing, revoking, newTail, revoke, freedBy,
                 checkpoints, logVars, devVars, want, mounted>>

(* Once the handles are gone (jbd3_journal_wait_updates): buffers that were *)
(* only reserved leave, some clean ones are dropped from their checkpoint,  *)
(* the revoke tables change places, and a new transaction may start.        *)
CommitSwitch ==
  /\ stage = "locked" /\ ~open
  /\ LET left == [b \in Block |->
                    IF jh[b].list = "reserved" THEN Refile(jh[b]) ELSE jh[b]]
     IN  \E bs \in SUBSET {b \in Block : Removable(b)} : jh' = Dropped(left, bs)
  /\ checkpoints' = StillListed(jh')
  /\ revoking' = revoke /\ revoke' = {}
  /\ committing' = running /\ running' = NoTid
  /\ stage' = "flush"
  /\ want' = [want EXCEPT !.com = want.run]
  /\ UNCHANGED <<open, nextTid, newTail, freedBy, logVars, devVars, mounted>>

(* journal_submit_data_buffers and its wait: file data comes before the    *)
(* metadata that points to it.                                             *)
CommitData ==
  LET new == {b \in Block : want.com[b] = -committing}
  IN  /\ stage = "flush"
      /\ wrote' = [b \in Block |-> IF b \in new THEN -committing ELSE wrote[b]]
      /\ disk' = [b \in Block |-> disk[b] \cup {wrote'[b]}]
      /\ stage' = "write"
      /\ UNCHANGED <<jh, tranVars, committing, revoking, newTail, revoke, freedBy,
                     checkpoints, logVars, want, mounted>>

(* jbd3_journal_write_metadata_buffer.                                     *)
CommitWrite(b) ==
  /\ stage = "write"
  /\ jh[b].tx = committing /\ jh[b].list = "metadata"
  /\ jh' = [jh EXCEPT ![b] = File(@, committing, "shadow")]
  /\ UNCHANGED <<tranVars, commitVars, revoke, freedBy, checkpoints, logVars, devVars,
                 want, mounted>>

(* jbd3_journal_get_log_tail.                                              *)
LogTail ==
  IF checkpoints # {} THEN CHOOSE t \in checkpoints : \A u \in checkpoints : t <= u
  ELSE IF committing # NoTid THEN committing
  ELSE IF running # NoTid THEN running ELSE nextTid

(* The new tail is computed, the file system's device flushed if the tail  *)
(* will move or data was written, the log's blocks waited for, which       *)
(* carry what the buffers, or their frozen copies, held until then.        *)
CommitIO ==
  /\ stage = "write" /\ ~\E b \in Block : jh[b].tx = committing /\ jh[b].list = "metadata"
  /\ newTail' = LogTail
  /\ IF newTail' > tail.tid \/ \E b \in Block : want.com[b] = -committing
     THEN Flush ELSE UNCHANGED devVars
  /\ LET mine == {b \in Block : jh[b].list = "shadow"}
     IN  /\ slots' = [slots EXCEPT ![SlotOf(committing)] =
                        [tid |-> NoTid, revokes |-> revoking,
                         blocks |-> [b \in mine |-> IF jh[b].frozen # Unfrozen
                                                    THEN jh[b].frozen ELSE jh[b].data]]]
         /\ jh' = [b \in Block |-> IF b \in mine THEN File(jh[b], committing, "forget")
                                   ELSE jh[b]]
  /\ stage' = "record"
  /\ UNCHANGED <<tranVars, committing, revoking, revoke, freedBy, checkpoints, tail,
                 want, mounted>>

(* journal_submit_commit_record: the transaction is durable.               *)
CommitRecord ==
  /\ stage = "record"
  /\ slots' = [slots EXCEPT ![SlotOf(committing)].tid = committing]
  /\ want' = [want EXCEPT !.dur = want.com]
  /\ stage' = "tail"
  /\ UNCHANGED <<jh, tranVars, committing, revoking, newTail, revoke, freedBy,
                 checkpoints, tail, devVars, mounted>>

(* __jbd3_update_log_tail.                                                 *)
MoveTail(t) == tail' = [tid |-> t, slot |-> SlotOf(t)]

CommitTail ==
  /\ stage = "tail"
  /\ IF newTail > tail.tid THEN MoveTail(newTail) ELSE UNCHANGED tail
  /\ stage' = "forget" /\ revoking' = {}
  /\ UNCHANGED <<jh, tranVars, committing, newTail, revoke, freedBy, checkpoints, slots,
                 devVars, want, mounted>>

(* The loop over t_forget: the buffer leaves the checkpoint of an older    *)
(* transaction and joins this one's, unless it was freed.                  *)
Released(r) ==
  LET gone == r.freed /\ r.next = NoTid
      s == [r EXCEPT !.frozen = Unfrozen, !.freed = r.freed /\ ~gone,
                     !.jbddirty = r.jbddirty /\ ~gone]
  IN  Refile([s EXCEPT !.cp = IF s.jbddirty THEN committing ELSE NoTid])

CommitForget(b) ==
  /\ stage = "forget"
  /\ jh[b].tx = committing
  /\ jh' = [jh EXCEPT ![b] = Released(@)]
  /\ checkpoints' = StillListed(jh')
  /\ UNCHANGED <<tranVars, commitVars, revoke, freedBy, logVars, devVars, want, mounted>>

(* With no buffer left it joins the checkpoint list, if it has something   *)
(* to write; the callback hands its freed blocks out.                      *)
CommitFinish ==
  /\ stage = "forget" /\ ~\E b \in Block : jh[b].tx = committing
  /\ checkpoints' = checkpoints \cup {t \in {committing} : \E b \in Block : jh[b].cp = t}
  /\ freedBy' = [b \in Block |-> IF freedBy[b] = committing THEN NoTid ELSE freedBy[b]]
  /\ committing' = NoTid /\ stage' = "none"
  /\ want' = [want EXCEPT !.com = want.run]
  /\ UNCHANGED <<jh, tranVars, revoking, newTail, revoke, logVars, devVars, mounted>>

-----------------------------------------------------------------------------
(* Checkpointing, for space in the log or by the kernel's writeback.       *)
WriteBuffer(b) ==
  /\ jh[b].dirty
  /\ Write(b, jh[b].data)
  /\ jh' = [jh EXCEPT ![b].dirty = FALSE]
  /\ UNCHANGED <<tranVars, commitVars, revoke, freedBy, checkpoints, logVars, want,
                 mounted>>

RemoveCheckpoint(b) ==
  /\ Removable(b)
  /\ jh' = Dropped(jh, {b})
  /\ checkpoints' = StillListed(jh')
  /\ UNCHANGED <<tranVars, commitVars, revoke, freedBy, logVars, devVars, want, mounted>>

(* Mutant: the tail moves over writes the device still has in its cache.   *)
CleanupTailUnflushed ==
  /\ mounted /\ LogTail > tail.tid
  /\ MoveTail(LogTail)
  /\ UNCHANGED <<jh, tranVars, commitVars, revoke, freedBy, checkpoints, slots, want,
                 devVars, mounted>>

(* jbd3_cleanup_journal_tail.                                              *)
CleanupTail ==
  /\ mounted /\ LogTail > tail.tid
  /\ Flush
  /\ MoveTail(LogTail)
  /\ UNCHANGED <<jh, tranVars, commitVars, revoke, freedBy, checkpoints, slots, want,
                 mounted>>

-----------------------------------------------------------------------------
(* Power fails, perhaps during recovery; the replay writes into the        *)
(* device's cache.                                                         *)
Crash ==
  /\ LogEnd < MaxTid
  /\ \E d \in Survivors :
       /\ wrote' = Replayed(d)
       /\ disk' = [b \in Block |-> {d[b], wrote'[b]}]
  /\ jh' = [b \in Block |-> Clean(wrote'[b])]
  /\ running' = NoTid /\ open' = FALSE /\ nextTid' = LogEnd + 1
  /\ committing' = NoTid /\ stage' = "none" /\ revoking' = {} /\ newTail' = tail.tid
  /\ revoke' = {} /\ checkpoints' = {}
  /\ freedBy' = [b \in Block |-> NoTid]
  /\ want' = [want EXCEPT !.run = want.dur, !.com = want.dur]
  /\ mounted' = FALSE
  /\ UNCHANGED logVars

(* The rest of jbd3_journal_load: flush, then journal_reset empties the    *)
(* log.                                                                    *)
Reset ==
  /\ ~mounted /\ mounted' = TRUE
  /\ Flush
  /\ tail' = [tid |-> nextTid, slot |-> 0]
  /\ UNCHANGED <<jh, tranVars, commitVars, revoke, freedBy, checkpoints, slots, want>>

JournalNext ==
  \/ StartHandle \/ StopHandle
  \/ \E b \in Block : \/ GetWriteAccess(b) \/ DirtyMetadata(b) \/ CreateMetadata(b)
                      \/ FreeMetadata(b) \/ AllocateData(b) \/ WriteData(b) \/ FreeData(b)
                      \/ CommitWrite(b) \/ CommitForget(b)
                      \/ WriteBuffer(b) \/ RemoveCheckpoint(b)
  \/ CommitLock \/ CommitSwitch \/ CommitData \/ CommitIO \/ CommitRecord
  \/ CommitTail \/ CommitFinish
  \/ CleanupTail \/ Crash \/ Reset

JournalSpec == JournalInit /\ [][JournalNext]_jnlVars

-----------------------------------------------------------------------------
JournalHead ==
  [data : Content, dirty : BOOLEAN, tx : 0..MaxTid, next : 0..MaxTid,
   list : {"none", "reserved", "metadata", "shadow", "forget"},
   modified : BOOLEAN, jbddirty : BOOLEAN, freed : BOOLEAN,
   frozen : Content \cup {Unfrozen}, cp : 0..MaxTid]
LogCell ==
  [tid : 0..MaxTid, revokes : SUBSET Block,
   blocks : UNION {[bs -> Content] : bs \in SUBSET Block}]
Made == [Block -> Content \cup {Unused}]

JournalTypeOK ==
  /\ jh \in [Block -> JournalHead]
  /\ running \in 0..MaxTid /\ committing \in 0..MaxTid /\ open \in BOOLEAN
  /\ stage \in {"none", "locked", "flush", "write", "record", "tail", "forget"}
  /\ nextTid \in 1..MaxTid + 1 /\ newTail \in 1..MaxTid + 1
  /\ revoke \subseteq Block /\ revoking \subseteq Block
  /\ freedBy \in [Block -> 0..MaxTid]
  /\ checkpoints \subseteq Tid
  /\ tail \in [tid : 1..MaxTid + 1, slot : 0..LogSlots - 1]
  /\ slots \in [0..LogSlots - 1 -> LogCell]
  /\ disk \in [Block -> SUBSET Content] /\ wrote \in [Block -> Content]
  /\ want \in [run : Made, com : Made, dur : Made]
  /\ mounted \in BOOLEAN

(* A crash at any moment, and whatever the device loses of what was not    *)
(* flushed, recovery brings back the blocks as the last durable            *)
(* transaction left them, its file data included: no handle is torn, no    *)
(* change is lost that was committed, none appears that was not, and no    *)
(* old metadata is replayed over a block that became file data.            *)
RecoversDurable ==
  \A d \in Survivors : \A b \in Block :
    want.dur[b] # Unused => Replayed(d)[b] = want.dur[b]
===============================================================================
