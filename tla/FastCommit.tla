------------------------------ MODULE FastCommit ------------------------------
(* Fast commits: what a handle tracks, the two queues, an fsync that writes  *)
(* the tracked inodes and directory entries to the fast commit area or falls *)
(* back to a full commit, and the replay (fast_commit.c with jbd3).          *)
(*                                                                           *)
(* Every handle changes one inode and one directory entry of it, as create,  *)
(* link and unlink do; their content is the number of the handle that wrote  *)
(* them last.  The area is a sequence of fast commits, each with its tail.   *)
EXTENDS Integers, Sequences, FiniteSets

CONSTANTS
  Inode,     \* regular files
  NoInode,   \* what a thread syncs that syncs nothing
  Syncer,    \* threads that call fsync
  LastTid,    \* bound: transactions
  MaxHandle  \* bound: handles

ASSUME FastCommitAssumption ==
  /\ IsFiniteSet(Inode) /\ NoInode \notin Inode
  /\ LastTid \in Nat \ {0} /\ MaxHandle \in Nat

NoTran == 0

VARIABLES
  tran,     \* running, committed (j_commit_sequence), next tid, full: the stage
            \* of the journal thread, ctid: what it commits
  flags,    \* JBD3_FULL_COMMIT_ONGOING and JBD3_FAST_COMMIT_ONGOING
  handle,   \* per inode, the handle that changes it
  ino,      \* per inode: content, i_sync_tid, its list, EXT5_STATE_FC_COMMITTING
  entry,    \* per inode, the content of its directory entry
  updates,  \* s_fc_dentry_q: per queue, the entries it holds
  inel,     \* EXT5_MF_FC_INELIGIBLE and s_fc_ineligible_tid
  sync,     \* per thread, its fsync
  barrier,  \* j_barrier_count > 0
  subtid,   \* s_fc_subtid
  area,     \* the fast commit blocks; off: how many commits the next one follows
  log,      \* the last full commit on disk and the one being written, s_start # 0,
            \* and whether there was a full commit since the mount (ts_tid)
  promised, \* per inode, the content an fsync returned for
  handles,  \* how many handles there were
  windows   \* the ways in which an update escaped the queues so far

fcVars == <<tran, flags, handle, ino, entry, updates, inel, sync, barrier, subtid,
            area, log, promised, handles, windows>>

Queue == {"main", "staging"}
Idle == [pc |-> "idle", on |-> NoInode, tid |-> NoTran, must |-> 0, subtid |-> 0]

FastInit ==
  /\ tran = [running |-> NoTran, committed |-> NoTran, next |-> 1, full |-> "none",
             ctid |-> NoTran]
  /\ flags = {} /\ barrier = FALSE /\ subtid = 0 /\ handles = 0 /\ windows = {}
  /\ handle = [i \in Inode |-> [tid |-> NoTran, step |-> "none", n |-> 0]]
  /\ ino = [i \in Inode |-> [data |-> 0, sync |-> NoTran, list |-> "none",
                             committing |-> FALSE]]
  /\ entry = [i \in Inode |-> 0]
  /\ updates = [q \in Queue |-> {}]
  /\ inel = [on |-> FALSE, tid |-> NoTran]
  /\ sync = [t \in Syncer |-> Idle]
  /\ area = [seq |-> <<>>, off |-> 0, written |-> TRUE]
  /\ log = [ino |-> entry, entry |-> entry, com |-> [ino |-> entry, entry |-> entry],
            start |-> FALSE, stats |-> FALSE]
  /\ promised = entry

-----------------------------------------------------------------------------
(* Replay: ext5_fc_replay_scan accepts commits up to the first whose tail  *)
(* has another tid; an empty log is not recovered at all.                  *)
FcReplayed(seq) ==
  LET valid == {k \in 1..Len(seq) : \A j \in 1..k : seq[j].tid = tran.committed + 1}
      last(i, part) == {k \in valid : i \in DOMAIN seq[k][part]}
      get(i, part) ==
        IF ~log.start \/ last(i, part) = {} THEN log[part][i]
        ELSE seq[CHOOSE k \in last(i, part) : \A j \in last(i, part) : j <= k][part][i]
  IN  [part \in {"ino", "entry"} |-> [i \in Inode |-> get(i, part)]]

(* What the device holds of the area if power fails now: a commit is not   *)
(* there before its blocks are waited for, or is there already.            *)
FcSurvivors ==
  {area.seq} \cup (IF area.written THEN {} ELSE {SubSeq(area.seq, 1, Len(area.seq) - 1)})

-----------------------------------------------------------------------------
(* Tracking.                                                               *)

(* The queue of ext5_fc_track_template and __track_dentry_update.          *)
QueueNow == IF flags # {} THEN "staging" ELSE "main"

(* The flags stay set for a moment after the queues were changed over.     *)
Stray == flags # {} /\ \/ tran.full = "cleaned"
                       \/ \E t \in Syncer : sync[t].pc \in {"end", "fallback"}

(* ext5_fc_mark_ineligible.                                                *)
Ineligible(hasTid, t) ==
  [on |-> TRUE, tid |-> IF hasTid /\ (~inel.on \/ t > inel.tid) THEN t ELSE inel.tid]

FcStart(i) ==
  /\ handle[i].step = "none" /\ handles < MaxHandle
  /\ ~barrier /\ tran.full # "locked"
  /\ IF tran.running # NoTran THEN UNCHANGED tran
     ELSE /\ tran.next <= LastTid
          /\ tran' = [tran EXCEPT !.running = tran.next, !.next = @ + 1]
  /\ handles' = handles + 1
  /\ handle' = [handle EXCEPT ![i] = [tid |-> tran'.running, step |-> "open",
                                      n |-> handles']]
  /\ UNCHANGED <<flags, ino, entry, updates, inel, sync, barrier, subtid, area, log,
                 promised, windows>>

(* ext5_fc_track_inode, then the change it announces, with the tid of      *)
(* ext5_update_inode_fsync_trans.                                          *)
TrackInode(i) ==
  LET tid == handle[i].tid
  IN  /\ handle[i].step = "open"
      /\ inel.on \/ ~ino[i].committing
      /\ ino' = [ino EXCEPT ![i].data = handle[i].n, ![i].sync = tid,
                            ![i].list = IF inel.on \/ @ # "none" THEN @ ELSE QueueNow]
      /\ entry' = [entry EXCEPT ![i] = handle[i].n]
      /\ handle' = [handle EXCEPT ![i].step = "tracked"]
      /\ windows' = windows \cup
           (IF inel.on /\ tid > inel.tid THEN {"skipped"} ELSE {}) \cup
           (IF ino[i].committing THEN {"written"} ELSE {}) \cup
           (IF ~inel.on /\ ino[i].list = "none" /\ Stray THEN {"stray"} ELSE {})
      /\ UNCHANGED <<tran, flags, updates, inel, sync, barrier, subtid, area, log,
                     promised, handles>>

(* ext5_fc_track_create, _link or _unlink; the handle ends.                *)
TrackEntry(i) ==
  LET tid == handle[i].tid
  IN  /\ handle[i].step = "tracked"
      /\ updates' = IF inel.on THEN updates
                    ELSE [updates EXCEPT ![QueueNow] = @ \cup {<<i, handle[i].n>>}]
      /\ handle' = [handle EXCEPT ![i].step = "none"]
      /\ windows' = windows \cup
           (IF inel.on /\ tid > inel.tid THEN {"skipped"} ELSE {}) \cup
           (IF inel.on /\ \E u \in updates["staging"] : u[1] = i THEN {"stale"} ELSE {}) \cup
           (IF ~inel.on /\ Stray THEN {"stray"} ELSE {}) \cup
           (IF ~inel.on /\ "fast" \in flags /\ ino[i].list = "main" THEN {"split"} ELSE {})
      /\ UNCHANGED <<tran, flags, ino, entry, inel, sync, barrier, subtid, area, log,
                     promised, handles>>

(* An operation that has no replay, as setting an extended attribute.      *)
MarkIneligible(i) ==
  /\ handle[i].step = "open"
  /\ inel' = Ineligible(TRUE, handle[i].tid)
  /\ windows' = windows \cup (IF "fast" \in flags THEN {"unchecked"} ELSE {})
  /\ UNCHANGED <<tran, flags, handle, ino, entry, updates, sync, barrier, subtid, area,
                 log, promised, handles>>

(* An inode without handle or fsync leaves memory; iget then finds the     *)
(* newest transaction it may be in.                                        *)
Evict(i) ==
  /\ handle[i].step = "none" /\ \A t \in Syncer : sync[t].on # i
  /\ ino[i].list # "none"
  /\ inel' = Ineligible(tran.running # NoTran, tran.running)
  /\ ino' = [ino EXCEPT ![i] = [@ EXCEPT !.list = "none", !.committing = FALSE,
                !.sync = IF tran.running # NoTran THEN tran.running
                         ELSE IF tran.ctid # NoTran THEN tran.ctid ELSE tran.committed]]
  /\ windows' = windows \cup (IF "fast" \in flags THEN {"evicted"} ELSE {})
  /\ UNCHANGED <<tran, flags, handle, entry, updates, sync, barrier, subtid, area, log,
                 promised, handles>>

-----------------------------------------------------------------------------
(* Mutant: inodes that a later transaction changed are dropped too.        *)
RequeuedNever(full, i, tid) == FALSE

(* The inodes of the main queue that stay there: a later transaction       *)
(* changed them.                                                           *)
Requeued(full, i, tid) == full /\ ino[i].sync > tid

(* ext5_fc_cleanup: the main queues are dropped, but for inodes that a     *)
(* later transaction changed, and the staging queues take their place.     *)
Cleanup(full, tid) ==
  /\ ino' = [i \in Inode |->
       IF ino[i].list = "main"
       THEN [ino[i] EXCEPT !.committing = FALSE,
                           !.list = IF Requeued(full, i, tid) THEN "main" ELSE "none"]
       ELSE [ino[i] EXCEPT !.list = IF @ = "staging" THEN "main" ELSE @]]
  /\ updates' = [main |-> updates["staging"], staging |-> {}]
  /\ inel' = IF tid >= inel.tid THEN [on |-> FALSE, tid |-> NoTran] ELSE inel

(* wake_up(&journal->j_fc_wait).                                           *)
Wake(s) == [t \in Syncer |-> IF s[t].pc = "wait" THEN [s[t] EXCEPT !.pc = "woken"] ELSE s[t]]

FcAt(t, pc) == sync[t].pc = pc
FcGoto(t, pc) == sync' = [sync EXCEPT ![t].pc = pc]

(* fsync of a file whose change has ended.                                 *)
Fsync(t, i) ==
  /\ FcAt(t, "idle") /\ handle[i].step = "none" /\ ino[i].data > promised[i]
  /\ sync' = [sync EXCEPT ![t] = [pc |-> "begin", on |-> i, tid |-> ino[i].sync,
                                  must |-> ino[i].data, subtid |-> subtid]]
  /\ UNCHANGED <<tran, flags, handle, ino, entry, updates, inel, barrier, subtid, area,
                 log, promised, handles, windows>>

Returns(t) ==
  /\ promised' = [promised EXCEPT ![sync[t].on] =
                    IF sync[t].must > @ THEN sync[t].must ELSE @]

(* jbd3_fc_begin_commit.  Without a full commit since the mount there is   *)
(* no fast one; while one goes on the caller sleeps, once.                 *)
Begin(t) ==
  /\ FcAt(t, "begin")
  /\ \/ /\ ~log.stats
        /\ FcGoto(t, "complete") /\ UNCHANGED <<flags, promised>>
     \/ /\ log.stats /\ tran.committed >= sync[t].tid
        /\ Returns(t) /\ sync' = [sync EXCEPT ![t] = Idle] /\ UNCHANGED flags
     \/ /\ log.stats /\ tran.committed < sync[t].tid /\ flags # {}
        /\ FcGoto(t, "wait") /\ UNCHANGED <<flags, promised>>
     \/ /\ log.stats /\ tran.committed < sync[t].tid /\ flags = {}
        /\ flags' = {"fast"} /\ FcGoto(t, "check") /\ UNCHANGED promised
  /\ UNCHANGED <<tran, handle, ino, entry, updates, inel, barrier, subtid, area, log,
                 handles, windows>>

(* ext5_fc_commit after -EALREADY: again, unless another commit did it.    *)
Woken(t) ==
  /\ FcAt(t, "woken")
  /\ \/ /\ subtid <= sync[t].subtid /\ sync[t].tid > tran.committed
        /\ FcGoto(t, "begin") /\ UNCHANGED <<promised, windows>>
     \/ /\ subtid > sync[t].subtid \/ sync[t].tid <= tran.committed
        /\ Returns(t) /\ sync' = [sync EXCEPT ![t] = Idle]
        /\ windows' = windows \cup
             (IF sync[t].tid > tran.committed THEN {"joined"} ELSE {})
  /\ UNCHANGED <<tran, flags, handle, ino, entry, updates, inel, barrier, subtid, area,
                 log, handles>>

Check(t) ==
  /\ FcAt(t, "check")
  /\ FcGoto(t, IF inel.on THEN "failed" ELSE "lock")
  /\ UNCHANGED <<tran, flags, handle, ino, entry, updates, inel, barrier, subtid, area,
                 log, promised, handles, windows>>

(* ext5_fc_perform_commit: flush the data, jbd3_journal_lock_updates ...   *)
LockUpdates(t) ==
  /\ FcAt(t, "lock")
  /\ barrier' = TRUE /\ FcGoto(t, "mark")
  /\ UNCHANGED <<tran, flags, handle, ino, entry, updates, inel, subtid, area, log,
                 promised, handles, windows>>

(* ... until no handle is left; mark the inodes, let handles start again.  *)
MarkInodes(t) ==
  /\ FcAt(t, "mark") /\ \A i \in Inode : handle[i].step = "none"
  /\ ino' = [i \in Inode |-> [ino[i] EXCEPT !.committing = @ \/ ino[i].list = "main"]]
  /\ barrier' = FALSE /\ FcGoto(t, "write")
  /\ UNCHANGED <<tran, flags, handle, entry, updates, inel, subtid, area, log, promised,
                 handles, windows>>

(* The entries, then the inodes, then the tail; an I/O error or a full     *)
(* area fails.                                                             *)
WriteCommit(t) ==
  LET files == {i \in Inode : ino[i].list = "main" /\ ino[i].committing}
      named == {u[1] : u \in updates["main"]}
      newest(i) == CHOOSE n \in {u[2] : u \in {v \in updates["main"] : v[1] = i}} :
                     \A u \in updates["main"] : u[1] = i => u[2] <= n
      commit == [tid |-> tran.running, ino |-> [i \in files |-> ino[i].data],
                 entry |-> [i \in named |-> newest(i)]]
  IN  /\ FcAt(t, "write")
      /\ \/ /\ area' = [seq |-> SubSeq(area.seq, 1, area.off) \o <<commit>>,
                        off |-> area.off + 1, written |-> FALSE]
            /\ FcGoto(t, "io")
         \/ FcGoto(t, "failed") /\ UNCHANGED area
      /\ UNCHANGED <<tran, flags, handle, ino, entry, updates, inel, barrier, subtid, log,
                     promised, handles, windows>>

(* jbd3_fc_wait_bufs, s_fc_subtid, and the cleanup of jbd3_fc_end_commit.  *)
WaitBuffers(t) ==
  /\ FcAt(t, "io")
  /\ area' = [area EXCEPT !.written = TRUE]
  /\ subtid' = subtid + 1
  /\ Cleanup(FALSE, NoTran)
  /\ FcGoto(t, "end")
  /\ windows' = windows \cup (IF log.start THEN {} ELSE {"flushed"})
  /\ UNCHANGED <<tran, flags, handle, entry, barrier, log, promised, handles>>

EndCommit(t) ==
  /\ FcAt(t, "end")
  /\ flags' = flags \ {"fast"}
  /\ sync' = [Wake(sync) EXCEPT ![t] = Idle]
  /\ Returns(t)
  /\ UNCHANGED <<tran, handle, ino, entry, updates, inel, barrier, subtid, area, log,
                 handles, windows>>

(* jbd3_fc_end_commit_fallback: cleanup, then the flags, then a full       *)
(* commit of the running transaction.                                      *)
Fallback(t) ==
  /\ FcAt(t, "failed")
  /\ Cleanup(FALSE, tran.running)
  /\ sync' = [sync EXCEPT ![t].pc = "fallback", ![t].tid = tran.running]
  /\ area' = [area EXCEPT !.written = TRUE]
  /\ UNCHANGED <<tran, flags, handle, entry, barrier, subtid, log, promised, handles,
                 windows>>

EndFallback(t) ==
  /\ FcAt(t, "fallback")
  /\ flags' = {"full"}
  /\ sync' = [Wake(sync) EXCEPT ![t].pc = "complete"]
  /\ UNCHANGED <<tran, handle, ino, entry, updates, inel, barrier, subtid, area, log,
                 promised, handles, windows>>

(* jbd3_complete_transaction: wait for the journal thread.                 *)
Complete(t) ==
  /\ FcAt(t, "complete") /\ tran.committed >= sync[t].tid
  /\ Returns(t) /\ sync' = [sync EXCEPT ![t] = Idle]
  /\ UNCHANGED <<tran, flags, handle, ino, entry, updates, inel, barrier, subtid, area,
                 log, handles, windows>>

-----------------------------------------------------------------------------
(* The journal thread, for a request or its timer.                         *)
FullBegin ==
  /\ tran.full = "none" /\ tran.running # NoTran
  /\ flags' = flags \cup {"full"}
  /\ tran' = [tran EXCEPT !.full = "wait"]
  /\ UNCHANGED <<handle, ino, entry, updates, inel, sync, barrier, subtid, area, log,
                 promised, handles, windows>>

FullLock ==
  /\ tran.full = "wait" /\ "fast" \notin flags
  /\ tran' = [tran EXCEPT !.full = "locked"]
  /\ area' = [area EXCEPT !.off = 0]
  /\ UNCHANGED <<flags, handle, ino, entry, updates, inel, sync, barrier, subtid, log,
                 promised, handles, windows>>

(* The handles are gone: the transaction is what memory holds now.  Its    *)
(* record is written, j_commit_sequence moves.                             *)
FullSwitch ==
  /\ tran.full = "locked" /\ \A i \in Inode : handle[i].step = "none"
  /\ tran' = [tran EXCEPT !.full = "write", !.ctid = tran.running, !.running = NoTran]
  /\ log' = [log EXCEPT !.com = [ino |-> [i \in Inode |-> ino[i].data], entry |-> entry]]
  /\ UNCHANGED <<flags, handle, ino, entry, updates, inel, sync, barrier, subtid, area,
                 promised, handles, windows>>

FullRecord ==
  /\ tran.full = "write"
  /\ log' = [log EXCEPT !.ino = log.com.ino, !.entry = log.com.entry, !.start = TRUE]
  /\ tran' = [tran EXCEPT !.full = "callback", !.committed = tran.ctid, !.ctid = NoTran]
  /\ UNCHANGED <<flags, handle, ino, entry, updates, inel, sync, barrier, subtid, area,
                 promised, handles, windows>>

FullCleanup ==
  /\ tran.full = "callback"
  /\ Cleanup(TRUE, tran.committed)
  /\ tran' = [tran EXCEPT !.full = "cleaned"]
  /\ UNCHANGED <<flags, handle, entry, sync, barrier, subtid, area, log, promised,
                 handles, windows>>

FullEnd ==
  /\ tran.full = "cleaned"
  /\ flags' = {} /\ sync' = Wake(sync)
  /\ log' = [log EXCEPT !.stats = TRUE]
  /\ tran' = [tran EXCEPT !.full = "none"]
  /\ UNCHANGED <<handle, ino, entry, updates, inel, barrier, subtid, area, promised,
                 handles, windows>>

(* jbd3_journal_flush, as a freeze calls it: all is committed, the log is  *)
(* emptied and the superblock says so until the next commit.               *)
FlushLog ==
  /\ log.start /\ tran.running = NoTran /\ tran.full = "none"
  /\ log' = [log EXCEPT !.start = FALSE]
  /\ UNCHANGED <<tran, flags, handle, ino, entry, updates, inel, sync, barrier, subtid,
                 area, promised, handles, windows>>

(* Power fails and the file system is mounted again; its numbers go on     *)
(* after the transaction that did not commit.                              *)
FcCrash ==
  /\ tran.committed + 2 <= LastTid
  /\ \E seq \in FcSurvivors :
       LET now == FcReplayed(seq)
       IN  /\ ino' = [i \in Inode |-> [data |-> now.ino[i], sync |-> tran.committed + 1,
                                       list |-> "none", committing |-> FALSE]]
           /\ entry' = now.entry
           /\ log' = [ino |-> now.ino, entry |-> now.entry, com |-> log.com,
                      start |-> FALSE, stats |-> FALSE]
           /\ area' = [seq |-> seq, off |-> 0, written |-> TRUE]
  /\ tran' = [running |-> NoTran, committed |-> tran.committed + 1,
              next |-> tran.committed + 2, full |-> "none", ctid |-> NoTran]
  /\ flags' = {} /\ barrier' = FALSE
  /\ handle' = [i \in Inode |-> [tid |-> NoTran, step |-> "none", n |-> 0]]
  /\ updates' = [q \in Queue |-> {}] /\ inel' = [on |-> FALSE, tid |-> NoTran]
  /\ sync' = [t \in Syncer |-> Idle]
  /\ UNCHANGED <<subtid, promised, handles, windows>>

FastNext ==
  \/ \E i \in Inode : \/ FcStart(i) \/ TrackInode(i) \/ TrackEntry(i)
                      \/ MarkIneligible(i) \/ Evict(i)
  \/ \E t \in Syncer : \/ \E i \in Inode : Fsync(t, i)
                       \/ Begin(t) \/ Woken(t) \/ Check(t) \/ LockUpdates(t)
                       \/ MarkInodes(t) \/ WriteCommit(t) \/ WaitBuffers(t)
                       \/ EndCommit(t) \/ Fallback(t) \/ EndFallback(t) \/ Complete(t)
  \/ FullBegin \/ FullLock \/ FullSwitch \/ FullRecord \/ FullCleanup
  \/ FullEnd \/ FlushLog \/ FcCrash

FastSpec == FastInit /\ [][FastNext]_fcVars

-----------------------------------------------------------------------------
FastTypeOK ==
  /\ tran \in [running : 0..LastTid, committed : 0..LastTid, next : 1..LastTid + 1,
               full : {"none", "wait", "locked", "write", "callback", "cleaned"},
               ctid : 0..LastTid]
  /\ flags \subseteq {"full", "fast"}
  /\ handle \in [Inode -> [tid : 0..LastTid, step : {"none", "open", "tracked"},
                           n : 0..MaxHandle]]
  /\ ino \in [Inode -> [data : 0..MaxHandle, sync : 0..LastTid,
                        list : {"none"} \cup Queue, committing : BOOLEAN]]
  /\ updates \in [Queue -> SUBSET (Inode \X (0..MaxHandle))]
  /\ inel \in [on : BOOLEAN, tid : 0..LastTid]
  /\ \A t \in Syncer : sync[t].on \in Inode \cup {NoInode} /\ sync[t].tid \in 0..LastTid
  /\ \A k \in 1..Len(area.seq) : area.seq[k].tid \in 1..LastTid
  /\ windows \subseteq {"skipped", "stray", "split", "joined", "flushed",
                        "written", "evicted", "unchecked", "stale"}

(* A crash at any moment: every change an fsync returned for is recovered, *)
(* and a handle is recovered whole, its inode with its directory entry, as *)
(* long as no update escaped the queues.                                   *)
FsyncedSurvives ==
  windows = {} =>
    \A seq \in FcSurvivors : \A i \in Inode :
      /\ FcReplayed(seq).ino[i] >= promised[i]
      /\ FcReplayed(seq).ino[i] = FcReplayed(seq).entry[i]
===============================================================================
