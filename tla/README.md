# SplineFS stable index: models and proofs

SplineFS is ext4 (renamed ext5, with jbd2 renamed jbd3) plus a learned index
for directory subtrees that have become quiet. This directory holds TLA+ models
of the index's own control logic, TLC configurations that check them on small
instances, and TLAPS proofs. All source paths below are relative to `src/`;
the implementation is in `src/src/ext5/`.

## 1. Inventory

### 1.1 The stable root index (`dir_stable.c`, `lidir_format.h`)

A *stable subtree root* owns a data file with one learned index for a whole
directory subtree. The name bindings of all its directories are the keys
(parent PLID, name); directories below the root hold only (root inode, PLID).

State on disk: two 4 KiB descriptor slots, written alternately, each with its
generation number, the place of its base arrays (sorted slots, spline points,
radix table, Bloom filter), the place and size of its delta region, and
`delta_seq_base`. The delta region is a log of INSERT, DELETE and NOP records
with consecutive sequence numbers, ended by a zero header.

State in memory: `i_stable_blob`, an RCU pointer to a parsed generation
(`struct ext5_stable_blob`): the base arrays, a tree with the newest delta record
per name, `used_bytes`, `next_seq`, `snapshot_floor_bytes`. It is built on
demand, dropped by a shrinker and replaced by compaction.

Operations:

| operation | function | what it does |
|---|---|---|
| parse | `ext5_stable_parse_blob`, `..._replay_delta` | newest valid slot, then replay of the log up to the first hole or wrong sequence number |
| install | `ext5_stable_ensure_blob` | parse without a lock, then install under `i_li_lock` unless a blob is there |
| lookup | `ext5_stable_inode_by_name` | delta tree first, then the base |
| append | `ext5_stable_append_delta` | write one record, apply it to the tree, advance `used_bytes` and `next_seq` |
| cancel | same function | a DELETE of a name whose INSERT is the newest record rewrites that record to NOP and rewinds |
| rename | `ext5_stable_rename_links` | INSERT of the new name and DELETE of the old, reserved together |
| shrink | `ext5_li_model_scan` | uninstall a blob nobody stages from |
| compact | `ext5_stable_compact` | snapshot, merge, stage, catch up, validate, publish, reclaim |

Correct when: a lookup at any moment, through any installed blob or after a
fresh parse, returns what the file-system operations have made of the
namespace; a crash returns the namespace of the last journal commit; a
compaction changes no binding and ends.

Hard: parse, merge and catch-up run without locks while mutations go on; a
cancel moves counters backwards which other code compares; eviction and reparse
may fall between any two steps; every step may be the last before power loss.

### 1.2 Namespace operations (`namei.c`)

Create, link, unlink, mkdir, rmdir and rename look up both parents, decide per
parent whether it is mutable or stable, open a journal handle, and call 1.1 for
stable ones. A rename between two roots takes both `i_li_lock`s in inode order;
a directory renamed out of its root is *rehomed* by 1.5. Correct when each
operation is atomic in memory and across a crash, and no lock order is reversed.

### 1.3 Learned lookup (`radix_spline.c`, `li_radix_sort.c`, `dir_stable.c`)

Base slots are radix-sorted by (parent PLID, hash); a spline over the distinct
keys with a bounded rank error, and a radix table over key prefixes, give a
search window; a Bloom filter may answer "absent". Correct when every key of
the base is inside the window computed for it, for duplicates and extreme keys
too, so that no existing name is reported absent.

### 1.4 Promotion and the operation clock (`promote.c`)

A per-mount clock counts namespace operations in per-CPU batches. A directory
quiet for T* operations is promoted: its subtree is captured directory by
directory, the index is built in a hidden shadow inode without namespace locks,
then all captured directories are locked, every `i_version` validated, and the
metadata switched root first. Correct when the published index is the tree as
it was at publication, when a tree that changed is not published, and when the
clock only moves forward.

### 1.5 Demotion, rehoming and the request states (`promote.c`, `dir_stable.c`)

The inverse: rebuild conventional directories for a root or branch from a cloned
index, validate, switch routes. Requests are kept in `i_li_demote_pending`
(0 idle, 1 policy, 2 reserved by a rename, 3 started by a rename). Correct when
a request that was accepted is carried out or given up by its owner, a reserved
hand-off is started or cancelled once, and the rebuilt directories hold the
names the index held at the switch.

### 1.6 Compaction queue and delayed work (`dir_stable.c`, `super.c`)

Appends claim one background compaction per generation and queue it; urgent
claims bring it forward, an idle deferral re-arms it. Work items hold inode
references that unmount drains. Correct when a log that passed its watermark is
eventually compacted and no work outlives its inode.

### 1.7 Inode pool, blob lifetime, readdir

The pool hands out inode numbers from a persisted cursor that recovery must not
let fall below a live one. Blobs are freed after RCU/SRCU grace periods and
reference drain; their blocks are punched after that. `readdir` merges base and
delta from a cookie that must survive a change of generation.

### 1.8 What it stands on: the journal and ext4's shared state

The index leaves durability to jbd3 and everything outside its directories to
ext5. Both are upstream code with identifiers renamed, and both keep state that
several actors change across commits and crashes:

- *jbd3* (`src/src/jbd3`): handles change buffers of the running transaction
  while the committing one writes its own to a circular log; checkpointing
  writes buffers in place and moves the tail; revoke records keep old copies of
  freed blocks from being replayed. Correct when recovery after any power
  failure gives the last durable transaction, with the file data it points to.
- *Fast commits* (`fast_commit.c`): an fsync writes the changes tracked since the
  last commit to a separate area, beside full commits. Correct when what an
  fsync returned for is recovered.
- *Orphans* (`orphan.c`): inodes to delete or truncate are chained on disk or
  noted in a file. Correct when a mount after any crash finds each of them once.
- *Attribute blocks* (`xattr.c`): inodes with equal attributes share a block,
  which a cache finds. Correct when counts match and nobody reads another's
  attributes.
- *Multi-mount protection* (`mmp.c`): nodes watch and rewrite one block. Correct
  when two nodes never both use the file system.
- *Block allocation* (`mballoc.c`): a group has a bitmap on disk, one in memory with
  a buddy derived from it, preallocations of files and of locality groups, and
  clusters that wait for the commit of the transaction that freed them. Correct when
  every cluster has at most one owner and both bitmaps and the counters say so.
- *Mutable directories* (`namei.c`, `dir.c`): one block or a hash tree of blocks, filled
  in one go when a demotion rebuilds them, then changed name by name and listed in
  hash order. Correct when a name is found exactly while it is there, and a listing
  that runs beside changes misses and repeats nothing that stayed.
- *Extent tree* (`extents.c`): a file's blocks, found, inserted, merged, split,
  removed, and converted between written and unwritten while writes are in flight.
  Correct when a block is found where it was put and reads as what was last written
  there, never as what the disk held before.

The rest (page writeback, mount options) is not modelled, see section 6; `src/utils` holds ioctl callers and
benchmarks.

## 2. Modules

| module | part | kind |
|---|---|---|
| `DirMap` | what 1.1 promises: a map with insert, remove, rename, persist, crash | abstract specification |
| `DeltaLog` | records, replay, delta tree, overlay, catch-up copy | operators |
| `StableRoot` | 1.1: every operation above | state machine |
| `CompactMerge` | 1.1: collecting, merging and pruning the next base | algorithm, as a state machine |
| `RadixSpline` | 1.3: building the spline and searching with it | algorithm, as a state machine |
| `OpClock` | 1.4: the per-CPU operation clock and its readers | state machine |
| `PromotePolicy` | 1.4: which directory a lookup arms, and who unarms it | state machine |
| `Promotion` | 1.4: capture, validation and publication of a tree | state machine |
| `Demotion` | 1.5: capture, validation and publication of a root or branch | state machine |
| `DemoteRequest` | 1.5: the request states, the rename hand-off and the demote worker | state machine |
| `LockOrder` | 1.2, 1.4, 1.5: the locks and handles of eight operations | state machine |
| `CompactWorker` | 1.6: who wakes the compaction worker, and when | state machine |
| `WorkOwnership` | 1.6: the references of delayed works, eviction, unmount | state machine |
| `InodePool` | 1.7: reservation, cursor, recovery | state machine |
| `BlobLifetime` | 1.7: readers, grace periods, references, punching | state machine |
| `StableReaddir` | 1.7: a listing over several calls | state machine |
| `HashTree` | 1.8: a mutable directory, rebuilt, changed and listed | state machine |
| `Journal`, `FastCommit`, `Orphan`, `XattrBlock`, `Mmp` | 1.8 | state machines |
| `Buddy`, `BlockAlloc`, `ExtentTree` | 1.8: allocation in a group, a file's extents | state machines |
| `MCStableRoot`, `MCLockOrder` | instances for TLC | model checking |
| `MCRoot`, `MCWorkers`, `MCReaders`, `MCStorage` | suites: several machines in one run | model checking |
| `StableRoot_proofs` | section 4: `DeltaLog`, `StableRoot` | proofs |
| `DemoteRequest_proofs` | section 4 | proofs |
| `Workers_proofs` | section 4: `CompactWorker`, `OpClock`, `WorkOwnership`, `CompactMerge` | proofs |
| `Conversion_proofs` | section 4: `Promotion`, `Demotion`, `LockOrder` | proofs |
| `Readers_proofs` | section 4: `InodePool`, `PromotePolicy`, `StableReaddir`, `RadixSpline` | proofs |
| `BlobLifetime_proofs` | section 4: `BlobLifetime` | proofs |
| `Storage_proofs` | section 4: `Mmp`, `XattrBlock`, `Orphan`, `BlockAlloc` | proofs |
| `Journal_proofs` | section 4: `Journal`, `FastCommit` | proofs |

`StableRoot` extends `DeltaLog` and shows, with `Abstract == INSTANCE DirMap`,
that it implements `DirMap`. The other machines look at one concern of the same
code each and meet at named states, where one module's step is another's
machine:

- `StableRoot` sees a demotion request as the flag `demotePending`,
  `CompactWorker` as `demote`, `WorkOwnership` as `request`; `DemoteRequest`
  explains it.
- `CompactWorker` sees a compaction as one step; `StableRoot` explains it, its
  merge is one step there and a machine in `CompactMerge`, its readers are those
  of `BlobLifetime`, and the sorted slots it builds are the input of
  `RadixSpline`.
- `DemoteRequest` sees a demotion and `PromotePolicy` a promotion as one step;
  `Demotion` and `Promotion` explain them, and `LockOrder` the locks around them.
- `StableRoot` and `InodePool` use a commit as "everything so far is durable";
  `Journal` explains why the updates of a handle stay together.
- `BlockAlloc` sees the bitmap in memory as a set and a mapped file as a function;
  `Buddy` explains how free runs are found in the one, `ExtentTree` how the other is
  stored. `ExtentTree` sees an allocation as "there is room" or "there is none".

A *suite* (`MCRoot`, `MCWorkers`, `MCReaders`, `MCStorage`) extends several machines that
share no variable. Its variable `part` says which of them runs; the others keep
one of their initial states. The reachable states are the sum of the machines',
not their product, so one run checks each of them exactly as a run of its own
would.

### 2.1 `DeltaLog`

A log is a function from `1..Region` to cells, each a `Record` or `Hole`.
`Region` counts records of one size: record lengths differ in the code, but no
decision depends on more than "does it fit" and "does the end move". Checksums
are abstracted to "the cell holds a record or a hole": a torn record is a hole.
`Accepted`/`ReplayLength` are the loop of `ext5_stable_replay_delta`;
`ReplayTree` what `ext5_stable_delta_apply` has built after it; `Overlay` the two
levels of a lookup. `Fold` is the reference: apply records one by one.

### 2.2 `StableRoot`

| variable | code |
|---|---|
| `slot` | the two descriptor slots with the regions they describe, as the page cache has them |
| `mem` | `i_stable_blob` |
| `parsed[t]` | the local `blob` of `ext5_stable_ensure_blob` in thread `t` |
| `cmp` | the locals of `ext5_stable_compact` and the staged regions |
| `demotePending` | `i_li_demote_pending # 0` |
| `ns`, `saved` | the namespace the VFS operations define; the last committed (slot, ns) |
| `tainted` | history: race 1 or 2 of section 5 has dropped a mutation |

Each section under `i_li_lock` is one action; the parse, the merge and each
catch-up round are actions of their own, because other actors run between them.
`Commit` may happen after any action: the handle that carries a record also
carries the inode updates of the operation. `Crash` restores `saved` and forgets
everything in memory. `CompactReclaim` may leave the old slot valid: after an
error the code does not clear it, and two valid slots are then on disk.

`cmp.pc` follows one `ext5_stable_compact` call: `called` (the blob is ensured,
`i_li_lock` not yet taken), `merge`, `copy`, `final` and `reclaim`, and `leaked`,
the state an `-ENODATA` return leaves behind (race 3 of section 5). `Staging`
is `i_li_compact_staging`; `Building` are the states in which a compaction that
took the gate still has work to do.

### 2.3 `DemoteRequest`

| variable | code |
|---|---|
| `pending` | `i_li_demote_pending`: 0 idle, 1 policy, 2 reserved by a rename, 3 rehome started |
| `req`, `target` | `i_li_demote_plid`, `_urgent`, the hint; the referenced inode of the branch |
| `rehome` | the branches whose inode has `i_li_rehome_pending` |
| `call[c]` | the compaction worker's or the rename's position in its call, and its arguments |
| `queued`, `held`, `wk` | the delayed work, its inode reference, the running callback |
| `branches`, `root` | what the root still routes; whether it is a root |
| `merged`, `stray` | history: a merge has hit a hand-off; it has re-armed work that had run (`NothingMerged`, `QueuedPinsInode` in section 5) |

`__ext5_schedule_demote_plid` shares no lock with the worker, so its `cmpxchg`
(`Claim`), the writes after it (`QueueClaimed`, `Merge`) and the re-arming
(`Kick`) are separate actions; so are the worker's release of the fields
(`WorkRelease`) and of the state (`WorkPublish`). The rename side is `Reserve`,
`RenameRecheck`, `StartReserved` with `QueueStarted`, or `CancelReserved`. There
is one rename: `s_vfs_rename_mutex` admits one cross-directory rename at a time.
What a demotion does to the index is one step (`Demoted`), which needs that
mutex as the code does.

### 2.4 `CompactWorker`

| variable | code |
|---|---|
| `gen`, `level`, `blob` | newest generation, fill of its delta (below, over the watermark, urgent), blob installed |
| `sched`, `urg` | `i_li_compact_scheduled_generation`, `i_li_compact_urgent_generation` |
| `queue[c]` | an appender's or the worker's position in `ext5_stable_queue_compact` |
| `queued`, `wk` | `compact_work` on its timer or queue; the running callback |
| `demote` | `i_li_demote_pending # 0` |
| `excused`, `abandoned` | history: the worker gave up in the open; the generation whose claim it left behind |

Each atomic operation on the two claims is an action. Appenders hold
`i_li_lock` while they queue, so there is one of them at a time; eviction and
publication need that lock, the worker's own claims do not.

A worker that would rather see the root demoted asks for it whatever
`i_li_demote_pending` is by then. The request is accepted or merged (`WorkDemotes`), or
refused (`WorkRefused`): a rename has reserved the root (`-EAGAIN`,
`promote.c:2129`), or no work can be queued. Either way the callback returns with its
claim standing, and `abandoned` says so. If the request was refused and the rename
cancels, nothing is queued for a full delta; `WokenUnlessAbandoned` leaves that gap out
by name and `Woken` fails on it (section 5).

### 2.5 `OpClock`

`clock` is `li_op_clock`, `local[c]` the CPU's `li_op_pending`, `precise` whether
the effective quiet threshold is at most a batch per CPU (then ticks go to the
shared counter at once; `Retune` lets it change at any time). A batch is
published in two steps, `Add` and `Clear`, as `ext5_li_op_tick` does with
preemption off; a reader adds the counters up one load at a time, in any order,
since no barrier orders them.

### 2.6 `RadixSpline`

The initial states are all nondecreasing key sequences whose longest run of
equal keys the error bound admits: what `ext5_stable_compact` and promotion
pass to `sfs_rs_build` after the sort. Each iteration of the builder's loop is
an action (`SkipDuplicate`, `AddFirst`, `AddSecond`, `AddOutside`, `AddInside`),
then `AddEnd`, `Finish` (the rest of the radix table) and `Validate`. The
arithmetic is exact: the code's slope comparison uses 128-bit products. The
lookup is a set of operators: `Segment` by way of the radix table, `Estimate` by
interpolation rounded down, `Window`, and `Compared`, the slots whose names a
lookup really looks at after the window has been cut to the parent's slots. That
`Compared` is all it has to be is proved for every number of slots (section 4).

### 2.7 `CompactMerge`

The initial states are every base and every captured delta over a few slots in
which a directory has at most one entry (what the namespace operations keep),
with names whose hashes differ or agree. Each turn of a loop is a step:
`CollectBase` and `CollectInsert` are the two loops of `compact_collect_slots`,
`MergeFrom` that of `compact_merge_sorted_runs`, `Follow` one directory of
`compact_drop_dead_plids` and `Drop` one slot of its last loop. The base of equal
hashes comes in any order: promotion sorts by hash only, an earlier merge leaves
its own.

### 2.8 `Promotion` and `Demotion`

Both keep the namespace the callers were told (`tree`, `ns`) beside what lookups
use: the conventional entries (`linear`, `dirent`), the route or root flag of each
directory (`kind`, `mode`) and the index (`index`; `base` and `delta`). A lookup is
an operator over these (`Found`, `Visible`), and the safety property compares it
with the namespace in every state, while directories convert one by one.

`Promotion` captures a directory per step under its shared lock; `touched` is the
set of captured directories whose `i_version` has moved; nested roots are demoted
on the way; `PromoteLocks` takes one `i_rwsem` per step, `PromoteValidates` compares,
and publication is a step per directory, the root first, each a journal handle,
after any of which it may fail. `Demotion` pins a blob, clones the delta, rebuilds
without a lock, and validates three times (`SourceSame`): the blob and `next_seq`.
`slipped` notes that a changed delta passed, `stranded` that a demotion stopped
between a directory and its child; the properties are about the other histories.
`Merge` is the captured view, record by record the one a replay gives; `Reach` is
what the walk over directory entries finds, as the least set that has with a
directory its children.

### 2.9 `PromotePolicy`

A path of directories, lookups that walk up it, and the work of each directory.
`armed` is `i_li_armed` (2: pending). Whether a directory is large and quiet enough
is a free choice at each look, so the arithmetic of T* and the ancestor counts
needs no model. Scheduling is split where the code drops its locks:
`ScheduleObserve`, `ScheduleQueue` (`work_ref_lock`), `ScheduleEnd`.

### 2.10 `LockOrder`

Each operation is the sequence of locks and handles its code takes and drops; a
caller takes the next step when the lock is free. Directories are locked as the
VFS and the code lock them (`lock_two_directories`, captured order); a handle
waits while the running transaction is locked, and that waits for open handles.
`NobodyStuck` says that of any set of callers one waits for none of them, which is that
the waits-for relation has no circle; it needs neither a time-out nor fairness.

### 2.11 `WorkOwnership`

Per delayed work: on its timer, running, disabled, holding its reference. The
callbacks may queue themselves or others again before they finish
(`CallbackFinishes`). The unmount sets `li_shutting_down`, drains inode by inode
(`DrainReleases`), flushes, and evicts what nobody refers to; references between
inodes are `target` (a hand-off's branch) and `cached` (an interior's root).

### 2.12 `BlobLifetime`

Blobs with their reference counts, threads that look up under RCU or SRCU, read
directories with a reference, or install; the shrinker; a compaction and a
demotion that replace the blob, wait for both grace periods and the references,
and punch the payload. A grace period is the set of threads it waits for
(`grace`, `job`). Three histories are kept apart: a thread that lost the install
race frees a blob another has just referenced (`freedHeld`), an old parse was
installed (`stale`, race 2 of section 5), the root was evicted under an open
directory (`outlived`).

### 2.13 `StableReaddir`

One reader, over several `getdents` calls, in a directory whose names are created
and removed and whose generation a compaction replaces between any two steps.
`hashOf` gives each name its cursor; two may share one. `CallPins`, `CallCopies`,
the merge step by step with the caller's buffer (`Room`), and `CallFulls`, which
leaves the cursor. A cookie kept across a promotion or demotion has no promise in
the repository and is not modelled. The slots of a generation are one of the
`Arrangements` of its names: the two runs of a compaction, each sorted, have one
merge (`MergedBefore`). The three largest of the 2^63 cursors, which the code clamps
together, are left out by the run's `HashKey`, not by the proof.

### 2.14 `InodePool`

`pool` is the cursor in memory; `dir.desc` what the descriptor holds, written at a
reservation and at a generation cut only; `dir.base` and `dir.inserts` the links a
reparse finds. A creation takes its goal and writes its record in two steps, the first
of which looks at no blob; eviction drops the memory, a crash also what was not
committed. A parse reads without a lock (`ParseBlob`; `parses` are the pools that
parses under way have read) and installs under `i_li_lock` (`EnsurePool`). A
reservation is three steps: it looks under `i_li_lock` (`ReserveChecks`), gives the
lock up and writes the descriptor (`PersistPool`, `PersistFails`), and sets the pool
under the lock again, whatever it is by then (`SetPool`). `li_transition_lock` and the
root's `i_rwsem` keep a demotion and the publication of a generation out of it, but
neither the shrinker, nor a parse, nor a creation in an interior. `rewound` records
that `SetPool` has reset a cursor that was moving: race 7 of section 5.

### 2.15 `Journal`

Per block its journal head (`jh`): contents, dirty bits, the transaction and next
transaction, its list, frozen copy, checkpoint; the stages of
`jbd3_journal_commit_transaction` are actions; `slots` is the log, `tail` its tail,
`disk` the contents a device may hold after a power failure (everything since the
last flush), `wrote` the last one. Recovery is `LogEnd`, `Revoked` and `Replayed`,
the three passes. Contents are abstracted to who wrote last, metadata of a
transaction or data of a file. Handles of a transaction are taken together, a
transaction takes one slot of the log, and the journal is on its own device,
where the two flushes differ most.

### 2.16 `FastCommit`

Each handle changes an inode and a directory entry. The model keeps `i_sync_tid`,
the two queues, the ineligible mark, both commit flags, the area and `s_fc_subtid`,
the steps of `ext5_fc_commit` between its locks, and the full commit beside it
with its clean-up. `windows` names the ways in which the code lets an update
escape the queues; each is a history flag, and `FsyncedSurvives` is about
histories without any (section 5).

### 2.17 `Orphan`

`meta` is the metadata in memory, `durable` as of the last commit; an action is what
one handle does, so that a commit may fall between any two. The clean-up of a
mount (`CleanHead`, `CleanSlot`, `CleanDone`) runs through the same operations and
may itself be cut by a crash. The chain on disk is whatever sequence of inodes
`s_last_orphan` and the `i_dtime`s spell (`IsChain`); that one exists, without
duplicates and up to the terminating zero, is part of `OrphansFound`.

### 2.18 `XattrBlock`

A thread per inode under its `xattr_sem`; an action is what happens under one hold
of a buffer lock. `cache` is the mbcache: whether a block is in it, reusable, and
who holds its entry. A block changed in place must not have been found by another
(`Mine`), a last reference not dropped beside a holder (`NobodyHolds`), a count not
pass its limit (`Reuse`). Quota failures are left out.

### 2.19 `Mmp`

Time is a clock tick that ages every node (`since`), which may be late. A sequence
number is fresh whenever it is written (a random 32-bit number when mounting), so
the model keeps only whether the block has been written since a node last looked
(`same`). `races` names the three windows in which the protocol does not protect:
two nodes that find the block clean at the same time, a node that could not write
the block, and a node whose check interval grew beyond the wait of another that
had read the shorter one ("longer").

### 2.20 `Buddy`

`group` is one group's bitmap (`busy`), the free bits of its buddy (`chunks`), and
`bb_counters`, `bb_fragments`, `bb_free`, `bb_first_free`. `Generated` is
`ext5_mb_generate_buddy`, `Use` and `Free` are `mb_mark_used` and `mb_free_blocks`
with the group locked. The group starts with any bitmap. The property compares the
two incremental algorithms with the generation from nothing.

### 2.21 `BlockAlloc`

One group shared by files. `ctx[f]` is the `ext5_allocation_context` of the task that
holds the file's `i_data_sem`, and how far it got; `pas` the preallocations with their
reference count and deleted mark; `pending` the freed clusters of the running and the
committing transaction; `map` the extents as a function. A step is what happens under
one hold of the group lock or `pa_lock`, so that a search, a commit, a truncation and
a reload of the buddy cache (`Reload`, when nobody holds its page: `Held`) interleave.
Which free extent the criteria prefer is left open: any. Left out: clusters larger
than a block, several groups, data=writeback (where freed data does not wait), the
trimming of long locality lists, the allocator used while fast commits are replayed.

### 2.22 `ExtentTree`

`tree` is the tree of one file, `home` and `data` say where each block was put and
what the disk holds there, `flying` the writes submitted for unwritten extents that
have not ended. Each call of `ext5_map_blocks` or `ext5_ext_remove_space` is a step
(`i_data_sem`); whether a tree block can be had is a choice (`room`, one for each split
of a call), and so are the extension of the handle (`up`) and whether the blocks lie
inside the file (`inside`, which allows zeroing). Deeper trees than one level of
indexes count as no room. `exposed` records two ways in which a split without room
goes wrong (section 5); `ReadsWhatWasWritten` is about histories without them. Left
out: collapse, insert and swap of ranges, the longest extent length, `EOFBLOCKS`,
bigalloc.

### 2.23 `HashTree`

`htree` is one directory: its leaves with the hashes that lead to them, in one or two
levels. `Rebuild` starts from what `ext5_dir_rebuild_bulk` makes of any set of names in
any order (`RebuiltDirs`, with its radix sort); `AddEntry` and `DeleteEntry` are the
single changes with leaf splits, index splits and a new level (`Added`). `file` is the
`dir_private_info` of an open file: `Readdir` is a call of `ext5_dx_readdir` with room
for one name, which is where a call with more room passes too, `Reopen` loses all of it
but the position. Names are of one length; the hash functions are constants.

## 3. Runs

| run | properties | what it shows |
|---|---|---|
| `stable_root` | `TypeOK`, `BlobIsNamespace`, `CrashConsistent`, `DiskIsNamespace`, `StagedPlusTail` (`StableRoot`); `RequestTypeOK`, `RequestOwned`, `TargetHeld`, `RouteKept`, `WorkPinsInode`, `HandoffCarriedOut` (`DemoteRequest`) | two threads, two inode numbers, three generations: lookups through the blob, a fresh parse, the staged generation plus the uncopied tail, and recovery all give the namespace; who owns the request, its target, the route of its branch, the reference of its work |
| `stable_root_steps` | `PrefixImmutable`, `SequenceContinues`, `RefinesDirMap`, `CompactionEnds` | what a step may do: the snapshot prefix stays, sequence numbers continue, every step is an operation of the map or invisible; a compaction that builds ends |
| `workers` | `WorkersTypeOK` and, by machine: `WokenUnlessAbandoned` (`CompactWorker`), `ClockWithinBatches` (`OpClock`), `NobodyStuck` (`LockOrder`), `WorksHoldInodes` (`WorkOwnership`), `PromotedFindsTree` (`Promotion`), `LookupsFindNamespace` (`Demotion`), `MergedIsNamespace` (`CompactMerge`) | the background side of a root |
| `readers` | `ReadersSafe` (`BlobLifetime`), `EveryNameCompared` (`RadixSpline`), `ListingFaithful` (`StableReaddir`), `CursorCoversPool` (`InodePool`), `NeverStranded` (`PromotePolicy`), `NamesFound`, `HashListing` (`HashTree`) | what readers of a root meet |
| `storage` | `StorageTypeOK`, `RecoversDurable` (`Journal`), `FsyncedSurvives` (`FastCommit`), `OrphansFound` (`Orphan`), `SharedBlockSafe` (`XattrBlock`), `OneMounter` (`Mmp`), `BuddyIsBitmap` (`Buddy`), `BlocksAccounted` (`BlockAlloc`), `TreeMapsFile`, `ReadsWhatWasWritten` (`ExtentTree`) | what lies under the directories |
| `stable_root_cut` | `PublishValidatesCut` (violated) | race 1 of section 5 |
| `stable_root_install` | `InstallIsCurrent` (violated) | race 2 |
| `stable_root_gate` | `GateReleased` (violated) | race 3 |
| `lock_order_stuck` | `NobodyStuck` (violated) | race 4 |
| `work_lingers` | `NothingLingers` (violated) | race 5 |
| `promotion_self` | `NeverWaitsForItself` (violated) | race 6 |
| `pool_rewind` | `CursorCovers` (violated) | race 7 |

### 3.1 Bounds

`StableRoot`: two names are the least that let a rename, a cancel and an
unrelated record meet; two inode numbers tell a stale binding from the current
one; `Region` = 3 lets a log fill, be cut in the middle and be copied with a
tail; `MaxGen` = 3 reuses a descriptor slot (generation 3 goes where generation
1 was); `MaxSeq` bounds the newest sequence number, and a cancel gives one back,
so histories are longer than `MaxSeq` records; it is 3 with two threads and two
inodes, 4 with one of each. `CopyRounds` is 8 in the code and 1 or 2 here, so
that giving up happens. `UntilRace` cuts behaviours after race 1 or 2 has fired,
where the invariants say nothing anyway.

`DemoteRequest` is unbounded but for its two branches: one that is asked for and
one that is not.

In the suites:

- `CompactWorker` has three generations: the one a call looked at, the current
  one, and one more that appears in between. `OpClock` has batches of 3 on two
  CPUs and 10 operations, so that one CPU can publish twice while the other is in
  a batch.
- `LockOrder` has two callers, any two operations of a set, four directories. A
  circle of two operations is what the lock order is about; promotions and
  renames are kept apart there (`SafeSets`), because together they are race 4.
- `WorkOwnership` has a root with all three works and an interior that may move,
  and three queueings. `Promotion` has a top, two directories and a file, so that
  a directory can move between two others; its constraint `CapturedOnce` cuts
  race 6. `Demotion` has a root, two interiors, a file, two delta records and one
  reparse; `Unharmed` cuts the histories of 2.8.
- `CompactMerge` has two names in two directories with all bases and deltas over
  them; the constraint orders names by hash, which only drops renamings.
- `RadixSpline` tries every key sequence of up to seven slots over two parents
  with five hashes each, error bounds 1 to 3 and 1 to 3 radix bits: several spline
  points, prefixes shared by points and prefixes without one, runs as long as the
  bound, and a run at the end that forces the second end point. `CorridorWide`, a
  builder that forgets the run, first fails with seven.
- `BlobLifetime` has two blobs (the one in use and the next), two threads and two
  generations. `StableReaddir` has three names over three hash values, so that two
  can share a cursor, buffers of one and two entries, and two changes. A buffer of
  one entry never passes a cursor that two names share: the call returns the first
  again, and the bound of four on `got` cuts that loop. `InodePool` has four inodes,
  pools of three (a second pool overlaps the end of the range) and four operations;
  in `readers` the parses under way have read at most one pool that may be stale, and
  behaviours end with race 7. Without a limit on them it passes too (1,450,000 states).
- `PromotePolicy` has a path of two directories, one lookup at a time and one
  mutation; with two lookups and one directory it passes too.
- `Journal` has one block, a log of two transactions and four transaction numbers:
  the log wraps, a block is freed and taken again while old copies are in the log.
  With two blocks and three numbers it passes too (300,000 states).
- `FastCommit` has two inodes, two threads in fsync, four transactions and two
  handles. `Orphan` has three inodes (head, middle and tail of the chain), an orphan
  file of one slot and five operations. `XattrBlock` has three inodes, two blocks
  and a reference limit of two. `Mmp` has two nodes; with three it passes too.
- `Buddy` has two chunks of four blocks, all 256 bitmaps: every border case of a free
  run (alone, with a left, a right or both neighbours, across the two chunks).
- `BlockAlloc` has three clusters, files of three and one blocks, two preallocations,
  a locality group's goal of two and requests of up to two: an extent shorter than
  its goal, a preallocation used in parts by two requests, a group without space, and
  both files in the allocator at once.
- `HashTree` has five names, three with one hash and two of these with one minor hash
  too, two names to a leaf, two entries to an index block, and three edits after any
  rebuild: hashes that fill two leaves, both kinds of split in both levels, emptied
  leaves, a listing that stops inside a chain.
- `ExtentTree` has four blocks in two regions, room for two extents in the inode and
  three in a leaf, so that the tree grows, splits, loses leaves and shrinks; zeroing of
  up to two blocks and one write in flight. Four single blocks in alternating regions
  are the most extents it can have. `Sound` cuts histories that have been exposed.

### 3.2 Deadlock and fairness

Deadlock checking is off where the bounds stop the history (`StableRoot` and most
machines of the suites) and where an algorithm is done (`RadixSpline`,
`CompactMerge`). Deadlocks of the code are looked for by
`NobodyStuck`, which sees a circle although other callers go on.

`FairSpec` is used by `stable_root_steps` and `stable_root_gate`. Only the
compaction's own steps are weakly fair: it runs in a worker that the kernel
schedules (or in the ioctl's thread), and each of its loops is bounded. Nothing
is assumed of mutations, eviction, commits or crashes.

## 4. Proofs

TLAPS checks eight modules, each for every value of the constants that satisfies
the named assumption of the component, which TLC evaluates in every run. The
assumptions say what the numbers are (bounds are naturals, a pool fits in the inode
table, an MMP interval is positive), which markers are not values (`NoIno`, `NoBlob`,
`Whole`), that names of files are not names of interiors, and that threads and
directories are finitely many where something is counted. No bound on a history is
needed for a safety theorem but where the model itself has one.

Each theorem `Spec => []Property` follows the same way from an inductive invariant:
it holds initially, every action keeps it (a lemma per action or group of actions),
and it implies the property. TLC checked each such invariant but `LockIInv` on the
instance of the run before it was proved; the comments above its conjuncts say what
they are for.

| theorem | property | the invariant, and why the property is not enough |
|---|---|---|
| `TypeCorrect` | `TypeOK` (`StableRoot`) | `TypeInv`: a parse reads the newest slot, so one must be in use and sit in the slot of its parity; an append writes at `used + 1`, so positions lie in the region |
| `LookupsSeeNamespace`, `DiskTellsNamespace`, `CrashReturnsCommit`, `StagingLosesNothing` | `BlobIsNamespace`, `DiskIsNamespace`, `CrashConsistent`, `StagedPlusTail` | `IInv`, see below |
| `PrefixIsImmutable`, `SequenceIsContinued` | `PrefixImmutable`, `SequenceContinues` | the same, per step |
| `ImplementsDirMap` | `RefinesDirMap` | the same: each step is mapped to a step of `DirMap` or a stutter |
| `RequestTyped`, `RequestIsOwned`, `HandoffHolds`, `RouteIsKept`, `WorkIsPinned`, `HandoffIsCarriedOut` | `DemoteRequest` | `IInv`, see below |
| `NoWakeupLost` | `WokenUnlessAbandoned` | `WorkerIInv`: claims never run ahead of the generation (`Ordered`); a claim of the newest one is queued or in somebody's hands (`ClaimIsKept`); whoever saw the level rise has still to arm the work (`CallIsComing`); a worker that builds keeps the promise only for the generation it looked at, as it may be refused (`Coming`) |
| `WorksAreHeld` | `WorksHoldInodes` | `OwnIInv`: what is held is alive, what is freed is disabled, and the walk over the inodes at unmount leaves behind it no work that an earlier one could rearm (`Draining3`, `Quiet`, `Left`) |
| `MergeIsNamespace` | `MergedIsNamespace` | `MergeIInv`: phase by phase, where all that base and delta say is at that point, that each list is in order and precedes what is still to be appended to it, and that a directory visited has its children found |
| `PromotionFindsTree` | `PromotedFindsTree` | `PromotionIInv`: what has not moved since it was captured is captured right (`Snapshot`), the locks held are the directories of a prefix, each once (`LockedOnce`), and what is not published yet is still locked and as captured (`CaptureTold`) |
| `DemotionFindsNamespace` | `LookupsFindNamespace` | `DemotionIInv`, see below |
| `NobodyGetsStuck` (promotions and renames apart, `~ReclaimStarts`) | `NobodyStuck` | `LockIInv`, see below |
| `CursorNeverRewinds` (until `rewound`) | `CursorCoversPool` | `PoolIInv`: what is on disk suffices to bring the cursor back (`Recoverable`), in the durable image too; a parse under way either covers what the pool has given or will find a live pool (`ParsesCover`); a reservation under way that still finds the pool unused resets nothing (`ReserveSafe`) |
| `NobodyIsStranded` | `NeverStranded` | inductive with the types of the threads that are to resolve a pending directory |
| `ListingIsFaithful` (`~Collide`) | `ListingFaithful` | `ReaddirIInv`: every generation has its slots in hash order, what a compaction captured with the names changed since is the listing (`SnapshotHolds`), and a merge still has before it all that is owed, a record as well as the slot it replaces (`MergeHolds`) |
| `NamesAreCompared` | `EveryNameCompared` | `SplineIInv`, see below |
| `ClockIsKept` | `ClockWithinBatches` | `ClockIInv`: a CPU publishes a full batch and nothing else (`BatchIsFull`), so what the shared counter lacks is what the CPUs have not published; `ReadersAddUp`: of the CPUs read so far a sum has at most a batch each, of the shared counter at most all operations, and with it all that were published when the read began. `EveryTickCounted` counts the unpublished ticks as a set, since a sum over the CPUs is a fold |
| `ReadersAreSafe` | `ReadersSafe` | `LifeIInv`, see below |
| `OneNodeMounts` | `OneMounter` | `MmpIInv`: who wrote last (`LastWriter`), who may be active beside whom (`Excludes`), and that a claimant waits longer than a silent owner may sleep (`Outwaits`) |
| `SharedBlocksAreSafe` | `SharedBlockSafe` | `XattrIInv`: what a job names it holds or refers to (`Names`), a block changed in place is nobody else's (`Alone`), a cached block is in use (`Cached`); that the holders are finitely many is part of it, as the count is their number (`CountedBlock`) |
| `BlocksAreAccounted` | `BlocksAccounted` | `AllocIInv`, see below |
| `JournalRecovers` | `RecoversDurable` | `JournalIInv`, see below |
| `FsyncedIsRecovered` | `FsyncedSurvives` | `FcIInv`, see below |
| `OrphansAreFound` | `OrphansFound` | `OrphanIInv`: in memory and in the last commit some list is the chain and holds, with the file, whoever needs a mount (`ListSound`); a mounted system knows that list, a mount has at most its head (`ListKept`); whoever truncates or evicts is on it (`DoingHeld`). It holds until a failed truncation has left memory and disk apart (section 5) |

**`StableRoot_proofs`, `DeltaLog`.** What the operators do is stated first, without induction over data
where that can be avoided: a replay length is the least cell that is not accepted
(`ReplayLengthIs`), the replayed tree has the newest record per name
(`ReplayTreeIs`), overlaying it on the base is folding the log into the base
(`OverlayReplay`), one more record folds one more step (`FoldOneMore`), and a fold
may be cut anywhere (`FoldSplit`). `FoldSplit` is the algebra behind compaction:
merging a prefix and replaying the rest is replaying everything.

**`StableRoot_proofs`, `StableRoot`.** `SourceInv` holds whatever happens: sequence numbers follow
positions, and the source of a compaction stays installed with the cut below its
floor. `NamespaceInv` holds until race 1 or 2 of section 5 has tainted the history:
the disk view and the committed view are the namespace as the callers know it, the
blob mirrors its generation's log (`Mirrors`), an entry that a DELETE may cancel is
the only record of its name over a base that has none (`CancelSafe`, without which a
cancel could uncover an older record), and the staged base with the copied cells is
the source up to the cut (`StagedInv`). Publication is then `FoldSplit`, a parse
`OverlayReplay`. `SequenceContinues` is guarded by the untainted history as the
others are: a stale install has the older number.

**`DemoteRequest_proofs`.** `RequestOwned` alone is not inductive: that somebody
owns the request survives a step only if nobody else thinks so too. `Owners`
therefore says, state by state, that the claimant, the rename, the queued work and
the running callback exclude each other; `Holds` ties the hand-off's target to its
rename and to what is requested; `Carried` says that the worker of a started
hand-off knows a routed branch as a rehome, so that it may not give it up, and that
the branch is gone when the request is released; `Routes` that a root in a rename
stays a root. All but `RequestTyped` speak of histories in which no merge has
re-armed work that had run (`stray`); a merge into a hand-off (`merged`) does not
break them.

**`BlobLifetime_proofs`.** `RefsRight` says that every blob's count is the number of
its holders, that who reads without a reference is covered by a grace period, and
that a parsed blob that is not installed yet is nobody else's; it holds until the
loser of the install race has freed a blob somebody held. `Drained` is about blocks
on disk: the readers of a retired generation are those that the compaction or
demotion which retired it still waits for; a stale install and a reader that
outlives the drain end it. The three events are those of section 5.

**`Journal_proofs`.** `RecoversDurable` says what a replay would give now. It says
nothing of the commit under way, of the copies a running transaction must not spoil,
or of the tail that is about to move, and each can break it later. `JournalIInv` has
one part for each:

- `Tids`, `LogHolds`: the scan stops after the last durable transaction, because the
  cells behind the tail hold what they say and no other cell has a later number. The
  cells of transactions less than `LogSlots` apart are distinct, and moving the tail
  renames no cell (`SlotsApart`, `TailMoves`: arithmetic modulo the length of the log).
- `Kept`: for a durable block, the last copy that no revoke record withdraws
  (`Copies`) is its content, or there is none and the device can have nothing else;
  what is not metadata has no copy. It holds from the tail, and from the tail that a
  commit has computed and not stored.
- `Pinned`: what the device does not have in place has such a copy at or after the
  transaction whose checkpoint list its buffer is on, so a tail that
  `jbd3_journal_get_log_tail` may return does not pass it (`FlushedFrom`).
- `Recorded`, `DataWritten`: before the commit record, the transaction's cell and the
  device have all of what the transaction changed. `CommitRecordHolds`, where the
  transaction becomes durable, rests on these.
- `NoTx`, `InRunning`, `InCommitting`, `Placed`: what the data, the frozen copy and
  the flags of a buffer are, by the transaction and the list it is on.
- `Wants`, `Frees`: how the three contents of `want` may differ, and that a freed
  block is revoked if it was metadata and not handed out before its transaction has
  committed.

`CrashHolds` is a step like the others: a power failure during recovery, or after it,
leaves a state of the same invariant. The number of the last transaction, `MaxTid`, is
a parameter, so the theorem has no bound on the history.

**`Journal_proofs`, FastCommit.** `FsyncedSurvives` looks at the area and the log as
they are on disk now. What keeps it true is where a change that is not there yet is
waited for, and that is different in every phase of a commit. `FcIInv` has

- `FcNumbers`, `FcThreads`: the writing of a full commit and a fast one exclude each
  other, there is one fast one at a time, and what it writes is of the transaction
  after the last committed. `FcHandles`: so is every open handle, so no commit cuts
  one in two, and its inode never gets ahead of its entry.
- `FcLog`, `FcSyncs`: an inode whose `i_sync_tid` has committed is on disk as it is in
  memory; an fsync that returns because that transaction has committed rests on it.
- `FcArea`: what the next fast commit follows is of the running transaction. All else
  in the area is dead by its tid, so a full commit may reset the offset before the
  blocks are written again.
- `FcGood`: what `FsyncedSurvives` says, and that replay finds an inode neither older
  than the last full commit nor newer than memory. Without the last part a recovered
  old copy could hide a later commit.
- `FcQuiet` (`InQuiet`): while no commit is under way, an inode waits in the main
  queue with its newest entry, or is recovered already, or the next commit is a full
  one. `FcFull` (`InFull`): during a full commit it is covered by the commit, or
  changed since and waits in what the clean-up leaves. `FcFast` (`InFast`, `InIo`):
  during a fast one it is as it will be written, or changed since and staged, and then
  what the caller syncs is among what is written or recovered.

`WriteCommitHolds`, where the fast commit reaches the area, needs that one more commit
replaces what it holds and nothing else (`ReplaysMore`); `FullRecordHolds`, that the
area is dead from then on; `FcCrashHolds` goes on from what replay found. An inode
that is in none of these states has escaped, and `windows` has the reason (section 5).

**`Storage_proofs`, BlockAlloc.** `BlocksAccounted` compares sets; who may take a
cluster out of one of them, and where it must go back to, is in descriptors and
contexts. `AllocIInv` says of each stage of an operation what it must have
(`FileSound`); that `pa_count` counts the one file that uses a preallocation and
nobody else works with it (`PaHeld`); that `pa_free` of a file's is the number of its
clusters that no file has, while a locality group's is its length (`PaSize`); and why
a file may have a cluster of a preallocation (`Backs`): it is the file's own, at the
logical block it was reserved for, or it is in the hand of who uses the locality
group's. Without the logical block a second allocation from the same preallocation
could be given a cluster that is mapped. Its last part, that a run in hand at the
mark was taken from that preallocation, was missing at first: `MarkFails` gives
clusters back by `ac_pa`, and would return those of a run that came from none to a
preallocation. The bitmap on disk follows files alone (`BitmapIs`), the bitmap in
memory all owners (`CoreIs`), so a page that nobody holds is generated as it was
(`ReloadHolds`).

**`Conversion_proofs`, Demotion.** `DemStands` says what the demotion holds at each
point: once it has locked, the walk has with a directory each captured child that is
still routed, and while it publishes the root is. `SeesNames` is the property;
`FirstIsNew` that the first record of a file's name inserts what the base has not,
without which taking a record back could uncover the base; `AsCaptured` that what is
locked and validated is as captured, without which a shadow would not serve;
`Branches` that outside the walk a conventional directory has conventional children.
With `Connected`, that every interior lies below the root, the root's publication
finds no interior left: what is conventional is closed under children.

**`Conversion_proofs`, LockOrder.** `NobodyStuck` speaks of the callers that wait now;
what they hold is in their past, which the model does not record. `Good(ren, s, H)`
says it of the future: whoever holds `H` can take the steps `s`, whichever checks
fail, comes to each of them safely (`Safe`) and ends with nothing held. It is the
greatest fixed point, so no bound on programs or callers is needed, and every
program of `Programs` is shown to be good step by step (`MutateGood` to
`PromoteGood`). `Safe` is the order the code keeps, spelled out: directories are
waited for without `i_li_lock`, handle or reference; who has more than one holds the
gate, which is `s_vfs_rename_mutex` where renames run and otherwise
`li_transition_lock`, and goes down the tree with it; a demotion for a promotion
waits for the root while it holds its parent, and nobody who holds the root waits for
the parent. So each wait has a level and whoever is in the way waits at a higher one
(`Rises`): gates, directories without the gate, then with it by depth, handles and
drains, `i_li_lock`. With promotions and renames together there are two gates, which
is race 4; an allocation that starts a handle under `i_li_lock` breaks the order of
the last two. `Good` quantifies over sets of sequences, so TLC did not evaluate
`LockIInv`. Outside the listed runs it checked `Safe` along all 29 programs, and
`NobodyStuck` with three callers.

**`Readers_proofs`, RadixSpline.** `EveryNameCompared` is about every slot and every
window; the builder knows the newest point, two limits and the previous key.
`SplineIInv` says what these tell of the slots. Only the first slot of each run of
equal keys matters to the corridor (`First`), and the rest of the run is what
`maxError` exceeds the corridor by.

- `Passes(down, up, i, above)`: the line from `down` to `up` is at most `corridor`
  below slot `i` and at most `above` over it, as products, without a division.
- `CorridorOpen`: the slope to `upper` is at most, and that to `lower` at least, what
  each slot since the newest point allows. So any line between them passes all of
  these slots. Narrowing keeps that, and the previous key is such a line, because a
  key outside the corridor has made its predecessor a point before it could be one;
  `CorridorIsKept` states that alone.
  Slopes are compared as the code does, by cross products: `SlopesInOrder` is their
  transitivity, and with `ProductsKeepOrder` the only place where products of
  variables are reasoned about.
- `PointsPass`: each finished segment passes its slots, `maxError` above them at most.
  A segment that ends at the first slot of a key keeps `corridor`; the last is forced
  to the last slot, which lies over the first slot of its key by less than a run, and
  takes the rest (`EndPasses`). That is the reason for the run in `Corridor`.
- `RadixRight`: up to the newest point's prefix, the table has for a prefix the number
  of points with a smaller one. So the search between two entries finds the segment
  (`SegmentIs`), provided prefixes are in the order of keys (`PrefixInOrder`).
- A slot gives at most one point, so the array never fills, and `Validate` finds in
  each slot what `InWindow` says. What is left is `SlotCompared`: the slots of a parent
  are an interval of the key order, so cutting the window to them loses no name.

The powers of two in `shift_bits` are positive because they count subsets
(`PowerOfTwo`), which needs no induction. Outside the listed runs TLC
checked `SplineIInv` in the instance of the property.

Only model-checked: liveness (`CompactionEnds`, the races of section 5), which is
beyond the prover; `BuddyIsBitmap`, `HashListing`, `NamesFound`, `TreeMapsFile` and
`ReadsWhatWasWritten`, whose modules reach recursive operators; and the suites'
`WorkersTypeOK` and `StorageTypeOK`: what a proof needs of a machine's types is a
part of its invariant (`FcTyped`, `MergeTyped`), which says more.

## 5. Disagreements with the code's own words

Each is a behaviour TLC shows, listed with the quoted line in `PROJECT.json`.

1. *The final cut* (`dir_stable.c:4929`). Publication compares `used_bytes` and
   `next_seq`. A DELETE that cancels the last copied INSERT and one new record of
   the same size restore both, so a stale copy is published: the cancelled
   INSERT comes back and the new record is lost.
2. *The installed parse* (`dir_stable.c:3495`). A thread that parsed before
   another installed, appended and was evicted installs its older blob; lookups
   miss the record and the next append overwrites it.
3. *The staging gate* (`dir_stable.c:5026`). A compaction that finds its blob
   evicted after it has taken the gate returns without opening it: no compaction,
   demotion or eviction of that root until its inode is dropped.
4. *Promotion against rename* (`promote.c:924`). A promotion write-locks the captured
   directories in walk order and does not hold `s_vfs_rename_mutex`; a rename between
   two siblings locks them in argument order. Each can wait for the other. The
   demotion takes the mutex and says why.
5. *The hand-off that outlives the mount* (`super.c:1530`). An unmount that cancels a
   queued hand-off drops the work's reference, but the root still refers to the
   moved directory and that to the root: neither is evicted.
6. *The directory met twice* (`promote.c:924`). A directory renamed between the
   captures of its old and its new parent is in the walk twice; locking the tree
   waits for the lock the promotion holds itself.
7. *The reservation that resets* (`dir_stable.c:3709`). Between the descriptor's write
   and the second `i_li_lock`, the shrinker drops the blob, a parse finds the pool just
   written and installs it, and a creation below an interior takes its first inode; the
   reservation then sets `used` to 0. The next goal is an inode in use, and a generation
   cut persists that cursor. The bitmap still decides, so no number is given twice:
   goals are wasted on it, and recovery moves past INSERTs of the current log only.

Seen while modelling, and not runs of their own. Each is reached in the module
named, where an operator or a history variable keeps it apart:

- `DemoteRequest.NothingMerged` (`promote.c:2133`): a caller trusts the state its
  `cmpxchg` saw; by the time it merges, a rename may have reserved the request,
  whose branch then becomes the whole root. `QueuedPinsInode` (`promote.c:2143`):
  `delayed_work_pending` and `mod_delayed_work` are two steps, and the work can be
  queued on an inode nothing pins.
- `CompactWorker.Woken` (`dir_stable.c:5284`): a worker that returns without
  compacting leaves its claim behind when the blob was evicted, when it asked for a
  demotion that was given up or was refused because a rename had reserved the root
  (`dir_stable.c:5404`, `promote.c:2129`), or when cancels emptied the delta; appends
  to that generation then wake nobody until they become urgent. The comment at line
  5431 says that "a refill during reclamation must still get a later callback".
- `Demotion.ValidationExact` (`dir_stable.c:6591`): a cancelled record and a new one
  restore `next_seq`, as in race 1.
- `BlobLifetime.HeldBlobLives` and `ReadersDrain` (`dir_stable.c:3495`): the loser of
  the install race frees a blob that the shrinker may have referenced; a stale
  install is read after the punch.
- `StableReaddir` with `Collide`, `LockOrder` with `ReclaimStarts`: two names with all
  hashed bits equal come in two orders (`dir_stable.c:3884`); readdir and a
  demotion allocate with `GFP_KERNEL` under `i_li_lock` (`dir_stable.c:1507`, 6397,
  6432), and if reclaim evicts an inode there, a handle, a commit and that lock wait
  in a circle.
- `FastCommit.windows`: for instance "joined": `fast_commit.c:1217` returns success
  when another fast commit was under way and `s_fc_subtid` has moved, although that
  commit may have begun before the caller's change; the comment at line 1191 says it
  commits `commit_tid`.
- `Orphan.left` (`inode.c:6105`): after a truncation that failed, the inode leaves the
  list in memory and stays on the one on disk.
- `ExtentTree.exposed`, "stale": for a write of the second half, `ext5_split_extent`
  (`extents.c:3369`) tells its first split that the "first half contains valid data"
  (line 46), which holds from `m_lblk` on only; without room for the split, what lies
  before `m_lblk` then counts as written and is neither data nor zeros. The same
  happens when the first split filled zeros and the second fails, and to blocks whose
  write has yet to be submitted. "zeroed": zeros are written over blocks with a write
  in flight, in any order with it.
- `Mmp.races`: two nodes that find the block clean at the same time do not wait and
  both mount, against the comment at `mmp.c:277`; a node goes on after a write of
  the block that failed; and a node that lengthens its interval is outlived by one
  that read the shorter interval before.
- `OpClock`: `promote.c:376` says that observers never see the clock move backwards;
  a reader that overcounts reads less the next time. `ClockWithinBatches` bounds it.
- Ancestor counts (`i_subtree_files`) drift when a stable directory is renamed, when
  renames race, and for `RENAME_WHITEOUT`; they only decide when to promote.

## 6. Not modelled, and why

- The parts of upstream ext4 that the index only calls: page writeback and delayed
  allocation, the extent status tree, mount options,
  resize, quota, encryption, ACLs. They hold most of the lines under `src/src/ext5`.
- Of mutable directories: what 2.23 leaves out, inline directories, a third level,
  checksums. Of block allocation and extents: what 2.20 to 2.22 name as left out; the order in
  which groups are searched, which is a matter of speed, not of correctness.
- Bytes: checksums, block layout, alignment, record lengths, endianness.
- Allocation failures and I/O errors, but where the code keeps state across one
  (a compaction or demotion that fails, a publication that stops half way, an
  append that does not fit, a failed write of the MMP block).
- In `CompactWorker`: the classification of refills that decides between compaction
  and demotion (any outcome is allowed).
- In `Journal`: credits, abort, several blocks per transaction in the log, the log on
  the file system's own device. In `FastCommit`: ranges and block bitmaps.
- The Bloom filter and the sort in front of the spline; `sfs_rs_build`'s upper
  limits on table sizes.
- The decision when to promote or demote (T*, ancestor counts): a free choice in
  `PromotePolicy`.

## 7. Plan

1. Renames between two roots (two `StableRoot` states, two locks, one handle).
2. `RadixSort`: the LSD passes with their skipped digits, against a sorted copy.
3. Under the index: delayed allocation and writeback with its reserved blocks (no
   stale data after a crash).
4. Proof: `BuddyIsBitmap` and `TreeMapsFile`, once their recursive operators are
   functions that TLC evaluates as fast.
