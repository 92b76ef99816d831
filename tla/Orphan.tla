-------------------------------- MODULE Orphan --------------------------------
(* Orphan inodes: unlinked while still in use, or being truncated over     *)
(* several transactions.  They are chained through i_dtime from the        *)
(* superblock, or noted in the orphan file, so that a mount after a crash  *)
(* finds them (orphan.c and its callers in inode.c and namei.c).           *)
(*                                                                         *)
(* An action is what one handle does; a commit makes the metadata durable  *)
(* between two of them.                                                    *)
EXTENDS Naturals, Sequences, SequencesExt

CONSTANTS
  Ino,     \* inodes
  NoIno,   \* the zero that ends the chain
  Dtime,   \* a time of deletion in i_dtime: larger than any inode number
  Slots,   \* entries of the orphan file, 0 without one
  MaxOps   \* bound: operations of the callers

ASSUME OrphanAssumption ==
  /\ IsFiniteSet(Ino) /\ NoIno \notin Ino /\ Dtime \notin Ino \cup {NoIno}
  /\ Slots \in Nat /\ MaxOps \in Nat

VARIABLES
  meta,  \* the metadata in memory: s_last_orphan, the orphan file, and per inode
         \* its bit in the bitmap, i_nlink, NEXT_ORPHAN, blocks beyond i_size
  durable,  \* the same, as of the last commit
  list,  \* s_orphan: the inodes on the list in memory
  infile, \* inodes in state EXT5_STATE_ORPHAN_FILE
  doing, \* per inode: nothing, truncating, evicting
  todo,  \* the mount: scanning the list, the slots of the file still to do
  left,  \* an inode left the list in memory only
  ops    \* operations so far

orphanVars == <<meta, durable, list, infile, doing, todo, left, ops>>

Slot == 1..Slots
Fresh0 == [last |-> NoIno, file |-> [s \in Slot |-> NoIno],
           used |-> [i \in Ino |-> FALSE], nlink |-> [i \in Ino |-> 0],
           next |-> [i \in Ino |-> NoIno], excess |-> [i \in Ino |-> FALSE]]

OrphanInit ==
  /\ meta = Fresh0 /\ durable = meta
  /\ list = <<>> /\ infile = {} /\ doing = [i \in Ino |-> "none"]
  /\ todo = [pc |-> "mounted", slots |-> {}]
  /\ left = FALSE /\ ops = 0

Mounted == todo.pc = "mounted"
IsOrphan(i) == i \in infile \/ Contains(list, i)

-----------------------------------------------------------------------------
(* ext5_orphan_add on metadata m: a free entry of the orphan file, else    *)
(* the head of the list; an inode whose i_dtime names an inode is taken    *)
(* for one that is on the disk's list already.                             *)
FreeSlots(m) == {s \in Slot : m.file[s] = NoIno}
Head2(m, i) ==
  IF m.next[i] \in Ino THEN m ELSE [m EXCEPT !.next[i] = m.last, !.last = i]

(* Mutant: the new head forgets the rest of the chain.                     *)
Unchained(m, i) == [m EXCEPT !.last = i]

Chained(m, i) == Head2(m, i)

OrphanAdd(m, i) ==
  IF IsOrphan(i) THEN meta' = m /\ UNCHANGED <<list, infile>>
  ELSE IF FreeSlots(m) # {}
       THEN /\ \E s \in FreeSlots(m) : meta' = [m EXCEPT !.file[s] = i]
            /\ infile' = infile \cup {i}
            /\ UNCHANGED list
       ELSE /\ meta' = Chained(m, i)
            /\ list' = <<i>> \o list
            /\ UNCHANGED infile

(* ext5_orphan_del with a handle: unlink it from what comes before it.     *)
Position(i) == CHOOSE n \in DOMAIN list : list[n] = i
Before(i) == list[Position(i) - 1]
Unlinked(m, i) ==
  IF i \in infile
  THEN [m EXCEPT !.file = [s \in Slot |-> IF m.file[s] = i THEN NoIno ELSE m.file[s]]]
  ELSE IF ~Contains(list, i) THEN m
  ELSE IF list[1] = i THEN [m EXCEPT !.last = m.next[i], !.next[i] = NoIno]
  ELSE [m EXCEPT !.next = [m.next EXCEPT ![Before(i)] = m.next[i], ![i] = NoIno]]
DropOrphan(i) ==
  /\ list' = IF Contains(list, i) THEN RemoveAt(list, Position(i)) ELSE list
  /\ infile' = infile \ {i}

Op == ops < MaxOps /\ ops' = ops + 1
Quiet(i) == Mounted /\ doing[i] = "none"

-----------------------------------------------------------------------------
(* A new file, with a name or (ext5_tmpfile) without.                      *)
Create(i) ==
  /\ Mounted /\ doing[i] = "none" /\ ~meta.used[i] /\ ~IsOrphan(i) /\ Op
  /\ LET made == [meta EXCEPT !.used[i] = TRUE, !.next[i] = NoIno]
     IN  \/ meta' = [made EXCEPT !.nlink[i] = 1] /\ UNCHANGED <<list, infile>>
         \/ OrphanAdd([made EXCEPT !.nlink[i] = 0], i)
  /\ UNCHANGED <<durable, doing, todo, left>>

(* ext5_link gives a tmpfile its first name.                               *)
Link(i) ==
  /\ Quiet(i) /\ meta.used[i] /\ meta.nlink[i] = 0 /\ Op
  /\ meta' = Unlinked([meta EXCEPT !.nlink[i] = 1], i) /\ DropOrphan(i)
  /\ UNCHANGED <<durable, doing, todo, left>>

(* __ext5_unlink.                                                          *)
Unlink(i) ==
  /\ Quiet(i) /\ meta.used[i] /\ meta.nlink[i] = 1 /\ Op
  /\ OrphanAdd([meta EXCEPT !.nlink[i] = 0], i)
  /\ UNCHANGED <<durable, doing, todo, left>>

(* ext5_setattr makes the file smaller ...                                 *)
Shrink(i) ==
  /\ Quiet(i) /\ meta.used[i] /\ meta.nlink[i] = 1 /\ Op
  /\ OrphanAdd([meta EXCEPT !.excess[i] = TRUE], i)
  /\ doing' = [doing EXCEPT ![i] = "truncate"]
  /\ UNCHANGED <<durable, todo, left>>

(* ... and ext5_truncate frees its blocks, in one transaction or more, and *)
(* takes a file that stays off the list.                                   *)
Truncate(i) ==
  /\ doing[i] = "truncate"
  /\ meta' = Unlinked([meta EXCEPT !.excess[i] = FALSE], i) /\ DropOrphan(i)
  /\ doing' = [doing EXCEPT ![i] = "none"]
  /\ UNCHANGED <<durable, todo, left, ops>>

(* It cannot start a handle: ext5_orphan_del(NULL, inode).                 *)
TruncateFails(i) ==
  /\ doing[i] = "truncate" /\ Mounted
  /\ DropOrphan(i)
  /\ doing' = [doing EXCEPT ![i] = "none"]
  /\ left' = TRUE
  /\ UNCHANGED <<meta, durable, todo, ops>>

(* ext5_evict_inode of an inode without names or users: i_size becomes 0,  *)
(* its blocks go, over several transactions; in the last one the inode     *)
(* leaves the list, gets its time of deletion and is freed.                *)
EvictBegin(i) ==
  /\ Quiet(i) /\ meta.used[i] /\ meta.nlink[i] = 0
  /\ OrphanAdd([meta EXCEPT !.excess[i] = TRUE], i)
  /\ doing' = [doing EXCEPT ![i] = "evict"]
  /\ UNCHANGED <<durable, todo, left, ops>>

EvictEnd(i) ==
  /\ doing[i] = "evict"
  /\ LET gone == [meta EXCEPT !.excess[i] = FALSE, !.used[i] = FALSE]
     IN  meta' = [Unlinked(gone, i) EXCEPT !.next[i] = Dtime]
  /\ DropOrphan(i)
  /\ doing' = [doing EXCEPT ![i] = "none"]
  /\ UNCHANGED <<durable, todo, left, ops>>

MakeDurable ==
  /\ durable # meta
  /\ durable' = meta
  /\ UNCHANGED <<meta, list, infile, doing, todo, left, ops>>

-----------------------------------------------------------------------------
OrphanCrash ==
  /\ Op
  /\ meta' = durable
  /\ list' = <<>> /\ infile' = {} /\ doing' = [i \in Ino |-> "none"]
  /\ todo' = [pc |-> "list", slots |-> Slot]
  /\ UNCHANGED <<durable, left>>

(* ext5_orphan_cleanup: the head of the list, as long as there is one.     *)
Busy == \E i \in Ino : doing[i] # "none"
Process(i) ==
  doing' = [doing EXCEPT ![i] = IF meta.nlink[i] = 0 THEN "evict" ELSE "truncate"]

CleanHead ==
  LET i == meta.last
  IN  /\ todo.pc = "list" /\ ~Busy
      /\ IF i \in Ino /\ meta.used[i]
         THEN /\ list' = <<i>> \o list /\ Process(i)
              /\ UNCHANGED <<meta, todo>>
         ELSE /\ meta' = [meta EXCEPT !.last = NoIno]
              /\ todo' = [todo EXCEPT !.pc = "file"]
              /\ UNCHANGED <<list, doing>>
      /\ UNCHANGED <<durable, infile, left, ops>>

CleanSlot(s) ==
  LET i == meta.file[s]
  IN  /\ todo.pc = "file" /\ ~Busy /\ s \in todo.slots
      /\ todo' = [todo EXCEPT !.slots = @ \ {s}]
      /\ IF i # NoIno /\ meta.used[i] THEN infile' = infile \cup {i} /\ Process(i)
         ELSE UNCHANGED <<infile, doing>>
      /\ UNCHANGED <<meta, durable, list, left, ops>>

CleanDone ==
  /\ todo = [pc |-> "file", slots |-> {}] /\ ~Busy
  /\ todo' = [todo EXCEPT !.pc = "mounted"]
  /\ UNCHANGED <<meta, durable, list, infile, doing, left, ops>>

OrphanNext ==
  \/ \E i \in Ino : \/ Create(i) \/ Link(i) \/ Unlink(i) \/ Shrink(i) \/ Truncate(i)
                    \/ TruncateFails(i) \/ EvictBegin(i) \/ EvictEnd(i)
  \/ MakeDurable \/ OrphanCrash \/ CleanHead \/ CleanDone
  \/ \E s \in Slot : CleanSlot(s)

OrphanSpec == OrphanInit /\ [][OrphanNext]_orphanVars

-----------------------------------------------------------------------------
Metadata ==
  [last : Ino \cup {NoIno}, file : [Slot -> Ino \cup {NoIno}],
   used : [Ino -> BOOLEAN], nlink : [Ino -> {0, 1}],
   next : [Ino -> Ino \cup {NoIno, Dtime}], excess : [Ino -> BOOLEAN]]

OrphanTypeOK ==
  /\ {meta, durable} \subseteq Metadata
  /\ list \in Seq(Ino) /\ infile \subseteq Ino
  /\ doing \in [Ino -> {"none", "truncate", "evict"}]
  /\ todo \in [pc : {"list", "file", "mounted"}, slots : SUBSET Slot]

(* The chain a mount would walk, and the inodes the file would tell it.    *)
Nth(q, k) == IF k \in DOMAIN q THEN q[k] ELSE NoIno
IsChain(m, q) ==
  m.last = Nth(q, 1) /\ \A k \in DOMAIN q : m.next[q[k]] = Nth(q, k + 1)
Lists == UNION {Injection(1..n, Ino) : n \in 0..Cardinality(Ino)}
Noted(m) == {m.file[s] : s \in Slot} \ {NoIno}

(* Power may fail at any moment: in what was committed, the chain ends, is *)
(* made of allocated inodes, none of them twice or in the file too, and    *)
(* with the file it holds every inode without a name and every one with    *)
(* blocks beyond its end: none is lost, none is freed twice.               *)
OrphansFound ==
  ~left =>
    \E chain \in Lists :
      /\ IsChain(durable, chain)
      /\ Range(chain) \cap Noted(durable) = {}
      /\ \A i \in Range(chain) \cup Noted(durable) : durable.used[i]
      /\ \A i \in Ino : durable.used[i] /\ (durable.nlink[i] = 0 \/ durable.excess[i])
                          => i \in Range(chain) \cup Noted(durable)
===============================================================================
