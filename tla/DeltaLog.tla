------------------------------ MODULE DeltaLog ------------------------------
(***************************************************************************)
(* The data of one index generation: an immutable base and an append-only  *)
(* log of INSERT and DELETE records, and the in-memory tree that caches    *)
(* the log.  Every record occupies one cell of the region, so a byte       *)
(* offset is a cell number; a record that does not fit is the same ENOSPC  *)
(* as a region with too few cells left.                                    *)
(***************************************************************************)
EXTENDS Naturals

CONSTANTS Name,     \* keys (parent_local_id, name)
          Ino,      \* inode numbers
          NoIno,    \* inode number 0
          Region,   \* capacity of a delta region, in cells
          Hole,     \* a cell that reads as zeros
          NoEntry   \* the tree has no node for the name

INSERT == "insert"  \* LIDIR_DELTA_INSERT
DELETE == "delete"  \* LIDIR_DELTA_DELETE
NOP    == "nop"     \* LIDIR_DELTA_NOP

Maps == [Name -> Ino \cup {NoIno}]

(* struct lidir_disk_delta_record *)
Record == [seq : Nat, op : {INSERT, DELETE, NOP}, name : Name,
           ino : Ino \cup {NoIno}]

(* A delta region: a cell holds a record, or zeros that read as NOP.       *)
Logs == [1..Region -> Record \cup {Hole}]

EmptyLog == [i \in 1..Region |-> Hole]

(* struct ext5_stable_delta_entry.  seq and tail are record_seq and        *)
(* tail_cancellable; a replayed entry has neither.                         *)
Entry == [op : {INSERT, DELETE}, ino : Ino \cup {NoIno}, seq : Nat,
          tail : BOOLEAN]

Trees == [Name -> Entry \cup {NoEntry}]

EmptyTree == [n \in Name |-> NoEntry]

ASSUME DeltaLogAssumption == /\ Region \in Nat
                             /\ NoIno \notin Ino
                             /\ Hole \notin Record
                             /\ NoEntry \notin Entry

(* Replay accepts cell i: a known op carrying the next sequence number.    *)
Accepted(log, seqBase, i) == /\ log[i] # Hole
                             /\ log[i].op # NOP
                             /\ log[i].seq = seqBase + i

(* Records replayed before the first NOP, gap or end of the region.        *)
ReplayLength(log, seqBase) ==
  CHOOSE k \in 0..Region :
    /\ \A i \in 1..k : Accepted(log, seqBase, i)
    /\ k < Region => ~Accepted(log, seqBase, k + 1)

(* A record written after the first used cells, and the end marker behind  *)
(* it that stops replay at whatever the region held before.                *)
Write(log, used, rec) ==
  [i \in 1..Region |-> CASE i = used + 1 -> rec
                         [] i = used + 2 -> Hole
                         [] OTHER -> log[i]]

(* ext5_stable_write_delta_nop: the op byte of cell k becomes NOP.         *)
Cancel(log, k) ==
  [i \in 1..Region |-> IF i = k /\ log[i] # Hole
                       THEN [log[i] EXCEPT !.op = NOP] ELSE log[i]]

(* The cells of src from lo + 1 to hi copied to lo + 1 - shift and on, and *)
(* the end marker behind them.                                             *)
CopyCells(dst, src, lo, hi, shift) ==
  [i \in 1..Region |-> CASE i > lo - shift /\ i <= hi - shift -> src[i + shift]
                         [] i = hi - shift + 1 -> Hole
                         [] OTHER -> dst[i]]

(* Some record of the first k cells names n, and the newest that does.     *)
Mentions(log, k, n) == \E i \in 1..k : log[i].name = n

Newest(log, k, n) ==
  CHOOSE i \in 1..k : /\ log[i].name = n
                      /\ \A j \in (i + 1)..k : log[j].name # n

(* The tree replay builds: one entry per name, from its newest record,     *)
(* never with the authority to cancel a tail.                              *)
ReplayTree(log, k) ==
  [n \in Name |->
     IF Mentions(log, k, n)
     THEN LET r == log[Newest(log, k, n)]
          IN  [op |-> r.op, ino |-> r.ino, seq |-> 0, tail |-> FALSE]
     ELSE NoEntry]

(* Binding of a name: the tree overrides the base, a tombstone has ino 0.  *)
Overlay(base, tree) ==
  [n \in Name |-> IF tree[n] = NoEntry THEN base[n] ELSE tree[n].ino]

(* Binding of every name after the first k records of a log over a base.   *)
Fold(base, log, k) ==
  [n \in Name |-> IF Mentions(log, k, n) THEN log[Newest(log, k, n)].ino
                                         ELSE base[n]]
=============================================================================
