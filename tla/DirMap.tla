------------------------------- MODULE DirMap -------------------------------
(***************************************************************************)
(* What one stable directory subtree promises its callers: a finite map    *)
(* from names to inode numbers, changed by whole namespace operations and  *)
(* cut back to its last committed value by a crash.  A name here stands    *)
(* for the pair (parent PLID, file name) that keys every record.           *)
(***************************************************************************)
CONSTANTS Name,    \* keys (parent_local_id, name) of the subtree
          Ino,     \* inode numbers
          NoIno    \* the inode number 0: name absent

VARIABLES map,     \* the binding of every name
          durable  \* the binding the journal has committed

vars == <<map, durable>>

Maps == [Name -> Ino \cup {NoIno}]

Init == /\ map \in Maps
        /\ durable = map

(* ext5_create, ext5_mkdir, ext5_symlink, ext5_link: the VFS has found no  *)
(* binding for the name.                                                   *)
Create(n, i) == /\ map[n] = NoIno
                /\ map' = [map EXCEPT ![n] = i]
                /\ UNCHANGED durable

(* ext5_unlink, ext5_rmdir *)
Unlink(n) == /\ map[n] # NoIno
             /\ map' = [map EXCEPT ![n] = NoIno]
             /\ UNCHANGED durable

(* ext5_rename within the subtree: one atomic change of two bindings.      *)
Rename(o, n) == /\ o # n
                /\ map[o] # NoIno
                /\ map' = [map EXCEPT ![n] = map[o], ![o] = NoIno]
                /\ UNCHANGED durable

Commit == /\ durable' = map
          /\ UNCHANGED map

Crash == /\ map' = durable
         /\ UNCHANGED durable

Next == \/ \E n \in Name, i \in Ino : Create(n, i)
        \/ \E n \in Name : Unlink(n)
        \/ \E o, n \in Name : Rename(o, n)
        \/ Commit
        \/ Crash

Spec == Init /\ [][Next]_vars
=============================================================================
