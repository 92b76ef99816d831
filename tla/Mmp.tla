---------------------------------- MODULE Mmp ----------------------------------
(* Multiple-mount protection: nodes that share a device take turns through *)
(* one block of it, which a mounted node rewrites and a mounting node      *)
(* watches (mmp.c).                                                        *)
(*                                                                         *)
(* A sequence number is fresh whenever it is written: of 2^32 none comes   *)
(* twice within a wait.  So all that matters of it is whether the block has*)
(* been written since a node last looked.                                  *)
EXTENDS Naturals

CONSTANTS
  Node,        \* nodes that can reach the device
  UpdateEvery, \* s_mmp_update_interval, in ticks
  MinCheck,    \* EXT5_MMP_MIN_CHECK_INTERVAL
  MaxCheck     \* EXT5_MMP_MAX_CHECK_INTERVAL

ASSUME MmpAssumption ==
  /\ {UpdateEvery, MinCheck, MaxCheck} \subseteq Nat \ {0}
  /\ MinCheck <= MaxCheck /\ UpdateEvery <= MaxCheck

VARIABLES
  mmp,   \* the block: SEQ_CLEAN or not, mmp_check_interval
  at,    \* per node, where it is
  same,  \* per node: nobody else wrote the block since it read or wrote it
  since, \* per node, the ticks since it wrote the block or began to wait
  check, \* per node, mmp_check_interval: its own, or the one it waits for
  races  \* windows that have opened

mmpVars == <<mmp, at, same, since, check, races>>

CheckMult == 2
AtLeast(a, b) == IF a > b THEN a ELSE b
AtMost(a, b) == IF a < b THEN a ELSE b
LongestCheck == AtLeast(CheckMult * UpdateEvery, MaxCheck)
Longest == 2 * LongestCheck + 2   \* no timer needs to tell more ticks apart

MmpInit ==
  /\ mmp = [clean |-> TRUE, check |-> 0]
  /\ at = [n \in Node |-> "out"] /\ same = [n \in Node |-> FALSE]
  /\ since = [n \in Node |-> Longest] /\ check = [n \in Node |-> MinCheck]
  /\ races = {}

Move(n, pc) == at' = [at EXCEPT ![n] = pc]
Restart(n) == since' = [since EXCEPT ![n] = 0]

(* write_mmp_block, of what clean and interval say.                        *)
WriteBlock(n, clean, interval) ==
  /\ mmp' = [clean |-> clean, check |-> interval]
  /\ same' = [m \in Node |-> m = n]

-----------------------------------------------------------------------------
(* ext5_multi_mount_protect.  A clean block is taken without a wait.       *)
MountRead(n) ==
  /\ at[n] = "out"
  /\ same' = [same EXCEPT ![n] = TRUE]
  /\ check' = [check EXCEPT ![n] =
                 AtLeast(AtLeast(UpdateEvery, MinCheck), mmp.check)]
  /\ Move(n, IF mmp.clean THEN "claimClean" ELSE "wait") /\ Restart(n)
  /\ UNCHANGED <<mmp, races>>

WaitTime(n) == AtMost(2 * check[n] + 1, check[n] + 60)

(* After the wait the block must be as it was read.                        *)
MountLook(n) ==
  /\ at[n] = "wait" /\ since[n] >= WaitTime(n)
  /\ Move(n, IF same[n] THEN "claim" ELSE "out")
  /\ UNCHANGED <<mmp, same, since, check, races>>

(* A node uses the file system and has shown so within the interval after  *)
(* which it will check.                                                    *)
Active(n) == at[n] = "update" \/ (at[n] = "sleep" /\ since[n] <= check[n])

(* A new sequence number; the rest of the block is as it was read, which   *)
(* may be before its user found that it needs longer intervals.            *)
MountClaim(n) ==
  /\ at[n] \in {"claim", "claimClean"}
  /\ WriteBlock(n, FALSE, check[n])
  /\ races' = races \cup
       (IF at[n] = "claimClean" /\ ~same[n] THEN {"clean"} ELSE {}) \cup
       (IF \E m \in Node \ {n} : /\ Active(m) /\ at[m] = "sleep"
                                 /\ check[m] >= WaitTime(n)
        THEN {"longer"} ELSE {})
  /\ Move(n, IF at[n] = "claim" THEN "confirm" ELSE "confirmClean") /\ Restart(n)
  /\ UNCHANGED check

MountConfirm(n) ==
  /\ \/ at[n] = "confirm" /\ since[n] >= WaitTime(n)
     \/ at[n] = "confirmClean"
  /\ Move(n, IF same[n] THEN "update" ELSE "out")
  /\ check' = [check EXCEPT ![n] = AtLeast(CheckMult * UpdateEvery, MinCheck)]
  /\ UNCHANGED <<mmp, same, since, races>>

(* The mount is interrupted or fails later on.                             *)
MountFails(n) ==
  /\ at[n] \in {"wait", "claim", "claimClean", "confirm", "confirmClean"}
  /\ Move(n, "out")
  /\ UNCHANGED <<mmp, same, since, check, races>>

-----------------------------------------------------------------------------
(* kmmpd: write the block, sleep, look whether that took too long.         *)
Update(n) ==
  /\ at[n] = "update"
  /\ Move(n, "sleep") /\ Restart(n)
  /\ \/ WriteBlock(n, FALSE, check[n]) /\ UNCHANGED races
     \/ races' = races \cup {"unwritten"} /\ UNCHANGED <<mmp, same>>
  /\ UNCHANGED check

(* Mutant: the block is not read again after a long sleep.                 *)
NeverLate(n) == FALSE

Late(n) == since[n] > check[n]

(* When it was late and somebody else wrote the block: "abort".            *)
KmmpdWakes(n) ==
  /\ at[n] = "sleep" /\ since[n] >= UpdateEvery
  /\ IF Late(n) /\ ~same[n] THEN Move(n, "out") /\ UNCHANGED check
     ELSE /\ Move(n, "update")
          /\ check' = [check EXCEPT ![n] =
                         AtLeast(AtMost(CheckMult * since[n], MaxCheck), MinCheck)]
  /\ UNCHANGED <<mmp, same, since, races>>

(* ext5_stop_mmpd, or the loop ends in an emergency state.                 *)
Stop(n) ==
  /\ at[n] = "update"
  /\ \/ WriteBlock(n, TRUE, check[n])
     \/ UNCHANGED <<mmp, same>>
  /\ Move(n, "out")
  /\ UNCHANGED <<since, check, races>>

(* A node dies.                                                            *)
Die(n) ==
  /\ at[n] # "out" /\ Move(n, "out")
  /\ UNCHANGED <<mmp, same, since, check, races>>

(* Time passes.  A mounting node may be held up anywhere, kmmpd in its     *)
(* sleep; from there to its next write it is not.                          *)
Tick ==
  /\ \A n \in Node : at[n] # "update"
  /\ since' = [n \in Node |-> AtMost(since[n] + 1, Longest)]
  /\ UNCHANGED <<mmp, at, same, check, races>>

MmpNext ==
  \/ \E n \in Node : \/ MountRead(n) \/ MountLook(n) \/ MountClaim(n)
                     \/ MountConfirm(n) \/ MountFails(n) \/ Update(n) \/ KmmpdWakes(n)
                     \/ Stop(n) \/ Die(n)
  \/ Tick

MmpSpec == MmpInit /\ [][MmpNext]_mmpVars

-----------------------------------------------------------------------------
MmpTypeOK ==
  /\ mmp \in [clean : BOOLEAN, check : 0..LongestCheck]
  /\ at \in [Node -> {"out", "wait", "claim", "claimClean", "confirm",
                      "confirmClean", "update", "sleep"}]
  /\ same \in [Node -> BOOLEAN] /\ since \in [Node -> 0..Longest]
  /\ check \in [Node -> MinCheck..LongestCheck]

(* However long the waits of mounting nodes and the sleeps of kmmpd last   *)
(* and wherever a node dies, two nodes never both go on with the file      *)
(* system: one that was silent for too long finds out before it writes.    *)
(* This leaves out nodes that found the block clean at the same time,      *)
(* which do not wait, a node that could not write the block, and one whose *)
(* interval grew beyond the wait of a node that had read the shorter one.  *)
OneMounter ==
  races = {} => \A m, n \in Node : Active(m) /\ Active(n) => m = n
================================================================================
