---------------------------- MODULE MCStableRoot ----------------------------
(* Instances of StableRoot for TLC.                                        *)
EXTENDS StableRoot, TLC

(* Names, inode numbers and threads are interchangeable.                   *)
Symmetry == Permutations(Name) \cup Permutations(Thread) \cup Permutations(Ino)

(* Cut a behaviour where a race has fired: every property but TypeOK only  *)
(* speaks of what precedes it.                                             *)
UntilRace == ~tainted
=============================================================================
