---------------------------- MODULE MCLockOrder ----------------------------
(* An instance of LockOrder for TLC.                                       *)
EXTENDS LockOrder, TLC

(* Callers are interchangeable.                                            *)
Symmetry == Permutations(Caller)

(* A promotion and a rename at the same time.                              *)
MixedSets == {{"promote", "rename"}}
=============================================================================
