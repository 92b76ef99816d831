------------------------------- MODULE MCRoot -------------------------------
(* A stable root and its demotion request, checked one after the other in  *)
(* one run: they share no variable, and part says which of them runs.      *)
EXTENDS StableRoot, DemoteRequest, TLC

VARIABLE part  \* the component that runs

(* Names, inode numbers, threads and branches are interchangeable.         *)
Symmetry == Permutations(Name) \cup Permutations(Thread) \cup Permutations(Ino)
            \cup Permutations(Plid)

(* Cut a behaviour of the root where a race has fired: every property but  *)
(* TypeOK only speaks of what precedes it.                                 *)
UntilRace == ~tainted

RootsInit ==
  /\ \/ part = "root"
     \/ part = "request" /\ ns = [n \in Name |-> NoIno]
  /\ Init
  /\ RequestInit

RootsNext ==
  \/ part = "root" /\ Next /\ UNCHANGED <<part, requestVars>>
  \/ part = "request" /\ RequestNext /\ UNCHANGED <<part, vars>>

RootsSpec == RootsInit /\ [][RootsNext]_<<part, vars, requestVars>>
=============================================================================
