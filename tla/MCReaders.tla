------------------------------ MODULE MCReaders -------------------------------
(* The components around what readers of a stable root see, checked one    *)
(* after the other in one run: they share no variable, and part says which *)
(* of them runs.                                                           *)
EXTENDS BlobLifetime, RadixSpline, StableReaddir, InodePool, PromotePolicy,
        HashTree, TLC

VARIABLE part  \* the component that runs

CONSTANTS n3, n4, n5

(* Three names of one hash, two of them with one minor hash.               *)
Hashed == [n \in Entry |-> CASE n = n4 -> 6 [] n = n5 -> 8 [] OTHER -> 4]
Refined == [n \in Entry |-> IF n = n3 THEN 1 ELSE 0]

(* Blobs, the names that are blobs, and threads are interchangeable.       *)
Symmetry == Permutations(Blob) \cup Permutations(Thread)

(* Cut a behaviour where one of the windows of BlobLifetime has opened or  *)
(* a reservation has reset a cursor, and bound the listings and the parses *)
(* under way that have read different pools.  Names hash in their own      *)
(* order, which loses nothing: the reader only compares.                   *)
Sound == /\ ~freedHeld /\ ~stale /\ ~outlived /\ ~rewound
         /\ Len(got) <= 4 /\ Cardinality(parses) <= 1
         /\ \A m, n \in DirName : m < n => hashOf[m] <= hashOf[n]

Init ==
  /\ part \in {"life", "spline", "readdir", "pool", "policy", "htree"}
  /\ LifeInit
  /\ \/ part = "spline"
     \/ /\ part # "spline"
        /\ keys = [i \in 0..0 |-> 0]
        /\ maxError = 1
        /\ shift = ShiftFor(1)
  /\ SplineInit
  /\ \/ part = "readdir"
     \/ /\ part # "readdir"
        /\ hashOf = [n \in DirName |-> n - 1]
        /\ isRoot = TRUE
        /\ stayed = {}
  /\ ReaddirInit
  /\ \/ part = "pool"
     \/ /\ part # "pool"
        /\ dir = [base |-> {}, inserts |-> {}, desc |-> NoPool,
                    inUse |-> {}, atGoal |-> {}]
  /\ PoolInit
  /\ \/ part = "policy"
     \/ /\ part # "policy"
        /\ manual = 1
  /\ PolicyInit
  /\ HashTreeInit

Next ==
  \/ /\ part = "life"
     /\ LifeNext
     /\ UNCHANGED <<part, splineVars, readdirVars, poolVars, policyVars,
                    hashTreeVars>>
  \/ /\ part = "spline"
     /\ SplineNext
     /\ UNCHANGED <<part, lifeVars, readdirVars, poolVars, policyVars,
                    hashTreeVars>>
  \/ /\ part = "readdir"
     /\ ReaddirNext
     /\ UNCHANGED <<part, lifeVars, splineVars, poolVars, policyVars,
                    hashTreeVars>>
  \/ /\ part = "pool"
     /\ PoolNext
     /\ UNCHANGED <<part, lifeVars, splineVars, readdirVars, policyVars,
                    hashTreeVars>>
  \/ /\ part = "policy"
     /\ PolicyNext
     /\ UNCHANGED <<part, lifeVars, splineVars, readdirVars, poolVars,
                    hashTreeVars>>
  \/ /\ part = "htree"
     /\ HashTreeNext
     /\ UNCHANGED <<part, lifeVars, splineVars, readdirVars, poolVars,
                    policyVars>>

Spec == Init /\ [][Next]_<<part, lifeVars, splineVars, readdirVars, poolVars, policyVars,
                         hashTreeVars>>

===============================================================================
