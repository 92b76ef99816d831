---------------------------- MODULE Readers_proofs ----------------------------
(* Proofs about the inode pool: the cursor that ext5_stable_alloc_name and *)
(* the parse keep covers every pool inode in use (InodePool); and about the*)
(* policy that promotes quiet directories (PromotePolicy); and about a      *)
(* listing of a directory by several getdents calls (StableReaddir); and    *)
(* about the learned index: a lookup compares every name that has its key   *)
(* (RadixSpline).                                                           *)
EXTENDS InodePool, PromotePolicy, StableReaddir, RadixSpline, TLAPS,
        FiniteSetTheorems, WellFoundedInduction

(* A strict order on the naturals is well founded; the relation is hidden  *)
(* behind a name, so that its users need not expand it.                    *)
LEMMA NatOrder ==
  \E R : /\ IsWellFoundedOn(R, Nat)
         /\ \A x, y \in Nat : x < y => <<x, y>> \in R
<1>1. \A x, y \in Nat : x < y => <<x, y>> \in OpToRel(<, Nat)
  BY DEF OpToRel
<1> QED
  BY <1>1, NatLessThanWellFounded

LEMMA MinIsLeast ==
  ASSUME NEW S \in SUBSET Nat, S # {}
  PROVE  Min(S) \in S /\ \A y \in S : Min(S) <= y
<1>1. PICK R : /\ IsWellFoundedOn(R, Nat)
               /\ \A x, y \in Nat : x < y => <<x, y>> \in R
  BY NatOrder
<1>2. S \subseteq Nat /\ IsWellFoundedOn(R, Nat)
  BY <1>1
<1>3. \E x \in S : \A y \in S : ~ (<<y, x>> \in R)
  BY ONLY <1>2, S # {}, WFMin, Zenon
<1>4. PICK x \in S : \A y \in S : ~ (<<y, x>> \in R)
  BY <1>3
<1>5. \A y \in S : ~ (y < x)
  BY <1>1, <1>2, <1>4, Zenon
<1>6. \A y \in S : x <= y
  BY <1>5
<1> QED
  BY <1>6 DEF Min

LEMMA MaxIsGreatest ==
  ASSUME NEW S \in SUBSET Nat, S # {}, NEW N \in Nat, \A x \in S : x <= N
  PROVE  Max(S) \in S /\ \A y \in S : y <= Max(S)
<1> DEFINE T == {N - x : x \in S}
<1>1. T \in SUBSET Nat /\ T # {}
  <2>1. \A x \in S : N - x \in Nat
    OBVIOUS
  <2> QED
    BY <2>1
<1>2. PICK t \in T : \A u \in T : t <= u
  BY <1>1, MinIsLeast
<1>3. PICK x \in S : t = N - x
  OBVIOUS
<1>4. \A y \in S : N - x <= N - y
  BY <1>2, <1>3
<1>5. \E z \in S : \A y \in S : z >= y
  <2>1. \A y \in S : x >= y
    BY <1>4
  <2> QED
    BY <2>1
<1>6. Max(S) \in S /\ \A y \in S : Max(S) >= y
  BY <1>5 DEF Max
<1> QED
  BY <1>6

-----------------------------------------------------------------------------
(* The cursor p has gone past every inode of S that lies in p's run.       *)
Past(p, S) == \A i \in S : InPool(i, p) => i < p.start + p.used

(* What the root holds on disk is enough to bring the cursor back: a name  *)
(* that has no INSERT record is covered by the descriptor.                 *)
Fits(p) == p.count > 0 => p.start + p.count <= MaxInode + 1

Recoverable(d) ==
  /\ d.atGoal \subseteq d.base \cup d.inserts
  /\ d.base \cup d.inserts \subseteq d.inUse
  /\ Past(d.desc, d.atGoal \ d.inserts)

GoalTaken ==
  goal > 0 => pool.count > 0 /\ (InPool(goal, pool) => goal < pool.start + pool.used)

(* The inodes a reservation under way has chosen: those in use since have  *)
(* an INSERT record, and none is when the cursor has not moved.            *)
Chosen(i) == InPool(i, Reserved)

ReserveSafe ==
  reserve.pc # "idle" =>
    /\ \A i \in dir.atGoal : Chosen(i) => i \in dir.inserts
    /\ pool.count = 0 \/ pool.used = 0 =>
         goal = 0 /\ \A i \in dir.atGoal : ~Chosen(i)

(* What a parse under way has read may still become the pool while there   *)
(* is none; the inodes in use have not changed since.                      *)
ParsesCover == pool.count = 0 => \A p \in parses : Past(p, dir.atGoal)

AllFit ==
  /\ Fits(pool) /\ Fits(dir.desc) /\ Fits(durable.desc)
  /\ \A p \in parses : Fits(p)
  /\ reserve.pc # "idle" => Fits(Reserved)

Covered ==
  /\ Recoverable(dir) /\ Recoverable(durable)
  /\ Past(pool, dir.atGoal) /\ GoalTaken /\ ReserveSafe /\ ParsesCover

PoolIInv == PoolTypeOK /\ AllFit /\ (~rewound => Covered)

LEMMA NoPoolCovers ==
  NoPool \in PoolState /\ Fits(NoPool) /\ \A S \in SUBSET Nat : Past(NoPool, S)
<1>1. NoPool \in PoolState
  BY PoolAssumption DEF NoPool, PoolState
<1>2. \A i \in Nat : ~InPool(i, NoPool)
  BY DEF InPool, NoPool
<1> QED
  BY <1>1, <1>2 DEF Past, Fits, NoPool

(* A parse brings the cursor past whatever the descriptor covers or an     *)
(* INSERT record names.                                                    *)
LEMMA ParseRecovers ==
  ASSUME dir \in DirState, Fits(dir.desc)
  PROVE  /\ Recovered \in PoolState /\ Fits(Recovered)
         /\ Recoverable(dir) => Past(Recovered, dir.atGoal)
<1> DEFINE p == dir.desc
           past == {i - p.start + 1 : i \in {j \in dir.inserts : InPool(j, p)}}
           S == past \cup {p.used}
<1>1. /\ p \in PoolState /\ dir.atGoal \subseteq PoolInodes
      /\ dir.inserts \subseteq PoolInodes /\ dir.base \subseteq PoolInodes
  BY DEF DirState
<1>f. Fits(p)
  OBVIOUS
<1>2. /\ p.start \in Nat /\ p.count \in Nat /\ p.used \in Nat
      /\ p.used <= PoolCount /\ p.count \in {0, PoolCount}
  BY <1>1, PoolAssumption DEF PoolState
<1>3. CASE p.count > 0 /\ p.used < p.count
  <2>1. S \in SUBSET Nat /\ S # {} /\ \A x \in S : x <= PoolCount
    BY <1>1, <1>2, <1>3, PoolAssumption DEF InPool, PoolInodes
  <2>2. Max(S) \in S /\ \A y \in S : y <= Max(S)
    <3>1. PoolCount \in Nat
      BY PoolAssumption
    <3> QED
      BY <2>1, <3>1, MaxIsGreatest
  <2> DEFINE m == Max(S)
  <2>3. Recovered = [p EXCEPT !.used = m]
    BY <1>3 DEF Recovered
  <2>4. m \in 0..PoolCount
    BY <2>1, <2>2
  <2>5. \A i \in dir.inserts : InPool(i, p) => i - p.start + 1 <= m
    BY <2>2
  <2>6. p.used <= m
    BY <2>2
  <2> HIDE DEF m, S, p
  <2>7. /\ Recovered \in PoolState /\ Recovered.start = p.start
        /\ Recovered.count = p.count /\ Recovered.used = m
    BY <1>1, <2>3, <2>4 DEF PoolState
  <2>8. ASSUME Recoverable(dir), NEW i \in dir.atGoal, InPool(i, p)
        PROVE  i < p.start + m
    <3>1. i \in Nat
      BY <1>1, PoolAssumption DEF PoolInodes
    <3>2. CASE i \in dir.inserts
      BY <1>2, <2>4, <2>5, <2>8, <3>1, <3>2, PoolAssumption
    <3>3. CASE i \notin dir.inserts
      <4>1. i < p.start + p.used
        BY <2>8, <3>3 DEF Recoverable, Past, p
      <4> QED
        BY <1>2, <2>4, <2>6, <3>1, <4>1, PoolAssumption
    <3> QED
      BY <3>2, <3>3
  <2> QED
    BY <1>f, <2>7, <2>8 DEF Past, InPool, Fits
<1>4. CASE ~(p.count > 0 /\ p.used < p.count)
  <2>1. Recovered = p
    BY <1>4 DEF Recovered
  <2>2. \A i : InPool(i, p) => i < p.start + p.used \/ p.count = 0
    BY <1>2, <1>4, PoolAssumption DEF InPool
  <2>3. ASSUME NEW i \in dir.atGoal, InPool(i, p) PROVE i < p.start + p.used
    <3>1. i \in Nat
      BY <1>1, PoolAssumption DEF PoolInodes
    <3> QED
      BY <1>2, <1>4, <2>3, <3>1, PoolAssumption DEF InPool
  <2> QED
    BY <1>1, <1>f, <2>1, <2>3 DEF Past
<1> QED
  BY <1>3, <1>4

LEMMA PoolInitIInv == PoolInit => PoolIInv
<1> SUFFICES ASSUME PoolInit PROVE PoolIInv
  OBVIOUS
<1>1. PICK used \in SUBSET ({1, 2} \cap PoolInodes) :
        dir = [base |-> {}, inserts |-> {}, desc |-> NoPool, inUse |-> used,
               atGoal |-> {}]
  BY DEF PoolInit
<1>3. /\ durable = dir /\ pool = NoPool /\ goal = 0 /\ loaded = FALSE
      /\ poolOps = 0 /\ parses = {} /\ reserve = NoReserve /\ rewound = FALSE
  BY DEF PoolInit
<1>4. 0 \in 0..MaxInode /\ 0 \in 0..MaxOps
  BY PoolAssumption
<1>5. dir \in DirState /\ Fits(dir.desc) /\ Fits(pool) /\ pool \in PoolState
  BY <1>1, <1>3, NoPoolCovers DEF DirState
<1>6. reserve \in [pc : {"idle", "persist", "set"}, start : 0..MaxInode]
  BY <1>3, <1>4 DEF NoReserve
<1>7. PoolTypeOK
  BY <1>3, <1>4, <1>5, <1>6 DEF PoolTypeOK
<1>8. AllFit
  BY <1>3, <1>5 DEF AllFit, NoReserve
<1>9. Recoverable(dir) /\ Past(pool, dir.atGoal)
  BY <1>1 DEF Recoverable, Past
<1>10. GoalTaken /\ ReserveSafe /\ ParsesCover
  BY <1>3 DEF GoalTaken, ReserveSafe, ParsesCover, NoReserve
<1> QED
  BY <1>3, <1>7, <1>8, <1>9, <1>10 DEF PoolIInv, Covered

-----------------------------------------------------------------------------
(* Each step: the types and the bounds hold in any case, the rest as long  *)
(* as no cursor has been reset.                                            *)
LEMMA PoolStep ==
  ASSUME PoolIInv, [PoolNext]_poolVars
  PROVE  PoolIInv'
<1> USE PoolAssumption
<1>0. PoolTypeOK /\ AllFit
  BY DEF PoolIInv
<1>g. ASSUME ~rewound
      PROVE  /\ Recoverable(dir) /\ Recoverable(durable)
             /\ Past(pool, dir.atGoal)
             /\ goal > 0 => /\ pool.count > 0
                            /\ InPool(goal, pool) => goal < pool.start + pool.used
             /\ reserve.pc # "idle" =>
                  \A i \in dir.atGoal : Chosen(i) => i \in dir.inserts
             /\ reserve.pc # "idle" /\ (pool.count = 0 \/ pool.used = 0) =>
                  goal = 0 /\ \A i \in dir.atGoal : ~Chosen(i)
             /\ pool.count = 0 => \A p \in parses : Past(p, dir.atGoal)
  BY <1>g DEF PoolIInv, Covered, GoalTaken, ReserveSafe, ParsesCover
<1>a. /\ pool \in PoolState /\ loaded \in BOOLEAN /\ dir \in DirState
      /\ durable \in DirState /\ goal \in 0..MaxInode /\ poolOps \in 0..MaxOps
      /\ parses \subseteq PoolState /\ rewound \in BOOLEAN
      /\ reserve \in [pc : {"idle", "persist", "set"}, start : 0..MaxInode]
  BY <1>0 DEF PoolTypeOK
<1>f. /\ Fits(pool) /\ Fits(dir.desc) /\ Fits(durable.desc)
      /\ \A p \in parses : Fits(p)
      /\ reserve.pc # "idle" => Fits(Reserved)
  BY <1>0 DEF AllFit
<1>b. /\ dir.base \subseteq PoolInodes /\ dir.inserts \subseteq PoolInodes
      /\ dir.atGoal \subseteq PoolInodes /\ dir.inUse \subseteq PoolInodes
      /\ dir.desc \in PoolState
  BY <1>a DEF DirState
<1>c. /\ pool.start \in Nat /\ pool.count \in {0, PoolCount} /\ pool.used \in Nat
      /\ pool.used <= PoolCount /\ pool.start <= MaxInode
  BY <1>a DEF PoolState
<1>n. PoolInodes \in SUBSET Nat
  BY DEF PoolInodes
<1>r. Reserved \in PoolState
  BY <1>a DEF Reserved, PoolState
<1>i. NoReserve \in [pc : {"idle", "persist", "set"}, start : 0..MaxInode]
      /\ NoReserve.pc = "idle"
  BY DEF NoReserve
<1>1. CASE ParseBlob
  <2>1. /\ UNCHANGED <<pool, loaded, reserve, dir, durable, goal, rewound, poolOps>>
        /\ parses' = parses \cup {Recovered}
    BY <1>1 DEF ParseBlob
  <2>2. /\ Recovered \in PoolState /\ Fits(Recovered)
        /\ Recoverable(dir) => Past(Recovered, dir.atGoal)
    BY <1>a, <1>f, ParseRecovers
  <2>3. PoolTypeOK'
    BY <1>a, <2>1, <2>2 DEF PoolTypeOK
  <2>4. AllFit'
    BY <1>f, <2>1, <2>2 DEF AllFit, Reserved
  <2>5. ASSUME ~rewound' PROVE Covered'
    BY <1>g, <2>1, <2>2, <2>5
       DEF Covered, GoalTaken, ReserveSafe, ParsesCover, Chosen, Reserved
  <2> QED
    BY <2>3, <2>4, <2>5 DEF PoolIInv
<1>2. ASSUME NEW p \in PoolState, EnsurePool(p) PROVE PoolIInv'
  <2>1. /\ UNCHANGED <<reserve, dir, durable, goal, rewound, poolOps>>
        /\ p \in parses /\ parses' \subseteq parses /\ loaded' \in BOOLEAN
        /\ pool' = pool \/ (pool.count = 0 /\ pool' = p)
    <3>1. /\ UNCHANGED <<reserve, dir, durable, goal, rewound, poolOps>>
          /\ p \in parses /\ parses' \in {parses, parses \ {p}} /\ loaded' = TRUE
      BY <1>2 DEF EnsurePool
    <3>2. loaded' \in BOOLEAN
      BY <3>1
    <3>3. parses' \subseteq parses
      BY <3>1
    <3>4. pool' = pool \/ (pool.count = 0 /\ pool' = p)
      BY <1>2 DEF EnsurePool
    <3> QED
      BY <3>1, <3>2, <3>3, <3>4
  <2>2. PoolTypeOK'
    BY <1>a, <2>1 DEF PoolTypeOK
  <2>3. AllFit'
    BY <1>f, <2>1 DEF AllFit, Reserved
  <2>4. ASSUME ~rewound' PROVE Covered'
    <3>1. CASE pool' = pool
      BY <1>g, <2>1, <2>4, <3>1
         DEF Covered, GoalTaken, ReserveSafe, ParsesCover, Chosen, Reserved
    <3>2. CASE pool.count = 0 /\ pool' = p
      <4>1. goal = 0 /\ Past(p, dir.atGoal)
        BY <1>a, <1>g, <2>1, <2>4, <3>2
      <4>2. ParsesCover' /\ Past(pool', dir'.atGoal)
        BY <1>g, <2>1, <2>4, <3>2, <4>1 DEF ParsesCover
      <4>3. ReserveSafe'
        BY <1>g, <2>1, <2>4, <3>2 DEF ReserveSafe, Chosen, Reserved
      <4> QED
        BY <1>g, <2>1, <2>4, <4>1, <4>2, <4>3 DEF Covered, GoalTaken
    <3> QED
      BY <2>1, <3>1, <3>2
  <2> QED
    BY <2>2, <2>3, <2>4 DEF PoolIInv
<1>3. CASE ShrinkBlob
  <2>1. /\ UNCHANGED <<pool, parses, reserve, dir, durable, goal, rewound, poolOps>>
        /\ loaded' = FALSE
    BY <1>3 DEF ShrinkBlob
  <2>2. PoolTypeOK' /\ AllFit'
    BY <1>a, <1>f, <2>1 DEF PoolTypeOK, AllFit, Reserved
  <2>3. ASSUME ~rewound' PROVE Covered'
    BY <1>g, <2>1, <2>3
       DEF Covered, GoalTaken, ReserveSafe, ParsesCover, Chosen, Reserved
  <2> QED
    BY <2>2, <2>3 DEF PoolIInv
<1>4. CASE EvictRoot
  <2>1. /\ UNCHANGED <<parses, reserve, dir, durable, goal, rewound, poolOps>>
        /\ goal = 0 /\ parses = {} /\ reserve.pc = "idle"
        /\ loaded' = FALSE /\ pool' = NoPool
    BY <1>4 DEF EvictRoot
  <2>2. Past(NoPool, dir.atGoal) /\ NoPool \in PoolState /\ Fits(NoPool)
    BY <1>b, <1>n, NoPoolCovers
  <2>3. PoolTypeOK'
    BY <1>a, <2>1, <2>2 DEF PoolTypeOK
  <2>4. AllFit'
    BY <1>f, <2>1, <2>2 DEF AllFit
  <2>5. ASSUME ~rewound' PROVE Covered'
    BY <1>g, <2>1, <2>2, <2>5 DEF Covered, GoalTaken, ReserveSafe, ParsesCover
  <2> QED
    BY <2>3, <2>4, <2>5 DEF PoolIInv
<1>5. CASE ReserveChecks
  <2>1. /\ FreeRuns # {} /\ reserve' = [pc |-> "persist", start |-> Min(FreeRuns)]
        /\ UNCHANGED <<pool, loaded, parses, dir, durable, goal, rewound>>
        /\ pool.count = 0
        /\ poolOps < MaxOps /\ poolOps' = poolOps + 1
    BY <1>5 DEF ReserveChecks, CountPoolOp
  <2>2. FreeRuns \in SUBSET Nat
    BY DEF FreeRuns, PoolInodes
  <2>3. Min(FreeRuns) \in FreeRuns
    BY <2>1, <2>2, MinIsLeast
  <2> DEFINE s == Min(FreeRuns)
  <2> HIDE DEF s
  <2>4. /\ s \in 1..MaxInode /\ s + PoolCount - 1 <= MaxInode
        /\ s..(s + PoolCount - 1) \cap dir.inUse = {}
    BY <2>3 DEF FreeRuns, PoolInodes, s
  <2>5. reserve' = [pc |-> "persist", start |-> s]
    BY <2>1 DEF s
  <2>6. /\ Reserved' = [start |-> s, count |-> PoolCount, used |-> 0]
        /\ Fits(Reserved')
    BY <2>4, <2>5 DEF Reserved, Fits
  <2>7. reserve' \in [pc : {"idle", "persist", "set"}, start : 0..MaxInode]
    BY <2>4, <2>5
  <2>8. poolOps' \in 0..MaxOps
    BY <1>a, <2>1
  <2>9. PoolTypeOK'
    BY <1>a, <2>1, <2>7, <2>8 DEF PoolTypeOK
  <2>10. AllFit'
    BY <1>f, <2>1, <2>6 DEF AllFit
  <2>11. ASSUME ~rewound' PROVE Covered'
    <3>1. ASSUME NEW i \in dir.atGoal PROVE ~InPool(i, Reserved')
      <4>1. i \in dir.inUse /\ i \in Nat
        BY <1>b, <1>g, <2>1, <2>11 DEF Recoverable, PoolInodes
      <4>2. i \notin s..(s + PoolCount - 1)
        BY <2>4, <4>1
      <4> QED
        BY <2>4, <2>6, <4>1, <4>2 DEF InPool
    <3>2. goal = 0
      BY <1>a, <1>g, <2>1, <2>11
    <3>3. ReserveSafe'
      BY <2>1, <3>1, <3>2 DEF ReserveSafe, Chosen
    <3> QED
      BY <1>g, <2>1, <2>11, <3>2, <3>3 DEF Covered, GoalTaken, ParsesCover
  <2> QED
    BY <2>9, <2>10, <2>11 DEF PoolIInv
<1>6. CASE PersistPool
  <2>1. /\ reserve.pc = "persist" /\ dir' = [dir EXCEPT !.desc = Reserved]
        /\ reserve' = [reserve EXCEPT !.pc = "set"]
        /\ UNCHANGED <<pool, loaded, parses, durable, goal, rewound, poolOps>>
    BY <1>6 DEF PersistPool
  <2>2. /\ dir' \in DirState /\ dir'.base = dir.base /\ dir'.inserts = dir.inserts
        /\ dir'.inUse = dir.inUse /\ dir'.atGoal = dir.atGoal
        /\ dir'.desc = Reserved
    BY <1>a, <1>r, <2>1 DEF DirState
  <2>3. /\ reserve' \in [pc : {"idle", "persist", "set"}, start : 0..MaxInode]
        /\ reserve'.start = reserve.start /\ reserve'.pc = "set"
    BY <1>a, <2>1
  <2>4. Reserved' = Reserved
    BY <2>3 DEF Reserved
  <2>5. PoolTypeOK'
    BY <1>a, <2>1, <2>2, <2>3 DEF PoolTypeOK
  <2>6. AllFit'
    BY <1>f, <2>1, <2>2, <2>4 DEF AllFit
  <2>7. ASSUME ~rewound' PROVE Covered'
    <3>1. Recoverable(dir')
      BY <1>g, <2>1, <2>2, <2>7 DEF Recoverable, Past, Chosen
    <3>2. ReserveSafe'
      BY <1>g, <2>1, <2>2, <2>4, <2>7 DEF ReserveSafe, Chosen
    <3> QED
      BY <1>g, <2>1, <2>2, <2>7, <3>1, <3>2
         DEF Covered, GoalTaken, ParsesCover, Past
  <2> QED
    BY <2>5, <2>6, <2>7 DEF PoolIInv
<1>7. CASE PersistFails
  <2>1. /\ reserve' = NoReserve
        /\ UNCHANGED <<pool, loaded, parses, dir, durable, goal, rewound, poolOps>>
    BY <1>7 DEF PersistFails
  <2>2. PoolTypeOK' /\ AllFit'
    BY <1>a, <1>f, <1>i, <2>1 DEF PoolTypeOK, AllFit
  <2>3. ASSUME ~rewound' PROVE Covered'
    BY <1>g, <1>i, <2>1, <2>3 DEF Covered, GoalTaken, ReserveSafe, ParsesCover
  <2> QED
    BY <2>2, <2>3 DEF PoolIInv
<1>8. CASE SetPool
  <2>1. /\ reserve.pc = "set" /\ pool' = Reserved /\ reserve' = NoReserve
        /\ rewound' = (rewound \/ pool.used > 0)
        /\ UNCHANGED <<loaded, parses, dir, durable, goal, poolOps>>
    BY <1>8 DEF SetPool
  <2>2. PoolTypeOK'
    BY <1>a, <1>i, <1>r, <2>1 DEF PoolTypeOK
  <2>3. AllFit'
    BY <1>f, <1>i, <2>1 DEF AllFit
  <2>4. ASSUME ~rewound' PROVE Covered'
    <3>1. ~rewound /\ pool.used = 0
      <4>1. ~(rewound \/ pool.used > 0)
        BY <2>1, <2>4, Zenon
      <4> QED
        BY <1>c, <4>1
    <3>2. goal = 0 /\ \A i \in dir.atGoal : ~Chosen(i)
      BY <1>g, <2>1, <3>1
    <3>3. Past(pool', dir'.atGoal)
      BY <2>1, <3>2 DEF Past, Chosen
    <3>4. pool'.count # 0
      BY <2>1 DEF Reserved
    <3> QED
      BY <1>g, <1>i, <2>1, <3>1, <3>2, <3>3, <3>4
         DEF Covered, GoalTaken, ReserveSafe, ParsesCover
  <2> QED
    BY <2>2, <2>3, <2>4 DEF PoolIInv
<1>9. CASE TakeGoal
  <2>1. /\ pool.count > 0 /\ pool.used < pool.count /\ goal' = pool.start + pool.used
        /\ pool' = [pool EXCEPT !.used = @ + 1]
        /\ UNCHANGED <<loaded, parses, reserve, dir, durable, rewound>>
        /\ poolOps < MaxOps /\ poolOps' = poolOps + 1
    BY <1>9 DEF TakeGoal, CountPoolOp
  <2>2. /\ pool' \in PoolState /\ pool'.start = pool.start
        /\ pool'.count = pool.count /\ pool'.used = pool.used + 1
    BY <1>a, <1>c, <2>1 DEF PoolState
  <2>3. goal' \in 0..MaxInode /\ poolOps' \in 0..MaxOps
    <3>1. pool.start + pool.count <= MaxInode + 1
      BY <1>f, <2>1 DEF Fits
    <3>2. pool.start + pool.used \in 0..MaxInode
      BY <1>c, <2>1, <3>1
    <3> QED
      BY <1>a, <2>1, <3>2
  <2>4. PoolTypeOK'
    BY <1>a, <2>1, <2>2, <2>3 DEF PoolTypeOK
  <2>5. AllFit'
    <3>1. Fits(pool')
      BY <1>f, <2>2 DEF Fits
    <3> QED
      BY <1>f, <2>1, <3>1 DEF AllFit, Reserved
  <2>6. ASSUME ~rewound' PROVE Covered'
    <3>1. Past(pool', dir.atGoal)
      <4>1. \A i \in dir.atGoal : i \in Nat
        BY <1>b DEF PoolInodes
      <4> QED
        BY <1>c, <1>g, <2>1, <2>2, <2>6, <4>1 DEF Past, InPool
    <3>2. GoalTaken'
      BY <1>c, <2>1, <2>2 DEF GoalTaken
    <3>3. pool'.count # 0 /\ pool'.used # 0
      BY <1>c, <2>1, <2>2
    <3>4. ReserveSafe' /\ ParsesCover'
      BY <1>g, <2>1, <2>6, <3>3 DEF ReserveSafe, ParsesCover, Chosen, Reserved
    <3> QED
      BY <1>g, <2>1, <2>6, <3>1, <3>2, <3>4 DEF Covered
  <2> QED
    BY <2>4, <2>5, <2>6 DEF PoolIInv
<1>10. CASE CreateAtGoal
  <2> DEFINE free == {i \in goal..MaxInode : i \notin dir.inUse}
             f == Min(free)
  <2>1. /\ goal > 0 /\ free # {} /\ goal' = 0
        /\ dir' = [dir EXCEPT !.inserts = @ \cup {f}, !.inUse = @ \cup {f},
                              !.atGoal = @ \cup ({goal} \cap {f})]
        /\ UNCHANGED <<pool, loaded, parses, reserve, durable, rewound, poolOps>>
    BY <1>10 DEF CreateAtGoal
  <2>2. free \in SUBSET Nat
    BY <1>a
  <2>3. f \in PoolInodes
    <3>1. f \in free
      BY <2>1, <2>2, MinIsLeast
    <3> QED
      BY <1>a, <2>1, <3>1 DEF PoolInodes
  <2> HIDE DEF f, free
  <2>4. /\ dir' \in DirState /\ dir'.base = dir.base /\ dir'.desc = dir.desc
        /\ dir'.inserts = dir.inserts \cup {f} /\ dir'.inUse = dir.inUse \cup {f}
        /\ dir'.atGoal = dir.atGoal \cup ({goal} \cap {f})
    BY <1>a, <2>1, <2>3 DEF DirState
  <2>5. PoolTypeOK'
    BY <1>a, <2>1, <2>4 DEF PoolTypeOK
  <2>6. AllFit'
    BY <1>f, <2>1, <2>4 DEF AllFit, Reserved
  <2>7. ASSUME ~rewound' PROVE Covered'
    <3>0. ~rewound /\ pool.count # 0
      BY <1>c, <1>g, <2>1, <2>7
    <3>1. Recoverable(dir')
      BY <1>g, <2>4, <3>0 DEF Recoverable, Past
    <3>2. Past(pool, dir'.atGoal)
      BY <1>g, <2>1, <2>4, <3>0 DEF Past
    <3>3. ASSUME reserve.pc # "idle"
          PROVE  /\ \A i \in dir'.atGoal : Chosen(i) => i \in dir'.inserts
                 /\ pool.used # 0
      BY <1>a, <1>g, <2>1, <2>4, <3>0, <3>3
    <3>4. ReserveSafe' /\ ParsesCover'
      BY <2>1, <3>0, <3>3 DEF ReserveSafe, ParsesCover, Chosen, Reserved
    <3> QED
      BY <1>g, <2>1, <3>0, <3>1, <3>2, <3>4 DEF Covered, GoalTaken
  <2> QED
    BY <2>5, <2>6, <2>7 DEF PoolIInv
<1>11. CASE CreateFails
  <2>1. /\ goal' = 0
        /\ UNCHANGED <<pool, loaded, parses, reserve, dir, durable, rewound, poolOps>>
    BY <1>11 DEF CreateFails
  <2>2. PoolTypeOK' /\ AllFit'
    BY <1>a, <1>f, <2>1 DEF PoolTypeOK, AllFit, Reserved
  <2>3. ASSUME ~rewound' PROVE Covered'
    BY <1>g, <2>1, <2>3
       DEF Covered, GoalTaken, ReserveSafe, ParsesCover, Chosen, Reserved
  <2> QED
    BY <2>2, <2>3 DEF PoolIInv
<1>12. ASSUME NEW i \in PoolInodes, UnlinkPooled(i) PROVE PoolIInv'
  <2>1. /\ dir' = [dir EXCEPT !.base = @ \ {i}, !.inserts = @ \ {i},
                              !.inUse = @ \ {i}, !.atGoal = @ \ {i}]
        /\ UNCHANGED <<pool, loaded, parses, reserve, durable, goal, rewound, poolOps>>
    BY <1>12 DEF UnlinkPooled
  <2>2. /\ dir' \in DirState /\ dir'.base = dir.base \ {i}
        /\ dir'.inserts = dir.inserts \ {i} /\ dir'.inUse = dir.inUse \ {i}
        /\ dir'.atGoal = dir.atGoal \ {i} /\ dir'.desc = dir.desc
    BY <1>a, <2>1 DEF DirState
  <2>3. PoolTypeOK' /\ AllFit'
    BY <1>a, <1>f, <2>1, <2>2 DEF PoolTypeOK, AllFit, Reserved
  <2>4. ASSUME ~rewound' PROVE Covered'
    <3>1. Recoverable(dir') /\ Past(pool', dir'.atGoal)
      BY <1>g, <2>1, <2>2, <2>4 DEF Recoverable, Past
    <3>2. ReserveSafe'
      BY <1>g, <2>1, <2>2, <2>4 DEF ReserveSafe, Chosen, Reserved
    <3>3. ParsesCover'
      BY <1>g, <2>1, <2>2, <2>4 DEF ParsesCover, Past
    <3> QED
      BY <1>g, <2>1, <2>4, <3>1, <3>2, <3>3 DEF Covered, GoalTaken
  <2> QED
    BY <2>3, <2>4 DEF PoolIInv
<1>13. ASSUME NEW i \in PoolInodes, AllocateElsewhere(i) PROVE PoolIInv'
  <2>1. /\ dir' = [dir EXCEPT !.inUse = @ \cup {i}]
        /\ UNCHANGED <<pool, loaded, parses, reserve, durable, goal, rewound>>
        /\ poolOps < MaxOps /\ poolOps' = poolOps + 1
    BY <1>13 DEF AllocateElsewhere, CountPoolOp
  <2>2. /\ dir' \in DirState /\ dir'.base = dir.base
        /\ dir'.inserts = dir.inserts /\ dir'.inUse = dir.inUse \cup {i}
        /\ dir'.atGoal = dir.atGoal /\ dir'.desc = dir.desc
    BY <1>a, <2>1 DEF DirState
  <2>3. poolOps' \in 0..MaxOps
    BY <1>a, <2>1
  <2>4. PoolTypeOK' /\ AllFit'
    BY <1>a, <1>f, <2>1, <2>2, <2>3 DEF PoolTypeOK, AllFit, Reserved
  <2>5. ASSUME ~rewound' PROVE Covered'
    <3>1. Recoverable(dir') /\ Past(pool', dir'.atGoal)
      BY <1>g, <2>1, <2>2, <2>5 DEF Recoverable, Past
    <3>2. ReserveSafe' /\ ParsesCover'
      BY <1>g, <2>1, <2>2, <2>5 DEF ReserveSafe, ParsesCover, Chosen, Reserved
    <3> QED
      BY <1>g, <2>1, <2>5, <3>1, <3>2 DEF Covered, GoalTaken
  <2> QED
    BY <2>4, <2>5 DEF PoolIInv
<1>14. CASE CutGeneration
  <2>1. /\ dir' = [dir EXCEPT !.base = Live, !.inserts = {}, !.desc = pool]
        /\ reserve.pc = "idle"
        /\ UNCHANGED <<pool, loaded, parses, reserve, durable, goal, rewound, poolOps>>
    BY <1>14 DEF CutGeneration
  <2>2. /\ dir' \in DirState /\ dir'.base = dir.base \cup dir.inserts
        /\ dir'.inserts = {} /\ dir'.inUse = dir.inUse
        /\ dir'.atGoal = dir.atGoal /\ dir'.desc = pool
    BY <1>a, <2>1 DEF DirState, Live
  <2>3. PoolTypeOK' /\ AllFit'
    BY <1>a, <1>f, <2>1, <2>2 DEF PoolTypeOK, AllFit, Reserved
  <2>4. ASSUME ~rewound' PROVE Covered'
    <3>1. Recoverable(dir') /\ Past(pool', dir'.atGoal)
      BY <1>g, <2>1, <2>2, <2>4 DEF Recoverable, Past
    <3>2. ReserveSafe' /\ ParsesCover'
      BY <1>g, <2>1, <2>2, <2>4 DEF ReserveSafe, ParsesCover
    <3> QED
      BY <1>g, <2>1, <2>4, <3>1, <3>2 DEF Covered, GoalTaken
  <2> QED
    BY <2>3, <2>4 DEF PoolIInv
<1>15. CASE DemotePool
  <2>1. /\ dir' = [dir EXCEPT !.base = {}, !.inserts = {}, !.desc = NoPool,
                              !.atGoal = {}]
        /\ pool' = NoPool /\ goal = 0 /\ reserve.pc = "idle"
        /\ UNCHANGED <<loaded, parses, reserve, durable, goal, rewound, poolOps>>
    BY <1>15 DEF DemotePool
  <2>2. /\ dir' \in DirState /\ dir'.base = {} /\ dir'.inserts = {}
        /\ dir'.atGoal = {} /\ dir'.desc = NoPool
    BY <1>a, <2>1, NoPoolCovers DEF DirState
  <2>3. PoolTypeOK' /\ AllFit'
    BY <1>a, <1>f, <2>1, <2>2, NoPoolCovers DEF PoolTypeOK, AllFit
  <2>4. ASSUME ~rewound' PROVE Covered'
    <3>1. Recoverable(dir') /\ Past(pool', dir'.atGoal) /\ ParsesCover'
      BY <2>2 DEF Recoverable, Past, ParsesCover
    <3> QED
      BY <1>g, <2>1, <2>4, <3>1 DEF Covered, GoalTaken, ReserveSafe
  <2> QED
    BY <2>3, <2>4 DEF PoolIInv
<1>16. CASE PoolCommit
  <2>1. /\ durable' = dir
        /\ UNCHANGED <<pool, loaded, parses, reserve, dir, goal, rewound, poolOps>>
    BY <1>16 DEF PoolCommit
  <2>2. PoolTypeOK' /\ AllFit'
    BY <1>a, <1>f, <2>1 DEF PoolTypeOK, AllFit, Reserved
  <2>3. ASSUME ~rewound' PROVE Covered'
    BY <1>g, <2>1, <2>3
       DEF Covered, GoalTaken, ReserveSafe, ParsesCover, Chosen, Reserved
  <2> QED
    BY <2>2, <2>3 DEF PoolIInv
<1>17. CASE PoolCrash
  <2>1. /\ pool' = NoPool /\ loaded' = FALSE /\ dir' = durable /\ goal' = 0
        /\ parses' = {} /\ reserve' = NoReserve
        /\ UNCHANGED <<durable, rewound, poolOps>>
    BY <1>17 DEF PoolCrash
  <2>2. Past(NoPool, durable.atGoal) /\ NoPool \in PoolState /\ Fits(NoPool)
    BY <1>a, <1>n, NoPoolCovers DEF DirState
  <2>3. PoolTypeOK'
    <3>1. loaded' \in BOOLEAN
      BY <2>1
    <3>3. goal' \in 0..MaxInode
      BY <2>1
    <3>2. parses' \subseteq PoolState /\ pool' \in PoolState
      BY <2>1, <2>2
    <3> QED
      BY <1>a, <1>i, <2>1, <3>1, <3>2, <3>3 DEF PoolTypeOK
  <2>4. AllFit'
    BY <1>f, <1>i, <2>1, <2>2 DEF AllFit
  <2>5. ASSUME ~rewound' PROVE Covered'
    BY <1>g, <1>i, <2>1, <2>2, <2>5
       DEF Covered, GoalTaken, ReserveSafe, ParsesCover
  <2> QED
    BY <2>3, <2>4, <2>5 DEF PoolIInv
<1>18. CASE UNCHANGED poolVars
  <2>1. PoolTypeOK' /\ AllFit'
    BY <1>0, <1>18 DEF poolVars, PoolTypeOK, AllFit, Reserved
  <2>2. ASSUME ~rewound' PROVE Covered'
    BY <1>g, <1>18, <2>2
       DEF poolVars, Covered, GoalTaken, ReserveSafe, ParsesCover, Chosen,
           Reserved
  <2> QED
    BY <2>1, <2>2 DEF PoolIInv
<1> QED
  BY <1>1, <1>2, <1>3, <1>4, <1>5, <1>6, <1>7, <1>8, <1>9, <1>10, <1>11,
     <1>12, <1>13, <1>14, <1>15, <1>16, <1>17, <1>18 DEF PoolNext

(* For any number of inodes and any size of a reservation, no reparse,     *)
(* eviction, compaction or crash brings the pool's cursor back over an     *)
(* inode that the pool has given to a name which still exists, as long as  *)
(* no reservation has reset a cursor that a reparse had set going.         *)
THEOREM CursorNeverRewinds == PoolSpec => []CursorCoversPool
<1>1. PoolIInv => CursorCoversPool
  BY DEF PoolIInv, Covered, Past, CursorCovers, CursorCoversPool
<1> QED
  BY <1>1, PoolInitIInv, PoolStep, PTL DEF PoolSpec

-----------------------------------------------------------------------------
(* The promotion policy.  A thread has a directory where it uses one.      *)
PolicyCalls == [pc : {"none", "walk", "chosen", "schedule", "queue", "queued", "busy"},
                at : Path \cup {Nowhere}, target : Path \cup {Nowhere}]
PolicyWorks == [pend : BOOLEAN, held : BOOLEAN, saw : 0..MaxMut,
                run : {"no", "check", "promote", "already", "failed", "finish"}]
Settles == {"schedule", "queue", "busy"}

PolicyIInv ==
  /\ PolicyTypeOK
  /\ \A t \in Looker :
       /\ look[t].pc = "walk" => look[t].at \in Path
       /\ look[t].pc \in Settles \cup {"queued"} => look[t].target \in Path
  /\ NeverStranded

LEMMA PolicyTypes ==
  PolicyTypeOK <=> /\ manual \in {1, 2} /\ shutting \in BOOLEAN
                   /\ armed \in [Path -> 0..2]
                   /\ form \in [Path -> {"mutable", "root", "interior"}]
                   /\ mut \in [Path -> 0..MaxMut] /\ observed \in [Path -> 0..MaxMut]
                   /\ policyWork \in [Path -> PolicyWorks]
                   /\ look \in [Looker -> PolicyCalls]
BY DEF PolicyTypeOK, PolicyWorks, PolicyCalls

(* A step of one thread: what it resolved it goes on to resolve, and what  *)
(* it arms it will.                                                        *)
LEMMA LookMoves ==
  ASSUME PolicyIInv, NEW t \in Looker, NEW r \in PolicyCalls, Look(t, r),
         UNCHANGED <<manual, form, mut, policyWork, shutting>>,
         armed' \in [Path -> 0..2], observed' \in [Path -> 0..MaxMut],
         r.pc = "walk" => r.at \in Path,
         r.pc \in Settles \cup {"queued"} => r.target \in Path,
         \A d \in Path :
           armed'[d] = 2 /\ ~shutting =>
             \/ r.target = d /\ r.pc \in Settles
             \/ armed[d] = 2 /\ ~(look[t].target = d /\ look[t].pc \in Settles)
  PROVE  PolicyIInv'
<1>1. look' = [look EXCEPT ![t] = r] /\ look \in [Looker -> PolicyCalls]
  BY PolicyTypes DEF PolicyIInv, Look
<1>2. look'[t] = r /\ \A s \in Looker \ {t} : look'[s] = look[s]
  BY <1>1
<1>3. PolicyTypeOK'
  <2>1. look' \in [Looker -> PolicyCalls]
    BY <1>1
  <2> QED
    BY <2>1, PolicyTypes DEF PolicyIInv, PolicyTypeOK, PolicyCalls
<1>4. ASSUME NEW d \in Path, armed'[d] = 2, form'[d] = "mutable", ~shutting'
      PROVE  Resolving(d)'
  <2>1. CASE r.target = d /\ r.pc \in Settles
    BY <1>2, <2>1 DEF Resolving, Settles
  <2>2. CASE armed[d] = 2 /\ ~(look[t].target = d /\ look[t].pc \in Settles)
    <3>1. Resolving(d)
      BY <1>4, <2>2 DEF PolicyIInv, NeverStranded
    <3> QED
      BY <1>2, <2>2, <3>1 DEF Resolving, Settles
  <2> QED
    BY <1>4, <2>1, <2>2
<1> QED
  BY <1>2, <1>3, <1>4 DEF PolicyIInv, NeverStranded

(* A step of one work: it goes on, or the directory is no longer armed.    *)
LEMMA WorkMoves ==
  ASSUME PolicyIInv, NEW e \in Path, NEW w \in PolicyWorks,
         policyWork' = [policyWork EXCEPT ![e] = w],
         UNCHANGED <<manual, mut, observed, look, shutting>>,
         armed' \in [Path -> 0..2],
         form' \in [Path -> {"mutable", "root", "interior"}],
         \A d \in Path : armed'[d] = 2 /\ form'[d] = "mutable" =>
                           armed[d] = 2 /\ form[d] = "mutable",
         \/ w.pend \/ w.run \in {"check", "promote", "already", "failed"}
         \/ shutting \/ armed'[e] # 2 \/ form'[e] # "mutable"
         \/ ~policyWork[e].pend /\ policyWork[e].run = "finish"
  PROVE  PolicyIInv'
<1>1. policyWork \in [Path -> PolicyWorks]
  BY PolicyTypes DEF PolicyIInv
<1>2. policyWork'[e] = w /\ \A d \in Path \ {e} : policyWork'[d] = policyWork[d]
  BY <1>1
<1>3. PolicyTypeOK'
  <2>1. policyWork' \in [Path -> PolicyWorks]
    BY <1>1
  <2> QED
    BY <2>1, PolicyTypes DEF PolicyIInv, PolicyTypeOK, PolicyWorks
<1>4. ASSUME NEW d \in Path, armed'[d] = 2, form'[d] = "mutable", ~shutting'
      PROVE  Resolving(d)'
  <2>1. Resolving(d)
    BY <1>4 DEF PolicyIInv, NeverStranded
  <2>2. CASE d # e
    BY <1>2, <2>1, <2>2 DEF Resolving
  <2>3. CASE d = e
    BY <1>2, <1>4, <2>1, <2>3 DEF Resolving
  <2> QED
    BY <2>2, <2>3
<1> QED
  BY <1>3, <1>4 DEF PolicyIInv, NeverStranded

(* Steps of nobody's that arm nothing.                                     *)
LEMMA MarksMove ==
  ASSUME PolicyIInv, UNCHANGED <<manual, observed, policyWork, look>>, PolicyTypeOK',
         shutting => shutting',
         \A d \in Path : armed'[d] = 2 /\ form'[d] = "mutable" =>
                           armed[d] = 2 /\ form[d] = "mutable"
  PROVE  PolicyIInv'
BY DEF PolicyIInv, NeverStranded, Resolving, PolicyTypeOK

LEMMA NoLookIs == /\ NoLook \in PolicyCalls /\ NoLook.pc = "none"
                  /\ NoLook.target = Nowhere
BY DEF NoLook, PolicyCalls

LEMMA LookupSteps ==
  ASSUME PolicyIInv, NEW t \in Looker,
         \/ \E d \in Path : LookupBegin(t, d)
         \/ LookupWalk(t) \/ LookupArm(t)
  PROVE  PolicyIInv'
<1>1. /\ look[t] \in PolicyCalls /\ armed \in [Path -> 0..2]
      /\ observed \in [Path -> 0..MaxMut] /\ Depth \in Nat \ {0} /\ Nowhere \notin Path
  BY PolicyTypes, PolicyAssumption DEF PolicyIInv, Nowhere, Path
<1>2. ASSUME NEW d \in Path, LookupBegin(t, d) PROVE PolicyIInv'
  <2> DEFINE r == [pc |-> "walk", at |-> d, target |-> Nowhere]
  <2>1. r \in PolicyCalls /\ r.pc = "walk" /\ r.at = d
    BY DEF PolicyCalls
  <2>2. /\ Look(t, r) /\ look[t].pc = "none"
        /\ UNCHANGED <<manual, armed, form, mut, observed, policyWork, shutting>>
    BY <1>2 DEF LookupBegin, At
  <2> HIDE DEF r
  <2> QED
    BY <1>1, <2>1, <2>2, LookMoves DEF Settles
<1>3. ASSUME LookupWalk(t) PROVE PolicyIInv'
  <2>1. /\ look[t].pc = "walk" /\ look[t].at \in Path
        /\ UNCHANGED <<manual, armed, form, mut, observed, policyWork, shutting>>
    BY <1>3 DEF LookupWalk, At, PolicyIInv
  <2>2. \E r \in PolicyCalls : /\ Look(t, r) /\ r.pc \in {"none", "walk", "chosen"}
                               /\ r.pc = "walk" => r.at \in Path
    <3> DEFINE d == look[t].at
               on(target) == IF manual = 2 \/ d = Depth
                             THEN [look[t] EXCEPT !.pc = "chosen", !.target = target]
                             ELSE [look[t] EXCEPT !.at = d + 1, !.target = target]
    <3>1. \/ Look(t, NoLook)
          \/ \E x \in Path \cup {Nowhere} : Look(t, on(x))
      <4>1. look[t].target \in Path \cup {Nowhere}
        BY <1>1 DEF PolicyCalls
      <4> QED
        BY <1>3, <2>1, <4>1 DEF LookupWalk
    <3>2. ASSUME NEW x \in Path \cup {Nowhere}
          PROVE  /\ on(x) \in PolicyCalls /\ on(x).pc \in {"walk", "chosen"}
                 /\ on(x).pc = "walk" => on(x).at \in Path
      <4>1. CASE manual = 2 \/ d = Depth
        <5>1. on(x) = [look[t] EXCEPT !.pc = "chosen", !.target = x]
          BY <4>1
        <5> QED
          BY <1>1, <5>1 DEF PolicyCalls
      <4>2. CASE ~(manual = 2 \/ d = Depth)
        <5>1. on(x) = [look[t] EXCEPT !.at = d + 1, !.target = x]
          BY <4>2
        <5>2. d + 1 \in Path
          BY <1>1, <2>1, <4>2 DEF Path
        <5> QED
          BY <1>1, <2>1, <5>1, <5>2 DEF PolicyCalls
      <4> QED
        BY <4>1, <4>2
    <3> HIDE DEF on
    <3> QED
      BY <3>1, <3>2, NoLookIs
  <2> QED
    BY <1>1, <2>1, <2>2, LookMoves DEF Settles
<1>4. ASSUME LookupArm(t) PROVE PolicyIInv'
  <2> DEFINE d == look[t].target
             r == [look[t] EXCEPT !.pc = "schedule"]
  <2>1. /\ look[t].pc = "chosen" /\ d \in Path \cup {Nowhere}
        /\ UNCHANGED <<manual, form, mut, observed, policyWork, shutting>>
    BY <1>1, <1>4 DEF LookupArm, At, PolicyCalls
  <2>2. CASE d = Nowhere
    <3>1. Look(t, NoLook) /\ UNCHANGED armed
      BY <1>4, <2>2 DEF LookupArm
    <3> QED
      BY <1>1, <2>1, <3>1, LookMoves, NoLookIs DEF Settles
  <2>3. CASE d # Nowhere
    <3>1. Look(t, r) /\ armed' = [armed EXCEPT ![d] = 2]
      BY <1>4, <2>3 DEF LookupArm, Arm
    <3>2. r \in PolicyCalls /\ r.pc = "schedule" /\ r.target = d /\ d \in Path
      BY <1>1, <2>1, <2>3 DEF PolicyCalls
    <3> HIDE DEF r
    <3>3. armed' \in [Path -> 0..2] /\ \A e \in Path \ {d} : armed'[e] = armed[e]
      BY <1>1, <3>1, <3>2
    <3> QED
      BY <1>1, <2>1, <3>1, <3>2, <3>3, LookMoves DEF Settles
  <2> QED
    BY <2>2, <2>3
<1> QED
  BY <1>2, <1>3, <1>4

(* ext5_li_schedule_promote: queue the work, or unarm.                     *)
LEMMA ScheduleSteps ==
  ASSUME PolicyIInv, NEW t \in Looker,
         ScheduleObserve(t) \/ ScheduleQueue(t) \/ ScheduleEnd(t)
  PROVE  PolicyIInv'
<1>1. /\ look[t] \in PolicyCalls /\ armed \in [Path -> 0..2]
      /\ observed \in [Path -> 0..MaxMut] /\ mut \in [Path -> 0..MaxMut]
      /\ policyWork \in [Path -> PolicyWorks] /\ look \in [Looker -> PolicyCalls]
  BY PolicyTypes DEF PolicyIInv
<1> DEFINE d == look[t].target
<1>2. look[t].pc \in Settles \cup {"queued"} /\ d \in Path
  BY DEF ScheduleObserve, ScheduleQueue, ScheduleEnd, At, PolicyIInv, Settles
<1>3. ASSUME ScheduleObserve(t) PROVE PolicyIInv'
  <2>1. UNCHANGED <<manual, form, mut, policyWork, shutting>> /\ look[t].pc = "schedule"
    BY <1>3 DEF ScheduleObserve, At
  <2>2. CASE shutting /\ Arm(d, 1) /\ Look(t, NoLook) /\ UNCHANGED observed
    <3>1. armed' \in [Path -> 0..2]
      BY <1>1, <1>2, <2>2 DEF Arm
    <3> QED
      BY <1>1, <2>1, <2>2, <3>1, LookMoves, NoLookIs DEF Settles
  <2>3. CASE /\ observed' = [observed EXCEPT ![d] = mut[d]]
             /\ Look(t, [look[t] EXCEPT !.pc = "queue"]) /\ UNCHANGED armed
    <3> DEFINE r == [look[t] EXCEPT !.pc = "queue"]
    <3>1. r \in PolicyCalls /\ r.pc = "queue" /\ r.target = d
      BY <1>1 DEF PolicyCalls
    <3>2. observed' \in [Path -> 0..MaxMut]
      BY <1>1, <1>2, <2>3
    <3>3. Look(t, r)
      BY <2>3
    <3> HIDE DEF r
    <3> QED
      BY <1>1, <1>2, <2>1, <2>3, <3>1, <3>2, <3>3, LookMoves DEF Settles
  <2> QED
    BY <1>3, <2>2, <2>3 DEF ScheduleObserve
<1>4. ASSUME ScheduleQueue(t) PROVE PolicyIInv'
  <2> DEFINE w == [policyWork[d] EXCEPT !.pend = TRUE, !.held = TRUE]
             r == [look[t] EXCEPT !.pc = IF policyWork[d].pend THEN "busy" ELSE "queued"]
  <2>1. /\ policyWork' = [policyWork EXCEPT ![d] = w] /\ look' = [look EXCEPT ![t] = r]
        /\ UNCHANGED <<manual, armed, form, mut, observed, shutting>>
    BY <1>4 DEF ScheduleQueue, Look
  <2>2. w \in PolicyWorks /\ w.pend
    <3>1. policyWork[d] \in PolicyWorks
      BY <1>1, <1>2
    <3> QED
      BY <3>1 DEF PolicyWorks
  <2>3. r \in PolicyCalls /\ r.pc \in {"busy", "queued"} /\ r.target = d
    BY <1>1 DEF PolicyCalls
  <2> HIDE DEF w, r
  <2>4. /\ policyWork' \in [Path -> PolicyWorks] /\ look' \in [Looker -> PolicyCalls]
        /\ policyWork'[d] = w /\ look'[t] = r
        /\ \A e \in Path \ {d} : policyWork'[e] = policyWork[e]
        /\ \A s \in Looker \ {t} : look'[s] = look[s]
    BY <1>1, <1>2, <2>1, <2>2, <2>3
  <2>5. PolicyTypeOK'
    BY <2>1, <2>4, PolicyTypes DEF PolicyIInv, PolicyTypeOK, PolicyCalls, PolicyWorks
  <2>6. ASSUME NEW e \in Path, armed'[e] = 2, form'[e] = "mutable", ~shutting'
        PROVE  Resolving(e)'
    <3>1. CASE e = d
      BY <2>2, <2>4, <3>1 DEF Resolving
    <3>2. CASE e # d
      <4>1. Resolving(e)
        BY <2>1, <2>6 DEF PolicyIInv, NeverStranded
      <4> QED
        BY <2>4, <3>2, <4>1 DEF Resolving
    <3> QED
      BY <3>1, <3>2
  <2>7. \A s \in Looker :
          /\ look'[s].pc = "walk" => look'[s].at \in Path
          /\ look'[s].pc \in Settles \cup {"queued"} => look'[s].target \in Path
    BY <1>2, <2>3, <2>4 DEF PolicyIInv
  <2> QED
    BY <2>5, <2>6, <2>7 DEF PolicyIInv, NeverStranded
<1>5. ASSUME ScheduleEnd(t) PROVE PolicyIInv'
  <2>1. /\ look[t].pc \in {"queued", "busy"} /\ Look(t, NoLook)
        /\ UNCHANGED <<manual, form, mut, observed, policyWork, shutting>>
    BY <1>5 DEF ScheduleEnd
  <2>2. /\ armed' \in [Path -> 0..2]
        /\ look[t].pc = "busy" => armed'[d] = 1
        /\ \A e \in Path : armed'[e] = 2 => armed[e] = 2
    BY <1>1, <1>2, <1>5 DEF ScheduleEnd, Arm, At
  <2> QED
    <3>1. ASSUME NEW e \in Path, armed'[e] = 2
          PROVE  armed[e] = 2 /\ ~(d = e /\ look[t].pc \in Settles)
      BY <2>1, <2>2, <3>1 DEF Settles
    <3> QED
      BY <1>1, <2>1, <2>2, <3>1, LookMoves, NoLookIs DEF Settles
<1> QED
  BY <1>3, <1>4, <1>5

(* __ext5_auto_promote_work_fn.                                            *)
LEMMA PromoteWorkSteps ==
  ASSUME PolicyIInv, NEW d \in Path,
         \/ PromoteStart(d) \/ WorkIdles(d) \/ WorkChecks(d) \/ PromotePublishes(d)
         \/ PromoteFails(d) \/ WorkUnarms(d) \/ WorkFinish(d)
  PROVE  PolicyIInv'
<1>1. /\ policyWork[d] \in PolicyWorks /\ armed \in [Path -> 0..2]
      /\ observed \in [Path -> 0..MaxMut]
      /\ form \in [Path -> {"mutable", "root", "interior"}]
  BY PolicyTypes DEF PolicyIInv
<1> DEFINE ran(run) == [policyWork[d] EXCEPT !.run = run]
<1>2. ASSUME NEW run \in {"no", "check", "promote", "already", "failed", "finish"}
      PROVE  /\ ran(run) \in PolicyWorks /\ ran(run).run = run
             /\ ran(run).pend = policyWork[d].pend
             /\ PolicyStep(d, run) => policyWork' = [policyWork EXCEPT ![d] = ran(run)]
  BY <1>1 DEF PolicyWorks, PolicyStep
<1>3. ASSUME NEW n \in 0..2, Arm(d, n)
      PROVE  armed' \in [Path -> 0..2] /\ armed'[d] = n /\ \A e \in Path \ {d} : armed'[e] = armed[e]
  BY <1>1, <1>3 DEF Arm
<1>4. CASE PromoteStart(d)
  <2> DEFINE w == [pend |-> FALSE, held |-> TRUE, saw |-> observed[d],
                   run |-> IF shutting THEN "finish" ELSE "check"]
  <2>1. /\ policyWork' = [policyWork EXCEPT ![d] = w]
        /\ UNCHANGED <<manual, armed, form, mut, observed, look, shutting>>
    BY <1>4 DEF PromoteStart
  <2>2. w \in PolicyWorks /\ (shutting \/ w.run = "check")
    BY <1>1 DEF PolicyWorks
  <2> HIDE DEF w
  <2> QED
    BY <1>1, <2>1, <2>2, WorkMoves
<1>5. CASE WorkIdles(d)
  <2> DEFINE w == [policyWork[d] EXCEPT !.pend = TRUE, !.run = "finish"]
  <2>1. /\ policyWork' = [policyWork EXCEPT ![d] = w]
        /\ UNCHANGED <<manual, armed, form, mut, observed, look, shutting>>
    BY <1>5 DEF WorkIdles
  <2>2. w \in PolicyWorks /\ w.pend
    BY <1>1 DEF PolicyWorks
  <2> HIDE DEF w
  <2> QED
    BY <1>1, <2>1, <2>2, WorkMoves
<1>6. CASE WorkChecks(d)
  <2>1. UNCHANGED <<manual, form, mut, observed, look, shutting>>
    BY <1>6 DEF WorkChecks
  <2>2. CASE PolicyStep(d, "promote") /\ UNCHANGED armed
    <3>1. policyWork' = [policyWork EXCEPT ![d] = ran("promote")]
      BY <1>2, <2>2
    <3>2. ran("promote") \in PolicyWorks /\ ran("promote").run = "promote"
      BY <1>2
    <3> HIDE DEF ran
    <3> QED
      BY <1>1, <2>1, <2>2, <3>1, <3>2, WorkMoves
  <2>3. CASE Arm(d, 1) /\ PolicyStep(d, "finish")
    <3>1. policyWork' = [policyWork EXCEPT ![d] = ran("finish")]
      BY <1>2, <2>3
    <3>2. ran("finish") \in PolicyWorks
      BY <1>2
    <3>3. /\ armed' \in [Path -> 0..2] /\ armed'[d] = 1
          /\ \A e \in Path \ {d} : armed'[e] = armed[e]
      BY <1>3, <2>3
    <3>4. armed'[d] # 2 /\ \A e \in Path : armed'[e] = 2 => armed[e] = 2
      BY <3>3
    <3> HIDE DEF ran
    <3> QED
      BY <1>1, <2>1, <3>1, <3>2, <3>3, <3>4, WorkMoves
  <2> QED
    BY <1>6, <2>2, <2>3 DEF WorkChecks, Defer
<1>7. CASE PromotePublishes(d)
  <2>1. UNCHANGED <<manual, mut, observed, look, shutting>>
    BY <1>7 DEF PromotePublishes
  <2>2. policyWork' = [policyWork EXCEPT ![d] = ran("finish")]
    BY <1>2, <1>7 DEF PromotePublishes
  <2>3. ran("finish") \in PolicyWorks
    BY <1>2
  <2>4. /\ armed' \in [Path -> 0..2] /\ armed'[d] = 0
        /\ \A e \in Path \ {d} : armed'[e] = armed[e]
    BY <1>3, <1>7 DEF PromotePublishes
  <2>5. form' = [e \in Path |-> CASE e = d -> "root"
                                  [] e < d /\ manual = 1 -> "interior"
                                  [] OTHER -> form[e]]
    BY <1>7 DEF PromotePublishes
  <2>6. /\ form' \in [Path -> {"mutable", "root", "interior"}]
        /\ \A e \in Path : form'[e] = "mutable" => form[e] = "mutable"
    <3>1. \A e \in Path : /\ form'[e] \in {"mutable", "root", "interior"}
                          /\ form'[e] = "mutable" => form[e] = "mutable"
      BY <1>1, <2>5
    <3> QED
      BY <2>5, <3>1
  <2> HIDE DEF ran
  <2>7. armed'[d] # 2
    BY <2>4
  <2>8. \A e \in Path : armed'[e] = 2 => armed[e] = 2
    BY <2>4, <2>7
  <2> QED
    BY <2>1, <2>2, <2>3, <2>4, <2>6, <2>7, <2>8, WorkMoves
<1>8. CASE PromoteFails(d)
  <2>1. PICK run \in {"already", "failed"} :
          /\ policyWork' = [policyWork EXCEPT ![d] = ran(run)]
          /\ ran(run) \in PolicyWorks /\ ran(run).run = run
    BY <1>2, <1>8 DEF PromoteFails
  <2>2. UNCHANGED <<manual, armed, form, mut, observed, look, shutting>>
    BY <1>8 DEF PromoteFails
  <2> HIDE DEF ran
  <2> QED
    BY <1>1, <2>1, <2>2, WorkMoves
<1>9. CASE WorkUnarms(d)
  <2>1. /\ UNCHANGED <<manual, form, mut, observed, look, shutting>>
        /\ PolicyStep(d, "finish") /\ (Arm(d, 0) \/ Arm(d, 1))
    BY <1>9 DEF WorkUnarms, Defer
  <2>2. policyWork' = [policyWork EXCEPT ![d] = ran("finish")]
    BY <1>2, <2>1
  <2>3. ran("finish") \in PolicyWorks
    BY <1>2
  <2>4. /\ armed' \in [Path -> 0..2] /\ armed'[d] # 2
        /\ \A e \in Path \ {d} : armed'[e] = armed[e]
    BY <1>3, <2>1
  <2> HIDE DEF ran
  <2> QED
    BY <1>1, <2>1, <2>2, <2>3, <2>4, WorkMoves
<1>10. CASE WorkFinish(d)
  <2> DEFINE w == [policyWork[d] EXCEPT !.run = "no", !.held = policyWork[d].pend]
  <2>1. /\ policyWork' = [policyWork EXCEPT ![d] = w] /\ policyWork[d].run = "finish"
        /\ UNCHANGED <<manual, armed, form, mut, observed, look, shutting>>
    BY <1>10 DEF WorkFinish
  <2>2. w \in PolicyWorks /\ w.pend = policyWork[d].pend
    BY <1>1 DEF PolicyWorks
  <2> HIDE DEF w
  <2> QED
    BY <1>1, <2>1, <2>2, WorkMoves
<1> QED
  BY <1>4, <1>5, <1>6, <1>7, <1>8, <1>9, <1>10

LEMMA MarkSteps ==
  ASSUME PolicyIInv,
         \/ \E d \in Path : MutateDir(d) \/ DemoteDir(d) \/ ForgetDir(d)
         \/ Unmount
  PROVE  PolicyIInv'
<1>1. /\ armed \in [Path -> 0..2] /\ mut \in [Path -> 0..MaxMut] /\ MaxMut \in Nat
      /\ form \in [Path -> {"mutable", "root", "interior"}]
  BY PolicyTypes, PolicyAssumption DEF PolicyIInv
<1>2. ASSUME NEW d \in Path, MutateDir(d) PROVE PolicyIInv'
  <2>1. PICK above \in SUBSET Path :
          /\ \A e \in above : mut[e] < MaxMut
          /\ mut' = [e \in Path |-> IF e \in above THEN mut[e] + 1 ELSE mut[e]]
          /\ \E crossed \in SUBSET above :
               armed' = [e \in Path |-> IF e \in crossed THEN 1 ELSE armed[e]]
    BY <1>2 DEF MutateDir
  <2>2. UNCHANGED <<manual, form, observed, policyWork, look, shutting>>
    BY <1>2 DEF MutateDir
  <2>3. mut' \in [Path -> 0..MaxMut]
    <3>1. \A e \in Path : mut'[e] \in 0..MaxMut
      BY <1>1, <2>1
    <3> QED
      BY <2>1, <3>1
  <2>4. armed' \in [Path -> 0..2] /\ \A e \in Path : armed'[e] = 2 => armed[e] = 2
    BY <1>1, <2>1
  <2>5. PolicyTypeOK'
    BY <2>2, <2>3, <2>4 DEF PolicyIInv, PolicyTypeOK
  <2> QED
    BY <2>2, <2>4, <2>5, MarksMove
<1>3. ASSUME NEW d \in Path, DemoteDir(d) PROVE PolicyIInv'
  <2>1. PICK tree : form' = [e \in Path |-> IF e \in tree THEN "mutable" ELSE form[e]]
                    /\ \E large \in SUBSET tree :
                         armed' = [e \in Path |-> IF e \in large THEN 1
                                    ELSE IF e \in tree THEN 0 ELSE armed[e]]
    BY <1>3 DEF DemoteDir
  <2>2. UNCHANGED <<manual, mut, observed, policyWork, look, shutting>>
    BY <1>3 DEF DemoteDir
  <2>3. form' \in [Path -> {"mutable", "root", "interior"}] /\ armed' \in [Path -> 0..2]
    BY <1>1, <2>1
  <2>4. \A e \in Path : armed'[e] = 2 /\ form'[e] = "mutable" =>
                          armed[e] = 2 /\ form[e] = "mutable"
    BY <1>1, <2>1
  <2>5. PolicyTypeOK'
    BY <2>2, <2>3 DEF PolicyIInv, PolicyTypeOK
  <2> QED
    BY <2>2, <2>4, <2>5, MarksMove
<1>4. ASSUME NEW d \in Path, ForgetDir(d) PROVE PolicyIInv'
  <2>1. UNCHANGED <<manual, form, mut, observed, policyWork, look, shutting>>
    BY <1>4 DEF ForgetDir
  <2>2. PICK n \in {0, 1} : armed' = [armed EXCEPT ![d] = n]
    <3>1. PICK kept \in {0, IF armed[d] = 2 THEN 1 ELSE armed[d]} :
            armed' = [armed EXCEPT ![d] = IF form[d] = "mutable" THEN kept ELSE 0]
      BY <1>4 DEF ForgetDir, Arm
    <3>2. armed[d] \in {0, 1, 2}
      BY <1>1
    <3> QED
      BY <3>1, <3>2
  <2>3. armed' \in [Path -> 0..2] /\ \A e \in Path : armed'[e] = 2 => armed[e] = 2
    BY <1>1, <2>2
  <2>4. PolicyTypeOK'
    BY <2>1, <2>3 DEF PolicyIInv, PolicyTypeOK
  <2> QED
    BY <2>1, <2>3, <2>4, MarksMove
<1>5. ASSUME Unmount PROVE PolicyIInv'
  <2>1. PolicyTypeOK' /\ UNCHANGED <<manual, armed, form, observed, policyWork, look>>
    BY <1>5 DEF Unmount, PolicyIInv, PolicyTypeOK
  <2> QED
    BY <1>5, <2>1, MarksMove DEF Unmount
<1> QED
  BY <1>2, <1>3, <1>4, <1>5

LEMMA PolicyInitIInv == PolicyInit => PolicyIInv
<1> SUFFICES ASSUME PolicyInit PROVE PolicyIInv
  OBVIOUS
<1>1. NoWork \in PolicyWorks /\ 0 \in 0..MaxMut
  BY PolicyAssumption DEF NoWork, PolicyWorks
<1>2. PolicyTypeOK
  <2>1. armed \in [Path -> 0..2] /\ form \in [Path -> {"mutable", "root", "interior"}]
    BY DEF PolicyInit
  <2>2. mut \in [Path -> 0..MaxMut] /\ observed \in [Path -> 0..MaxMut]
    BY <1>1 DEF PolicyInit
  <2>3. policyWork \in [Path -> PolicyWorks] /\ look \in [Looker -> PolicyCalls]
    BY <1>1, NoLookIs DEF PolicyInit
  <2> QED
    BY <2>1, <2>2, <2>3, PolicyTypes DEF PolicyInit
<1>3. \A d \in Path : armed[d] # 2
  BY DEF PolicyInit
<1> QED
  BY <1>2, <1>3, NoLookIs DEF PolicyInit, PolicyIInv, NeverStranded, Settles

LEMMA PolicyKept == PolicyIInv /\ [PolicyNext]_policyVars => PolicyIInv'
<1> SUFFICES ASSUME PolicyIInv, [PolicyNext]_policyVars PROVE PolicyIInv'
  OBVIOUS
<1>1. CASE UNCHANGED policyVars
  <2>1. PolicyTypeOK'
    BY <1>1 DEF PolicyIInv, PolicyTypeOK, policyVars
  <2> QED
    BY <1>1, <2>1, MarksMove DEF policyVars
<1>2. CASE PolicyNext
  BY <1>2, LookupSteps, ScheduleSteps, PromoteWorkSteps, MarkSteps DEF PolicyNext
<1> QED
  BY <1>1, <1>2

(* However lookups, mutations, delayed works, conversions and the memory   *)
(* of the policy interleave, a directory marked pending is one that        *)
(* ext5_li_schedule_promote or the promotion work will still settle.       *)
THEOREM NobodyIsStranded == PolicySpec => []NeverStranded
<1>1. PolicyIInv => NeverStranded
  BY DEF PolicyIInv
<1> QED
  BY <1>1, PolicyInitIInv, PolicyKept, PTL DEF PolicySpec

-----------------------------------------------------------------------------
(* Listing a directory over several getdents calls (StableReaddir).        *)
OpMaps == UNION {[S -> Ops] : S \in SUBSET DirName}
ListedBlobs == [slots : Seq(DirName), ops : OpMaps]
ReaddirCalls == [pc : {"idle", "pinned", "merge", "end"}, gen : Nat,
                 b : Nat \ {0}, delta : SUBSET DirName, room : Nat,
                 pos : Nat, any : BOOLEAN]
Captures == [on : BOOLEAN, slots : Seq(DirName), since : SUBSET DirName]

(* Slots in the strict order of their hashes.                              *)
HashOrdered(h, s) == \A i, j \in DOMAIN s : i < j => h[s[i]] < h[s[j]]

Pinned == listed[call.gen]
(* Names the reader must still be given, and the base slots the running     *)
(* call has not passed.                                                    *)
Owed == stayed \ Range(got)
Rest == {i \in DOMAIN Pinned.slots : i >= call.b}

ReaddirTyped ==
  /\ hashOf \in [DirName -> HashKey] /\ isRoot \in BOOLEAN
  /\ listed \in Seq(ListedBlobs) /\ snapshot \in Captures
  /\ call \in ReaddirCalls /\ call.gen \in DOMAIN listed
  /\ got \in Seq(DirName) /\ stayed \in SUBSET DirName

(* The slots a compaction captured and the names changed since make up the  *)
(* listing.                                                                *)
SnapshotHolds ==
  /\ ~snapshot.on => snapshot.since = {}
  /\ snapshot.since \subseteq DOMAIN Installed.ops
  /\ snapshot.on => \A n \in DirName \ snapshot.since :
                      n \in Range(snapshot.slots) <=> n \in Listing

(* A merge has all that is owed before it, a record as well as the slot     *)
(* the record replaces.                                                    *)
MergeHolds ==
  /\ call.delta \subseteq DOMAIN Pinned.ops
  /\ \A i \in Rest : Pinned.slots[i] \in DOMAIN Pinned.ops
                       => Pinned.slots[i] \in call.delta
  /\ \A n \in Owed : n \in call.delta \/ \E i \in Rest : Pinned.slots[i] = n

(* A running call sees the listing; a resting one has its cursor at or      *)
(* before all that is owed.                                                *)
CallHolds ==
  /\ ~DirFree => Holds(Pinned) = Listing
  /\ call.pc \in {"idle", "pinned"} =>
       \A n \in Owed : hashOf[n] >= Decode(call.pos)
  /\ call.pc = "pinned" => IsLowerBound(call.b, Pinned.slots, call.pos)
  /\ call.pc = "merge" => MergeHolds
  /\ call.pc = "end" => Owed = {}

(* With hashes of their own, the slots of every generation are in the order *)
(* in which cookies count, so that a cursor means the same in all of them. *)
ReaddirIInv ==
  /\ ReaddirTyped
  /\ \A m, n \in DirName : hashOf[m] = hashOf[n] => m = n
  /\ \A g \in DOMAIN listed : HashOrdered(hashOf, listed[g].slots)
  /\ HashOrdered(hashOf, snapshot.slots)
  /\ SnapshotHolds
  /\ stayed \subseteq Listing
  /\ CallHolds
  /\ ~wrong

LEMMA LeastIsThere ==
  ASSUME ReaddirTyped, \A m, n \in DirName : hashOf[m] = hashOf[n] => m = n,
         NEW D \in SUBSET DirName, D # {}
  PROVE  \E n \in D : \A m \in D : ~Before(m, n)
<1> DEFINE H == {hashOf[n] : n \in D}
<1>1. HashKey \subseteq Nat /\ DirName \subseteq Nat
  BY ReaddirAssumption
<1>2. H \in SUBSET Nat /\ H # {}
  <2>1. \A n \in D : hashOf[n] \in Nat
    BY <1>1 DEF ReaddirTyped
  <2>2. \E n \in D : TRUE
    BY D # {}
  <2> QED
    BY <2>1, <2>2
<1>3. Min(H) \in H /\ \A y \in H : Min(H) <= y
  BY <1>2, MinIsLeast
<1>4. PICK n \in D : hashOf[n] = Min(H)
  BY <1>3
<1>5. \A m \in D : hashOf[n] <= hashOf[m]
  BY <1>3, <1>4
<1>6. \A m \in D : hashOf[m] \in Nat /\ m \in Nat
  BY <1>1 DEF ReaddirTyped
<1>7. \A m \in D : ~Before(m, n)
  BY <1>5, <1>6 DEF Before
<1> QED
  BY <1>7

LEMMA ReaddirInitIInv ==
  ASSUME ~Collide
  PROVE  ReaddirInit => ReaddirIInv
<1> SUFFICES ASSUME ReaddirInit PROVE ReaddirIInv
  OBVIOUS
<1>1. \A m, n \in DirName : hashOf[m] = hashOf[n] => m = n
  BY DEF ReaddirInit
<1>2. PICK q \in Arrangements(stayed) :
        /\ \A i, j \in DOMAIN q : i < j => Before(q[i], q[j])
        /\ listed = <<NewBlob(q)>>
  BY DEF ReaddirInit
<1>3. Cardinality(stayed) \in Nat
  <2>1. IsFiniteSet(DirName) /\ stayed \subseteq DirName
    BY ReaddirAssumption DEF ReaddirInit
  <2> QED
    BY <2>1, FS_Subset, FS_CardinalityType
<1>4. q \in Seq(DirName) /\ Range(q) = stayed
  BY <1>2, <1>3 DEF Arrangements, ReaddirInit
<1>5. NewBlob(q) \in ListedBlobs /\ NewBlob(q).slots = q
      /\ DOMAIN NewBlob(q).ops = {}
  <2>1. [n \in {} |-> "insert"] \in [{} -> Ops] /\ {} \in SUBSET DirName
    BY DEF Ops
  <2>2. [n \in {} |-> "insert"] \in OpMaps
    BY <2>1 DEF OpMaps
  <2> QED
    BY <1>4, <2>2 DEF NewBlob, ListedBlobs
<1>6. DOMAIN listed = {1} /\ Len(listed) = 1 /\ listed[1] = NewBlob(q)
      /\ listed \in Seq(ListedBlobs)
  BY <1>2, <1>5
<1>7. Listing = stayed
  <2>1. \A n \in DirName : (\E i \in DOMAIN q : q[i] = n) <=> n \in stayed
    BY <1>4 DEF Range
  <2>2. stayed \subseteq DirName
    BY DEF ReaddirInit
  <2> QED
    BY <1>5, <1>6, <2>1, <2>2 DEF Listing, Installed, Holds
<1>8. call \in ReaddirCalls /\ call.gen = 1 /\ call.pc = "idle" /\ call.pos = 0
  BY DEF ReaddirInit, ReaddirCalls
<1>9. snapshot \in Captures /\ ~snapshot.on /\ snapshot.since = {}
      /\ snapshot.slots = <<>>
  BY DEF ReaddirInit, NoSnapshot, Captures
<1>10. ReaddirTyped
  BY <1>6, <1>8, <1>9 DEF ReaddirInit, ReaddirTyped
<1>11. \A n \in DirName : hashOf[n] \in Nat
  BY ReaddirAssumption DEF ReaddirInit
<1>12. HashOrdered(hashOf, q)
  <2> SUFFICES ASSUME NEW i \in DOMAIN q, NEW j \in DOMAIN q, i < j
               PROVE  hashOf[q[i]] < hashOf[q[j]]
    BY DEF HashOrdered
  <2>1. Before(q[i], q[j])
    BY <1>2
  <2>2. q[i] \in DirName /\ q[j] \in DirName /\ DirName \subseteq Nat
    BY <1>4, ReaddirAssumption
  <2>3. hashOf[q[i]] = hashOf[q[j]] => ~(q[i] < q[j])
    <3>1. \A x \in Nat : ~(x < x)
      OBVIOUS
    <3>2. q[i] = q[j] => ~(q[i] < q[j])
      BY <2>2, <3>1, Zenon
    <3> QED
      BY <2>2, <1>1, <3>2
  <2> QED
    BY <2>1, <2>3 DEF Before
<1>13. HashOrdered(hashOf, snapshot.slots)
  BY <1>9 DEF HashOrdered
<1>14. SnapshotHolds
  BY <1>9 DEF SnapshotHolds
<1>15. CallHolds
  <2>1. Owed \subseteq DirName
    BY <1>10 DEF Owed, ReaddirTyped
  <2>2. Decode(call.pos) = 0
    BY <1>8 DEF Decode
  <2> QED
    BY <1>8, <1>11, <2>1, <2>2 DEF CallHolds, DirFree
<1>16. stayed \subseteq Listing /\ ~wrong
  BY <1>7 DEF ReaddirInit
<1>17. \A g \in DOMAIN listed : HashOrdered(hashOf, listed[g].slots)
  BY <1>5, <1>6, <1>12
<1> QED
  BY <1>1, <1>10, <1>13, <1>14, <1>15, <1>16, <1>17 DEF ReaddirIInv

(* A creation or a removal while no call is running: the listing becomes   *)
(* now, and what the running compaction has not captured is in since.      *)
LEMMA ChangeKeeps ==
  ASSUME ReaddirIInv, DirFree,
         NEW ops \in OpMaps, NEW since \in SUBSET DirName,
         NEW now \in SUBSET DirName,
         Change(ops, since, now),
         Holds([slots |-> Installed.slots, ops |-> ops]) = now,
         ~snapshot.on => since = {},
         since \subseteq DOMAIN ops,
         snapshot.on => \A n \in DirName \ since :
                          n \in Range(snapshot.slots) <=> n \in now
  PROVE  ReaddirIInv'
<1>1. ReaddirTyped
  BY DEF ReaddirIInv
<1> DEFINE L == Len(listed)
<1>2. L \in DOMAIN listed /\ listed[L] \in ListedBlobs /\ Installed = listed[L]
  BY <1>1 DEF ReaddirTyped, Installed
<1> DEFINE B == [slots |-> Installed.slots, ops |-> ops]
<1>3. B \in ListedBlobs /\ B = [listed[L] EXCEPT !.ops = ops]
  BY <1>2 DEF ListedBlobs
<1>4. listed' = [listed EXCEPT ![L] = B]
  BY <1>2, <1>3 DEF Change
<1>5. /\ listed' \in Seq(ListedBlobs) /\ Len(listed') = L
      /\ DOMAIN listed' = DOMAIN listed /\ listed'[L] = B
      /\ \A g \in DOMAIN listed : listed'[g].slots = listed[g].slots
  <2>1. \A g \in DOMAIN listed : listed'[g] = IF g = L THEN B ELSE listed[g]
    BY <1>2, <1>4
  <2>2. listed \in Seq(ListedBlobs)
    BY <1>1 DEF ReaddirTyped
  <2>3. /\ listed' \in Seq(ListedBlobs) /\ Len(listed') = L
        /\ DOMAIN listed' = DOMAIN listed
    BY <1>2, <1>3, <1>4, <2>2
  <2> QED
    BY <1>2, <2>1, <2>3
<1>6. Listing' = now
  BY <1>5 DEF Listing, Installed
<1>7. /\ snapshot' = [snapshot EXCEPT !.since = since]
      /\ stayed' = stayed \cap now
      /\ UNCHANGED <<hashOf, isRoot, call, got, wrong>>
  BY DEF Change
<1>8. /\ snapshot' \in Captures /\ snapshot'.on = snapshot.on
      /\ snapshot'.slots = snapshot.slots /\ snapshot'.since = since
  BY <1>1, <1>7 DEF ReaddirTyped, Captures
<1>9. ReaddirTyped'
  <2>1. stayed' \in SUBSET DirName /\ call'.gen \in DOMAIN listed'
    BY <1>1, <1>5, <1>7 DEF ReaddirTyped
  <2> QED
    BY <1>1, <1>5, <1>7, <1>8, <2>1 DEF ReaddirTyped
<1>10. \A g \in DOMAIN listed' : HashOrdered(hashOf', listed'[g].slots)
  BY <1>5, <1>7 DEF ReaddirIInv
<1>11. HashOrdered(hashOf', snapshot'.slots)
  BY <1>7, <1>8 DEF ReaddirIInv
<1>12. SnapshotHolds'
  <2>1. Installed' = B
    BY <1>5 DEF Installed
  <2> QED
    BY <1>6, <1>8, <2>1 DEF SnapshotHolds
<1>13. CallHolds'
  <2>1. Owed' \subseteq Owed
    BY <1>7 DEF Owed
  <2>2. call' = call /\ hashOf' = hashOf /\ call.pc # "pinned"
        /\ call.pc # "merge"
    BY <1>7 DEF DirFree
  <2>3. CallHolds
    BY DEF ReaddirIInv
  <2>4. DirFree'
    BY <2>2 DEF DirFree
  <2>5. call.pc = "idle" => \A n \in Owed : hashOf[n] >= Decode(call.pos)
    BY <2>3 DEF CallHolds
  <2>6. call.pc = "end" => Owed = {}
    BY <2>3 DEF CallHolds
  <2>7. call'.pc \in {"idle", "pinned"} =>
          \A n \in Owed' : hashOf'[n] >= Decode(call'.pos)
    BY <2>1, <2>2, <2>5
  <2> QED
    BY <2>1, <2>2, <2>4, <2>6, <2>7 DEF CallHolds
<1>14. stayed' \subseteq Listing' /\ ~wrong'
  BY <1>6, <1>7 DEF ReaddirIInv
<1>15. \A m, n \in DirName : hashOf'[m] = hashOf'[n] => m = n
  BY <1>7 DEF ReaddirIInv
<1> QED
  BY <1>9, <1>10, <1>11, <1>12, <1>13, <1>14, <1>15 DEF ReaddirIInv

LEMMA CreateKeeps ==
  ASSUME ReaddirIInv, NEW n \in DirName, CreateEntry(n)
  PROVE  ReaddirIInv'
<1>1. ReaddirTyped /\ SnapshotHolds
  BY DEF ReaddirIInv
<1>2. Installed \in ListedBlobs
  BY <1>1 DEF ReaddirTyped, Installed
<1> DEFINE ops == With(Installed.ops, n, "insert")
<1> DEFINE now == Listing \cup {n}
<1>3. PICK S \in SUBSET DirName : Installed.ops \in [S -> Ops]
  BY <1>2 DEF ListedBlobs, OpMaps
<1>4. ops \in [S \cup {n} -> Ops] /\ DOMAIN ops = S \cup {n}
      /\ ops[n] = "insert" /\ \A m \in S \ {n} : ops[m] = Installed.ops[m]
  BY <1>3 DEF With, Ops
<1>5. ops \in OpMaps
  BY <1>4 DEF OpMaps
<1>6. Noted(n) \in SUBSET DirName /\ now \in SUBSET DirName
  BY <1>1 DEF Noted, ReaddirTyped, Captures, Listing, Holds
<1>7. Holds([slots |-> Installed.slots, ops |-> ops]) = now
  <2>1. DOMAIN Installed.ops = S
    BY <1>3
  <2> HIDE DEF ops
  <2> QED
    BY <1>4, <2>1 DEF Holds, Listing
<1>8. ~snapshot.on => Noted(n) = {}
  BY DEF Noted
<1>9. Noted(n) \subseteq DOMAIN ops
  <2>1. snapshot.since \subseteq S
    BY <1>1, <1>3 DEF SnapshotHolds
  <2> QED
    BY <1>4, <2>1 DEF Noted
<1>10. snapshot.on => \A m \in DirName \ Noted(n) :
                        m \in Range(snapshot.slots) <=> m \in now
  BY <1>1 DEF SnapshotHolds, Noted
<1>11. DirFree /\ Change(ops, Noted(n), now)
  BY DEF CreateEntry
<1> HIDE DEF ops, now
<1> QED
  BY <1>5, <1>6, <1>7, <1>8, <1>9, <1>10, <1>11, ChangeKeeps

LEMMA RemoveKeeps ==
  ASSUME ReaddirIInv, NEW n \in DirName, RemoveEntry(n)
  PROVE  ReaddirIInv'
<1>1. ReaddirTyped /\ SnapshotHolds
  BY DEF ReaddirIInv
<1>2. Installed \in ListedBlobs
  BY <1>1 DEF ReaddirTyped, Installed
<1> DEFINE ops == With(Installed.ops, n, "delete")
<1> DEFINE now == Listing \ {n}
<1>3. PICK S \in SUBSET DirName : Installed.ops \in [S -> Ops]
  BY <1>2 DEF ListedBlobs, OpMaps
<1>4. ops \in [S \cup {n} -> Ops] /\ DOMAIN ops = S \cup {n}
      /\ ops[n] = "delete" /\ \A m \in S \ {n} : ops[m] = Installed.ops[m]
  BY <1>3 DEF With, Ops
<1>5. ops \in OpMaps
  BY <1>4 DEF OpMaps
<1>6. Noted(n) \in SUBSET DirName /\ now \in SUBSET DirName
  BY <1>1 DEF Noted, ReaddirTyped, Captures, Listing, Holds
<1>7. Holds([slots |-> Installed.slots, ops |-> ops]) = now
  <2>1. DOMAIN Installed.ops = S
    BY <1>3
  <2> HIDE DEF ops
  <2> QED
    BY <1>4, <2>1 DEF Holds, Listing
<1>8. ~snapshot.on => Noted(n) = {}
  BY DEF Noted
<1>9. Noted(n) \subseteq DOMAIN ops
  <2>1. snapshot.since \subseteq S
    BY <1>1, <1>3 DEF SnapshotHolds
  <2> QED
    BY <1>4, <2>1 DEF Noted
<1>10. snapshot.on => \A m \in DirName \ Noted(n) :
                        m \in Range(snapshot.slots) <=> m \in now
  BY <1>1 DEF SnapshotHolds, Noted
<1>11. DirFree /\ Change(ops, Noted(n), now)
  BY DEF RemoveEntry
<1> HIDE DEF ops, now
<1> QED
  BY <1>5, <1>6, <1>7, <1>8, <1>9, <1>10, <1>11, ChangeKeeps

LEMMA CancelKeeps ==
  ASSUME ReaddirIInv, NEW n \in DirName, CancelEntry(n)
  PROVE  ReaddirIInv'
<1>1. ReaddirTyped /\ SnapshotHolds
  BY DEF ReaddirIInv
<1>2. Installed \in ListedBlobs
  BY <1>1 DEF ReaddirTyped, Installed
<1> DEFINE ops == Without(Installed.ops, n)
<1> DEFINE since == snapshot.since \ {n}
<1> DEFINE now == Listing \ {n}
<1>3. PICK S \in SUBSET DirName : Installed.ops \in [S -> Ops]
  BY <1>2 DEF ListedBlobs, OpMaps
<1>4. ops \in [S \ {n} -> Ops] /\ DOMAIN ops = S \ {n}
      /\ \A m \in S \ {n} : ops[m] = Installed.ops[m]
  BY <1>3 DEF Without
<1>5. ops \in OpMaps
  BY <1>4 DEF OpMaps
<1>6. since \in SUBSET DirName /\ now \in SUBSET DirName
  BY <1>1 DEF ReaddirTyped, Captures, Listing, Holds
<1>7. Holds([slots |-> Installed.slots, ops |-> ops]) = now
  <2>1. DOMAIN Installed.ops = S
    BY <1>3
  <2>2. ~ \E i \in DOMAIN Installed.slots : Installed.slots[i] = n
    BY DEF CancelEntry, Range
  <2> HIDE DEF ops
  <2> QED
    BY <1>4, <2>1, <2>2 DEF Holds, Listing
<1>8. ~snapshot.on => since = {}
  BY <1>1 DEF SnapshotHolds
<1>9. since \subseteq DOMAIN ops
  <2>1. snapshot.since \subseteq S
    BY <1>1, <1>3 DEF SnapshotHolds
  <2> QED
    BY <1>4, <2>1
<1>10. snapshot.on => \A m \in DirName \ since :
                        m \in Range(snapshot.slots) <=> m \in now
  BY <1>1 DEF SnapshotHolds, CancelEntry
<1>11. DirFree /\ Change(ops, since, now)
  BY DEF CancelEntry
<1> HIDE DEF ops, now, since
<1> QED
  BY <1>5, <1>6, <1>7, <1>8, <1>9, <1>10, <1>11, ChangeKeeps

LEMMA CaptureKeeps ==
  ASSUME ReaddirIInv, CompactCapture
  PROVE  ReaddirIInv'
<1>1. ReaddirTyped
  BY DEF ReaddirIInv
<1>2. Installed \in ListedBlobs /\ Len(listed) \in DOMAIN listed
  BY <1>1 DEF ReaddirTyped, Installed
<1> DEFINE base == Installed.slots
<1>3. PICK q \in Arrangements(Collected(Installed)) :
        /\ \A i, j \in DOMAIN q : i < j => MergedBefore(base, q[i], q[j])
        /\ snapshot' = [on |-> TRUE, slots |-> q, since |-> {}]
  BY DEF CompactCapture
<1>4. base \in Seq(DirName) /\ \E S \in SUBSET DirName : Installed.ops \in [S -> Ops]
  BY <1>2 DEF ListedBlobs, OpMaps
<1>5. Collected(Installed) = Listing
  <2>1. PICK S \in SUBSET DirName : Installed.ops \in [S -> Ops]
    BY <1>4
  <2>2. DOMAIN Installed.ops = S
    BY <2>1
  <2>3. \A n : n \in Range(base) <=> \E i \in DOMAIN base : base[i] = n
    BY DEF Range
  <2>4. Range(base) \subseteq DirName
    BY <1>4 DEF Range
  <2> HIDE DEF base
  <2>5. \A n : n \in Collected(Installed) <=>
                 \/ n \in Range(base) /\ (n \in S => Installed.ops[n] = "insert")
                 \/ n \in S /\ Installed.ops[n] = "insert"
    BY <2>2 DEF Collected, base
  <2>6. \A n : n \in Listing <=>
                 n \in DirName /\ IF n \in S THEN Installed.ops[n] = "insert"
                                  ELSE n \in Range(base)
    BY <2>2, <2>3 DEF Listing, Holds, base
  <2> QED
    BY <2>1, <2>4, <2>5, <2>6
<1>6. Listing \subseteq DirName
  BY DEF Listing, Holds
<1>7. Cardinality(Listing) \in Nat
  BY <1>6, ReaddirAssumption, FS_Subset, FS_CardinalityType
<1>8. q \in Seq(DirName) /\ Range(q) = Listing
  BY <1>3, <1>5, <1>6, <1>7 DEF Arrangements
<1>9. /\ UNCHANGED <<hashOf, isRoot, listed, call, got, stayed, wrong>>
      /\ Installed' = Installed /\ Listing' = Listing
  BY DEF CompactCapture, Installed, Listing
<1>10. snapshot' \in Captures /\ snapshot'.on /\ snapshot'.slots = q
       /\ snapshot'.since = {}
  BY <1>3, <1>8 DEF Captures
<1>11. ReaddirTyped'
  BY <1>1, <1>9, <1>10 DEF ReaddirTyped
<1>12. HashOrdered(hashOf, q)
  <2> SUFFICES ASSUME NEW i \in DOMAIN q, NEW j \in DOMAIN q, i < j
               PROVE  hashOf[q[i]] < hashOf[q[j]]
    BY DEF HashOrdered
  <2>1. MergedBefore(base, q[i], q[j])
    BY <1>3
  <2>2. q[i] \in DirName /\ q[j] \in DirName
    BY <1>8
  <2>3. \A x \in Nat : ~(x < x)
    OBVIOUS
  <2>4. \A n \in DirName : hashOf[n] \in Nat /\ n \in Nat
    BY <1>1, ReaddirAssumption DEF ReaddirTyped
  <2>5. q[i] # q[j]
    <3> SUFFICES ASSUME q[i] = q[j] PROVE FALSE
      OBVIOUS
    <3>1. ~(hashOf[q[i]] < hashOf[q[j]])
      BY <2>2, <2>3, <2>4, Zenon
    <3>2. ~(q[i] < q[j])
      BY <2>2, <2>3, <2>4, Zenon
    <3>3. PICK k, l \in DOMAIN base : k < l /\ base[k] = q[i] /\ base[l] = q[j]
      BY <2>1, <3>1, <3>2, Zenon DEF MergedBefore
    <3>4. HashOrdered(hashOf, base)
      BY <1>2 DEF ReaddirIInv, Installed
    <3>5. hashOf[q[i]] < hashOf[q[j]]
      BY <3>3, <3>4, Zenon DEF HashOrdered
    <3> QED
      BY <3>1, <3>5
  <2>6. hashOf[q[i]] # hashOf[q[j]]
    BY <2>2, <2>5 DEF ReaddirIInv
  <2> QED
    BY <2>1, <2>6 DEF MergedBefore
<1>13. SnapshotHolds'
  BY <1>8, <1>9, <1>10 DEF SnapshotHolds
<1>14. CallHolds'
  <2>1. CallHolds
    BY DEF ReaddirIInv
  <2>2. /\ DirFree' = DirFree /\ Pinned' = Pinned /\ Owed' = Owed
        /\ MergeHolds' = MergeHolds
    BY <1>9 DEF DirFree, Pinned, Owed, MergeHolds, Rest
  <2> QED
    BY <1>9, <2>1, <2>2 DEF CallHolds, IsLowerBound
<1>15. \A g \in DOMAIN listed' : HashOrdered(hashOf', listed'[g].slots)
  BY <1>9 DEF ReaddirIInv
<1> QED
  BY <1>9, <1>10, <1>11, <1>12, <1>13, <1>14, <1>15 DEF ReaddirIInv

LEMMA InstallKeeps ==
  ASSUME ReaddirIInv, CompactInstall
  PROVE  ReaddirIInv'
<1>1. ReaddirTyped /\ SnapshotHolds
  BY DEF ReaddirIInv
<1>2. Installed \in ListedBlobs /\ Len(listed) \in DOMAIN listed
  BY <1>1 DEF ReaddirTyped, Installed
<1> DEFINE ops == [n \in snapshot.since |-> Installed.ops[n]]
<1> DEFINE B == [slots |-> snapshot.slots, ops |-> ops]
<1>3. snapshot.on /\ snapshot \in Captures /\ listed' = Append(listed, B)
      /\ snapshot' = NoSnapshot
      /\ UNCHANGED <<hashOf, isRoot, call, got, stayed, changes, wrong>>
  BY <1>1 DEF CompactInstall, ReaddirTyped
<1>4. PICK S \in SUBSET DirName : Installed.ops \in [S -> Ops]
  BY <1>2 DEF ListedBlobs, OpMaps
<1>5. snapshot.since \subseteq S
  BY <1>1, <1>4 DEF SnapshotHolds
<1>6. ops \in [snapshot.since -> Ops] /\ DOMAIN ops = snapshot.since
      /\ \A n \in snapshot.since : ops[n] = Installed.ops[n]
  BY <1>4, <1>5
<1>7. ops \in OpMaps
  BY <1>4, <1>5, <1>6 DEF OpMaps
<1>8. B \in ListedBlobs /\ B.slots = snapshot.slots /\ B.ops = ops
  BY <1>3, <1>7 DEF ListedBlobs, Captures
<1> HIDE DEF ops, B
<1>9. listed \in Seq(ListedBlobs)
  BY <1>1 DEF ReaddirTyped
<1>10. /\ listed' \in Seq(ListedBlobs) /\ Len(listed') = Len(listed) + 1
       /\ listed'[Len(listed) + 1] = B
       /\ \A g \in DOMAIN listed : g \in DOMAIN listed' /\ listed'[g] = listed[g]
       /\ \A g \in DOMAIN listed' : g \in DOMAIN listed \/ g = Len(listed) + 1
  BY <1>3, <1>8, <1>9
<1>11. Installed' = B
  BY <1>10 DEF Installed
<1>12. Holds(B) = Listing
  <2>1. \A n : n \in Range(snapshot.slots) <=>
                 \E i \in DOMAIN snapshot.slots : snapshot.slots[i] = n
    BY DEF Range
  <2>2. \A n \in DirName \ snapshot.since : n \in Holds(B) <=> n \in Listing
    <3>1. \A n \in DirName \ snapshot.since :
            n \in Holds(B) <=> n \in Range(snapshot.slots)
      BY <1>6, <1>8, <2>1 DEF Holds
    <3> QED
      BY <1>1, <1>3, <3>1 DEF SnapshotHolds
  <2>3. \A n \in snapshot.since : n \in Holds(B) <=> n \in Listing
    BY <1>4, <1>5, <1>6, <1>8 DEF Holds, Listing
  <2>4. Holds(B) \subseteq DirName /\ Listing \subseteq DirName
    BY DEF Holds, Listing
  <2> QED
    BY <2>2, <2>3, <2>4
<1>13. Listing' = Listing
  BY <1>11, <1>12 DEF Listing
<1>14. snapshot' \in Captures /\ ~snapshot'.on /\ snapshot'.slots = <<>>
       /\ snapshot'.since = {}
  BY <1>3 DEF NoSnapshot, Captures
<1>15. ReaddirTyped'
  BY <1>1, <1>3, <1>10, <1>14 DEF ReaddirTyped
<1>16. \A g \in DOMAIN listed' : HashOrdered(hashOf', listed'[g].slots)
  BY <1>3, <1>8, <1>10 DEF ReaddirIInv
<1>17. HashOrdered(hashOf', snapshot'.slots)
  BY <1>14 DEF HashOrdered
<1>18. SnapshotHolds'
  BY <1>14 DEF SnapshotHolds
<1>19. CallHolds'
  <2>1. CallHolds
    BY DEF ReaddirIInv
  <2>2. call' = call /\ call.gen \in DOMAIN listed
    BY <1>1, <1>3 DEF ReaddirTyped
  <2>3. Pinned' = Pinned
    BY <1>10, <2>2 DEF Pinned
  <2>4. DirFree' = DirFree /\ Owed' = Owed /\ MergeHolds' = MergeHolds
    BY <1>3, <2>3 DEF DirFree, Owed, MergeHolds, Rest
  <2> QED
    BY <1>3, <1>13, <2>1, <2>3, <2>4 DEF CallHolds, IsLowerBound
<1>20. stayed' \subseteq Listing' /\ ~wrong'
  BY <1>3, <1>13 DEF ReaddirIInv
<1>21. \A m, n \in DirName : hashOf'[m] = hashOf'[n] => m = n
  BY <1>3 DEF ReaddirIInv
<1> QED
  BY <1>15, <1>16, <1>17, <1>18, <1>19, <1>20, <1>21 DEF ReaddirIInv

(* A step of the call leaves the directory alone.                          *)
LEMMA ReaderKeeps ==
  ASSUME ReaddirIInv, UnchangedByReader, call' \in ReaddirCalls,
         call'.gen \in DOMAIN listed, got' \in Seq(DirName),
         CallHolds', ~wrong'
  PROVE  ReaddirIInv'
<1>1. ReaddirTyped
  BY DEF ReaddirIInv
<1>2. UNCHANGED <<hashOf, isRoot, listed, snapshot, stayed>>
      /\ Installed' = Installed /\ Listing' = Listing
  BY DEF UnchangedByReader, Installed, Listing
<1>3. ReaddirTyped'
  BY <1>1, <1>2 DEF ReaddirTyped
<1>4. SnapshotHolds'
  BY <1>2 DEF ReaddirIInv, SnapshotHolds
<1> QED
  BY <1>2, <1>3, <1>4 DEF ReaddirIInv

LEMMA DecodeIsNat ==
  ASSUME NEW pos \in Nat
  PROVE  Decode(pos) \in Nat
BY DEF Decode

LEMMA PinsKeeps ==
  ASSUME ReaddirIInv, NEW r \in Room, CallPins(r)
  PROVE  ReaddirIInv'
<1>1. ReaddirTyped /\ CallHolds
  BY DEF ReaddirIInv
<1>2. Installed \in ListedBlobs /\ Len(listed) \in DOMAIN listed
      /\ Len(listed) \in Nat
  BY <1>1 DEF ReaddirTyped, Installed
<1>3. PICK b \in 1..Len(Installed.slots) + 1 :
        /\ IsLowerBound(b, Installed.slots, call.pos)
        /\ call' = [call EXCEPT !.pc = "pinned", !.gen = Len(listed),
                                !.room = r, !.b = b, !.any = FALSE]
  BY DEF CallPins
<1>4. b \in Nat \ {0}
  BY <1>2 DEF ListedBlobs
<1>5. r \in Nat
  BY ReaddirAssumption
<1>6. call' \in ReaddirCalls /\ call'.pc = "pinned" /\ call'.gen = Len(listed)
      /\ call'.b = b /\ call'.pos = call.pos
  BY <1>1, <1>2, <1>3, <1>4, <1>5 DEF ReaddirTyped, ReaddirCalls
<1>7. UnchangedByReader /\ UNCHANGED <<got, wrong>> /\ call.pc = "idle"
  BY DEF CallPins
<1>8. Pinned' = Installed /\ Listing' = Listing /\ Owed' = Owed
      /\ hashOf' = hashOf
  BY <1>6, <1>7 DEF UnchangedByReader, Pinned, Installed, Listing, Owed
<1>9. CallHolds'
  <2>1. \A n \in Owed : hashOf[n] >= Decode(call.pos)
    BY <1>1, <1>7 DEF CallHolds
  <2>2. IsLowerBound(call.b, Pinned.slots, call.pos)'
    BY <1>3, <1>6, <1>8 DEF IsLowerBound
  <2>3. (Holds(Pinned) = Listing)'
    BY <1>8 DEF Listing
  <2> QED
    BY <1>6, <1>8, <2>1, <2>2, <2>3 DEF CallHolds
<1>10. got' \in Seq(DirName) /\ ~wrong'
  BY <1>1, <1>7 DEF ReaddirTyped, ReaddirIInv
<1> QED
  BY <1>2, <1>6, <1>7, <1>9, <1>10, ReaderKeeps

LEMMA CopiesKeeps ==
  ASSUME ReaddirIInv, CallCopies
  PROVE  ReaddirIInv'
<1>1. ReaddirTyped /\ CallHolds
  BY DEF ReaddirIInv
<1>2. Pinned \in ListedBlobs /\ call \in ReaddirCalls
  BY <1>1 DEF ReaddirTyped, Pinned
<1>3. PICK S \in SUBSET DirName : Pinned.ops \in [S -> Ops]
  BY <1>2 DEF ListedBlobs, OpMaps
<1>4. DOMAIN Pinned.ops = S
  BY <1>3
<1> DEFINE D == {n \in S : hashOf[n] >= Decode(call.pos)}
<1>5. call.pc = "pinned" /\ call' = [call EXCEPT !.pc = "merge", !.delta = D]
      /\ UnchangedByReader /\ UNCHANGED <<got, wrong>>
  BY <1>4 DEF CallCopies, Pinned
<1>6. D \in SUBSET DirName
  BY <1>3
<1>7. call' \in ReaddirCalls /\ call'.pc = "merge" /\ call'.gen = call.gen
      /\ call'.b = call.b /\ call'.delta = D
  BY <1>2, <1>5, <1>6 DEF ReaddirCalls
<1>8. Pinned' = Pinned /\ Listing' = Listing /\ Owed' = Owed
      /\ hashOf' = hashOf
  BY <1>5, <1>7 DEF UnchangedByReader, Pinned, Installed, Listing, Owed
<1>9. Holds(Pinned) = Listing /\ IsLowerBound(call.b, Pinned.slots, call.pos)
      /\ \A n \in Owed : hashOf[n] >= Decode(call.pos)
  BY <1>1, <1>5 DEF CallHolds, DirFree
<1>10. \A i \in DOMAIN Pinned.slots : Pinned.slots[i] \in DirName /\ i \in Nat
  BY <1>2 DEF ListedBlobs
<1>11. Decode(call.pos) \in Nat /\ call.b \in Nat
  BY <1>2, DecodeIsNat DEF ReaddirCalls
<1>12. \A n \in DirName : hashOf[n] \in Nat
  BY <1>1, ReaddirAssumption DEF ReaddirTyped
<1>13. \A i \in DOMAIN Pinned.slots :
         i >= call.b <=> hashOf[Pinned.slots[i]] >= Decode(call.pos)
  BY <1>9, <1>10, <1>11, <1>12 DEF IsLowerBound
<1>14. \A i \in Rest : Pinned.slots[i] \in S => Pinned.slots[i] \in D
  BY <1>13 DEF Rest
<1>15. \A n \in Owed : n \in D \/ \E i \in Rest : Pinned.slots[i] = n
  <2> SUFFICES ASSUME NEW n \in Owed, n \notin D
               PROVE  \E i \in Rest : Pinned.slots[i] = n
    OBVIOUS
  <2>1. hashOf[n] >= Decode(call.pos) /\ n \notin S
    BY <1>9
  <2>2. n \in Listing
    BY DEF Owed, ReaddirIInv
  <2>3. PICK i \in DOMAIN Pinned.slots : Pinned.slots[i] = n
    BY <1>4, <1>9, <2>1, <2>2 DEF Holds
  <2> QED
    BY <1>13, <2>1, <2>3 DEF Rest
<1>16. Rest' = Rest
  BY <1>7, <1>8 DEF Rest
<1> HIDE DEF D
<1>17. MergeHolds'
  <2>1. D \subseteq S
    BY DEF D
  <2> QED
    BY <1>4, <1>7, <1>8, <1>14, <1>15, <1>16, <2>1 DEF MergeHolds
<1>18. CallHolds'
  BY <1>7, <1>8, <1>9, <1>17 DEF CallHolds
<1>19. got' \in Seq(DirName) /\ ~wrong' /\ call.gen \in DOMAIN listed
  BY <1>1, <1>5 DEF ReaddirTyped, ReaddirIInv
<1> QED
  BY <1>5, <1>7, <1>18, <1>19, ReaderKeeps

-----------------------------------------------------------------------------
(* The merge: what it has next, and what is left behind it.                *)
LEMMA MergeTypes ==
  ASSUME ReaddirIInv, call.pc = "merge"
  PROVE  /\ \A n \in DirName : hashOf[n] \in Nat /\ n \in Nat
         /\ \A i \in DOMAIN Pinned.slots : Pinned.slots[i] \in DirName /\ i \in Nat
         /\ call \in ReaddirCalls /\ call.b \in Nat \ {0} /\ call.delta \subseteq DirName
         /\ Holds(Pinned) = Listing /\ MergeHolds
         /\ HashOrdered(hashOf, Pinned.slots)
         /\ \A m, n \in DirName : hashOf[m] = hashOf[n] => m = n
         /\ Owed \subseteq DirName
<1>1. ReaddirTyped /\ CallHolds
  BY DEF ReaddirIInv
<1>2. Pinned \in ListedBlobs /\ call \in ReaddirCalls
  BY <1>1 DEF ReaddirTyped, Pinned
<1>3. \A n \in DirName : hashOf[n] \in Nat /\ n \in Nat
  BY <1>1, ReaddirAssumption DEF ReaddirTyped
<1>4. \A i \in DOMAIN Pinned.slots : Pinned.slots[i] \in DirName /\ i \in Nat
  BY <1>2 DEF ListedBlobs
<1>5. call.b \in Nat \ {0} /\ call.delta \subseteq DirName
  BY <1>2 DEF ReaddirCalls
<1>6. Holds(Pinned) = Listing /\ MergeHolds
  BY <1>1 DEF CallHolds, DirFree
<1>7. HashOrdered(hashOf, Pinned.slots)
  BY <1>1 DEF ReaddirIInv, ReaddirTyped, Pinned
<1>8. Owed \subseteq DirName
  BY <1>1 DEF ReaddirTyped, Owed
<1> QED
  BY <1>2, <1>3, <1>4, <1>5, <1>6, <1>7, <1>8 DEF ReaddirIInv

LEMMA NextNames ==
  ASSUME ReaddirIInv, call.pc = "merge"
  PROVE  /\ BaseLeft => BaseNext \in DirName
         /\ DeltaLeft => /\ DeltaNext \in call.delta /\ DeltaNext \in DirName
                         /\ \A m \in call.delta : hashOf[DeltaNext] <= hashOf[m]
         /\ \A i \in Rest : BaseLeft /\ hashOf[BaseNext] <= hashOf[Pinned.slots[i]]
<1>1. /\ \A n \in DirName : hashOf[n] \in Nat /\ n \in Nat
      /\ \A i \in DOMAIN Pinned.slots : Pinned.slots[i] \in DirName /\ i \in Nat
      /\ call.b \in Nat \ {0} /\ call.delta \subseteq DirName
      /\ HashOrdered(hashOf, Pinned.slots)
      /\ \A m, n \in DirName : hashOf[m] = hashOf[n] => m = n
  BY MergeTypes
<1>2. BaseLeft => BaseNext \in DirName
  BY <1>1 DEF BaseLeft, BaseNext, Pinned
<1>3. ASSUME DeltaLeft
      PROVE  /\ DeltaNext \in call.delta /\ DeltaNext \in DirName
             /\ \A m \in call.delta : hashOf[DeltaNext] <= hashOf[m]
  <2>1. ReaddirTyped /\ call.delta # {}
    BY <1>3 DEF ReaddirIInv, DeltaLeft
  <2>2. \E n \in call.delta : \A m \in call.delta : ~Before(m, n)
    BY <1>1, <2>1, LeastIsThere
  <2>3. DeltaNext \in call.delta /\ \A m \in call.delta : ~Before(m, DeltaNext)
    BY <2>2 DEF DeltaNext
  <2>4. \A m \in call.delta : ~(hashOf[m] < hashOf[DeltaNext])
    BY <2>3 DEF Before
  <2>5. DeltaNext \in DirName
    BY <1>1, <2>3
  <2>6. \A m \in call.delta : hashOf[DeltaNext] <= hashOf[m]
    BY <1>1, <2>4, <2>5
  <2> QED
    BY <2>3, <2>5, <2>6
<1>4. ASSUME NEW i \in Rest
      PROVE  BaseLeft /\ hashOf[BaseNext] <= hashOf[Pinned.slots[i]]
  <2>1. i \in DOMAIN Pinned.slots /\ i >= call.b
    BY DEF Rest
  <2>2. Pinned.slots \in Seq(DirName)
    <3>1. ReaddirTyped
      BY DEF ReaddirIInv
    <3>2. Pinned \in ListedBlobs
      BY <3>1 DEF ReaddirTyped, Pinned
    <3> QED
      BY <3>2 DEF ListedBlobs
  <2>3. call.b \in DOMAIN Pinned.slots
    BY <1>1, <2>1, <2>2
  <2>4. BaseLeft
    BY <2>3 DEF BaseLeft, Pinned
  <2>5. CASE i = call.b
    BY <1>1, <2>1, <2>3, <2>4, <2>5 DEF BaseNext, Pinned
  <2>6. CASE i > call.b
    <3>1. hashOf[Pinned.slots[call.b]] < hashOf[Pinned.slots[i]]
      BY <1>1, <2>1, <2>3, <2>6 DEF HashOrdered
    <3> QED
      BY <1>1, <2>1, <2>3, <2>4, <3>1 DEF BaseNext, Pinned
  <2> QED
    BY <1>1, <2>1, <2>4, <2>5, <2>6
<1> QED
  BY <1>2, <1>3, <1>4

LEMMA TakesLeast ==
  ASSUME ReaddirIInv, call.pc = "merge"
  PROVE  /\ TakeBase => /\ BaseLeft
                        /\ DeltaLeft => hashOf[BaseNext] <= hashOf[DeltaNext]
         /\ TakeDelta => /\ DeltaLeft
                         /\ BaseLeft => hashOf[DeltaNext] <= hashOf[BaseNext]
         /\ TakeBase /\ TakeDelta => BaseNext = DeltaNext
         /\ BaseLeft /\ TakeDelta /\ ~TakeBase =>
              hashOf[DeltaNext] < hashOf[BaseNext]
         /\ DeltaLeft /\ TakeBase /\ ~TakeDelta =>
              hashOf[BaseNext] < hashOf[DeltaNext]
         /\ BaseLeft \/ DeltaLeft => TakeBase \/ TakeDelta
<1>1. /\ BaseLeft => BaseNext \in DirName
      /\ DeltaLeft => DeltaNext \in DirName
  BY NextNames
<1>2. /\ \A n \in DirName : hashOf[n] \in Nat /\ n \in Nat
      /\ \A m, n \in DirName : hashOf[m] = hashOf[n] => m = n
  BY MergeTypes
<1>3. \A m, n \in DirName : Before(m, n) <=> hashOf[m] < hashOf[n]
  <2> SUFFICES ASSUME NEW m \in DirName, NEW n \in DirName
               PROVE  Before(m, n) <=> hashOf[m] < hashOf[n]
    OBVIOUS
  <2>1. m = n => ~(m < n)
    BY <1>2
  <2> QED
    BY <1>2, <2>1 DEF Before
<1>4. \A m, n \in DirName : ~Before(m, n) <=> hashOf[n] <= hashOf[m]
  BY <1>2, <1>3
<1>5. TakeBase <=> BaseLeft /\ (DeltaLeft => hashOf[BaseNext] <= hashOf[DeltaNext])
  BY <1>1, <1>4 DEF TakeBase
<1>6. TakeDelta <=> DeltaLeft /\ (BaseLeft => hashOf[DeltaNext] <= hashOf[BaseNext])
  BY <1>1, <1>4 DEF TakeDelta
<1>7. BaseLeft /\ DeltaLeft => /\ hashOf[BaseNext] \in Nat
                               /\ hashOf[DeltaNext] \in Nat
  BY <1>1, <1>2
<1>8. TakeBase /\ TakeDelta => BaseNext = DeltaNext
  <2> SUFFICES ASSUME TakeBase, TakeDelta PROVE BaseNext = DeltaNext
    OBVIOUS
  <2>1. BaseLeft /\ DeltaLeft
    BY <1>5, <1>6
  <2>2. hashOf[BaseNext] = hashOf[DeltaNext]
    BY <1>5, <1>6, <1>7, <2>1
  <2> QED
    BY <1>1, <1>2, <2>1, <2>2
<1> HIDE DEF TakeBase, TakeDelta
<1> QED
  BY <1>5, <1>6, <1>7, <1>8

(* The name that comes next is the least of what is owed, and stepping     *)
(* over it keeps the merge able to find the others.                        *)
LEMMA AdvancedHolds ==
  ASSUME ReaddirIInv, call.pc = "merge", TakeBase \/ TakeDelta
  PROVE  /\ Advanced(call) \in ReaddirCalls
         /\ Advanced(call).pc = "merge" /\ Advanced(call).gen = call.gen
         /\ Emitted \in DirName
         /\ TakeDelta => Emitted = DeltaNext /\ Emitted \in call.delta
         /\ ~TakeDelta => Emitted \in Listing
         /\ Advanced(call).delta \subseteq DOMAIN Pinned.ops
         /\ \A i \in DOMAIN Pinned.slots :
              i >= Advanced(call).b /\ Pinned.slots[i] \in DOMAIN Pinned.ops
                => Pinned.slots[i] \in Advanced(call).delta
         /\ \A n \in Owed \ {Emitted} :
              \/ n \in Advanced(call).delta
              \/ \E i \in DOMAIN Pinned.slots :
                   i >= Advanced(call).b /\ Pinned.slots[i] = n
         /\ \A n \in Owed : hashOf[Emitted] <= hashOf[n]
<1> DEFINE c == Advanced(call)
<1>1. /\ \A n \in DirName : hashOf[n] \in Nat /\ n \in Nat
      /\ \A i \in DOMAIN Pinned.slots : Pinned.slots[i] \in DirName /\ i \in Nat
      /\ call \in ReaddirCalls /\ call.b \in Nat \ {0} /\ call.delta \subseteq DirName
      /\ Holds(Pinned) = Listing /\ MergeHolds
      /\ HashOrdered(hashOf, Pinned.slots)
      /\ Owed \subseteq DirName
  BY MergeTypes
<1>2. /\ BaseLeft => BaseNext \in DirName
      /\ DeltaLeft => /\ DeltaNext \in call.delta /\ DeltaNext \in DirName
                      /\ \A m \in call.delta : hashOf[DeltaNext] <= hashOf[m]
      /\ \A i \in Rest : BaseLeft /\ hashOf[BaseNext] <= hashOf[Pinned.slots[i]]
  BY NextNames
<1>3. /\ TakeBase => /\ BaseLeft
                     /\ DeltaLeft => hashOf[BaseNext] <= hashOf[DeltaNext]
      /\ TakeDelta => /\ DeltaLeft
                      /\ BaseLeft => hashOf[DeltaNext] <= hashOf[BaseNext]
      /\ TakeBase /\ TakeDelta => BaseNext = DeltaNext
      /\ BaseLeft /\ TakeDelta /\ ~TakeBase => hashOf[DeltaNext] < hashOf[BaseNext]
      /\ DeltaLeft /\ TakeBase /\ ~TakeDelta => hashOf[BaseNext] < hashOf[DeltaNext]
  BY TakesLeast
<1>4. /\ c.b = IF TakeBase THEN call.b + 1 ELSE call.b
      /\ c.delta = IF TakeDelta THEN call.delta \ {DeltaNext} ELSE call.delta
      /\ c.pc = call.pc /\ c.gen = call.gen /\ c \in ReaddirCalls
  <2>1. c = [call EXCEPT !.b = IF TakeBase THEN call.b + 1 ELSE call.b,
                         !.delta = IF TakeDelta THEN call.delta \ {DeltaNext}
                                   ELSE call.delta]
    BY <1>1 DEF Advanced, ReaddirCalls
  <2>2. (IF TakeBase THEN call.b + 1 ELSE call.b) \in Nat \ {0}
    BY <1>1
  <2>3. (IF TakeDelta THEN call.delta \ {DeltaNext} ELSE call.delta)
          \in SUBSET DirName
    BY <1>1
  <2> QED
    BY <1>1, <2>1, <2>2, <2>3 DEF ReaddirCalls
<1>5. Emitted = IF TakeDelta THEN DeltaNext ELSE BaseNext
  BY DEF Emitted
<1>6. Emitted \in DirName /\ (TakeDelta => Emitted = DeltaNext
                                           /\ Emitted \in call.delta)
  BY <1>2, <1>3, <1>5
<1>7. BaseLeft => call.b \in Rest /\ Pinned.slots[call.b] = BaseNext
  BY <1>1 DEF BaseLeft, BaseNext, Rest, Pinned
<1>8. \A i \in Rest : Pinned.slots[i] \in DOMAIN Pinned.ops
                        => Pinned.slots[i] \in call.delta
  BY <1>1 DEF MergeHolds
<1>9. ASSUME ~TakeDelta
      PROVE  Emitted \in Listing
  <2>1. TakeBase /\ BaseLeft /\ Emitted = BaseNext
    BY <1>3, <1>5, <1>9
  <2>2. BaseNext \notin DOMAIN Pinned.ops
    <3> SUFFICES ASSUME BaseNext \in DOMAIN Pinned.ops PROVE FALSE
      OBVIOUS
    <3>1. BaseNext \in call.delta
      BY <1>7, <1>8, <2>1
    <3>2. DeltaLeft
      BY <3>1 DEF DeltaLeft
    <3>3. hashOf[DeltaNext] <= hashOf[BaseNext]
      BY <1>2, <3>1, <3>2
    <3>4. hashOf[BaseNext] < hashOf[DeltaNext]
      BY <1>3, <1>9, <2>1, <3>2
    <3>5. hashOf[BaseNext] \in Nat /\ hashOf[DeltaNext] \in Nat
      BY <1>1, <1>2, <2>1, <3>2
    <3> QED
      BY <3>3, <3>4, <3>5
  <2>3. BaseNext \in Holds(Pinned)
    <3>1. call.b \in DOMAIN Pinned.slots
      BY <1>7, <2>1 DEF Rest
    <3> QED
      BY <1>2, <1>7, <2>1, <2>2, <3>1 DEF Holds
  <2> QED
    BY <1>1, <2>1, <2>3
<1>10. c.delta \subseteq DOMAIN Pinned.ops
  BY <1>1, <1>4 DEF MergeHolds
<1>11. ASSUME NEW i \in DOMAIN Pinned.slots, i >= c.b,
              Pinned.slots[i] \in DOMAIN Pinned.ops
       PROVE  Pinned.slots[i] \in c.delta
  <2>1. i \in Rest
    BY <1>1, <1>4, <1>11 DEF Rest
  <2>2. Pinned.slots[i] \in call.delta
    BY <1>8, <1>11, <2>1
  <2>3. BaseLeft /\ hashOf[BaseNext] <= hashOf[Pinned.slots[i]]
    BY <1>2, <2>1
  <2>4. ASSUME TakeDelta
        PROVE  hashOf[DeltaNext] < hashOf[Pinned.slots[i]]
    <3>1. /\ hashOf[BaseNext] \in Nat /\ hashOf[DeltaNext] \in Nat
          /\ hashOf[Pinned.slots[i]] \in Nat
      BY <1>1, <1>2, <1>3, <2>3, <2>4
    <3>2. CASE TakeBase
      <4>1. call.b < i /\ call.b \in DOMAIN Pinned.slots
        BY <1>1, <1>4, <1>7, <1>11, <2>3, <3>2 DEF Rest
      <4>2. hashOf[Pinned.slots[call.b]] < hashOf[Pinned.slots[i]]
        BY <1>1, <4>1 DEF HashOrdered
      <4>3. BaseNext = DeltaNext
        BY <1>3, <2>4, <3>2
      <4> QED
        BY <1>7, <2>3, <4>2, <4>3
    <3>3. CASE ~TakeBase
      <4>1. hashOf[DeltaNext] < hashOf[BaseNext]
        BY <1>3, <2>3, <2>4, <3>3
      <4> QED
        BY <2>3, <3>1, <4>1
    <3> QED
      BY <3>2, <3>3
  <2>5. TakeDelta => Pinned.slots[i] # DeltaNext
    <3>1. \A x \in Nat : ~(x < x)
      OBVIOUS
    <3>2. hashOf[Pinned.slots[i]] \in Nat
      BY <1>1
    <3> QED
      BY <2>4, <3>1, <3>2
  <2> QED
    BY <1>4, <2>2, <2>5
<1>12. ASSUME NEW n \in Owed, n # Emitted
       PROVE  \/ n \in c.delta
              \/ \E i \in DOMAIN Pinned.slots : i >= c.b /\ Pinned.slots[i] = n
  <2>1. n \in call.delta \/ \E i \in Rest : Pinned.slots[i] = n
    BY <1>1 DEF MergeHolds
  <2>2. CASE n \in call.delta
    BY <1>4, <1>6, <1>12, <2>2
  <2>3. CASE \E i \in Rest : Pinned.slots[i] = n
    <3>1. PICK i \in Rest : Pinned.slots[i] = n
      BY <2>3
    <3>2. i \in DOMAIN Pinned.slots /\ i >= call.b /\ i \in Nat
      BY <1>1 DEF Rest
    <3>3. TakeBase => i # call.b
      <4> SUFFICES ASSUME TakeBase, i = call.b PROVE FALSE
        OBVIOUS
      <4>1. n = BaseNext
        BY <1>3, <1>7, <3>1
      <4>2. Emitted = BaseNext
        BY <1>3, <1>5
      <4> QED
        BY <1>12, <4>1, <4>2
    <3>4. i >= c.b
      BY <1>1, <1>4, <3>2, <3>3
    <3> QED
      BY <3>1, <3>2, <3>4
  <2> QED
    BY <2>1, <2>2, <2>3
<1>13. ASSUME NEW n \in Owed
       PROVE  hashOf[Emitted] <= hashOf[n]
  <2>1. n \in call.delta \/ \E i \in Rest : Pinned.slots[i] = n
    BY <1>1 DEF MergeHolds
  <2>2. hashOf[n] \in Nat /\ hashOf[Emitted] \in Nat
    BY <1>1, <1>6
  <2>3. CASE n \in call.delta
    <3>1. DeltaLeft /\ hashOf[DeltaNext] <= hashOf[n]
      BY <1>2, <2>3 DEF DeltaLeft
    <3>2. hashOf[DeltaNext] \in Nat
      BY <1>1, <1>2, <3>1
    <3>3. hashOf[Emitted] <= hashOf[DeltaNext]
      BY <1>3, <1>5, <2>2, <3>1, <3>2
    <3> QED
      BY <2>2, <3>1, <3>2, <3>3
  <2>4. CASE \E i \in Rest : Pinned.slots[i] = n
    <3>1. BaseLeft /\ hashOf[BaseNext] <= hashOf[n]
      BY <1>2, <2>4
    <3>2. hashOf[BaseNext] \in Nat
      BY <1>1, <1>2, <3>1
    <3>3. hashOf[Emitted] <= hashOf[BaseNext]
      BY <1>3, <1>5, <2>2, <3>1, <3>2
    <3> QED
      BY <2>2, <3>1, <3>2, <3>3
  <2> QED
    BY <2>1, <2>3, <2>4
<1> HIDE DEF c
<1>14. c.pc = "merge"
  BY <1>4
<1>15. \A i \in DOMAIN Pinned.slots :
         i >= c.b /\ Pinned.slots[i] \in DOMAIN Pinned.ops
           => Pinned.slots[i] \in c.delta
  BY <1>11
<1>16. \A n \in Owed \ {Emitted} :
         n \in c.delta
         \/ \E i \in DOMAIN Pinned.slots : i >= c.b /\ Pinned.slots[i] = n
  BY <1>12
<1> QED
  BY <1>4, <1>6, <1>9, <1>10, <1>13, <1>14, <1>15, <1>16 DEF c

(* What a step of the merge leaves is a merge again, less the name given.  *)
LEMMA MergeGoesOn ==
  ASSUME ReaddirIInv, call.pc = "merge", TakeBase \/ TakeDelta,
         UnchangedByReader, call' \in ReaddirCalls, call'.pc = "merge",
         call'.gen = call.gen, call'.b = Advanced(call).b,
         call'.delta = Advanced(call).delta,
         Owed' \subseteq Owed \ {Emitted}
  PROVE  CallHolds'
<1>1. /\ Advanced(call).delta \subseteq DOMAIN Pinned.ops
      /\ \A i \in DOMAIN Pinned.slots :
           i >= Advanced(call).b /\ Pinned.slots[i] \in DOMAIN Pinned.ops
             => Pinned.slots[i] \in Advanced(call).delta
      /\ \A n \in Owed \ {Emitted} :
           \/ n \in Advanced(call).delta
           \/ \E i \in DOMAIN Pinned.slots :
                i >= Advanced(call).b /\ Pinned.slots[i] = n
  BY AdvancedHolds
<1>2. Pinned' = Pinned /\ Listing' = Listing
  BY DEF UnchangedByReader, Pinned, Listing, Installed
<1>3. Holds(Pinned) = Listing
  BY MergeTypes
<1>4. MergeHolds'
  BY <1>1, <1>2 DEF MergeHolds, Rest
<1> QED
  BY <1>2, <1>3, <1>4 DEF CallHolds

LEMMA SkipsKeeps ==
  ASSUME ReaddirIInv, CallSkips
  PROVE  ReaddirIInv'
<1>1. call.pc = "merge" /\ TakeDelta /\ Pinned.ops[DeltaNext] = "delete"
      /\ call' = Advanced(call) /\ UnchangedByReader /\ UNCHANGED <<got, wrong>>
  BY DEF CallSkips, Pinned
<1>2. /\ Advanced(call) \in ReaddirCalls /\ Advanced(call).pc = "merge"
      /\ Advanced(call).gen = call.gen
      /\ Emitted = DeltaNext /\ Emitted \in call.delta
  BY <1>1, AdvancedHolds
<1>3. Holds(Pinned) = Listing /\ MergeHolds
  BY <1>1, MergeTypes
<1>4. DeltaNext \in DOMAIN Pinned.ops
  BY <1>2, <1>3 DEF MergeHolds
<1>5. DeltaNext \notin Listing
  BY <1>1, <1>3, <1>4 DEF Holds
<1>6. Emitted \notin Owed
  BY <1>2, <1>5 DEF Owed, ReaddirIInv
<1>7. Owed' = Owed
  BY <1>1 DEF Owed, UnchangedByReader
<1>8. CallHolds'
  BY <1>1, <1>2, <1>6, <1>7, MergeGoesOn
<1>9. got' \in Seq(DirName) /\ ~wrong' /\ call.gen \in DOMAIN listed
  BY <1>1 DEF ReaddirIInv, ReaddirTyped
<1> QED
  BY <1>1, <1>2, <1>8, <1>9, ReaderKeeps

LEMMA EmitsKeeps ==
  ASSUME ReaddirIInv, CallEmits
  PROVE  ReaddirIInv'
<1>1. /\ call.pc = "merge" /\ (TakeBase \/ TakeDelta) /\ call.room > 0
      /\ TakeDelta => Pinned.ops[DeltaNext] = "insert"
      /\ call' = [Advanced(call) EXCEPT !.room = @ - 1, !.any = TRUE,
                                        !.pos = Encode(hashOf[Emitted]) + 1]
      /\ got' = Append(got, Emitted)
      /\ wrong' = (wrong \/ Emitted \notin Listing)
      /\ UnchangedByReader
  BY DEF CallEmits, MergeEmits, Pinned
<1>2. /\ Advanced(call) \in ReaddirCalls /\ Advanced(call).pc = "merge"
      /\ Advanced(call).gen = call.gen /\ Emitted \in DirName
      /\ TakeDelta => Emitted = DeltaNext /\ Emitted \in call.delta
      /\ ~TakeDelta => Emitted \in Listing
  BY <1>1, AdvancedHolds
<1>3. call \in ReaddirCalls /\ Holds(Pinned) = Listing /\ MergeHolds
      /\ hashOf[Emitted] \in Nat
  BY <1>1, <1>2, MergeTypes
<1>4. Encode(hashOf[Emitted]) + 1 \in Nat
  BY <1>3, ReaddirAssumption DEF Encode, SmallerOf
<1>5. Advanced(call).room = call.room /\ call.room \in Nat
  BY <1>3 DEF Advanced, ReaddirCalls
<1>6. Advanced(call).room - 1 \in Nat
  BY <1>1, <1>5
<1>7. call' \in ReaddirCalls /\ call'.pc = "merge" /\ call'.gen = call.gen
      /\ call'.b = Advanced(call).b /\ call'.delta = Advanced(call).delta
  BY <1>1, <1>2, <1>4, <1>6 DEF ReaddirCalls
<1>8. got \in Seq(DirName) /\ call.gen \in DOMAIN listed /\ ~wrong
  BY DEF ReaddirIInv, ReaddirTyped
<1>9. got' \in Seq(DirName)
  BY <1>1, <1>2, <1>8
<1>10. Owed' \subseteq Owed \ {Emitted}
  <2>1. Emitted \in Range(got')
    <3>1. Len(got) + 1 \in DOMAIN got' /\ got'[Len(got) + 1] = Emitted
      BY <1>1, <1>2, <1>8
    <3> QED
      BY <3>1 DEF Range
  <2>2. Range(got) \subseteq Range(got')
    <3>1. \A i \in DOMAIN got : i \in DOMAIN got' /\ got'[i] = got[i]
      BY <1>1, <1>2, <1>8
    <3> QED
      BY <3>1 DEF Range
  <2>3. stayed' = stayed
    BY <1>1 DEF UnchangedByReader
  <2> QED
    BY <2>1, <2>2, <2>3 DEF Owed
<1>11. CallHolds'
  BY <1>1, <1>7, <1>10, MergeGoesOn
<1>12. Emitted \in Listing
  <2>1. TakeDelta => Emitted \in DOMAIN Pinned.ops
    BY <1>2, <1>3 DEF MergeHolds
  <2>2. TakeDelta => Emitted \in Holds(Pinned)
    BY <1>1, <1>2, <2>1 DEF Holds
  <2> QED
    BY <1>2, <1>3, <2>2
<1>13. ~wrong'
  BY <1>1, <1>8, <1>12
<1> QED
  BY <1>1, <1>7, <1>8, <1>9, <1>11, <1>13, ReaderKeeps

(* The cursor at a name, decoded, is not behind its hash.                  *)
LEMMA CursorIsNotPast ==
  ASSUME NEW key \in Nat
  PROVE  Encode(key) \in Nat /\ Decode(Encode(key)) <= key
<1>1. LastCursor \in Nat
  BY ReaddirAssumption
<1>2. key \div 2 \in Nat /\ 2 * (key \div 2) <= key
  OBVIOUS
<1> DEFINE s == SmallerOf(key \div 2, LastCursor)
<1>3. s \in Nat /\ s <= key \div 2
  BY <1>1, <1>2 DEF SmallerOf
<1>4. Encode(key) = s + 2
  BY DEF Encode
<1> HIDE DEF s
<1>5. Decode(Encode(key)) = 2 * s
  BY <1>3, <1>4 DEF Decode
<1>6. 2 * s <= key
  BY <1>2, <1>3
<1> QED
  BY <1>3, <1>4, <1>5, <1>6

LEMMA FullsKeeps ==
  ASSUME ReaddirIInv, CallFulls
  PROVE  ReaddirIInv'
<1>1. /\ call.pc = "merge" /\ (TakeBase \/ TakeDelta)
      /\ call' = [call EXCEPT !.pc = "idle", !.pos = Encode(hashOf[Emitted]),
                              !.delta = {}]
      /\ UnchangedByReader /\ UNCHANGED <<got, wrong>>
  BY DEF CallFulls, MergeEmits
<1>2. Emitted \in DirName /\ \A n \in Owed : hashOf[Emitted] <= hashOf[n]
  BY <1>1, AdvancedHolds
<1>3. call \in ReaddirCalls /\ Owed \subseteq DirName
      /\ \A n \in DirName : hashOf[n] \in Nat
  BY <1>1, MergeTypes
<1> DEFINE pos == Encode(hashOf[Emitted])
<1>4. pos \in Nat /\ Decode(pos) <= hashOf[Emitted]
  BY <1>2, <1>3, CursorIsNotPast
<1>5. Decode(pos) \in Nat
  BY <1>4, DecodeIsNat
<1>6. call' \in ReaddirCalls /\ call'.pc = "idle" /\ call'.gen = call.gen
      /\ call'.pos = pos
  BY <1>1, <1>3, <1>4 DEF ReaddirCalls
<1> HIDE DEF pos
<1>7. \A n \in Owed : hashOf[n] >= Decode(pos)
  BY <1>2, <1>3, <1>4, <1>5
<1>8. Owed' = Owed /\ hashOf' = hashOf
  BY <1>1 DEF Owed, UnchangedByReader
<1>9. CallHolds'
  BY <1>6, <1>7, <1>8 DEF CallHolds, DirFree
<1>10. got' \in Seq(DirName) /\ ~wrong' /\ call.gen \in DOMAIN listed
  BY <1>1 DEF ReaddirIInv, ReaddirTyped
<1> QED
  BY <1>1, <1>6, <1>9, <1>10, ReaderKeeps

LEMMA EndsKeeps ==
  ASSUME ReaddirIInv, CallEnds
  PROVE  ReaddirIInv'
<1>1. /\ call.pc = "merge" /\ ~TakeBase /\ ~TakeDelta
      /\ call' = [call EXCEPT !.pc = IF call.any THEN "idle" ELSE "end"]
      /\ UnchangedByReader /\ UNCHANGED <<got, wrong>>
  BY DEF CallEnds
<1>2. ~BaseLeft /\ ~DeltaLeft
  BY <1>1, TakesLeast
<1>3. MergeHolds /\ call \in ReaddirCalls
  BY <1>1, MergeTypes
<1>4. Rest = {} /\ call.delta = {}
  BY <1>1, <1>2, NextNames DEF DeltaLeft
<1>5. Owed = {}
  BY <1>3, <1>4 DEF MergeHolds
<1>6. call' \in ReaddirCalls /\ call'.pc \in {"idle", "end"} /\ call'.gen = call.gen
  BY <1>1, <1>3 DEF ReaddirCalls
<1>7. Owed' = {}
  BY <1>1, <1>5 DEF Owed, UnchangedByReader
<1>8. CallHolds'
  BY <1>6, <1>7 DEF CallHolds, DirFree
<1>9. got' \in Seq(DirName) /\ ~wrong' /\ call.gen \in DOMAIN listed
  BY <1>1 DEF ReaddirIInv, ReaddirTyped
<1> QED
  BY <1>1, <1>6, <1>8, <1>9, ReaderKeeps

LEMMA ReaddirStep == ReaddirIInv /\ [ReaddirNext]_readdirVars => ReaddirIInv'
<1> SUFFICES ASSUME ReaddirIInv, [ReaddirNext]_readdirVars PROVE ReaddirIInv'
  OBVIOUS
<1>1. ASSUME NEW n \in DirName, CreateEntry(n) PROVE ReaddirIInv'
  BY <1>1, CreateKeeps
<1>2. ASSUME NEW n \in DirName, RemoveEntry(n) PROVE ReaddirIInv'
  BY <1>2, RemoveKeeps
<1>3. ASSUME NEW n \in DirName, CancelEntry(n) PROVE ReaddirIInv'
  BY <1>3, CancelKeeps
<1>4. CASE CompactCapture
  BY <1>4, CaptureKeeps
<1>5. CASE CompactInstall
  BY <1>5, InstallKeeps
<1>6. ASSUME NEW r \in Room, CallPins(r) PROVE ReaddirIInv'
  BY <1>6, PinsKeeps
<1>7. CASE CallCopies
  BY <1>7, CopiesKeeps
<1>8. CASE CallSkips
  BY <1>8, SkipsKeeps
<1>9. CASE CallEmits
  BY <1>9, EmitsKeeps
<1>10. CASE CallFulls
  BY <1>10, FullsKeeps
<1>11. CASE CallEnds
  BY <1>11, EndsKeeps
<1>12. CASE UNCHANGED readdirVars
  <2>1. UNCHANGED <<hashOf, isRoot, listed, snapshot, call, got, stayed, wrong>>
    BY <1>12 DEF readdirVars
  <2>2. /\ Installed' = Installed /\ Listing' = Listing /\ Pinned' = Pinned
        /\ DirFree' = DirFree /\ Owed' = Owed /\ MergeHolds' = MergeHolds
    BY <2>1 DEF Installed, Listing, Pinned, DirFree, Owed, MergeHolds, Rest
  <2>3. ReaddirTyped' /\ SnapshotHolds' /\ CallHolds'
    BY <2>1, <2>2 DEF ReaddirIInv, ReaddirTyped, SnapshotHolds, CallHolds,
                      IsLowerBound
  <2> QED
    BY <2>1, <2>2, <2>3 DEF ReaddirIInv
<1> QED
  BY <1>1, <1>2, <1>3, <1>4, <1>5, <1>6, <1>7, <1>8, <1>9, <1>10, <1>11, <1>12
     DEF ReaddirNext

(* A listing over several getdents calls that has come to its end gave      *)
(* every name that was there all the while, and every name it gave was      *)
(* there when it gave it, if no two names agree in all 64 hashed bits.      *)
THEOREM ListingIsFaithful ==
  ASSUME ~Collide
  PROVE  ReaddirSpec => []ListingFaithful
<1>1. ReaddirInit => ReaddirIInv
  BY ReaddirInitIInv
<1>2. ReaddirIInv => ListingFaithful
  BY DEF ReaddirIInv, CallHolds, Owed, ListingFaithful
<1> QED
  BY <1>1, <1>2, ReaddirStep, PTL DEF ReaddirSpec

-----------------------------------------------------------------------------
(* The learned index.  What a build is given: slots in the order of their   *)
(* keys, runs of equal keys that leave a corridor of at least one slot, a   *)
(* prefix that divides by something.                                        *)
KeysGiven ==
  /\ NumKeys \in 1..MaxKeys /\ keys \in [0..NumKeys - 1 -> Key]
  /\ \A i, j \in DOMAIN keys : i <= j => keys[i] <= keys[j]
  /\ \A i, j \in DOMAIN keys : i <= j /\ keys[i] = keys[j] => j - i <= maxError - corridor
  /\ maxError \in Nat /\ corridor \in 1..maxError
  /\ 2^shift \in Nat \ {0}

SplineTyped ==
  /\ pc \in {"add", "finish", "validate", "done"}
  /\ next \in 0..NumKeys
  /\ points \in Seq([x : Key, y : 0..NumKeys - 1])
  /\ radix \in [0..RadixCount - 1 -> Nat]
  /\ prefix \in 0..RadixCount - 2
  /\ upper \in [x : Key, y : Nat] /\ lower \in [x : Key, y : Nat]
  /\ previous \in [x : Key, y : 0..NumKeys - 1]

(* Slot i is the first one of its key.                                      *)
First(i) == \A j \in 0..i - 1 : keys[j] < keys[i]

(* The line from a to b passes the slot of a key no more than corridor      *)
(* below and error above its rank (multiplied by the width).                *)
Passes(a, b, i, error) ==
  /\ (i - a.y - corridor) * (b.x - a.x) <= (b.y - a.y) * (keys[i] - a.x)
  /\ (b.y - a.y) * (keys[i] - a.x) <= (i - a.y + error) * (b.x - a.x)

(* The slots that the line from the newest point is still to pass, and how  *)
(* its slope is bounded by them.                                            *)
Ahead == {i \in 0..next - 1 : First(i) /\ keys[i] > Newest.x}

UpperBounds(i) ==
  (upper.y - Newest.y) * (keys[i] - Newest.x) <= (i + corridor - Newest.y) * (upper.x - Newest.x)

LowerBounds(i) ==
  (i - corridor - Newest.y) * (lower.x - Newest.x) <= (lower.y - Newest.y) * (keys[i] - Newest.x)

(* The corridor while keys are added: see the comment of CorridorHolds.     *)
CorridorOpen ==
  /\ keys[next - 1] = keys[0] => previous = Newest
  /\ keys[next - 1] # keys[0] =>
       /\ Newest.x < previous.x /\ Newest.y < previous.y
       /\ Newest.x < upper.x /\ Newest.x < lower.x
       /\ \A i \in Ahead :
            Passes(Newest, previous, i, corridor) /\ UpperBounds(i) /\ LowerBounds(i)

(* The newest key, at its first slot, is the one a point may come to.       *)
Adding ==
  pc = "add" =>
    /\ next = 0 => points = <<>>
    /\ next > 0 =>
         /\ points # <<>> /\ Len(points) <= Newest.y + 1
         /\ previous.y < next /\ previous.x = keys[previous.y] /\ First(previous.y)
         /\ previous.x = keys[next - 1]
         /\ CorridorOpen

(* The points so far pass the slots between them, and the last ends them.   *)
PointsPass ==
  /\ points # <<>> => points[1] = Coord(keys[0], 0)
  /\ \A s \in 1..Len(points) : points[s].x <= Newest.x
  /\ \A s \in 1..Len(points) - 1 : \A i \in DOMAIN keys :
       First(i) /\ points[s].x < keys[i] /\ keys[i] <= points[s + 1].x =>
         Passes(points[s], points[s + 1], i, maxError)
  /\ pc # "add" => points # <<>> /\ Newest.x = MaxKey

(* The radix table tells of a prefix how many points have a smaller one.    *)
Points(q) == \A k \in 1..Len(points) : k <= radix[q] <=> Prefix(points[k].x) < q

RadixRight ==
  /\ pc \in {"add", "finish"} =>
       /\ \A q \in 0..prefix : Points(q)
       /\ points # <<>> => prefix = Prefix(Newest.x)
       /\ points = <<>> => prefix = 0 /\ radix[0] = 0
  /\ pc \in {"validate", "done"} => \A q \in 0..RadixCount - 1 : Points(q)

SplineIInv ==
  KeysGiven /\ SplineTyped /\ Adding /\ PointsPass /\ RadixRight

LEMMA LeastIs ==
  ASSUME NEW S \in SUBSET Nat, S # {}
  PROVE  Least(S) \in S /\ \A y \in S : Least(S) <= y
<1>1. \E x \in S : \A y \in S : x <= y
  BY MinIsLeast
<1> QED
  BY <1>1 DEF Least

LEMMA MostIs ==
  ASSUME NEW S \in SUBSET Nat, S # {}, NEW N \in Nat, \A x \in S : x <= N
  PROVE  Most(S) \in S /\ \A y \in S : y <= Most(S)
<1>1. \E x \in S : \A y \in S : y <= x
  BY MaxIsGreatest
<1>2. \E x \in S : \A y \in S : x >= y
  <2>1. PICK x \in S : \A y \in S : y <= x
    BY <1>1
  <2>2. \A y \in S : x >= y
    BY <2>1
  <2> QED
    BY <2>2
<1>3. Most(S) \in S /\ \A y \in S : Most(S) >= y
  BY <1>2 DEF Most
<1> QED
  BY <1>3

(* A power of two is the number of the subsets of a set, so it is positive, *)
(* and more than the set has elements.                                      *)
LEMMA PowerOfTwo ==
  ASSUME NEW n \in Nat
  PROVE  2^n \in Nat \ {0} /\ n < 2^n
<1> DEFINE S == 1..n
<1> DEFINE T == {{x} : x \in S}
<1>1. IsFiniteSet(S) /\ Cardinality(S) = n
  BY FS_Interval
<1>2. IsFiniteSet(SUBSET S) /\ Cardinality(SUBSET S) = 2^n
  BY <1>1, FS_SUBSET
<1>3. Cardinality(SUBSET S) \in Nat
  BY <1>2, FS_CardinalityType
<1>4. T \in SUBSET (SUBSET S) /\ {} \notin T
  OBVIOUS
<1>5. IsFiniteSet(T) /\ Cardinality(T) <= Cardinality(SUBSET S)
      /\ (Cardinality(SUBSET S) = Cardinality(T) => SUBSET S = T)
  BY <1>2, <1>4, FS_Subset
<1>6. Cardinality(T) = n
  <2> DEFINE f == [x \in S |-> {x}]
  <2>1. f \in [S -> T] /\ (\A t \in T : \E x \in S : f[x] = t)
    OBVIOUS
  <2>2. \A x, y \in S : f[x] = f[y] => x = y
    OBVIOUS
  <2>3. f \in Bijection(S, T)
    BY <2>1, <2>2, Zenon DEF Bijection, Injection, Surjection, IsInjective
  <2>4. ExistsBijection(S, T)
    BY <2>3 DEF ExistsBijection
  <2> QED
    BY <1>1, <2>4, FS_Bijection
<1>7. SUBSET S # T
  BY <1>4
<1> QED
  BY <1>2, <1>3, <1>5, <1>6, <1>7

LEMMA ProductsKeepOrder ==
  ASSUME NEW x \in Int, NEW y \in Int, NEW z \in Nat, x <= y
  PROVE  x * z <= y * z
  OBVIOUS

LEMMA FactorsKeepOrder ==
  ASSUME NEW x \in Int, NEW y \in Int, NEW z \in Nat \ {0}, x * z <= y * z
  PROVE  x <= y
<1>1. CASE y < x
  <2>1. y + 1 <= x
    BY <1>1
  <2>2. (y + 1) * z <= x * z
    BY <2>1, ProductsKeepOrder
  <2>3. (y + 1) * z = y * z + z
    OBVIOUS
  <2> QED
    BY <2>2, <2>3
<1> QED
  BY <1>1

(* Slopes, as fractions a/b, are ordered by their cross products.           *)
LEMMA SlopesInOrder ==
  ASSUME NEW a \in Int, NEW b \in Nat \ {0}, NEW c \in Int, NEW d \in Nat \ {0},
         NEW e \in Int, NEW f \in Nat \ {0},
         a * d <= c * b, c * f <= e * d
  PROVE  a * f <= e * b
<1>1. (a * d) * f <= (c * b) * f
  BY ProductsKeepOrder
<1>2. (c * f) * b <= (e * d) * b
  BY ProductsKeepOrder
<1>3. (c * b) * f = (c * f) * b
  OBVIOUS
<1>4. (a * d) * f = (a * f) * d /\ (e * d) * b = (e * b) * d
  OBVIOUS
<1>5. (a * f) * d <= (e * b) * d
  <2> DEFINE p == (a * d) * f
  <2> DEFINE q == (c * b) * f
  <2> DEFINE r == (c * f) * b
  <2> DEFINE s == (e * d) * b
  <2>1. p \in Int /\ q \in Int /\ r \in Int /\ s \in Int
    OBVIOUS
  <2>2. p <= q /\ q = r /\ r <= s
    BY <1>1, <1>2, <1>3
  <2>3. p = (a * f) * d /\ s = (e * b) * d
    BY <1>4
  <2> HIDE DEF p, q, r, s
  <2>4. p <= s
    BY <2>1, <2>2
  <2> QED
    BY <2>3, <2>4
<1> QED
  BY <1>5, FactorsKeepOrder

LEMMA DivIs ==
  ASSUME NEW x \in Int, NEW b \in Nat \ {0}
  PROVE  x \div b \in Int /\ (x \div b) * b <= x /\ x < (x \div b) * b + b
  OBVIOUS

LEMMA DivKeepsOrder ==
  ASSUME NEW x \in Int, NEW y \in Int, NEW b \in Nat \ {0}, x <= y
  PROVE  x \div b <= y \div b
  OBVIOUS

(* Bounds on a product bound the quotient.                                  *)
LEMMA DivBetween ==
  ASSUME NEW x \in Int, NEW b \in Nat \ {0}, NEW lo \in Int, NEW hi \in Int,
         lo * b <= x, x <= hi * b
  PROVE  x \div b \in lo..hi
<1> DEFINE q == x \div b
<1>1. q \in Int /\ q * b <= x /\ x < q * b + b
  BY DivIs
<1> HIDE DEF q
<1>2. (q + 1) * b = q * b + b
  BY <1>1
<1>3. q * b \in Int /\ hi * b \in Int /\ lo * b \in Int /\ (q + 1) * b \in Int
  BY <1>1
<1>4. lo <= q
  <2>1. CASE q < lo
    <3>1. q + 1 <= lo
      BY <1>1, <2>1
    <3>2. (q + 1) * b <= lo * b
      BY <1>1, <3>1, ProductsKeepOrder
    <3> QED
      BY <1>1, <1>2, <1>3, <3>2
  <2> QED
    BY <1>1, <2>1
<1>5. q <= hi
  <2>1. q * b <= hi * b
    BY <1>1, <1>3
  <2> QED
    BY <1>1, <2>1, FactorsKeepOrder
<1>6. q \in lo..hi
  BY <1>1, <1>4, <1>5
<1> QED
  BY <1>6 DEF q

LEMMA KeysInOrder ==
  ASSUME NEW n \in Nat, NEW f \in [0..n - 1 -> Nat], \A i \in 1..n - 1 : f[i - 1] <= f[i],
         NEW i \in 0..n - 1, NEW j \in 0..n - 1, i <= j
  PROVE  f[i] <= f[j]
<1> DEFINE S == {k \in Nat : k <= n - 1 /\ i <= k /\ f[k] < f[i]}
<1>1. CASE S = {}
  <2>1. j \notin S
    BY <1>1
  <2>2. j \in Nat /\ j <= n - 1
    OBVIOUS
  <2>3. f[i] \in Nat /\ f[j] \in Nat
    OBVIOUS
  <2> QED
    BY <2>1, <2>2, <2>3
<1>2. CASE S # {}
  <2>1. PICK k \in S : \A l \in S : k <= l
    <3>1. S \in SUBSET Nat
      OBVIOUS
    <3> HIDE DEF S
    <3> QED
      BY <1>2, <3>1, MinIsLeast
  <2>2. k \in Nat /\ k <= n - 1 /\ i <= k /\ f[k] < f[i]
    OBVIOUS
  <2>3. k # i
    BY <2>2
  <2>4. k \in 1..n - 1 /\ k - 1 \in Nat /\ k - 1 <= n - 1 /\ i <= k - 1 /\ k - 1 \in 0..n - 1
    BY <2>2, <2>3
  <2>5. k - 1 \notin S
    BY <2>1, <2>2
  <2>6. ~ (f[k - 1] < f[i])
    BY <2>4, <2>5
  <2>7. f[k - 1] <= f[k]
    BY <2>4
  <2>8. f[k - 1] \in Nat /\ f[k] \in Nat /\ f[i] \in Nat
    BY <2>2, <2>4
  <2> QED
    BY <2>2, <2>6, <2>7, <2>8
<1> QED
  BY <1>1, <1>2

(* The longest run of equal keys is at least as long as any.                *)
LEMMA RunIs ==
  ASSUME NEW n \in Nat \ {0}, NEW f \in [0..n - 1 -> Nat],
         \A i, j \in 0..n - 1 : i <= j => f[i] <= f[j]
  PROVE  /\ CollisionRun(f) \in Nat
         /\ \A i, j \in 0..n - 1 : i <= j /\ f[i] = f[j] => j - i + 1 <= CollisionRun(f)
<1> DEFINE Slots(k) == {i \in DOMAIN f : f[i] = k}
<1> DEFINE Sizes == {Cardinality(Slots(k)) : k \in {f[i] : i \in DOMAIN f}}
<1>1. DOMAIN f = 0..n - 1
  OBVIOUS
<1>2. IsFiniteSet(0..n - 1) /\ Cardinality(0..n - 1) = n
  BY FS_Interval
<1>3. ASSUME NEW k
      PROVE  /\ IsFiniteSet(Slots(k)) /\ Cardinality(Slots(k)) \in Nat
             /\ Cardinality(Slots(k)) <= n
  <2>1. Slots(k) \in SUBSET (0..n - 1)
    BY <1>1
  <2> HIDE DEF Slots
  <2>2. IsFiniteSet(Slots(k)) /\ Cardinality(Slots(k)) <= n
    BY <1>2, <2>1, FS_Subset
  <2> QED
    BY <2>2, FS_CardinalityType
<1>4. Sizes \in SUBSET Nat /\ \A x \in Sizes : x <= n
  BY <1>3
<1>5. Sizes # {}
  <2>1. 0 \in DOMAIN f
    BY <1>1
  <2>2. Cardinality(Slots(f[0])) \in Sizes
    BY <2>1
  <2> QED
    BY <2>2
<1>6. CollisionRun(f) = Most(Sizes)
  BY DEF CollisionRun
<1>7. Most(Sizes) \in Sizes /\ \A y \in Sizes : y <= Most(Sizes)
  <2> HIDE DEF Sizes
  <2> QED
    BY <1>4, <1>5, MostIs
<1>8. ASSUME NEW i \in 0..n - 1, NEW j \in 0..n - 1, i <= j, f[i] = f[j]
      PROVE  j - i + 1 <= CollisionRun(f)
  <2>1. IsFiniteSet(i..j) /\ Cardinality(i..j) = j - i + 1
    <3>1. i \in Int /\ j \in Int /\ ~ (i > j)
      BY <1>8
    <3> QED
      BY <3>1, FS_Interval
  <2>2. i..j \in SUBSET Slots(f[i])
    <3>1. ASSUME NEW k \in i..j
          PROVE  k \in Slots(f[i])
      <4>1. k \in 0..n - 1 /\ i <= k /\ k <= j
        OBVIOUS
      <4>2. f[i] <= f[k] /\ f[k] <= f[j]
        BY <4>1
      <4>3. f[i] \in Nat /\ f[k] \in Nat /\ f[j] \in Nat
        BY <4>1
      <4>4. f[k] = f[i]
        BY <1>8, <4>2, <4>3
      <4> QED
        BY <1>1, <4>1, <4>4
    <3> QED
      BY <3>1
  <2>3. Cardinality(i..j) <= Cardinality(Slots(f[i]))
    <3>1. IsFiniteSet(Slots(f[i]))
      BY <1>3
    <3> HIDE DEF Slots
    <3> QED
      BY <2>2, <3>1, FS_Subset
  <2>4. Cardinality(Slots(f[i])) \in Sizes
    BY <1>1
  <2> HIDE DEF Sizes
  <2>5. Cardinality(Slots(f[i])) <= Most(Sizes)
    BY <1>7, <2>4
  <2>6. Cardinality(Slots(f[i])) \in Nat /\ Most(Sizes) \in Nat
    BY <1>3, <1>4, <1>7
  <2> HIDE DEF Slots
  <2> QED
    BY <1>6, <2>1, <2>3, <2>5, <2>6
<1>9. CollisionRun(f) \in Nat
  <2> HIDE DEF Sizes
  <2> QED
    BY <1>4, <1>6, <1>7
<1> QED
  BY <1>8, <1>9

LEMMA ShiftIs ==
  ASSUME MaxKey - MinKey \in Nat, NEW bits \in Nat
  PROVE  ShiftFor(bits) \in Nat
<1> DEFINE v == MaxKey - MinKey
<1> DEFINE W == {w \in 0..v : v < 2^w}
<1>1. v \in W
  <2> HIDE DEF v
  <2> QED
    BY PowerOfTwo DEF v
<1>2. W \in SUBSET Nat /\ W # {}
  BY <1>1
<1>3. Least(W) \in Nat
  <2> HIDE DEF W
  <2> QED
    BY <1>2, LeastIs
<1>4. BitWidth(v) = Least(W)
  BY DEF BitWidth
<1> HIDE DEF W, v
<1>5. BitWidth(v) \in Nat
  BY <1>3, <1>4
<1> QED
  BY <1>5 DEF ShiftFor, v

(* Slots have keys, and every key a first slot.                             *)
LEMMA KeyTypes ==
  ASSUME KeysGiven
  PROVE  /\ DOMAIN keys = 0..NumKeys - 1 /\ NumKeys \in Nat \ {0}
         /\ \A i \in 0..NumKeys - 1 : keys[i] \in Key /\ keys[i] \in Nat
         /\ MinKey \in Nat /\ MaxKey \in Nat /\ MinKey <= MaxKey
         /\ \A i \in 0..NumKeys - 1 : MinKey <= keys[i] /\ keys[i] <= MaxKey
<1>1. NumKeys \in Nat \ {0} /\ keys \in [0..NumKeys - 1 -> Key]
  BY RadixSplineAssumption DEF KeysGiven
<1>2. DOMAIN keys = 0..NumKeys - 1
  BY <1>1
<1>3. \A i \in 0..NumKeys - 1 : keys[i] \in Key
  BY <1>1
<1>4. Key \subseteq Nat
  BY RadixSplineAssumption DEF Key
<1>5. \A i \in 0..NumKeys - 1 : keys[i] \in Nat
  BY <1>3, <1>4
<1>6. 0 \in 0..NumKeys - 1 /\ NumKeys - 1 \in 0..NumKeys - 1
  BY <1>1
<1>7. \A i \in 0..NumKeys - 1 : keys[0] <= keys[i] /\ keys[i] <= keys[NumKeys - 1]
  <2>1. \A i \in 0..NumKeys - 1 : 0 <= i /\ i <= NumKeys - 1
    BY <1>1
  <2> QED
    BY <1>2, <1>6, <2>1 DEF KeysGiven
<1> QED
  BY <1>1, <1>2, <1>3, <1>5, <1>6, <1>7 DEF MinKey, MaxKey

LEMMA FirstSlot ==
  ASSUME KeysGiven, NEW j \in 0..NumKeys - 1
  PROVE  \E i \in 0..j : keys[i] = keys[j] /\ First(i)
<1> DEFINE S == {i \in 0..j : keys[i] = keys[j]}
<1>1. S \in SUBSET Nat /\ j \in S
  BY KeyTypes
<1>2. PICK i \in S : \A k \in S : i <= k
  <2> HIDE DEF S
  <2>1. S # {}
    BY <1>1
  <2> QED
    BY <1>1, <2>1, MinIsLeast
<1>3. i \in 0..j /\ keys[i] = keys[j]
  OBVIOUS
<1>4. ASSUME NEW k \in 0..i - 1
      PROVE  keys[k] < keys[i]
  <2>1. k \in 0..NumKeys - 1 /\ i \in 0..NumKeys - 1 /\ k <= i /\ k < i /\ k \in 0..j
    BY <1>3, KeyTypes
  <2>2. keys[k] <= keys[i]
    BY <2>1, KeyTypes DEF KeysGiven
  <2>3. k \notin S
    BY <1>2, <2>1
  <2>4. keys[k] # keys[i]
    BY <1>3, <2>1, <2>3
  <2>5. keys[k] \in Nat /\ keys[i] \in Nat
    BY <2>1, KeyTypes
  <2> QED
    BY <2>2, <2>4, <2>5
<1> QED
  BY <1>3, <1>4 DEF First

LEMMA PrefixInOrder ==
  ASSUME KeysGiven
  PROVE  /\ RadixCount \in Nat /\ RadixCount >= 2
         /\ \A x \in Nat : Prefix(x) \in 0..RadixCount - 2
         /\ \A x, y \in Nat : x <= y => Prefix(x) <= Prefix(y)
         /\ Prefix(MinKey) = 0
<1> DEFINE D == 2^shift
<1>1. D \in Nat \ {0} /\ MinKey \in Nat /\ MaxKey \in Nat /\ MinKey <= MaxKey
  BY KeyTypes DEF KeysGiven
<1> DEFINE most == (MaxKey - MinKey) \div D
<1>2. RadixCount = most + 2
  BY DEF RadixCount
<1>3. \A x \in Nat : Prefix(x) = IF x <= MinKey THEN 0 ELSE Lesser((x - MinKey) \div D, RadixCount - 2)
  BY DEF Prefix
<1> HIDE DEF D
<1>4. \A x \in Nat : x > MinKey => (x - MinKey) \div D \in Nat
  <2>1. ASSUME NEW x \in Nat, x > MinKey
        PROVE  (x - MinKey) \div D \in Nat
    <3>1. x - MinKey \in Nat
      BY <1>1, <2>1
    <3> QED
      BY <1>1, <3>1
  <2> QED
    BY <2>1
<1>5. most \in Nat
  BY <1>1
<1> HIDE DEF most
<1>6. \A x \in Nat : Prefix(x) \in 0..RadixCount - 2
  <2>1. ASSUME NEW x \in Nat, x > MinKey
        PROVE  Prefix(x) \in 0..RadixCount - 2
    <3> DEFINE a == (x - MinKey) \div D
    <3>1. a \in Nat /\ ~ (x <= MinKey)
      BY <1>1, <1>4, <2>1
    <3>2. Prefix(x) = Lesser(a, RadixCount - 2)
      BY <1>3, <3>1
    <3> HIDE DEF a
    <3> QED
      BY <1>2, <1>5, <3>1, <3>2 DEF Lesser
  <2>2. ASSUME NEW x \in Nat, x <= MinKey
        PROVE  Prefix(x) \in 0..RadixCount - 2
    BY <1>2, <1>3, <1>5, <2>2
  <2> QED
    BY <1>1, <2>1, <2>2
<1>7. ASSUME NEW x \in Nat, NEW y \in Nat, x <= y
      PROVE  Prefix(x) <= Prefix(y)
  <2>1. CASE x <= MinKey
    BY <1>2, <1>3, <1>5, <1>6, <2>1
  <2>2. CASE x > MinKey
    <3>1. y > MinKey /\ x - MinKey \in Int /\ y - MinKey \in Int /\ x - MinKey <= y - MinKey
      BY <1>1, <1>7, <2>2
    <3>2. (x - MinKey) \div D <= (y - MinKey) \div D
      BY <1>1, <3>1, DivKeepsOrder
    <3>3. (x - MinKey) \div D \in Nat /\ (y - MinKey) \div D \in Nat
      BY <1>4, <2>2, <3>1
    <3>4. ~ (x <= MinKey) /\ ~ (y <= MinKey)
      BY <1>1, <2>2, <3>1
    <3>5. Prefix(x) = Lesser((x - MinKey) \div D, RadixCount - 2)
          /\ Prefix(y) = Lesser((y - MinKey) \div D, RadixCount - 2)
      BY <1>3, <3>4
    <3> DEFINE a == (x - MinKey) \div D
    <3> DEFINE b == (y - MinKey) \div D
    <3> HIDE DEF a, b
    <3>6. a \in Nat /\ b \in Nat /\ a <= b /\ Prefix(x) = Lesser(a, most) /\ Prefix(y) = Lesser(b, most)
      BY <1>2, <1>5, <3>2, <3>3, <3>5 DEF a, b
    <3> QED
      BY <1>5, <3>6 DEF Lesser
  <2> QED
    BY <1>1, <2>1, <2>2
<1>8. Prefix(MinKey) = 0
  BY <1>1, <1>3
<1> QED
  BY <1>2, <1>5, <1>6, <1>7, <1>8

Searches == pc \in {"validate", "done"}

LEMMA PointTypes ==
  ASSUME SplineIInv, pc # "add"
  PROVE  /\ Len(points) \in Nat \ {0}
         /\ \A s \in 1..Len(points) : points[s].x \in Nat /\ points[s].y \in 0..NumKeys - 1
         /\ points[1].x = MinKey /\ points[Len(points)].x = MaxKey
<1>1. points \in Seq([x : Key, y : 0..NumKeys - 1]) /\ points # <<>>
  BY DEF SplineIInv, SplineTyped, PointsPass
<1>2. Key \subseteq Nat
  BY RadixSplineAssumption DEF Key
<1>3. Len(points) \in Nat \ {0}
  BY <1>1
<1>4. \A s \in 1..Len(points) : points[s] \in [x : Key, y : 0..NumKeys - 1]
  <2> DEFINE R == [x : Key, y : 0..NumKeys - 1]
  <2> HIDE DEF R
  <2>1. points \in Seq(R)
    BY <1>1 DEF R
  <2>2. \A s \in 1..Len(points) : points[s] \in R
    BY <2>1
  <2> QED
    BY <2>2 DEF R
<1>5. \A s \in 1..Len(points) : points[s].x \in Key /\ points[s].y \in 0..NumKeys - 1
  BY <1>4
<1>6. points[1].x = keys[0] /\ points[Len(points)].x = MaxKey
  BY <1>1 DEF SplineIInv, PointsPass, Newest, Coord
<1> QED
  BY <1>2, <1>3, <1>5, <1>6 DEF MinKey

(* The radix table and the search from it find the segment of a key.        *)
LEMMA SegmentIs ==
  ASSUME SplineIInv, Searches, NEW key \in Nat, MinKey < key, key <= MaxKey
  PROVE  /\ Segment(key) \in 1..Len(points) - 1
         /\ points[Segment(key)].x < key /\ key <= points[Segment(key) + 1].x
<1> DEFINE count == Len(points)
<1> DEFINE p == Prefix(key)
<1>0. KeysGiven /\ pc # "add"
  BY DEF SplineIInv, Searches
<1>1. /\ count \in Nat \ {0}
      /\ \A s \in 1..count : points[s].x \in Nat
      /\ points[1].x = MinKey /\ points[count].x = MaxKey
  BY <1>0, PointTypes
<1>2. MinKey \in Nat /\ MaxKey \in Nat
  BY <1>0, KeyTypes
<1>3. /\ RadixCount \in Nat /\ p \in 0..RadixCount - 2 /\ p \in Nat
      /\ \A x \in Nat : Prefix(x) \in Nat
      /\ \A x, y \in Nat : x <= y => Prefix(x) <= Prefix(y)
  BY <1>0, PrefixInOrder
<1>4. radix \in [0..RadixCount - 1 -> Nat] /\ \A q \in 0..RadixCount - 1 : Points(q)
  BY DEF SplineIInv, SplineTyped, RadixRight, Searches
<1>5. p \in 0..RadixCount - 1 /\ p + 1 \in 0..RadixCount - 1
  BY <1>3
<1>6. Points(p) /\ Points(p + 1) /\ radix[p] \in Nat /\ radix[p + 1] \in Nat
  BY <1>4, <1>5
<1> DEFINE S == {q \in 0..count - 1 : points[q + 1].x >= key}
<1>7. PICK f \in S : \A q \in S : f <= q
  <2>1. count - 1 \in S
    BY <1>1, <1>2
  <2>2. S \in SUBSET Nat
    BY <1>1
  <2> HIDE DEF S
  <2>3. S # {}
    BY <2>1
  <2> QED
    BY <2>2, <2>3, MinIsLeast
<1>8. f \in 0..count - 1 /\ points[f + 1].x >= key
  OBVIOUS
<1>9. \A q \in 0..count - 1 : q < f => points[q + 1].x < key
  <2>1. ASSUME NEW q \in 0..count - 1, q < f
        PROVE  points[q + 1].x < key
    <3>1. q \notin S
      BY <1>7, <1>8, <2>1
    <3>2. ~ (points[q + 1].x >= key) /\ q + 1 \in 1..count
      BY <1>1, <3>1
    <3> QED
      BY <1>1, <3>2
  <2> QED
    BY <2>1
<1>10. f \in 1..count - 1
  <2>1. f # 0
    BY <1>1, <1>2, <1>8
  <2> QED
    BY <1>1, <1>8, <2>1
<1> HIDE DEF S
<1>11. points[f].x < key /\ f \in 1..count /\ f + 1 \in 1..count
  <2>1. f - 1 \in 0..count - 1 /\ f - 1 < f /\ (f - 1) + 1 = f
    BY <1>1, <1>10
  <2> QED
    BY <1>1, <1>9, <1>10, <2>1
<1>12. radix[p] <= f
  <2>1. p <= Prefix(points[f + 1].x) /\ Prefix(points[f + 1].x) \in Nat
    BY <1>1, <1>3, <1>8, <1>11
  <2>2. ~ (Prefix(points[f + 1].x) < p)
    BY <1>3, <2>1
  <2>3. ~ (f + 1 <= radix[p])
    BY <1>6, <1>11, <2>2 DEF Points
  <2> QED
    BY <1>6, <1>10, <2>3
<1>13. f <= radix[p + 1]
  <2>0. points[f].x \in Nat /\ points[f].x <= key
    BY <1>1, <1>11
  <2>1. Prefix(points[f].x) <= p /\ Prefix(points[f].x) \in Nat
    BY <1>3, <2>0
  <2>2. Prefix(points[f].x) < p + 1
    BY <1>3, <2>1
  <2> QED
    BY <1>6, <1>11, <2>2 DEF Points
<1> DEFINE begin == Lesser(radix[p], count - 1)
<1> DEFINE end == Greater(Lesser(radix[p + 1], count), begin + 1)
<1> DEFINE F == {q \in begin..end - 1 : points[q + 1].x >= key} \cup {end}
<1>14. begin \in Nat /\ begin <= f
  BY <1>1, <1>6, <1>10, <1>12 DEF Lesser
<1>15. end \in Nat /\ f <= end
  <2>1. Lesser(radix[p + 1], count) \in Nat /\ f <= Lesser(radix[p + 1], count)
    BY <1>1, <1>6, <1>10, <1>13 DEF Lesser
  <2> HIDE DEF begin
  <2> QED
    BY <1>10, <1>14, <2>1 DEF Greater
<1> HIDE DEF begin, end
<1>16. f \in F
  <2>1. f < end => f \in begin..end - 1
    BY <1>10, <1>14, <1>15
  <2>2. f = end \/ f < end
    BY <1>10, <1>15
  <2> QED
    BY <1>8, <2>1, <2>2
<1>17. F \in SUBSET Nat
  BY <1>14, <1>15
<1>18. \A q \in F : f <= q
  <2>1. ASSUME NEW q \in F, q < f
        PROVE  FALSE
    <3>1. q \in Nat /\ q # end
      BY <1>10, <1>15, <1>17, <2>1
    <3>2. q \in begin..end - 1 /\ points[q + 1].x >= key
      BY <3>1
    <3>3. q \in 0..count - 1 /\ q + 1 \in 1..count
      BY <1>1, <1>10, <2>1, <3>1
    <3>4. points[q + 1].x < key
      BY <1>9, <2>1, <3>3
    <3> QED
      BY <1>1, <3>2, <3>3, <3>4
  <2>2. \A q \in F : q \in Nat
    BY <1>17
  <2> QED
    BY <1>10, <2>1, <2>2
<1>19. Least(F) = f
  <2>1. Least(F) \in F /\ \A q \in F : Least(F) <= q
    <3> HIDE DEF F
    <3> QED
      BY <1>16, <1>17, LeastIs
  <2>2. Least(F) <= f /\ f <= Least(F) /\ Least(F) \in Nat
    BY <1>16, <1>17, <1>18, <2>1
  <2> QED
    BY <1>10, <2>2
<1>20. Segment(key) = Greater(1, Lesser(Least(F), count - 1))
  BY DEF Segment, begin, end
<1>21. Segment(key) = f
  <2> HIDE DEF F
  <2> QED
    BY <1>1, <1>10, <1>19, <1>20 DEF Greater, Lesser
<1>22. key <= points[f + 1].x
  BY <1>1, <1>8, <1>11
<1> QED
  BY <1>10, <1>11, <1>21, <1>22

(* The estimate of a key is off its first slot by the corridor at most, and *)
(* upwards by the error bound.                                              *)
LEMMA EstimateIs ==
  ASSUME SplineIInv, Searches, NEW i \in 0..NumKeys - 1, First(i)
  PROVE  /\ Estimate(keys[i]) \in Int
         /\ i - corridor <= Estimate(keys[i]) /\ Estimate(keys[i]) <= i + maxError
<1> DEFINE key == keys[i]
<1>0. KeysGiven /\ pc # "add"
  BY DEF SplineIInv, Searches
<1>1. /\ NumKeys \in Nat \ {0} /\ DOMAIN keys = 0..NumKeys - 1
      /\ key \in Nat /\ MinKey \in Nat /\ MaxKey \in Nat
      /\ \A j \in 0..NumKeys - 1 : keys[j] \in Nat
      /\ MinKey <= key /\ key <= MaxKey
  BY <1>0, KeyTypes
<1>2. corridor \in Nat /\ maxError \in Nat /\ corridor <= maxError
  BY <1>0 DEF KeysGiven
<1>3. CASE key <= MinKey
  <2>1. i = 0
    <3>1. CASE i > 0
      <4>1. 0 \in 0..i - 1
        BY <3>1
      <4>2. keys[0] < keys[i]
        BY <4>1 DEF First
      <4> QED
        BY <1>1, <1>3, <4>2 DEF MinKey
    <3> QED
      BY <3>1
  <2>2. Estimate(key) = 0
    BY <1>3 DEF Estimate
  <2> QED
    BY <1>2, <2>1, <2>2
<1>4. CASE key > MinKey /\ key >= MaxKey
  <2>1. Estimate(key) = NumKeys - 1
    BY <1>1, <1>4 DEF Estimate
  <2>2. keys[NumKeys - 1] = keys[i] /\ NumKeys - 1 \in DOMAIN keys /\ i <= NumKeys - 1
    BY <1>1, <1>4 DEF MaxKey
  <2>3. NumKeys - 1 - i <= maxError - corridor
    BY <1>0, <1>1, <2>2 DEF KeysGiven
  <2> QED
    BY <1>1, <1>2, <2>1, <2>2, <2>3
<1>5. CASE key > MinKey /\ key < MaxKey
  <2>1. PICK s \in 1..Len(points) - 1 :
          /\ s = Segment(key)
          /\ points[s].x < key /\ key <= points[s + 1].x
    BY <1>0, <1>1, <1>5, SegmentIs
  <2>2. PICK x1 \in Nat, x2 \in Nat, y1 \in 0..NumKeys - 1, y2 \in 0..NumKeys - 1 :
          points[s].x = x1 /\ points[s].y = y1 /\ points[s + 1].x = x2 /\ points[s + 1].y = y2
    <3>1. s \in 1..Len(points) /\ s + 1 \in 1..Len(points) /\ Len(points) \in Nat
      BY <1>0, PointTypes
    <3>2. /\ points[s].x \in Nat /\ points[s].y \in 0..NumKeys - 1
          /\ points[s + 1].x \in Nat /\ points[s + 1].y \in 0..NumKeys - 1
      BY <1>0, <3>1, PointTypes
    <3> QED
      BY <3>2
  <2>3. Passes(points[s], points[s + 1], i, maxError)
    BY <1>1, <2>1 DEF SplineIInv, PointsPass
  <2> DEFINE w == x2 - x1
  <2> DEFINE product == (key - x1) * (y2 - y1)
  <2>4. x1 < key /\ key <= x2 /\ w \in Nat \ {0} /\ ~ (x2 <= x1)
    BY <1>1, <2>1, <2>2
  <2>5. (i - y1 - corridor) * w <= product /\ product <= (i - y1 + maxError) * w /\ product \in Int
    <3>1. (i - y1 - corridor) * (x2 - x1) <= (y2 - y1) * (key - x1)
          /\ (y2 - y1) * (key - x1) <= (i - y1 + maxError) * (x2 - x1)
      BY <2>2, <2>3 DEF Passes
    <3>2. (y2 - y1) * (key - x1) = (key - x1) * (y2 - y1)
      BY <1>1
    <3> QED
      BY <1>1, <3>1, <3>2
  <2> DEFINE q == product \div w
  <2>6. q \in i - y1 - corridor..i - y1 + maxError
    <3> HIDE DEF product, w
    <3>1. i - y1 - corridor \in Int /\ i - y1 + maxError \in Int
      BY <1>2
    <3> QED
      BY <2>4, <2>5, <3>1, DivBetween
  <2>7. Estimate(key) = Lesser(y1 + q, NumKeys - 1)
    <3>1. Len(points) # 1
      <4>1. Len(points) \in Nat
        BY <1>0, PointTypes
      <4> QED
        BY <2>1, <4>1
    <3>2. ~ (key <= MinKey) /\ ~ (key >= MaxKey)
      BY <1>1, <1>5
    <3>3. points[Segment(key)] = points[s] /\ points[Segment(key) + 1] = points[s + 1]
      BY <2>1
    <3> QED
      BY <2>2, <2>4, <3>1, <3>2, <3>3 DEF Estimate
  <2> HIDE DEF q
  <2> QED
    BY <1>1, <1>2, <2>6, <2>7 DEF Lesser
<1> QED
  BY <1>1, <1>3, <1>4, <1>5

LEMMA InWindow ==
  ASSUME SplineIInv, Searches, NEW j \in 0..NumKeys - 1
  PROVE  j \in Window(keys[j])
<1>0. KeysGiven
  BY DEF SplineIInv
<1>1. NumKeys \in Nat \ {0} /\ DOMAIN keys = 0..NumKeys - 1
  BY <1>0, KeyTypes
<1>2. PICK i \in 0..j : keys[i] = keys[j] /\ First(i)
  BY <1>0, FirstSlot
<1>3. i \in 0..NumKeys - 1 /\ i <= j
  BY <1>1
<1>4. j - i <= maxError - corridor
  BY <1>0, <1>1, <1>2, <1>3 DEF KeysGiven
<1>5. corridor \in Nat /\ maxError \in Nat /\ corridor <= maxError
  BY <1>0 DEF KeysGiven
<1> DEFINE e == Estimate(keys[j])
<1>6. e \in Int /\ i - corridor <= e /\ e <= i + maxError
  BY <1>2, <1>3, EstimateIs
<1>7. Window(keys[j]) = Greater(0, e - maxError)..Lesser(NumKeys, e + maxError + 2) - 1
  BY DEF Window
<1> HIDE DEF e
<1>8. Greater(0, e - maxError) \in Int /\ Greater(0, e - maxError) <= j
  BY <1>3, <1>5, <1>6 DEF Greater
<1>9. Lesser(NumKeys, e + maxError + 2) \in Int /\ j <= Lesser(NumKeys, e + maxError + 2) - 1
  BY <1>1, <1>3, <1>4, <1>5, <1>6 DEF Lesser
<1> QED
  BY <1>7, <1>8, <1>9

(* The index of parents, the window and the lower bound in it lead to the   *)
(* slot.                                                                    *)
LEMMA SlotCompared ==
  ASSUME SplineIInv, Searches, NEW i \in 0..NumKeys - 1
  PROVE  i \in Compared(keys[i])
<1> DEFINE key == keys[i]
<1>0. KeysGiven
  BY DEF SplineIInv
<1>1. /\ NumKeys \in Nat \ {0} /\ DOMAIN keys = 0..NumKeys - 1
      /\ \A j \in 0..NumKeys - 1 : keys[j] \in Nat
      /\ \A j, k \in 0..NumKeys - 1 : j <= k => keys[j] <= keys[k]
  BY <1>0, KeyTypes DEF KeysGiven
<1>2. \A j \in 0..NumKeys - 1 : Plid(keys[j]) \in Int
  BY <1>1, RadixSplineAssumption, DivIs DEF Plid
<1>3. \A j, k \in 0..NumKeys - 1 : j <= k => Plid(keys[j]) <= Plid(keys[k])
  <2>1. ASSUME NEW j \in 0..NumKeys - 1, NEW k \in 0..NumKeys - 1, j <= k
        PROVE  Plid(keys[j]) <= Plid(keys[k])
    <3>1. keys[j] \in Int /\ keys[k] \in Int /\ keys[j] <= keys[k] /\ Hashes \in Nat \ {0}
      BY <1>1, <2>1, RadixSplineAssumption
    <3>2. keys[j] \div Hashes <= keys[k] \div Hashes
      BY ONLY <3>1, DivKeepsOrder
    <3> QED
      BY <3>2 DEF Plid
  <2> QED
    BY <2>1
<1>4. ParentIndex(Plid(key)) \in Nat /\ ParentIndex(Plid(key)) <= i
  <2> DEFINE S == {k \in DOMAIN keys : Plid(keys[k]) >= Plid(key)} \cup {NumKeys}
  <2>1. S \in SUBSET Nat /\ i \in S
    BY <1>1, <1>2
  <2>2. ParentIndex(Plid(key)) = Least(S)
    BY DEF ParentIndex
  <2>3. Least(S) \in S /\ Least(S) <= i
    <3> HIDE DEF S
    <3> QED
      BY <2>1, LeastIs
  <2> HIDE DEF S
  <2> QED
    BY <2>1, <2>2, <2>3
<1>5. ParentIndex(Plid(key) + 1) \in Nat /\ i < ParentIndex(Plid(key) + 1)
  <2> DEFINE S == {k \in DOMAIN keys : Plid(keys[k]) >= Plid(key) + 1} \cup {NumKeys}
  <2>1. S \in SUBSET Nat /\ NumKeys \in S
    BY <1>1
  <2>2. ParentIndex(Plid(key) + 1) = Least(S)
    BY DEF ParentIndex
  <2>3. \A k \in S : i < k
    <3>1. ASSUME NEW k \in DOMAIN keys, Plid(keys[k]) >= Plid(key) + 1
          PROVE  i < k
      <4>1. k \in 0..NumKeys - 1
        BY <1>1
      <4>2. CASE k <= i
        BY <1>2, <1>3, <3>1, <4>1, <4>2
      <4> QED
        BY <4>1, <4>2
    <3>2. i < NumKeys
      BY <1>1
    <3> QED
      BY <3>1, <3>2
  <2>4. Least(S) \in S
    <3> HIDE DEF S
    <3> QED
      BY <2>1, LeastIs
  <2> HIDE DEF S
  <2> QED
    BY <2>1, <2>2, <2>3, <2>4
<1>6. i \in Window(key)
  BY InWindow
<1> DEFINE range == Window(key) \cap (ParentIndex(Plid(key))..ParentIndex(Plid(key) + 1) - 1)
<1> DEFINE low == {j \in range : keys[j] >= key}
<1>7. i \in range
  BY <1>4, <1>5, <1>6
<1>8. range \in SUBSET (0..NumKeys - 1)
  <2>1. Window(key) = Greater(0, Estimate(key) - maxError)..Lesser(NumKeys, Estimate(key) + maxError + 2) - 1
    BY DEF Window
  <2>2. PICK k \in 0..i : keys[k] = keys[i] /\ First(k)
    BY <1>0, FirstSlot
  <2>3. k \in 0..NumKeys - 1
    BY <1>1
  <2>4. Estimate(key) \in Int
    BY <2>2, <2>3, EstimateIs
  <2>5. maxError \in Nat
    BY <1>0 DEF KeysGiven
  <2> DEFINE e == Estimate(key)
  <2> HIDE DEF e
  <2>6. e \in Int /\ Window(key) = Greater(0, e - maxError)..Lesser(NumKeys, e + maxError + 2) - 1
    BY <2>1, <2>4 DEF e
  <2>7. Greater(0, e - maxError) \in Nat
    BY <2>5, <2>6 DEF Greater
  <2>8. Lesser(NumKeys, e + maxError + 2) \in Int /\ Lesser(NumKeys, e + maxError + 2) <= NumKeys
    BY <1>1, <2>5, <2>6 DEF Lesser
  <2>9. Window(key) \in SUBSET (0..NumKeys - 1)
    BY <1>1, <2>6, <2>7, <2>8
  <2> QED
    BY <2>9
<1> HIDE DEF range
<1>9. low \in SUBSET Nat /\ i \in low
  <2>1. keys[i] >= key
    BY <1>1
  <2>2. range \in SUBSET Nat
    BY <1>8
  <2> QED
    BY <1>7, <2>1, <2>2
<1>10. Least(low) \in low /\ Least(low) <= i
  <2> HIDE DEF low
  <2>1. low # {}
    BY <1>9
  <2> QED
    BY <1>9, <2>1, LeastIs
<1>11. PICK l \in 0..NumKeys - 1 : l = Least(low) /\ l <= i /\ keys[l] >= key
  BY <1>8, <1>10
<1>12. \A j \in l..i : keys[j] = key
  <2>1. ASSUME NEW j \in l..i
        PROVE  keys[j] = key
    <3>1. j \in 0..NumKeys - 1 /\ l <= j /\ j <= i
      BY <1>1
    <3>2. keys[l] <= keys[j] /\ keys[j] <= key /\ keys[l] >= key
      BY <1>1, <1>11, <3>1
    <3>3. keys[l] \in Nat /\ keys[j] \in Nat /\ key \in Nat
      BY <1>1, <3>1
    <3> QED
      BY <3>2, <3>3
  <2> QED
    BY <2>1
<1>13. Compared(key) = {k \in low : \A j \in Least(low)..k : keys[j] = key}
  BY DEF Compared, range
<1> HIDE DEF low
<1> QED
  BY <1>9, <1>11, <1>12, <1>13

LEMMA SplineInitHolds == SplineInit => SplineIInv
<1> SUFFICES ASSUME SplineInit
             PROVE  SplineIInv
  OBVIOUS
<1>1. PICK n \in 1..MaxKeys :
        keys \in [0..n - 1 -> Key] /\ \A i \in 1..n - 1 : keys[i - 1] <= keys[i]
  BY DEF SplineInit
<1>2. MaxKeys \in Nat \ {0} /\ Key \subseteq Nat /\ 0 \in Key
  <2>1. Parents * Hashes \in Nat \ {0}
    <3>1. Parents \in Nat \ {0} /\ Hashes \in Nat \ {0}
      BY RadixSplineAssumption
    <3>2. Parents * Hashes >= 1 * Hashes
      BY <3>1, ProductsKeepOrder
    <3> QED
      BY <3>1, <3>2
  <2> QED
    BY <2>1, RadixSplineAssumption DEF Key
<1>3. NumKeys = n
  <2>1. DOMAIN keys = 0..n - 1 /\ 0 \in Int /\ n - 1 \in Int /\ n >= 1 /\ n \in Nat
    BY <1>1, <1>2
  <2>2. Cardinality(0..n - 1) = n
    BY <2>1, FS_Interval
  <2> QED
    BY <2>1, <2>2 DEF NumKeys
<1>4. n \in Nat \ {0} /\ keys \in [0..n - 1 -> Nat] /\ DOMAIN keys = 0..n - 1
  <2>1. n \in Nat \ {0} /\ DOMAIN keys = 0..n - 1
    BY <1>1, <1>2
  <2>2. \A i \in 0..n - 1 : keys[i] \in Nat
    BY <1>1, <1>2
  <2>3. keys = [i \in 0..n - 1 |-> keys[i]]
    BY <1>1
  <2> QED
    BY <2>1, <2>2, <2>3
<1>5. \A i, j \in 0..n - 1 : i <= j => keys[i] <= keys[j]
  BY <1>1, <1>4, KeysInOrder
<1>6. CollisionRun(keys) \in Nat
      /\ \A i, j \in 0..n - 1 : i <= j /\ keys[i] = keys[j] => j - i + 1 <= CollisionRun(keys)
  BY <1>4, <1>5, RunIs
<1>7. CollisionRun(keys) >= 1
  <2>1. 0 \in 0..n - 1
    BY <1>4
  <2> QED
    BY <1>6, <2>1
<1>8. maxError \in Nat /\ CollisionRun(keys) <= maxError
      /\ corridor = maxError - (CollisionRun(keys) - 1)
  BY RadixSplineAssumption DEF SplineInit, Corridor
<1>9. MinKey \in Nat /\ MaxKey \in Nat /\ MaxKey - MinKey \in Nat
  <2>1. 0 \in 0..n - 1 /\ n - 1 \in 0..n - 1 /\ 0 <= n - 1
    BY <1>4
  <2>2. keys[0] \in Nat /\ keys[n - 1] \in Nat /\ keys[0] <= keys[n - 1]
    BY <1>4, <1>5, <2>1
  <2> QED
    BY <1>3, <2>2 DEF MinKey, MaxKey
<1>10. 2^shift \in Nat \ {0}
  <2>1. PICK bits \in RadixBits : shift = ShiftFor(bits)
    BY DEF SplineInit
  <2>2. bits \in Nat
    BY RadixSplineAssumption
  <2>3. shift \in Nat
    BY <1>9, <2>1, <2>2, ShiftIs
  <2> QED
    BY <2>3, PowerOfTwo
<1>11. KeysGiven
  <2>1. NumKeys \in 1..MaxKeys /\ keys \in [0..NumKeys - 1 -> Key]
    BY <1>1, <1>3
  <2>2. \A i, j \in DOMAIN keys : i <= j => keys[i] <= keys[j]
    BY <1>4, <1>5
  <2>3. \A i, j \in DOMAIN keys : i <= j /\ keys[i] = keys[j] => j - i <= maxError - corridor
    BY <1>4, <1>6, <1>8
  <2>4. corridor \in 1..maxError
    BY <1>6, <1>7, <1>8
  <2> QED
    BY <1>8, <1>10, <2>1, <2>2, <2>3, <2>4 DEF KeysGiven
<1>12. RadixCount \in Nat /\ RadixCount >= 2
  BY <1>11, PrefixInOrder
<1>13. /\ pc = "add" /\ next = 0 /\ points = <<>> /\ prefix = 0
       /\ radix = [p \in 0..RadixCount - 1 |-> 0]
       /\ upper = Coord(0, 0) /\ lower = Coord(0, 0) /\ previous = Coord(0, 0)
  BY DEF SplineInit
<1>14. SplineTyped
  <2>1. 0 \in 0..NumKeys /\ 0 \in 0..NumKeys - 1 /\ 0 \in 0..RadixCount - 2
    BY <1>3, <1>4, <1>12
  <2>2. radix \in [0..RadixCount - 1 -> Nat]
    BY <1>13
  <2>3. points \in Seq([x : Key, y : 0..NumKeys - 1])
    BY <1>13
  <2>4. Coord(0, 0) \in [x : Key, y : Nat] /\ Coord(0, 0) \in [x : Key, y : 0..NumKeys - 1]
    BY <1>2, <2>1 DEF Coord
  <2> QED
    BY <1>13, <2>1, <2>2, <2>3, <2>4 DEF SplineTyped
<1>15. Adding
  BY <1>13 DEF Adding
<1>16. Len(points) = 0
  BY <1>13
<1>17. PointsPass
  BY <1>13, <1>16 DEF PointsPass
<1>18. RadixRight
  <2>1. 0 \in 0..RadixCount - 1
    BY <1>12
  <2>2. radix[0] = 0
    BY <1>13, <2>1
  <2>3. \A q \in 0..prefix : Points(q)
    BY <1>16 DEF Points
  <2> QED
    BY <1>13, <2>2, <2>3 DEF RadixRight
<1> QED
  BY <1>11, <1>14, <1>15, <1>17, <1>18 DEF SplineIInv

(* What a build is given stays.                                             *)
SameKeys == UNCHANGED <<keys, maxError, corridor, shift>>

LEMMA GivenStays ==
  ASSUME SameKeys
  PROVE  /\ NumKeys' = NumKeys /\ MinKey' = MinKey /\ MaxKey' = MaxKey
         /\ RadixCount' = RadixCount
         /\ KeysGiven => KeysGiven'
<1>1. keys' = keys /\ maxError' = maxError /\ corridor' = corridor /\ shift' = shift
  BY DEF SameKeys
<1>2. NumKeys' = NumKeys
  BY <1>1 DEF NumKeys
<1>3. MinKey' = MinKey /\ MaxKey' = MaxKey
  BY <1>1, <1>2 DEF MinKey, MaxKey
<1>4. RadixCount' = RadixCount
  BY <1>1, <1>3 DEF RadixCount
<1>5. KeysGiven => KeysGiven'
  BY <1>1, <1>2 DEF KeysGiven
<1> QED
  BY <1>2, <1>3, <1>4, <1>5

LEMMA HelpersStay ==
  ASSUME SameKeys
  PROVE  /\ \A x : Prefix(x)' = Prefix(x)
         /\ \A i : First(i)' <=> First(i)
         /\ \A a, b, i, error : Passes(a, b, i, error)' <=> Passes(a, b, i, error)
<1>1. keys' = keys /\ maxError' = maxError /\ corridor' = corridor /\ shift' = shift
  BY DEF SameKeys
<1>2. \A x : Prefix(x)' = Prefix(x)
  BY <1>1, GivenStays DEF Prefix
<1>3. \A i : First(i)' <=> First(i)
  BY <1>1 DEF First
<1>4. \A a, b, i, error : Passes(a, b, i, error)' <=> Passes(a, b, i, error)
  BY <1>1 DEF Passes
<1> QED
  BY <1>2, <1>3, <1>4

(* One more point: the newest keys' prefixes start at it.                   *)
LEMMA PointAdded ==
  ASSUME SplineIInv, pc = "add", SameKeys,
         NEW point \in [x : Key, y : 0..NumKeys - 1], AddPoint(point),
         points = <<>> => point = Coord(keys[0], 0),
         points # <<>> => Newest.x <= point.x,
         points # <<>> =>
           \A i \in DOMAIN keys : First(i) /\ Newest.x < keys[i] /\ keys[i] <= point.x =>
             Passes(Newest, point, i, maxError)
  PROVE  /\ points' = Append(points, point) /\ Newest' = point
         /\ Len(points') = Len(points) + 1 /\ points' # <<>>
         /\ points' \in Seq([x : Key, y : 0..NumKeys - 1])
         /\ radix' \in [0..RadixCount - 1 -> Nat]
         /\ prefix' \in 0..RadixCount - 2
         /\ prefix' = Prefix(point.x)'
         /\ \A q \in 0..prefix' : Points(q)'
         /\ points'[1] = Coord(keys[0], 0)
         /\ \A s \in 1..Len(points') : points'[s].x <= point.x
         /\ \A s \in 1..Len(points') - 1 : \A i \in DOMAIN keys :
              First(i) /\ points'[s].x < keys[i] /\ keys[i] <= points'[s + 1].x =>
                Passes(points'[s], points'[s + 1], i, maxError)
<1> DEFINE R == [x : Key, y : 0..NumKeys - 1]
<1> DEFINE n == Len(points)
<1> DEFINE p == Prefix(point.x)
<1>0. KeysGiven /\ SplineTyped /\ PointsPass /\ RadixRight
  BY DEF SplineIInv
<1>1. points \in Seq(R) /\ radix \in [0..RadixCount - 1 -> Nat] /\ prefix \in 0..RadixCount - 2
  BY <1>0 DEF SplineTyped
<1>2. points' = Append(points, point) /\ prefix' = p
      /\ radix' = [q \in DOMAIN radix |-> IF prefix < q /\ q <= p THEN n ELSE radix[q]]
  BY DEF AddPoint
<1>3. /\ n \in Nat /\ Len(points') = n + 1 /\ points'[n + 1] = point
      /\ \A s \in 1..n : points'[s] = points[s]
      /\ \A s \in 1..n : points[s] \in R
      /\ points' \in Seq(R)
  <2> HIDE DEF R
  <2>1. point \in R
    BY DEF R
  <2> QED
    BY <1>1, <1>2, <2>1
<1>4. Newest' = point
  BY <1>3 DEF Newest
<1>5. points' # <<>>
  BY <1>3
<1>6. point.x \in Nat /\ \A s \in 1..n : points[s].x \in Nat
  <2>1. Key \subseteq Nat
    BY DEF Key
  <2> QED
    BY <1>3, <2>1
<1>7. /\ RadixCount \in Nat /\ p \in 0..RadixCount - 2 /\ p \in Nat /\ prefix \in Nat
      /\ \A x \in Nat : Prefix(x) \in Nat
      /\ \A x, y \in Nat : x <= y => Prefix(x) <= Prefix(y)
  <2>1. /\ RadixCount \in Nat /\ RadixCount >= 2
        /\ \A x \in Nat : Prefix(x) \in 0..RadixCount - 2
        /\ \A x, y \in Nat : x <= y => Prefix(x) <= Prefix(y)
    BY <1>0, PrefixInOrder
  <2>2. ASSUME NEW x \in Nat
        PROVE  Prefix(x) \in Nat
    <3>1. Prefix(x) \in 0..RadixCount - 2
      BY <2>1
    <3> QED
      BY <2>1, <3>1
  <2>3. p \in 0..RadixCount - 2 /\ p \in Nat
    BY <1>6, <2>1
  <2>4. prefix \in Nat
    BY <1>1
  <2> QED
    BY <2>1, <2>2, <2>3, <2>4
<1>8. radix' \in [0..RadixCount - 1 -> Nat]
  BY <1>1, <1>2, <1>3
<1>9. prefix' = Prefix(point.x)'
  <2>1. \A x : Prefix(x)' = Prefix(x)
    BY HelpersStay
  <2> QED
    BY <1>2, <2>1
<1>10. \A s \in 1..n : points[s].x <= point.x
  <2>1. n > 0 => points # <<>> /\ n \in 1..n /\ Newest = points[n]
    BY <1>3 DEF Newest
  <2>2. ASSUME NEW s \in 1..n
        PROVE  points[s].x <= point.x
    <3>1. points[s].x <= Newest.x /\ Newest.x <= point.x
      BY <1>0, <1>3, <2>1 DEF PointsPass
    <3>2. Newest.x \in Nat
      BY <1>3, <1>6, <2>1
    <3> QED
      BY <1>6, <3>1, <3>2
  <2> QED
    BY <2>2
<1>11. \A s \in 1..Len(points') : points'[s].x <= point.x
  BY <1>3, <1>6, <1>10
<1>12. points'[1] = Coord(keys[0], 0)
  <2>1. CASE points = <<>>
    BY <1>2, <2>1
  <2>2. CASE points # <<>>
    <3>1. 1 \in 1..n
      BY <1>1, <1>3, <2>2
    <3> QED
      BY <1>0, <1>3, <2>2, <3>1 DEF PointsPass
  <2> QED
    BY <2>1, <2>2
<1>13. ASSUME NEW s \in 1..Len(points') - 1, NEW i \in DOMAIN keys, First(i),
              points'[s].x < keys[i], keys[i] <= points'[s + 1].x
       PROVE  Passes(points'[s], points'[s + 1], i, maxError)
  <2>1. CASE s < n
    <3>1. s \in 1..n - 1 /\ s \in 1..n /\ s + 1 \in 1..n
      BY <1>3, <2>1
    <3>2. points'[s] = points[s] /\ points'[s + 1] = points[s + 1]
      BY <1>3, <3>1
    <3> QED
      BY <1>0, <1>13, <3>1, <3>2 DEF PointsPass
  <2>2. CASE s = n
    <3>1. points # <<>> /\ s \in 1..n /\ points'[s] = Newest /\ points'[s + 1] = point
      BY <1>3, <2>2 DEF Newest
    <3> QED
      BY <1>13, <3>1
  <2> QED
    BY <1>3, <2>1, <2>2
<1>14. ASSUME NEW q \in 0..p
       PROVE  \A k \in 1..n + 1 : k <= radix'[q] <=> Prefix(points'[k].x) < q
  <2>1. q \in DOMAIN radix /\ q \in 0..RadixCount - 1 /\ radix[q] \in Nat
    <3>1. q \in 0..RadixCount - 1
      BY <1>7
    <3> QED
      BY <1>1, <3>1
  <2>2. ASSUME NEW k \in 1..n
        PROVE  points'[k] = points[k] /\ points[k].x \in Nat /\ Prefix(points[k].x) \in Nat
    BY <1>3, <1>6, <1>7
  <2>3. CASE prefix < q
    <3>1. radix'[q] = n
      BY <1>2, <2>1, <2>3
    <3>2. ASSUME NEW k \in 1..n
          PROVE  Prefix(points[k].x) < q
      <4>1. points # <<>> /\ n \in 1..n /\ Newest = points[n] /\ prefix = Prefix(Newest.x)
        BY <1>0, <1>3 DEF Newest, RadixRight
      <4>2. points[k].x <= Newest.x /\ Newest.x \in Nat
        BY <1>0, <1>3, <1>6, <4>1 DEF PointsPass
      <4>3. Prefix(points[k].x) <= prefix
        BY <1>7, <2>2, <4>1, <4>2
      <4> QED
        BY <1>7, <2>2, <2>3, <4>3
    <3>3. ~ (Prefix(point.x) < q)
      BY <1>7
    <3>4. ASSUME NEW k \in 1..n
          PROVE  k <= radix'[q] <=> Prefix(points'[k].x) < q
      <4>1. points'[k] = points[k] /\ Prefix(points[k].x) < q
        BY <2>2, <3>2
      <4>2. k <= n
        BY <1>3
      <4> QED
        BY <3>1, <4>1, <4>2
    <3>5. ~ (n + 1 <= radix'[q]) /\ points'[n + 1] = point
      BY <1>3, <3>1
    <3> HIDE DEF n
    <3>6. n \in Nat
      BY <1>3
    <3> QED
      BY <3>3, <3>4, <3>5, <3>6
  <2>4. CASE ~ (prefix < q)
    <3>1. radix'[q] = radix[q] /\ q \in 0..prefix /\ Points(q)
      BY <1>0, <1>2, <1>7, <2>1, <2>4 DEF RadixRight
    <3>2. radix[q] < n + 1
      <4>1. CASE points = <<>>
        <5>1. prefix = 0 /\ radix[0] = 0
          BY <1>0, <4>1 DEF RadixRight
        <5>2. q = 0
          BY <3>1, <5>1
        <5> QED
          BY <1>3, <5>1, <5>2
      <4>2. CASE points # <<>>
        <5>1. n \in 1..n /\ Newest = points[n] /\ prefix = Prefix(Newest.x)
          BY <1>0, <1>1, <1>3, <4>2 DEF Newest, RadixRight
        <5>2. ~ (n <= radix[q])
          BY <1>7, <2>4, <3>1, <5>1 DEF Points
        <5> QED
          BY <1>3, <2>1, <5>2
      <4> QED
        BY <4>1, <4>2
    <3>3. ~ (Prefix(point.x) < q)
      BY <1>7
    <3>4. \A k \in 1..n : k <= radix'[q] <=> Prefix(points'[k].x) < q
      BY <2>2, <3>1 DEF Points
    <3>5. ~ (n + 1 <= radix'[q]) /\ points'[n + 1] = point
      BY <1>3, <2>1, <3>1, <3>2
    <3> HIDE DEF n
    <3>6. n \in Nat
      BY <1>3
    <3> QED
      BY <3>3, <3>4, <3>5, <3>6
  <2> QED
    BY <2>3, <2>4
<1>15. \A q \in 0..prefix' : Points(q)'
  <2>1. MinKey' = MinKey /\ RadixCount' = RadixCount /\ shift' = shift
    BY GivenStays DEF SameKeys
  <2>2. \A q \in 0..prefix' : \A k \in 1..Len(points') :
          k <= radix'[q] <=> Prefix(points'[k].x) < q
    BY <1>2, <1>3, <1>14
  <2> QED
    BY <2>1, <2>2 DEF Points, Prefix
<1> QED
  BY <1>2, <1>3, <1>4, <1>5, <1>7, <1>8, <1>9, <1>11, <1>12, <1>13, <1>15

(* What the keys added so far say of the next one.                          *)
LEMMA AddedIs ==
  ASSUME KeysGiven, next \in 0..NumKeys
  PROVE  /\ Cardinality(AddedKeys) = 1 => next > 0 /\ keys[next - 1] = keys[0]
         /\ Cardinality(AddedKeys) >= 2 => next > 0 /\ keys[next - 1] # keys[0]
         /\ next \in DOMAIN keys /\ keys[next] \in AddedKeys =>
              next > 0 /\ keys[next] = keys[next - 1]
         /\ next \in DOMAIN keys /\ keys[next] \notin AddedKeys /\ next > 0 =>
              keys[next - 1] < keys[next]
<1>1. /\ DOMAIN keys = 0..NumKeys - 1 /\ NumKeys \in Nat \ {0}
      /\ \A i \in 0..NumKeys - 1 : keys[i] \in Nat
      /\ \A i, j \in 0..NumKeys - 1 : i <= j => keys[i] <= keys[j]
  BY KeyTypes DEF KeysGiven
<1>2. next = 0 => AddedKeys = {}
  BY DEF AddedKeys
<1>3. Cardinality({}) = 0
  BY FS_EmptySet
<1>4. next > 0 => 0 \in 0..next - 1 /\ next - 1 \in 0..next - 1
  BY <1>1
<1>5. next > 0 => keys[0] \in AddedKeys /\ keys[next - 1] \in AddedKeys
  BY <1>4 DEF AddedKeys
<1>6. next > 0 /\ keys[next - 1] = keys[0] => AddedKeys = {keys[0]}
  <2> SUFFICES ASSUME next > 0, keys[next - 1] = keys[0]
               PROVE  AddedKeys = {keys[0]}
    OBVIOUS
  <2>1. ASSUME NEW i \in 0..next - 1
        PROVE  keys[i] = keys[0]
    <3>1. /\ i \in 0..NumKeys - 1 /\ 0 \in 0..NumKeys - 1 /\ next - 1 \in 0..NumKeys - 1
          /\ 0 <= i /\ i <= next - 1
      BY <1>1
    <3>2. keys[0] <= keys[i] /\ keys[i] <= keys[next - 1]
      BY <1>1, <3>1
    <3>3. keys[0] \in Nat /\ keys[i] \in Nat
      BY <1>1, <3>1
    <3> QED
      BY <3>2, <3>3
  <2> QED
    BY <1>5, <2>1 DEF AddedKeys
<1>7. Cardinality(AddedKeys) = 1 => next > 0 /\ keys[next - 1] = keys[0]
  <2> SUFFICES ASSUME Cardinality(AddedKeys) = 1
               PROVE  next > 0 /\ keys[next - 1] = keys[0]
    OBVIOUS
  <2>1. next > 0
    BY <1>2, <1>3
  <2>2. IsFiniteSet(AddedKeys)
    <3>1. AddedKeys \in SUBSET (0..keys[NumKeys - 1])
      <4>1. ASSUME NEW i \in 0..next - 1
            PROVE  keys[i] \in 0..keys[NumKeys - 1]
        <5>1. i \in 0..NumKeys - 1 /\ NumKeys - 1 \in 0..NumKeys - 1 /\ i <= NumKeys - 1
          BY <1>1
        <5>2. keys[i] <= keys[NumKeys - 1] /\ keys[i] \in Nat /\ keys[NumKeys - 1] \in Nat
          BY <1>1, <5>1
        <5> QED
          BY <5>2
      <4> QED
        BY <4>1 DEF AddedKeys
    <3>2. NumKeys - 1 \in 0..NumKeys - 1
      BY <1>1
    <3>3. keys[NumKeys - 1] \in Int /\ 0 \in Int
      BY <1>1, <3>2
    <3>4. IsFiniteSet(0..keys[NumKeys - 1])
      BY <3>3, FS_Interval
    <3> QED
      BY <3>1, <3>4, FS_Subset
  <2>3. PICK x : AddedKeys = {x}
    BY <2>2, FS_Singleton
  <2> QED
    BY <1>5, <2>1, <2>3
<1>8. Cardinality(AddedKeys) >= 2 => next > 0 /\ keys[next - 1] # keys[0]
  <2>1. Cardinality({keys[0]}) = 1
    BY FS_Singleton
  <2>2. CASE next = 0
    BY <1>2, <1>3, <2>2
  <2>3. CASE next > 0
    <3>1. CASE keys[next - 1] = keys[0]
      <4>1. AddedKeys = {keys[0]}
        BY <1>6, <2>3, <3>1
      <4>2. Cardinality(AddedKeys) = 1
        BY <2>1, <4>1
      <4> QED
        BY <4>2
    <3> QED
      BY <2>3, <3>1
  <2> QED
    BY <2>2, <2>3
<1>9. ASSUME next \in DOMAIN keys, keys[next] \in AddedKeys
      PROVE  next > 0 /\ keys[next] = keys[next - 1]
  <2>1. PICK i \in 0..next - 1 : keys[next] = keys[i]
    BY <1>9 DEF AddedKeys
  <2>2. /\ i \in 0..NumKeys - 1 /\ next - 1 \in 0..NumKeys - 1 /\ next \in 0..NumKeys - 1
        /\ i <= next - 1 /\ next - 1 <= next /\ next > 0
    BY <1>1, <1>9
  <2>3. keys[i] <= keys[next - 1] /\ keys[next - 1] <= keys[next]
    BY <1>1, <2>2
  <2>4. keys[i] \in Nat /\ keys[next - 1] \in Nat
    BY <1>1, <2>2
  <2> QED
    BY <2>1, <2>2, <2>3, <2>4
<1>10. ASSUME next \in DOMAIN keys, keys[next] \notin AddedKeys, next > 0
       PROVE  keys[next - 1] < keys[next]
  <2>1. next - 1 \in 0..NumKeys - 1 /\ next \in 0..NumKeys - 1 /\ next - 1 <= next
    BY <1>1, <1>10
  <2>2. keys[next - 1] <= keys[next] /\ keys[next - 1] \in Nat /\ keys[next] \in Nat
    BY <1>1, <2>1
  <2>3. keys[next - 1] # keys[next]
    BY <1>5, <1>10
  <2> QED
    BY <2>2, <2>3
<1> QED
  BY <1>7, <1>8, <1>9, <1>10

(* While keys are added.                                                    *)
LEMMA AddTypes ==
  ASSUME SplineIInv, pc = "add", next > 0
  PROVE  /\ Newest \in [x : Key, y : 0..NumKeys - 1]
         /\ Newest.x \in Nat /\ Newest.y \in 0..NumKeys - 1
         /\ previous.x \in Nat /\ previous.y \in 0..NumKeys - 1
         /\ upper.x \in Nat /\ upper.y \in Nat /\ lower.x \in Nat /\ lower.y \in Nat
         /\ corridor \in Nat /\ maxError \in Nat /\ next \in 1..NumKeys
<1>1. SplineTyped /\ points # <<>> /\ KeysGiven
  BY DEF SplineIInv, Adding
<1>2. Key \subseteq Nat
  BY DEF Key
<1>3. Newest \in [x : Key, y : 0..NumKeys - 1]
  <2> DEFINE R == [x : Key, y : 0..NumKeys - 1]
  <2>1. points \in Seq(R)
    BY <1>1 DEF SplineTyped
  <2> HIDE DEF R
  <2>2. points[Len(points)] \in R
    BY <1>1, <2>1
  <2> QED
    BY <2>2 DEF Newest, R
<1>4. previous \in [x : Key, y : 0..NumKeys - 1]
  BY <1>1 DEF SplineTyped
<1>5. upper \in [x : Key, y : Nat] /\ lower \in [x : Key, y : Nat]
  BY <1>1 DEF SplineTyped
<1>6. corridor \in Nat /\ maxError \in Nat
  BY <1>1 DEF KeysGiven
<1>7. next \in 1..NumKeys
  <2>1. next \in 0..NumKeys /\ NumKeys \in Nat
    BY <1>1, KeyTypes DEF SplineTyped
  <2> QED
    BY <2>1
<1> QED
  BY <1>2, <1>3, <1>4, <1>5, <1>6, <1>7

(* A corridor that starts at the newest key's slot; here is the slot of     *)
(* the next key.                                                            *)
LEMMA CorridorOpens ==
  ASSUME KeysGiven, SameKeys, next \in 1..NumKeys - 1, next' = next + 1,
         keys[next - 1] < keys[next],
         NEW nx \in Nat, NEW ny \in Nat, Newest'.x = nx, Newest'.y = ny,
         nx = keys[next - 1], ny < next,
         NEW here, here = Coord(keys[next], next),
         upper' = High(here), lower' = Low(here), previous' = here
  PROVE  /\ CorridorOpen'
         /\ previous'.y < next' /\ previous'.x = keys'[previous'.y]
         /\ First(previous.y)' /\ previous'.x = keys'[next' - 1]
         /\ next' \in 0..NumKeys' /\ previous' \in [x : Key, y : 0..NumKeys' - 1]
         /\ upper' \in [x : Key, y : Nat] /\ lower' \in [x : Key, y : Nat]
<1>1. /\ DOMAIN keys = 0..NumKeys - 1 /\ NumKeys \in Nat \ {0}
      /\ \A i \in 0..NumKeys - 1 : keys[i] \in Nat /\ keys[i] \in Key
      /\ \A i, j \in 0..NumKeys - 1 : i <= j => keys[i] <= keys[j]
  BY KeyTypes DEF KeysGiven
<1>2. keys' = keys /\ corridor' = corridor /\ NumKeys' = NumKeys
  BY GivenStays DEF SameKeys
<1>3. corridor \in Nat
  BY DEF KeysGiven
<1>4. here = [x |-> keys[next], y |-> next] /\ here.x = keys[next] /\ here.y = next
  BY DEF Coord
<1>5. next - 1 \in 0..NumKeys - 1 /\ next \in 0..NumKeys - 1 /\ next \in Nat
      /\ keys[next] \in Nat /\ keys[next] \in Key /\ keys[next - 1] \in Nat
  BY <1>1
<1>6. PICK high \in Nat : upper' = [x |-> keys[next], y |-> high] /\ high = next + corridor
  <2>1. upper' = [x |-> keys[next], y |-> next + corridor]
    BY <1>4 DEF High, Coord
  <2>2. next + corridor \in Nat
    BY <1>3, <1>5
  <2> QED
    BY <2>1, <2>2
<1>7. PICK low \in Nat : lower' = [x |-> keys[next], y |-> low] /\ low >= next - corridor
  <2>1. lower' = [x |-> keys[next], y |-> IF next < corridor THEN 0 ELSE next - corridor]
    BY <1>4 DEF Low, Coord
  <2>2. (IF next < corridor THEN 0 ELSE next - corridor) \in Nat
        /\ (IF next < corridor THEN 0 ELSE next - corridor) >= next - corridor
    BY <1>3, <1>5
  <2> QED
    BY <2>1, <2>2
<1>8. \A i \in 0..next - 1 : keys[i] < keys[next]
  <2>1. ASSUME NEW i \in 0..next - 1
        PROVE  keys[i] < keys[next]
    <3>1. i \in 0..NumKeys - 1 /\ i <= next - 1
      BY <1>1
    <3>2. keys[i] <= keys[next - 1] /\ keys[i] \in Nat
      BY <1>1, <1>5, <3>1
    <3> QED
      BY <1>5, <3>2
  <2> QED
    BY <2>1
<1>10. keys[next] # keys[0]
  <2>1. 0 \in 0..next - 1
    OBVIOUS
  <2>2. keys[0] < keys[next]
    BY <1>8, <2>1
  <2>3. keys[0] \in Nat
    BY <1>1
  <2> QED
    BY <1>5, <2>2, <2>3
<1>11. next' - 1 = next
  OBVIOUS
<1>12. ASSUME NEW i \in Ahead'
       PROVE  Passes(Newest, previous, i, corridor)' /\ UpperBounds(i)' /\ LowerBounds(i)'
  <2>1. i \in 0..next /\ keys[i] > nx
    BY <1>2 DEF Ahead
  <2>2. i = next
    <3>1. CASE i \in 0..next - 1
      <4>1. i \in 0..NumKeys - 1 /\ i <= next - 1
        BY <1>1, <3>1
      <4>2. keys[i] <= keys[next - 1] /\ keys[i] \in Nat
        BY <1>1, <1>5, <4>1
      <4> QED
        BY <2>1, <4>2
    <3> QED
      BY <2>1, <3>1
  <2> DEFINE w == keys[next] - nx
  <2>3. w \in Nat
    BY <1>5
  <2>4. (next - ny - corridor) * w <= (next - ny) * w
    <3> HIDE DEF w
    <3>1. next - ny - corridor \in Int /\ next - ny \in Int /\ next - ny - corridor <= next - ny
      BY <1>3, <1>5
    <3> QED
      BY <2>3, <3>1, ProductsKeepOrder
  <2>5. (next - ny) * w <= (next - ny + corridor) * w
    <3> HIDE DEF w
    <3>1. next - ny + corridor \in Int /\ next - ny \in Int /\ next - ny <= next - ny + corridor
      BY <1>3, <1>5
    <3> QED
      BY <2>3, <3>1, ProductsKeepOrder
  <2>6. (next - corridor - ny) * w <= (low - ny) * w
    <3> HIDE DEF w
    <3>1. next - corridor - ny \in Int /\ low - ny \in Int /\ next - corridor - ny <= low - ny
      BY <1>3, <1>5, <1>7
    <3> QED
      BY <2>3, <3>1, ProductsKeepOrder
  <2>7. Passes(Newest, previous, i, corridor)'
    BY <1>2, <1>4, <2>2, <2>4, <2>5 DEF Passes
  <2>8. UpperBounds(i)'
    <3>1. (high - ny) * w <= (next + corridor - ny) * w
      <4> HIDE DEF w
      <4>1. high - ny \in Int /\ next + corridor - ny \in Int /\ high - ny <= next + corridor - ny
        BY <1>3, <1>5, <1>6
      <4> QED
        BY <2>3, <4>1, ProductsKeepOrder
    <3> QED
      BY <1>2, <1>6, <2>2, <3>1 DEF UpperBounds
  <2>9. LowerBounds(i)'
    BY <1>2, <1>7, <2>2, <2>6 DEF LowerBounds
  <2> QED
    BY <2>7, <2>8, <2>9
<1>13. CorridorOpen'
  <2>1. keys'[next' - 1] # keys'[0]
    BY <1>2, <1>10, <1>11
  <2>2. Newest'.x < previous'.x /\ Newest'.y < previous'.y
    BY <1>4, <1>5
  <2>3. Newest'.x < upper'.x /\ Newest'.x < lower'.x
    BY <1>5, <1>6, <1>7
  <2> QED
    BY <1>12, <2>1, <2>2, <2>3 DEF CorridorOpen
<1>14. next' \in 0..NumKeys' /\ previous' \in [x : Key, y : 0..NumKeys' - 1]
  BY <1>1, <1>2, <1>4, <1>5
<1>15. upper' \in [x : Key, y : Nat] /\ lower' \in [x : Key, y : Nat]
  BY <1>3, <1>5, <1>6, <1>7
<1>16. previous'.y < next' /\ previous'.x = keys'[previous'.y]
       /\ First(previous.y)' /\ previous'.x = keys'[next' - 1]
  <2>1. previous'.y = next /\ previous'.x = keys[next]
    BY <1>4
  <2>2. First(previous.y)'
    BY <1>2, <1>8, <2>1 DEF First
  <2> QED
    BY <1>2, <1>5, <1>11, <2>1, <2>2
<1> QED
  BY <1>13, <1>14, <1>15, <1>16

(* What a step leaves that adds no point.                                   *)
LEMMA PointsStay ==
  ASSUME SplineIInv, SameKeys, UNCHANGED <<points, radix, prefix>>, pc = "add", pc' = "add"
  PROVE  /\ KeysGiven' /\ PointsPass' /\ RadixRight' /\ Newest' = Newest
         /\ pc' \in {"add", "finish", "validate", "done"}
         /\ points' \in Seq([x : Key, y : 0..NumKeys' - 1])
         /\ radix' \in [0..RadixCount' - 1 -> Nat] /\ prefix' \in 0..RadixCount' - 2
<1>1. KeysGiven /\ SplineTyped /\ PointsPass /\ RadixRight
  BY DEF SplineIInv
<1>2. /\ NumKeys' = NumKeys /\ MinKey' = MinKey /\ MaxKey' = MaxKey /\ RadixCount' = RadixCount
      /\ KeysGiven' /\ keys' = keys /\ maxError' = maxError /\ corridor' = corridor
      /\ shift' = shift
  BY <1>1, GivenStays DEF SameKeys
<1>3. points' = points /\ radix' = radix /\ prefix' = prefix
  OBVIOUS
<1>4. Newest' = Newest
  BY <1>3 DEF Newest
<1>5. PointsPass'
  BY <1>1, <1>2, <1>3, <1>4 DEF PointsPass, First, Passes
<1>6. RadixRight'
  BY <1>1, <1>2, <1>3, <1>4 DEF RadixRight, Points, Prefix
<1> QED
  BY <1>1, <1>2, <1>3, <1>4, <1>5, <1>6 DEF SplineTyped

LEMMA SkipDuplicateHolds ==
  ASSUME SplineIInv, SkipDuplicate
  PROVE  SplineIInv'
<1>1. KeysGiven /\ SplineTyped /\ Adding /\ pc = "add" /\ next \in DOMAIN keys
      /\ keys[next] \in AddedKeys /\ next' = next + 1
  BY DEF SplineIInv, SkipDuplicate
<1>2. /\ SameKeys /\ pc' = "add"
      /\ points' = points /\ radix' = radix /\ prefix' = prefix
      /\ upper' = upper /\ lower' = lower /\ previous' = previous
  BY <1>1 DEF SkipDuplicate, SameKeys
<1>3. /\ NumKeys' = NumKeys /\ keys' = keys /\ corridor' = corridor
  BY <1>2, GivenStays DEF SameKeys
<1>4. /\ KeysGiven' /\ PointsPass' /\ RadixRight' /\ Newest' = Newest
      /\ pc' \in {"add", "finish", "validate", "done"}
      /\ points' \in Seq([x : Key, y : 0..NumKeys' - 1])
      /\ radix' \in [0..RadixCount' - 1 -> Nat] /\ prefix' \in 0..RadixCount' - 2
  BY <1>1, <1>2, PointsStay
<1>5. next > 0 /\ keys[next] = keys[next - 1] /\ next \in 0..NumKeys - 1
      /\ NumKeys \in Nat \ {0} /\ keys[next] \in Nat
  <2>1. next \in 0..NumKeys
    BY <1>1 DEF SplineTyped
  <2> QED
    BY <1>1, <2>1, AddedIs, KeyTypes
<1>6. next' \in 0..NumKeys' /\ next' - 1 = next /\ next' > 0
  BY <1>1, <1>3, <1>5
<1>7. SplineTyped'
  <2>1. previous' \in [x : Key, y : 0..NumKeys' - 1]
        /\ upper' \in [x : Key, y : Nat] /\ lower' \in [x : Key, y : Nat]
    BY <1>1, <1>2, <1>3 DEF SplineTyped
  <2> QED
    BY <1>4, <1>6, <2>1 DEF SplineTyped
<1>8. /\ points # <<>> /\ Len(points) <= Newest.y + 1
      /\ previous.y < next /\ previous.x = keys[previous.y] /\ First(previous.y)
      /\ previous.x = keys[next - 1] /\ CorridorOpen
  BY <1>1, <1>5 DEF Adding
<1>9. Ahead' \subseteq Ahead
  <2>1. ASSUME NEW i \in Ahead'
        PROVE  i \in Ahead
    <3>1. i \in 0..next /\ (\A j \in 0..i - 1 : keys[j] < keys[i]) /\ keys[i] > Newest.x
      BY <1>3, <1>4, <1>6 DEF Ahead, First
    <3>2. i # next
      <4>1. CASE i = next
        <5>1. next - 1 \in 0..i - 1
          BY <1>5, <4>1
        <5>2. keys[next - 1] < keys[next]
          BY <3>1, <4>1, <5>1
        <5> QED
          BY <1>5, <5>2
      <4> QED
        BY <4>1
    <3>3. i \in 0..next - 1
      BY <1>5, <3>1, <3>2
    <3> QED
      BY <3>1, <3>3 DEF Ahead, First
  <2> QED
    BY <2>1
<1>10. CorridorOpen'
  <2>1. keys'[next' - 1] = keys[next - 1] /\ keys'[0] = keys[0]
    BY <1>3, <1>5, <1>6
  <2>2. ASSUME NEW i \in Ahead, Passes(Newest, previous, i, corridor), UpperBounds(i), LowerBounds(i)
        PROVE  Passes(Newest, previous, i, corridor)' /\ UpperBounds(i)' /\ LowerBounds(i)'
    BY <1>2, <1>3, <1>4, <2>2 DEF Passes, UpperBounds, LowerBounds
  <2> QED
    BY <1>2, <1>4, <1>8, <1>9, <2>1, <2>2 DEF CorridorOpen
<1>11. Adding'
  <2>1. points' # <<>> /\ Len(points') <= Newest'.y + 1
    BY <1>2, <1>4, <1>8
  <2>2. previous'.y < next'
    <3>1. previous.y \in 0..NumKeys - 1
      BY <1>1 DEF SplineTyped
    <3> QED
      BY <1>1, <1>2, <1>5, <1>8, <3>1
  <2>3. previous'.x = keys'[previous'.y] /\ previous'.x = keys'[next' - 1]
    BY <1>2, <1>3, <1>5, <1>6, <1>8
  <2>4. First(previous.y)'
    BY <1>2, <1>3, <1>8 DEF First
  <2> QED
    BY <1>6, <1>10, <2>1, <2>2, <2>3, <2>4 DEF Adding
<1> QED
  BY <1>4, <1>7, <1>11 DEF SplineIInv

LEMMA AddFirstHolds ==
  ASSUME SplineIInv, AddFirst
  PROVE  SplineIInv'
<1> DEFINE point == Coord(keys[0], 0)
<1>1. KeysGiven /\ SplineTyped /\ Adding /\ pc = "add" /\ next = 0 /\ points = <<>>
  BY DEF SplineIInv, AddFirst, Adding
<1>2. /\ AddPoint(point) /\ previous' = point /\ next' = 1 /\ SameKeys /\ pc' = "add"
      /\ upper' = upper /\ lower' = lower
  BY <1>1 DEF AddFirst, SameKeys
<1>3. NumKeys' = NumKeys /\ keys' = keys /\ RadixCount' = RadixCount /\ KeysGiven'
  BY <1>1, <1>2, GivenStays DEF SameKeys
<1>4. NumKeys \in Nat \ {0} /\ 0 \in 0..NumKeys - 1 /\ keys[0] \in Key
  BY <1>1, KeyTypes
<1>5. point \in [x : Key, y : 0..NumKeys - 1] /\ point.x = keys[0] /\ point.y = 0
  BY <1>4 DEF Coord
<1>6. PICK here \in [x : Key, y : 0..NumKeys - 1] : here = point
  BY <1>5
<1> HIDE DEF point
<1>7. here = Coord(keys[0], 0) /\ AddPoint(here)
  BY <1>2, <1>6 DEF point
<1>8. /\ points' = Append(points, here) /\ Newest' = here
      /\ Len(points') = Len(points) + 1 /\ points' # <<>>
      /\ points' \in Seq([x : Key, y : 0..NumKeys - 1])
      /\ radix' \in [0..RadixCount - 1 -> Nat]
      /\ prefix' \in 0..RadixCount - 2
      /\ prefix' = Prefix(here.x)'
      /\ \A q \in 0..prefix' : Points(q)'
      /\ points'[1] = Coord(keys[0], 0)
      /\ \A s \in 1..Len(points') : points'[s].x <= here.x
      /\ \A s \in 1..Len(points') - 1 : \A i \in DOMAIN keys :
           First(i) /\ points'[s].x < keys[i] /\ keys[i] <= points'[s + 1].x =>
             Passes(points'[s], points'[s + 1], i, maxError)
  BY <1>1, <1>2, <1>7, PointAdded
<1>9. Len(points') = 1
  BY <1>1, <1>8
<1>10. SplineTyped'
  <2>1. next' \in 0..NumKeys'
    BY <1>2, <1>3, <1>4
  <2>2. previous' \in [x : Key, y : 0..NumKeys' - 1]
    BY <1>2, <1>3, <1>5
  <2>3. upper' \in [x : Key, y : Nat] /\ lower' \in [x : Key, y : Nat]
    BY <1>1, <1>2 DEF SplineTyped
  <2>4. pc' \in {"add", "finish", "validate", "done"}
    BY <1>2
  <2> QED
    BY <1>3, <1>8, <2>1, <2>2, <2>3, <2>4 DEF SplineTyped
<1>11. Adding'
  <2>1. here.x = keys[0] /\ here.y = 0 /\ previous' = here
    BY <1>2, <1>5, <1>6
  <2>2. First(previous.y)'
    BY <2>1 DEF First
  <2>3. CorridorOpen'
    BY <1>2, <1>3, <1>8, <2>1 DEF CorridorOpen
  <2>4. Len(points') <= Newest'.y + 1
    BY <1>8, <1>9, <2>1
  <2> QED
    BY <1>2, <1>3, <1>8, <2>1, <2>2, <2>3, <2>4 DEF Adding
<1>12. PointsPass' /\ RadixRight'
  <2>1. PointsPass'
    BY <1>2, <1>3, <1>8, HelpersStay DEF PointsPass, SameKeys
  <2>2. RadixRight'
    BY <1>2, <1>8 DEF RadixRight
  <2> QED
    BY <2>1, <2>2
<1> QED
  BY <1>3, <1>10, <1>11, <1>12 DEF SplineIInv

LEMMA AddSecondHolds ==
  ASSUME SplineIInv, AddSecond
  PROVE  SplineIInv'
<1>1. KeysGiven /\ SplineTyped /\ Adding /\ pc = "add" /\ NewKey
      /\ Cardinality(AddedKeys) = 1
  BY DEF SplineIInv, AddSecond, NewKey
<1>2. PICK here : /\ here = Coord(keys[next], next)
                  /\ upper' = High(here) /\ lower' = Low(here) /\ previous' = here
  BY DEF AddSecond
<1>3. /\ next' = next + 1 /\ SameKeys /\ pc' = "add"
      /\ points' = points /\ radix' = radix /\ prefix' = prefix
  BY <1>1 DEF AddSecond, SameKeys
<1>4. /\ KeysGiven' /\ PointsPass' /\ RadixRight' /\ Newest' = Newest
      /\ pc' \in {"add", "finish", "validate", "done"}
      /\ points' \in Seq([x : Key, y : 0..NumKeys' - 1])
      /\ radix' \in [0..RadixCount' - 1 -> Nat] /\ prefix' \in 0..RadixCount' - 2
  BY <1>1, <1>3, PointsStay
<1>5. next > 0 /\ keys[next - 1] = keys[0] /\ keys[next - 1] < keys[next]
      /\ next \in 1..NumKeys - 1
  <2>1. next \in 0..NumKeys /\ next \in DOMAIN keys /\ keys[next] \notin AddedKeys
    BY <1>1 DEF SplineTyped, NewKey
  <2>2. next > 0 /\ keys[next - 1] = keys[0] /\ keys[next - 1] < keys[next]
    BY <1>1, <2>1, AddedIs
  <2> QED
    BY <1>1, <2>1, <2>2, KeyTypes
<1>6. /\ points # <<>> /\ Len(points) <= Newest.y + 1 /\ previous.y < next
      /\ previous.x = keys[next - 1] /\ CorridorOpen
  BY <1>1, <1>5 DEF Adding
<1>7. previous = Newest
  BY <1>5, <1>6 DEF CorridorOpen
<1>8. Newest.x \in Nat /\ Newest.y \in 0..NumKeys - 1
  BY <1>1, <1>5, AddTypes
<1>9. PICK nx \in Nat, ny \in Nat : Newest.x = nx /\ Newest.y = ny
  BY <1>8
<1>10. /\ Newest'.x = nx /\ Newest'.y = ny /\ nx = keys[next - 1] /\ ny < next
  BY <1>4, <1>6, <1>7, <1>9
<1>11. /\ CorridorOpen'
       /\ previous'.y < next' /\ previous'.x = keys'[previous'.y]
       /\ First(previous.y)' /\ previous'.x = keys'[next' - 1]
       /\ next' \in 0..NumKeys' /\ previous' \in [x : Key, y : 0..NumKeys' - 1]
       /\ upper' \in [x : Key, y : Nat] /\ lower' \in [x : Key, y : Nat]
  BY ONLY <1>1, <1>2, <1>3, <1>5, <1>10, nx \in Nat, ny \in Nat, CorridorOpens
<1>12. SplineTyped'
  BY <1>4, <1>11 DEF SplineTyped
<1>13. Adding'
  <2>1. points' # <<>> /\ Len(points') <= Newest'.y + 1 /\ next' # 0
    BY <1>3, <1>4, <1>5, <1>6
  <2> QED
    BY <1>11, <2>1 DEF Adding
<1> QED
  BY <1>4, <1>12, <1>13 DEF SplineIInv

LEMMA AddOutsideHolds ==
  ASSUME SplineIInv, AddOutside
  PROVE  SplineIInv'
<1>1. KeysGiven /\ SplineTyped /\ Adding /\ PointsPass /\ pc = "add" /\ NewKey
      /\ Cardinality(AddedKeys) >= 2
  BY DEF SplineIInv, AddOutside, NewKey
<1>2. PICK here : /\ here = Coord(keys[next], next)
                  /\ upper' = High(here) /\ lower' = Low(here) /\ previous' = here
  BY DEF AddOutside
<1>3. next' = next + 1 /\ SameKeys
  BY <1>1 DEF AddOutside, SameKeys
<1>4. NumKeys' = NumKeys /\ keys' = keys /\ RadixCount' = RadixCount /\ KeysGiven'
  BY <1>1, <1>3, GivenStays DEF SameKeys
<1>5. next > 0 /\ keys[next - 1] # keys[0] /\ keys[next - 1] < keys[next]
      /\ next \in 1..NumKeys - 1
  <2>1. next \in 0..NumKeys /\ next \in DOMAIN keys /\ keys[next] \notin AddedKeys
    BY <1>1 DEF SplineTyped, NewKey
  <2>2. next > 0 /\ keys[next - 1] # keys[0] /\ keys[next - 1] < keys[next]
    BY <1>1, <2>1, AddedIs
  <2> QED
    BY <1>1, <2>1, <2>2, KeyTypes
<1>6. /\ points # <<>> /\ Len(points) <= Newest.y + 1 /\ previous.y < next
      /\ previous.x = keys[next - 1] /\ CorridorOpen
  BY <1>1, <1>5 DEF Adding
<1>7. /\ Newest.x \in Nat /\ Newest.y \in 0..NumKeys - 1 /\ corridor \in Nat /\ maxError \in Nat
      /\ previous.x \in Nat /\ previous.y \in 0..NumKeys - 1
  BY <1>1, <1>5, AddTypes
<1>8. Newest.x < previous.x /\ Newest.y < previous.y
  BY <1>5, <1>6 DEF CorridorOpen
<1>9. Len(points) \in Nat
  BY <1>1 DEF SplineTyped
<1>10. ~Full
  <2>1. NumKeys \in Nat \ {0}
    BY <1>1, KeyTypes
  <2> QED
    BY <1>5, <1>6, <1>7, <1>8, <1>9, <2>1 DEF Full
<1>11. pc' = "add" /\ AddPoint(previous)
  BY <1>1, <1>10 DEF AddOutside
<1>12. PICK p \in [x : Key, y : 0..NumKeys - 1] : p = previous
  BY <1>1 DEF SplineTyped
<1>13. PICK px \in Nat, py \in 0..NumKeys - 1 : p.x = px /\ p.y = py
  BY <1>7, <1>12
<1>14. ASSUME NEW i \in DOMAIN keys, First(i), Newest.x < keys[i], keys[i] <= p.x
       PROVE  Passes(Newest, p, i, maxError)
  <2>1. i \in Ahead
    <3>1. i \in 0..NumKeys - 1 /\ next \in 0..NumKeys - 1
          /\ keys[i] \in Nat /\ keys[next] \in Nat /\ keys[next - 1] \in Nat
      <4>1. next - 1 \in 0..NumKeys - 1 /\ next \in 0..NumKeys - 1
        <5>1. NumKeys \in Nat \ {0}
          BY <1>1, KeyTypes
        <5> QED
          BY <1>5, <5>1
      <4> QED
        BY <1>1, <1>14, <4>1, KeyTypes
    <3>2. i < next
      <4>1. CASE next <= i
        <5>1. keys[next] <= keys[i]
          BY <1>1, <3>1, <4>1, KeyTypes DEF KeysGiven
        <5> QED
          BY <1>5, <1>6, <1>12, <1>14, <3>1, <5>1
      <4> QED
        BY <1>5, <3>1, <4>1
    <3>3. i \in 0..next - 1 /\ keys[i] > Newest.x
      BY <1>5, <1>7, <1>14, <3>1, <3>2
    <3> QED
      BY <1>14, <3>3 DEF Ahead
  <2>2. Passes(Newest, p, i, corridor)
    BY <1>5, <1>6, <1>12, <2>1 DEF CorridorOpen
  <2>3. PICK nx \in Nat, ny \in Nat : Newest.x = nx /\ Newest.y = ny
    BY <1>7
  <2> DEFINE w == px - nx
  <2>4. w \in Nat
    BY <1>8, <1>12, <1>13, <2>3
  <2>5. i \in Int
    BY <1>1, KeyTypes
  <2>6. (i - ny + corridor) * w <= (i - ny + maxError) * w
    <3> HIDE DEF w
    <3>1. /\ i - ny + corridor \in Int /\ i - ny + maxError \in Int
          /\ i - ny + corridor <= i - ny + maxError
      BY <1>1, <1>7, <2>5 DEF KeysGiven
    <3> QED
      BY <2>4, <3>1, ProductsKeepOrder
  <2>7. PICK product \in Int : product = (py - ny) * (keys[i] - nx)
    <3>1. keys[i] \in Nat
      BY <1>1, KeyTypes
    <3>2. (py - ny) * (keys[i] - nx) \in Int
      BY <3>1
    <3> QED
      BY <3>2
  <2>8. (i - ny - corridor) * w <= product /\ product <= (i - ny + corridor) * w
    BY <1>13, <2>2, <2>3, <2>7 DEF Passes
  <2>9. product <= (i - ny + maxError) * w
    <3>1. (i - ny + corridor) * w \in Int /\ (i - ny + maxError) * w \in Int
      BY <1>7, <2>4, <2>5
    <3> HIDE DEF w
    <3> QED
      BY <2>6, <2>8, <3>1
  <2> QED
    BY <1>13, <2>3, <2>7, <2>8, <2>9 DEF Passes
<1>15. /\ points' = Append(points, p) /\ Newest' = p
       /\ Len(points') = Len(points) + 1 /\ points' # <<>>
       /\ points' \in Seq([x : Key, y : 0..NumKeys - 1])
       /\ radix' \in [0..RadixCount - 1 -> Nat]
       /\ prefix' \in 0..RadixCount - 2
       /\ prefix' = Prefix(p.x)'
       /\ \A q \in 0..prefix' : Points(q)'
       /\ points'[1] = Coord(keys[0], 0)
       /\ \A s \in 1..Len(points') : points'[s].x <= p.x
       /\ \A s \in 1..Len(points') - 1 : \A i \in DOMAIN keys :
            First(i) /\ points'[s].x < keys[i] /\ keys[i] <= points'[s + 1].x =>
              Passes(points'[s], points'[s + 1], i, maxError)
  <2>1. AddPoint(p) /\ Newest.x <= p.x
    BY <1>7, <1>8, <1>11, <1>12
  <2> QED
    BY <1>1, <1>3, <1>6, <1>14, <2>1, PointAdded
<1>16. /\ Newest'.x = px /\ Newest'.y = py /\ px = keys[next - 1] /\ py < next /\ py \in Nat
  BY <1>6, <1>12, <1>13, <1>15
<1>17. /\ CorridorOpen'
       /\ previous'.y < next' /\ previous'.x = keys'[previous'.y]
       /\ First(previous.y)' /\ previous'.x = keys'[next' - 1]
       /\ next' \in 0..NumKeys' /\ previous' \in [x : Key, y : 0..NumKeys' - 1]
       /\ upper' \in [x : Key, y : Nat] /\ lower' \in [x : Key, y : Nat]
  BY ONLY <1>1, <1>2, <1>3, <1>5, <1>16, px \in Nat, CorridorOpens
<1>18. SplineTyped'
  BY <1>4, <1>11, <1>15, <1>17 DEF SplineTyped
<1>19. Adding'
  <2>1. Len(points') <= Newest'.y + 1 /\ next' # 0
    <3>1. Newest.y \in Nat /\ Newest.y < py /\ py \in Nat /\ Newest'.y = py
      BY <1>7, <1>8, <1>12, <1>13, <1>16
    <3> QED
      BY <1>3, <1>5, <1>6, <1>9, <1>15, <3>1
  <2> QED
    BY <1>15, <1>17, <2>1 DEF Adding
<1>20. PointsPass'
  BY <1>3, <1>4, <1>11, <1>15, HelpersStay DEF PointsPass, SameKeys
<1>21. RadixRight'
  BY <1>11, <1>15 DEF RadixRight
<1> QED
  BY <1>4, <1>18, <1>19, <1>20, <1>21 DEF SplineIInv

(* A key inside the corridor: seen from n, here lies between the bounds, so *)
(* the line to it passes every slot ahead, and narrower bounds bound them   *)
(* as well.  Slot i has its key at k.                                       *)
LEMMA LinePasses ==
  ASSUME NEW nx \in Nat, NEW ny \in Nat, NEW hx \in Nat, NEW hy \in Nat,
         NEW ux \in Nat, NEW uy \in Nat, NEW lx \in Nat, NEW ly \in Nat,
         NEW i \in Nat, NEW k \in Nat, NEW c \in Nat,
         nx < hx, nx < ux, nx < lx, nx < k,
         (uy - ny) * (hx - nx) > (hy - ny) * (ux - nx),
         (ly - ny) * (hx - nx) < (hy - ny) * (lx - nx),
         (uy - ny) * (k - nx) <= (i + c - ny) * (ux - nx),
         (i - c - ny) * (lx - nx) <= (ly - ny) * (k - nx)
  PROVE  /\ (i - ny - c) * (hx - nx) <= (hy - ny) * (k - nx)
         /\ (hy - ny) * (k - nx) <= (i - ny + c) * (hx - nx)
<1>1. PICK w \in Nat \ {0}, u \in Nat \ {0}, l \in Nat \ {0}, d \in Nat \ {0} :
        w = hx - nx /\ u = ux - nx /\ l = lx - nx /\ d = k - nx
  <2>1. hx - nx \in Nat \ {0} /\ ux - nx \in Nat \ {0} /\ lx - nx \in Nat \ {0}
        /\ k - nx \in Nat \ {0}
    OBVIOUS
  <2> QED
    BY <2>1
<1>2. PICK h \in Int, a \in Int, b \in Int, e \in Int, f \in Int :
        /\ h = hy - ny /\ a = uy - ny /\ b = ly - ny
        /\ e = i + c - ny /\ f = i - c - ny
  <2>1. hy - ny \in Int /\ uy - ny \in Int /\ ly - ny \in Int /\ i + c - ny \in Int
        /\ i - c - ny \in Int
    OBVIOUS
  <2> QED
    BY <2>1
<1>3. a * w > h * u /\ b * w < h * l /\ a * d <= e * u /\ f * l <= b * d
  BY <1>1, <1>2
<1>4. h * u <= a * w /\ b * w <= h * l
  <2>1. h * u \in Int /\ a * w \in Int /\ b * w \in Int /\ h * l \in Int
    OBVIOUS
  <2> QED
    BY <1>3, <2>1
<1>5. h * d <= e * w
  BY ONLY <1>3, <1>4, w \in Nat \ {0}, u \in Nat \ {0}, d \in Nat \ {0},
          h \in Int, a \in Int, e \in Int, SlopesInOrder
<1>6. f * w <= h * d
  BY ONLY <1>3, <1>4, w \in Nat \ {0}, l \in Nat \ {0}, d \in Nat \ {0},
          h \in Int, b \in Int, f \in Int, SlopesInOrder
<1>7. i - ny - c = f /\ i - ny + c = e
  BY <1>2
<1> QED
  BY <1>1, <1>2, <1>5, <1>6, <1>7

LEMMA UpperNarrows ==
  ASSUME NEW nx \in Nat, NEW ny \in Nat, NEW hx \in Nat, NEW high \in Nat,
         NEW ux \in Nat, NEW uy \in Nat, NEW i \in Nat, NEW k \in Nat, NEW c \in Nat,
         nx < hx, nx < ux, nx < k,
         (uy - ny) * (hx - nx) > (high - ny) * (ux - nx),
         (uy - ny) * (k - nx) <= (i + c - ny) * (ux - nx)
  PROVE  (high - ny) * (k - nx) <= (i + c - ny) * (hx - nx)
<1>1. PICK w \in Nat \ {0}, u \in Nat \ {0}, d \in Nat \ {0} :
        w = hx - nx /\ u = ux - nx /\ d = k - nx
  <2>1. hx - nx \in Nat \ {0} /\ ux - nx \in Nat \ {0} /\ k - nx \in Nat \ {0}
    OBVIOUS
  <2> QED
    BY <2>1
<1>2. PICK h \in Int, a \in Int, e \in Int : h = high - ny /\ a = uy - ny /\ e = i + c - ny
  <2>1. high - ny \in Int /\ uy - ny \in Int /\ i + c - ny \in Int
    OBVIOUS
  <2> QED
    BY <2>1
<1>3. a * w > h * u /\ a * d <= e * u
  BY <1>1, <1>2
<1>4. h * u <= a * w
  <2>1. h * u \in Int /\ a * w \in Int
    OBVIOUS
  <2> QED
    BY <1>3, <2>1
<1>5. h * d <= e * w
  BY ONLY <1>3, <1>4, w \in Nat \ {0}, u \in Nat \ {0}, d \in Nat \ {0},
          h \in Int, a \in Int, e \in Int, SlopesInOrder
<1> QED
  BY <1>1, <1>2, <1>5

LEMMA LowerNarrows ==
  ASSUME NEW nx \in Nat, NEW ny \in Nat, NEW hx \in Nat, NEW low \in Nat,
         NEW lx \in Nat, NEW ly \in Nat, NEW i \in Nat, NEW k \in Nat, NEW c \in Nat,
         nx < hx, nx < lx, nx < k,
         (ly - ny) * (hx - nx) < (low - ny) * (lx - nx),
         (i - c - ny) * (lx - nx) <= (ly - ny) * (k - nx)
  PROVE  (i - c - ny) * (hx - nx) <= (low - ny) * (k - nx)
<1>1. PICK w \in Nat \ {0}, l \in Nat \ {0}, d \in Nat \ {0} :
        w = hx - nx /\ l = lx - nx /\ d = k - nx
  <2>1. hx - nx \in Nat \ {0} /\ lx - nx \in Nat \ {0} /\ k - nx \in Nat \ {0}
    OBVIOUS
  <2> QED
    BY <2>1
<1>2. PICK h \in Int, b \in Int, f \in Int : h = low - ny /\ b = ly - ny /\ f = i - c - ny
  <2>1. low - ny \in Int /\ ly - ny \in Int /\ i - c - ny \in Int
    OBVIOUS
  <2> QED
    BY <2>1
<1>3. b * w < h * l /\ f * l <= b * d
  BY <1>1, <1>2
<1>4. b * w <= h * l
  <2>1. h * l \in Int /\ b * w \in Int
    OBVIOUS
  <2> QED
    BY <1>3, <2>1
<1>5. f * w <= h * d
  BY ONLY <1>3, <1>4, w \in Nat \ {0}, l \in Nat \ {0}, d \in Nat \ {0},
          h \in Int, b \in Int, f \in Int, SlopesInOrder
<1> QED
  BY <1>1, <1>2, <1>5

LEMMA AddInsideHolds ==
  ASSUME SplineIInv, AddInside
  PROVE  SplineIInv'
<1>1. KeysGiven /\ SplineTyped /\ Adding /\ pc = "add" /\ NewKey
      /\ Cardinality(AddedKeys) >= 2
  BY DEF SplineIInv, AddInside, NewKey
<1>2. PICK here : /\ here = Coord(keys[next], next) /\ previous' = here
                  /\ Above(upper, here) /\ Below(lower, here)
                  /\ upper' = IF Above(upper, High(here)) THEN High(here) ELSE upper
                  /\ lower' = IF Below(lower, Low(here)) THEN Low(here) ELSE lower
  BY DEF AddInside
<1>3. /\ next' = next + 1 /\ SameKeys /\ pc' = "add"
      /\ points' = points /\ radix' = radix /\ prefix' = prefix
  BY <1>1 DEF AddInside, SameKeys
<1>4. /\ KeysGiven' /\ PointsPass' /\ RadixRight' /\ Newest' = Newest
      /\ pc' \in {"add", "finish", "validate", "done"}
      /\ points' \in Seq([x : Key, y : 0..NumKeys' - 1])
      /\ radix' \in [0..RadixCount' - 1 -> Nat] /\ prefix' \in 0..RadixCount' - 2
  BY <1>1, <1>3, PointsStay
<1>5. NumKeys' = NumKeys /\ keys' = keys /\ corridor' = corridor
  BY <1>1, <1>3, GivenStays DEF SameKeys
<1>6. next > 0 /\ keys[next - 1] # keys[0] /\ keys[next - 1] < keys[next]
      /\ next \in 1..NumKeys - 1 /\ NumKeys \in Nat \ {0}
  <2>1. next \in 0..NumKeys /\ next \in DOMAIN keys /\ keys[next] \notin AddedKeys
    BY <1>1 DEF SplineTyped, NewKey
  <2>2. next > 0 /\ keys[next - 1] # keys[0] /\ keys[next - 1] < keys[next]
    BY <1>1, <2>1, AddedIs
  <2> QED
    BY <1>1, <2>1, <2>2, KeyTypes
<1>7. /\ points # <<>> /\ Len(points) <= Newest.y + 1 /\ previous.y < next
      /\ previous.x = keys[next - 1] /\ CorridorOpen
  BY <1>1, <1>6 DEF Adding
<1>8. /\ Newest.x < previous.x /\ Newest.y < previous.y
      /\ Newest.x < upper.x /\ Newest.x < lower.x
      /\ \A i \in Ahead : Passes(Newest, previous, i, corridor) /\ UpperBounds(i) /\ LowerBounds(i)
  BY <1>6, <1>7 DEF CorridorOpen
<1>9. /\ Newest.x \in Nat /\ Newest.y \in Nat /\ previous.y \in Nat
      /\ upper.x \in Nat /\ upper.y \in Nat /\ lower.x \in Nat /\ lower.y \in Nat
      /\ corridor \in Nat
  BY <1>1, <1>6, AddTypes
<1>10. PICK nx \in Nat, ny \in Nat, ux \in Nat, uy \in Nat, lx \in Nat, ly \in Nat, c \in Nat,
            hx \in Nat, hy \in Nat :
         /\ Newest.x = nx /\ Newest.y = ny /\ upper.x = ux /\ upper.y = uy
         /\ lower.x = lx /\ lower.y = ly /\ corridor = c /\ keys[next] = hx /\ next = hy
  <2>1. keys[next] \in Nat /\ next \in Nat
    BY <1>1, <1>6, KeyTypes
  <2> QED
    BY <1>9, <2>1
<1>11. hx \in Key /\ keys[next - 1] \in Nat /\ keys[0] \in Nat
  <2>1. next \in 0..NumKeys - 1 /\ next - 1 \in 0..NumKeys - 1 /\ 0 \in 0..NumKeys - 1
    BY <1>6
  <2> QED
    BY <1>1, <1>10, <2>1, KeyTypes
<1>12. here = [x |-> hx, y |-> hy] /\ here.x = hx /\ here.y = hy
  BY <1>2, <1>10 DEF Coord
<1>13. PICK high \in Nat : High(here) = [x |-> hx, y |-> high] /\ high = hy + c
  <2>1. High(here) = [x |-> hx, y |-> hy + c]
    BY <1>10, <1>12 DEF High, Coord
  <2>2. hy + c \in Nat
    OBVIOUS
  <2> QED
    BY <2>1, <2>2
<1>14. PICK low \in Nat : Low(here) = [x |-> hx, y |-> low] /\ low >= hy - c
  <2>1. Low(here) = [x |-> hx, y |-> IF hy < c THEN 0 ELSE hy - c]
    BY <1>10, <1>12 DEF Low, Coord
  <2>2. (IF hy < c THEN 0 ELSE hy - c) \in Nat /\ (IF hy < c THEN 0 ELSE hy - c) >= hy - c
    OBVIOUS
  <2> QED
    BY <2>1, <2>2
<1>15. nx < hx /\ nx < ux /\ nx < lx /\ ny < hy
  <2>1. previous.x < hx /\ nx < previous.x /\ previous.x \in Nat
    BY <1>6, <1>7, <1>8, <1>10, <1>11
  <2>2. ny < previous.y /\ previous.y < hy
    BY <1>7, <1>8, <1>10
  <2> QED
    BY <1>8, <1>9, <1>10, <2>1, <2>2
<1>16. (uy - ny) * (hx - nx) > (hy - ny) * (ux - nx)
  BY <1>2, <1>10, <1>12 DEF Above, Clockwise
<1>17. (ly - ny) * (hx - nx) < (hy - ny) * (lx - nx)
  BY <1>2, <1>10, <1>12 DEF Below, CounterClockwise
<1>18. \/ upper' = [x |-> hx, y |-> high] /\ (uy - ny) * (hx - nx) > (high - ny) * (ux - nx)
       \/ upper' = upper /\ ~ ((uy - ny) * (hx - nx) > (high - ny) * (ux - nx))
  <2>1. Above(upper, High(here)) <=> (uy - ny) * (hx - nx) > (high - ny) * (ux - nx)
    BY <1>10, <1>13 DEF Above, Clockwise
  <2> QED
    BY <1>2, <1>13, <2>1
<1>19. \/ lower' = [x |-> hx, y |-> low] /\ (ly - ny) * (hx - nx) < (low - ny) * (lx - nx)
       \/ lower' = lower /\ ~ ((ly - ny) * (hx - nx) < (low - ny) * (lx - nx))
  <2>1. Below(lower, Low(here)) <=> (ly - ny) * (hx - nx) < (low - ny) * (lx - nx)
    BY <1>10, <1>14 DEF Below, CounterClockwise
  <2> QED
    BY <1>2, <1>14, <2>1
<1>20. \A i \in 0..next - 1 : keys[i] \in Nat /\ keys[i] < hx
  <2>1. ASSUME NEW i \in 0..next - 1
        PROVE  keys[i] \in Nat /\ keys[i] < hx
    <3>1. i \in 0..NumKeys - 1 /\ i <= next - 1 /\ next - 1 \in 0..NumKeys - 1
      BY <1>6
    <3>2. keys[i] <= keys[next - 1] /\ keys[i] \in Nat
      BY <1>1, <3>1, KeyTypes DEF KeysGiven
    <3> QED
      BY <1>6, <1>10, <1>11, <3>2
  <2> QED
    BY <2>1
<1>21. ASSUME NEW i \in Ahead'
       PROVE  i \in 0..hy /\ i \in Nat /\ keys[i] > nx /\ (i # hy => i \in Ahead)
  <2>1. i \in 0..hy /\ keys[i] > nx /\ First(i)'
    BY <1>3, <1>4, <1>5, <1>10 DEF Ahead
  <2>2. First(i)
    BY <1>5, <2>1 DEF First
  <2>3. i # hy => i \in 0..next - 1
    BY <1>10, <2>1
  <2> QED
    BY <1>10, <2>1, <2>2, <2>3 DEF Ahead
<1>22. /\ Newest'.x = nx /\ Newest'.y = ny /\ previous'.x = hx /\ previous'.y = hy
       /\ corridor' = c /\ keys' = keys
  BY <1>2, <1>4, <1>5, <1>10, <1>12
<1>23. upper'.x \in Nat /\ nx < upper'.x /\ lower'.x \in Nat /\ nx < lower'.x
  BY <1>10, <1>15, <1>18, <1>19
(* The newest key itself, and those before it.                              *)
<1>24. ASSUME NEW i \in Ahead', i = hy
       PROVE  Passes(Newest, previous, i, corridor)' /\ UpperBounds(i)' /\ LowerBounds(i)'
  <2>1. keys[i] = hx /\ hx - nx \in Nat /\ lx - nx \in Nat
    BY <1>10, <1>15, <1>24
  <2>2. (hy - ny - c) * (hx - nx) <= (hy - ny) * (hx - nx)
        /\ (hy - ny) * (hx - nx) <= (hy - ny + c) * (hx - nx)
    <3>1. /\ hy - ny - c \in Int /\ hy - ny \in Int /\ hy - ny + c \in Int
          /\ hy - ny - c <= hy - ny /\ hy - ny <= hy - ny + c
      OBVIOUS
    <3> QED
      BY ONLY <2>1, <3>1, ProductsKeepOrder
  <2>3. Passes(Newest, previous, i, corridor)'
    BY <1>22, <1>24, <2>1, <2>2 DEF Passes
  <2>4. UpperBounds(i)'
    <3>1. CASE upper' = [x |-> hx, y |-> high]
      <4>1. high - ny = hy + c - ny /\ (high - ny) * (hx - nx) \in Int
        BY <1>13
      <4>2. (high - ny) * (hx - nx) <= (hy + c - ny) * (hx - nx)
        BY <4>1
      <4> QED
        BY <1>22, <1>24, <2>1, <3>1, <4>2 DEF UpperBounds
    <3>2. CASE upper' = upper /\ ~ ((uy - ny) * (hx - nx) > (high - ny) * (ux - nx))
      <4>1. (uy - ny) * (hx - nx) \in Int /\ (high - ny) * (ux - nx) \in Int
        OBVIOUS
      <4>2. (uy - ny) * (hx - nx) <= (high - ny) * (ux - nx)
        BY <3>2, <4>1
      <4>3. high - ny = hy + c - ny
        BY <1>13
      <4>4. (uy - ny) * (hx - nx) <= (hy + c - ny) * (ux - nx)
        BY <4>2, <4>3
      <4> QED
        BY <1>10, <1>22, <1>24, <2>1, <3>2, <4>4 DEF UpperBounds
    <3> QED
      BY <1>18, <3>1, <3>2
  <2>5. LowerBounds(i)'
    <3>0. hy - c - ny \in Int /\ low - ny \in Int /\ hy - c - ny <= low - ny
      BY <1>14
    <3>1. CASE lower' = [x |-> hx, y |-> low]
      <4>1. (hy - c - ny) * (hx - nx) <= (low - ny) * (hx - nx)
        BY ONLY <2>1, <3>0, ProductsKeepOrder
      <4> QED
        BY <1>22, <1>24, <2>1, <3>1, <4>1 DEF LowerBounds
    <3>2. CASE lower' = lower /\ ~ ((ly - ny) * (hx - nx) < (low - ny) * (lx - nx))
      <4>1. (hy - c - ny) * (lx - nx) <= (low - ny) * (lx - nx)
        BY ONLY <2>1, <3>0, ProductsKeepOrder
      <4>2. /\ (ly - ny) * (hx - nx) \in Int /\ (low - ny) * (lx - nx) \in Int
            /\ (hy - c - ny) * (lx - nx) \in Int
        OBVIOUS
      <4>3. (hy - c - ny) * (lx - nx) <= (ly - ny) * (hx - nx)
        BY <3>2, <4>1, <4>2
      <4> QED
        BY <1>10, <1>22, <1>24, <2>1, <3>2, <4>3 DEF LowerBounds
    <3> QED
      BY <1>19, <3>1, <3>2
  <2> QED
    BY <2>3, <2>4, <2>5
<1>25. ASSUME NEW i \in Ahead', i # hy
       PROVE  Passes(Newest, previous, i, corridor)' /\ UpperBounds(i)' /\ LowerBounds(i)'
  <2>1. i \in Ahead /\ i \in Nat
    BY <1>21, <1>25
  <2>2. UpperBounds(i) /\ LowerBounds(i) /\ i \in 0..next - 1 /\ keys[i] > nx
    BY <1>8, <1>10, <2>1 DEF Ahead
  <2>3. PICK k \in Nat : keys[i] = k /\ nx < k
    BY <1>20, <2>2
  <2>4. (uy - ny) * (k - nx) <= (i + c - ny) * (ux - nx)
    BY <1>10, <2>2, <2>3 DEF UpperBounds
  <2>5. (i - c - ny) * (lx - nx) <= (ly - ny) * (k - nx)
    BY <1>10, <2>2, <2>3 DEF LowerBounds
  <2>6. /\ (i - ny - c) * (hx - nx) <= (hy - ny) * (k - nx)
        /\ (hy - ny) * (k - nx) <= (i - ny + c) * (hx - nx)
    BY <1>15, <1>16, <1>17, <2>1, <2>3, <2>4, <2>5, LinePasses
  <2>7. Passes(Newest, previous, i, corridor)'
    BY <1>22, <2>3, <2>6 DEF Passes
  <2>8. UpperBounds(i)'
    <3>1. CASE upper' = [x |-> hx, y |-> high] /\ (uy - ny) * (hx - nx) > (high - ny) * (ux - nx)
      <4>1. (high - ny) * (k - nx) <= (i + c - ny) * (hx - nx)
        BY <1>15, <2>1, <2>3, <2>4, <3>1, UpperNarrows
      <4> QED
        BY <1>22, <2>3, <3>1, <4>1 DEF UpperBounds
    <3>2. CASE upper' = upper
      BY <1>10, <1>22, <2>3, <2>4, <3>2 DEF UpperBounds
    <3> QED
      BY <1>18, <3>1, <3>2
  <2>9. LowerBounds(i)'
    <3>1. CASE lower' = [x |-> hx, y |-> low] /\ (ly - ny) * (hx - nx) < (low - ny) * (lx - nx)
      <4>1. (i - c - ny) * (hx - nx) <= (low - ny) * (k - nx)
        BY <1>15, <2>1, <2>3, <2>5, <3>1, LowerNarrows
      <4> QED
        BY <1>22, <2>3, <3>1, <4>1 DEF LowerBounds
    <3>2. CASE lower' = lower
      BY <1>10, <1>22, <2>3, <2>5, <3>2 DEF LowerBounds
    <3> QED
      BY <1>19, <3>1, <3>2
  <2> QED
    BY <2>7, <2>8, <2>9
<1>26. CorridorOpen'
  <2>1. next' - 1 = next /\ keys'[next' - 1] # keys'[0]
    <3>1. next' - 1 = next
      BY <1>3, <1>10
    <3>2. keys[0] < hx
      <4>1. 0 \in 0..next - 1
        BY <1>6
      <4> QED
        BY <1>20, <4>1
    <3> QED
      BY <1>5, <1>10, <1>11, <3>1, <3>2
  <2>2. Newest'.x < previous'.x /\ Newest'.y < previous'.y
    BY <1>15, <1>22
  <2>3. Newest'.x < upper'.x /\ Newest'.x < lower'.x
    BY <1>22, <1>23
  <2>4. \A i \in Ahead' :
          Passes(Newest, previous, i, corridor)' /\ UpperBounds(i)' /\ LowerBounds(i)'
    BY <1>24, <1>25
  <2> QED
    BY <2>1, <2>2, <2>3, <2>4 DEF CorridorOpen
<1>27. SplineTyped'
  <2>1. next' \in 0..NumKeys' /\ previous' \in [x : Key, y : 0..NumKeys' - 1]
    <3>1. hy \in 0..NumKeys - 1
      BY <1>6, <1>10
    <3> QED
      BY <1>2, <1>3, <1>5, <1>6, <1>11, <1>12, <3>1
  <2>2. upper' \in [x : Key, y : Nat] /\ lower' \in [x : Key, y : Nat]
    BY <1>1, <1>11, <1>18, <1>19 DEF SplineTyped
  <2> QED
    BY <1>4, <2>1, <2>2 DEF SplineTyped
<1>28. Adding'
  <2>1. points' # <<>> /\ Len(points') <= Newest'.y + 1 /\ next' # 0
    BY <1>3, <1>4, <1>6, <1>7
  <2>2. previous'.y < next' /\ next' - 1 = next
    BY <1>3, <1>10, <1>22
  <2>3. previous'.x = keys'[previous'.y] /\ previous'.x = keys'[next' - 1]
    BY <1>10, <1>22, <2>2
  <2>4. First(previous.y)'
    <3>1. \A j \in 0..hy - 1 : keys[j] < keys[hy]
      BY <1>10, <1>20
    <3> QED
      BY <1>22, <3>1 DEF First
  <2> QED
    BY <1>26, <2>1, <2>2, <2>3, <2>4 DEF Adding
<1> QED
  BY <1>4, <1>27, <1>28 DEF SplineIInv

(* The forced end lies as far above the newest key's slot as the key has    *)
(* slots, which the corridor left free.                                     *)
LEMMA EndPasses ==
  ASSUME NEW nx \in Nat, NEW ny \in Nat, NEW px \in Nat, NEW py \in Nat, NEW ey \in Nat,
         NEW i \in Nat, NEW k \in Nat, NEW c \in Nat, NEW e \in Nat,
         nx < k, k <= px, py <= ey, ey - py <= e - c,
         (i - ny - c) * (px - nx) <= (py - ny) * (k - nx),
         (py - ny) * (k - nx) <= (i - ny + c) * (px - nx)
  PROVE  /\ (i - ny - c) * (px - nx) <= (ey - ny) * (k - nx)
         /\ (ey - ny) * (k - nx) <= (i - ny + e) * (px - nx)
<1>1. PICK w \in Nat, d \in Nat, g \in Nat, m \in Nat, h \in Int, s \in Int :
        /\ w = px - nx /\ d = k - nx /\ g = ey - py /\ m = e - c
        /\ h = py - ny /\ s = i - ny
  <2>1. px - nx \in Nat /\ k - nx \in Nat /\ ey - py \in Nat /\ e - c \in Nat
        /\ py - ny \in Int /\ i - ny \in Int
    OBVIOUS
  <2> QED
    BY <2>1
<1>2. d <= w /\ g <= m
  BY <1>1
<1>3. (s - c) * w <= h * d /\ h * d <= (s + c) * w
  BY <1>1
<1>4. g * d <= m * w /\ 0 <= g * d
  <2>1. g * d <= m * d
    BY ONLY <1>2, g \in Nat, m \in Nat, d \in Nat, ProductsKeepOrder
  <2>2. d * m <= w * m
    BY ONLY <1>2, w \in Nat, m \in Nat, d \in Nat, ProductsKeepOrder
  <2>3. d * m = m * d /\ w * m = m * w /\ g * d \in Int /\ m * d \in Int /\ m * w \in Int
    OBVIOUS
  <2>4. 0 * d <= g * d
    BY ONLY g \in Nat, d \in Nat, 0 <= g, ProductsKeepOrder
  <2>5. 0 * d = 0
    OBVIOUS
  <2> QED
    BY <2>1, <2>2, <2>3, <2>4, <2>5
<1>5. ey - ny = h + g /\ i - ny + e = (s + c) + m
  BY <1>1
<1>6. (h + g) * d = h * d + g * d /\ ((s + c) + m) * w = (s + c) * w + m * w
  OBVIOUS
<1>7. (s - c) * w <= (h + g) * d /\ (h + g) * d <= ((s + c) + m) * w
  <2>1. PICK a \in Int, b \in Int, f \in Int, t \in Int, v \in Int :
          a = h * d /\ b = g * d /\ f = (s + c) * w /\ t = m * w /\ v = (s - c) * w
    <3>1. h * d \in Int /\ g * d \in Int /\ (s + c) * w \in Int /\ m * w \in Int
          /\ (s - c) * w \in Int
      OBVIOUS
    <3> QED
      BY <3>1
  <2>2. v <= a /\ a <= f /\ b <= t /\ 0 <= b
    BY <1>3, <1>4, <2>1
  <2>3. v <= a + b /\ a + b <= f + t
    BY <2>2
  <2> QED
    BY <1>6, <2>1, <2>3
<1> QED
  BY <1>1, <1>5, <1>7

LEMMA AddEndHolds ==
  ASSUME SplineIInv, AddEnd
  PROVE  SplineIInv'
<1> DEFINE end == Coord(MaxKey, NumKeys - 1)
<1>1. KeysGiven /\ SplineTyped /\ Adding /\ PointsPass /\ RadixRight /\ pc = "add" /\ next = NumKeys
  BY DEF SplineIInv, AddEnd
<1>2. /\ SameKeys /\ next' = next /\ upper' = upper /\ lower' = lower /\ previous' = previous
  BY DEF AddEnd, SameKeys
<1>3. /\ NumKeys' = NumKeys /\ keys' = keys /\ RadixCount' = RadixCount /\ KeysGiven'
      /\ MaxKey' = MaxKey /\ MinKey' = MinKey /\ shift' = shift /\ maxError' = maxError
      /\ corridor' = corridor
  BY <1>1, <1>2, GivenStays DEF SameKeys
<1>4. /\ NumKeys \in Nat \ {0} /\ MaxKey \in Nat /\ MaxKey = keys[next - 1] /\ MaxKey \in Key
      /\ NumKeys - 1 \in 0..NumKeys - 1 /\ DOMAIN keys = 0..NumKeys - 1
      /\ \A i \in 0..NumKeys - 1 : keys[i] \in Nat
  <2>1. NumKeys \in Nat \ {0}
    BY <1>1, KeyTypes
  <2>2. NumKeys - 1 \in 0..NumKeys - 1
    BY <2>1
  <2> QED
    BY <1>1, <2>1, <2>2, KeyTypes DEF MaxKey
<1>5. /\ points # <<>> /\ Len(points) <= Newest.y + 1 /\ previous.y < next
      /\ previous.x = keys[previous.y] /\ previous.x = MaxKey /\ CorridorOpen
  BY <1>1, <1>4 DEF Adding
<1>6. /\ Newest \in [x : Key, y : 0..NumKeys - 1]
      /\ Newest.x \in Nat /\ Newest.y \in 0..NumKeys - 1
      /\ previous.x \in Nat /\ previous.y \in 0..NumKeys - 1
      /\ corridor \in Nat /\ maxError \in Nat
  BY <1>1, <1>4, AddTypes
<1>7. PICK e \in [x : Key, y : 0..NumKeys - 1] : e = end /\ e.x = MaxKey /\ e.y = NumKeys - 1
  <2>1. end = [x |-> MaxKey, y |-> NumKeys - 1]
    BY DEF Coord
  <2>2. [x |-> MaxKey, y |-> NumKeys - 1] \in [x : Key, y : 0..NumKeys - 1]
    BY <1>4
  <2> HIDE DEF end
  <2> QED
    BY <2>1, <2>2
<1> HIDE DEF end
<1>8. previous # Newest => Newest.x < previous.x /\ Newest.y < previous.y
  BY <1>5 DEF CorridorOpen
<1>9. Newest.x <= MaxKey
  BY <1>5, <1>6, <1>8
<1>10. Newest # end => ~Full
  <2> SUFFICES ASSUME Newest # end, Full
               PROVE  FALSE
    OBVIOUS
  <2>1. Len(points) \in Nat
    BY <1>1 DEF SplineTyped
  <2>2. Newest.y >= NumKeys - 1
    BY <1>4, <1>5, <1>6, <2>1 DEF Full
  <2>3. Newest.y = NumKeys - 1
    <3>1. NumKeys \in Nat /\ Newest.y \in Nat /\ Newest.y <= NumKeys - 1
      BY <1>4, <1>6
    <3> QED
      BY <2>2, <3>1
  <2>4. previous = Newest
    BY <1>4, <1>6, <1>8, <2>3
  <2>5. Newest.x = MaxKey
    BY <1>5, <2>4
  <2>6. Newest = [x |-> MaxKey, y |-> NumKeys - 1]
    BY <1>6, <2>3, <2>5
  <2> QED
    BY <2>6 DEF end, Coord
<1>11. CASE Newest = end
  <2>1. pc' = "finish" /\ points' = points /\ radix' = radix /\ prefix' = prefix
    BY <1>11 DEF AddEnd, end
  <2>2. Newest' = Newest /\ Newest.x = MaxKey
    BY <1>7, <1>11, <2>1 DEF Newest
  <2>3. SplineTyped'
    BY <1>1, <1>2, <1>3, <2>1 DEF SplineTyped
  <2>4. Adding'
    BY <2>1 DEF Adding
  <2>5. PointsPass'
    BY <1>1, <1>3, <1>5, <2>1, <2>2 DEF PointsPass, First, Passes
  <2>6. RadixRight'
    BY <1>1, <1>3, <2>1, <2>2 DEF RadixRight, Points, Prefix
  <2> QED
    BY <1>3, <2>3, <2>4, <2>5, <2>6 DEF SplineIInv
<1>12. CASE Newest # end
  <2>1. pc' = "finish" /\ AddPoint(e)
    BY <1>7, <1>10, <1>12 DEF AddEnd, end
  <2>2. ASSUME NEW i \in DOMAIN keys, First(i), Newest.x < keys[i], keys[i] <= e.x
        PROVE  Passes(Newest, e, i, maxError)
    <3>1. i \in 0..next - 1 /\ keys[i] \in Nat /\ i \in Nat
      BY <1>1, <1>4
    <3>2. i \in Ahead
      BY <1>6, <2>2, <3>1 DEF Ahead
    <3>3. keys[next - 1] # keys[0]
      <4>1. CASE keys[next - 1] = keys[0]
        <5>1. Newest.x = MaxKey
          BY <1>5, <4>1 DEF CorridorOpen
        <5> QED
          BY <1>4, <1>7, <2>2, <3>1, <5>1
      <4> QED
        BY <4>1
    <3>4. Passes(Newest, previous, i, corridor)
      BY <1>5, <3>2, <3>3 DEF CorridorOpen
    <3>5. PICK nx \in Nat, ny \in Nat, px \in Nat, py \in Nat, ey \in Nat, k \in Nat,
               c \in Nat, m \in Nat :
            /\ Newest.x = nx /\ Newest.y = ny /\ previous.x = px /\ previous.y = py
            /\ e.y = ey /\ keys[i] = k /\ corridor = c /\ maxError = m
      <4>1. e.y \in Nat /\ previous.y \in Nat /\ Newest.y \in Nat
        BY <1>4, <1>6, <1>7
      <4> QED
        BY <1>6, <3>1, <4>1
    <3>6. nx < k /\ k <= px /\ e.x = px
      BY <1>5, <1>7, <2>2, <3>5
    <3>7. py <= ey /\ ey - py <= m - c
      <4>1. py \in DOMAIN keys /\ ey \in DOMAIN keys /\ py <= ey /\ keys[py] = keys[ey]
        <5>1. py \in 0..NumKeys - 1 /\ ey = NumKeys - 1
          BY <1>6, <1>7, <3>5
        <5>2. py <= ey
          BY <1>4, <5>1
        <5>3. keys[py] = keys[ey]
          BY <1>1, <1>4, <1>5, <3>5, <5>1
        <5> QED
          BY <1>4, <5>1, <5>2, <5>3
      <4>2. ey - py <= maxError - corridor
        BY <1>1, <4>1 DEF KeysGiven
      <4> QED
        BY <3>5, <4>1, <4>2
    <3>8. (i - ny - c) * (px - nx) <= (py - ny) * (k - nx)
          /\ (py - ny) * (k - nx) <= (i - ny + c) * (px - nx)
      BY <3>4, <3>5 DEF Passes
    <3>9. (i - ny - c) * (px - nx) <= (ey - ny) * (k - nx)
          /\ (ey - ny) * (k - nx) <= (i - ny + m) * (px - nx)
      BY <3>1, <3>6, <3>7, <3>8, EndPasses
    <3> QED
      BY <3>5, <3>6, <3>9 DEF Passes
  <2>3. /\ points' = Append(points, e) /\ Newest' = e
        /\ Len(points') = Len(points) + 1 /\ points' # <<>>
        /\ points' \in Seq([x : Key, y : 0..NumKeys - 1])
        /\ radix' \in [0..RadixCount - 1 -> Nat]
        /\ prefix' \in 0..RadixCount - 2
        /\ prefix' = Prefix(e.x)'
        /\ \A q \in 0..prefix' : Points(q)'
        /\ points'[1] = Coord(keys[0], 0)
        /\ \A s \in 1..Len(points') : points'[s].x <= e.x
        /\ \A s \in 1..Len(points') - 1 : \A i \in DOMAIN keys :
             First(i) /\ points'[s].x < keys[i] /\ keys[i] <= points'[s + 1].x =>
               Passes(points'[s], points'[s + 1], i, maxError)
    BY <1>1, <1>2, <1>5, <1>7, <1>9, <2>1, <2>2, PointAdded
  <2>4. SplineTyped'
    BY <1>1, <1>2, <1>3, <2>1, <2>3 DEF SplineTyped
  <2>5. Adding'
    BY <2>1 DEF Adding
  <2>6. PointsPass'
    BY <1>2, <1>3, <1>7, <2>1, <2>3, HelpersStay DEF PointsPass
  <2>7. RadixRight'
    BY <2>1, <2>3 DEF RadixRight
  <2> QED
    BY <1>3, <2>4, <2>5, <2>6, <2>7 DEF SplineIInv
<1> QED
  BY <1>11, <1>12

(* The prefixes without a point start behind the points.                    *)
LEMMA FinishHolds ==
  ASSUME SplineIInv, Finish
  PROVE  SplineIInv'
<1>1. KeysGiven /\ SplineTyped /\ PointsPass /\ RadixRight /\ pc = "finish"
  BY DEF SplineIInv, Finish
<1>2. /\ SameKeys /\ pc' = "validate" /\ next' = next /\ points' = points /\ prefix' = prefix
      /\ upper' = upper /\ lower' = lower /\ previous' = previous
      /\ radix' = [q \in DOMAIN radix |-> IF q > prefix THEN Len(points) ELSE radix[q]]
  BY DEF Finish, SameKeys
<1>3. /\ NumKeys' = NumKeys /\ keys' = keys /\ RadixCount' = RadixCount /\ KeysGiven'
      /\ MaxKey' = MaxKey /\ MinKey' = MinKey /\ shift' = shift /\ maxError' = maxError
      /\ corridor' = corridor
  BY <1>1, <1>2, GivenStays DEF SameKeys
<1>4. /\ Len(points) \in Nat \ {0} /\ points # <<>>
      /\ \A s \in 1..Len(points) : points[s].x \in Nat
  BY <1>1, PointTypes DEF PointsPass
<1>5. Newest' = Newest /\ Newest = points[Len(points)]
  BY <1>2 DEF Newest
<1>6. /\ RadixCount \in Nat /\ radix \in [0..RadixCount - 1 -> Nat] /\ prefix \in Nat
      /\ \A x \in Nat : Prefix(x) \in Nat
      /\ \A x, y \in Nat : x <= y => Prefix(x) <= Prefix(y)
  <2>1. radix \in [0..RadixCount - 1 -> Nat] /\ prefix \in 0..RadixCount - 2
    BY <1>1 DEF SplineTyped
  <2>2. /\ RadixCount \in Nat /\ \A x \in Nat : Prefix(x) \in 0..RadixCount - 2
        /\ \A x, y \in Nat : x <= y => Prefix(x) <= Prefix(y)
    BY <1>1, PrefixInOrder
  <2> QED
    BY <2>1, <2>2
<1>7. radix' \in [0..RadixCount - 1 -> Nat]
  BY <1>2, <1>4, <1>6
<1>8. ASSUME NEW q \in 0..RadixCount - 1
      PROVE  \A k \in 1..Len(points) : k <= radix'[q] <=> Prefix(points[k].x) < q
  <2>1. q \in DOMAIN radix /\ q \in Nat
    BY <1>6
  <2>2. CASE q > prefix
    <3>1. radix'[q] = Len(points)
      BY <1>2, <2>1, <2>2
    <3>2. ASSUME NEW k \in 1..Len(points)
          PROVE  Prefix(points[k].x) < q
      <4>1. /\ points[k].x <= Newest.x /\ prefix = Prefix(Newest.x)
            /\ points[k].x \in Nat /\ Newest.x \in Nat
        BY <1>1, <1>4, <1>5 DEF PointsPass, RadixRight
      <4>2. Prefix(points[k].x) <= prefix /\ Prefix(points[k].x) \in Nat
        BY <1>6, <4>1
      <4> QED
        BY <1>6, <2>1, <2>2, <4>2
    <3> QED
      BY <3>1, <3>2
  <2>3. CASE ~ (q > prefix)
    <3>1. radix'[q] = radix[q] /\ q \in 0..prefix
      BY <1>2, <1>6, <2>1, <2>3
    <3> QED
      BY <1>1, <3>1 DEF RadixRight, Points
  <2> QED
    BY <2>2, <2>3
<1>9. RadixRight'
  BY <1>2, <1>3, <1>8 DEF RadixRight, Points, Prefix
<1>10. SplineTyped'
  BY <1>1, <1>2, <1>3, <1>7 DEF SplineTyped
<1>11. Adding'
  BY <1>2 DEF Adding
<1>12. PointsPass'
  BY <1>1, <1>2, <1>3, <1>5 DEF PointsPass, First, Passes
<1> QED
  BY <1>3, <1>9, <1>10, <1>11, <1>12 DEF SplineIInv

LEMMA ValidateHolds ==
  ASSUME SplineIInv, Validate
  PROVE  SplineIInv'
<1>1. KeysGiven /\ SplineTyped /\ PointsPass /\ RadixRight /\ pc = "validate"
  BY DEF SplineIInv, Validate
<1>2. /\ SameKeys /\ next' = next /\ points' = points /\ prefix' = prefix /\ radix' = radix
      /\ upper' = upper /\ lower' = lower /\ previous' = previous
  BY DEF Validate, SameKeys
<1>3. /\ NumKeys' = NumKeys /\ keys' = keys /\ RadixCount' = RadixCount /\ KeysGiven'
      /\ MaxKey' = MaxKey /\ MinKey' = MinKey /\ shift' = shift /\ maxError' = maxError
      /\ corridor' = corridor
  BY <1>1, <1>2, GivenStays DEF SameKeys
<1>4. \A i \in DOMAIN keys : i \in Window(keys[i])
  BY <1>1, InWindow, KeyTypes DEF Searches
<1>5. pc' = "done"
  BY <1>4 DEF Validate
<1>6. Newest' = Newest
  BY <1>2 DEF Newest
<1>7. RadixRight'
  BY <1>1, <1>2, <1>3, <1>5 DEF RadixRight, Points, Prefix
<1>8. SplineTyped'
  BY <1>1, <1>2, <1>3, <1>5 DEF SplineTyped
<1>9. Adding'
  BY <1>5 DEF Adding
<1>10. PointsPass'
  BY <1>1, <1>2, <1>3, <1>5, <1>6 DEF PointsPass, First, Passes
<1> QED
  BY <1>3, <1>7, <1>8, <1>9, <1>10 DEF SplineIInv

LEMMA SplineKept == SplineIInv /\ [SplineNext]_splineVars => SplineIInv'
<1> SUFFICES ASSUME SplineIInv, [SplineNext]_splineVars
             PROVE  SplineIInv'
  OBVIOUS
<1>1. CASE SkipDuplicate
  BY <1>1, SkipDuplicateHolds
<1>2. CASE AddFirst
  BY <1>2, AddFirstHolds
<1>3. CASE AddSecond
  BY <1>3, AddSecondHolds
<1>4. CASE AddOutside
  BY <1>4, AddOutsideHolds
<1>5. CASE AddInside
  BY <1>5, AddInsideHolds
<1>6. CASE AddEnd
  BY <1>6, AddEndHolds
<1>7. CASE Finish
  BY <1>7, FinishHolds
<1>8. CASE Validate
  BY <1>8, ValidateHolds
<1>9. CASE UNCHANGED splineVars
  BY <1>9 DEF splineVars, SplineIInv, KeysGiven, SplineTyped, Adding, PointsPass, RadixRight,
       NumKeys, MinKey, MaxKey, RadixCount, Newest, First, Passes, Ahead, UpperBounds,
       LowerBounds, CorridorOpen, Points, Prefix
<1> QED
  BY <1>1, <1>2, <1>3, <1>4, <1>5, <1>6, <1>7, <1>8, <1>9 DEF SplineNext

LEMMA IndexServes == SplineIInv => EveryNameCompared
<1> SUFFICES ASSUME SplineIInv
             PROVE  EveryNameCompared
  OBVIOUS
<1>1. pc # "failed"
  BY DEF SplineIInv, SplineTyped
<1>2. pc = "done" => \A i \in DOMAIN keys : i \in Compared(keys[i])
  BY SlotCompared, KeyTypes DEF SplineIInv, Searches
<1> QED
  BY <1>1, <1>2 DEF EveryNameCompared

(* For any keys, of any number of parents, with any error bound that the    *)
(* longest run of equal keys leaves room for and any number of radix bits,  *)
(* a build of the learned index (sfs_rs_build) neither outgrows its array   *)
(* nor fails its own check (sfs_rs_validate), and a lookup through it       *)
(* (ext5_stable_lookup_rs) compares the name of every slot that has its key.*)
THEOREM NamesAreCompared == SplineSpec => []EveryNameCompared
<1>1. SplineInit => SplineIInv
  BY SplineInitHolds
<1>2. SplineIInv /\ [SplineNext]_splineVars => SplineIInv'
  BY SplineKept
<1>3. SplineIInv => EveryNameCompared
  BY IndexServes
<1> QED
  BY <1>1, <1>2, <1>3, PTL DEF SplineSpec

LEMMA CorridorIs ==
  SplineIInv => CorridorHolds
<1> SUFFICES ASSUME SplineIInv, pc = "add", next > 0, NEW i \in 0..next - 1,
                    keys[i] > Newest.x, \A j \in 0..i - 1 : keys[j] < keys[i]
             PROVE  LET width == previous.x - Newest.x
                        error == (previous.y - Newest.y) * (keys[i] - Newest.x)
                                   - (i - Newest.y) * width
                    IN  -corridor * width <= error /\ error <= corridor * width
  BY DEF CorridorHolds
<1>0. KeysGiven /\ SplineTyped /\ Adding
  BY DEF SplineIInv
<1>1. NumKeys \in Nat \ {0} /\ DOMAIN keys = 0..NumKeys - 1
  BY <1>0, KeyTypes
<1>2. next \in Nat /\ next <= NumKeys
  BY <1>0, <1>1 DEF SplineTyped
<1>3. i \in DOMAIN keys /\ next - 1 \in DOMAIN keys /\ i <= next - 1
  BY <1>1, <1>2
<1>4. keys[i] <= keys[next - 1]
  BY <1>0, <1>3 DEF KeysGiven
<1>5. \A q \in DOMAIN keys : keys[q] \in Nat
  BY <1>0, <1>1, KeyTypes
<1>6. points # <<>> /\ previous.x = keys[next - 1] /\ CorridorOpen
  BY <1>0 DEF Adding
<1>7. /\ Newest.x \in Nat /\ Newest.y \in Nat /\ previous.x \in Nat /\ previous.y \in Nat
      /\ corridor \in Nat
  BY <1>1, AddTypes
<1>8. keys[next - 1] # keys[0]
  <2>1. CASE keys[next - 1] = keys[0]
    <3>1. previous = Newest
      BY <1>6, <2>1 DEF CorridorOpen
    <3> QED
      BY <1>3, <1>4, <1>5, <1>6, <1>7, <3>1
  <2> QED
    BY <2>1
<1>9. i \in Ahead
  BY DEF Ahead, First
<1>10. Passes(Newest, previous, i, corridor)
  BY <1>6, <1>8, <1>9 DEF CorridorOpen
<1>11. PICK k \in Nat, x1 \in Nat, y1 \in Nat, x2 \in Nat, y2 \in Nat, c \in Nat :
         /\ keys[i] = k /\ Newest.x = x1 /\ Newest.y = y1
         /\ previous.x = x2 /\ previous.y = y2 /\ corridor = c
  <2>1. keys[i] \in Nat
    BY <1>3, <1>5
  <2> QED
    BY <1>7, <2>1
<1>12. /\ (i - y1 - c) * (x2 - x1) <= (y2 - y1) * (k - x1)
       /\ (y2 - y1) * (k - x1) <= (i - y1 + c) * (x2 - x1)
  BY <1>10, <1>11 DEF Passes
<1>13. i \in Int
  BY <1>2
<1>14. /\ (i - y1 - c) * (x2 - x1) = (i - y1) * (x2 - x1) - c * (x2 - x1)
       /\ (i - y1 + c) * (x2 - x1) = (i - y1) * (x2 - x1) + c * (x2 - x1)
       /\ (-c) * (x2 - x1) = -(c * (x2 - x1))
  BY <1>11, <1>13
<1>15. PICK a \in Int, b \in Int, d \in Int :
         a = (i - y1) * (x2 - x1) /\ b = c * (x2 - x1) /\ d = (y2 - y1) * (k - x1)
  BY <1>11, <1>13
<1>16. -b <= d - a /\ d - a <= b
  BY <1>12, <1>14, <1>15
<1> QED
  BY <1>11, <1>14, <1>15, <1>16

(* While keys are added (sfs_rs_add_distinct), the next point may always be *)
(* the newest key: the line to it from the last point passes every key in   *)
(* between within the corridor.                                             *)
THEOREM CorridorIsKept == SplineSpec => []CorridorHolds
<1>1. SplineInit => SplineIInv
  BY SplineInitHolds
<1>2. SplineIInv /\ [SplineNext]_splineVars => SplineIInv'
  BY SplineKept
<1>3. SplineIInv => CorridorHolds
  BY CorridorIs
<1> QED
  BY <1>1, <1>2, <1>3, PTL DEF SplineSpec
=============================================================================
