---------------------------- MODULE Storage_proofs ----------------------------
(* Proofs about the components that lie under the directories: multi-mount *)
(* protection (Mmp), shared attribute blocks (XattrBlock), the orphan list *)
(* and file (Orphan), and the block allocator (BlockAlloc).                *)
EXTENDS Mmp, XattrBlock, Orphan, BlockAlloc, TLAPS, FiniteSetTheorems,
  SequenceTheorems

Wrote(n) == at[n] \in {"confirm", "confirmClean", "update", "sleep"}

(* The block has one last writer, a node that uses the file system has     *)
(* marked it, and who found it clean still knows whether it is.            *)
LastWriter ==
  /\ \A m, n \in Node : Wrote(m) /\ same[m] /\ Wrote(n) /\ same[n] => m = n
  /\ \A n \in Node : Active(n) \/ (Wrote(n) /\ same[n]) => ~mmp.clean
  /\ \A n \in Node : at[n] = "claimClean" /\ same[n] => mmp.clean

(* No node is active beside another, nor beside one that would become      *)
(* active without another wait.                                            *)
Excludes ==
  /\ \A m, n \in Node : Active(m) /\ Active(n) => m = n
  /\ \A m, n \in Node :
       m # n /\ same[m] /\ at[m] \in {"update", "sleep", "confirmClean"} =>
         ~Active(n)

(* Until it is written to again, the block's claimant outwaits whoever is  *)
(* active: that node wrote before the claim, and must look before the wait *)
(* is over.                                                                *)
Outwaits ==
  \A m, n \in Node :
    m # n /\ same[m] /\ at[m] = "confirm" /\ Active(n) =>
      /\ at[n] = "sleep" => since[m] <= since[n] /\ check[n] < WaitTime(m)
      /\ at[n] = "update" => since[m] < WaitTime(m)

MmpIInv == MmpTypeOK /\ (races = {} => LastWriter /\ Excludes /\ Outwaits)

USE MmpAssumption

-----------------------------------------------------------------------------
LEMMA MmpBounds ==
  /\ LongestCheck \in Nat /\ MinCheck \in Nat /\ MaxCheck \in Nat
  /\ UpdateEvery \in Nat
  /\ MinCheck <= LongestCheck /\ MaxCheck <= LongestCheck
  /\ UpdateEvery <= LongestCheck /\ CheckMult * UpdateEvery <= LongestCheck
  /\ CheckMult * UpdateEvery \in Nat
  /\ Longest \in Nat /\ LongestCheck < Longest
BY DEF LongestCheck, Longest, AtLeast, CheckMult

LEMMA WaitIsPositive ==
  ASSUME MmpTypeOK, NEW n \in Node
  PROVE  WaitTime(n) \in Nat /\ 0 < WaitTime(n) /\ check[n] \in Nat
BY MmpBounds DEF MmpTypeOK, WaitTime, AtMost

LEMMA MmpInitIInv == MmpInit => MmpIInv
<1> SUFFICES ASSUME MmpInit PROVE MmpIInv
  OBVIOUS
<1>1. MmpTypeOK
  BY MmpBounds DEF MmpInit, MmpTypeOK
<1>2. LastWriter /\ Excludes /\ Outwaits
  BY DEF MmpInit, LastWriter, Excludes, Outwaits, Wrote, Active
<1> QED
  BY <1>1, <1>2 DEF MmpIInv

-----------------------------------------------------------------------------
LEMMA MmpStepType == MmpTypeOK /\ [MmpNext]_mmpVars => MmpTypeOK'
<1> SUFFICES ASSUME MmpTypeOK, [MmpNext]_mmpVars PROVE MmpTypeOK'
  OBVIOUS
<1> USE MmpBounds DEF MmpTypeOK, Move, Restart, WriteBlock
<1>1. ASSUME NEW n \in Node, MountRead(n) PROVE MmpTypeOK'
  <2>1. AtLeast(AtLeast(UpdateEvery, MinCheck), mmp.check)
          \in MinCheck..LongestCheck
    BY DEF AtLeast
  <2> QED
    BY <1>1, <2>1 DEF MountRead
<1>2. ASSUME NEW n \in Node, MountLook(n) PROVE MmpTypeOK'
  BY <1>2 DEF MountLook
<1>3. ASSUME NEW n \in Node, MountClaim(n) PROVE MmpTypeOK'
  BY <1>3 DEF MountClaim
<1>4. ASSUME NEW n \in Node, MountConfirm(n) PROVE MmpTypeOK'
  <2>1. AtLeast(CheckMult * UpdateEvery, MinCheck) \in MinCheck..LongestCheck
    BY DEF AtLeast
  <2> QED
    BY <1>4, <2>1 DEF MountConfirm
<1>5. ASSUME NEW n \in Node, MountFails(n) \/ Die(n) PROVE MmpTypeOK'
  BY <1>5 DEF MountFails, Die
<1>6. ASSUME NEW n \in Node, Update(n) \/ Stop(n) PROVE MmpTypeOK'
  <2>1. check[n] \in 0..LongestCheck
    OBVIOUS
  <2>2. ASSUME Update(n) PROVE MmpTypeOK'
    <3>1. [clean |-> FALSE, check |-> check[n]] \in [clean : BOOLEAN,
                                                   check : 0..LongestCheck]
      BY <2>1
    <3>2. /\ at' = [at EXCEPT ![n] = "sleep"]
          /\ since' = [since EXCEPT ![n] = 0] /\ UNCHANGED check
          /\ \/ /\ mmp' = [clean |-> FALSE, check |-> check[n]]
                /\ same' = [m \in Node |-> m = n]
             \/ UNCHANGED <<mmp, same>>
      BY <2>2 DEF Update
    <3>3. since' \in [Node -> 0..Longest]
      BY <3>2
    <3>4. at' \in [Node -> {"out", "wait", "claim", "claimClean", "confirm",
                           "confirmClean", "update", "sleep"}]
      BY <3>2
    <3>5. /\ mmp' \in [clean : BOOLEAN, check : 0..LongestCheck]
          /\ same' \in [Node -> BOOLEAN] /\ check' \in [Node -> MinCheck..LongestCheck]
      BY <3>1, <3>2
    <3> QED
      BY <3>3, <3>4, <3>5
  <2>3. ASSUME Stop(n) PROVE MmpTypeOK'
    <3>1. \A c \in BOOLEAN :
            [clean |-> c, check |-> check[n]] \in [clean : BOOLEAN,
                                                  check : 0..LongestCheck]
      BY <2>1
    <3>2. /\ at' = [at EXCEPT ![n] = "out"] /\ UNCHANGED <<since, check>>
          /\ \/ /\ mmp' = [clean |-> TRUE, check |-> check[n]]
                /\ same' = [m \in Node |-> m = n]
             \/ UNCHANGED <<mmp, same>>
      BY <2>3 DEF Stop
    <3> QED
      BY <3>1, <3>2
  <2> QED
    BY <1>6, <2>2, <2>3
<1>7. ASSUME NEW n \in Node, KmmpdWakes(n) PROVE MmpTypeOK'
  <2>1. AtLeast(AtMost(CheckMult * since[n], MaxCheck), MinCheck)
          \in MinCheck..LongestCheck
    BY DEF AtLeast, AtMost, CheckMult
  <2> QED
    BY <1>7, <2>1 DEF KmmpdWakes
<1>8. CASE Tick
  <2>1. \A n \in Node : AtMost(since[n] + 1, Longest) \in 0..Longest
    BY DEF AtMost
  <2> QED
    BY <1>8, <2>1 DEF Tick
<1>9. CASE UNCHANGED mmpVars
  BY <1>9 DEF mmpVars
<1> QED
  BY <1>1, <1>2, <1>3, <1>4, <1>5, <1>6, <1>7, <1>8, <1>9 DEF MmpNext

-----------------------------------------------------------------------------
LEMMA MmpStepSafe ==
  ASSUME MmpIInv, [MmpNext]_mmpVars, races' = {}
  PROVE  LastWriter' /\ Excludes' /\ Outwaits'
<1>1. races = {}
  BY DEF MmpNext, mmpVars, MountRead, MountLook, MountClaim, MountConfirm,
         MountFails, Update, KmmpdWakes, Stop, Die, Tick
<1>2. MmpTypeOK /\ LastWriter /\ Excludes /\ Outwaits
  BY <1>1 DEF MmpIInv
<1>3. MmpTypeOK'
  BY MmpStepType DEF MmpIInv
<1>4. \A n \in Node : /\ WaitTime(n) \in Nat /\ 0 < WaitTime(n)
                      /\ check[n] \in Nat /\ since[n] \in Nat
  BY <1>2, WaitIsPositive DEF MmpTypeOK
<1> DEFINE Goal == LastWriter' /\ Excludes' /\ Outwaits'
<1>a. ASSUME NEW n \in Node, MountRead(n) PROVE Goal
  BY <1>a, <1>2, <1>3, <1>4 DEF MountRead, Move, Restart, MmpTypeOK,
     LastWriter, Excludes, Outwaits, Wrote, Active, WaitTime
<1>b. ASSUME NEW n \in Node, MountLook(n) PROVE Goal
  BY <1>b, <1>2, <1>3, <1>4 DEF MountLook, Move, MmpTypeOK,
     LastWriter, Excludes, Outwaits, Wrote, Active, WaitTime
<1>c. ASSUME NEW n \in Node, MountClaim(n) PROVE Goal
  <2>1. at[n] = "claimClean" => same[n]
    BY <1>c DEF MountClaim
  <2>2. \A m \in Node \ {n} : Active(m) /\ at[m] = "sleep" => check[m] < WaitTime(n)
    BY <1>c, <1>4 DEF MountClaim
  <2>3. /\ at' = [at EXCEPT ![n] = IF at[n] = "claim" THEN "confirm" ELSE "confirmClean"]
        /\ since' = [since EXCEPT ![n] = 0] /\ check' = check
        /\ mmp' = [clean |-> FALSE, check |-> check[n]]
        /\ same' = [m \in Node |-> m = n] /\ at[n] \in {"claim", "claimClean"}
    BY <1>c DEF MountClaim, Move, Restart, WriteBlock
  <2>4. LastWriter'
    BY <2>3, <1>2 DEF LastWriter, MmpTypeOK, Wrote, Active
  <2>5. Excludes'
    BY <2>3, <2>1, <1>2 DEF LastWriter, Excludes, MmpTypeOK, Active
  <2>6. Outwaits'
    BY <2>3, <2>2, <1>2, <1>4 DEF Outwaits, MmpTypeOK, Active, WaitTime
  <2> QED
    BY <2>4, <2>5, <2>6
<1>d. ASSUME NEW n \in Node, MountConfirm(n) PROVE Goal
  <2>1. /\ at' = [at EXCEPT ![n] = IF same[n] THEN "update" ELSE "out"]
        /\ UNCHANGED <<mmp, same, since>> /\ at[n] \in {"confirm", "confirmClean"}
        /\ \A m \in Node \ {n} : check'[m] = check[m]
        /\ at[n] = "confirm" => since[n] >= WaitTime(n)
    BY <1>d, <1>2 DEF MountConfirm, Move, MmpTypeOK
  <2>2. \A m \in Node \ {n} : same[n] => ~Active(m)
    BY <2>1, <1>2, <1>4 DEF Excludes, Outwaits, Active
  <2>3. \A m \in Node \ {n} : Active(m)' <=> Active(m)
    BY <2>1, <1>2 DEF Active, MmpTypeOK
  <2>4. LastWriter'
    BY <2>1, <2>3, <1>2 DEF LastWriter, MmpTypeOK, Wrote, Active
  <2>5. Excludes'
    <3>1. ASSUME NEW m \in Node, m # n, same[m], same[n],
                 at[m] \in {"update", "sleep", "confirmClean", "confirm"}
          PROVE  FALSE
      BY <3>1, <2>1, <1>2 DEF LastWriter, Wrote
    <3>2. Active(n)' => same[n]
      BY <2>1, <1>2 DEF Active, MmpTypeOK
    <3> QED
      BY <2>1, <2>2, <2>3, <3>1, <3>2, <1>2 DEF Excludes, MmpTypeOK
  <2>6. Outwaits'
    <3>1. ASSUME NEW m \in Node, same[m], at'[m] = "confirm", Active(n)'
          PROVE  FALSE
      BY <3>1, <2>1, <1>2 DEF LastWriter, Wrote, Active, MmpTypeOK
    <3>2. \A m \in Node \ {n} : WaitTime(m)' = WaitTime(m)
      BY <2>1 DEF WaitTime
    <3>3. \A m \in Node \ {n} : at'[m] = at[m]
      BY <2>1, <1>2 DEF MmpTypeOK
    <3>4. at'[n] # "confirm"
      BY <2>1, <1>2 DEF MmpTypeOK
    <3> QED
      BY <2>1, <2>3, <3>1, <3>2, <3>3, <3>4, <1>2 DEF Outwaits
  <2> QED
    BY <2>4, <2>5, <2>6
<1>e. ASSUME NEW n \in Node, MountFails(n) \/ Die(n) PROVE Goal
  BY <1>e, <1>2, <1>3, <1>4 DEF MountFails, Die, Move, MmpTypeOK,
     LastWriter, Excludes, Outwaits, Wrote, Active, WaitTime
<1>f. ASSUME NEW n \in Node, Update(n) PROVE Goal
  <2>1. /\ at' = [at EXCEPT ![n] = "sleep"] /\ at[n] = "update"
        /\ since' = [since EXCEPT ![n] = 0] /\ check' = check
        /\ mmp'.clean = FALSE /\ same' = [m \in Node |-> m = n]
    BY <1>f DEF Update, Move, Restart, WriteBlock
  <2>2. \A m \in Node : Active(m)' => Active(m)
    BY <2>1, <1>2 DEF MmpTypeOK, Active
  <2>3. Active(n)
    BY <2>1 DEF Active
  <2>4. LastWriter'
    BY <2>1, <1>2 DEF LastWriter, Wrote, MmpTypeOK
  <2>5. Excludes'
    BY <2>1, <2>2, <2>3, <1>2 DEF Excludes
  <2>6. Outwaits'
    BY <2>1, <1>2 DEF Outwaits, MmpTypeOK
  <2> QED
    BY <2>4, <2>5, <2>6
<1>g. ASSUME NEW n \in Node, KmmpdWakes(n) PROVE Goal
  <2>1. /\ at[n] = "sleep" /\ UNCHANGED <<mmp, same, since>>
        /\ \/ at' = [at EXCEPT ![n] = "out"]
           \/ at' = [at EXCEPT ![n] = "update"] /\ (same[n] \/ since[n] <= check[n])
        /\ \A m \in Node \ {n} : check'[m] = check[m]
    BY <1>g, <1>2, <1>4 DEF KmmpdWakes, Late, Move, MmpTypeOK
  <2>2. \A m \in Node \ {n} : (Active(m)' <=> Active(m)) /\ at'[m] = at[m]
    BY <2>1, <1>2 DEF MmpTypeOK, Active
  <2>3. Active(n)' => Active(n) \/ same[n]
    BY <2>1, <1>2 DEF MmpTypeOK, Active
  <2>4. at'[n] \in {"out", "update"}
    BY <2>1, <1>2 DEF MmpTypeOK
  <2>5. LastWriter'
    BY <2>1, <2>2, <2>3, <2>4, <1>2 DEF LastWriter, Wrote
  <2>6. Excludes'
    <3>1. ASSUME NEW m \in Node \ {n}, Active(n)' PROVE ~Active(m)
      BY <3>1, <2>1, <2>3, <1>2 DEF Excludes
    <3>2. ASSUME NEW m \in Node \ {n}, Active(n)', same[m],
                 at[m] \in {"update", "sleep", "confirmClean"}
          PROVE  FALSE
      BY <3>2, <2>1, <2>3, <1>2 DEF Excludes, LastWriter, Wrote
    <3>3. ASSUME NEW m \in Node \ {n}, same[n] PROVE ~Active(m)
      BY <3>3, <2>1, <1>2 DEF Excludes
    <3> QED
      BY <2>1, <2>2, <2>4, <3>1, <3>2, <3>3, <1>2 DEF Excludes
  <2>7. Outwaits'
    <3>1. \A m \in Node \ {n} : WaitTime(m)' = WaitTime(m)
      BY <2>1 DEF WaitTime
    <3>2. ASSUME NEW m \in Node \ {n}, same[m], at[m] = "confirm", Active(n)'
          PROVE  since[m] < WaitTime(m) /\ at'[n] = "update"
      <4>1. ~same[n]
        BY <3>2, <2>1, <1>2 DEF LastWriter, Wrote
      <4>2. Active(n) /\ since[n] <= check[n]
        BY <4>1, <2>1, <2>3, <3>2 DEF Active
      <4>3. since[m] <= since[n] /\ check[n] < WaitTime(m)
        BY <4>2, <3>2, <2>1, <1>2 DEF Outwaits
      <4> QED
        BY <4>2, <4>3, <1>4, <2>4, <3>2 DEF Active
    <3> QED
      BY <2>1, <2>2, <2>4, <3>1, <3>2, <1>2 DEF Outwaits
  <2> QED
    BY <2>5, <2>6, <2>7
<1>h. ASSUME NEW n \in Node, Stop(n) PROVE Goal
  <2>1. /\ at[n] = "update" /\ at' = [at EXCEPT ![n] = "out"]
        /\ UNCHANGED <<since, check>>
        /\ \/ mmp' = [clean |-> TRUE, check |-> check[n]] /\ same' = [m \in Node |-> m = n]
           \/ UNCHANGED <<mmp, same>>
    BY <1>h DEF Stop, Move, WriteBlock
  <2>2. \A m \in Node : ~Active(m)'
    BY <2>1, <1>2 DEF MmpTypeOK, Active, Excludes
  <2>3. LastWriter'
    BY <2>1, <2>2, <1>2 DEF LastWriter, Wrote, MmpTypeOK
  <2> QED
    BY <2>2, <2>3 DEF Excludes, Outwaits
<1>i. CASE Tick
  <2>1. /\ \A n \in Node : at[n] # "update" /\ since[n] <= since'[n]
        /\ UNCHANGED <<mmp, at, same, check>>
    BY <1>i, <1>2, MmpBounds DEF Tick, MmpTypeOK, AtMost
  <2>2. \A m \in Node : Active(m)' => Active(m)
    BY <2>1, <1>3, <1>4, <1>2 DEF Active, MmpTypeOK
  <2>3. \A m, n \in Node : since[m] <= since[n] => since'[m] <= since'[n]
    BY <1>i, <1>2, MmpBounds DEF Tick, MmpTypeOK, AtMost
  <2>4. \A m \in Node : WaitTime(m)' = WaitTime(m)
    BY <2>1 DEF WaitTime
  <2>5. LastWriter' /\ Excludes'
    BY <2>1, <2>2, <1>2 DEF LastWriter, Excludes, Wrote
  <2>6. Outwaits'
    BY <2>1, <2>2, <2>3, <2>4, <1>2 DEF Outwaits
  <2> QED
    BY <2>5, <2>6
<1>j. CASE UNCHANGED mmpVars
  BY <1>j, <1>2 DEF mmpVars, LastWriter, Excludes, Outwaits, Wrote, Active, WaitTime
<1> QED
  BY <1>a, <1>b, <1>c, <1>d, <1>e, <1>f, <1>g, <1>h, <1>i, <1>j DEF MmpNext

LEMMA MmpInvariance == MmpSpec => []MmpIInv
<1>1. MmpIInv /\ [MmpNext]_mmpVars => MmpIInv'
  BY MmpStepType, MmpStepSafe DEF MmpIInv
<1> QED
  BY MmpInitIInv, <1>1, PTL DEF MmpSpec

-----------------------------------------------------------------------------
(* For any number of nodes and any intervals, and however long nodes sleep *)
(* and wait and wherever they die, at most one goes on with the file       *)
(* system, outside the windows that races names.                           *)
THEOREM OneNodeMounts == MmpSpec => []OneMounter
<1>1. MmpIInv => OneMounter
  BY DEF MmpIInv, Excludes, OneMounter
<1> QED
  BY <1>1, MmpInvariance, PTL

-----------------------------------------------------------------------------
(* Shared attribute blocks.  What a job has found stays as it found it.    *)
Jobs == [pc : {"none", "modify", "find", "compare", "keep", "reuse", "place",
               "update", "release"},
         want : AttrSet \cup {Empty}, inPlace : BOOLEAN,
         new : AttrBlock \cup {NoAttrBlock}]
Cells == [ref : 0..MaxRef, content : AttrSet \cup {Empty}]
CacheEntries == [in : BOOLEAN, reusable : BOOLEAN, users : SUBSET Owner]

XattrTypes ==
  /\ acl \in [Owner -> AttrBlock \cup {NoAttrBlock}]
  /\ attrs \in [Owner -> AttrSet \cup {Empty}]
  /\ block \in [AttrBlock -> Cells]
  /\ cache \in [AttrBlock -> CacheEntries]
  /\ job \in [Owner -> Jobs]

Searching == {"find", "compare", "keep", "reuse", "place"}
Content(i) == IF acl[i] = NoAttrBlock THEN Empty ELSE block[acl[i]].content

(* The block a job names: none, an entry it holds, or a reference.         *)
Names(i) ==
  LET q == job[i]
  IN  /\ q.pc \in {"none", "modify", "find", "place"} => q.new = NoAttrBlock
      /\ q.pc \in {"compare", "keep", "reuse"} =>
           q.new \in AttrBlock /\ i \in cache[q.new].users
      /\ q.pc \in {"update", "release"} => q.new \in AttrBlock
      /\ q.pc \in {"keep", "reuse", "update"} => block[q.new].content = q.want
      /\ q.pc = "keep" => q.new = acl[i]
      /\ q.pc \in {"reuse", "release"} => q.new # acl[i]
      /\ q.pc = "modify" => acl[i] # NoAttrBlock

(* A block modified in place is nobody else's until the job is done with   *)
(* it; otherwise the inode still reads what was set on it last.            *)
Alone(i) ==
  LET q == job[i]
  IN  /\ q.inPlace => q.pc \in Searching \cup {"update"}
      /\ q.inPlace /\ q.pc # "update" =>
           /\ acl[i] # NoAttrBlock
           /\ block[acl[i]].ref = 1 /\ ~cache[acl[i]].in
           /\ block[acl[i]].content = q.want
      /\ ~q.inPlace /\ q.pc # "update" => attrs[i] = Content(i)

(* An entry somebody holds is in the cache, and a cached block is in use.  *)
Cached(b) == /\ cache[b].users # {} => cache[b].in
             /\ cache[b].in => block[b].ref > 0

CountedBlock(b) ==
  IsFiniteSet(Holders(b)) /\ block[b].ref = Cardinality(Holders(b))

XattrIInv ==
  /\ XattrTypes
  /\ \A i \in Owner : Names(i) /\ Alone(i)
  /\ \A b \in AttrBlock : Cached(b) /\ CountedBlock(b)

(* Who holds a reference that is the only one, holds it alone.             *)
LEMMA SoleHolder ==
  ASSUME NEW b \in AttrBlock, CountedBlock(b)
  PROVE  /\ block[b].ref = 0 => Holders(b) = {}
         /\ block[b].ref = 1 => \A i, j \in Holders(b) : i = j
<1>1. block[b].ref = 0 => Holders(b) = {}
  BY FS_EmptySet DEF CountedBlock
<1>2. ASSUME block[b].ref = 1 PROVE \A i, j \in Holders(b) : i = j
  <2>1. \E x : Holders(b) = {x}
    BY <1>2, FS_Singleton DEF CountedBlock
  <2> QED
    BY <2>1
<1> QED
  BY <1>1, <1>2

(* What a step of i leaves to the others: their entries, the blocks they   *)
(* refer to or are about to, and those only they can find.                 *)
Spares(i) ==
  /\ \A j \in Owner \ {i} : job'[j] = job[j] /\ acl'[j] = acl[j] /\ attrs'[j] = attrs[j]
  /\ \A b \in AttrBlock :
       /\ \/ block'[b].content = block[b].content
          \/ Holders(b) \subseteq {i} /\ cache[b].users \subseteq {i}
       /\ cache[b].users \ {i} \subseteq cache'[b].users
       /\ \/ Holders(b) \subseteq {i} \/ block[b].ref # 1 \/ cache[b].in
          \/ block'[b].ref = 1 /\ ~cache'[b].in

LEMMA OthersKept ==
  ASSUME XattrIInv, NEW i \in Owner, Spares(i), NEW j \in Owner \ {i}
  PROVE  Names(j)' /\ Alone(j)'
<1>1. job'[j] = job[j] /\ acl'[j] = acl[j] /\ attrs'[j] = attrs[j]
  BY DEF Spares
<1>2. Names(j) /\ Alone(j) /\ XattrTypes
  BY DEF XattrIInv
<1>3. /\ acl[j] \in AttrBlock \cup {NoAttrBlock} /\ job[j] \in Jobs
  BY <1>2 DEF XattrTypes
<1>4. \A b \in AttrBlock : j \in Holders(b) \/ j \in cache[b].users =>
        block'[b].content = block[b].content
  BY DEF Spares
<1>5. acl[j] # NoAttrBlock => acl[j] \in AttrBlock /\ j \in Holders(acl[j])
  BY <1>3 DEF Holders
<1>6. Content(j)' = Content(j)
  BY <1>1, <1>4, <1>5 DEF Content
<1>7. Names(j)'
  <2>1. job[j].pc \in {"update", "release"} => j \in Holders(job[j].new)
    BY DEF Holders
  <2>2. job[j].pc \in {"compare", "keep", "reuse"} =>
          job[j].new \in AttrBlock /\ j \in cache'[job[j].new].users
    BY <1>2 DEF Names, Spares
  <2> QED
    BY <1>1, <1>2, <1>4, <2>1, <2>2 DEF Names
<1>8. Alone(j)'
  <2>1. ASSUME job[j].inPlace, job[j].pc # "update"
        PROVE  /\ acl[j] # NoAttrBlock
               /\ block'[acl[j]].ref = 1 /\ ~cache'[acl[j]].in
               /\ block'[acl[j]].content = job[j].want
    <3>1. /\ acl[j] # NoAttrBlock /\ block[acl[j]].ref = 1 /\ ~cache[acl[j]].in
          /\ block[acl[j]].content = job[j].want
      BY <1>2, <2>1 DEF Alone
    <3>2. acl[j] \in AttrBlock /\ j \in Holders(acl[j])
      BY <1>5, <3>1
    <3> QED
      BY <1>4, <3>1, <3>2 DEF Spares
  <2> QED
    BY <1>1, <1>2, <1>6, <2>1 DEF Alone
<1> QED
  BY <1>7, <1>8

(* So a step of i is looked at in its own job, the cache and the counts.   *)
LEMMA OneMoves ==
  ASSUME XattrIInv, NEW i \in Owner, Spares(i), XattrTypes', Names(i)', Alone(i)',
         \A b \in AttrBlock : Cached(b)' /\ CountedBlock(b)'
  PROVE  XattrIInv'
BY OthersKept DEF XattrIInv

LEMMA CountsKept ==
  ASSUME XattrIInv, \A b \in AttrBlock : /\ Holders(b)' = Holders(b)
                                         /\ block'[b].ref = block[b].ref
  PROVE  \A b \in AttrBlock : CountedBlock(b)'
BY DEF XattrIInv, CountedBlock

(* Steps that leave inodes and blocks alone.                               *)
LEMMA JobMoves ==
  ASSUME XattrIInv, NEW i \in Owner, NEW r \in Jobs, job' = [job EXCEPT ![i] = r],
         UNCHANGED <<acl, attrs, block>>, cache' \in [AttrBlock -> CacheEntries],
         job[i].pc \notin {"update", "release"},
         r.pc = "update" => r.new = acl[i], r.pc # "release",
         \A b \in AttrBlock :
           /\ cache[b].users \ {i} \subseteq cache'[b].users
           /\ Cached(b)'
           /\ cache'[b].in => \/ cache[b].in
                              \/ acl[i] = b /\ block[b].ref = 1
                              \/ block[b].ref # 1,
         Names(i)', Alone(i)'
  PROVE  XattrIInv'
<1>1. XattrTypes
  BY DEF XattrIInv
<1>2. XattrTypes'
  BY <1>1 DEF XattrTypes
<1>3. job'[i] = r /\ \A j \in Owner \ {i} : job'[j] = job[j]
  BY <1>1 DEF XattrTypes
<1>4. ASSUME NEW b \in AttrBlock PROVE Holders(b)' = Holders(b)
  BY <1>3 DEF Holders
<1>5. ASSUME NEW b \in AttrBlock, acl[i] = b, block[b].ref = 1
      PROVE  Holders(b) \subseteq {i}
  <2>1. i \in Holders(b)
    BY <1>5 DEF Holders
  <2> QED
    BY <1>5, <2>1, SoleHolder DEF XattrIInv
<1>6. Spares(i)
  BY <1>3, <1>5 DEF Spares
<1>7. \A b \in AttrBlock : CountedBlock(b)'
  BY <1>4, CountsKept
<1> QED
  BY <1>2, <1>6, <1>7, OneMoves

LEMMA NoJobIs == /\ NoJob \in Jobs /\ NoJob.pc = "none" /\ NoJob.want = Empty
                 /\ NoJob.inPlace = FALSE /\ NoJob.new = NoAttrBlock
BY DEF NoJob, Jobs

LEMMA NoEntryIs == /\ NoEntry \in CacheEntries /\ NoEntry.in = FALSE
                   /\ NoEntry.users = {}
BY DEF NoEntry, CacheEntries

LEMMA SetBeginStep ==
  ASSUME XattrIInv, NEW i \in Owner, NEW v \in AttrSet \cup {Empty}, SetBegin(i, v)
  PROVE  XattrIInv'
<1> DEFINE r == [NoJob EXCEPT !.want = v,
                   !.pc = IF acl[i] = NoAttrBlock THEN "find" ELSE "modify"]
<1>1. /\ job[i].pc = "none" /\ job' = [job EXCEPT ![i] = r]
      /\ UNCHANGED <<acl, attrs, block, cache>>
  BY DEF SetBegin, JobAt, SetJob
<1>2. /\ r \in Jobs /\ r.want = v /\ r.inPlace = FALSE /\ r.new = NoAttrBlock
      /\ r.pc = IF acl[i] = NoAttrBlock THEN "find" ELSE "modify"
  BY DEF NoJob, Jobs
<1> HIDE DEF r
<1>3. XattrTypes /\ Names(i) /\ Alone(i) /\ (\A b \in AttrBlock : Cached(b))
  BY DEF XattrIInv
<1>4. job'[i] = r
  BY <1>1, <1>3 DEF XattrTypes
<1>5. Names(i)'
  BY <1>1, <1>2, <1>4 DEF Names
<1>6. Alone(i)'
  BY <1>1, <1>2, <1>3, <1>4 DEF Alone, Content, Searching
<1>7. \A b \in AttrBlock : Cached(b)'
  BY <1>1, <1>3 DEF Cached
<1> QED
  BY <1>1, <1>2, <1>3, <1>5, <1>6, <1>7, JobMoves DEF XattrTypes

(* In place: the block is this inode's only, and its entry goes first.     *)
LEMMA ModifyStep == ASSUME XattrIInv, NEW i \in Owner, Modify(i) PROVE XattrIInv'
<1>1. XattrTypes /\ Names(i) /\ Alone(i) /\ (\A b \in AttrBlock : Cached(b))
  BY DEF XattrIInv
<1>2. PICK b : b = acl[i]
  OBVIOUS
<1>3. job[i].pc = "modify" /\ UNCHANGED <<acl, attrs>>
  BY DEF Modify, JobAt
<1>4. b \in AttrBlock /\ job[i] \in Jobs /\ ~job[i].inPlace /\ i \in Holders(b)
  BY <1>1, <1>2, <1>3 DEF XattrTypes, Names, Alone, Holders, Searching
<1>5. CASE Mine(b)
  <2> DEFINE r == [job[i] EXCEPT !.pc = "find", !.inPlace = TRUE]
             c == [block[b] EXCEPT !.content = job[i].want]
  <2>1. /\ cache' = [cache EXCEPT ![b] = NoEntry] /\ block' = [block EXCEPT ![b] = c]
        /\ job' = [job EXCEPT ![i] = r]
    BY <1>2, <1>5 DEF Modify, SetJob
  <2>2. /\ r \in Jobs /\ r.pc = "find" /\ r.inPlace = TRUE /\ r.new = job[i].new
        /\ r.want = job[i].want
    BY <1>4 DEF Jobs
  <2>3. c \in Cells /\ c.ref = block[b].ref /\ c.content = job[i].want
    BY <1>1, <1>4 DEF XattrTypes, Cells, Jobs
  <2>4. block[b].ref = 1 /\ cache[b].users = {}
    BY <1>5 DEF Mine
  <2> HIDE DEF r, c
  <2>5. /\ job'[i] = r /\ \A j \in Owner \ {i} : job'[j] = job[j]
        /\ block'[b] = c /\ \A a \in AttrBlock \ {b} : block'[a] = block[a]
        /\ cache'[b] = NoEntry /\ \A a \in AttrBlock \ {b} : cache'[a] = cache[a]
    BY <1>1, <1>4, <2>1 DEF XattrTypes
  <2>6. XattrTypes'
    BY <1>1, <1>3, <1>4, <2>1, <2>2, <2>3, NoEntryIs DEF XattrTypes
  <2>7. Holders(b) \subseteq {i}
    BY <1>4, <2>4, SoleHolder DEF XattrIInv
  <2>8. Spares(i)
    BY <1>3, <2>4, <2>5, <2>7 DEF Spares
  <2>9. \A a \in AttrBlock : Holders(a)' = Holders(a) /\ block'[a].ref = block[a].ref
    <3>1. job[i].pc \notin {"update", "release"} /\ job'[i].pc \notin {"update", "release"}
      BY <1>3, <2>2, <2>5
    <3> QED
      BY <1>3, <2>3, <2>5, <3>1 DEF Holders
  <2>10. Names(i)' /\ Alone(i)'
    BY <1>1, <1>2, <1>3, <1>4, <2>2, <2>3, <2>4, <2>5, NoEntryIs
       DEF Names, Alone, Searching, XattrTypes
  <2>11. \A a \in AttrBlock : Cached(a)'
    BY <1>1, <2>3, <2>5, NoEntryIs DEF Cached
  <2> QED
    BY <2>6, <2>8, <2>9, <2>10, <2>11, CountsKept, OneMoves
<1>6. CASE ~Mine(b)
  <2> DEFINE r == [job[i] EXCEPT !.pc = "find"]
  <2>1. job' = [job EXCEPT ![i] = r] /\ UNCHANGED <<block, cache>>
    BY <1>2, <1>6 DEF Modify, JobGoto
  <2>2. /\ r \in Jobs /\ r.pc = "find" /\ r.inPlace = FALSE /\ r.new = job[i].new
        /\ r.want = job[i].want
    BY <1>4 DEF Jobs
  <2> HIDE DEF r
  <2>3. job'[i] = r
    BY <1>1, <2>1 DEF XattrTypes
  <2>4. Names(i)' /\ Alone(i)'
    BY <1>1, <1>3, <1>4, <2>1, <2>2, <2>3 DEF Names, Alone, Content
  <2>5. \A a \in AttrBlock : Cached(a)'
    BY <1>1, <2>1 DEF Cached
  <2> QED
    BY <1>1, <1>3, <2>1, <2>2, <2>4, <2>5, JobMoves DEF XattrTypes
<1> QED
  BY <1>5, <1>6

LEMMA FindStep ==
  ASSUME XattrIInv, NEW i \in Owner, FindNothing(i) \/ \E b \in AttrBlock : FindEntry(i, b)
  PROVE  XattrIInv'
<1>1. XattrTypes /\ Names(i) /\ Alone(i) /\ (\A b \in AttrBlock : Cached(b))
  BY DEF XattrIInv
<1>2. job[i].pc = "find" /\ job[i] \in Jobs /\ UNCHANGED <<acl, attrs, block>>
  BY <1>1 DEF FindNothing, FindEntry, JobAt, XattrTypes
<1>3. CASE FindNothing(i)
  <2> DEFINE r == [job[i] EXCEPT !.pc = "place"]
  <2>1. job' = [job EXCEPT ![i] = r] /\ UNCHANGED cache
    BY <1>3 DEF FindNothing, JobGoto
  <2>2. /\ r \in Jobs /\ r.pc = "place" /\ r.inPlace = job[i].inPlace /\ r.new = job[i].new
        /\ r.want = job[i].want
    BY <1>2 DEF Jobs
  <2> HIDE DEF r
  <2>3. job'[i] = r
    BY <1>1, <2>1 DEF XattrTypes
  <2>4. Names(i)' /\ Alone(i)'
    BY <1>1, <1>2, <2>1, <2>2, <2>3 DEF Names, Alone, Content, Searching
  <2>5. \A a \in AttrBlock : Cached(a)'
    BY <1>1, <1>2, <2>1 DEF Cached
  <2> QED
    BY <1>1, <1>2, <2>1, <2>2, <2>4, <2>5, JobMoves DEF XattrTypes
<1>4. ASSUME NEW b \in AttrBlock, FindEntry(i, b) PROVE XattrIInv'
  <2> DEFINE r == [job[i] EXCEPT !.pc = "compare", !.new = b]
             e == [cache[b] EXCEPT !.users = @ \cup {i}]
  <2>1. job' = [job EXCEPT ![i] = r] /\ cache' = [cache EXCEPT ![b] = e] /\ cache[b].in
    BY <1>4 DEF FindEntry, SetJob
  <2>2. /\ r \in Jobs /\ r.pc = "compare" /\ r.inPlace = job[i].inPlace /\ r.new = b
        /\ r.want = job[i].want
    BY <1>2 DEF Jobs
  <2>3. e \in CacheEntries /\ e.in = cache[b].in /\ e.users = cache[b].users \cup {i}
    BY <1>1 DEF XattrTypes, CacheEntries
  <2> HIDE DEF r, e
  <2>4. /\ job'[i] = r
        /\ cache'[b] = e /\ \A a \in AttrBlock \ {b} : cache'[a] = cache[a]
    BY <1>1, <2>1 DEF XattrTypes
  <2>5. cache' \in [AttrBlock -> CacheEntries]
    BY <1>1, <2>1, <2>3 DEF XattrTypes
  <2>6. Names(i)'
    BY <1>2, <2>2, <2>3, <2>4 DEF Names
  <2>7. Alone(i)'
    BY <1>1, <1>2, <2>2, <2>3, <2>4 DEF Alone, Content, Searching, XattrTypes
  <2>8. \A a \in AttrBlock : Cached(a)'
    BY <1>1, <1>2, <2>1, <2>3, <2>4 DEF Cached
  <2>9. \A a \in AttrBlock : cache[a].users \ {i} \subseteq cache'[a].users
    BY <2>3, <2>4
  <2>10. \A a \in AttrBlock : cache'[a].in => cache[a].in
    BY <2>3, <2>4
  <2> QED
    BY <1>2, <2>1, <2>2, <2>5, <2>6, <2>7, <2>8, <2>9, <2>10, JobMoves
<1> QED
  BY <1>3, <1>4

(* What putting an entry down changes.                                     *)
LEMMA PutDown ==
  ASSUME XattrTypes, NEW i \in Owner, NEW b \in AttrBlock
  PROVE  /\ Put(i, b) \in [AttrBlock -> CacheEntries]
         /\ Put(i, b)[b].in = cache[b].in
         /\ Put(i, b)[b].users = cache[b].users \ {i}
         /\ \A a \in AttrBlock \ {b} : Put(i, b)[a] = cache[a]
<1> DEFINE e == [cache[b] EXCEPT !.users = @ \ {i}]
<1>1. Put(i, b) = [cache EXCEPT ![b] = e]
  BY DEF Put
<1>2. e \in CacheEntries /\ e.in = cache[b].in /\ e.users = cache[b].users \ {i}
  BY DEF XattrTypes, CacheEntries
<1> HIDE DEF e
<1> QED
  BY <1>1, <1>2 DEF XattrTypes

LEMMA CompareStep ==
  ASSUME XattrIInv, NEW i \in Owner, Compare(i) \/ Keep(i) PROVE XattrIInv'
<1>1. XattrTypes /\ Names(i) /\ Alone(i) /\ (\A b \in AttrBlock : Cached(b))
  BY DEF XattrIInv
<1>2. PICK b : b = job[i].new
  OBVIOUS
<1>3. /\ job[i].pc \in {"compare", "keep"} /\ job[i] \in Jobs
      /\ UNCHANGED <<acl, attrs, block>>
  BY <1>1 DEF Compare, Keep, JobAt, XattrTypes
<1>4. b \in AttrBlock /\ i \in cache[b].users /\ cache[b].in
  BY <1>1, <1>2, <1>3 DEF Names, Cached
<1>5. \E r \in Jobs :
        /\ job' = [job EXCEPT ![i] = r] /\ cache' \in {cache, Put(i, b)}
        /\ r.inPlace = job[i].inPlace /\ r.want = job[i].want
        /\ \/ r.pc = "find" /\ r.new = NoAttrBlock
           \/ r.pc = "keep" /\ r.new = b /\ block[b].content = r.want /\ b = acl[i]
                /\ cache' = cache
           \/ r.pc = "reuse" /\ r.new = b /\ block[b].content = r.want /\ b # acl[i]
                /\ cache' = cache
           \/ r.pc = "update" /\ r.new = b /\ job[i].pc = "keep"
  <2>1. CASE Compare(i) /\ block[b].content # job[i].want
    <3> DEFINE r == [job[i] EXCEPT !.pc = "find", !.new = NoAttrBlock]
    <3>1. job' = [job EXCEPT ![i] = r] /\ cache' = Put(i, b)
      BY <1>2, <2>1 DEF Compare, SetJob
    <3>2. /\ r \in Jobs /\ r.inPlace = job[i].inPlace /\ r.want = job[i].want
          /\ r.pc = "find" /\ r.new = NoAttrBlock
      BY <1>3 DEF Jobs
    <3> QED
      BY <3>1, <3>2
  <2>2. CASE Compare(i) /\ block[b].content = job[i].want
    <3> DEFINE r == [job[i] EXCEPT !.pc = IF b = acl[i] THEN "keep" ELSE "reuse"]
    <3>1. job' = [job EXCEPT ![i] = r] /\ cache' = cache
      BY <1>2, <2>2 DEF Compare, JobGoto
    <3>2. /\ r \in Jobs /\ r.inPlace = job[i].inPlace /\ r.want = job[i].want
          /\ r.pc = (IF b = acl[i] THEN "keep" ELSE "reuse") /\ r.new = b
      BY <1>2, <1>3 DEF Jobs
    <3> HIDE DEF r
    <3> QED
      BY <2>2, <3>1, <3>2
  <2>3. CASE Keep(i)
    <3> DEFINE r == [job[i] EXCEPT !.pc = "update"]
    <3>1. job' = [job EXCEPT ![i] = r] /\ cache' = Put(i, b) /\ job[i].pc = "keep"
      BY <1>2, <2>3 DEF Keep, JobGoto, JobAt
    <3>2. /\ r \in Jobs /\ r.inPlace = job[i].inPlace /\ r.want = job[i].want
          /\ r.pc = "update" /\ r.new = b
      BY <1>2, <1>3 DEF Jobs
    <3> QED
      BY <3>1, <3>2
  <2> QED
    BY <2>1, <2>2, <2>3
<1>6. PICK r \in Jobs :
        /\ job' = [job EXCEPT ![i] = r] /\ cache' \in {cache, Put(i, b)}
        /\ r.inPlace = job[i].inPlace /\ r.want = job[i].want
        /\ \/ r.pc = "find" /\ r.new = NoAttrBlock
           \/ r.pc = "keep" /\ r.new = b /\ block[b].content = r.want /\ b = acl[i]
                /\ cache' = cache
           \/ r.pc = "reuse" /\ r.new = b /\ block[b].content = r.want /\ b # acl[i]
                /\ cache' = cache
           \/ r.pc = "update" /\ r.new = b /\ job[i].pc = "keep"
  BY <1>5
<1>7. job'[i] = r
  BY <1>1, <1>6 DEF XattrTypes
<1>8. /\ cache' \in [AttrBlock -> CacheEntries]
      /\ \A a \in AttrBlock : /\ cache[a].users \ {i} \subseteq cache'[a].users
                              /\ cache'[a].users \subseteq cache[a].users
                              /\ cache'[a].in = cache[a].in
  <2>1. CASE cache' = cache
    BY <1>1, <2>1 DEF XattrTypes
  <2>2. CASE cache' = Put(i, b)
    BY <1>1, <1>4, <2>2, PutDown
  <2> QED
    BY <1>6, <2>1, <2>2
<1>9. r.pc = "update" => b = acl[i] /\ block[b].content = r.want
  BY <1>1, <1>2, <1>6 DEF Names
<1>10. Names(i)'
  BY <1>3, <1>4, <1>6, <1>7, <1>9 DEF Names
<1>11. Alone(i)'
  <2>1. r.pc \in Searching \cup {"update"} /\ job[i].pc \in Searching
    BY <1>3, <1>6 DEF Searching
  <2>2. acl[i] # NoAttrBlock => cache'[acl[i]].in = cache[acl[i]].in
    BY <1>1, <1>8 DEF XattrTypes
  <2> QED
    BY <1>1, <1>3, <1>6, <1>7, <2>1, <2>2 DEF Alone, Content
<1>12. \A a \in AttrBlock : Cached(a)'
  BY <1>1, <1>3, <1>8 DEF Cached
<1> QED
  BY <1>3, <1>6, <1>8, <1>9, <1>10, <1>11, <1>12, JobMoves

(* Under the buffer lock, another reference; or look again.                *)
LEMMA ReuseStep == ASSUME XattrIInv, NEW i \in Owner, Reuse(i) PROVE XattrIInv'
<1>1. XattrTypes /\ Names(i) /\ Alone(i) /\ (\A a \in AttrBlock : Cached(a))
  BY DEF XattrIInv
<1>2. PICK b : b = job[i].new
  OBVIOUS
<1>3. job[i].pc = "reuse" /\ job[i] \in Jobs /\ UNCHANGED <<acl, attrs>>
  BY <1>1 DEF Reuse, JobAt, XattrTypes
<1>4. /\ b \in AttrBlock /\ i \in cache[b].users /\ cache[b].in /\ block[b].ref > 0
      /\ b # acl[i] /\ block[b].content = job[i].want
  BY <1>1, <1>2, <1>3 DEF Names, Cached
<1>5. CASE /\ block[b].ref < MaxRef /\ block' = [block EXCEPT ![b].ref = @ + 1]
           /\ cache' = [Put(i, b) EXCEPT ![b].reusable = @ /\ block[b].ref + 1 < MaxRef]
           /\ JobGoto(i, "update")
  <2> DEFINE r == [job[i] EXCEPT !.pc = "update"]
             c == [block[b] EXCEPT !.ref = @ + 1]
             p == Put(i, b)
             e == [p[b] EXCEPT !.reusable = @ /\ block[b].ref + 1 < MaxRef]
  <2>1. block' = [block EXCEPT ![b] = c]
    BY <1>5
  <2>2. /\ job' = [job EXCEPT ![i] = r] /\ cache' = [p EXCEPT ![b] = e]
    BY <1>5 DEF JobGoto
  <2>3. /\ r \in Jobs /\ r.pc = "update" /\ r.inPlace = job[i].inPlace /\ r.new = b
        /\ r.want = job[i].want
    BY <1>2, <1>3 DEF Jobs
  <2>4. c \in Cells /\ c.ref = block[b].ref + 1 /\ c.content = block[b].content
    <3>1. block[b] \in Cells /\ block[b].ref \in 0..MaxRef /\ MaxRef \in Nat
      BY <1>1, <1>4, XattrAssumption DEF XattrTypes, Cells
    <3> QED
      BY <1>5, <3>1 DEF Cells
  <2>5. /\ p \in [AttrBlock -> CacheEntries] /\ p[b].in = cache[b].in
        /\ p[b].users = cache[b].users \ {i}
        /\ \A a \in AttrBlock \ {b} : p[a] = cache[a]
    BY <1>1, <1>4, PutDown
  <2> HIDE DEF p
  <2>6. e \in CacheEntries /\ e.in = cache[b].in /\ e.users = cache[b].users \ {i}
    BY <1>4, <2>5 DEF CacheEntries
  <2> HIDE DEF r, c, e
  <2>7. /\ job'[i] = r /\ \A j \in Owner \ {i} : job'[j] = job[j]
        /\ block'[b] = c /\ \A a \in AttrBlock \ {b} : block'[a] = block[a]
        /\ cache'[b] = e /\ \A a \in AttrBlock \ {b} : cache'[a] = cache[a]
    BY <1>1, <1>4, <2>1, <2>2, <2>5 DEF XattrTypes
  <2>8. XattrTypes'
    BY <1>1, <1>3, <1>4, <2>1, <2>2, <2>3, <2>4, <2>5, <2>6 DEF XattrTypes
  <2>9. Spares(i)
    BY <1>3, <1>4, <2>4, <2>6, <2>7 DEF Spares
  <2>10. /\ Holders(b)' = Holders(b) \cup {i} /\ i \notin Holders(b)
         /\ \A a \in AttrBlock \ {b} : Holders(a)' = Holders(a)
    BY <1>3, <1>4, <2>3, <2>7 DEF Holders
  <2>11. \A a \in AttrBlock : CountedBlock(a)'
    <3>1. CountedBlock(b)'
      BY <1>4, <2>4, <2>7, <2>10, FS_AddElement DEF XattrIInv, CountedBlock
    <3>2. \A a \in AttrBlock \ {b} : CountedBlock(a)'
      BY <2>7, <2>10 DEF XattrIInv, CountedBlock
    <3> QED
      BY <3>1, <3>2
  <2>12. Names(i)'
    BY <1>4, <2>3, <2>4, <2>7 DEF Names
  <2>13. Alone(i)'
    BY <2>3, <2>7 DEF Alone
  <2>14. \A a \in AttrBlock : Cached(a)'
    <3>1. block'[b].ref > 0
      BY <1>1, <1>4, <2>4, <2>7 DEF XattrTypes, Cells
    <3> QED
      BY <1>1, <1>4, <2>6, <2>7, <3>1 DEF Cached
  <2> QED
    BY <2>8, <2>9, <2>11, <2>12, <2>13, <2>14, OneMoves
<1>6. CASE /\ cache' = Put(i, b) /\ UNCHANGED block
           /\ SetJob(i, [job[i] EXCEPT !.pc = "find", !.new = NoAttrBlock])
  <2> DEFINE r == [job[i] EXCEPT !.pc = "find", !.new = NoAttrBlock]
  <2>1. job' = [job EXCEPT ![i] = r]
    BY <1>6 DEF SetJob
  <2>2. /\ r \in Jobs /\ r.pc = "find" /\ r.inPlace = job[i].inPlace
        /\ r.new = NoAttrBlock /\ r.want = job[i].want
    BY <1>3 DEF Jobs
  <2> HIDE DEF r
  <2>3. job'[i] = r
    BY <1>1, <2>1 DEF XattrTypes
  <2>4. /\ cache' \in [AttrBlock -> CacheEntries]
        /\ \A a \in AttrBlock : /\ cache[a].users \ {i} \subseteq cache'[a].users
                                /\ cache'[a].users \subseteq cache[a].users
                                /\ cache'[a].in = cache[a].in
    BY <1>1, <1>4, <1>6, PutDown
  <2>5. Names(i)'
    BY <2>2, <2>3 DEF Names
  <2>6. Alone(i)'
    <3>1. acl[i] # NoAttrBlock => cache'[acl[i]].in = cache[acl[i]].in
      BY <1>1, <2>4 DEF XattrTypes
    <3> QED
      BY <1>1, <1>3, <1>6, <2>2, <2>3, <3>1 DEF Alone, Content, Searching
  <2>7. \A a \in AttrBlock : Cached(a)'
    BY <1>1, <1>6, <2>4 DEF Cached
  <2> QED
    BY <1>3, <1>6, <2>1, <2>2, <2>4, <2>5, <2>6, <2>7, JobMoves
<1> QED
  BY <1>2, <1>5, <1>6 DEF Reuse

(* What entering a block that is in use in the cache changes.              *)
LEMMA InsertedIs ==
  ASSUME XattrIInv, NEW b \in AttrBlock, NEW ref
  PROVE  /\ Inserted(b, ref) \in [AttrBlock -> CacheEntries]
         /\ Inserted(b, ref)[b].in /\ Inserted(b, ref)[b].users = cache[b].users
         /\ \A a \in AttrBlock \ {b} : Inserted(b, ref)[a] = cache[a]
<1> DEFINE e == [in |-> TRUE, reusable |-> ref < MaxRef, users |-> {}]
<1>1. XattrTypes /\ Cached(b)
  BY DEF XattrIInv
<1>2. CASE cache[b].in
  BY <1>1, <1>2 DEF Inserted, XattrTypes
<1>3. CASE ~cache[b].in
  <2>1. Inserted(b, ref) = [cache EXCEPT ![b] = e]
    BY <1>3 DEF Inserted
  <2>2. e.in /\ e.users = {} /\ e \in CacheEntries
    BY DEF CacheEntries
  <2>3. cache[b].users = {}
    BY <1>1, <1>3 DEF Cached
  <2> HIDE DEF e
  <2> QED
    BY <1>1, <2>1, <2>2, <2>3 DEF XattrTypes
<1> QED
  BY <1>2, <1>3

(* The block modified in place returns to the cache.                       *)
LEMMA PlaceSameStep == ASSUME XattrIInv, NEW i \in Owner, PlaceSame(i) PROVE XattrIInv'
<1>1. XattrTypes /\ Names(i) /\ Alone(i) /\ (\A a \in AttrBlock : Cached(a))
  BY DEF XattrIInv
<1>2. PICK b : b = acl[i]
  OBVIOUS
<1>3. /\ job[i].pc = "place" /\ job[i].inPlace /\ job[i] \in Jobs
      /\ cache' = Inserted(b, block[b].ref) /\ UNCHANGED <<acl, attrs, block>>
  BY <1>1, <1>2 DEF PlaceSame, JobAt, XattrTypes
<1>4. b \in AttrBlock /\ block[b].ref = 1 /\ block[b].content = job[i].want
  BY <1>1, <1>2, <1>3 DEF Alone, XattrTypes
<1> DEFINE r == [job[i] EXCEPT !.pc = "update", !.new = b]
<1>5. job' = [job EXCEPT ![i] = r]
  BY <1>2 DEF PlaceSame, SetJob
<1>6. /\ r \in Jobs /\ r.pc = "update" /\ r.inPlace = job[i].inPlace /\ r.new = b
      /\ r.want = job[i].want
  BY <1>3, <1>4 DEF Jobs
<1> HIDE DEF r
<1>7. job'[i] = r
  BY <1>1, <1>5 DEF XattrTypes
<1>8. /\ cache' \in [AttrBlock -> CacheEntries] /\ cache'[b].users = cache[b].users
      /\ cache'[b].in /\ \A a \in AttrBlock \ {b} : cache'[a] = cache[a]
  BY <1>3, <1>4, InsertedIs
<1>9. Names(i)'
  BY <1>3, <1>4, <1>6, <1>7 DEF Names
<1>10. Alone(i)'
  BY <1>6, <1>7 DEF Alone
<1>11. \A a \in AttrBlock : Cached(a)'
  <2>1. block[b].ref > 0
    BY <1>4
  <2> QED
    BY <1>1, <1>3, <1>4, <1>8, <2>1 DEF Cached
<1>12. \A a \in AttrBlock : /\ cache[a].users \ {i} \subseteq cache'[a].users
                            /\ cache'[a].in => \/ cache[a].in
                                               \/ acl[i] = a /\ block[a].ref = 1
  BY <1>2, <1>4, <1>8
<1> QED
  BY <1>2, <1>3, <1>5, <1>6, <1>8, <1>9, <1>10, <1>11, <1>12, JobMoves

(* A new block.                                                            *)
LEMMA PlaceNewStep ==
  ASSUME XattrIInv, NEW i \in Owner, NEW b \in AttrBlock, PlaceNew(i, b) PROVE XattrIInv'
<1>1. XattrTypes /\ Names(i) /\ Alone(i) /\ (\A a \in AttrBlock : Cached(a))
  BY DEF XattrIInv
<1> DEFINE r == [job[i] EXCEPT !.pc = "update", !.new = b]
           c == [ref |-> 1, content |-> job[i].want]
<1>2. /\ job[i].pc = "place" /\ job[i] \in Jobs /\ block[b].ref = 0 /\ ~job[i].inPlace
      /\ block' = [block EXCEPT ![b] = c] /\ cache' = Inserted(b, 1)
      /\ job' = [job EXCEPT ![i] = r] /\ UNCHANGED <<acl, attrs>>
  BY <1>1 DEF PlaceNew, JobAt, SetJob, XattrTypes
<1>3. /\ r \in Jobs /\ r.pc = "update" /\ r.inPlace = job[i].inPlace /\ r.new = b
      /\ r.want = job[i].want
  BY <1>2 DEF Jobs
<1>4. c \in Cells /\ c.ref = 1 /\ c.content = job[i].want
  BY <1>2, XattrAssumption DEF Cells, Jobs
<1> HIDE DEF r, c
<1>5. /\ cache' \in [AttrBlock -> CacheEntries] /\ cache'[b].users = cache[b].users
      /\ \A a \in AttrBlock \ {b} : cache'[a] = cache[a]
  BY <1>2, InsertedIs
<1>6. /\ job'[i] = r /\ \A j \in Owner \ {i} : job'[j] = job[j]
      /\ block'[b] = c /\ \A a \in AttrBlock \ {b} : block'[a] = block[a]
  BY <1>1, <1>2 DEF XattrTypes
<1>7. XattrTypes'
  BY <1>1, <1>2, <1>3, <1>4, <1>5 DEF XattrTypes
<1>8. Holders(b) = {} /\ cache[b].users = {}
  BY <1>1, <1>2, SoleHolder DEF XattrIInv, Cached
<1>9. Spares(i)
  BY <1>2, <1>5, <1>6, <1>8 DEF Spares
<1>10. /\ Holders(b)' = {i}
       /\ \A a \in AttrBlock \ {b} : Holders(a)' = Holders(a)
  BY <1>2, <1>3, <1>6, <1>8 DEF Holders
<1>11. \A a \in AttrBlock : CountedBlock(a)'
  <2>1. CountedBlock(b)'
    BY <1>4, <1>6, <1>10, FS_Singleton DEF CountedBlock
  <2>2. \A a \in AttrBlock \ {b} : CountedBlock(a)'
    BY <1>6, <1>10 DEF XattrIInv, CountedBlock
  <2> QED
    BY <2>1, <2>2
<1>12. Names(i)'
  BY <1>3, <1>4, <1>6 DEF Names
<1>13. Alone(i)'
  BY <1>2, <1>3, <1>6 DEF Alone
<1>14. \A a \in AttrBlock : Cached(a)'
  BY <1>1, <1>4, <1>5, <1>6, <1>8 DEF Cached
<1> QED
  BY <1>7, <1>9, <1>11, <1>12, <1>13, <1>14, OneMoves

LEMMA PlaceFailsStep == ASSUME XattrIInv, NEW i \in Owner, PlaceFails(i) PROVE XattrIInv'
<1>1. XattrTypes /\ Names(i) /\ Alone(i) /\ (\A a \in AttrBlock : Cached(a))
  BY DEF XattrIInv
<1>2. /\ job[i].pc = "place" /\ ~job[i].inPlace /\ job' = [job EXCEPT ![i] = NoJob]
      /\ UNCHANGED <<acl, attrs, block, cache>>
  BY DEF PlaceFails, JobAt, SetJob
<1>3. job'[i] = NoJob
  BY <1>1, <1>2 DEF XattrTypes
<1>4. Names(i)' /\ Alone(i)'
  BY <1>1, <1>2, <1>3, NoJobIs DEF Names, Alone, Content
<1>5. \A a \in AttrBlock : Cached(a)'
  BY <1>1, <1>2 DEF Cached
<1> QED
  BY <1>1, <1>2, <1>4, <1>5, NoJobIs, JobMoves DEF XattrTypes

(* The inode takes what its job has found; what it had before is dropped   *)
(* by a job of its own.                                                    *)
LEMMA UpdateStep ==
  ASSUME XattrIInv, NEW i \in Owner, UpdateInode(i) \/ Delete(i) PROVE XattrIInv'
<1>1. XattrTypes /\ Names(i) /\ Alone(i) /\ (\A a \in AttrBlock : Cached(a))
  BY DEF XattrIInv
<1>2. UNCHANGED <<block, cache>> /\ job[i] \in Jobs
  BY <1>1 DEF UpdateInode, Delete, XattrTypes
<1>3. PICK b, old : b = job[i].new /\ old = acl[i]
  OBVIOUS
<1>4. b \in AttrBlock \cup {NoAttrBlock} /\ old \in AttrBlock \cup {NoAttrBlock}
  BY <1>1, <1>2, <1>3 DEF XattrTypes, Jobs
<1>5. \E v \in AttrSet \cup {Empty} :
        /\ acl' = [acl EXCEPT ![i] = b] /\ attrs' = [attrs EXCEPT ![i] = v]
        /\ v = IF b = NoAttrBlock THEN Empty ELSE block[b].content
        /\ \/ job[i].pc = "update" /\ b # NoAttrBlock
           \/ job[i].pc \in {"find", "none"} /\ b = NoAttrBlock
        /\ SetJob(i, IF old \in {NoAttrBlock, b} THEN NoJob
                     ELSE [NoJob EXCEPT !.pc = "release", !.new = old])
  <2>1. CASE UpdateInode(i)
    <3>1. /\ acl' = [acl EXCEPT ![i] = b] /\ attrs' = [attrs EXCEPT ![i] = job[i].want]
          /\ SetJob(i, IF old \in {NoAttrBlock, b} THEN NoJob
                       ELSE [NoJob EXCEPT !.pc = "release", !.new = old])
          /\ job[i].pc = "update" \/ (job[i].pc = "find" /\ job[i].want = Empty)
      BY <1>3, <2>1 DEF UpdateInode, JobAt
    <3>2. job[i].want \in AttrSet \cup {Empty}
      BY <1>2 DEF Jobs
    <3>3. CASE job[i].pc = "update"
      <4>1. b \in AttrBlock /\ block[b].content = job[i].want
        BY <1>1, <1>3, <3>3 DEF Names
      <4>2. b # NoAttrBlock
        BY <4>1, XattrAssumption
      <4> QED
        BY <3>1, <3>2, <3>3, <4>1, <4>2
    <3>4. CASE job[i].pc = "find" /\ job[i].want = Empty
      <4>1. b = NoAttrBlock
        BY <1>1, <1>3, <3>4 DEF Names
      <4> QED
        BY <3>1, <3>2, <3>4, <4>1
    <3> QED
      BY <3>1, <3>3, <3>4
  <2>2. CASE Delete(i)
    <3>1. job[i].pc = "none" /\ old # NoAttrBlock /\ b = NoAttrBlock
      BY <1>1, <1>3, <2>2 DEF Delete, JobAt, Names
    <3> QED
      BY <1>3, <2>2, <3>1 DEF Delete
  <2> QED
    BY <2>1, <2>2
<1>6. PICK v \in AttrSet \cup {Empty} :
        /\ acl' = [acl EXCEPT ![i] = b] /\ attrs' = [attrs EXCEPT ![i] = v]
        /\ v = IF b = NoAttrBlock THEN Empty ELSE block[b].content
        /\ \/ job[i].pc = "update" /\ b # NoAttrBlock
           \/ job[i].pc \in {"find", "none"} /\ b = NoAttrBlock
        /\ SetJob(i, IF old \in {NoAttrBlock, b} THEN NoJob
                     ELSE [NoJob EXCEPT !.pc = "release", !.new = old])
  BY <1>5
<1> DEFINE r == IF old \in {NoAttrBlock, b} THEN NoJob
                ELSE [NoJob EXCEPT !.pc = "release", !.new = old]
<1>7. /\ job' = [job EXCEPT ![i] = r]
      /\ r \in Jobs /\ r.inPlace = FALSE
      /\ r.new = (IF old \in {NoAttrBlock, b} THEN NoAttrBlock ELSE old)
      /\ r.pc = (IF old \in {NoAttrBlock, b} THEN "none" ELSE "release")
  BY <1>4, <1>6 DEF SetJob, NoJob, Jobs
<1> HIDE DEF r
<1>8. /\ job'[i] = r /\ \A j \in Owner \ {i} : job'[j] = job[j]
      /\ acl'[i] = b /\ \A j \in Owner \ {i} : acl'[j] = acl[j]
      /\ attrs'[i] = v /\ \A j \in Owner \ {i} : attrs'[j] = attrs[j]
  BY <1>1, <1>6, <1>7 DEF XattrTypes
<1>9. XattrTypes'
  BY <1>1, <1>2, <1>4, <1>6, <1>7 DEF XattrTypes
<1>10. Spares(i)
  BY <1>2, <1>8 DEF Spares
<1>11. ASSUME NEW a \in AttrBlock PROVE Holders(a)' = Holders(a)
  <2>1. i \in Holders(a) <=> a = old \/ (a = b /\ job[i].pc = "update")
    BY <1>1, <1>3, <1>6 DEF Holders
  <2>2. i \in Holders(a)' <=> a = b \/ (a = old /\ old # b)
    BY <1>7, <1>8, XattrAssumption DEF Holders
  <2>3. i \in Holders(a) <=> i \in Holders(a)'
    BY <1>6, <2>1, <2>2, XattrAssumption
  <2>4. \A j \in Owner \ {i} : j \in Holders(a) <=> j \in Holders(a)'
    BY <1>8 DEF Holders
  <2>5. Holders(a) \subseteq Owner /\ Holders(a)' \subseteq Owner
    BY DEF Holders
  <2> QED
    BY <2>3, <2>4, <2>5
<1>12. \A a \in AttrBlock : CountedBlock(a)'
  BY <1>2, <1>11, CountsKept
<1>13. Names(i)'
  BY <1>4, <1>7, <1>8 DEF Names
<1>14. Alone(i)'
  BY <1>2, <1>6, <1>7, <1>8 DEF Alone, Content
<1>15. \A a \in AttrBlock : Cached(a)'
  BY <1>1, <1>2 DEF Cached
<1> QED
  BY <1>9, <1>10, <1>12, <1>13, <1>14, <1>15, OneMoves

(* A reference is dropped, the last one beside nobody.                     *)
LEMMA ReleaseStep == ASSUME XattrIInv, NEW i \in Owner, Release(i) PROVE XattrIInv'
<1>1. XattrTypes /\ Names(i) /\ Alone(i) /\ (\A a \in AttrBlock : Cached(a))
  BY DEF XattrIInv
<1>2. PICK b : b = job[i].new
  OBVIOUS
<1>3. /\ job[i].pc = "release" /\ job' = [job EXCEPT ![i] = NoJob]
      /\ UNCHANGED <<acl, attrs>>
  BY DEF Release, JobAt, SetJob
<1>4. b \in AttrBlock /\ b # acl[i] /\ i \in Holders(b) /\ ~job[i].inPlace
  BY <1>1, <1>2, <1>3 DEF Names, Holders, Alone, Searching
<1>5. /\ job'[i] = NoJob /\ \A j \in Owner \ {i} : job'[j] = job[j]
  BY <1>1, <1>3 DEF XattrTypes
<1>6. /\ Holders(b)' = Holders(b) \ {i}
      /\ \A a \in AttrBlock \ {b} : Holders(a)' = Holders(a)
  BY <1>2, <1>3, <1>4, <1>5, NoJobIs DEF Holders
<1>7. /\ IsFiniteSet(Holders(b)) /\ block[b].ref = Cardinality(Holders(b))
      /\ block[b] \in Cells /\ MaxRef \in Nat
  BY <1>1, <1>4, XattrAssumption DEF XattrIInv, CountedBlock, XattrTypes
<1>8. IsFiniteSet(Holders(b)') /\ Cardinality(Holders(b)') = block[b].ref - 1
  BY <1>4, <1>6, <1>7, FS_RemoveElement
<1>9. Names(i)'
  BY <1>5, NoJobIs DEF Names
<1>10. CASE /\ block[b].ref = 1 /\ NobodyHolds(b)
            /\ block' = [block EXCEPT ![b] = [ref |-> 0, content |-> Empty]]
            /\ cache' = [cache EXCEPT ![b] = NoEntry]
  <2> DEFINE c == [ref |-> 0, content |-> Empty]
  <2>1. c \in Cells /\ c.ref = 0
    BY <1>7 DEF Cells
  <2> HIDE DEF c
  <2>2. /\ block'[b] = c /\ \A a \in AttrBlock \ {b} : block'[a] = block[a]
        /\ cache'[b] = NoEntry /\ \A a \in AttrBlock \ {b} : cache'[a] = cache[a]
    BY <1>1, <1>4, <1>10 DEF XattrTypes, c
  <2>3. XattrTypes'
    BY <1>1, <1>3, <1>10, <2>1, NoJobIs, NoEntryIs DEF XattrTypes, c
  <2>4. Holders(b) \subseteq {i} /\ cache[b].users = {}
    BY <1>4, <1>10, SoleHolder DEF XattrIInv, NobodyHolds
  <2>5. Spares(i)
    BY <1>3, <1>5, <2>2, <2>4 DEF Spares
  <2>6. \A a \in AttrBlock : CountedBlock(a)'
    <3>1. CountedBlock(b)'
      BY <1>8, <1>10, <2>1, <2>2 DEF CountedBlock
    <3>2. \A a \in AttrBlock \ {b} : CountedBlock(a)'
      BY <1>6, <2>2 DEF XattrIInv, CountedBlock
    <3> QED
      BY <3>1, <3>2
  <2>7. Alone(i)'
    <3>1. acl[i] # NoAttrBlock => block'[acl[i]] = block[acl[i]]
      BY <1>1, <1>4, <2>2 DEF XattrTypes
    <3> QED
      BY <1>1, <1>3, <1>4, <1>5, <3>1, NoJobIs DEF Alone, Content
  <2>8. \A a \in AttrBlock : Cached(a)'
    BY <1>1, <2>2, NoEntryIs DEF Cached
  <2> QED
    BY <1>9, <2>3, <2>5, <2>6, <2>7, <2>8, OneMoves
<1>11. CASE /\ block[b].ref > 1 /\ block' = [block EXCEPT ![b].ref = @ - 1]
            /\ cache' = [cache EXCEPT ![b].reusable =
                           @ \/ (cache[b].in /\ block[b].ref = MaxRef)]
  <2> DEFINE c == [block[b] EXCEPT !.ref = @ - 1]
             e == [cache[b] EXCEPT !.reusable = @ \/ (cache[b].in /\ block[b].ref = MaxRef)]
  <2>1. block' = [block EXCEPT ![b] = c] /\ cache' = [cache EXCEPT ![b] = e]
    BY <1>11
  <2>2. c \in Cells /\ c.ref = block[b].ref - 1 /\ c.content = block[b].content
    BY <1>7, <1>11 DEF Cells
  <2>3. e \in CacheEntries /\ e.in = cache[b].in /\ e.users = cache[b].users
    BY <1>1, <1>4 DEF XattrTypes, CacheEntries
  <2> HIDE DEF c, e
  <2>4. /\ block'[b] = c /\ \A a \in AttrBlock \ {b} : block'[a] = block[a]
        /\ cache'[b] = e /\ \A a \in AttrBlock \ {b} : cache'[a] = cache[a]
    BY <1>1, <1>4, <2>1 DEF XattrTypes
  <2>5. XattrTypes'
    BY <1>1, <1>3, <2>1, <2>2, <2>3, NoJobIs DEF XattrTypes
  <2>6. Spares(i)
    BY <1>3, <1>5, <1>11, <2>2, <2>3, <2>4 DEF Spares
  <2>7. \A a \in AttrBlock : CountedBlock(a)'
    <3>1. CountedBlock(b)'
      BY <1>8, <2>2, <2>4 DEF CountedBlock
    <3>2. \A a \in AttrBlock \ {b} : CountedBlock(a)'
      BY <1>6, <2>4 DEF XattrIInv, CountedBlock
    <3> QED
      BY <3>1, <3>2
  <2>8. Alone(i)'
    <3>1. acl[i] # NoAttrBlock => block'[acl[i]] = block[acl[i]]
      BY <1>1, <1>4, <2>4 DEF XattrTypes
    <3> QED
      BY <1>1, <1>3, <1>4, <1>5, <3>1, NoJobIs DEF Alone, Content
  <2>9. \A a \in AttrBlock : Cached(a)'
    <3>1. block'[b].ref > 0
      BY <1>7, <1>11, <2>2, <2>4 DEF Cells
    <3> QED
      BY <1>1, <2>3, <2>4, <3>1 DEF Cached
  <2> QED
    BY <1>9, <2>5, <2>6, <2>7, <2>8, <2>9, OneMoves
<1> QED
  BY <1>2, <1>10, <1>11 DEF Release

(* Steps of the cache alone.                                               *)
LEMMA CacheMoves ==
  ASSUME XattrIInv, UNCHANGED <<acl, attrs, block, job>>,
         cache' \in [AttrBlock -> CacheEntries],
         \A b \in AttrBlock :
           /\ cache[b].users \subseteq cache'[b].users /\ Cached(b)'
           /\ cache'[b].in => \/ cache[b].in
                              \/ \E i \in Owner : acl[i] = b /\ job[i].pc = "none"
  PROVE  XattrIInv'
<1>1. XattrTypes /\ XattrTypes'
  BY DEF XattrIInv, XattrTypes
<1>2. ASSUME NEW i \in Owner PROVE Names(i)' /\ Alone(i)'
  <2>1. Names(i) /\ Alone(i) /\ job[i] \in Jobs
    BY <1>1 DEF XattrIInv, XattrTypes
  <2>2. Names(i)'
    BY <2>1 DEF Names
  <2>3. ASSUME job[i].inPlace, job[i].pc # "update" PROVE ~cache'[acl[i]].in
    <3>1. acl[i] \in AttrBlock /\ block[acl[i]].ref = 1 /\ ~cache[acl[i]].in
      BY <1>1, <2>1, <2>3 DEF Alone, XattrTypes
    <3>2. ASSUME NEW j \in Owner, acl[j] = acl[i], job[j].pc = "none" PROVE FALSE
      <4>1. i \in Holders(acl[i]) /\ j \in Holders(acl[i])
        BY <3>2 DEF Holders
      <4>2. i = j
        BY <3>1, <4>1, SoleHolder DEF XattrIInv
      <4> QED
        BY <2>1, <2>3, <3>2, <4>2 DEF Alone, Searching
    <3> QED
      BY <3>1, <3>2
  <2> QED
    BY <2>1, <2>2, <2>3 DEF Alone, Content
<1>3. \A b \in AttrBlock : CountedBlock(b)'
  BY CountsKept DEF Holders
<1> QED
  BY <1>1, <1>2, <1>3 DEF XattrIInv

LEMMA ReadStep == ASSUME XattrIInv, NEW i \in Owner, ReadAttrs(i) PROVE XattrIInv'
<1>1. XattrTypes /\ (\A a \in AttrBlock : Cached(a) /\ CountedBlock(a))
  BY DEF XattrIInv
<1>2. PICK b : b = acl[i]
  OBVIOUS
<1>3. /\ job[i].pc = "none" /\ b # NoAttrBlock /\ cache' = Inserted(b, block[b].ref)
      /\ UNCHANGED <<acl, attrs, block, job>>
  BY <1>2 DEF ReadAttrs, JobAt
<1>4. b \in AttrBlock /\ i \in Holders(b)
  BY <1>1, <1>2, <1>3 DEF XattrTypes, Holders
<1>5. block[b].ref > 0
  <2>1. block[b].ref # 0
    BY <1>4, <1>1, SoleHolder
  <2> QED
    BY <1>1, <1>4, <2>1, XattrAssumption DEF XattrTypes, Cells
<1>6. /\ cache' \in [AttrBlock -> CacheEntries] /\ cache'[b].users = cache[b].users
      /\ cache'[b].in /\ \A a \in AttrBlock \ {b} : cache'[a] = cache[a]
  BY <1>3, <1>4, InsertedIs
<1>7. \A a \in AttrBlock : Cached(a)'
  BY <1>1, <1>3, <1>5, <1>6 DEF Cached
<1>8. \A a \in AttrBlock :
        /\ cache[a].users \subseteq cache'[a].users
        /\ cache'[a].in => \/ cache[a].in
                           \/ \E j \in Owner : acl[j] = a /\ job[j].pc = "none"
  BY <1>2, <1>3, <1>6
<1> QED
  BY <1>3, <1>6, <1>7, <1>8, CacheMoves

LEMMA ShrinkStep ==
  ASSUME XattrIInv, NEW b \in AttrBlock, ShrinkCache(b) PROVE XattrIInv'
<1>1. XattrTypes /\ (\A a \in AttrBlock : Cached(a))
  BY DEF XattrIInv
<1>2. /\ cache[b].users = {} /\ cache' = [cache EXCEPT ![b] = NoEntry]
      /\ UNCHANGED <<acl, attrs, block, job>>
  BY DEF ShrinkCache
<1>3. /\ cache' \in [AttrBlock -> CacheEntries] /\ cache'[b] = NoEntry
      /\ \A a \in AttrBlock \ {b} : cache'[a] = cache[a]
  BY <1>1, <1>2, NoEntryIs DEF XattrTypes
<1>4. \A a \in AttrBlock : Cached(a)'
  BY <1>1, <1>2, <1>3, NoEntryIs DEF Cached
<1>5. \A a \in AttrBlock : /\ cache[a].users \subseteq cache'[a].users
                           /\ cache'[a].in => cache[a].in
  BY <1>2, <1>3, NoEntryIs
<1> QED
  BY <1>2, <1>3, <1>4, <1>5, CacheMoves

LEMMA XattrInitIInv == XattrInit => XattrIInv
<1> SUFFICES ASSUME XattrInit PROVE XattrIInv
  OBVIOUS
<1>1. /\ \A i \in Owner : /\ acl[i] = NoAttrBlock /\ attrs[i] = Empty /\ job[i] = NoJob
      /\ \A b \in AttrBlock : /\ block[b].ref = 0
                              /\ cache[b] = NoEntry
  BY DEF XattrInit
<1>2. XattrTypes
  <2>1. [ref |-> 0, content |-> Empty] \in Cells
    BY XattrAssumption DEF Cells
  <2> QED
    BY <2>1, NoJobIs, NoEntryIs DEF XattrInit, XattrTypes
<1>3. \A i \in Owner : Names(i) /\ Alone(i)
  BY <1>1, NoJobIs DEF Names, Alone, Content
<1>4. ASSUME NEW b \in AttrBlock PROVE Cached(b) /\ CountedBlock(b)
  <2>1. Holders(b) = {}
    BY <1>1, NoJobIs, XattrAssumption DEF Holders
  <2> QED
    BY <1>1, <2>1, NoEntryIs, FS_EmptySet DEF Cached, CountedBlock
<1> QED
  BY <1>2, <1>3, <1>4 DEF XattrIInv

LEMMA XattrStep == XattrIInv /\ [XattrNext]_xattrVars => XattrIInv'
<1> SUFFICES ASSUME XattrIInv, [XattrNext]_xattrVars PROVE XattrIInv'
  OBVIOUS
<1>1. CASE UNCHANGED xattrVars
  <2>1. \A b \in AttrBlock : Cached(b)'
    BY <1>1 DEF XattrIInv, Cached, xattrVars
  <2> QED
    BY <1>1, <2>1, CacheMoves DEF XattrIInv, XattrTypes, xattrVars
<1>2. ASSUME NEW i \in Owner, NEW v \in AttrSet \cup {Empty}, SetBegin(i, v)
      PROVE  XattrIInv'
  BY <1>2, SetBeginStep
<1>3. ASSUME NEW i \in Owner,
             Modify(i) \/ FindNothing(i) \/ Compare(i) \/ Keep(i) \/ Reuse(i)
      PROVE  XattrIInv'
  BY <1>3, ModifyStep, FindStep, CompareStep, ReuseStep
<1>4. ASSUME NEW i \in Owner, NEW b \in AttrBlock, FindEntry(i, b) \/ PlaceNew(i, b)
      PROVE  XattrIInv'
  BY <1>4, FindStep, PlaceNewStep
<1>5. ASSUME NEW i \in Owner,
             \/ PlaceSame(i) \/ PlaceFails(i) \/ UpdateInode(i)
             \/ Delete(i) \/ Release(i) \/ ReadAttrs(i)
      PROVE  XattrIInv'
  BY <1>5, PlaceSameStep, PlaceFailsStep, UpdateStep, ReleaseStep, ReadStep
<1>6. ASSUME NEW b \in AttrBlock, ShrinkCache(b) PROVE XattrIInv'
  BY <1>6, ShrinkStep
<1> QED
  BY <1>1, <1>2, <1>3, <1>4, <1>5, <1>6 DEF XattrNext

(* However settings, deletions, readers and memory pressure interleave, an *)
(* attribute block counts the inodes that refer to it, and an inode at     *)
(* rest reads what was set on it last: ext5_xattr_block_set and            *)
(* ext5_xattr_release_block, with the block cache between them.            *)
THEOREM SharedBlocksAreSafe == XattrSpec => []SharedBlockSafe
<1>1. XattrIInv => SharedBlockSafe
  BY NoJobIs DEF XattrIInv, CountedBlock, Names, Alone, Content, SharedBlockSafe, JobAt,
                 Searching
<1>2. XattrSpec => []XattrIInv
  BY XattrInitIInv, XattrStep, PTL DEF XattrSpec
<1> QED
  BY <1>1, <1>2, PTL

-----------------------------------------------------------------------------
HIDE MmpAssumption

(* No inode is twice in a list.                                            *)
Distinct(q) == \A j, k \in DOMAIN q : q[j] = q[k] => j = k

(* The list q is the chain in metadata m, apart from what the file notes,  *)
(* and the two hold the inodes that need a mount: allocated ones, and all  *)
(* that have no name or blocks beyond their end.                           *)
ListSound(m, q) ==
  /\ q \in Seq(Ino) /\ Distinct(q) /\ IsChain(m, q)
  /\ \A i \in Ino \ Range(q) : m.next[i] \notin Ino
  /\ Range(q) \cap Noted(m) = {}
  /\ \A i \in Range(q) \cup Noted(m) : m.used[i]
  /\ \A i \in Ino : m.excess[i] => m.used[i]
  /\ \A i \in Ino : m.used[i] /\ (m.nlink[i] = 0 \/ m.excess[i])
                      => i \in Range(q) \cup Noted(m)

(* The inodes that the memory knows to be orphans.                         *)
Orphans == infile \cup Range(list)

(* The memory and the chain: the same, but for a mount, which takes one    *)
(* head after the other and then one slot after the other.                 *)
ListKept(m, q, l, f, pc, slots) ==
  /\ pc = "mounted" => l = q /\ f = Noted(m)
  /\ pc = "list" => f = {} /\ slots = Slot /\ (l = <<>> \/ (q # <<>> /\ l = <<q[1]>>))
  /\ pc = "file" =>
       /\ q = <<>> /\ l = <<>> /\ f \subseteq Noted(m)
       /\ \A s \in Slot \ slots : m.file[s] \in f \cup {NoIno}

(* An inode that is truncated or evicted is an orphan, in a mount each     *)
(* orphan is one of these, and blocks beyond the end have someone at them. *)
DoingHeld ==
  /\ todo.pc # "mounted" => \A i \in Orphans : doing[i] # "none"
  /\ \A i \in Ino : doing[i] # "none" => i \in Orphans
  /\ \A i \in Ino : doing[i] = "truncate" => meta.nlink[i] = 1
  /\ todo.pc = "mounted" => \A i \in Ino : meta.excess[i] => doing[i] # "none"

(* As long as no inode left the list in memory only.                       *)
OrphanIInv ==
  ~left => /\ OrphanTypeOK
           /\ \E q : ListSound(durable, q)
           /\ \E q : ListSound(meta, q) /\ ListKept(meta, q, list, infile, todo.pc, todo.slots)
           /\ DoingHeld

-----------------------------------------------------------------------------
(* A sequence without its n-th element.                                    *)
LEMMA RemoveAtIs ==
  ASSUME NEW S, NEW q \in Seq(S), NEW n \in DOMAIN q
  PROVE  /\ RemoveAt(q, n) \in Seq(S) /\ Len(q) \in Nat \ {0}
         /\ DOMAIN RemoveAt(q, n) = 1..(Len(q) - 1) /\ DOMAIN q = 1..Len(q)
         /\ \A k \in 1..(Len(q) - 1) :
              RemoveAt(q, n)[k] = IF k < n THEN q[k] ELSE q[k + 1]
<1> DEFINE a == SubSeq(q, 1, n - 1)
<1> DEFINE b == SubSeq(q, n + 1, Len(q))
<1>1. n \in Nat /\ 1 <= n /\ n <= Len(q) /\ Len(q) \in Nat /\ DOMAIN q = 1..Len(q)
  OBVIOUS
<1>2. a \in Seq(S) /\ Len(a) = n - 1 /\ \A k \in 1..n - 1 : a[k] = q[k]
  BY <1>1
<1>3. b \in Seq(S) /\ Len(b) = Len(q) - n /\ \A k \in 1..Len(q) - n : b[k] = q[n + k]
  BY <1>1
<1> HIDE DEF a, b
<1>4. /\ a \o b \in Seq(S) /\ Len(a \o b) = Len(q) - 1
      /\ \A k \in 1..(Len(q) - 1) : (a \o b)[k] = IF k <= n - 1 THEN a[k] ELSE b[k - (n - 1)]
  <2>1. a \o b \in Seq(S) /\ Len(a \o b) = Len(a) + Len(b)
    BY <1>2, <1>3, ConcatProperties
  <2>2. Len(a \o b) = Len(q) - 1
    BY <1>1, <1>2, <1>3, <2>1
  <2>3. \A k \in 1..(Len(a) + Len(b)) :
          (a \o b)[k] = IF k <= Len(a) THEN a[k] ELSE b[k - Len(a)]
    BY <1>2, <1>3, ConcatProperties
  <2>4. Len(a) = n - 1 /\ Len(a) + Len(b) = Len(q) - 1
    BY <2>1, <2>2, <1>2
  <2> QED
    BY <2>1, <2>2, <2>3, <2>4
<1>5. RemoveAt(q, n) = a \o b
  BY DEF RemoveAt, a, b
<1>6. ASSUME NEW k \in 1..(Len(q) - 1)
      PROVE  (a \o b)[k] = IF k < n THEN q[k] ELSE q[k + 1]
  <2>1. CASE k < n
    BY <1>1, <1>2, <1>4, <2>1
  <2>2. CASE ~(k < n)
    <3>1. k - (n - 1) \in 1..Len(q) - n /\ n + (k - (n - 1)) = k + 1 /\ ~(k <= n - 1)
      BY <1>1, <2>2
    <3> QED
      BY <1>3, <1>4, <2>2, <3>1
  <2> QED
    BY <2>1, <2>2
<1>7. DOMAIN RemoveAt(q, n) = 1..(Len(q) - 1)
  <2>1. DOMAIN (a \o b) = 1..Len(a \o b)
    BY <1>4
  <2> QED
    BY <1>4, <1>5, <2>1
<1>8. Len(q) \in Nat \ {0}
  BY <1>1
<1> QED
  BY <1>1, <1>4, <1>5, <1>6, <1>7, <1>8

(* What ext5_orphan_del writes to take the n-th inode off.                 *)
CutsOff(m, u, q, n) ==
  /\ u.last = IF n = 1 THEN m.next[q[n]] ELSE m.last
  /\ u.next = IF n = 1 THEN [m.next EXCEPT ![q[n]] = NoIno]
              ELSE [m.next EXCEPT ![q[n - 1]] = m.next[q[n]], ![q[n]] = NoIno]

(* Taking the n-th inode off a chain leaves the chain of the others.       *)
LEMMA ChainCut ==
  ASSUME NEW m, NEW u, NEW q \in Seq(Ino), Distinct(q), IsChain(m, q),
         m.next \in [Ino -> Ino \cup {NoIno, Dtime}],
         NEW n \in DOMAIN q,
         CutsOff(m, u, q, n)
  PROVE  /\ RemoveAt(q, n) \in Seq(Ino) /\ Distinct(RemoveAt(q, n))
         /\ IsChain(u, RemoveAt(q, n))
         /\ Range(RemoveAt(q, n)) = Range(q) \ {q[n]}
<1> DEFINE r == RemoveAt(q, n)
<1>0. /\ u.last = IF n = 1 THEN m.next[q[n]] ELSE m.last
      /\ u.next = IF n = 1 THEN [m.next EXCEPT ![q[n]] = NoIno]
                  ELSE [m.next EXCEPT ![q[n - 1]] = m.next[q[n]], ![q[n]] = NoIno]
  BY DEF CutsOff
<1> DEFINE to(k) == IF k < n THEN k ELSE k + 1
<1>1. /\ r \in Seq(Ino) /\ Len(q) \in Nat \ {0}
      /\ DOMAIN r = 1..(Len(q) - 1) /\ DOMAIN q = 1..Len(q)
      /\ \A k \in DOMAIN r : r[k] = q[to(k)]
  <2>1. /\ r \in Seq(Ino) /\ Len(q) \in Nat \ {0}
        /\ DOMAIN r = 1..(Len(q) - 1) /\ DOMAIN q = 1..Len(q)
        /\ \A k \in 1..(Len(q) - 1) : r[k] = IF k < n THEN q[k] ELSE q[k + 1]
    BY RemoveAtIs
  <2> QED
    BY <2>1
<1> HIDE DEF r
<1>2. /\ \A k \in DOMAIN r : k \in Nat /\ to(k) \in DOMAIN q /\ to(k) # n
      /\ \A j, k \in DOMAIN r : to(j) = to(k) => j = k
  BY <1>1
<1>3. \A k \in DOMAIN q : k # n => \E j \in DOMAIN r : to(j) = k
  <2> SUFFICES ASSUME NEW k \in DOMAIN q, k # n PROVE \E j \in DOMAIN r : to(j) = k
    OBVIOUS
  <2>1. CASE k < n
    <3>1. k \in DOMAIN r /\ to(k) = k
      BY <1>1, <2>1
    <3> QED
      BY <3>1
  <2>2. CASE k > n
    <3>1. k - 1 \in DOMAIN r /\ to(k - 1) = k
      BY <1>1, <2>2
    <3> QED
      BY <3>1
  <2> QED
    BY <1>1, <2>1, <2>2
<1>4. Distinct(r)
  <2> SUFFICES ASSUME NEW j \in DOMAIN r, NEW k \in DOMAIN r, r[j] = r[k] PROVE j = k
    BY DEF Distinct
  <2>1. q[to(j)] = q[to(k)] /\ to(j) \in DOMAIN q /\ to(k) \in DOMAIN q
    BY <1>1, <1>2
  <2>2. to(j) = to(k)
    BY <2>1 DEF Distinct
  <2> QED
    BY <1>2, <2>2
<1>5. Range(r) = Range(q) \ {q[n]}
  <2>1. \A k \in DOMAIN r : r[k] \in Range(q) /\ r[k] # q[n]
    BY <1>1, <1>2 DEF Range, Distinct
  <2>2. \A k \in DOMAIN q : q[k] # q[n] => q[k] \in Range(r)
    <3> SUFFICES ASSUME NEW k \in DOMAIN q, q[k] # q[n] PROVE q[k] \in Range(r)
      OBVIOUS
    <3>1. PICK j \in DOMAIN r : to(j) = k
      BY <1>3
    <3>2. r[j] = q[k]
      BY <1>1, <3>1
    <3> QED
      BY <3>2 DEF Range
  <2> QED
    BY <2>1, <2>2 DEF Range
<1>6. \A k \in DOMAIN q : q[k] \in Ino
  OBVIOUS
<1>7. \A k \in DOMAIN q : m.next[q[k]] = Nth(q, k + 1)
  BY DEF IsChain
<1>8. u.last = Nth(r, 1)
  <2>1. CASE n = 1
    <3>1. u.last = Nth(q, 2)
      BY <1>0, <1>1, <1>7, <2>1
    <3>2. 1 \in DOMAIN r <=> 2 \in DOMAIN q
      BY <1>1
    <3>3. 1 \in DOMAIN r => r[1] = q[2]
      BY <1>1, <2>1
    <3> QED
      BY <3>1, <3>2, <3>3 DEF Nth
  <2>2. CASE n # 1
    <3>1. 1 \in DOMAIN r /\ 1 < n /\ 1 \in DOMAIN q
      BY <1>1, <2>2
    <3>2. r[1] = q[1]
      BY <1>1, <3>1
    <3>3. u.last = q[1]
      BY <1>0, <2>2, <3>1 DEF IsChain, Nth
    <3> QED
      BY <3>1, <3>2, <3>3 DEF Nth
  <2> QED
    BY <2>1, <2>2
<1>9. ASSUME NEW k \in DOMAIN r PROVE u.next[r[k]] = Nth(r, k + 1)
  <2>1. r[k] = q[to(k)] /\ to(k) \in DOMAIN q /\ r[k] # q[n] /\ r[k] \in Ino
    BY <1>1, <1>2, <1>6 DEF Distinct
  <2>2. CASE k = n - 1
    <3>1. n # 1 /\ r[k] = q[n - 1] /\ n - 1 \in DOMAIN q
      BY <1>1, <2>2
    <3>2. u.next[r[k]] = m.next[q[n]]
      BY <1>0, <1>6, <2>1, <3>1
    <3>3. u.next[r[k]] = Nth(q, n + 1)
      BY <1>7, <3>2
    <3>4. k + 1 \in DOMAIN r <=> n + 1 \in DOMAIN q
      BY <1>1, <2>2
    <3>5. k + 1 \in DOMAIN r => r[k + 1] = q[n + 1]
      BY <1>1, <2>2
    <3> QED
      BY <3>3, <3>4, <3>5 DEF Nth
  <2>3. CASE k # n - 1
    <3>1. n # 1 => r[k] # q[n - 1]
      <4> SUFFICES ASSUME n # 1 PROVE to(k) # n - 1 /\ n - 1 \in DOMAIN q
        BY <2>1 DEF Distinct
      <4> QED
        BY <1>1, <2>3
    <3>2. u.next[r[k]] = m.next[r[k]]
      <4>1. CASE n = 1
        BY <1>0, <1>6, <2>1, <4>1
      <4>2. CASE n # 1
        BY <1>0, <1>6, <2>1, <3>1, <4>2
      <4> QED
        BY <4>1, <4>2
    <3>3. u.next[r[k]] = Nth(q, to(k) + 1)
      BY <1>7, <2>1, <3>2
    <3>4. k + 1 \in DOMAIN r <=> to(k) + 1 \in DOMAIN q
      BY <1>1, <2>3
    <3>5. k + 1 \in DOMAIN r => r[k + 1] = q[to(k) + 1]
      <4>1. k + 1 \in DOMAIN r => to(k + 1) = to(k) + 1
        BY <1>1, <2>3
      <4> QED
        BY <1>1, <4>1
    <3> QED
      BY <3>3, <3>4, <3>5 DEF Nth
  <2> QED
    BY <2>2, <2>3
<1>10. IsChain(u, r)
  BY <1>8, <1>9 DEF IsChain
<1> QED
  BY <1>1, <1>4, <1>5, <1>10 DEF r

(* The inodes of a list with a new head.                                   *)
LEMMA RangeOfPush ==
  ASSUME NEW q \in Seq(Ino), NEW i \in Ino
  PROVE  Range(<<i>> \o q) = Range(q) \cup {i}
<1> DEFINE r == <<i>> \o q
<1>1. /\ Len(q) \in Nat /\ DOMAIN r = 1..(Len(q) + 1)
      /\ DOMAIN q = 1..Len(q) /\ r[1] = i
      /\ \A k \in DOMAIN r : k # 1 => k - 1 \in DOMAIN q /\ r[k] = q[k - 1]
  OBVIOUS
<1> HIDE DEF r
<1>2. \A k \in DOMAIN r : r[k] \in Range(q) \cup {i}
  BY <1>1 DEF Range
<1>3. \A k \in DOMAIN q : q[k] \in Range(r)
  <2> SUFFICES ASSUME NEW k \in DOMAIN q PROVE k + 1 \in DOMAIN r /\ r[k + 1] = q[k]
    BY DEF Range
  <2> QED
    BY <1>1
<1>4. i \in Range(r)
  BY <1>1 DEF Range
<1>5. Range(r) = Range(q) \cup {i}
  BY <1>2, <1>3, <1>4 DEF Range
<1> QED
  BY <1>5 DEF r

(* What ext5_orphan_add writes for a new head.                             *)
PushesOn(m, u, i) == u.last = i /\ u.next = [m.next EXCEPT ![i] = m.last]

(* A new head makes the chain of the list with it in front.                *)
LEMMA ChainPush ==
  ASSUME NEW m, NEW u, NEW q \in Seq(Ino), Distinct(q), IsChain(m, q),
         m.next \in [Ino -> Ino \cup {NoIno, Dtime}],
         NEW i \in Ino, i \notin Range(q),
         PushesOn(m, u, i)
  PROVE  /\ <<i>> \o q \in Seq(Ino) /\ Distinct(<<i>> \o q)
         /\ IsChain(u, <<i>> \o q)
         /\ Range(<<i>> \o q) = Range(q) \cup {i}
<1> DEFINE r == <<i>> \o q
<1>1. /\ r \in Seq(Ino) /\ Len(q) \in Nat /\ DOMAIN r = 1..(Len(q) + 1)
      /\ DOMAIN q = 1..Len(q) /\ r[1] = i
      /\ \A k \in DOMAIN r : k # 1 => k - 1 \in DOMAIN q /\ r[k] = q[k - 1]
  OBVIOUS
<1> HIDE DEF r
<1>2. \A k \in DOMAIN q : q[k] \in Ino /\ q[k] # i
  BY DEF Range
<1>3. Distinct(r)
  <2> SUFFICES ASSUME NEW j \in DOMAIN r, NEW k \in DOMAIN r, r[j] = r[k] PROVE j = k
    BY DEF Distinct
  <2>1. CASE j = 1 \/ k = 1
    BY <1>1, <1>2, <2>1
  <2>2. CASE j # 1 /\ k # 1
    <3>1. j - 1 = k - 1
      BY <1>1, <2>2 DEF Distinct
    <3> QED
      BY <1>1, <3>1
  <2> QED
    BY <2>1, <2>2
<1>4. Range(r) = Range(q) \cup {i}
  BY RangeOfPush DEF r
<1>5. u.last = Nth(r, 1)
  BY <1>1 DEF Nth, PushesOn
<1>6. ASSUME NEW k \in DOMAIN r PROVE u.next[r[k]] = Nth(r, k + 1)
  <2>1. k + 1 \in DOMAIN r <=> k \in DOMAIN q
    BY <1>1
  <2>2. k + 1 \in DOMAIN r => r[k + 1] = q[k]
    BY <1>1
  <2>3. CASE k = 1
    BY <1>1, <2>1, <2>2, <2>3 DEF IsChain, Nth, PushesOn
  <2>4. CASE k # 1
    <3>1. k - 1 \in DOMAIN q /\ r[k] = q[k - 1] /\ (k - 1) + 1 = k
      BY <1>1, <2>4
    <3>2. u.next[r[k]] = m.next[q[k - 1]]
      BY <1>2, <3>1 DEF PushesOn
    <3>3. u.next[r[k]] = Nth(q, k)
      BY <3>1, <3>2 DEF IsChain
    <3> QED
      BY <2>1, <2>2, <3>3 DEF Nth
  <2> QED
    BY <2>3, <2>4
<1> QED
  BY <1>1, <1>3, <1>4, <1>5, <1>6 DEF r, IsChain

-----------------------------------------------------------------------------

(* Emptying the slots that hold an inode takes it out of the file.         *)
LEMMA NotedUnless ==
  ASSUME NEW m, NEW u, NEW i \in Ino, NoIno \notin Ino,
         u.file = [s \in Slot |-> IF m.file[s] = i THEN NoIno ELSE m.file[s]]
  PROVE  Noted(u) = Noted(m) \ {i}
BY DEF Noted

(* ext5_orphan_del, for an inode that changes otherwise as it may.         *)
LEMMA UnlinkKeeps ==
  ASSUME OrphanTypeOK, NEW q, ListSound(meta, q),
         ListKept(meta, q, list, infile, todo.pc, todo.slots),
         todo.pc # "mounted" => \A j \in Orphans : doing[j] # "none",
         \A j \in Ino : doing[j] # "none" => j \in Orphans,
         NEW i \in Ino, NEW m \in Metadata,
         m.last = meta.last, m.file = meta.file, m.next = meta.next,
         \A j \in Ino \ {i} : /\ m.used[j] = meta.used[j]
                              /\ m.nlink[j] = meta.nlink[j]
                              /\ m.excess[j] = meta.excess[j],
         ~m.excess[i], m.used[i] => m.nlink[i] = 1,
         DropOrphan(i), i \in Orphans \/ todo.pc = "mounted"
  PROVE  LET u == Unlinked(m, i)
         IN  /\ u \in Metadata /\ u.used = m.used /\ u.nlink = m.nlink
             /\ u.excess = m.excess /\ u.next[i] \notin Ino
             /\ list' \in Seq(Ino) /\ infile' \in SUBSET Ino
             /\ infile' \cup Range(list') = Orphans \ {i}
             /\ \E r : ListSound(u, r) /\ ListKept(u, r, list', infile', todo.pc, todo.slots)
<1> DEFINE u == Unlinked(m, i)
<1>1. /\ q \in Seq(Ino) /\ Distinct(q) /\ IsChain(m, q) /\ Noted(m) = Noted(meta)
      /\ \A j \in Ino \ Range(q) : m.next[j] \notin Ino
      /\ Range(q) \cap Noted(m) = {}
  BY DEF ListSound, IsChain, Noted
<1>2. /\ list \in Seq(Ino) /\ infile \subseteq Ino
      /\ infile' = infile \ {i}
      /\ list' = IF Contains(list, i) THEN RemoveAt(list, Position(i)) ELSE list
      /\ NoIno \notin Ino /\ Dtime \notin Ino
  BY OrphanAssumption DEF OrphanTypeOK, DropOrphan
<1>3. /\ m.next \in [Ino -> Ino \cup {NoIno, Dtime}]
      /\ m.file \in [Slot -> Ino \cup {NoIno}] /\ m.last \in Ino \cup {NoIno}
  BY DEF Metadata
<1>4. Contains(list, i) <=> i \in Range(list)
  BY <1>2 DEF Contains, Range
<1>5. Range(list) \subseteq Range(q) /\ infile \subseteq Noted(m) /\ Range(list) \cap infile = {}
  <2>1. CASE todo.pc = "mounted"
    BY <1>1, <2>1 DEF ListKept
  <2>2. CASE todo.pc = "list"
    BY <1>1, <2>2 DEF ListKept, Range
  <2>3. CASE todo.pc = "file"
    BY <1>1, <2>3 DEF ListKept, Range
  <2> QED
    BY <2>1, <2>2, <2>3 DEF OrphanTypeOK
<1>6. ASSUME NEW r \in Seq(Ino), Distinct(r), IsChain(u, r),
             Range(r) = Range(q) \ {i}, Noted(u) = Noted(m) \ {i},
             u.used = m.used, u.nlink = m.nlink, u.excess = m.excess,
             \A j \in Ino \ Range(r) : u.next[j] \notin Ino
      PROVE  ListSound(u, r)
  <2>1. \A j \in Range(q) \cup Noted(m) : meta.used[j]
    BY <1>1 DEF ListSound
  <2>2. \A j \in Ino : meta.used[j] /\ (meta.nlink[j] = 0 \/ meta.excess[j])
                         => j \in Range(q) \cup Noted(m)
    BY <1>1 DEF ListSound
  <2>3. Range(q) \subseteq Ino /\ Noted(m) \subseteq Ino
    BY <1>1, <1>3 DEF Range, Noted
  <2>4. \A j \in Range(r) \cup Noted(u) : u.used[j]
    BY <1>6, <2>1, <2>3
  <2>5. \A j \in Ino : u.used[j] /\ (u.nlink[j] = 0 \/ u.excess[j])
                         => j \in Range(r) \cup Noted(u)
    <3>1. ASSUME NEW j \in Ino, j # i, u.used[j] /\ (u.nlink[j] = 0 \/ u.excess[j])
          PROVE  j \in Range(r) \cup Noted(u)
      BY <1>6, <2>2, <3>1
    <3>2. u.used[i] => u.nlink[i] # 0 /\ ~u.excess[i]
      BY <1>6
    <3> QED
      BY <3>1, <3>2
  <2>6. \A j \in Ino : u.excess[j] => u.used[j]
    BY <1>1, <1>6 DEF ListSound
  <2> QED
    BY <1>1, <1>6, <2>4, <2>5, <2>6 DEF ListSound
<1>7. CASE i \in infile
  <2> DEFINE f == [s \in Slot |-> IF m.file[s] = i THEN NoIno ELSE m.file[s]]
  <2>1. u = [m EXCEPT !.file = f]
    BY <1>7 DEF Unlinked
  <2>2. f \in [Slot -> Ino \cup {NoIno}]
    BY <1>3
  <2>3. u \in Metadata /\ u.file = f /\ u.last = m.last /\ u.next = m.next
        /\ u.used = m.used /\ u.nlink = m.nlink /\ u.excess = m.excess
    BY <2>1, <2>2 DEF Metadata
  <2> HIDE DEF u
  <2>4. Noted(u) = Noted(m) \ {i}
    BY <1>2, <2>3, NotedUnless
  <2>5. i \notin Range(q) /\ i \notin Range(list)
    BY <1>1, <1>5, <1>7
  <2>6. list' = list
    BY <1>2, <1>4, <2>5
  <2>7. IsChain(u, q)
    BY <1>1, <2>3 DEF IsChain
  <2>8. ListSound(u, q) /\ u.next[i] \notin Ino
    BY <1>1, <1>6, <2>3, <2>4, <2>5, <2>7
  <2>9. ListKept(u, q, list', infile', todo.pc, todo.slots)
    <3>1. todo.pc = "mounted" => list' = q /\ infile' = Noted(u)
      BY <1>1, <1>2, <2>4, <2>6 DEF ListKept
    <3>2. todo.pc = "list" => infile' = {} /\ todo.slots = Slot /\ (list' = <<>> \/ (q # <<>> /\ list' = <<q[1]>>))
      BY <1>7, <1>2, <2>6 DEF ListKept
    <3>3. todo.pc = "file" => q = <<>> /\ list' = <<>> /\ infile' \subseteq Noted(u)
      BY <1>1, <1>2, <2>4, <2>6 DEF ListKept
    <3>4. todo.pc = "file" => \A s \in Slot \ todo.slots : u.file[s] \in infile' \cup {NoIno}
      BY <1>2, <2>3 DEF ListKept
    <3> QED
      BY <3>1, <3>2, <3>3, <3>4 DEF ListKept
  <2>10. infile' \cup Range(list') = Orphans \ {i}
    BY <1>2, <2>5, <2>6 DEF Orphans
  <2>11. \E r : ListSound(u, r) /\ ListKept(u, r, list', infile', todo.pc, todo.slots)
    BY <2>8, <2>9
  <2> QED
    BY <1>2, <2>3, <2>6, <2>8, <2>10, <2>11 DEF u
<1>8. CASE i \notin infile /\ i \in Range(list)
  <2> DEFINE n == Position(i)
  <2>1. n \in DOMAIN list /\ list[n] = i
    <3>1. \E k \in DOMAIN list : list[k] = i
      BY <1>8 DEF Range
    <3> QED
      BY <3>1 DEF Position
  <2>2. list' = RemoveAt(list, n)
    BY <1>2, <1>4, <1>8
  <2> HIDE DEF n
  <2>3. n \in DOMAIN q /\ q[n] = i /\ (todo.pc # "mounted" => n = 1)
        /\ (todo.pc = "mounted" \/ todo.pc = "list")
    <3>1. CASE todo.pc = "mounted"
      BY <2>1, <3>1 DEF ListKept
    <3>2. CASE todo.pc = "list"
      BY <1>1, <2>1, <3>2 DEF ListKept
    <3>3. todo.pc # "file"
      BY <1>8 DEF ListKept, Range
    <3> QED
      BY <3>1, <3>2, <3>3 DEF OrphanTypeOK
  <2> DEFINE r == RemoveAt(q, n)
  <2>4. u = IF n = 1 THEN [m EXCEPT !.last = m.next[i], !.next[i] = NoIno]
            ELSE [m EXCEPT !.next = [m.next EXCEPT ![q[n - 1]] = m.next[i], ![i] = NoIno]]
    <3>1. list[1] = i <=> n = 1
      <4>1. CASE todo.pc = "mounted"
        <5>1. 1 \in DOMAIN q
          BY <1>1, <2>3
        <5> QED
          BY <1>1, <2>3, <4>1, <5>1 DEF Distinct, ListKept
      <4>2. CASE todo.pc = "list"
        BY <2>1, <2>3, <4>2 DEF ListKept
      <4> QED
        BY <2>3, <4>1, <4>2
    <3>2. n # 1 => Before(i) = q[n - 1]
      BY <2>3 DEF Before, ListKept, n
    <3> QED
      BY <1>4, <1>8, <3>1, <3>2 DEF Unlinked
  <2>5. m.next[i] \in Ino \cup {NoIno}
    BY <1>1, <1>2, <2>3 DEF IsChain, Nth
  <2>6. n # 1 => n - 1 \in DOMAIN q /\ q[n - 1] \in Ino /\ q[n - 1] # i
    <3> SUFFICES ASSUME n # 1 PROVE n - 1 \in DOMAIN q /\ q[n - 1] \in Ino /\ q[n - 1] # i
      OBVIOUS
    <3>1. n - 1 \in DOMAIN q /\ n - 1 # n
      BY <1>1, <2>3
    <3> QED
      BY <1>1, <2>3, <3>1 DEF Distinct
  <2>7. /\ u.last = IF n = 1 THEN m.next[q[n]] ELSE m.last
        /\ u.next = IF n = 1 THEN [m.next EXCEPT ![q[n]] = NoIno]
                    ELSE [m.next EXCEPT ![q[n - 1]] = m.next[q[n]], ![q[n]] = NoIno]
        /\ u.file = m.file
        /\ u.used = m.used /\ u.nlink = m.nlink /\ u.excess = m.excess
        /\ u \in Metadata
    <3>1. CASE n = 1
      <4>1. u = [m EXCEPT !.last = m.next[i], !.next = [m.next EXCEPT ![i] = NoIno]]
        BY <2>4, <3>1
      <4>2. [m.next EXCEPT ![i] = NoIno] \in [Ino -> Ino \cup {NoIno, Dtime}]
        BY <1>3
      <4> QED
        BY <2>3, <2>5, <3>1, <4>1, <4>2 DEF Metadata
    <3>2. CASE n # 1
      <4> DEFINE w == [m.next EXCEPT ![q[n - 1]] = m.next[i], ![i] = NoIno]
      <4>1. u = [m EXCEPT !.next = w]
        BY <2>4, <3>2
      <4>2. w \in [Ino -> Ino \cup {NoIno, Dtime}]
        BY <1>3, <2>5, <2>6, <3>2
      <4>3. w = [m.next EXCEPT ![q[n - 1]] = m.next[q[n]], ![q[n]] = NoIno]
        BY <2>3
      <4> HIDE DEF w
      <4>4. u.next = w /\ u.last = m.last /\ u.file = m.file
            /\ u.used = m.used /\ u.nlink = m.nlink /\ u.excess = m.excess
            /\ u \in Metadata
        BY <4>1, <4>2 DEF Metadata
      <4> QED
        BY <3>2, <4>3, <4>4
    <3> QED
      BY <3>1, <3>2
  <2> HIDE DEF u
  <2>8. /\ r \in Seq(Ino) /\ Distinct(r) /\ IsChain(u, r)
        /\ Range(r) = Range(q) \ {i}
    <3>1. /\ RemoveAt(q, n) \in Seq(Ino) /\ Distinct(RemoveAt(q, n))
          /\ IsChain(u, RemoveAt(q, n))
          /\ Range(RemoveAt(q, n)) = Range(q) \ {q[n]}
      <4>1. q \in Seq(Ino) /\ Distinct(q) /\ IsChain(m, q) /\ n \in DOMAIN q
            /\ m.next \in [Ino -> Ino \cup {NoIno, Dtime}]
        BY <1>1, <1>3, <2>3
      <4>2. CutsOff(m, u, q, n)
        BY <2>7 DEF CutsOff
      <4> HIDE DEF r
      <4>3. RemoveAt(q, n) \in Seq(Ino) /\ Distinct(RemoveAt(q, n))
        BY <4>1, <4>2, ChainCut
      <4>4. IsChain(u, RemoveAt(q, n))
        BY <4>1, <4>2, ChainCut
      <4>5. Range(RemoveAt(q, n)) = Range(q) \ {q[n]}
        BY <4>1, <4>2, ChainCut
      <4> QED
        BY <4>3, <4>4, <4>5
    <3> QED
      BY <2>3, <3>1
  <2> HIDE DEF r
  <2>9. i \notin Noted(m) /\ Noted(u) = Noted(m)
    <3>1. i \in Range(q)
      BY <2>3 DEF Range
    <3>2. Noted(u) = Noted(m)
      BY <2>7 DEF Noted
    <3> QED
      BY <1>1, <3>1, <3>2
  <2>10. u.next[i] = NoIno
    BY <1>3, <2>3, <2>6, <2>7
  <2>11. \A j \in Ino \ Range(r) : u.next[j] \notin Ino
    <3> SUFFICES ASSUME NEW j \in Ino \ Range(r), j # i PROVE u.next[j] \notin Ino
      BY <1>2, <2>10
    <3>1. j \notin Range(q)
      BY <2>8
    <3>2. n # 1 => j # q[n - 1]
      BY <2>6, <3>1 DEF Range
    <3>3. u.next[j] = m.next[j]
      BY <1>3, <2>3, <2>7, <3>2
    <3> QED
      BY <1>1, <3>1, <3>3
  <2>12. ListSound(u, r)
    BY <1>6, <2>7, <2>8, <2>9, <2>11
  <2>13. infile' = infile
    BY <1>2, <1>8
  <2>14. CASE todo.pc = "mounted"
    <3>1. list' = r /\ infile' = Noted(u)
      BY <1>1, <2>2, <2>9, <2>13, <2>14 DEF r, ListKept
    <3>2. infile' \cup Range(list') = Orphans \ {i}
      BY <1>8, <2>3, <2>8, <2>13, <2>14, <3>1 DEF Orphans, ListKept
    <3>3. ListKept(u, r, list', infile', todo.pc, todo.slots)
      BY <2>14, <3>1 DEF ListKept
    <3>4. \E w : ListSound(u, w) /\ ListKept(u, w, list', infile', todo.pc, todo.slots)
      BY <2>12, <3>3
    <3>5. list' \in Seq(Ino) /\ infile' \in SUBSET Ino /\ u.next[i] \notin Ino
      BY <1>2, <2>8, <2>10, <3>1
    <3> QED
      BY <2>7, <3>2, <3>4, <3>5 DEF u
  <2>15. CASE todo.pc = "list"
    <3>1. Len(list) = 1 /\ n = 1 /\ infile = {}
      <4>1. list # <<>>
        BY <1>8 DEF Range
      <4>2. list = <<q[1]>> /\ infile = {}
        BY <2>15, <4>1 DEF ListKept
      <4> QED
        BY <2>3, <2>15, <4>2
    <3>2. list' \in Seq(Ino) /\ DOMAIN list' = 1..0
      BY <1>2, <2>1, <2>2, <3>1, RemoveAtIs
    <3>3. list' = <<>> /\ Range(list') = {}
      BY <3>2 DEF Range
    <3>4. infile' \cup Range(list') = Orphans \ {i}
      <4>1. Range(list) = {i}
        BY <2>1, <3>1 DEF Range
      <4> QED
        BY <2>13, <3>1, <3>3, <4>1 DEF Orphans
    <3>5. ListKept(u, r, list', infile', todo.pc, todo.slots)
      BY <2>13, <2>15, <3>1, <3>3 DEF ListKept
    <3>6. \E w : ListSound(u, w) /\ ListKept(u, w, list', infile', todo.pc, todo.slots)
      BY <2>12, <3>5
    <3>7. infile' \in SUBSET Ino /\ u.next[i] \notin Ino
      BY <1>2, <2>10
    <3> QED
      BY <2>7, <3>2, <3>4, <3>6, <3>7 DEF u
  <2> QED
    BY <2>3, <2>14, <2>15
<1>9. CASE i \notin infile /\ i \notin Range(list)
  <2>1. u = m /\ list' = list /\ infile' = infile /\ todo.pc = "mounted"
    BY <1>2, <1>4, <1>9 DEF Unlinked, Orphans
  <2>2. i \notin Range(q) /\ i \notin Noted(m)
    BY <1>1, <1>9, <2>1 DEF ListKept
  <2> HIDE DEF u
  <2>3. ListSound(u, q)
    BY <1>1, <1>6, <2>1, <2>2
  <2>4. ListKept(u, q, list', infile', todo.pc, todo.slots)
    BY <1>1, <2>1 DEF ListKept
  <2>5. infile' \cup Range(list') = Orphans \ {i} /\ u.next[i] \notin Ino
    BY <1>1, <1>9, <2>1, <2>2 DEF Orphans, ListKept
  <2>6. \E r : ListSound(u, r) /\ ListKept(u, r, list', infile', todo.pc, todo.slots)
    BY <2>3, <2>4
  <2>7. list' \in Seq(Ino) /\ infile' \in SUBSET Ino
    BY <1>2, <2>1
  <2> QED
    BY <2>1, <2>5, <2>6, <2>7 DEF u
<1> QED
  BY <1>7, <1>8, <1>9

(* ext5_orphan_add, for an inode that changes otherwise as it may.         *)
LEMMA AddKeeps ==
  ASSUME OrphanTypeOK, ListSound(meta, list), infile = Noted(meta),
         NEW i \in Ino, NEW m \in Metadata,
         m.last = meta.last, m.file = meta.file,
         \A j \in Ino \ {i} : /\ m.used[j] = meta.used[j]
                              /\ m.nlink[j] = meta.nlink[j]
                              /\ m.excess[j] = meta.excess[j]
                              /\ m.next[j] = meta.next[j],
         m.used[i], m.next[i] = meta.next[i] \/ (i \notin Orphans /\ m.next[i] = NoIno),
         OrphanAdd(m, i)
  PROVE  /\ meta' \in Metadata /\ meta'.nlink = m.nlink /\ meta'.excess = m.excess
         /\ list' \in Seq(Ino) /\ infile' \in SUBSET Ino
         /\ infile' \cup Range(list') = Orphans \cup {i}
         /\ ListSound(meta', list') /\ infile' = Noted(meta')
<1>1. /\ list \in Seq(Ino) /\ infile \subseteq Ino /\ NoIno \notin Ino /\ Dtime \notin Ino
      /\ NoIno # Dtime
  BY OrphanAssumption DEF OrphanTypeOK
<1>2. /\ m.next \in [Ino -> Ino \cup {NoIno, Dtime}]
      /\ m.file \in [Slot -> Ino \cup {NoIno}] /\ m.last \in Ino \cup {NoIno}
  BY DEF Metadata
<1>3. /\ Distinct(list) /\ IsChain(meta, list)
      /\ \A j \in Ino \ Range(list) : meta.next[j] \notin Ino
      /\ Range(list) \cap infile = {}
      /\ \A j \in Range(list) \cup infile : meta.used[j]
      /\ \A j \in Ino : meta.used[j] /\ (meta.nlink[j] = 0 \/ meta.excess[j])
                          => j \in Range(list) \cup infile
      /\ \A j \in Ino : meta.excess[j] => meta.used[j]
  BY DEF ListSound
<1>4. Range(list) \subseteq Ino /\ \A k \in DOMAIN list : list[k] \in Ino /\ list[k] \in Range(list)
  BY <1>1 DEF Range
<1>5. IsOrphan(i) <=> i \in Orphans
  BY <1>1 DEF IsOrphan, Contains, Orphans, Range
<1>6. IsChain(m, list)
  <2>1. \A k \in DOMAIN list : m.next[list[k]] = meta.next[list[k]]
    BY <1>4 DEF Orphans
  <2> QED
    BY <1>3, <2>1 DEF IsChain
<1>7. \A j \in Ino \ Range(list) : m.next[j] \notin Ino
  BY <1>1, <1>3
<1>8. /\ \A j \in Orphans \cup {i} : m.used[j]
      /\ \A j \in Ino : m.used[j] /\ (m.nlink[j] = 0 \/ m.excess[j]) => j \in Orphans \cup {i}
      /\ \A j \in Ino : m.excess[j] => m.used[j]
  <2>1. \A j \in Orphans \cup {i} : m.used[j]
    BY <1>1, <1>3, <1>4 DEF Orphans
  <2>2. \A j \in Ino : m.used[j] /\ (m.nlink[j] = 0 \/ m.excess[j]) => j \in Orphans \cup {i}
    BY <1>3 DEF Orphans
  <2>3. \A j \in Ino : m.excess[j] => m.used[j]
    BY <1>3
  <2> QED
    BY <2>1, <2>2, <2>3
<1>9. CASE IsOrphan(i)
  <2>1. meta' = m /\ list' = list /\ infile' = infile /\ i \in Orphans
    BY <1>5, <1>9 DEF OrphanAdd
  <2>2. Noted(m) = Noted(meta)
    BY DEF Noted
  <2>3. ListSound(m, list)
    BY <1>1, <1>3, <1>6, <1>7, <1>8, <2>1, <2>2 DEF ListSound, Orphans
  <2> QED
    BY <1>1, <2>1, <2>2, <2>3 DEF Orphans
<1>10. CASE ~IsOrphan(i) /\ FreeSlots(m) # {}
  <2>1. PICK s \in FreeSlots(m) : meta' = [m EXCEPT !.file[s] = i]
    BY <1>10 DEF OrphanAdd
  <2>2. infile' = infile \cup {i} /\ list' = list /\ i \notin Orphans
    BY <1>5, <1>10 DEF OrphanAdd
  <2>3. s \in Slot /\ m.file[s] = NoIno
    BY DEF FreeSlots
  <2> DEFINE f == [m.file EXCEPT ![s] = i]
  <2>4. f \in [Slot -> Ino \cup {NoIno}] /\ f[s] = i /\ \A t \in Slot \ {s} : f[t] = m.file[t]
    BY <1>2, <2>3
  <2> HIDE DEF f
  <2>5. meta' = [m EXCEPT !.file = f]
    BY <2>1 DEF f
  <2>6. /\ meta' \in Metadata /\ meta'.nlink = m.nlink /\ meta'.excess = m.excess
        /\ meta'.file = f /\ meta'.last = m.last /\ meta'.next = m.next
        /\ meta'.used = m.used
    BY <2>4, <2>5 DEF Metadata
  <2>7. Noted(meta') = infile \cup {i}
    <3>1. Noted(meta') = {f[t] : t \in Slot} \ {NoIno}
      BY <2>6 DEF Noted
    <3>2. infile = {m.file[t] : t \in Slot} \ {NoIno}
      BY DEF Noted
    <3> QED
      BY <1>1, <2>3, <2>4, <3>1, <3>2
  <2>8. IsChain(meta', list)
    BY <1>6, <2>6 DEF IsChain
  <2>9. ListSound(meta', list)
    BY <1>1, <1>3, <1>7, <1>8, <2>2, <2>6, <2>7, <2>8 DEF ListSound, Orphans
  <2> QED
    BY <1>1, <2>2, <2>6, <2>7, <2>9 DEF Orphans
<1>11. CASE ~IsOrphan(i) /\ FreeSlots(m) = {}
  <2>1. meta' = Chained(m, i) /\ list' = <<i>> \o list /\ infile' = infile
    BY <1>11 DEF OrphanAdd
  <2>2. i \notin Range(list) /\ i \notin infile
    BY <1>5, <1>11 DEF Orphans
  <2> DEFINE w == [m.next EXCEPT ![i] = m.last]
  <2>3. meta' = [m EXCEPT !.next = w, !.last = i]
    BY <1>7, <2>1, <2>2 DEF Chained, Head2
  <2>4. w \in [Ino -> Ino \cup {NoIno, Dtime}] /\ \A j \in Ino \ {i} : w[j] = m.next[j]
    BY <1>2
  <2> HIDE DEF w
  <2>5. /\ meta' \in Metadata /\ meta'.nlink = m.nlink /\ meta'.excess = m.excess
        /\ meta'.file = m.file /\ meta'.last = i /\ meta'.next = w
        /\ meta'.used = m.used
    BY <2>3, <2>4 DEF Metadata
  <2>6. Noted(meta') = infile
    BY <2>5 DEF Noted
  <2>7. /\ PushesOn(m, meta', i) /\ Distinct(list) /\ IsChain(m, list)
        /\ list \in Seq(Ino) /\ m.next \in [Ino -> Ino \cup {NoIno, Dtime}]
    BY <1>1, <1>2, <1>3, <1>6, <2>5 DEF w, PushesOn
  <2>8. list' \in Seq(Ino) /\ Distinct(list')
    BY <2>1, <2>2, <2>7, ChainPush
  <2>9. IsChain(meta', list')
    BY <2>1, <2>2, <2>7, ChainPush
  <2>10. Range(list') = Range(list) \cup {i}
    <3>1. Range(<<i>> \o list) = Range(list) \cup {i}
      BY <2>7, RangeOfPush
    <3> QED
      BY <2>1, <3>1
  <2>11. \A j \in Ino \ Range(list') : meta'.next[j] \notin Ino
    BY <1>7, <2>4, <2>5, <2>10
  <2>12. ListSound(meta', list')
    BY <1>3, <1>8, <2>2, <2>5, <2>6, <2>8, <2>9, <2>10, <2>11 DEF ListSound, Orphans
  <2> QED
    BY <1>1, <2>1, <2>5, <2>6, <2>8, <2>10, <2>12 DEF Orphans
<1> QED
  BY <1>9, <1>10, <1>11

-----------------------------------------------------------------------------
(* The step of an operation that puts an inode on the list.                *)
LEMMA AddStep ==
  ASSUME OrphanIInv, ~left, Mounted, UNCHANGED <<durable, todo, left>>,
         NEW i \in Ino, NEW m \in Metadata,
         m.last = meta.last, m.file = meta.file,
         \A j \in Ino \ {i} : /\ m.used[j] = meta.used[j]
                              /\ m.nlink[j] = meta.nlink[j]
                              /\ m.excess[j] = meta.excess[j]
                              /\ m.next[j] = meta.next[j],
         m.used[i], m.next[i] = meta.next[i] \/ (i \notin Orphans /\ m.next[i] = NoIno),
         OrphanAdd(m, i),
         doing' \in [Ino -> {"none", "truncate", "evict"}],
         \A j \in Ino \ {i} : doing'[j] = doing[j],
         doing'[i] = "truncate" => m.nlink[i] = 1,
         m.excess[i] => doing'[i] # "none"
  PROVE  OrphanIInv'
<1>1. /\ OrphanTypeOK /\ DoingHeld /\ todo.pc = "mounted"
      /\ (\E q : ListSound(durable, q)) /\ ListSound(meta, list) /\ infile = Noted(meta)
  <2>1. PICK q : ListSound(meta, q) /\ ListKept(meta, q, list, infile, todo.pc, todo.slots)
    BY DEF OrphanIInv
  <2>2. list = q /\ infile = Noted(meta)
    BY <2>1 DEF ListKept, Mounted
  <2> QED
    BY <2>1, <2>2 DEF OrphanIInv, Mounted
<1>2. meta' \in Metadata /\ meta'.nlink = m.nlink /\ meta'.excess = m.excess
  BY <1>1, AddKeeps
<1>3. list' \in Seq(Ino) /\ infile' \in SUBSET Ino
  BY <1>1, AddKeeps
<1>4. infile' \cup Range(list') = Orphans \cup {i}
  BY <1>1, AddKeeps
<1>5. ListSound(meta', list') /\ infile' = Noted(meta')
  BY <1>1, AddKeeps
<1>6. OrphanTypeOK'
  BY <1>1, <1>2, <1>3 DEF OrphanTypeOK
<1>7. DoingHeld'
  <2>1. Orphans' = Orphans \cup {i}
    BY <1>4 DEF Orphans
  <2>2. \A j \in Ino : doing'[j] # "none" => j \in Orphans'
    BY <1>1, <2>1 DEF DoingHeld
  <2>3. \A j \in Ino : doing'[j] = "truncate" => meta'.nlink[j] = 1
    BY <1>1, <1>2 DEF DoingHeld
  <2>4. \A j \in Ino : meta'.excess[j] => doing'[j] # "none"
    BY <1>1, <1>2 DEF DoingHeld
  <2> QED
    BY <1>1, <2>2, <2>3, <2>4 DEF DoingHeld
<1>8. \E q : ListSound(meta', q) /\ ListKept(meta', q, list', infile', todo'.pc, todo'.slots)
  <2>1. ListKept(meta', list', list', infile', todo'.pc, todo'.slots)
    BY <1>1, <1>5 DEF ListKept
  <2> QED
    BY <1>5, <2>1
<1>9. \E q : ListSound(durable', q)
  BY <1>1
<1> QED
  BY <1>6, <1>7, <1>8, <1>9 DEF OrphanIInv

(* The step of one that takes an inode off it.                             *)
LEMMA DropStep ==
  ASSUME OrphanIInv, ~left, UNCHANGED <<durable, todo, left>>,
         NEW i \in Ino, NEW m \in Metadata,
         m.last = meta.last, m.file = meta.file, m.next = meta.next,
         \A j \in Ino \ {i} : /\ m.used[j] = meta.used[j]
                              /\ m.nlink[j] = meta.nlink[j]
                              /\ m.excess[j] = meta.excess[j],
         ~m.excess[i], m.used[i] => m.nlink[i] = 1,
         DropOrphan(i), i \in Orphans \/ todo.pc = "mounted",
         \/ meta' = Unlinked(m, i)
         \/ ~m.used[i] /\ meta' = [Unlinked(m, i) EXCEPT !.next[i] = Dtime],
         doing' = [doing EXCEPT ![i] = "none"]
  PROVE  OrphanIInv'
<1>1. OrphanTypeOK /\ DoingHeld /\ (\E q : ListSound(durable, q))
  BY DEF OrphanIInv
<1>2. PICK q : ListSound(meta, q) /\ ListKept(meta, q, list, infile, todo.pc, todo.slots)
  BY DEF OrphanIInv
<1>3. /\ todo.pc # "mounted" => \A j \in Orphans : doing[j] # "none"
      /\ \A j \in Ino : doing[j] # "none" => j \in Orphans
  BY <1>1 DEF DoingHeld
<1> DEFINE u == Unlinked(m, i)
<1>4. u \in Metadata /\ u.used = m.used /\ u.nlink = m.nlink /\ u.excess = m.excess
  BY <1>1, <1>2, <1>3, UnlinkKeeps
<1>5. u.next[i] \notin Ino
  BY <1>1, <1>2, <1>3, UnlinkKeeps
<1>6. list' \in Seq(Ino) /\ infile' \in SUBSET Ino
  BY <1>1, <1>2, <1>3, UnlinkKeeps
<1>7. infile' \cup Range(list') = Orphans \ {i}
  BY <1>1, <1>2, <1>3, UnlinkKeeps
<1>8. \E r : ListSound(u, r) /\ ListKept(u, r, list', infile', todo.pc, todo.slots)
  BY <1>1, <1>2, <1>3, UnlinkKeeps
<1>9. \/ meta' = u
      \/ ~m.used[i] /\ meta' = [u EXCEPT !.next[i] = Dtime]
  OBVIOUS
<1> HIDE DEF u
<1>10. PICK r : ListSound(u, r) /\ ListKept(u, r, list', infile', todo.pc, todo.slots)
  BY <1>8
<1>11. /\ meta' \in Metadata /\ meta'.used = u.used /\ meta'.nlink = u.nlink
       /\ meta'.excess = u.excess /\ meta'.last = u.last /\ meta'.file = u.file
       /\ \A j \in Ino \ {i} : meta'.next[j] = u.next[j]
       /\ meta' # u => ~u.used[i] /\ meta'.next[i] = Dtime
  <2>1. CASE meta' = u
    BY <1>4, <2>1
  <2>2. CASE ~m.used[i] /\ meta' = [u EXCEPT !.next[i] = Dtime]
    <3> DEFINE w == [u.next EXCEPT ![i] = Dtime]
    <3>1. u.next \in [Ino -> Ino \cup {NoIno, Dtime}]
      BY <1>4 DEF Metadata
    <3>2. /\ w \in [Ino -> Ino \cup {NoIno, Dtime}] /\ w[i] = Dtime
          /\ \A j \in Ino \ {i} : w[j] = u.next[j]
      BY <3>1
    <3>3. meta' = [u EXCEPT !.next = w]
      BY <2>2
    <3> HIDE DEF w
    <3> QED
      BY <1>4, <2>2, <3>2, <3>3 DEF Metadata
  <2> QED
    BY <1>9, <2>1, <2>2
<1>12. ListSound(meta', r)
  <2>1. CASE meta' = u
    BY <1>10, <2>1
  <2>2. CASE meta' # u
    <3>1. i \notin Range(r) /\ meta'.next[i] = Dtime
      BY <1>10, <1>11, <2>2 DEF ListSound
    <3>2. r \in Seq(Ino) /\ \A k \in DOMAIN r : r[k] \in Ino \ {i}
      BY <1>10, <3>1 DEF ListSound, Range
    <3>3. IsChain(meta', r)
      BY <1>10, <1>11, <3>2 DEF ListSound, IsChain
    <3>4. \A j \in Ino \ Range(r) : meta'.next[j] \notin Ino
      BY <1>10, <1>11, <3>1, OrphanAssumption DEF ListSound
    <3>5. Noted(meta') = Noted(u)
      BY <1>11 DEF Noted
    <3> QED
      BY <1>10, <1>11, <3>3, <3>4, <3>5 DEF ListSound
  <2> QED
    BY <2>1, <2>2
<1>13. ListKept(meta', r, list', infile', todo'.pc, todo'.slots)
  <2>1. Noted(meta') = Noted(u) /\ meta'.file = u.file
    BY <1>11 DEF Noted
  <2> QED
    BY <1>10, <2>1 DEF ListKept
<1>14. OrphanTypeOK'
  BY <1>1, <1>6, <1>11 DEF OrphanTypeOK
<1>15. DoingHeld'
  <2>1. Orphans' = Orphans \ {i}
    BY <1>7 DEF Orphans
  <2>2. doing'[i] = "none" /\ \A j \in Ino \ {i} : doing'[j] = doing[j]
    BY <1>1 DEF OrphanTypeOK
  <2>3. Orphans' \subseteq Ino
    BY <1>6, <1>7 DEF Orphans, OrphanTypeOK, Range
  <2>4. todo'.pc # "mounted" => \A j \in Orphans' : doing'[j] # "none"
    BY <1>1, <2>1, <2>2, <2>3 DEF DoingHeld
  <2>5. \A j \in Ino : doing'[j] # "none" => j \in Orphans'
    BY <1>1, <2>1, <2>2 DEF DoingHeld
  <2>6. \A j \in Ino : doing'[j] = "truncate" => meta'.nlink[j] = 1
    BY <1>1, <1>4, <1>11, <2>2 DEF DoingHeld
  <2>7. todo'.pc = "mounted" => \A j \in Ino : meta'.excess[j] => doing'[j] # "none"
    BY <1>1, <1>4, <1>11, <2>2 DEF DoingHeld
  <2> QED
    BY <2>4, <2>5, <2>6, <2>7 DEF DoingHeld
<1>16. \E w : ListSound(meta', w) /\ ListKept(meta', w, list', infile', todo'.pc, todo'.slots)
  BY <1>12, <1>13
<1>17. \E w : ListSound(durable', w)
  BY <1>1
<1> QED
  BY <1>14, <1>15, <1>16, <1>17 DEF OrphanIInv

-----------------------------------------------------------------------------
(* A fresh file system has no orphans.                                     *)
LEMMA OrphanInitOK == OrphanInit => OrphanIInv
<1> SUFFICES ASSUME OrphanInit PROVE OrphanIInv
  OBVIOUS
<1>1. /\ meta = Fresh0 /\ durable = Fresh0 /\ list = <<>> /\ infile = {}
      /\ doing = [i \in Ino |-> "none"] /\ todo = [pc |-> "mounted", slots |-> {}]
  BY DEF OrphanInit
<1>2. /\ Fresh0 \in Metadata /\ Noted(Fresh0) = {} /\ Fresh0.last = NoIno
      /\ \A i \in Ino : Fresh0.next[i] = NoIno /\ ~Fresh0.used[i] /\ ~Fresh0.excess[i]
  BY DEF Fresh0, Metadata, Noted
<1>3. <<>> \in Seq(Ino) /\ Range(<<>>) = {} /\ DOMAIN <<>> = {}
  BY DEF Range
<1>4. ListSound(Fresh0, <<>>)
  BY <1>2, <1>3, OrphanAssumption DEF ListSound, Distinct, IsChain, Nth
<1>5. ListKept(meta, <<>>, list, infile, todo.pc, todo.slots)
  BY <1>1, <1>2 DEF ListKept
<1>6. OrphanTypeOK
  BY <1>1, <1>2, <1>3 DEF OrphanTypeOK
<1>7. DoingHeld
  BY <1>1, <1>2, <1>3 DEF DoingHeld, Orphans
<1>8. \E q : ListSound(meta, q) /\ ListKept(meta, q, list, infile, todo.pc, todo.slots)
  BY <1>1, <1>4, <1>5
<1>9. \E q : ListSound(durable, q)
  BY <1>1, <1>4
<1> QED
  BY <1>6, <1>7, <1>8, <1>9 DEF OrphanIInv

-----------------------------------------------------------------------------
(* Every handle, commit, crash and step of a mount keeps the invariant.    *)
LEMMA OrphanStepOK == OrphanIInv /\ [OrphanNext]_orphanVars => OrphanIInv'
<1> SUFFICES ASSUME OrphanIInv, [OrphanNext]_orphanVars, ~left' PROVE OrphanIInv'
  BY DEF OrphanIInv
<1>1. ~left
  BY DEF OrphanNext, orphanVars, Create, Link, Unlink, Shrink, Truncate, TruncateFails,
         EvictBegin, EvictEnd, MakeDurable, OrphanCrash, CleanHead, CleanDone, CleanSlot
<1>2. OrphanTypeOK /\ DoingHeld /\ (\E q : ListSound(durable, q))
  BY <1>1 DEF OrphanIInv
<1>3. PICK q : ListSound(meta, q) /\ ListKept(meta, q, list, infile, todo.pc, todo.slots)
  BY <1>1 DEF OrphanIInv
<1>4. /\ meta \in Metadata /\ list \in Seq(Ino) /\ infile \subseteq Ino
      /\ doing \in [Ino -> {"none", "truncate", "evict"}]
  BY <1>2 DEF OrphanTypeOK
<1>5. ASSUME ~Busy, todo.pc # "mounted"
      PROVE  Orphans = {} /\ list = <<>> /\ infile = {}
  <2>1. Orphans \subseteq Ino
    BY <1>4 DEF Orphans, Range
  <2>2. Orphans = {}
    BY <1>2, <1>5, <2>1 DEF Busy, DoingHeld
  <2>3. list = <<>>
    <3>1. Range(list) = {}
      BY <2>2 DEF Orphans
    <3>2. list # <<>> => 1 \in DOMAIN list
      BY <1>4
    <3> QED
      BY <3>1, <3>2 DEF Range
  <2> QED
    BY <2>2, <2>3 DEF Orphans
<1>6. ASSUME NEW i \in Ino, Create(i) PROVE OrphanIInv'
  <2> DEFINE made == [meta EXCEPT !.used[i] = TRUE, !.next[i] = NoIno]
  <2>1. /\ todo.pc = "mounted" /\ doing[i] = "none" /\ ~meta.used[i]
        /\ UNCHANGED <<durable, doing, todo, left>>
    BY <1>6 DEF Create, Mounted
  <2>2. list = q /\ infile = Noted(meta)
    BY <1>3, <2>1 DEF ListKept
  <2>3. ~meta.excess[i] /\ i \notin Orphans
    BY <1>2, <1>3, <2>1, <2>2 DEF ListSound, Orphans
  <2>4. CASE meta' = [made EXCEPT !.nlink[i] = 1] /\ UNCHANGED <<list, infile>>
    <3>1. /\ meta' \in Metadata /\ meta'.last = meta.last /\ meta'.file = meta.file
          /\ meta'.excess = meta.excess
          /\ meta'.used[i] /\ meta'.nlink[i] = 1 /\ meta'.next[i] = NoIno
      BY <1>4, <2>4 DEF Metadata
    <3>2. \A j \in Ino \ {i} : /\ meta'.used[j] = meta.used[j]
                                /\ meta'.nlink[j] = meta.nlink[j]
                                /\ meta'.next[j] = meta.next[j]
      BY <1>4, <2>4 DEF Metadata
    <3> HIDE DEF made
    <3>3. Noted(meta') = Noted(meta)
      BY <3>1 DEF Noted
    <3>4. i \notin Range(q) /\ q \in Seq(Ino) /\ \A k \in DOMAIN q : q[k] \in Ino \ {i}
      BY <1>3, <2>2, <2>3 DEF Orphans, ListSound, Range
    <3>5. IsChain(meta', q)
      BY <1>3, <3>1, <3>2, <3>4 DEF ListSound, IsChain
    <3>6. \A j \in Ino \ Range(q) : meta'.next[j] \notin Ino
      BY <1>3, <3>1, <3>2, OrphanAssumption DEF ListSound
    <3>7. /\ \A j \in Range(q) \cup Noted(meta') : meta'.used[j]
          /\ \A j \in Ino : meta'.excess[j] => meta'.used[j]
      <4>1. Range(q) \cup Noted(meta) \subseteq Ino
        BY <1>4, <3>4 DEF Metadata, Noted, Range
      <4> QED
        BY <1>3, <3>1, <3>2, <3>3, <4>1 DEF ListSound
    <3>8. \A j \in Ino : meta'.used[j] /\ (meta'.nlink[j] = 0 \/ meta'.excess[j])
                           => j \in Range(q) \cup Noted(meta')
      BY <1>3, <2>3, <3>1, <3>2, <3>3 DEF ListSound
    <3>9. ListSound(meta', q)
      BY <1>3, <3>3, <3>4, <3>5, <3>6, <3>7, <3>8 DEF ListSound
    <3>10. ListKept(meta', q, list', infile', todo'.pc, todo'.slots)
      BY <2>1, <2>2, <2>4, <3>3 DEF ListKept
    <3>11. OrphanTypeOK'
      BY <1>2, <2>1, <2>4, <3>1 DEF OrphanTypeOK
    <3>12. Orphans' = Orphans
      BY <2>4 DEF Orphans
    <3>13. DoingHeld'
      BY <1>2, <2>1, <3>1, <3>2, <3>12 DEF DoingHeld
    <3>14. \E w : ListSound(meta', w) /\ ListKept(meta', w, list', infile', todo'.pc, todo'.slots)
      BY <3>9, <3>10
    <3>15. \E w : ListSound(durable', w)
      BY <1>2, <2>1
    <3> QED
      BY <3>11, <3>13, <3>14, <3>15 DEF OrphanIInv
  <2>5. CASE OrphanAdd([made EXCEPT !.nlink[i] = 0], i)
    <3> DEFINE m == [made EXCEPT !.nlink[i] = 0]
    <3>1. /\ m \in Metadata /\ m.last = meta.last /\ m.file = meta.file
          /\ m.excess = meta.excess /\ m.used[i] /\ m.next[i] = NoIno
      BY <1>4 DEF Metadata
    <3>2. \A j \in Ino \ {i} : /\ m.used[j] = meta.used[j]
                                /\ m.nlink[j] = meta.nlink[j]
                                /\ m.next[j] = meta.next[j]
      BY <1>4 DEF Metadata
    <3>3. OrphanAdd(m, i)
      BY <2>5
    <3> HIDE DEF m
    <3> QED
      BY <1>1, <1>4, <2>1, <2>3, <3>1, <3>2, <3>3, AddStep DEF Mounted
  <2> QED
    BY <1>6, <2>4, <2>5 DEF Create
<1>7. ASSUME NEW i \in Ino, Link(i) PROVE OrphanIInv'
  <2> DEFINE m == [meta EXCEPT !.nlink[i] = 1]
  <2>1. /\ m \in Metadata /\ m.last = meta.last /\ m.file = meta.file /\ m.next = meta.next
        /\ m.excess = meta.excess /\ m.used = meta.used /\ m.nlink[i] = 1
        /\ \A j \in Ino \ {i} : m.nlink[j] = meta.nlink[j]
    BY <1>4 DEF Metadata
  <2>2. /\ todo.pc = "mounted" /\ doing[i] = "none" /\ DropOrphan(i)
        /\ UNCHANGED <<durable, doing, todo, left>> /\ meta' = Unlinked(m, i)
    BY <1>7 DEF Link, Quiet, Mounted
  <2>3. ~m.excess[i] /\ doing' = [doing EXCEPT ![i] = "none"]
    BY <1>2, <1>4, <2>1, <2>2 DEF DoingHeld
  <2> HIDE DEF m
  <2> QED
    BY <1>1, <2>1, <2>2, <2>3, DropStep
<1>8. ASSUME NEW i \in Ino, Unlink(i) PROVE OrphanIInv'
  <2> DEFINE m == [meta EXCEPT !.nlink[i] = 0]
  <2>1. /\ m \in Metadata /\ m.last = meta.last /\ m.file = meta.file /\ m.next = meta.next
        /\ m.excess = meta.excess /\ m.used = meta.used
        /\ \A j \in Ino \ {i} : m.nlink[j] = meta.nlink[j]
    BY <1>4 DEF Metadata
  <2>2. /\ Mounted /\ doing[i] = "none" /\ OrphanAdd(m, i) /\ meta.used[i]
        /\ UNCHANGED <<durable, doing, todo, left>>
    BY <1>8 DEF Unlink, Quiet
  <2>3. ~m.excess[i]
    BY <1>2, <2>1, <2>2 DEF DoingHeld, Mounted
  <2> HIDE DEF m
  <2> QED
    BY <1>1, <1>4, <2>1, <2>2, <2>3, AddStep
<1>9. ASSUME NEW i \in Ino, Shrink(i) \/ EvictBegin(i) PROVE OrphanIInv'
  <2> DEFINE m == [meta EXCEPT !.excess[i] = TRUE]
  <2>1. /\ m \in Metadata /\ m.last = meta.last /\ m.file = meta.file /\ m.next = meta.next
        /\ m.nlink = meta.nlink /\ m.used = meta.used
        /\ \A j \in Ino \ {i} : m.excess[j] = meta.excess[j]
    BY <1>4 DEF Metadata
  <2>2. /\ Mounted /\ OrphanAdd(m, i) /\ meta.used[i] /\ UNCHANGED <<durable, todo, left>>
    BY <1>9 DEF Shrink, EvictBegin, Quiet
  <2>3. PICK what \in {"truncate", "evict"} :
          doing' = [doing EXCEPT ![i] = what] /\ (what = "truncate" => meta.nlink[i] = 1)
    BY <1>9 DEF Shrink, EvictBegin
  <2>4. /\ doing' \in [Ino -> {"none", "truncate", "evict"}] /\ doing'[i] = what
        /\ \A j \in Ino \ {i} : doing'[j] = doing[j]
    BY <1>4, <2>3
  <2> HIDE DEF m
  <2> QED
    BY <1>1, <2>1, <2>2, <2>3, <2>4, AddStep
<1>10. ASSUME NEW i \in Ino, Truncate(i) PROVE OrphanIInv'
  <2> DEFINE m == [meta EXCEPT !.excess[i] = FALSE]
  <2>1. /\ m \in Metadata /\ m.last = meta.last /\ m.file = meta.file /\ m.next = meta.next
        /\ m.nlink = meta.nlink /\ m.used = meta.used /\ ~m.excess[i]
        /\ \A j \in Ino \ {i} : m.excess[j] = meta.excess[j]
    BY <1>4 DEF Metadata
  <2>2. /\ doing[i] = "truncate" /\ DropOrphan(i) /\ meta' = Unlinked(m, i)
        /\ doing' = [doing EXCEPT ![i] = "none"] /\ UNCHANGED <<durable, todo, left>>
    BY <1>10 DEF Truncate
  <2>3. m.nlink[i] = 1 /\ i \in Orphans
    BY <1>2, <2>1, <2>2 DEF DoingHeld
  <2> HIDE DEF m
  <2> QED
    BY <1>1, <2>1, <2>2, <2>3, DropStep
<1>11. ASSUME NEW i \in Ino, TruncateFails(i) PROVE OrphanIInv'
  BY <1>11 DEF TruncateFails
<1>12. ASSUME NEW i \in Ino, EvictEnd(i) PROVE OrphanIInv'
  <2> DEFINE m == [meta EXCEPT !.excess[i] = FALSE, !.used[i] = FALSE]
  <2>1. /\ m \in Metadata /\ m.last = meta.last /\ m.file = meta.file /\ m.next = meta.next
        /\ m.nlink = meta.nlink /\ ~m.excess[i] /\ ~m.used[i]
        /\ \A j \in Ino \ {i} : m.excess[j] = meta.excess[j] /\ m.used[j] = meta.used[j]
    BY <1>4 DEF Metadata
  <2>2. /\ doing[i] = "evict" /\ DropOrphan(i)
        /\ meta' = [Unlinked(m, i) EXCEPT !.next[i] = Dtime]
        /\ doing' = [doing EXCEPT ![i] = "none"] /\ UNCHANGED <<durable, todo, left>>
    BY <1>12 DEF EvictEnd
  <2>3. i \in Orphans
    BY <1>2, <2>2 DEF DoingHeld
  <2> HIDE DEF m
  <2> QED
    BY <1>1, <2>1, <2>2, <2>3, DropStep
<1>13. CASE MakeDurable
  <2>1. durable' = meta /\ UNCHANGED <<meta, list, infile, doing, todo, left, ops>>
    BY <1>13 DEF MakeDurable
  <2>2. OrphanTypeOK'
    BY <1>2, <2>1 DEF OrphanTypeOK
  <2>3. DoingHeld'
    BY <1>2, <2>1 DEF DoingHeld, Orphans
  <2>4. \E w : ListSound(durable', w)
    BY <1>3, <2>1
  <2>5. \E w : ListSound(meta', w) /\ ListKept(meta', w, list', infile', todo'.pc, todo'.slots)
    BY <1>3, <2>1
  <2> QED
    BY <2>2, <2>3, <2>4, <2>5 DEF OrphanIInv
<1>14. CASE OrphanCrash
  <2>1. /\ meta' = durable /\ durable' = durable /\ list' = <<>> /\ infile' = {}
        /\ doing' = [i \in Ino |-> "none"] /\ todo' = [pc |-> "list", slots |-> Slot]
    BY <1>14 DEF OrphanCrash
  <2>2. OrphanTypeOK'
    BY <1>2, <2>1 DEF OrphanTypeOK
  <2>3. Orphans' = {}
    BY <2>1 DEF Orphans, Range
  <2>4. DoingHeld'
    BY <2>1, <2>3 DEF DoingHeld
  <2>5. PICK w : ListSound(durable, w)
    BY <1>2
  <2>6. ListKept(meta', w, list', infile', todo'.pc, todo'.slots)
    BY <2>1 DEF ListKept
  <2>7. \E r : ListSound(meta', r) /\ ListKept(meta', r, list', infile', todo'.pc, todo'.slots)
    BY <2>1, <2>5, <2>6
  <2>8. \E r : ListSound(durable', r)
    BY <2>1, <2>5
  <2> QED
    BY <2>2, <2>4, <2>7, <2>8 DEF OrphanIInv

<1>15. CASE CleanHead
  <2> DEFINE i == meta.last
  <2>1. /\ todo.pc = "list" /\ list = <<>> /\ infile = {} /\ UNCHANGED <<durable, infile, left>>
        /\ todo.slots = Slot
    BY <1>3, <1>5, <1>15 DEF CleanHead, ListKept
  <2>2. \E w : ListSound(durable', w)
    BY <1>2, <2>1
  <2>3. i \in Ino <=> q # <<>> /\ i = q[1]
    <3>1. q \in Seq(Ino) /\ i = Nth(q, 1)
      BY <1>3 DEF ListSound, IsChain
    <3>2. 1 \in DOMAIN q <=> q # <<>>
      BY <3>1
    <3> QED
      BY <3>1, <3>2, OrphanAssumption DEF Nth
  <2>4. CASE i \in Ino /\ meta.used[i]
    <3>1. list' = <<i>> /\ Process(i) /\ UNCHANGED <<meta, todo>>
      BY <1>15, <2>1, <2>4 DEF CleanHead
    <3>2. PICK what \in {"truncate", "evict"} :
            doing' = [doing EXCEPT ![i] = what] /\ (what = "truncate" => meta.nlink[i] = 1)
      <4>1. meta.nlink[i] \in {0, 1}
        BY <1>4, <2>4 DEF Metadata
      <4> QED
        BY <3>1, <4>1 DEF Process
    <3>3. /\ doing' \in [Ino -> {"none", "truncate", "evict"}] /\ doing'[i] = what
          /\ \A j \in Ino \ {i} : doing'[j] = doing[j]
      BY <1>4, <2>4, <3>2
    <3>4. list' \in Seq(Ino) /\ Orphans' = {i}
      BY <2>1, <2>4, <3>1 DEF Orphans, Range
    <3>5. OrphanTypeOK'
      BY <1>2, <2>1, <3>1, <3>3, <3>4 DEF OrphanTypeOK
    <3>6. DoingHeld'
      <4>1. \A j \in Ino : doing[j] = "none"
        BY <1>15 DEF CleanHead, Busy
      <4> HIDE DEF i
      <4> QED
        BY <2>1, <3>1, <3>2, <3>3, <3>4, <4>1 DEF DoingHeld
    <3>7. ListKept(meta', q, list', infile', todo'.pc, todo'.slots)
      BY <1>3, <2>1, <2>3, <2>4, <3>1 DEF ListKept
    <3>8. \E w : ListSound(meta', w) /\ ListKept(meta', w, list', infile', todo'.pc, todo'.slots)
      BY <1>3, <3>1, <3>7
    <3> QED
      BY <2>2, <3>5, <3>6, <3>8 DEF OrphanIInv
  <2>5. CASE ~(i \in Ino /\ meta.used[i])
    <3>1. /\ meta' = [meta EXCEPT !.last = NoIno]
          /\ todo' = [todo EXCEPT !.pc = "file"] /\ UNCHANGED <<list, doing>>
      BY <1>15, <2>5 DEF CleanHead
    <3>2. q = <<>>
      <4>1. q # <<>> => q[1] \in Range(q)
        BY <1>3 DEF ListSound, Range
      <4>2. q # <<>> => q[1] \in Ino
        BY <1>3 DEF ListSound
      <4>3. q # <<>> => i = q[1]
        BY <1>3 DEF ListSound, IsChain, Nth
      <4> QED
        BY <1>3, <2>3, <2>5, <4>1, <4>2, <4>3 DEF ListSound
    <3>3. meta.last = NoIno
      BY <1>3, <3>2 DEF ListSound, IsChain, Nth
    <3>4. meta' = meta
      BY <1>4, <3>1, <3>3 DEF Metadata
    <3>5. todo'.pc = "file" /\ todo'.slots = Slot
          /\ todo' \in [pc : {"list", "file", "mounted"}, slots : SUBSET Slot]
      BY <1>2, <2>1, <3>1 DEF OrphanTypeOK
    <3>6. OrphanTypeOK'
      BY <1>2, <2>1, <3>1, <3>4, <3>5 DEF OrphanTypeOK
    <3>7. Orphans' = Orphans
      BY <2>1, <3>1 DEF Orphans
    <3>8. DoingHeld'
      BY <1>2, <2>1, <3>1, <3>4, <3>5, <3>7 DEF DoingHeld
    <3>9. ListKept(meta', q, list', infile', todo'.pc, todo'.slots)
      BY <2>1, <3>1, <3>2, <3>5 DEF ListKept
    <3>10. \E w : ListSound(meta', w) /\ ListKept(meta', w, list', infile', todo'.pc, todo'.slots)
      BY <1>3, <3>4, <3>9
    <3> QED
      BY <2>2, <3>6, <3>8, <3>10 DEF OrphanIInv
  <2> QED
    BY <2>4, <2>5
<1>16. ASSUME NEW s \in Slot, CleanSlot(s) PROVE OrphanIInv'
  <2> DEFINE i == meta.file[s]
  <2>1. /\ todo.pc = "file" /\ q = <<>> /\ list = <<>> /\ infile = {} /\ Orphans = {}
        /\ UNCHANGED <<meta, durable, list, left>> /\ todo.slots \subseteq Slot
        /\ \A t \in Slot \ todo.slots : meta.file[t] \in infile \cup {NoIno}
    BY <1>2, <1>3, <1>5, <1>16 DEF CleanSlot, ListKept, OrphanTypeOK
  <2>2. /\ todo'.pc = "file" /\ todo'.slots = todo.slots \ {s}
        /\ todo' \in [pc : {"list", "file", "mounted"}, slots : SUBSET Slot]
    BY <1>2, <1>16, <2>1 DEF CleanSlot, OrphanTypeOK
  <2>3. \E w : ListSound(durable', w)
    BY <1>2, <2>1
  <2>4. i \in Ino \cup {NoIno}
    BY <1>4 DEF Metadata
  <2>5. \A j \in Ino : doing[j] = "none"
    BY <1>16 DEF CleanSlot, Busy
  <2>6. CASE i # NoIno
    <3>1. i \in Ino /\ i \in Noted(meta)
      BY <2>4, <2>6 DEF Noted
    <3>2. meta.used[i]
      BY <1>3, <3>1 DEF ListSound
    <3>3. infile' = {i} /\ Process(i)
      BY <1>16, <2>1, <2>6, <3>2 DEF CleanSlot
    <3>4. PICK what \in {"truncate", "evict"} :
            doing' = [doing EXCEPT ![i] = what] /\ (what = "truncate" => meta.nlink[i] = 1)
      <4>1. meta.nlink[i] \in {0, 1}
        BY <1>4, <3>1 DEF Metadata
      <4> QED
        BY <3>3, <4>1 DEF Process
    <3>5. /\ doing' \in [Ino -> {"none", "truncate", "evict"}] /\ doing'[i] = what
          /\ \A j \in Ino \ {i} : doing'[j] = doing[j]
      BY <1>4, <3>1, <3>4
    <3>6. Orphans' = {i}
      BY <2>1, <3>3 DEF Orphans, Range
    <3>7. OrphanTypeOK'
      BY <1>2, <2>1, <2>2, <3>1, <3>3, <3>5 DEF OrphanTypeOK
    <3>8. ListKept(meta', q, list', infile', todo'.pc, todo'.slots)
      BY <2>1, <2>2, <3>1, <3>3 DEF ListKept
    <3>9. \E w : ListSound(meta', w) /\ ListKept(meta', w, list', infile', todo'.pc, todo'.slots)
      BY <1>3, <2>1, <3>8
    <3> HIDE DEF i
    <3>10. DoingHeld'
      BY <2>1, <2>2, <2>5, <3>1, <3>4, <3>5, <3>6 DEF DoingHeld
    <3> QED
      BY <2>3, <3>7, <3>9, <3>10 DEF OrphanIInv
  <2>7. CASE i = NoIno
    <3>1. UNCHANGED <<infile, doing>>
      BY <1>16, <2>7 DEF CleanSlot
    <3>2. OrphanTypeOK'
      BY <1>2, <2>1, <2>2, <3>1 DEF OrphanTypeOK
    <3>3. Orphans' = Orphans
      BY <2>1, <3>1 DEF Orphans
    <3>4. DoingHeld'
      BY <1>2, <2>1, <2>2, <3>1, <3>3 DEF DoingHeld
    <3>5. ListKept(meta', q, list', infile', todo'.pc, todo'.slots)
      BY <2>1, <2>2, <2>7, <3>1 DEF ListKept
    <3>6. \E w : ListSound(meta', w) /\ ListKept(meta', w, list', infile', todo'.pc, todo'.slots)
      BY <1>3, <2>1, <3>5
    <3> QED
      BY <2>3, <3>2, <3>4, <3>6 DEF OrphanIInv
  <2> QED
    BY <2>6, <2>7
<1>17. CASE CleanDone
  <2>1. /\ todo.pc = "file" /\ todo.slots = {} /\ q = <<>> /\ list = <<>> /\ infile = {}
        /\ \A s \in Slot : meta.file[s] = NoIno
        /\ UNCHANGED <<meta, durable, list, infile, doing, left>>
    <3>1. todo.pc = "file" /\ todo.slots = {} /\ ~Busy
          /\ UNCHANGED <<meta, durable, list, infile, doing, left>>
      BY <1>17 DEF CleanDone
    <3> QED
      BY <1>3, <1>5, <3>1 DEF ListKept
  <2>2. Noted(meta) = {}
    BY <2>1 DEF Noted
  <2>3. todo'.pc = "mounted" /\ todo' \in [pc : {"list", "file", "mounted"}, slots : SUBSET Slot]
    BY <1>2, <1>17 DEF CleanDone, OrphanTypeOK
  <2>4. OrphanTypeOK'
    BY <1>2, <2>1, <2>3 DEF OrphanTypeOK
  <2>5. \A j \in Ino : ~meta.excess[j]
    <3>1. Range(q) = {}
      BY <2>1 DEF Range
    <3> QED
      BY <1>3, <2>2, <3>1 DEF ListSound
  <2>6. Orphans' = Orphans
    BY <2>1 DEF Orphans
  <2>7. DoingHeld'
    BY <1>2, <2>1, <2>3, <2>5, <2>6 DEF DoingHeld
  <2>8. ListKept(meta', q, list', infile', todo'.pc, todo'.slots)
    BY <2>1, <2>2, <2>3 DEF ListKept
  <2>9. \E w : ListSound(meta', w) /\ ListKept(meta', w, list', infile', todo'.pc, todo'.slots)
    BY <1>3, <2>1, <2>8
  <2>10. \E w : ListSound(durable', w)
    BY <1>2, <2>1
  <2> QED
    BY <2>4, <2>7, <2>9, <2>10 DEF OrphanIInv
<1>18. CASE UNCHANGED orphanVars
  <2>1. UNCHANGED <<meta, durable, list, infile, doing, todo>>
    BY <1>18 DEF orphanVars
  <2>2. OrphanTypeOK' /\ DoingHeld'
    BY <1>2, <2>1 DEF OrphanTypeOK, DoingHeld, Orphans
  <2>3. \E w : ListSound(meta', w) /\ ListKept(meta', w, list', infile', todo'.pc, todo'.slots)
    BY <1>3, <2>1
  <2>4. \E w : ListSound(durable', w)
    BY <1>2, <2>1
  <2> QED
    BY <2>2, <2>3, <2>4 DEF OrphanIInv
<1> QED
  BY <1>6, <1>7, <1>8, <1>9, <1>10, <1>11, <1>12, <1>13, <1>14, <1>15, <1>16, <1>17, <1>18
     DEF OrphanNext

(* A list without duplicates is one of Lists.                              *)
LEMMA SoundListIsFound ==
  ASSUME NEW m, NEW q, ListSound(m, q)
  PROVE  q \in Lists
<1>1. q \in Seq(Ino) /\ Distinct(q) /\ Len(q) \in Nat /\ DOMAIN q = 1..Len(q)
  BY DEF ListSound
<1>2. q \in Injection(1..Len(q), Ino)
  <2>1. q \in [1..Len(q) -> Ino]
    BY <1>1
  <2> QED
    BY <1>1, <2>1 DEF Injection, IsInjective, Distinct
<1>3. Len(q) \in 0..Cardinality(Ino)
  <2>1. IsFiniteSet(1..Len(q)) /\ Cardinality(1..Len(q)) = Len(q)
    BY <1>1, FS_Interval
  <2>2. Cardinality(1..Len(q)) <= Cardinality(Ino) /\ Cardinality(Ino) \in Nat
    BY <1>2, <2>1, FS_Injection, FS_CardinalityType, OrphanAssumption
  <2> QED
    BY <1>1, <2>1, <2>2
<1> QED
  BY <1>2, <1>3 DEF Lists

(* At every moment what was committed leads a mount to every orphan, once. *)
THEOREM OrphansAreFound == OrphanSpec => []OrphansFound
<1>1. OrphanIInv => OrphansFound
  <2> SUFFICES ASSUME OrphanIInv, ~left PROVE OrphansFound
    BY DEF OrphansFound
  <2>1. PICK q : ListSound(durable, q)
    BY DEF OrphanIInv
  <2>2. q \in Lists
    BY <2>1, SoundListIsFound
  <2> QED
    BY <2>1, <2>2 DEF ListSound, OrphansFound
<1> QED
  BY <1>1, OrphanInitOK, OrphanStepOK, PTL DEF OrphanSpec

-----------------------------------------------------------------------------
(* The block allocator.                                                    *)
(* The stages of an operation: it looks for clusters, it has taken some.   *)
Seeking == {"scan", "best", "discard"}
Taken == {"mark", "release", "drop", "insert"}
Steps == Seeking \cup Taken \cup {"idle", "collect", "release pas", "pend"}

(* The types.                                                              *)
Prealloc == [kind : {"free", "new", "inode", "group"}, file : Writer \cup {NoFile},
             lstart : Int, pstart : Int, len : Int, unused : Int, count : Int,
             deleted : BOOLEAN]
Context == [at : Steps, lblk : Int, len : Int, gstart : Int, glen : Int,
            start : Int, got : Int, pa : Pa \cup {NoPa}, pin : BOOLEAN,
            freeing : SUBSET Cluster]
AllocShape ==
  /\ bitmap \in SUBSET Cluster /\ core \in SUBSET Cluster /\ bbFree \in Int
  /\ pas \in [Pa -> Prealloc] /\ ctx \in [Writer -> Context]
  /\ pending \in [running : SUBSET Cluster, committing : SUBSET Cluster]
  /\ lg \in Writer \cup {NoFile}
  /\ map = [f \in Writer |-> map[f]]
  /\ \A f \in Writer : map[f] \in [Lblk(f) -> Cluster \cup {NoBlock}]

(* The first n blocks that f asked for are in the file and not mapped.     *)
Unmapped(f, n) == \A l \in Run(ctx[f].lblk, n) : l \in Lblk(f) /\ map[f][l] = NoBlock

(* Who looks for clusters has a fresh descriptor and a goal that covers    *)
(* the request.                                                            *)
SeekSound(f) ==
  ctx[f].at \in Seeking =>
    /\ ctx[f].pa \in Pa /\ pas[ctx[f].pa].kind = "new"
    /\ ctx[f].len >= 1 /\ ctx[f].glen >= 1 /\ Unmapped(f, ctx[f].len)
    /\ ctx[f].lblk \in Run(ctx[f].gstart, ctx[f].glen)
    /\ ctx[f].freeing = {}
    /\ ctx[f].at = "best" => ctx[f].start \in Cluster /\ ctx[f].got \in Nat

(* What was taken is for blocks that are still not mapped.                 *)
TakenSound(f) ==
  ctx[f].at \in Taken =>
    /\ ctx[f].start \in Nat /\ ctx[f].got \in Nat
    /\ ctx[f].start + ctx[f].got <= Blocks /\ Unmapped(f, ctx[f].got)

(* Until it is released, a preallocation that f uses is listed and not     *)
(* deleted, what f took of it lies in it, and lies where the file's        *)
(* logical blocks, or the group's turn, say.                               *)
HoldSound(f) ==
  ctx[f].at \in {"mark", "release"} /\ ctx[f].pa # NoPa =>
    /\ ctx[f].pa \in Listed /\ ~pas[ctx[f].pa].deleted
    /\ Run(ctx[f].start, ctx[f].got) \subseteq PaBlocks(ctx[f].pa)
    /\ pas[ctx[f].pa].kind = "inode" =>
         /\ pas[ctx[f].pa].file = f
         /\ ctx[f].got > 0 => ctx[f].start - ctx[f].lblk
                                = pas[ctx[f].pa].pstart - pas[ctx[f].pa].lstart
    /\ pas[ctx[f].pa].kind = "group" =>
         /\ lg = f
         /\ ctx[f].got > 0 => ctx[f].start = pas[ctx[f].pa].pstart

(* Who drops a preallocation has marked it deleted, and nothing of it is   *)
(* left.                                                                   *)
DropSound(f) ==
  ctx[f].at = "drop" =>
    /\ ctx[f].pa \in Listed /\ pas[ctx[f].pa].deleted /\ pas[ctx[f].pa].unused = 0
    /\ pas[ctx[f].pa].kind = "inode" => pas[ctx[f].pa].file = f

(* What an operation must have done before it comes to a stage.            *)
FlowSound(f) ==
  /\ ctx[f].at = "idle" => ctx[f] = NoContext
  /\ ctx[f].at = "mark" /\ ~ctx[f].pin => ctx[f].pa # NoPa
  /\ ctx[f].at = "pend" => ctx[f].pin /\ OfFile(f) = {}
  /\ ctx[f].at = "release pas" => \A p \in OfFile(f) : pas[p].deleted
  /\ lg = f => ctx[f].at \in Seeking \cup Taken

FileSound(f) ==
  SeekSound(f) /\ TakenSound(f) /\ HoldSound(f) /\ DropSound(f) /\ FlowSound(f)

(* f works with the descriptor p; and is counted in it.                    *)
Holds(f, p) == ctx[f].pa = p /\ ctx[f].at \in Seeking \cup {"mark", "release", "drop"}
Uses(f, p) == Holds(f, p) /\ ctx[f].at # "drop"

(* pa_count counts the one file that uses p, and nobody else works with    *)
(* it.                                                                     *)
PaHeld(p) ==
  /\ pas[p].count = 1 <=> \E f \in Writer : Uses(f, p)
  /\ pas[p].count \in 0..1
  /\ \A f, g \in Writer : Holds(f, p) /\ Holds(g, p) => f = g

(* What the files have; and what they have not of a preallocation.         *)
Used == UNION {Owned[f] : f \in Writer}
Spare(p) == PaBlocks(p) \ Used

(* A listed preallocation lies in the group.  The count pa_free of a       *)
(* file's says what the files do not have of it, a locality group's is all *)
(* its length.                                                             *)
PaSize(p) ==
  p \in Listed =>
    /\ pas[p].pstart \in Nat /\ pas[p].len \in Nat
    /\ pas[p].pstart + pas[p].len <= Blocks
    /\ pas[p].kind = "inode" => /\ pas[p].file \in Writer
                                /\ pas[p].unused = Cardinality(Spare(p))
    /\ pas[p].kind = "group" => pas[p].unused = pas[p].len

(* Cluster b is, or is about to be, logical block l of file f.             *)
AtSlot(f, l, b) ==
  \/ l \in Lblk(f) /\ map[f][l] = b
  \/ ctx[f].at \in Taken /\ b \in InHand(f) /\ l = ctx[f].lblk + (b - ctx[f].start)
  \/ ctx[f].at \in {"collect", "release pas"}

(* Why a file may have a cluster of preallocation p: it is the file's own  *)
(* and lies at the logical block it was reserved for, or is in the hand of *)
(* who uses the locality group's.  And it was taken from p: a file that    *)
(* gives back a run taken without a preallocation gives back nothing of p. *)
Backs(p, f, b) ==
  /\ pas[p].kind = "inode" => /\ pas[p].file = f
                              /\ AtSlot(f, pas[p].lstart + (b - pas[p].pstart), b)
  /\ pas[p].kind = "group" => /\ b \in InHand(f) /\ ctx[f].pa = p
                              /\ ctx[f].at \in {"mark", "release"}
  /\ ctx[f].at = "mark" /\ b \in InHand(f) => ctx[f].pa # NoPa

(* Preallocations share no cluster, with each other or with what waits.    *)
PaOwn(p) ==
  p \in Listed =>
    /\ \A q \in Listed : q # p => PaBlocks(p) \cap PaBlocks(q) = {}
    /\ PaBlocks(p) \cap Waiting = {}
    /\ \A f \in Writer : \A b \in PaBlocks(p) \cap Owned[f] : Backs(p, f, b)

(* What the bitmap on disk says of f: not what it has not marked, or has   *)
(* cleared.                                                                *)
OnDisk(f) == Mapped(f) \cup IF ctx[f].at \in {"mark", "pend"} THEN {} ELSE InHand(f)

(* The clusters of one file are distinct.                                  *)
OwnDistinct(f) ==
  /\ Mapped(f) \cap InHand(f) = {}
  /\ \A l, m \in Lblk(f) : l # m => map[f][l] # map[f][m] \/ map[f][l] = NoBlock

(* Files share nothing, with each other or with what waits.                *)
Apart ==
  /\ \A f, g \in Writer : f # g => Owned[f] \cap Owned[g] = {}
  /\ \A f \in Writer : Owned[f] \cap Waiting = {}
  /\ pending.running \cap pending.committing = {}

(* Both bitmaps.                                                           *)
BitmapIs == bitmap = UNION {OnDisk(f) : f \in Writer}
InReserve == UNION {PaBlocks(p) : p \in Listed}
Accounted == Used \cup InReserve \cup Waiting
CoreIs == core = Accounted /\ bbFree = Blocks - Cardinality(core)

(* The inductive invariant.                                                *)
AllocIInv ==
  /\ AllocShape
  /\ \A f \in Writer : FileSound(f) /\ OwnDistinct(f)
  /\ \A p \in Pa : PaHeld(p) /\ PaSize(p) /\ PaOwn(p)
  /\ Apart /\ BitmapIs /\ CoreIs

-----------------------------------------------------------------------------
(* The constants, and numbers.                                             *)
LEMMA AllocConst ==
  /\ Blocks \in Nat /\ Blocks > 0 /\ GroupGoal \in Nat /\ GroupGoal > 0
  /\ MaxLen \in Nat /\ MaxLen > 0
  /\ \A f \in Writer : Lblks[f] \in Nat
  /\ NoFile \notin Writer /\ NoPa \notin Pa
BY AllocAssumption

LEMMA ClusterFinite ==
  /\ IsFiniteSet(Cluster)
  /\ \A S \in SUBSET Cluster : IsFiniteSet(S) /\ Cardinality(S) \in Nat
<1>1. IsFiniteSet(Cluster)
  BY AllocConst, FS_Interval DEF Cluster
<1> QED
  BY <1>1, FS_Subset, FS_CardinalityType

LEMMA TwoMin ==
  ASSUME NEW a \in Int, NEW b \in Int
  PROVE  Min({a, b}) = IF a <= b THEN a ELSE b
<1> DEFINE m == IF a <= b THEN a ELSE b
<1>1. m \in {a, b} /\ \A y \in {a, b} : m =< y
  OBVIOUS
<1>2. \A x \in {a, b} : (\A y \in {a, b} : x =< y) => x = m
  OBVIOUS
<1> HIDE DEF m
<1>3. Min({a, b}) = m
  BY <1>1, <1>2 DEF Min
<1> QED
  BY <1>3 DEF m

(* What the search finds at a cluster is free.                             *)
LEMMA FoundIsFree ==
  ASSUME NEW start \in Int, NEW needed \in Int
  PROVE  /\ Found(start, needed) \in Nat
         /\ Found(start, needed) > 0 =>
              Found(start, needed) <= needed /\ FreeAt(start, Found(start, needed))
         /\ needed >= 1 /\ FreeAt(start, 1) => Found(start, needed) >= 1
<1> DEFINE S == {len \in 1..needed : FreeAt(start, len)}
           k == Cardinality(S)
<1>1. \A len \in S, m \in 1..needed : m <= len => m \in S
  BY AllocConst DEF FreeAt, Run
<1>2. IsFiniteSet(S) /\ k \in Nat
  <2>1. IsFiniteSet(1..needed) /\ S \in SUBSET (1..needed)
    BY FS_Interval
  <2>2. IsFiniteSet(S)
    BY <2>1, FS_Subset
  <2> QED
    BY <2>2, FS_CardinalityType
<1>3. \A m \in S : 1..m \subseteq S
  BY <1>1
<1>4. \A m \in S : m <= k
  <2> SUFFICES ASSUME NEW m \in S PROVE m <= k
    OBVIOUS
  <2>1. m \in Int /\ m >= 1 /\ Cardinality(1..m) = m
    BY FS_Interval
  <2>2. Cardinality(1..m) <= k
    BY <1>2, <1>3, FS_Subset
  <2> QED
    BY <2>1, <2>2, <1>2
<1>5. k > 0 => k \in S
  <2> SUFFICES ASSUME k > 0, k \notin S PROVE FALSE
    OBVIOUS
  <2>1. \A m \in S : m < k
    BY <1>2, <1>4
  <2>2. S \subseteq 1..(k - 1)
    BY <1>2, <2>1
  <2>3. IsFiniteSet(1..(k - 1)) /\ Cardinality(1..(k - 1)) = k - 1
    <3>1. k - 1 \in Int /\ 1 \in Int /\ k - 1 >= 0
      BY <1>2
    <3> HIDE DEF k
    <3>2. /\ IsFiniteSet(1..(k - 1))
          /\ Cardinality(1..(k - 1)) = IF 1 > k - 1 THEN 0 ELSE (k - 1) - 1 + 1
      BY <3>1, FS_Interval
    <3> QED
      BY <3>1, <3>2
  <2>4. k <= k - 1
    BY <2>2, <2>3, FS_Subset
  <2> QED
    BY <1>2, <2>4
<1>6. k \in {0} \cup S /\ \A y \in {0} \cup S : k >= y
  BY <1>2, <1>4, <1>5
<1>7. \A x \in {0} \cup S : (\A y \in {0} \cup S : x >= y) => x = k
  <2> SUFFICES ASSUME NEW x \in {0} \cup S, \A y \in {0} \cup S : x >= y PROVE x = k
    OBVIOUS
  <2>1. x >= k /\ k >= x /\ x \in Int
    BY <1>6
  <2> QED
    BY <1>2, <2>1
<1> HIDE DEF k
<1>8. Found(start, needed) = k
  BY <1>6, <1>7 DEF Found, Max
<1>9. needed >= 1 /\ FreeAt(start, 1) => k >= 1
  BY <1>4
<1> QED
  BY <1>2, <1>5, <1>8, <1>9

-----------------------------------------------------------------------------
(* A step of file f: what it does not touch stays sound.                   *)
LEMMA OwnedIs ==
  /\ \A f \in Writer : Owned[f] = Mapped(f) \cup InHand(f)
  /\ \A f \in Writer : Owned'[f] = Mapped(f)' \cup InHand(f)'
BY DEF Owned

(* Only file f, and the locality group it may hold, move.                  *)
OnlyFile(f) ==
  \A g \in Writer : g # f => ctx'[g] = ctx[g] /\ map'[g] = map[g] /\ (lg' = g <=> lg = g)

LEMMA OthersOwn ==
  ASSUME NEW f \in Writer, OnlyFile(f), NEW g \in Writer, g # f
  PROVE  /\ Mapped(g)' = Mapped(g) /\ InHand(g)' = InHand(g)
         /\ Owned'[g] = Owned[g] /\ OnDisk(g)' = OnDisk(g)
<1>1. Mapped(g)' = Mapped(g)
  BY DEF OnlyFile, Mapped, Lblk
<1>2. InHand(g)' = InHand(g)
  BY DEF OnlyFile, InHand, Run
<1>3. OnDisk(g)' = OnDisk(g)
  BY <1>1, <1>2 DEF OnDisk, OnlyFile
<1> QED
  BY <1>1, <1>2, <1>3, OwnedIs

(* Nobody else's preallocation moves.                                      *)
OthersPas(f) ==
  \A p \in Pa : pas'[p] = pas[p] \/ \A g \in Writer : g # f =>
    /\ ~Holds(g, p)
    /\ ~(pas'[p].kind = "inode" /\ pas'[p].file = g)

LEMMA OthersSound ==
  ASSUME AllocShape, AllocShape', NEW f \in Writer, OnlyFile(f), OthersPas(f),
         NEW g \in Writer, g # f, FileSound(g), OwnDistinct(g)
  PROVE  FileSound(g)' /\ OwnDistinct(g)'
<1>1. ctx'[g] = ctx[g] /\ map'[g] = map[g] /\ (lg' = g <=> lg = g)
  BY DEF OnlyFile
<1>2. ctx[g] \in Context
  BY DEF AllocShape
<1>3. SeekSound(g)'
  <2> SUFFICES ASSUME ctx[g].at \in Seeking PROVE SeekSound(g)'
    BY <1>1 DEF SeekSound
  <2>1. ctx[g].pa \in Pa
    BY DEF FileSound, SeekSound
  <2>2. Holds(g, ctx[g].pa)
    BY DEF Holds
  <2>3. pas'[ctx[g].pa] = pas[ctx[g].pa]
    BY <2>1, <2>2 DEF OthersPas
  <2> QED
    BY <1>1, <2>1, <2>3 DEF FileSound, SeekSound, Unmapped, Lblk, Run, Cluster
<1>4. TakenSound(g)'
  BY <1>1 DEF FileSound, TakenSound, Unmapped, Lblk, Run
<1>5. HoldSound(g)'
  <2> SUFFICES ASSUME ctx[g].at \in {"mark", "release"}, ctx[g].pa # NoPa
               PROVE  HoldSound(g)'
    BY <1>1 DEF HoldSound
  <2>1. ctx[g].pa \in Listed /\ ctx[g].pa \in Pa
    BY DEF FileSound, HoldSound, Listed
  <2>2. Holds(g, ctx[g].pa)
    BY DEF Holds
  <2>3. pas'[ctx[g].pa] = pas[ctx[g].pa]
    BY <2>1, <2>2 DEF OthersPas
  <2> QED
    BY <1>1, <2>1, <2>3 DEF FileSound, HoldSound, Listed, PaBlocks, Run
<1>6. DropSound(g)'
  <2> SUFFICES ASSUME ctx[g].at = "drop" PROVE DropSound(g)'
    BY <1>1 DEF DropSound
  <2>1. ctx[g].pa \in Listed /\ ctx[g].pa \in Pa
    BY DEF FileSound, DropSound, Listed
  <2>2. Holds(g, ctx[g].pa)
    BY DEF Holds
  <2>3. pas'[ctx[g].pa] = pas[ctx[g].pa]
    BY <2>1, <2>2 DEF OthersPas
  <2> QED
    BY <1>1, <2>1, <2>3 DEF FileSound, DropSound, Listed
<1>7. FlowSound(g)'
  <2>1. \A p \in OfFile(g)' : p \in OfFile(g) /\ pas'[p] = pas[p]
    <3> SUFFICES ASSUME NEW p \in OfFile(g)'
                 PROVE  p \in OfFile(g) /\ pas'[p] = pas[p]
      OBVIOUS
    <3>1. p \in Pa /\ pas'[p].kind = "inode" /\ pas'[p].file = g
      BY DEF OfFile, Listed
    <3>2. pas'[p] = pas[p]
      BY <3>1 DEF OthersPas
    <3> QED
      BY <3>1, <3>2 DEF OfFile, Listed
  <2>2. NoContext' = NoContext
    BY DEF NoContext
  <2>3. OfFile(g) = {} => OfFile(g)' = {}
    BY <2>1
  <2> QED
    BY <1>1, <2>1, <2>2, <2>3 DEF FlowSound, FileSound
<1>8. OwnDistinct(g)'
  <2>1. Mapped(g)' = Mapped(g) /\ InHand(g)' = InHand(g)
    BY OthersOwn
  <2>2. Mapped(g)' \cap InHand(g)' = {}
    BY <2>1 DEF OwnDistinct
  <2>3. \A l, m \in Lblk(g)' : l # m => map'[g][l] # map'[g][m] \/ map'[g][l] = NoBlock
    BY <1>1 DEF OwnDistinct, Lblk, NoBlock
  <2> QED
    BY <2>2, <2>3 DEF OwnDistinct, NoBlock
<1> QED
  BY <1>3, <1>4, <1>5, <1>6, <1>7, <1>8 DEF FileSound

(* Who uses a preallocation: as before, f, nobody.                         *)
LEMMA HeldKeeps ==
  ASSUME NEW f \in Writer, OnlyFile(f), NEW p \in Pa, PaHeld(p),
         pas'[p].count = pas[p].count,
         Holds(f, p)' <=> Holds(f, p), Uses(f, p)' <=> Uses(f, p)
  PROVE  PaHeld(p)'
<1>1. \A g \in Writer : (Holds(g, p)' <=> Holds(g, p)) /\ (Uses(g, p)' <=> Uses(g, p))
  BY DEF OnlyFile, Holds, Uses
<1> QED
  BY <1>1 DEF PaHeld

LEMMA HeldTaken ==
  ASSUME NEW f \in Writer, OnlyFile(f), NEW p \in Pa,
         \A g \in Writer : g # f => ~Holds(g, p),
         pas'[p].count = 1, Uses(f, p)'
  PROVE  PaHeld(p)'
<1>1. \A g \in Writer : g # f => ~Holds(g, p)'
  BY DEF OnlyFile, Holds
<1> QED
  BY <1>1 DEF PaHeld, Uses

LEMMA HeldFreed ==
  ASSUME NEW f \in Writer, OnlyFile(f), NEW p \in Pa,
         \A g \in Writer : g # f => ~Holds(g, p),
         pas'[p].count = 0, ~Uses(f, p)'
  PROVE  PaHeld(p)'
<1>1. \A g \in Writer : g # f => ~Holds(g, p)' /\ ~Uses(g, p)'
  BY DEF OnlyFile, Holds, Uses
<1> QED
  BY <1>1 DEF PaHeld

(* The place of a preallocation stays.                                     *)
SameCells(p) ==
  /\ pas'[p].kind = pas[p].kind /\ pas'[p].file = pas[p].file
  /\ pas'[p].lstart = pas[p].lstart /\ pas'[p].pstart = pas[p].pstart
  /\ pas'[p].len = pas[p].len

LEMMA CellsKeep ==
  ASSUME NEW p \in Pa, SameCells(p)
  PROVE  PaBlocks(p)' = PaBlocks(p) /\ (p \in Listed <=> p \in Listed')
BY DEF SameCells, PaBlocks, Run, Listed

LEMMA SizeKeeps ==
  ASSUME NEW p \in Pa, PaSize(p), SameCells(p), pas'[p].unused = pas[p].unused,
         \A b \in PaBlocks(p) : b \in Used' <=> b \in Used
  PROVE  PaSize(p)'
<1>1. PaBlocks(p)' = PaBlocks(p) /\ (p \in Listed <=> p \in Listed')
  BY CellsKeep
<1>2. Spare(p)' = Spare(p)
  BY <1>1 DEF Spare
<1> QED
  BY <1>1, <1>2 DEF PaSize, SameCells

LEMMA OwnKeeps ==
  ASSUME NEW f \in Writer, OnlyFile(f), NEW p \in Pa, PaOwn(p), SameCells(p),
         \A q \in Listed' : q # p => PaBlocks(p) \cap PaBlocks(q)' = {},
         PaBlocks(p) \cap Waiting' = {},
         p \in Listed => \A b \in PaBlocks(p) \cap Owned'[f] : Backs(p, f, b)'
  PROVE  PaOwn(p)'
<1>1. PaBlocks(p)' = PaBlocks(p) /\ (p \in Listed <=> p \in Listed')
  BY CellsKeep
<1>2. ASSUME NEW g \in Writer, g # f, NEW b \in PaBlocks(p) \cap Owned'[g], p \in Listed
      PROVE  Backs(p, g, b)'
  <2>1. Owned'[g] = Owned[g] /\ InHand(g)' = InHand(g)
    BY <1>2, OthersOwn
  <2>2. Backs(p, g, b)
    BY <1>2, <2>1 DEF PaOwn
  <2>3. ctx'[g] = ctx[g] /\ map'[g] = map[g]
    BY <1>2 DEF OnlyFile
  <2> QED
    BY <2>1, <2>2, <2>3 DEF Backs, AtSlot, SameCells, Lblk
<1> QED
  BY <1>1, <1>2 DEF PaOwn

(* The bitmap on disk follows what f does.                                 *)
LEMMA BitmapSame ==
  ASSUME NEW f \in Writer, OnlyFile(f), BitmapIs, OnDisk(f)' = OnDisk(f), bitmap' = bitmap
  PROVE  BitmapIs'
<1>1. \A g \in Writer : OnDisk(g)' = OnDisk(g)
  BY OthersOwn
<1> QED
  BY <1>1 DEF BitmapIs

LEMMA BitmapMoves ==
  ASSUME NEW f \in Writer, OnlyFile(f), BitmapIs,
         \A g \in Writer : g # f => \A b \in OnDisk(g) : b \in bitmap',
         \A b \in OnDisk(f)' : b \in bitmap',
         \A b \in bitmap' : b \in OnDisk(f)' \/ (b \in bitmap /\ b \notin OnDisk(f))
  PROVE  BitmapIs'
<1>1. \A g \in Writer : g # f => OnDisk(g)' = OnDisk(g)
  BY OthersOwn
<1>2. ASSUME NEW b \in bitmap' PROVE \E g \in Writer : b \in OnDisk(g)'
  <2>1. CASE b \in OnDisk(f)'
    BY <2>1
  <2>2. CASE b \in bitmap /\ b \notin OnDisk(f)
    <3>1. PICK g \in Writer : b \in OnDisk(g)
      BY <2>2 DEF BitmapIs
    <3> QED
      BY <1>1, <2>2, <3>1
  <2> QED
    BY <1>2, <2>1, <2>2
<1>3. ASSUME NEW g \in Writer, NEW b \in OnDisk(g)' PROVE b \in bitmap'
  BY <1>1, <1>3
<1> QED
  BY <1>2, <1>3 DEF BitmapIs

-----------------------------------------------------------------------------
(* The fields of descriptors and contexts.                                 *)
LEMMA NothingIs ==
  /\ NoContext \in Context /\ NoPrealloc \in Prealloc
  /\ NoContext.at = "idle" /\ NoContext.pa = NoPa /\ NoContext.freeing = {}
  /\ NoPrealloc.kind = "free" /\ NoPrealloc.count = 0 /\ ~NoPrealloc.deleted
BY AllocConst DEF NoContext, NoPrealloc, Context, Prealloc, Steps, Seeking, Taken

LEMMA CtxIs ==
  ASSUME AllocShape, NEW f \in Writer, NEW c \in Context, Ctx(f, c)
  PROVE  /\ ctx' \in [Writer -> Context] /\ ctx'[f] = c
         /\ \A g \in Writer : g # f => ctx'[g] = ctx[g]
BY DEF Ctx, AllocShape

LEMMA CtxGoes ==
  ASSUME AllocShape, NEW f \in Writer, NEW pc \in Steps, GoTo(f, pc)
  PROVE  /\ ctx' \in [Writer -> Context]
         /\ \A g \in Writer : g # f => ctx'[g] = ctx[g]
         /\ ctx'[f].at = pc /\ ctx'[f].lblk = ctx[f].lblk /\ ctx'[f].len = ctx[f].len
         /\ ctx'[f].gstart = ctx[f].gstart /\ ctx'[f].glen = ctx[f].glen
         /\ ctx'[f].start = ctx[f].start /\ ctx'[f].got = ctx[f].got
         /\ ctx'[f].pa = ctx[f].pa /\ ctx'[f].pin = ctx[f].pin
         /\ ctx'[f].freeing = ctx[f].freeing
<1> DEFINE c == [ctx[f] EXCEPT !.at = pc]
<1>1. ctx[f] \in Context
  BY DEF AllocShape
<1>2. c \in Context
  BY <1>1 DEF Context
<1>3. /\ c.at = pc /\ c.lblk = ctx[f].lblk /\ c.len = ctx[f].len
      /\ c.gstart = ctx[f].gstart /\ c.glen = ctx[f].glen
      /\ c.start = ctx[f].start /\ c.got = ctx[f].got
      /\ c.pa = ctx[f].pa /\ c.pin = ctx[f].pin /\ c.freeing = ctx[f].freeing
  BY <1>1 DEF Context
<1>4. Ctx(f, c)
  BY DEF GoTo
<1> HIDE DEF c
<1> QED
  BY <1>2, <1>3, <1>4, CtxIs

LEMMA CtxUnpins ==
  ASSUME AllocShape, NEW f \in Writer, Unpins(f)
  PROVE  /\ ctx' \in [Writer -> Context]
         /\ \A g \in Writer : g # f => ctx'[g] = ctx[g]
         /\ ctx'[f].at = "insert" /\ ctx'[f].lblk = ctx[f].lblk /\ ctx'[f].len = ctx[f].len
         /\ ctx'[f].gstart = ctx[f].gstart /\ ctx'[f].glen = ctx[f].glen
         /\ ctx'[f].start = ctx[f].start /\ ctx'[f].got = ctx[f].got
         /\ ctx'[f].pa = ctx[f].pa /\ ~ctx'[f].pin
         /\ ctx'[f].freeing = ctx[f].freeing
<1> DEFINE c == [ctx[f] EXCEPT !.at = "insert", !.pin = FALSE]
<1>1. ctx[f] \in Context /\ "insert" \in Steps
  BY DEF AllocShape, Steps, Taken
<1>2. c \in Context
  BY <1>1 DEF Context
<1>3. /\ c.at = "insert" /\ c.lblk = ctx[f].lblk /\ c.len = ctx[f].len
      /\ c.gstart = ctx[f].gstart /\ c.glen = ctx[f].glen
      /\ c.start = ctx[f].start /\ c.got = ctx[f].got
      /\ c.pa = ctx[f].pa /\ c.pin = FALSE /\ c.freeing = ctx[f].freeing
  BY <1>1 DEF Context
<1>4. Ctx(f, c)
  BY DEF Unpins
<1> HIDE DEF c
<1> QED
  BY <1>2, <1>3, <1>4, CtxIs

LEMMA CtxPlaces ==
  ASSUME AllocShape, NEW f \in Writer, NEW pc \in Steps, NEW s \in Int, NEW n \in Int,
         Ctx(f, [ctx[f] EXCEPT !.at = pc, !.start = s, !.got = n])
  PROVE  /\ ctx' \in [Writer -> Context]
         /\ \A g \in Writer : g # f => ctx'[g] = ctx[g]
         /\ ctx'[f].at = pc /\ ctx'[f].start = s /\ ctx'[f].got = n
         /\ ctx'[f].lblk = ctx[f].lblk /\ ctx'[f].len = ctx[f].len
         /\ ctx'[f].gstart = ctx[f].gstart /\ ctx'[f].glen = ctx[f].glen
         /\ ctx'[f].pa = ctx[f].pa /\ ctx'[f].pin = ctx[f].pin
         /\ ctx'[f].freeing = ctx[f].freeing
<1> DEFINE c == [ctx[f] EXCEPT !.at = pc, !.start = s, !.got = n]
<1>1. ctx[f] \in Context
  BY DEF AllocShape
<1>2. c \in Context
  BY <1>1 DEF Context
<1>3. c.at = pc /\ c.start = s /\ c.got = n
  BY <1>1 DEF Context
<1>4. /\ c.lblk = ctx[f].lblk /\ c.len = ctx[f].len /\ c.gstart = ctx[f].gstart
      /\ c.glen = ctx[f].glen /\ c.pa = ctx[f].pa /\ c.pin = ctx[f].pin
      /\ c.freeing = ctx[f].freeing
  BY <1>1 DEF Context
<1>5. Ctx(f, c)
  OBVIOUS
<1> HIDE DEF c
<1> QED
  BY <1>2, <1>3, <1>4, <1>5, CtxIs

LEMMA ShapeIs ==
  ASSUME AllocShape
  PROVE  /\ \A f \in Writer : ctx[f] \in Context
         /\ \A p \in Pa : pas[p] \in Prealloc
         /\ \A f \in Writer : Mapped(f) \in SUBSET Cluster
         /\ Waiting \in SUBSET Cluster
         /\ \A f \in Writer : \A l \in Lblk(f) : map[f][l] \in Cluster \cup {NoBlock}
BY DEF AllocShape, Mapped, Waiting

LEMMA InHandIs ==
  ASSUME NEW f \in Writer
  PROVE  /\ ctx[f].at \in Taken => InHand(f) = Run(ctx[f].start, ctx[f].got)
         /\ ctx[f].at \notin Taken => InHand(f) = ctx[f].freeing
         /\ ctx'[f].at \in Taken => InHand(f)' = Run(ctx'[f].start, ctx'[f].got)
         /\ ctx'[f].at \notin Taken => InHand(f)' = ctx'[f].freeing
BY DEF InHand, Taken, Run

LEMMA InHandCluster ==
  ASSUME AllocShape, NEW f \in Writer, TakenSound(f)
  PROVE  InHand(f) \in SUBSET Cluster /\ Owned[f] \in SUBSET Cluster
<1>1. InHand(f) \in SUBSET Cluster
  <2>1. CASE ctx[f].at \in Taken
    BY <2>1, InHandIs, AllocConst DEF TakenSound, Run, Cluster
  <2>2. CASE ctx[f].at \notin Taken
    BY <2>2, InHandIs, ShapeIs DEF Context
  <2> QED
    BY <2>1, <2>2
<1> QED
  BY <1>1, ShapeIs, OwnedIs

-----------------------------------------------------------------------------
(* A step of file f after which every cluster belongs to whom it belonged. *)
LEMMA Calm ==
  ASSUME AllocIInv, AllocShape', NEW f \in Writer, OnlyFile(f), OthersPas(f),
         Owned'[f] = Owned[f], pending' = pending, core' = core, bbFree' = bbFree,
         \A p \in Pa : \/ SameCells(p) /\ pas'[p].unused = pas[p].unused
                       \/ p \notin Listed /\ p \notin Listed',
         \A p \in Listed : \A b \in PaBlocks(p) \cap Owned[f] : Backs(p, f, b)',
         \A p \in Pa : PaHeld(p)',
         FileSound(f)', OwnDistinct(f)', BitmapIs'
  PROVE  AllocIInv'
<1>1. \A g \in Writer : Owned'[g] = Owned[g]
  BY OthersOwn
<1>2. Used' = Used /\ Waiting' = Waiting
  BY <1>1 DEF Used, Waiting
<1>3. \A p \in Pa : (p \in Listed <=> p \in Listed') /\ (p \in Listed => SameCells(p))
  BY CellsKeep
<1>4. \A p \in Listed : PaBlocks(p)' = PaBlocks(p)
  BY <1>3, CellsKeep DEF Listed
<1>5. Listed' = Listed
  BY <1>3 DEF Listed
<1>6. \A g \in Writer : FileSound(g)' /\ OwnDistinct(g)'
  BY OthersSound DEF AllocIInv
<1>7. ASSUME NEW p \in Pa PROVE PaSize(p)' /\ PaOwn(p)'
  <2>1. CASE p \notin Listed
    BY <1>5, <2>1 DEF PaSize, PaOwn
  <2>2. CASE p \in Listed
    <3>1. SameCells(p) /\ pas'[p].unused = pas[p].unused /\ PaSize(p) /\ PaOwn(p)
      BY <2>2 DEF AllocIInv
    <3>2. PaSize(p)'
      BY <1>2, <3>1, SizeKeeps
    <3>3. \A q \in Listed' : q # p => PaBlocks(p) \cap PaBlocks(q)' = {}
      BY <1>4, <1>5, <2>2, <3>1 DEF PaOwn
    <3>4. PaBlocks(p) \cap Waiting' = {}
      BY <1>2, <2>2, <3>1 DEF PaOwn
    <3>5. \A b \in PaBlocks(p) \cap Owned'[f] : Backs(p, f, b)'
      BY <2>2
    <3>6. PaOwn(p)'
      BY <3>1, <3>3, <3>4, <3>5, OwnKeeps
    <3> QED
      BY <3>2, <3>6
  <2> QED
    BY <2>1, <2>2
<1>8. Apart'
  BY <1>1, <1>2 DEF Apart, AllocIInv
<1>9. CoreIs'
  <2>1. Accounted' = Accounted
    BY <1>2, <1>4, <1>5 DEF Accounted, InReserve
  <2> QED
    BY <2>1 DEF CoreIs, AllocIInv
<1> QED
  BY <1>6, <1>7, <1>8, <1>9 DEF AllocIInv

(* A step that leaves the preallocations alone.                            *)
LEMMA PasStay ==
  ASSUME NEW f \in Writer, pas' = pas
  PROVE  /\ OthersPas(f)
         /\ \A p \in Pa : SameCells(p) /\ pas'[p].unused = pas[p].unused
         /\ \A g \in Writer : OfFile(g)' = OfFile(g)
         /\ Listed' = Listed
BY DEF OthersPas, SameCells, OfFile, Listed

(* A step of the search.                                                   *)
LEMMA SeekGoesOn ==
  ASSUME AllocIInv, NEW f \in Writer, ctx[f].at \in Seeking,
         ctx'[f].at \in Seeking, ctx' \in [Writer -> Context],
         \A g \in Writer : g # f => ctx'[g] = ctx[g],
         ctx'[f].lblk = ctx[f].lblk, ctx'[f].len = ctx[f].len,
         ctx'[f].gstart = ctx[f].gstart, ctx'[f].glen = ctx[f].glen,
         ctx'[f].pa = ctx[f].pa, ctx'[f].freeing = ctx[f].freeing,
         ctx'[f].at = "best" => ctx'[f].start \in Cluster /\ ctx'[f].got \in Nat,
         UNCHANGED <<bitmap, core, bbFree, pas, pending, lg, map>>
  PROVE  AllocIInv'
<1>1. AllocShape'
  BY DEF AllocIInv, AllocShape, Lblk
<1>2. OnlyFile(f)
  BY DEF OnlyFile
<1>3. InHand(f)' = InHand(f) /\ Mapped(f)' = Mapped(f)
  BY InHandIs DEF Mapped, Lblk, Seeking, Taken
<1>4. Owned'[f] = Owned[f] /\ OnDisk(f)' = OnDisk(f)
  BY <1>3, OwnedIs DEF OnDisk, Seeking
<1>5. OthersPas(f) /\ \A p \in Pa : SameCells(p) /\ pas'[p].unused = pas[p].unused
  BY PasStay
<1>6. \A p \in Pa : PaHeld(p)'
  <2> SUFFICES ASSUME NEW p \in Pa PROVE PaHeld(p)'
    OBVIOUS
  <2>1. (Holds(f, p)' <=> Holds(f, p)) /\ (Uses(f, p)' <=> Uses(f, p))
    BY DEF Holds, Uses, Seeking
  <2> QED
    BY <1>2, <2>1, HeldKeeps DEF AllocIInv
<1>7. FileSound(f)'
  <2>1. SeekSound(f)'
    BY DEF AllocIInv, FileSound, SeekSound, Unmapped, Lblk, Run, Cluster
  <2>2. TakenSound(f)' /\ HoldSound(f)' /\ DropSound(f)'
    BY DEF TakenSound, HoldSound, DropSound, Seeking, Taken
  <2>3. FlowSound(f)'
    BY DEF FlowSound, Seeking
  <2> QED
    BY <2>1, <2>2, <2>3 DEF FileSound
<1>8. OwnDistinct(f)'
  BY <1>3 DEF OwnDistinct, AllocIInv, Lblk
<1>9. BitmapIs'
  BY <1>2, <1>4, BitmapSame DEF AllocIInv
<1>10. ASSUME NEW p \in Listed, NEW b \in PaBlocks(p) \cap Owned[f]
       PROVE  Backs(p, f, b)'
  <2>1. Backs(p, f, b)
    BY DEF AllocIInv, PaOwn, Listed
  <2> QED
    BY <1>3, <2>1 DEF Backs, AtSlot, Seeking, Taken, Lblk
<1> QED
  BY <1>1, <1>2, <1>4, <1>5, <1>6, <1>7, <1>8, <1>9, <1>10, Calm

LEMMA ScanRemembersHolds ==
  ASSUME AllocIInv, NEW f \in Writer, ScanRemembers(f) PROVE AllocIInv'
<1>1. PICK start \in Cluster \ core :
        Ctx(f, [ctx[f] EXCEPT !.at = "best", !.start = start,
                              !.got = Found(start, ctx[f].glen)])
  BY DEF ScanRemembers
<1> DEFINE got == Found(start, ctx[f].glen)
<1>2. ctx[f] \in Context /\ AllocShape /\ ctx[f].at = "scan"
  BY ShapeIs DEF AllocIInv, ScanRemembers
<1>3. start \in Int /\ got \in Nat
  <2>1. start \in Int /\ ctx[f].glen \in Int
    BY <1>2, AllocConst DEF Context, Cluster
  <2> QED
    BY <2>1, FoundIsFree
<1>4. PICK s \in Int, n \in Int :
        /\ n \in Nat /\ s = start /\ Ctx(f, [ctx[f] EXCEPT !.at = "best", !.start = s, !.got = n])
  <2>1. start \in Int /\ got \in Int /\ got \in Nat
    BY <1>3
  <2>2. Ctx(f, [ctx[f] EXCEPT !.at = "best", !.start = start, !.got = got])
    BY <1>1
  <2> HIDE DEF got
  <2> QED
    BY <2>1, <2>2, Zenon
<1> HIDE DEF got
<1> DEFINE c == [ctx[f] EXCEPT !.at = "best", !.start = s, !.got = n]
<1>5. c \in Context
  <2>1. "best" \in Steps
    BY DEF Steps, Seeking
  <2> QED
    BY <1>2, <2>1 DEF Context
<1>6. /\ c.at = "best" /\ c.start = s /\ c.got = n
      /\ c.lblk = ctx[f].lblk /\ c.len = ctx[f].len
      /\ c.gstart = ctx[f].gstart /\ c.glen = ctx[f].glen
      /\ c.pa = ctx[f].pa /\ c.freeing = ctx[f].freeing
  BY <1>2 DEF Context
<1>7. Ctx(f, c)
  BY <1>4
<1> HIDE DEF c
<1>8. ctx' \in [Writer -> Context] /\ ctx'[f] = c /\ \A g \in Writer : g # f => ctx'[g] = ctx[g]
  BY <1>2, <1>5, <1>7, CtxIs
<1> QED
  BY <1>2, <1>4, <1>6, <1>8, SeekGoesOn DEF ScanRemembers, Seeking

LEMMA BestLostHolds ==
  ASSUME AllocIInv, NEW f \in Writer, TryBest(f), ~(Remaining(ctx[f]) > 0)
  PROVE  AllocIInv'
<1>1. /\ ctx[f] \in Context /\ AllocShape /\ ctx[f].at = "best"
      /\ Ctx(f, [ctx[f] EXCEPT !.at = "scan", !.start = 0, !.got = 0])
      /\ UNCHANGED <<bitmap, core, bbFree, pas, pending, lg, map>>
  BY ShapeIs DEF AllocIInv, TryBest
<1>2. "scan" \in Steps /\ 0 \in Int
  BY DEF Steps, Seeking
<1>3. /\ ctx' \in [Writer -> Context]
      /\ \A g \in Writer : g # f => ctx'[g] = ctx[g]
      /\ ctx'[f].at = "scan"
      /\ ctx'[f].lblk = ctx[f].lblk /\ ctx'[f].len = ctx[f].len
      /\ ctx'[f].gstart = ctx[f].gstart /\ ctx'[f].glen = ctx[f].glen
      /\ ctx'[f].pa = ctx[f].pa /\ ctx'[f].freeing = ctx[f].freeing
  BY <1>1, <1>2, CtxPlaces
<1> QED
  BY <1>1, <1>3, SeekGoesOn DEF Seeking

LEMMA NothingFoundHolds ==
  ASSUME AllocIInv, NEW f \in Writer, NothingFound(f) PROVE AllocIInv'
<1>1. AllocShape /\ ctx[f].at = "scan" /\ GoTo(f, "discard") /\ "discard" \in Steps
  BY DEF AllocIInv, NothingFound, Steps, Seeking
<1>2. /\ ctx' \in [Writer -> Context]
      /\ \A g \in Writer : g # f => ctx'[g] = ctx[g]
      /\ ctx'[f].at = "discard" /\ ctx'[f].lblk = ctx[f].lblk /\ ctx'[f].len = ctx[f].len
      /\ ctx'[f].gstart = ctx[f].gstart /\ ctx'[f].glen = ctx[f].glen
      /\ ctx'[f].pa = ctx[f].pa /\ ctx'[f].freeing = ctx[f].freeing
  BY <1>1, CtxGoes
<1> QED
  BY <1>1, <1>2, SeekGoesOn DEF NothingFound, Seeking

-----------------------------------------------------------------------------
(* What file f works with is neither free nor another file's.              *)
LEMMA HeldIs ==
  ASSUME AllocIInv, NEW f \in Writer, NEW p \in Pa, Holds(f, p)
  PROVE  /\ pas[p].kind # "free"
         /\ pas[p].kind = "inode" => pas[p].file = f
         /\ \A g \in Writer : g # f => ~Holds(g, p)
         /\ ctx[f].at # "drop" => pas[p].count = 1
         /\ ctx[f].at \in Seeking => pas[p].kind = "new" /\ p \notin Listed
         /\ ctx[f].at \notin Seeking => p \in Listed
<1>1. FileSound(f) /\ PaHeld(p) /\ p # NoPa
  BY AllocConst DEF AllocIInv
<1>2. \A g \in Writer : g # f => ~Holds(g, p)
  BY <1>1 DEF PaHeld
<1>3. ctx[f].at # "drop" => pas[p].count = 1
  BY <1>1 DEF PaHeld, Uses
<1>4. CASE ctx[f].at \in Seeking
  BY <1>1, <1>2, <1>3, <1>4 DEF FileSound, SeekSound, Holds, Listed
<1>5. CASE ctx[f].at \notin Seeking
  BY <1>1, <1>2, <1>3, <1>5 DEF FileSound, HoldSound, DropSound, Holds, Listed
<1> QED
  BY <1>4, <1>5

LEMMA OnlyHeld ==
  ASSUME AllocIInv, NEW f \in Writer, NEW p \in Pa,
         \A q \in Pa : q # p => pas'[q] = pas[q],
         \A g \in Writer : g # f => ~Holds(g, p),
         pas'[p].kind = "inode" => pas'[p].file = f
  PROVE  OthersPas(f)
BY DEF OthersPas

(* File f keeps what it has taken.                                         *)
LEMMA TakenStays ==
  ASSUME AllocIInv, NEW f \in Writer, ctx[f].at \in Taken, ctx'[f].at \in Taken,
         ctx'[f].start = ctx[f].start, ctx'[f].got = ctx[f].got,
         ctx'[f].lblk = ctx[f].lblk, map' = map
  PROVE  /\ Mapped(f)' = Mapped(f) /\ InHand(f)' = InHand(f)
         /\ Owned'[f] = Owned[f] /\ TakenSound(f)' /\ OwnDistinct(f)' /\ SeekSound(f)'
         /\ \A l, b : AtSlot(f, l, b)' <=> AtSlot(f, l, b)
<1>1. Mapped(f)' = Mapped(f) /\ InHand(f)' = InHand(f)
  BY InHandIs DEF Mapped, Lblk, Run
<1>2. TakenSound(f)'
  BY DEF AllocIInv, FileSound, TakenSound, Unmapped, Lblk, Run
<1>3. OwnDistinct(f)'
  BY <1>1 DEF AllocIInv, OwnDistinct, Lblk
<1>4. SeekSound(f)'
  BY DEF SeekSound, Seeking, Taken
<1>5. \A l, b : AtSlot(f, l, b)' <=> AtSlot(f, l, b)
  BY <1>1 DEF AtSlot, Lblk, Taken
<1> QED
  BY <1>1, <1>2, <1>3, <1>4, <1>5, OwnedIs

(* The bitmap on disk takes over what was taken in memory.                 *)
LEMMA MarkOnDiskHolds ==
  ASSUME AllocIInv, NEW f \in Writer, MarkOnDisk(f) PROVE AllocIInv'
<1>1. /\ AllocShape /\ ctx[f].at = "mark" /\ GoTo(f, "release") /\ "release" \in Steps
      /\ bitmap' = bitmap \cup Run(ctx[f].start, ctx[f].got)
      /\ UNCHANGED <<core, bbFree, pas, pending, lg, map>>
  BY DEF AllocIInv, MarkOnDisk, Steps, Taken
<1>2. /\ ctx' \in [Writer -> Context]
      /\ \A g \in Writer : g # f => ctx'[g] = ctx[g]
      /\ ctx'[f].at = "release" /\ ctx'[f].lblk = ctx[f].lblk
      /\ ctx'[f].start = ctx[f].start /\ ctx'[f].got = ctx[f].got
      /\ ctx'[f].pa = ctx[f].pa /\ ctx'[f].pin = ctx[f].pin
  BY <1>1, CtxGoes
<1>3. OnlyFile(f)
  BY <1>1, <1>2 DEF OnlyFile
<1>4. InHand(f) = Run(ctx[f].start, ctx[f].got) /\ FileSound(f) /\ InHand(f) \in SUBSET Cluster
  BY <1>1, InHandIs, InHandCluster DEF Taken, AllocIInv, FileSound
<1>5. AllocShape'
  <2>1. bitmap' \in SUBSET Cluster
    BY <1>1, <1>4 DEF AllocShape
  <2> QED
    BY <1>1, <1>2, <2>1 DEF AllocShape, Lblk, Cluster
<1>6. /\ Mapped(f)' = Mapped(f) /\ InHand(f)' = InHand(f)
      /\ Owned'[f] = Owned[f] /\ TakenSound(f)' /\ OwnDistinct(f)' /\ SeekSound(f)'
      /\ \A l, b : AtSlot(f, l, b)' <=> AtSlot(f, l, b)
  BY <1>1, <1>2, TakenStays DEF Taken
<1>7. OthersPas(f) /\ \A p \in Pa : SameCells(p) /\ pas'[p].unused = pas[p].unused
  BY <1>1, PasStay
<1>8. \A p \in Pa : PaHeld(p)'
  <2> SUFFICES ASSUME NEW p \in Pa PROVE PaHeld(p)'
    OBVIOUS
  <2>1. (Holds(f, p)' <=> Holds(f, p)) /\ (Uses(f, p)' <=> Uses(f, p))
    BY <1>1, <1>2 DEF Holds, Uses
  <2> QED
    BY <1>1, <1>3, <2>1, HeldKeeps DEF AllocIInv
<1>9. FileSound(f)'
  <2>1. HoldSound(f)'
    BY <1>1, <1>2, <1>4 DEF FileSound, HoldSound, Listed, PaBlocks, Run
  <2>2. DropSound(f)' /\ FlowSound(f)'
    BY <1>1, <1>2 DEF DropSound, FlowSound, Seeking, Taken
  <2> QED
    BY <1>6, <2>1, <2>2 DEF FileSound
<1>10. BitmapIs'
  <2>1. OnDisk(f) = Mapped(f) /\ OnDisk(f)' = Mapped(f) \cup InHand(f)
    BY <1>1, <1>2, <1>6 DEF OnDisk
  <2>2. BitmapIs /\ bitmap' = bitmap \cup InHand(f)
    BY <1>1, <1>4 DEF AllocIInv
  <2>3. \A g \in Writer : OnDisk(g) \subseteq bitmap
    BY <2>2 DEF BitmapIs
  <2> HIDE DEF OnDisk
  <2> QED
    BY <1>3, <2>1, <2>2, <2>3, BitmapMoves
<1>11. ASSUME NEW p \in Listed, NEW b \in PaBlocks(p) \cap Owned[f]
       PROVE  Backs(p, f, b)'
  <2>1. Backs(p, f, b)
    BY DEF AllocIInv, PaOwn, Listed
  <2> QED
    BY <1>1, <1>2, <1>6, <2>1 DEF Backs
<1>12. pending' = pending /\ core' = core /\ bbFree' = bbFree
  BY <1>1
<1> QED
  BY <1>3, <1>5, <1>6, <1>7, <1>8, <1>9, <1>10, <1>11, <1>12, Calm

LEMMA NoSpaceHolds ==
  ASSUME AllocIInv, NEW f \in Writer, NoSpace(f) PROVE AllocIInv'
<1> DEFINE p == ctx[f].pa
<1>1. /\ AllocShape /\ ctx[f].at = "discard" /\ Ctx(f, NoContext)
      /\ pas' = [pas EXCEPT ![p] = NoPrealloc]
      /\ lg' = IF lg = f THEN NoFile ELSE lg
      /\ UNCHANGED <<bitmap, core, bbFree, pending, map>>
  BY DEF AllocIInv, NoSpace
<1>2. /\ ctx' \in [Writer -> Context] /\ ctx'[f] = NoContext
      /\ \A g \in Writer : g # f => ctx'[g] = ctx[g]
  BY <1>1, NothingIs, CtxIs
<1>3. OnlyFile(f)
  BY <1>1, <1>2, AllocConst DEF OnlyFile
<1>4. p \in Pa /\ Holds(f, p) /\ FileSound(f) /\ ctx[f].freeing = {}
  BY <1>1 DEF AllocIInv, FileSound, SeekSound, Holds, Seeking
<1>5. p \notin Listed /\ \A g \in Writer : g # f => ~Holds(g, p)
  BY <1>1, <1>4, HeldIs DEF Seeking
<1> HIDE DEF p
<1>6. pas' \in [Pa -> Prealloc] /\ pas'[p] = NoPrealloc /\ \A q \in Pa : q # p => pas'[q] = pas[q]
  BY <1>1, <1>4, NothingIs DEF AllocShape
<1>7. AllocShape'
  BY <1>1, <1>2, <1>6 DEF AllocShape, Lblk, Cluster
<1>8. Mapped(f)' = Mapped(f) /\ InHand(f)' = {} /\ InHand(f) = {}
  BY <1>1, <1>2, <1>4, InHandIs, NothingIs DEF Mapped, Lblk, Taken
<1>9. Owned'[f] = Owned[f] /\ OnDisk(f)' = OnDisk(f)
  BY <1>1, <1>2, <1>8, OwnedIs, NothingIs DEF OnDisk
<1>10. OthersPas(f)
  BY <1>4, <1>5, <1>6, NothingIs, OnlyHeld
<1>11. \A q \in Pa : \/ SameCells(q) /\ pas'[q].unused = pas[q].unused
                     \/ q \notin Listed /\ q \notin Listed'
  BY <1>5, <1>6, NothingIs DEF SameCells, Listed
<1>12. \A q \in Pa : PaHeld(q)'
  <2> SUFFICES ASSUME NEW q \in Pa PROVE PaHeld(q)'
    OBVIOUS
  <2>1. ~Holds(f, q)' /\ ~Uses(f, q)'
    BY <1>2, NothingIs DEF Holds, Uses, Seeking
  <2>2. CASE q = p
    BY <1>3, <1>5, <1>6, <2>1, <2>2, NothingIs, HeldFreed
  <2>3. CASE q # p
    <3>1. ~Holds(f, q) /\ ~Uses(f, q)
      BY <2>3 DEF Holds, Uses, p
    <3> QED
      BY <1>3, <1>6, <2>1, <2>3, <3>1, HeldKeeps DEF AllocIInv
  <2> QED
    BY <2>2, <2>3
<1>13. FileSound(f)'
  <2>1. ctx'[f].at = "idle" /\ ctx'[f] = NoContext' /\ lg' # f
    BY <1>1, <1>2, NothingIs, AllocConst DEF NoContext
  <2> QED
    BY <2>1 DEF FileSound, SeekSound, TakenSound, HoldSound, DropSound, FlowSound,
       Seeking, Taken
<1>14. OwnDistinct(f)'
  BY <1>1, <1>8 DEF OwnDistinct, AllocIInv, Lblk
<1>15. BitmapIs'
  BY <1>1, <1>3, <1>9, BitmapSame DEF AllocIInv
<1>16. ASSUME NEW q \in Listed, NEW b \in PaBlocks(q) \cap Owned[f]
       PROVE  Backs(q, f, b)'
  <2>1. Backs(q, f, b)
    BY DEF AllocIInv, PaOwn, Listed
  <2>2. pas'[q] = pas[q]
    BY <1>5, <1>6 DEF Listed
  <2> QED
    BY <1>1, <1>2, <2>1, <2>2, NothingIs DEF Backs, AtSlot, Taken, Lblk
<1> QED
  BY <1>1, <1>3, <1>7, <1>9, <1>10, <1>11, <1>12, <1>13, <1>14, <1>15, <1>16, Calm

-----------------------------------------------------------------------------
(* What was in the hand becomes the file's: the same clusters, at the      *)
(* logical blocks they were reserved for.                                  *)
LEMMA InsertHolds ==
  ASSUME AllocIInv, NEW f \in Writer, Insert(f) PROVE AllocIInv'
<1> DEFINE c == ctx[f]
           new == [l \in Lblk(f) |->
                     IF l \in Run(c.lblk, c.got) THEN c.start + (l - c.lblk) ELSE map[f][l]]
<1>1. /\ AllocShape /\ c.at = "insert" /\ Ctx(f, NoContext)
      /\ map' = [map EXCEPT ![f] = new]
      /\ lg' = IF lg = f THEN NoFile ELSE lg
      /\ UNCHANGED <<bitmap, core, bbFree, pas, pending>>
  BY DEF AllocIInv, Insert
<1>2. /\ ctx' \in [Writer -> Context] /\ ctx'[f] = NoContext
      /\ \A g \in Writer : g # f => ctx'[g] = ctx[g]
  BY <1>1, NothingIs, CtxIs
<1>3. /\ map = [g \in Writer |-> map[g]] /\ map'[f] = new
      /\ \A g \in Writer : g # f => map'[g] = map[g]
      /\ map' = [g \in Writer |-> map'[g]]
  BY <1>1 DEF AllocShape
<1>4. OnlyFile(f)
  BY <1>1, <1>2, <1>3, AllocConst DEF OnlyFile
<1>5. /\ FileSound(f) /\ c \in Context /\ OwnDistinct(f)
      /\ c.start \in Nat /\ c.got \in Nat /\ c.start + c.got <= Blocks
      /\ \A l \in Run(c.lblk, c.got) : l \in Lblk(f) /\ map[f][l] = NoBlock
  BY <1>1, ShapeIs DEF AllocIInv, FileSound, TakenSound, Taken, Unmapped
<1>6. /\ InHand(f) = Run(c.start, c.got) /\ InHand(f)' = {}
      /\ InHand(f) \in SUBSET Cluster
  BY <1>1, <1>2, <1>5, InHandIs, InHandCluster, NothingIs DEF Taken, FileSound
<1>7. /\ c.lblk \in Int /\ Lblk(f) \subseteq Int /\ NoBlock = -1 /\ Cluster \subseteq Nat
      /\ Lblk(f)' = Lblk(f) /\ NoBlock' = NoBlock
  BY <1>5, AllocConst DEF Context, Lblk, NoBlock, Cluster
<1>8. \A l \in Run(c.lblk, c.got) :
        /\ l \in Lblk(f) /\ new[l] = c.start + (l - c.lblk) /\ new[l] \in InHand(f)
  <2> SUFFICES ASSUME NEW l \in Run(c.lblk, c.got)
               PROVE  /\ l \in Lblk(f) /\ new[l] = c.start + (l - c.lblk)
                      /\ new[l] \in InHand(f)
    OBVIOUS
  <2>1. l \in Lblk(f) /\ new[l] = c.start + (l - c.lblk)
    BY <1>5
  <2> HIDE DEF c, new
  <2>2. c.start + (l - c.lblk) \in Run(c.start, c.got)
    BY <1>5, <1>7 DEF Run
  <2> QED
    BY <1>6, <2>1, <2>2
<1>9. \A l \in Lblk(f) : l \notin Run(c.lblk, c.got) => new[l] = map[f][l]
  OBVIOUS
<1>10. \A b \in InHand(f) : /\ c.lblk + (b - c.start) \in Run(c.lblk, c.got)
                            /\ new[c.lblk + (b - c.start)] = b
  <2> SUFFICES ASSUME NEW b \in InHand(f)
               PROVE  /\ c.lblk + (b - c.start) \in Run(c.lblk, c.got)
                      /\ new[c.lblk + (b - c.start)] = b
    OBVIOUS
  <2> HIDE DEF c, new
  <2>1. b \in Int /\ c.lblk + (b - c.start) \in Run(c.lblk, c.got)
    <3>1. b \in Run(c.start, c.got) /\ c.start \in Int /\ c.got \in Int /\ c.lblk \in Int
      BY <1>5, <1>6, <1>7
    <3> QED
      BY <3>1 DEF Run
  <2>2. new[c.lblk + (b - c.start)] = c.start + ((c.lblk + (b - c.start)) - c.lblk)
    BY <1>8, <2>1
  <2> QED
    BY <1>5, <1>7, <2>1, <2>2
<1>11. new \in [Lblk(f) -> Cluster \cup {NoBlock}]
  <2>1. \A l \in Lblk(f) : map[f][l] \in Cluster \cup {NoBlock}
    BY <1>1, ShapeIs
  <2>2. \A l \in Lblk(f) : new[l] \in Cluster \cup {NoBlock}
    BY <1>6, <1>8, <1>9, <2>1
  <2> QED
    BY <2>2
<1> HIDE DEF new
<1>12. AllocShape'
  <2>1. \A g \in Writer : map'[g] \in [Lblk(g) -> Cluster \cup {NoBlock}]
    BY <1>1, <1>3, <1>11 DEF AllocShape
  <2>2. lg' \in Writer \cup {NoFile}
    BY <1>1 DEF AllocShape
  <2> QED
    BY <1>1, <1>2, <1>3, <2>1, <2>2 DEF AllocShape, Lblk, Cluster, NoBlock
<1>13. Mapped(f)' = Mapped(f) \cup InHand(f)
  <2>1. Mapped(f) = {map[f][l] : l \in Lblk(f)} \ {NoBlock}
    BY DEF Mapped
  <2>2. Mapped(f)' = {new[l] : l \in Lblk(f)} \ {NoBlock}
    BY <1>3, <1>7 DEF Mapped
  <2>3. ASSUME NEW b \in Mapped(f)' PROVE b \in Mapped(f) \cup InHand(f)
    BY <1>8, <1>9, <2>1, <2>2
  <2>4. ASSUME NEW b \in Mapped(f) PROVE b \in Mapped(f)'
    <3>1. PICK l \in Lblk(f) : map[f][l] = b /\ b # NoBlock
      BY <2>1
    <3> QED
      BY <1>5, <1>9, <2>2, <3>1
  <2>5. ASSUME NEW b \in InHand(f) PROVE b \in Mapped(f)'
    <3>1. b # NoBlock
      BY <1>6, <1>7
    <3> QED
      BY <1>8, <1>10, <2>2, <3>1
  <2> QED
    BY <2>3, <2>4, <2>5
<1>14. Owned'[f] = Owned[f] /\ OnDisk(f)' = OnDisk(f)
  BY <1>1, <1>2, <1>6, <1>13, OwnedIs, NothingIs DEF OnDisk
<1>15. OwnDistinct(f)'
  <2>1. ASSUME NEW l \in Lblk(f), NEW m \in Lblk(f), l # m, new[l] # NoBlock
        PROVE  new[l] # new[m]
    <3>1. CASE l \in Run(c.lblk, c.got) /\ m \in Run(c.lblk, c.got)
      BY <1>5, <1>7, <1>8, <2>1, <3>1
    <3>2. CASE l \in Run(c.lblk, c.got) /\ m \notin Run(c.lblk, c.got)
      <4>1. new[l] \in InHand(f) /\ new[m] = map[f][m]
        BY <1>8, <1>9, <3>2
      <4> QED
        BY <1>5, <2>1, <4>1 DEF OwnDistinct, Mapped
    <3>3. CASE l \notin Run(c.lblk, c.got) /\ m \in Run(c.lblk, c.got)
      <4>1. new[m] \in InHand(f) /\ new[l] = map[f][l]
        BY <1>8, <1>9, <3>3
      <4> QED
        BY <1>5, <2>1, <4>1 DEF OwnDistinct, Mapped
    <3>4. CASE l \notin Run(c.lblk, c.got) /\ m \notin Run(c.lblk, c.got)
      BY <1>5, <1>9, <2>1, <3>4 DEF OwnDistinct
    <3> QED
      BY <3>1, <3>2, <3>3, <3>4
  <2> QED
    BY <1>3, <1>6, <1>7, <2>1 DEF OwnDistinct
<1>16. OthersPas(f) /\ \A p \in Pa : SameCells(p) /\ pas'[p].unused = pas[p].unused
  BY <1>1, PasStay
<1>17. \A p \in Pa : PaHeld(p)'
  <2> SUFFICES ASSUME NEW p \in Pa PROVE PaHeld(p)'
    OBVIOUS
  <2>1. (Holds(f, p)' <=> Holds(f, p)) /\ (Uses(f, p)' <=> Uses(f, p))
    BY <1>1, <1>2, NothingIs DEF Holds, Uses, Seeking
  <2> QED
    BY <1>1, <1>4, <2>1, HeldKeeps DEF AllocIInv
<1>18. FileSound(f)'
  <2>1. ctx'[f].at = "idle" /\ ctx'[f] = NoContext' /\ lg' # f
    BY <1>1, <1>2, NothingIs, AllocConst DEF NoContext
  <2> QED
    BY <2>1 DEF FileSound, SeekSound, TakenSound, HoldSound, DropSound, FlowSound,
       Seeking, Taken
<1>19. BitmapIs'
  BY <1>1, <1>4, <1>14, BitmapSame DEF AllocIInv
<1>20. ASSUME NEW p \in Listed, NEW b \in PaBlocks(p) \cap Owned[f]
       PROVE  Backs(p, f, b)'
  <2>1. Backs(p, f, b) /\ p \in Pa
    BY DEF AllocIInv, PaOwn, Listed
  <2>2. b # NoBlock
    BY <1>6, <1>7, OwnedIs DEF Mapped
  <2>3. \A l : AtSlot(f, l, b) => AtSlot(f, l, b)'
    <3> SUFFICES ASSUME NEW l, AtSlot(f, l, b) PROVE l \in Lblk(f) /\ new[l] = b
      BY <1>3, <1>7 DEF AtSlot
    <3>1. CASE l \in Lblk(f) /\ map[f][l] = b
      BY <1>5, <1>9, <2>2, <3>1
    <3>2. CASE b \in InHand(f) /\ l = c.lblk + (b - c.start)
      BY <1>8, <1>10, <3>2
    <3> QED
      BY <1>1, <3>1, <3>2 DEF AtSlot
  <2> QED
    BY <1>1, <1>2, <2>1, <2>3, NothingIs DEF Backs
<1> QED
  BY <1>1, <1>4, <1>12, <1>14, <1>15, <1>16, <1>17, <1>18, <1>19, <1>20, Calm

LEMMA InsertFailsHolds ==
  ASSUME AllocIInv, NEW f \in Writer, InsertFails(f) PROVE AllocIInv'
<1> DEFINE c == ctx[f]
           d == [NoContext EXCEPT !.at = "collect", !.freeing = Run(c.start, c.got)]
<1>1. /\ AllocShape /\ c.at = "insert" /\ Ctx(f, d)
      /\ lg' = IF lg = f THEN NoFile ELSE lg
      /\ UNCHANGED <<bitmap, core, bbFree, pas, pending, map>>
  BY DEF AllocIInv, InsertFails
<1>2. /\ InHand(f) = Run(c.start, c.got) /\ InHand(f) \in SUBSET Cluster
      /\ FileSound(f)
  BY <1>1, InHandIs, InHandCluster DEF Taken, FileSound, AllocIInv
<1>3. d \in Context
  BY <1>2, NothingIs DEF Context, Steps
<1>4. d.at = "collect" /\ d.freeing = InHand(f) /\ d.pa = NoPa
  BY <1>2, NothingIs DEF Context
<1> HIDE DEF d
<1>5. /\ ctx' \in [Writer -> Context] /\ ctx'[f] = d
      /\ \A g \in Writer : g # f => ctx'[g] = ctx[g]
  BY <1>1, <1>3, CtxIs
<1>6. OnlyFile(f)
  BY <1>1, <1>5, AllocConst DEF OnlyFile
<1>7. AllocShape'
  BY <1>1, <1>5 DEF AllocShape, Lblk, Cluster
<1>8. Mapped(f)' = Mapped(f) /\ InHand(f)' = InHand(f)
  BY <1>1, <1>4, <1>5, InHandIs DEF Mapped, Lblk, Taken
<1>9. Owned'[f] = Owned[f] /\ OnDisk(f)' = OnDisk(f)
  BY <1>1, <1>4, <1>5, <1>8, OwnedIs DEF OnDisk
<1>10. OthersPas(f) /\ \A p \in Pa : SameCells(p) /\ pas'[p].unused = pas[p].unused
  BY <1>1, PasStay
<1>11. \A p \in Pa : PaHeld(p)'
  <2> SUFFICES ASSUME NEW p \in Pa PROVE PaHeld(p)'
    OBVIOUS
  <2>1. (Holds(f, p)' <=> Holds(f, p)) /\ (Uses(f, p)' <=> Uses(f, p))
    BY <1>1, <1>4, <1>5 DEF Holds, Uses, Seeking
  <2> QED
    BY <1>1, <1>6, <2>1, HeldKeeps DEF AllocIInv
<1>12. FileSound(f)'
  <2>1. ctx'[f].at = "collect" /\ lg' # f
    BY <1>1, <1>4, <1>5, AllocConst
  <2> QED
    BY <2>1 DEF FileSound, SeekSound, TakenSound, HoldSound, DropSound, FlowSound,
       Seeking, Taken
<1>13. OwnDistinct(f)'
  BY <1>1, <1>8 DEF OwnDistinct, AllocIInv, Lblk
<1>14. BitmapIs'
  BY <1>1, <1>6, <1>9, BitmapSame DEF AllocIInv
<1>15. ASSUME NEW p \in Listed, NEW b \in PaBlocks(p) \cap Owned[f]
       PROVE  Backs(p, f, b)'
  <2>1. Backs(p, f, b)
    BY DEF AllocIInv, PaOwn, Listed
  <2> QED
    BY <1>1, <1>4, <1>5, <2>1 DEF Backs, AtSlot
<1> QED
  BY <1>1, <1>6, <1>7, <1>9, <1>10, <1>11, <1>12, <1>13, <1>14, <1>15, Calm

(* What is cut off is in the hand.                                         *)
LEMMA TruncateFileHolds ==
  ASSUME AllocIInv, NEW f \in Writer, TruncateFile(f) PROVE AllocIInv'
<1>1. PICK l0 \in Lblk(f) :
        LET cut == {b \in Lblk(f) : b >= l0 /\ map[f][b] # NoBlock} IN
        /\ map' = [map EXCEPT ![f] = [b \in Lblk(f) |-> IF b \in cut THEN NoBlock
                                                        ELSE map[f][b]]]
        /\ Ctx(f, [NoContext EXCEPT !.at = "collect", !.freeing = {map[f][b] : b \in cut}])
  BY DEF TruncateFile
<1> DEFINE cut == {b \in Lblk(f) : b >= l0 /\ map[f][b] # NoBlock}
           new == [b \in Lblk(f) |-> IF b \in cut THEN NoBlock ELSE map[f][b]]
           freed == {map[f][b] : b \in cut}
           d == [NoContext EXCEPT !.at = "collect", !.freeing = freed]
<1>2. /\ AllocShape /\ ctx[f].at = "idle" /\ Ctx(f, d)
      /\ map' = [map EXCEPT ![f] = new]
      /\ UNCHANGED <<bitmap, core, bbFree, pas, pending, lg>>
  BY <1>1 DEF AllocIInv, TruncateFile
<1>3. \A l \in Lblk(f) : map[f][l] \in Cluster \cup {NoBlock}
  BY <1>2, ShapeIs
<1>4. /\ FileSound(f) /\ OwnDistinct(f) /\ ctx[f] = NoContext /\ lg # f
  BY <1>2 DEF AllocIInv, FileSound, FlowSound, Seeking, Taken
<1>5. /\ \A l \in cut : l \in Lblk(f) /\ map[f][l] # NoBlock /\ new[l] = NoBlock
      /\ \A l \in Lblk(f) : l \notin cut => new[l] = map[f][l]
      /\ \A b : b \in freed <=> \E l \in cut : b = map[f][l]
  OBVIOUS
<1>6. new \in [Lblk(f) -> Cluster \cup {NoBlock}]
  BY <1>3
<1> HIDE DEF cut, new, freed
<1>7. freed \in SUBSET Cluster
  BY <1>3, <1>5
<1>8. d \in Context
  BY <1>7, NothingIs DEF Context, Steps
<1>9. d.at = "collect" /\ d.freeing = freed /\ d.pa = NoPa
  BY NothingIs DEF Context
<1> HIDE DEF d
<1>10. /\ ctx' \in [Writer -> Context] /\ ctx'[f] = d
       /\ \A g \in Writer : g # f => ctx'[g] = ctx[g]
  BY <1>2, <1>8, CtxIs
<1>11. /\ map'[f] = new /\ \A g \in Writer : g # f => map'[g] = map[g]
       /\ map' = [g \in Writer |-> map'[g]]
  BY <1>2 DEF AllocShape
<1>12. OnlyFile(f)
  BY <1>2, <1>10, <1>11 DEF OnlyFile
<1>13. AllocShape'
  <2>1. \A g \in Writer : map'[g] \in [Lblk(g) -> Cluster \cup {NoBlock}]
    BY <1>2, <1>6, <1>11 DEF AllocShape
  <2> QED
    BY <1>2, <1>10, <1>11, <2>1 DEF AllocShape, Lblk, Cluster, NoBlock
<1>14. InHand(f)' = freed /\ InHand(f) = {}
  BY <1>2, <1>4, <1>9, <1>10, InHandIs, NothingIs DEF Taken
<1>15. Mapped(f)' \cup freed = Mapped(f) /\ Mapped(f)' \cap freed = {}
  <2>1. Mapped(f) = {map[f][l] : l \in Lblk(f)} \ {NoBlock}
    BY DEF Mapped
  <2>2. Mapped(f)' = {new[l] : l \in Lblk(f)} \ {NoBlock}
    BY <1>11 DEF Mapped, Lblk, NoBlock
  <2>3. ASSUME NEW b \in Mapped(f)' PROVE b \in Mapped(f) /\ b \notin freed
    <3>1. PICK l \in Lblk(f) : new[l] = b /\ b # NoBlock
      BY <2>2
    <3>2. l \notin cut /\ map[f][l] = b
      BY <1>5, <3>1
    <3>3. \A m \in cut : map[f][m] # b
      BY <1>4, <1>5, <3>1, <3>2 DEF OwnDistinct
    <3> QED
      BY <1>5, <2>1, <3>1, <3>2, <3>3
  <2>4. ASSUME NEW b \in Mapped(f), b \notin freed PROVE b \in Mapped(f)'
    <3>1. PICK l \in Lblk(f) : map[f][l] = b /\ b # NoBlock
      BY <2>1
    <3>2. l \notin cut
      BY <1>5, <2>4, <3>1
    <3> QED
      BY <1>5, <2>2, <3>1, <3>2
  <2>5. ASSUME NEW b \in freed PROVE b \in Mapped(f)
    BY <1>5, <2>1
  <2> QED
    BY <2>3, <2>4, <2>5
<1>16. Owned'[f] = Owned[f] /\ OnDisk(f)' = OnDisk(f)
  <2>1. OnDisk(f)' = Mapped(f)' \cup freed /\ OnDisk(f) = Mapped(f)
    BY <1>2, <1>9, <1>10, <1>14 DEF OnDisk
  <2> QED
    BY <1>14, <1>15, <2>1, OwnedIs
<1>17. OwnDistinct(f)'
  <2>1. ASSUME NEW l \in Lblk(f), NEW m \in Lblk(f), l # m, new[l] # NoBlock
        PROVE  new[l] # new[m]
    <3>1. l \notin cut /\ new[l] = map[f][l]
      BY <1>5, <2>1
    <3> QED
      BY <1>4, <1>5, <2>1, <3>1 DEF OwnDistinct
  <2>2. Lblk(f)' = Lblk(f) /\ NoBlock' = NoBlock
    BY DEF Lblk, NoBlock
  <2> QED
    BY <1>11, <1>14, <1>15, <2>1, <2>2 DEF OwnDistinct
<1>18. OthersPas(f) /\ \A p \in Pa : SameCells(p) /\ pas'[p].unused = pas[p].unused
  BY <1>2, PasStay
<1>19. \A p \in Pa : PaHeld(p)'
  <2> SUFFICES ASSUME NEW p \in Pa PROVE PaHeld(p)'
    OBVIOUS
  <2>1. (Holds(f, p)' <=> Holds(f, p)) /\ (Uses(f, p)' <=> Uses(f, p))
    BY <1>2, <1>9, <1>10 DEF Holds, Uses, Seeking
  <2> QED
    BY <1>2, <1>12, <2>1, HeldKeeps DEF AllocIInv
<1>20. FileSound(f)'
  <2>1. ctx'[f].at = "collect" /\ lg' # f
    BY <1>2, <1>4, <1>9, <1>10
  <2> QED
    BY <2>1 DEF FileSound, SeekSound, TakenSound, HoldSound, DropSound, FlowSound,
       Seeking, Taken
<1>21. BitmapIs'
  BY <1>2, <1>12, <1>16, BitmapSame DEF AllocIInv
<1>22. ASSUME NEW p \in Listed, NEW b \in PaBlocks(p) \cap Owned[f]
       PROVE  Backs(p, f, b)'
  <2>1. Backs(p, f, b)
    BY DEF AllocIInv, PaOwn, Listed
  <2> QED
    BY <1>2, <1>9, <1>10, <2>1 DEF Backs, AtSlot
<1> QED
  BY <1>2, <1>12, <1>13, <1>16, <1>17, <1>18, <1>19, <1>20, <1>21, <1>22, Calm

LEMMA CollectPasHolds ==
  ASSUME AllocIInv, NEW f \in Writer, CollectPas(f) PROVE AllocIInv'
<1>1. /\ AllocShape /\ ctx[f].at = "collect" /\ GoTo(f, "release pas")
      /\ "release pas" \in Steps
      /\ pas' = [p \in Pa |-> IF p \in OfFile(f) THEN [pas[p] EXCEPT !.deleted = TRUE]
                              ELSE pas[p]]
      /\ UNCHANGED <<bitmap, core, bbFree, pending, lg, map>>
  BY DEF AllocIInv, CollectPas, Steps
<1>2. /\ ctx' \in [Writer -> Context]
      /\ \A g \in Writer : g # f => ctx'[g] = ctx[g]
      /\ ctx'[f].at = "release pas" /\ ctx'[f].freeing = ctx[f].freeing
  BY <1>1, CtxGoes
<1>3. OnlyFile(f)
  BY <1>1, <1>2 DEF OnlyFile
<1>4. \A p \in Pa : /\ pas[p] \in Prealloc /\ SameCells(p)
                    /\ pas'[p].unused = pas[p].unused /\ pas'[p].count = pas[p].count
                    /\ pas'[p].deleted = (pas[p].deleted \/ p \in OfFile(f))
                    /\ p \notin OfFile(f) => pas'[p] = pas[p]
                    /\ pas'[p] \in Prealloc
  <2> SUFFICES ASSUME NEW p \in Pa
               PROVE  /\ pas[p] \in Prealloc /\ SameCells(p)
                      /\ pas'[p].unused = pas[p].unused /\ pas'[p].count = pas[p].count
                      /\ pas'[p].deleted = (pas[p].deleted \/ p \in OfFile(f))
                      /\ p \notin OfFile(f) => pas'[p] = pas[p]
                      /\ pas'[p] \in Prealloc
    OBVIOUS
  <2>1. pas[p] \in Prealloc
    BY <1>1, ShapeIs
  <2>2. CASE p \in OfFile(f)
    <3>1. pas'[p] = [pas[p] EXCEPT !.deleted = TRUE]
      BY <1>1, <2>2
    <3>2. pas'[p] \in Prealloc
      BY <2>1, <3>1 DEF Prealloc
    <3>3. SameCells(p) /\ pas'[p].unused = pas[p].unused /\ pas'[p].count = pas[p].count
      BY <2>1, <3>1 DEF Prealloc, SameCells
    <3>4. pas'[p].deleted = TRUE
      BY <2>1, <3>1 DEF Prealloc
    <3>5. pas[p].deleted \in BOOLEAN
      BY <2>1 DEF Prealloc
    <3> QED
      BY <2>1, <2>2, <3>2, <3>3, <3>4, <3>5
  <2>3. CASE p \notin OfFile(f)
    <3>1. pas'[p] = pas[p]
      BY <1>1, <2>3
    <3>2. pas[p].deleted \in BOOLEAN
      BY <2>1 DEF Prealloc
    <3> QED
      BY <2>1, <2>3, <3>1, <3>2 DEF SameCells
  <2> QED
    BY <2>2, <2>3
<1>5. AllocShape'
  <2>1. pas' \in [Pa -> Prealloc]
    BY <1>1, <1>4
  <2> QED
    BY <1>1, <1>2, <2>1 DEF AllocShape, Lblk, Cluster
<1>6. Mapped(f)' = Mapped(f) /\ InHand(f)' = InHand(f)
  BY <1>1, <1>2, InHandIs DEF Mapped, Lblk, Taken
<1>7. Owned'[f] = Owned[f] /\ OnDisk(f)' = OnDisk(f)
  BY <1>1, <1>2, <1>6, OwnedIs DEF OnDisk
<1>8. OthersPas(f)
  <2> SUFFICES ASSUME NEW p \in Pa, pas'[p] # pas[p], NEW g \in Writer, g # f
               PROVE  ~Holds(g, p) /\ ~(pas'[p].kind = "inode" /\ pas'[p].file = g)
    BY DEF OthersPas
  <2>1. p \in OfFile(f) /\ pas[p].kind = "inode" /\ pas[p].file = f /\ SameCells(p)
    BY <1>4 DEF OfFile
  <2>2. ~Holds(g, p)
    BY <2>1, HeldIs
  <2> QED
    BY <2>1, <2>2 DEF SameCells
<1>9. \A p \in Pa : PaHeld(p)'
  <2> SUFFICES ASSUME NEW p \in Pa PROVE PaHeld(p)'
    OBVIOUS
  <2>1. (Holds(f, p)' <=> Holds(f, p)) /\ (Uses(f, p)' <=> Uses(f, p))
    BY <1>1, <1>2 DEF Holds, Uses, Seeking
  <2> QED
    BY <1>3, <1>4, <2>1, HeldKeeps DEF AllocIInv
<1>10. FileSound(f)'
  <2>1. SeekSound(f)' /\ TakenSound(f)' /\ HoldSound(f)' /\ DropSound(f)'
    BY <1>2 DEF SeekSound, TakenSound, HoldSound, DropSound, Seeking, Taken
  <2>2. lg' # f
    BY <1>1 DEF AllocIInv, FileSound, FlowSound, Seeking, Taken
  <2>3. \A p \in OfFile(f)' : pas'[p].deleted
    <3> SUFFICES ASSUME NEW p \in OfFile(f)' PROVE pas'[p].deleted
      OBVIOUS
    <3>1. p \in Pa /\ p \in OfFile(f)
      BY <1>4 DEF OfFile, Listed, SameCells
    <3> QED
      BY <1>4, <3>1
  <2> QED
    BY <1>2, <2>1, <2>2, <2>3 DEF FileSound, FlowSound
<1>11. OwnDistinct(f)'
  BY <1>1, <1>6 DEF OwnDistinct, AllocIInv, Lblk
<1>12. BitmapIs'
  BY <1>1, <1>3, <1>7, BitmapSame DEF AllocIInv
<1>13. ASSUME NEW p \in Listed, NEW b \in PaBlocks(p) \cap Owned[f]
       PROVE  Backs(p, f, b)'
  <2>1. Backs(p, f, b) /\ p \in Pa
    BY DEF AllocIInv, PaOwn, Listed
  <2> QED
    BY <1>1, <1>2, <1>4, <2>1 DEF Backs, AtSlot, SameCells
<1> QED
  BY <1>1, <1>3, <1>4, <1>5, <1>7, <1>8, <1>9, <1>10, <1>11, <1>12, <1>13, Calm

(* No preallocation of the file is left when its clusters are cleared.     *)
LEMMA ClearOnDiskHolds ==
  ASSUME AllocIInv, NEW f \in Writer, ClearOnDisk(f) PROVE AllocIInv'
<1> DEFINE d == [ctx[f] EXCEPT !.at = "pend", !.pin = TRUE]
<1>1. /\ AllocShape /\ ctx[f].at = "release pas" /\ Ctx(f, d)
      /\ bitmap' = bitmap \ ctx[f].freeing
      /\ UNCHANGED <<core, bbFree, pas, pending, lg, map>>
  BY DEF AllocIInv, ClearOnDisk
<1>2. FileSound(f) /\ OfFile(f) = {} /\ lg # f
  BY <1>1 DEF AllocIInv, FileSound, FlowSound, ClearOnDisk, Seeking, Taken
<1>3. d \in Context /\ d.at = "pend" /\ d.pin = TRUE /\ d.freeing = ctx[f].freeing
  <2>1. ctx[f] \in Context /\ "pend" \in Steps
    BY <1>1, ShapeIs DEF Steps
  <2>2. d \in Context
    BY <2>1 DEF Context
  <2>3. d.at = "pend" /\ d.pin = TRUE /\ d.freeing = ctx[f].freeing
    BY <2>1 DEF Context
  <2> QED
    BY <2>2, <2>3
<1> HIDE DEF d
<1>4. /\ ctx' \in [Writer -> Context] /\ ctx'[f] = d
      /\ \A g \in Writer : g # f => ctx'[g] = ctx[g]
  BY <1>1, <1>3, CtxIs
<1>5. OnlyFile(f)
  BY <1>1, <1>4 DEF OnlyFile
<1>6. AllocShape'
  BY <1>1, <1>4 DEF AllocShape, Lblk, Cluster
<1>7. Mapped(f)' = Mapped(f) /\ InHand(f)' = InHand(f) /\ InHand(f) = ctx[f].freeing
  BY <1>1, <1>3, <1>4, InHandIs DEF Mapped, Lblk, Taken
<1>8. Owned'[f] = Owned[f]
  BY <1>7, OwnedIs
<1>9. OthersPas(f) /\ \A p \in Pa : SameCells(p) /\ pas'[p].unused = pas[p].unused
  BY <1>1, PasStay
<1>10. \A p \in Pa : PaHeld(p)'
  <2> SUFFICES ASSUME NEW p \in Pa PROVE PaHeld(p)'
    OBVIOUS
  <2>1. (Holds(f, p)' <=> Holds(f, p)) /\ (Uses(f, p)' <=> Uses(f, p))
    BY <1>1, <1>3, <1>4 DEF Holds, Uses, Seeking
  <2> QED
    BY <1>1, <1>5, <2>1, HeldKeeps DEF AllocIInv
<1>11. FileSound(f)'
  <2>1. SeekSound(f)' /\ TakenSound(f)' /\ HoldSound(f)' /\ DropSound(f)'
    BY <1>3, <1>4 DEF SeekSound, TakenSound, HoldSound, DropSound, Seeking, Taken
  <2>2. OfFile(f)' = {}
    BY <1>1, <1>2 DEF OfFile, Listed
  <2> QED
    BY <1>1, <1>2, <1>3, <1>4, <2>1, <2>2 DEF FileSound, FlowSound
<1>12. OwnDistinct(f)'
  BY <1>1, <1>7 DEF OwnDistinct, AllocIInv, Lblk
<1>13. BitmapIs'
  <2>1. OnDisk(f)' = Mapped(f) /\ OnDisk(f) = Mapped(f) \cup InHand(f)
    BY <1>1, <1>3, <1>4, <1>7 DEF OnDisk
  <2>2. BitmapIs /\ bitmap' = bitmap \ InHand(f) /\ Mapped(f) \cap InHand(f) = {}
    BY <1>1, <1>7 DEF AllocIInv, OwnDistinct
  <2>3. \A g \in Writer : OnDisk(g) \subseteq bitmap
    BY <2>2 DEF BitmapIs
  <2>4. ASSUME NEW g \in Writer, g # f, NEW b \in OnDisk(g) PROVE b \in bitmap'
    <3>1. b \in Owned[g]
      BY OwnedIs DEF OnDisk
    <3>2. b \notin Owned[f]
      BY <2>4, <3>1 DEF AllocIInv, Apart
    <3>3. b \notin InHand(f)
      BY <3>2, OwnedIs
    <3> QED
      BY <2>2, <2>3, <3>3
  <2> HIDE DEF OnDisk
  <2>5. \A b \in OnDisk(f)' : b \in bitmap'
    BY <2>1, <2>2, <2>3
  <2>6. \A b \in bitmap' : b \in OnDisk(f)' \/ (b \in bitmap /\ b \notin OnDisk(f))
    BY <2>1, <2>2
  <2> QED
    BY <1>5, <2>2, <2>4, <2>5, <2>6, BitmapMoves
<1>14. ASSUME NEW p \in Listed, NEW b \in PaBlocks(p) \cap Owned[f]
       PROVE  Backs(p, f, b)'
  <2>1. Backs(p, f, b) /\ p \in Pa
    BY DEF AllocIInv, PaOwn, Listed
  <2>2. pas[p].kind # "inode" /\ pas[p].kind # "group"
    BY <1>1, <1>2, <2>1 DEF Backs, OfFile, Listed
  <2> QED
    BY <2>2 DEF Listed
<1> QED
  BY <1>1, <1>5, <1>6, <1>8, <1>9, <1>10, <1>11, <1>12, <1>13, <1>14, Calm

(* Files that are idle hold nothing.                                       *)
LEMMA IdleIs ==
  ASSUME AllocIInv, NEW f \in Writer, ctx[f].at = "idle"
  PROVE  /\ ctx[f] = NoContext /\ InHand(f) = {} /\ lg # f
         /\ OnDisk(f) = Mapped(f) /\ Owned[f] = Mapped(f)
         /\ \A p : ~Holds(f, p) /\ ~Uses(f, p)
<1>1. ctx[f] = NoContext /\ lg # f
  BY DEF AllocIInv, FileSound, FlowSound, Seeking, Taken
<1>2. InHand(f) = {}
  BY <1>1, InHandIs, NothingIs DEF Taken
<1>3. \A p : ~Holds(f, p) /\ ~Uses(f, p)
  BY DEF Holds, Uses, Seeking
<1> QED
  BY <1>1, <1>2, <1>3, OwnedIs DEF OnDisk

LEMMA SearchHolds ==
  ASSUME AllocIInv, NEW f \in Writer, NEW l \in Lblk(f), NEW n \in 1..MaxLen,
         ctx[f].at = "idle", l + n <= Lblks[f],
         \A b \in Run(l, n) : map[f][b] = NoBlock,
         Search(f, l, n), UNCHANGED <<bitmap, core, bbFree, pending, map>>
  PROVE  AllocIInv'
<1>1. PICK p \in Pa, grouped \in BOOLEAN :
        /\ pas[p].kind = "free"
        /\ grouped => lg = NoFile
        /\ lg' = IF grouped THEN f ELSE lg
        /\ pas' = [pas EXCEPT ![p] = [NoPrealloc EXCEPT !.kind = "new", !.count = 1]]
        /\ \E g \in IF grouped THEN {<<l, GroupGoal>>} ELSE Goals(f, l) \cup {<<l, n>>} :
             Ctx(f, [NoContext EXCEPT !.at = "scan", !.lblk = l, !.len = n, !.pa = p,
                                 !.gstart = g[1], !.glen = g[2]])
  BY DEF Search
<1>2. PICK g1 \in Int, g2 \in Int :
        /\ l \in Run(g1, g2) /\ g2 >= 1
        /\ Ctx(f, [NoContext EXCEPT !.at = "scan", !.lblk = l, !.len = n, !.pa = p,
                                    !.gstart = g1, !.glen = g2])
  <2>1. PICK g \in IF grouped THEN {<<l, GroupGoal>>} ELSE Goals(f, l) \cup {<<l, n>>} :
             Ctx(f, [NoContext EXCEPT !.at = "scan", !.lblk = l, !.len = n, !.pa = p,
                                 !.gstart = g[1], !.glen = g[2]])
    BY <1>1
  <2>2. l \in Int /\ n \in Int /\ n >= 1 /\ GroupGoal \in Int /\ GroupGoal >= 1
        /\ Lblks[f] \in Nat
    BY AllocConst DEF Lblk
  <2>6. g[1] \in Int /\ g[2] \in Int /\ l \in Run(g[1], g[2]) /\ g[2] >= 1
    <3>1. g = <<l, GroupGoal>> \/ g = <<l, n>> \/ g \in Goals(f, l)
      BY <2>1
    <3>2. ASSUME g = <<l, GroupGoal>> \/ g = <<l, n>>
          PROVE  g[1] \in Int /\ g[2] \in Int /\ l \in Run(g[1], g[2]) /\ g[2] >= 1
      BY <2>2, <3>2 DEF Run
    <3>3. ASSUME g \in Goals(f, l)
          PROVE  g[1] \in Int /\ g[2] \in Int /\ l \in Run(g[1], g[2]) /\ g[2] >= 1
      BY <2>2, <3>3 DEF Goals, Lblk
    <3> QED
      BY <3>1, <3>2, <3>3
  <2> QED
    BY <2>1, <2>6, Zenon
<1> DEFINE d == [NoContext EXCEPT !.at = "scan", !.lblk = l, !.len = n, !.pa = p,
                                  !.gstart = g1, !.glen = g2]
           q == [NoPrealloc EXCEPT !.kind = "new", !.count = 1]
<1>3. /\ l \in Int /\ n \in Int /\ n >= 1 /\ Lblks[f] \in Nat /\ p # NoPa
      /\ \A b \in Run(l, n) : b \in Lblk(f)
  BY AllocConst DEF Lblk, Run
<1>a. NoContext \in Context /\ NoContext.freeing = {} /\ NoPrealloc \in Prealloc
      /\ "scan" \in Steps
  BY NothingIs DEF Steps, Seeking
<1>4. /\ d.at = "scan" /\ d.lblk = l /\ d.len = n /\ d.gstart = g1 /\ d.glen = g2
      /\ d.pa = p /\ d.freeing = {} /\ d \in Context
  <2>1. d.at = "scan" /\ d.lblk = l /\ d.len = n /\ d.pa = p
    BY <1>a DEF Context
  <2>2. d.gstart = g1 /\ d.glen = g2
    BY <1>a DEF Context
  <2>3. d.freeing = {}
    BY <1>a DEF Context
  <2>4. d \in Context
    BY <1>a, <1>3 DEF Context
  <2> QED
    BY <2>1, <2>2, <2>3, <2>4
<1>5. q.kind = "new" /\ q.count = 1 /\ q \in Prealloc
  <2>1. q.kind = "new" /\ q.count = 1
    BY <1>a DEF Prealloc
  <2>2. PICK m \in Int : m = 1
    OBVIOUS
  <2>3. q = [NoPrealloc EXCEPT !.kind = "new", !.count = m]
    BY <2>2
  <2>4. [NoPrealloc EXCEPT !.kind = "new", !.count = m] \in Prealloc
    BY <1>a DEF Prealloc
  <2>5. q \in Prealloc
    BY <2>3, <2>4
  <2> QED
    BY <2>1, <2>5
<1>6. Ctx(f, d) /\ pas' = [pas EXCEPT ![p] = q]
  BY <1>1, <1>2
<1> HIDE DEF d, q
<1>7. d \in Context /\ q \in Prealloc
  BY <1>4, <1>5
<1>8. /\ AllocShape
      /\ ctx' \in [Writer -> Context] /\ ctx'[f] = d
      /\ \A g \in Writer : g # f => ctx'[g] = ctx[g]
  BY <1>6, <1>7, CtxIs DEF AllocIInv
<1>9. pas' \in [Pa -> Prealloc] /\ pas'[p] = q /\ \A r \in Pa : r # p => pas'[r] = pas[r]
  BY <1>6, <1>7, <1>8 DEF AllocShape
<1>10. OnlyFile(f)
  BY <1>1, <1>8, AllocConst DEF OnlyFile
<1>11. AllocShape'
  <2>1. lg' \in Writer \cup {NoFile}
    BY <1>1, <1>8 DEF AllocShape
  <2> QED
    BY <1>8, <1>9, <2>1 DEF AllocShape, Lblk, Cluster
<1>12. /\ ctx[f] = NoContext /\ InHand(f) = {} /\ OnDisk(f) = Mapped(f)
       /\ Owned[f] = Mapped(f) /\ lg # f
       /\ \A r : ~Holds(f, r) /\ ~Uses(f, r)
  BY IdleIs
<1>13. Mapped(f)' = Mapped(f) /\ InHand(f)' = {}
  BY <1>4, <1>8, InHandIs DEF Mapped, Lblk, Taken
<1>14. Owned'[f] = Owned[f] /\ OnDisk(f)' = OnDisk(f)
  BY <1>4, <1>8, <1>12, <1>13, OwnedIs DEF OnDisk
<1>15. p \notin Listed /\ \A g \in Writer : ~Holds(g, p)
  BY <1>1, HeldIs DEF Listed
<1>16. OthersPas(f)
  BY <1>5, <1>9, <1>15, OnlyHeld
<1>17. \A r \in Pa : \/ SameCells(r) /\ pas'[r].unused = pas[r].unused
                     \/ r \notin Listed /\ r \notin Listed'
  BY <1>5, <1>9, <1>15 DEF SameCells, Listed
<1>18. \A r \in Pa : PaHeld(r)'
  <2> SUFFICES ASSUME NEW r \in Pa PROVE PaHeld(r)'
    OBVIOUS
  <2>1. CASE r = p
    <3>1. Uses(f, p)' /\ pas'[p].count = 1
      BY <1>4, <1>5, <1>8, <1>9 DEF Uses, Holds, Seeking
    <3> QED
      BY <1>10, <1>15, <2>1, <3>1, HeldTaken
  <2>2. CASE r # p
    <3>1. ~Holds(f, r)' /\ ~Uses(f, r)'
      BY <1>4, <1>8, <2>2 DEF Holds, Uses
    <3> QED
      BY <1>9, <1>10, <1>12, <2>2, <3>1, HeldKeeps DEF AllocIInv
  <2> QED
    BY <2>1, <2>2
<1>19. FileSound(f)'
  <2>1. SeekSound(f)'
    <3>1. Unmapped(f, n)'
      BY <1>3, <1>4, <1>8 DEF Unmapped, Lblk, Run, NoBlock
    <3> QED
      BY <1>2, <1>3, <1>4, <1>5, <1>8, <1>9, <3>1 DEF SeekSound, Unmapped, Run
  <2>2. TakenSound(f)' /\ HoldSound(f)' /\ DropSound(f)' /\ FlowSound(f)'
    BY <1>4, <1>8 DEF TakenSound, HoldSound, DropSound, FlowSound, Seeking, Taken
  <2> QED
    BY <2>1, <2>2 DEF FileSound
<1>20. OwnDistinct(f)'
  BY <1>13 DEF OwnDistinct, AllocIInv, Lblk
<1>21. BitmapIs'
  BY <1>10, <1>14, BitmapSame DEF AllocIInv
<1>22. ASSUME NEW r \in Listed, NEW b \in PaBlocks(r) \cap Owned[f]
       PROVE  Backs(r, f, b)'
  <2>1. Backs(r, f, b) /\ r \in Pa /\ pas'[r] = pas[r]
    BY <1>9, <1>15 DEF AllocIInv, PaOwn, Listed
  <2> QED
    BY <1>4, <1>8, <1>12, <2>1 DEF Backs, AtSlot, Lblk, Taken
<1>23. pending' = pending /\ core' = core /\ bbFree' = bbFree
  OBVIOUS
<1> QED
  BY <1>10, <1>11, <1>14, <1>16, <1>17, <1>18, <1>19, <1>20, <1>21, <1>22,
     <1>23, Calm

-----------------------------------------------------------------------------
(* Steps of the journal and of the cache: files and preallocations stay.   *)
LEMMA FilesStay ==
  ASSUME AllocIInv, UNCHANGED <<bitmap, pas, ctx, lg, map>>
  PROVE  /\ \A f \in Writer : FileSound(f)' /\ OwnDistinct(f)'
         /\ \A p \in Pa : PaHeld(p)' /\ PaSize(p)'
         /\ BitmapIs' /\ Used' = Used /\ Listed' = Listed
         /\ \A f \in Writer : Owned'[f] = Owned[f]
         /\ \A p \in Pa : PaBlocks(p)' = PaBlocks(p)
         /\ \A p \in Pa, f \in Writer : \A b : Backs(p, f, b)' <=> Backs(p, f, b)
<1>1. \A f \in Writer : InHand(f)' = InHand(f) /\ Mapped(f)' = Mapped(f)
  BY DEF InHand, Run, Mapped, Lblk, NoBlock
<1>2. \A f \in Writer : Owned'[f] = Owned[f] /\ OnDisk(f)' = OnDisk(f)
  BY <1>1, OwnedIs DEF OnDisk
<1>3. Listed' = Listed /\ \A p \in Pa : PaBlocks(p)' = PaBlocks(p)
  BY DEF Listed, PaBlocks, Run
<1>4. Used' = Used
  BY <1>2 DEF Used
<1>5. ASSUME NEW f \in Writer PROVE FileSound(f)' /\ OwnDistinct(f)'
  <2>1. OfFile(f)' = OfFile(f) /\ FileSound(f) /\ OwnDistinct(f)
    BY <1>3 DEF OfFile, AllocIInv
  <2>2. SeekSound(f)' /\ TakenSound(f)'
    BY <2>1
    DEF FileSound, SeekSound, TakenSound, Unmapped, Lblk, Run, Cluster, NoBlock
  <2>3. HoldSound(f)' /\ DropSound(f)'
    BY <2>1, <1>3 DEF FileSound, HoldSound, DropSound, PaBlocks, Listed, Run
  <2>4. FlowSound(f)'
    BY <2>1 DEF FileSound, FlowSound, NoContext
  <2>5. OwnDistinct(f)'
    BY <1>1, <2>1 DEF OwnDistinct, Lblk, NoBlock
  <2> QED
    BY <2>2, <2>3, <2>4, <2>5 DEF FileSound
<1>6. ASSUME NEW p \in Pa PROVE PaHeld(p)' /\ PaSize(p)'
  <2>1. PaHeld(p)'
    BY DEF AllocIInv, PaHeld, Holds, Uses
  <2>2. SameCells(p) /\ pas'[p].unused = pas[p].unused
    BY DEF SameCells
  <2>3. PaSize(p)'
    BY <1>4, <2>2, SizeKeeps DEF AllocIInv
  <2> QED
    BY <2>1, <2>3
<1>7. BitmapIs'
  BY <1>2 DEF AllocIInv, BitmapIs
<1>8. ASSUME NEW p \in Pa, NEW f \in Writer, NEW b
      PROVE  Backs(p, f, b)' <=> Backs(p, f, b)
  <2>1. \A l : AtSlot(f, l, b)' <=> AtSlot(f, l, b)
    BY <1>1 DEF AtSlot, Lblk
  <2> QED
    BY <1>1, <2>1 DEF Backs
<1> QED
  BY <1>2, <1>3, <1>4, <1>5, <1>6, <1>7, <1>8

LEMMA WaitingMoves ==
  ASSUME AllocIInv, AllocShape', UNCHANGED <<bitmap, pas, ctx, lg, map>>,
         Waiting' \subseteq Waiting, pending'.running \cap pending'.committing = {},
         core' = Used \cup InReserve \cup Waiting',
         bbFree' = Blocks - Cardinality(core')
  PROVE  AllocIInv'
<1>1. /\ \A f \in Writer : FileSound(f)' /\ OwnDistinct(f)'
      /\ \A p \in Pa : PaHeld(p)' /\ PaSize(p)'
      /\ BitmapIs' /\ Used' = Used /\ Listed' = Listed
      /\ \A f \in Writer : Owned'[f] = Owned[f]
      /\ \A p \in Pa : PaBlocks(p)' = PaBlocks(p)
      /\ \A p \in Pa, f \in Writer : \A b : Backs(p, f, b)' <=> Backs(p, f, b)
  BY FilesStay
<1>2. \A p \in Pa : PaOwn(p)'
  <2> SUFFICES ASSUME NEW p \in Pa, p \in Listed PROVE PaOwn(p)'
    BY <1>1 DEF PaOwn
  <2>1. PaOwn(p) /\ Listed \subseteq Pa
    BY DEF AllocIInv, Listed
  <2>2. \A q \in Listed' : q # p => PaBlocks(p)' \cap PaBlocks(q)' = {}
    BY <1>1, <2>1 DEF PaOwn
  <2>3. PaBlocks(p)' \cap Waiting' = {}
    BY <1>1, <2>1 DEF PaOwn
  <2>4. \A f \in Writer : \A b \in PaBlocks(p)' \cap Owned'[f] : Backs(p, f, b)'
    BY <1>1, <2>1 DEF PaOwn
  <2> QED
    BY <2>2, <2>3, <2>4 DEF PaOwn
<1>3. Apart'
  BY <1>1 DEF AllocIInv, Apart
<1>4. CoreIs'
  <2>1. Listed \subseteq Pa
    BY DEF Listed
  <2>2. InReserve' = InReserve
    BY <1>1, <2>1 DEF InReserve
  <2>3. Accounted' = core'
    BY <1>1, <2>2 DEF Accounted
  <2> QED
    BY <2>3 DEF CoreIs
<1> QED
  BY <1>1, <1>2, <1>3, <1>4 DEF AllocIInv

LEMMA AllocStutter == AllocIInv /\ UNCHANGED allocVars => AllocIInv'
<1> SUFFICES ASSUME AllocIInv, UNCHANGED allocVars PROVE AllocIInv'
  OBVIOUS
<1>1. UNCHANGED <<bitmap, core, bbFree, pas, pending, ctx, lg, map>>
  BY DEF allocVars
<1>2. Waiting' = Waiting /\ pending'.running \cap pending'.committing = {}
  BY <1>1 DEF Waiting, AllocIInv, Apart
<1>3. AllocShape'
  BY <1>1 DEF AllocIInv, AllocShape, Lblk, Cluster
<1>4. /\ core' = Used \cup InReserve \cup Waiting'
      /\ bbFree' = Blocks - Cardinality(core')
  BY <1>1, <1>2 DEF AllocIInv, CoreIs, Accounted
<1> QED
  BY <1>1, <1>2, <1>3, <1>4, WaitingMoves

(* A page that nobody holds is generated as it was: every cluster that is  *)
(* accounted for is on disk or in a preallocation.                         *)
LEMMA ReloadHolds == ASSUME AllocIInv, Reload PROVE AllocIInv'
<1>1. /\ Waiting = {} /\ \A f \in Writer : ~ctx[f].pin
      /\ core' = Regenerated
      /\ UNCHANGED <<bitmap, bbFree, pas, pending, ctx, lg, map>>
  BY DEF Reload, Held, Waiting
<1>2. core = Used \cup InReserve
  BY <1>1 DEF AllocIInv, CoreIs, Accounted
<1>3. ASSUME NEW f \in Writer, NEW b \in Owned[f]
      PROVE  b \in bitmap \/ \E p \in Listed : b \in PaBlocks(p)
  <2>1. FileSound(f) /\ OnDisk(f) \subseteq bitmap
    BY DEF AllocIInv, BitmapIs
  <2>2. CASE ctx[f].at = "mark"
    <3>1. ctx[f].pa # NoPa /\ ctx[f].pa \in Listed
      BY <1>1, <2>1, <2>2 DEF FileSound, FlowSound, HoldSound
    <3>2. InHand(f) \subseteq PaBlocks(ctx[f].pa)
      BY <2>1, <2>2, <3>1, InHandIs DEF FileSound, HoldSound, Taken
    <3> QED
      BY <1>3, <2>1, <3>1, <3>2, OwnedIs DEF OnDisk
  <2>3. CASE ctx[f].at # "mark"
    <3>1. ctx[f].at # "pend"
      BY <1>1, <2>1 DEF FileSound, FlowSound
    <3> QED
      BY <1>3, <2>1, <2>3, <3>1, OwnedIs DEF OnDisk
  <2> QED
    BY <2>2, <2>3
<1>4. bitmap \subseteq Used
  <2> SUFFICES ASSUME NEW b \in bitmap PROVE b \in Used
    OBVIOUS
  <2>1. PICK f \in Writer : b \in OnDisk(f)
    BY DEF AllocIInv, BitmapIs
  <2>2. b \in Owned[f]
    BY <2>1, OwnedIs DEF OnDisk
  <2> QED
    BY <2>2 DEF Used
<1>5. core' = core
  <2>1. Regenerated = bitmap \cup InReserve
    BY DEF Regenerated, InReserve
  <2>2. Used \subseteq bitmap \cup InReserve
    BY <1>3 DEF Used, InReserve
  <2> QED
    BY <1>1, <1>2, <1>4, <2>1, <2>2
<1> QED
  BY <1>1, <1>5, AllocStutter DEF allocVars

LEMMA CommitStartsHolds == ASSUME AllocIInv, CommitStarts PROVE AllocIInv'
<1>1. /\ pending.committing = {}
      /\ pending' = [running |-> {}, committing |-> pending.running]
      /\ UNCHANGED <<bitmap, core, bbFree, pas, ctx, lg, map>>
  BY DEF CommitStarts
<1>2. Waiting' = Waiting /\ pending'.running \cap pending'.committing = {}
  BY <1>1 DEF Waiting
<1>3. AllocShape'
  BY <1>1 DEF AllocIInv, AllocShape, Lblk, Cluster
<1>4. /\ core' = Used \cup InReserve \cup Waiting'
      /\ bbFree' = Blocks - Cardinality(core')
  BY <1>1, <1>2 DEF AllocIInv, CoreIs, Accounted
<1> QED
  BY <1>1, <1>2, <1>3, <1>4, WaitingMoves

(* Clusters that leave or enter the bitmap in memory are counted.          *)
LEMMA FreeCoreIs ==
  ASSUME AllocIInv, NEW blocks \in SUBSET core, FreeCore(blocks)
  PROVE  /\ core' = core \ blocks /\ core' \in SUBSET Cluster
         /\ bbFree' = Blocks - Cardinality(core') /\ bbFree' \in Int
<1>1. /\ core' = core \ blocks /\ bbFree' = bbFree + Cardinality(blocks)
      /\ bbFree = Blocks - Cardinality(core) /\ core \in SUBSET Cluster
  BY DEF FreeCore, AllocIInv, CoreIs, AllocShape
<1>2. /\ IsFiniteSet(core) /\ Cardinality(core) \in Nat /\ Cardinality(blocks) \in Nat
      /\ Cardinality(core') \in Nat
  BY <1>1, ClusterFinite
<1>3. core \cap blocks = blocks
  OBVIOUS
<1>4. Cardinality(core \ blocks) = Cardinality(core) - Cardinality(blocks)
  BY <1>2, <1>3, FS_Difference
<1> QED
  BY <1>1, <1>2, <1>4, AllocConst

LEMMA MarkCoreIs ==
  ASSUME AllocIInv, NEW blocks \in SUBSET Cluster, blocks \cap core = {}, MarkCore(blocks)
  PROVE  /\ core' = core \cup blocks /\ core' \in SUBSET Cluster
         /\ bbFree' = Blocks - Cardinality(core') /\ bbFree' \in Int
<1>1. /\ core' = core \cup blocks /\ bbFree' = bbFree - Cardinality(blocks)
      /\ bbFree = Blocks - Cardinality(core) /\ core \in SUBSET Cluster
  BY DEF MarkCore, AllocIInv, CoreIs, AllocShape
<1>2. /\ IsFiniteSet(core) /\ Cardinality(core) \in Nat
      /\ IsFiniteSet(blocks) /\ Cardinality(blocks) \in Nat
      /\ Cardinality(core') \in Nat
  BY <1>1, ClusterFinite
<1>3. core \cap blocks = {} /\ Cardinality({}) = 0
  BY FS_EmptySet
<1>4. Cardinality(core \cup blocks) = Cardinality(core) + Cardinality(blocks) - Cardinality(core \cap blocks)
  BY <1>2, FS_Union
<1> DEFINE new == core'
<1>5. new = core \cup blocks /\ new \in SUBSET Cluster
  BY <1>1
<1>6. Cardinality(new) = Cardinality(core) + Cardinality(blocks)
  <2>1. Cardinality(new) = Cardinality(core) + Cardinality(blocks) - 0
    BY <1>3, <1>4, <1>5
  <2> QED
    BY <1>2, <2>1
<1> HIDE DEF new
<1>7. bbFree' = Blocks - Cardinality(new) /\ bbFree' \in Int
  BY <1>1, <1>2, <1>6, AllocConst
<1> QED
  BY <1>5, <1>7 DEF new

LEMMA ProcessFreedDataHolds == ASSUME AllocIInv, ProcessFreedData PROVE AllocIInv'
<1> DEFINE done == pending.committing
<1>1. /\ FreeCore(done)
      /\ pending' = [pending EXCEPT !.committing = {}]
      /\ UNCHANGED <<bitmap, pas, ctx, lg, map>>
      /\ AllocShape
  BY DEF ProcessFreedData, AllocIInv
<1>2. pending' = [running |-> pending.running, committing |-> {}]
  BY <1>1 DEF AllocShape
<1>3. Waiting = pending.running \cup done /\ Waiting' = pending.running
  BY <1>2 DEF Waiting
<1>4. core = Used \cup InReserve \cup Waiting
  BY DEF AllocIInv, CoreIs, Accounted
<1>6. InReserve \cap done = {}
  BY <1>3 DEF AllocIInv, PaOwn, Listed, InReserve
<1>7. Used \cap done = {} /\ pending.running \cap done = {}
  BY <1>3 DEF AllocIInv, Apart, Used
<1> HIDE DEF done
<1>8. done \in SUBSET core
  BY <1>3, <1>4
<1>a. /\ core' = core \ done /\ core' \in SUBSET Cluster
      /\ bbFree' = Blocks - Cardinality(core') /\ bbFree' \in Int
  BY <1>1, <1>8, FreeCoreIs
<1>9. core' = Used \cup InReserve \cup Waiting'
  BY <1>3, <1>4, <1>6, <1>7, <1>a
<1>10. AllocShape'
  BY <1>1, <1>2, <1>a DEF AllocShape, Lblk, Cluster
<1>11. Waiting' \subseteq Waiting /\ pending'.running \cap pending'.committing = {}
  BY <1>2, <1>3
<1> QED
  BY <1>1, <1>a, <1>9, <1>10, <1>11, WaitingMoves

-----------------------------------------------------------------------------
(* A step of file f that changes at most one preallocation q, and may take *)
(* clusters, give them up, or leave them to wait for a commit.             *)
LEMMA OneChanges ==
  ASSUME AllocIInv, AllocShape', NEW f \in Writer, OnlyFile(f), NEW q \in Pa \cup {NoPa},
         \A p \in Pa : p # q => pas'[p] = pas[p],
         OthersPas(f),
         \A g \in Writer : g # f => Owned'[f] \cap Owned[g] = {},
         Owned'[f] \cap Waiting' = {}, Waiting' \subseteq Waiting \cup Owned[f],
         pending'.running \cap pending'.committing = {},
         \A p \in Listed : p # q =>
           /\ PaBlocks(p) \cap Owned'[f] = PaBlocks(p) \cap Owned[f]
           /\ PaBlocks(p) \cap Waiting' = {}
           /\ \A b \in PaBlocks(p) \cap Owned[f] : Backs(p, f, b)',
         q \in Listed' =>
           /\ \A p \in Listed : p # q => PaBlocks(p) \cap PaBlocks(q)' = {}
           /\ PaBlocks(q)' \cap Waiting' = {}
           /\ \A g \in Writer : g # f => PaBlocks(q)' \cap Owned[g] = {}
           /\ \A b \in PaBlocks(q)' \cap Owned'[f] : Backs(q, f, b)'
           /\ PaSize(q)',
         \A p \in Pa : PaHeld(p)',
         FileSound(f)', OwnDistinct(f)', BitmapIs', CoreIs'
  PROVE  AllocIInv'
<1>1. \A g \in Writer : g # f => Owned'[g] = Owned[g]
  BY OthersOwn
<1>2. \A g \in Writer : FileSound(g)' /\ OwnDistinct(g)'
  BY OthersSound DEF AllocIInv
<1>3. \A p \in Pa : p # q => SameCells(p) /\ pas'[p].unused = pas[p].unused
  BY DEF SameCells
<1>4. \A p \in Pa : p # q => PaBlocks(p)' = PaBlocks(p) /\ (p \in Listed <=> p \in Listed')
  BY <1>3, CellsKeep
<1>5. Listed \subseteq Pa /\ Listed' \subseteq Pa
  BY DEF Listed
<1>6. ASSUME NEW p \in Pa, p # q PROVE PaSize(p)' /\ PaOwn(p)'
  <2>1. CASE p \notin Listed
    BY <1>4, <1>6, <2>1 DEF PaSize, PaOwn
  <2>2. CASE p \in Listed
    <3>1. SameCells(p) /\ pas'[p].unused = pas[p].unused /\ PaSize(p) /\ PaOwn(p)
      BY <1>3, <1>6 DEF AllocIInv
    <3>2. \A b \in PaBlocks(p) : b \in Used' <=> b \in Used
      <4> SUFFICES ASSUME NEW b \in PaBlocks(p) PROVE b \in Used' <=> b \in Used
        OBVIOUS
      <4>1. b \in Owned'[f] <=> b \in Owned[f]
        BY <1>6, <2>2
      <4>2. \A g \in Writer : b \in Owned'[g] <=> b \in Owned[g]
        BY <1>1, <4>1
      <4>3. (b \in Used <=> \E g \in Writer : b \in Owned[g])
            /\ (b \in Used' <=> \E g \in Writer : b \in Owned'[g])
        BY DEF Used
      <4> QED
        BY <4>2, <4>3
    <3>3. PaSize(p)'
      BY <3>1, <3>2, SizeKeeps
    <3>4. \A r \in Listed' : r # p => PaBlocks(p) \cap PaBlocks(r)' = {}
      <4> SUFFICES ASSUME NEW r \in Listed', r # p
                   PROVE  PaBlocks(p) \cap PaBlocks(r)' = {}
        OBVIOUS
      <4>1. CASE r = q
        BY <1>6, <2>2, <4>1
      <4>2. CASE r # q
        <5>1. r \in Listed /\ PaBlocks(r)' = PaBlocks(r)
          BY <1>4, <1>5, <4>2
        <5> QED
          BY <2>2, <3>1, <5>1 DEF PaOwn
      <4> QED
        BY <4>1, <4>2
    <3>5. PaBlocks(p) \cap Waiting' = {}
      BY <1>6, <2>2
    <3>6. \A b \in PaBlocks(p) \cap Owned'[f] : Backs(p, f, b)'
      BY <1>6, <2>2
    <3>7. PaOwn(p)'
      BY <3>1, <3>4, <3>5, <3>6, OwnKeeps
    <3> QED
      BY <3>3, <3>7
  <2> QED
    BY <2>1, <2>2
<1>7. ASSUME q \in Pa PROVE PaSize(q)' /\ PaOwn(q)'
  <2>1. CASE q \notin Listed'
    BY <2>1 DEF PaSize, PaOwn
  <2>2. CASE q \in Listed'
    <3>1. \A r \in Listed' : r # q => PaBlocks(q)' \cap PaBlocks(r)' = {}
      BY <1>4, <1>5, <2>2
    <3>2. \A g \in Writer : \A b \in PaBlocks(q)' \cap Owned'[g] : Backs(q, g, b)'
      <4> SUFFICES ASSUME NEW g \in Writer, NEW b \in PaBlocks(q)' \cap Owned'[g]
                   PROVE  Backs(q, g, b)'
        OBVIOUS
      <4>1. g = f
        BY <1>1, <2>2
      <4> QED
        BY <2>2, <4>1
    <3> QED
      BY <2>2, <3>1, <3>2 DEF PaOwn
  <2> QED
    BY <2>1, <2>2
<1>8. \A p \in Pa : PaSize(p)' /\ PaOwn(p)'
  BY <1>6, <1>7
<1>9. Apart'
  <2>1. \A g, h \in Writer : g # h => Owned'[g] \cap Owned'[h] = {}
    BY <1>1 DEF AllocIInv, Apart
  <2>2. \A g \in Writer : Owned'[g] \cap Waiting' = {}
    BY <1>1 DEF AllocIInv, Apart
  <2> QED
    BY <2>1, <2>2 DEF Apart
<1> QED
  BY <1>2, <1>8, <1>9 DEF AllocIInv

(* What a listed preallocation shares with a file.                         *)
LEMMA PaShares ==
  ASSUME AllocIInv, NEW p \in Listed, NEW g \in Writer, NEW b \in PaBlocks(p) \cap Owned[g]
  PROVE  /\ Backs(p, g, b)
         /\ pas[p].kind = "inode" => pas[p].file = g
         /\ pas[p].kind = "group" =>
              b \in InHand(g) /\ ctx[g].pa = p /\ ctx[g].at \in {"mark", "release"} /\ Holds(g, p)
<1>1. Backs(p, g, b)
  BY DEF AllocIInv, PaOwn, Listed
<1> QED
  BY <1>1 DEF Backs, Holds

LEMMA AccountedIs ==
  ASSUME AllocIInv, InReserve' \cup Used' \cup Waiting' = InReserve \cup Used \cup Waiting,
         core' = core, bbFree' = bbFree
  PROVE  CoreIs'
BY DEF AllocIInv, CoreIs, Accounted

LEMMA MbFreeMetadataHolds ==
  ASSUME AllocIInv, NEW f \in Writer, MbFreeMetadata(f) PROVE AllocIInv'
<1> DEFINE freed == ctx[f].freeing
<1>1. /\ AllocShape /\ ctx[f].at = "pend" /\ Ctx(f, NoContext)
      /\ pending' = [pending EXCEPT !.running = @ \cup freed]
      /\ UNCHANGED <<bitmap, core, bbFree, pas, lg, map>>
  BY DEF AllocIInv, MbFreeMetadata
<1>2. /\ ctx' \in [Writer -> Context] /\ ctx'[f] = NoContext
      /\ \A g \in Writer : g # f => ctx'[g] = ctx[g]
  BY <1>1, NothingIs, CtxIs
<1>3. OnlyFile(f)
  BY <1>1, <1>2 DEF OnlyFile
<1>4. /\ InHand(f) = freed /\ InHand(f)' = {} /\ Mapped(f)' = Mapped(f)
      /\ freed \in SUBSET Cluster
  BY <1>1, <1>2, InHandIs, NothingIs, ShapeIs DEF Mapped, Lblk, Taken, Context
<1>5. Owned[f] = Mapped(f) \cup freed /\ Owned'[f] = Mapped(f)
  BY <1>4, OwnedIs
<1>6. OnDisk(f)' = OnDisk(f)
  BY <1>1, <1>2, <1>4, NothingIs DEF OnDisk
<1>7. Mapped(f) \cap freed = {} /\ Owned[f] \cap Waiting = {}
  BY <1>4 DEF AllocIInv, OwnDistinct, Apart
<1> HIDE DEF freed
<1>8. pending' = [running |-> pending.running \cup freed, committing |-> pending.committing]
  BY <1>1 DEF AllocShape
<1>9. /\ Waiting' = Waiting \cup freed
      /\ pending'.running \cap pending'.committing = {}
  BY <1>5, <1>7, <1>8 DEF Waiting, AllocIInv, Apart
<1>10. AllocShape'
  BY <1>1, <1>2, <1>4, <1>8 DEF AllocShape, Lblk, Cluster
<1>11. OthersPas(f) /\ Listed' = Listed /\ \A p \in Pa : PaBlocks(p)' = PaBlocks(p)
  BY <1>1, PasStay DEF PaBlocks, Run
<1>12. \A p \in Listed : PaBlocks(p) \cap Owned[f] = {}
  <2> SUFFICES ASSUME NEW p \in Listed, NEW b \in PaBlocks(p) \cap Owned[f]
               PROVE  FALSE
    OBVIOUS
  <2>1. p \notin OfFile(f)
    BY <1>1 DEF AllocIInv, FileSound, FlowSound
  <2>2. pas[p].kind = "inode" \/ pas[p].kind = "group"
    BY DEF Listed
  <2> QED
    BY <1>1, <2>1, <2>2, PaShares DEF OfFile
<1>13. \A p \in Pa : PaHeld(p)'
  <2> SUFFICES ASSUME NEW p \in Pa PROVE PaHeld(p)'
    OBVIOUS
  <2>1. (Holds(f, p)' <=> Holds(f, p)) /\ (Uses(f, p)' <=> Uses(f, p))
    BY <1>1, <1>2, NothingIs DEF Holds, Uses, Seeking
  <2> QED
    BY <1>1, <1>3, <2>1, HeldKeeps DEF AllocIInv
<1>14. FileSound(f)'
  <2>1. ctx'[f].at = "idle" /\ ctx'[f] = NoContext' /\ lg' # f
    BY <1>1, <1>2, NothingIs
    DEF NoContext, AllocIInv, FileSound, FlowSound, Seeking, Taken
  <2> QED
    BY <2>1 DEF FileSound, SeekSound, TakenSound, HoldSound, DropSound, FlowSound,
       Seeking, Taken
<1>15. OwnDistinct(f)'
  BY <1>1, <1>4 DEF OwnDistinct, AllocIInv, Lblk
<1>16. BitmapIs'
  BY <1>1, <1>3, <1>6, BitmapSame DEF AllocIInv
<1>17. CoreIs'
  <2>1. \A g \in Writer : g # f => Owned'[g] = Owned[g]
    BY <1>3, OthersOwn
  <2>2. Used' \cup freed = Used
    BY <1>5, <2>1 DEF Used
  <2>3. InReserve' = InReserve
    BY <1>11 DEF InReserve, Listed
  <2>4. InReserve' \cup Used' \cup Waiting' = InReserve \cup Used \cup Waiting
    BY <1>9, <2>2, <2>3
  <2>5. core' = core /\ bbFree' = bbFree
    BY <1>1
  <2> QED
    BY <2>4, <2>5, AccountedIs
<1>18. \A g \in Writer : g # f => Owned'[f] \cap Owned[g] = {}
  BY <1>5 DEF AllocIInv, Apart
<1>19. Owned'[f] \cap Waiting' = {} /\ Waiting' \subseteq Waiting \cup Owned[f]
  BY <1>5, <1>7, <1>9
<1>20. \A p \in Listed : /\ PaBlocks(p) \cap Owned'[f] = PaBlocks(p) \cap Owned[f]
                         /\ PaBlocks(p) \cap Waiting' = {}
                         /\ PaBlocks(p) \cap Owned[f] = {}
  BY <1>5, <1>9, <1>12 DEF AllocIInv, PaOwn, Listed
<1>21. NoPa \notin Listed' /\ \A p \in Pa : pas'[p] = pas[p]
  BY <1>1, AllocConst DEF Listed
<1> QED
  BY <1>3, <1>9, <1>10, <1>11, <1>13, <1>14, <1>15, <1>16, <1>17, <1>18, <1>19,
     <1>20,
     <1>21, OneChanges

(* Who has what, but for file f and preallocation q.                       *)
PaPart(q) == IF q \in Listed THEN PaBlocks(q) ELSE {}
HaveOthers(f) == UNION {Owned[g] : g \in Writer \ {f}}
KeepOthers(q) == UNION {PaBlocks(p) : p \in Listed \ {q}}
Rest(f, q) == HaveOthers(f) \cup KeepOthers(q)

LEMMA UsedSplit ==
  ASSUME NEW f \in Writer, NEW q \in Pa \cup {NoPa}
  PROVE  /\ Used = Owned[f] \cup HaveOthers(f)
         /\ Used' = Owned'[f] \cup HaveOthers(f)'
         /\ InReserve = PaPart(q) \cup KeepOthers(q)
         /\ InReserve' = PaPart(q)' \cup KeepOthers(q)'
BY DEF Used, HaveOthers, InReserve, PaPart, KeepOthers

LEMMA AccountedSplit ==
  ASSUME NEW f \in Writer, OnlyFile(f), NEW q \in Pa \cup {NoPa},
         \A p \in Pa : p # q => pas'[p] = pas[p]
  PROVE  /\ Accounted = Owned[f] \cup PaPart(q) \cup Rest(f, q) \cup Waiting
         /\ Accounted' = Owned'[f] \cup PaPart(q)' \cup Rest(f, q) \cup Waiting'
<1>1. \A g \in Writer : g # f => Owned'[g] = Owned[g]
  BY OthersOwn
<1>2. \A p \in Pa : p # q => SameCells(p)
  BY DEF SameCells
<1>3. \A p \in Pa : p # q => PaBlocks(p)' = PaBlocks(p) /\ (p \in Listed <=> p \in Listed')
  BY <1>2, CellsKeep
<1>4. Listed \subseteq Pa /\ Listed' \subseteq Pa
  BY DEF Listed
<1>5. HaveOthers(f)' = HaveOthers(f)
  BY <1>1 DEF HaveOthers
<1>6. Listed' \ {q} = Listed \ {q}
  BY <1>3, <1>4
<1>7. \A p \in Listed \ {q} : PaBlocks(p)' = PaBlocks(p)
  BY <1>3, <1>4
<1>8. KeepOthers(q)' = KeepOthers(q)
  BY <1>6, <1>7 DEF KeepOthers
<1> QED
  BY <1>5, <1>8, UsedSplit DEF Accounted, Rest

LEMMA RestIs ==
  ASSUME AllocIInv, NEW f \in Writer, NEW q \in Pa \cup {NoPa}
  PROVE  /\ \A g \in Writer : g # f => Owned[g] \subseteq Rest(f, q)
         /\ \A p \in Listed : p # q => PaBlocks(p) \subseteq Rest(f, q)
         /\ \A b \in Rest(f, q) : \/ \E g \in Writer \ {f} : b \in Owned[g]
                                  \/ \E p \in Listed \ {q} : b \in PaBlocks(p)
         /\ core = Owned[f] \cup PaPart(q) \cup Rest(f, q) \cup Waiting
<1>1. core = Used \cup InReserve \cup Waiting
  BY DEF AllocIInv, CoreIs, Accounted
<1>2. \A b : b \in HaveOthers(f) <=> \E g \in Writer \ {f} : b \in Owned[g]
  BY DEF HaveOthers
<1>3. \A b : b \in KeepOthers(q) <=> \E p \in Listed \ {q} : b \in PaBlocks(p)
  BY DEF KeepOthers
<1>4. core = Owned[f] \cup PaPart(q) \cup Rest(f, q) \cup Waiting
  BY <1>1, UsedSplit DEF Rest
<1>5. \A b : b \in Rest(f, q) <=> b \in HaveOthers(f) \/ b \in KeepOthers(q)
  BY DEF Rest
<1> QED
  BY <1>2, <1>3, <1>4, <1>5

(* What ext5_mb_release_context leaves in the descriptor.                  *)
LEMMA MovedIs ==
  ASSUME NEW pa \in Prealloc, NEW got \in Int
  PROVE  LET rest == Moved(pa, got)
             past == IF pa.kind = "group" THEN got ELSE 0
         IN /\ rest \in Prealloc /\ rest.kind = pa.kind /\ rest.file = pa.file
            /\ rest.lstart = pa.lstart + past /\ rest.pstart = pa.pstart + past
            /\ rest.len = pa.len - past /\ rest.unused = pa.unused - past
            /\ rest.count = pa.count /\ rest.deleted = pa.deleted
<1> DEFINE m == Moved(pa, got)
           past == IF pa.kind = "group" THEN got ELSE 0
<1>1. /\ pa.lstart \in Int /\ pa.pstart \in Int /\ pa.len \in Int /\ pa.unused \in Int
      /\ pa.count \in Int /\ pa.deleted \in BOOLEAN
  BY DEF Prealloc
<1>2. /\ m \in Prealloc /\ m.kind = pa.kind /\ m.file = pa.file
      /\ m.lstart = pa.lstart + past /\ m.pstart = pa.pstart + past
      /\ m.len = pa.len - past /\ m.unused = pa.unused - past
      /\ m.count = pa.count /\ m.deleted = pa.deleted
  <2>1. CASE pa.kind = "group"
    <3> DEFINE s == pa.pstart + got  l == pa.lstart + got  n == pa.len - got
               u == pa.unused - got
    <3>1. s \in Int /\ l \in Int /\ n \in Int /\ u \in Int
      BY <1>1
    <3>2. m = [pa EXCEPT !.pstart = s, !.lstart = l, !.len = n, !.unused = u]
      BY <2>1 DEF Moved
    <3> HIDE DEF s, l, n, u, m
    <3>3. m \in Prealloc
      BY <3>1, <3>2 DEF Prealloc
    <3>4. m.pstart = s /\ m.lstart = l /\ m.len = n /\ m.unused = u
      BY <3>1, <3>2 DEF Prealloc
    <3>5. m.kind = pa.kind /\ m.file = pa.file /\ m.count = pa.count /\ m.deleted = pa.deleted
      BY <3>2 DEF Prealloc
    <3> QED
      BY <2>1, <3>3, <3>4, <3>5 DEF s, l, n, u
  <2>2. CASE pa.kind # "group"
    BY <1>1, <2>2 DEF Moved
  <2> QED
    BY <2>1, <2>2
<1> QED
  BY <1>2

(* A locality group's preallocation moves past what was taken of it; one   *)
(* that is used up is marked deleted by who used it last.                  *)
LEMMA ReleaseContextHolds ==
  ASSUME AllocIInv, NEW f \in Writer, ReleaseContext(f) PROVE AllocIInv'
<1> DEFINE c == ctx[f]
<1>p. PICK p \in Pa \cup {NoPa} : p = c.pa
  BY ShapeIs DEF AllocIInv, Context
<1> DEFINE rest == [Moved(pas[p], c.got) EXCEPT !.count = @ - 1]
           empty == rest.unused = 0 /\ rest.count = 0 /\ ~rest.deleted
           new == [rest EXCEPT !.deleted = @ \/ empty]
<1>1. /\ AllocShape /\ c.at = "release" /\ c \in Context
      /\ UNCHANGED <<bitmap, core, bbFree, pending, lg, map>>
  BY ShapeIs DEF AllocIInv, ReleaseContext
<1>2. PICK pc \in {"insert", "drop"} :
        /\ \/ pc = "insert" /\ Unpins(f)
           \/ pc = "drop" /\ GoTo(f, pc)
        /\ \/ p = NoPa /\ pas' = pas /\ pc = "insert"
           \/ p # NoPa /\ pas' = [pas EXCEPT ![p] = new] /\ (pc = "drop" <=> empty)
  <2>1. CASE p = NoPa
    BY <1>p, <2>1 DEF ReleaseContext
  <2>2. CASE p # NoPa
    <3>1. pas' = [pas EXCEPT ![p] = new] /\ IF empty THEN GoTo(f, "drop") ELSE Unpins(f)
      BY <1>p, <2>2 DEF ReleaseContext
    <3> HIDE DEF new, empty
    <3>2. CASE empty
      BY <2>2, <3>1, <3>2
    <3>3. CASE ~empty
      BY <2>2, <3>1, <3>3
    <3> QED
      BY <3>2, <3>3
  <2> QED
    BY <2>1, <2>2
<1>3. /\ ctx' \in [Writer -> Context]
      /\ \A g \in Writer : g # f => ctx'[g] = ctx[g]
      /\ ctx'[f].at = pc /\ ctx'[f].lblk = c.lblk
      /\ ctx'[f].start = c.start /\ ctx'[f].got = c.got
      /\ ctx'[f].pa = p
  <2>1. "drop" \in Steps
    BY DEF Steps, Taken
  <2>2. CASE pc = "insert" /\ Unpins(f)
    BY <1>1, <1>p, <2>2, CtxUnpins
  <2>3. CASE pc = "drop" /\ GoTo(f, "drop")
    BY <1>1, <1>p, <2>1, <2>3, CtxGoes
  <2> QED
    BY <1>2, <2>2, <2>3
<1>4. OnlyFile(f)
  BY <1>1, <1>3 DEF OnlyFile
<1>5. /\ FileSound(f) /\ c.start \in Nat /\ c.got \in Nat
      /\ InHand(f) = Run(c.start, c.got)
  BY <1>1, InHandIs DEF AllocIInv, FileSound, TakenSound, Taken
<1>6. /\ Mapped(f)' = Mapped(f) /\ InHand(f)' = InHand(f)
      /\ Owned'[f] = Owned[f] /\ TakenSound(f)' /\ OwnDistinct(f)' /\ SeekSound(f)'
      /\ \A l, b : AtSlot(f, l, b)' <=> AtSlot(f, l, b)
  BY <1>1, <1>3, TakenStays DEF Taken
<1>7. OnDisk(f)' = OnDisk(f)
  BY <1>1, <1>3, <1>6 DEF OnDisk
<1>8. BitmapIs'
  BY <1>1, <1>4, <1>7, BitmapSame DEF AllocIInv
<1>9. HoldSound(f)' /\ FlowSound(f)'
  <2>1. ctx'[f].at \in {"insert", "drop"}
    BY <1>3
  <2>2. HoldSound(f)'
    BY <2>1 DEF HoldSound
  <2>3. FlowSound(f)'
    BY <2>1 DEF FlowSound, Taken
  <2> QED
    BY <2>2, <2>3
<1>10. CASE p = NoPa
  <2>1. pas' = pas /\ pc = "insert"
    BY <1>2, <1>10
  <2>2. OthersPas(f) /\ \A q \in Pa : SameCells(q) /\ pas'[q].unused = pas[q].unused
    BY <2>1, PasStay
  <2>3. AllocShape'
    BY <1>1, <1>3, <2>1 DEF AllocShape, Lblk, Cluster
  <2>4. \A q \in Pa : PaHeld(q)'
    <3> SUFFICES ASSUME NEW q \in Pa PROVE PaHeld(q)'
      OBVIOUS
    <3>1. (Holds(f, q)' <=> Holds(f, q)) /\ (Uses(f, q)' <=> Uses(f, q))
      BY <1>p, <1>3, <1>10, <2>1, AllocConst DEF Holds, Uses
    <3> QED
      BY <1>4, <2>1, <3>1, HeldKeeps DEF AllocIInv
  <2>5. FileSound(f)'
    <3>1. DropSound(f)'
      BY <1>3, <2>1 DEF DropSound
    <3> QED
      BY <1>6, <1>9, <3>1 DEF FileSound
  <2>6. ASSUME NEW q \in Listed, NEW b \in PaBlocks(q) \cap Owned[f]
        PROVE  Backs(q, f, b)'
    <3>1. Backs(q, f, b) /\ (pas[q].kind = "group" => ctx[f].pa = q) /\ q # NoPa
      BY PaShares, AllocConst DEF Listed
    <3> QED
      BY <1>p, <1>3, <1>6, <1>10, <2>1, <3>1 DEF Backs
  <2>7. pending' = pending /\ core' = core /\ bbFree' = bbFree
    BY <1>1
  <2> QED
    BY <1>4, <1>6, <1>8, <2>2, <2>3, <2>4, <2>5, <2>6, <2>7, Calm
<1>11. CASE p # NoPa
  <2> DEFINE past == IF pas[p].kind = "group" THEN c.got ELSE 0
  <2>1. p \in Pa /\ pas[p] \in Prealloc /\ Holds(f, p) /\ p \in Listed /\ ~pas[p].deleted
        /\ pas' = [pas EXCEPT ![p] = new] /\ (pc = "drop" <=> empty)
    BY <1>1, <1>2, <1>5, <1>11, <1>p, ShapeIs
    DEF Holds, FileSound, HoldSound, Listed
  <2>2. /\ \A g \in Writer : g # f => ~Holds(g, p)
        /\ pas[p].count = 1
        /\ pas[p].kind = "inode" => pas[p].file = f
    BY <1>1, <2>1, HeldIs
  <2>b. /\ rest \in Prealloc /\ rest.kind = pas[p].kind /\ rest.file = pas[p].file
        /\ rest.lstart = pas[p].lstart + past /\ rest.pstart = pas[p].pstart + past
        /\ rest.len = pas[p].len - past /\ rest.unused = pas[p].unused - past
        /\ rest.count = pas[p].count - 1 /\ rest.deleted = pas[p].deleted
    <3> DEFINE m == Moved(pas[p], c.got)
               k == m.count - 1
    <3>1. c.got \in Int
      BY <1>5
    <3>2. /\ m \in Prealloc /\ m.kind = pas[p].kind /\ m.file = pas[p].file
          /\ m.lstart = pas[p].lstart + past /\ m.pstart = pas[p].pstart + past
          /\ m.len = pas[p].len - past /\ m.unused = pas[p].unused - past
          /\ m.count = pas[p].count /\ m.deleted = pas[p].deleted
      <4> HIDE DEF c
      <4> QED
        BY <2>1, <3>1, MovedIs
    <3>3. rest = [m EXCEPT !.count = k]
      OBVIOUS
    <3> HIDE DEF m, rest
    <3>4. k \in Int
      BY <3>2 DEF Prealloc
    <3> HIDE DEF k
    <3>5. rest \in Prealloc
      BY <3>2, <3>3, <3>4 DEF Prealloc
    <3>6. rest.count = k
      BY <3>2, <3>3, <3>4 DEF Prealloc
    <3>7. /\ rest.kind = m.kind /\ rest.file = m.file
          /\ rest.lstart = m.lstart /\ rest.pstart = m.pstart /\ rest.len = m.len
          /\ rest.unused = m.unused /\ rest.deleted = m.deleted
      BY <3>2, <3>3 DEF Prealloc
    <3> QED
      BY <3>2, <3>5, <3>6, <3>7 DEF k
  <2> HIDE DEF rest
  <2>c. /\ new \in Prealloc /\ new.kind = rest.kind /\ new.file = rest.file
        /\ new.lstart = rest.lstart /\ new.pstart = rest.pstart /\ new.len = rest.len
        /\ new.unused = rest.unused /\ new.count = rest.count
        /\ (new.deleted <=> rest.deleted \/ empty)
    <3> DEFINE d == rest.deleted \/ empty
    <3>1. d \in BOOLEAN
      BY Zenon
    <3>2. new = [rest EXCEPT !.deleted = d]
      OBVIOUS
    <3> HIDE DEF d, new
    <3>3. new \in Prealloc
      BY <2>b, <3>1, <3>2 DEF Prealloc
    <3>4. new.deleted = d
      BY <2>b, <3>1, <3>2, Zenon DEF Prealloc
    <3>5. /\ new.kind = rest.kind /\ new.file = rest.file
          /\ new.lstart = rest.lstart /\ new.pstart = rest.pstart /\ new.len = rest.len
          /\ new.unused = rest.unused /\ new.count = rest.count
      BY <2>b, <3>2 DEF Prealloc
    <3> QED
      BY <3>3, <3>4, <3>5 DEF d
  <2>3. /\ new \in Prealloc /\ new.kind = pas[p].kind /\ new.file = pas[p].file
        /\ new.lstart = pas[p].lstart + past /\ new.pstart = pas[p].pstart + past
        /\ new.len = pas[p].len - past /\ new.unused = pas[p].unused - past
        /\ new.count = pas[p].count - 1 /\ (new.deleted <=> pas[p].deleted \/ empty)
        /\ rest.unused = pas[p].unused - past
    BY <2>b, <2>c
  <2>4. empty => new.unused = 0 /\ new.deleted
    BY <2>3 DEF empty
  <2> HIDE DEF c, new, empty
  <2>5. pas' \in [Pa -> Prealloc] /\ pas'[p] = new /\ \A q \in Pa : q # p => pas'[q] = pas[q]
    BY <1>1, <2>1, <2>3 DEF AllocShape
  <2>6. AllocShape'
    BY <1>1, <1>3, <2>5 DEF AllocShape, Lblk, Cluster
  <2>7. OthersPas(f)
    BY <2>1, <2>2, <2>3, <2>5, OnlyHeld
  <2>8. p \in Listed'
    BY <2>1, <2>3, <2>5 DEF Listed
  <2>9. DropSound(f)'
    BY <1>3, <2>1, <2>2, <2>3, <2>4, <2>5, <2>8 DEF DropSound
  <2>10. FileSound(f)'
    BY <1>6, <1>9, <2>9 DEF FileSound
  <2>11. \A q \in Pa : PaHeld(q)'
    <3> SUFFICES ASSUME NEW q \in Pa PROVE PaHeld(q)'
      OBVIOUS
    <3>1. ~Uses(f, q)'
      BY <1>3 DEF Uses, Holds, Seeking
    <3>2. CASE q = p
      <4>1. pas'[p].count = 0
        BY <2>2, <2>3, <2>5
      <4> QED
        BY <1>4, <2>1, <2>2, <3>1, <3>2, <4>1, HeldFreed
    <3>3. CASE q # p
      <4>1. ~Holds(f, q)' /\ ~Holds(f, q) /\ ~Uses(f, q) /\ pas'[q] = pas[q]
        BY <1>3, <1>p, <2>5, <3>3 DEF Holds, Uses, c
      <4> QED
        BY <1>4, <3>1, <4>1, HeldKeeps DEF AllocIInv
    <3> QED
      BY <3>2, <3>3
  <2>12. /\ pas[p].pstart \in Nat /\ pas[p].len \in Nat /\ pas[p].pstart + pas[p].len <= Blocks
         /\ PaBlocks(p) = pas[p].pstart .. (pas[p].pstart + pas[p].len - 1)
    BY <2>1 DEF AllocIInv, PaSize, PaBlocks, Run
  <2>a. PaBlocks(p)' = new.pstart .. (new.pstart + new.len - 1)
    BY <2>5 DEF PaBlocks, Run
  <2>13. past \in Nat /\ past <= pas[p].len
         /\ (pas[p].kind = "group" /\ past > 0 => c.start = pas[p].pstart /\ past = c.got)
    <3>1. CASE pas[p].kind # "group" \/ c.got = 0
      BY <1>5, <2>12, <3>1
    <3>2. CASE pas[p].kind = "group" /\ c.got > 0
      <4>1. c.start = pas[p].pstart /\ Run(c.start, c.got) \subseteq PaBlocks(p)
        BY <1>1, <1>5, <1>11, <1>p, <3>2 DEF FileSound, HoldSound, c
      <4>2. c.start + c.got - 1 \in PaBlocks(p)
        BY <1>5, <3>2, <4>1 DEF Run
      <4> QED
        BY <1>5, <2>12, <3>2, <4>1, <4>2
    <3> QED
      BY <1>5, <3>1, <3>2
  <2> HIDE DEF past
  <2>14. /\ \A b \in PaBlocks(p)' : b \in PaBlocks(p) /\ b >= pas[p].pstart + past
         /\ \A b \in PaBlocks(p) : b \notin PaBlocks(p)' => b < pas[p].pstart + past
    <3> DEFINE s == pas[p].pstart
               n == pas[p].len
    <3>1. PaBlocks(p) = s .. (s + n - 1) /\ PaBlocks(p)' = (s + past) .. ((s + past) + (n - past) - 1)
      BY <2>3, <2>12, <2>a
    <3>2. s \in Nat /\ n \in Nat /\ past \in Nat /\ past <= n
      BY <2>12, <2>13
    <3> HIDE DEF s, n
    <3>3. /\ \A b \in PaBlocks(p)' : b \in PaBlocks(p) /\ b >= s + past
          /\ \A b \in PaBlocks(p) : b \notin PaBlocks(p)' => b < s + past
      BY <3>1, <3>2
    <3> QED
      BY <3>3 DEF s
  <2>15. pas[p].kind = "group" => \A b \in PaBlocks(p) \cap Owned[f] : b \in InHand(f)
    BY <2>1, PaShares
  <2>16. pas[p].kind = "group" => PaBlocks(p)' \cap Owned[f] = {}
    <3> SUFFICES ASSUME pas[p].kind = "group", NEW b \in PaBlocks(p)', b \in Owned[f]
                 PROVE  FALSE
      OBVIOUS
    <3>1. b \in Run(c.start, c.got) /\ b >= pas[p].pstart + past
      BY <1>5, <2>14, <2>15
    <3>2. c.got > 0
      BY <1>5, <3>1 DEF Run
    <3>3. past = c.got
      BY DEF past
    <3> QED
      BY <1>5, <2>12, <2>13, <3>1, <3>2, <3>3 DEF Run
  <2>17. \A b \in PaBlocks(p) : b \notin PaBlocks(p)' => b \in Owned[f]
    <3> SUFFICES ASSUME NEW b \in PaBlocks(p), b \notin PaBlocks(p)'
                 PROVE  b \in Owned[f]
      OBVIOUS
    <3>1. b < pas[p].pstart + past /\ b >= pas[p].pstart /\ b \in Int
      BY <2>12, <2>14
    <3>2. past > 0 /\ pas[p].kind = "group"
      BY <2>12, <2>13, <3>1 DEF past
    <3>3. b \in InHand(f)
      BY <1>5, <2>13, <3>1, <3>2 DEF Run
    <3> QED
      BY <3>3, OwnedIs
  <2>18. \A g \in Writer : g # f => PaBlocks(p) \cap Owned[g] = {}
    <3> SUFFICES ASSUME NEW g \in Writer, g # f, NEW b \in PaBlocks(p) \cap Owned[g]
                 PROVE  FALSE
      OBVIOUS
    <3>1. pas[p].kind = "inode" \/ pas[p].kind = "group"
      BY <2>1 DEF Listed
    <3> QED
      BY <2>1, <2>2, <3>1, PaShares
  <2>19. \A g \in Writer : g # f => Owned'[g] = Owned[g]
    BY <1>4, OthersOwn
  <2>20. Used' = Used /\ Waiting' = Waiting
    BY <1>1, <1>6, <2>19 DEF Used, Waiting
  <2>21. PaSize(p)'
    <3>1. CASE pas[p].kind = "inode"
      <4>1. past = 0 /\ pas[p].unused \in Int
        BY <2>1, <3>1 DEF past, Prealloc
      <4>2. SameCells(p) /\ pas'[p].unused = pas[p].unused
        BY <2>3, <2>5, <2>1, <4>1 DEF SameCells, Prealloc
      <4> QED
        BY <2>1, <2>20, <4>2, SizeKeeps DEF AllocIInv
    <3>2. CASE pas[p].kind = "group"
      <4>1. pas[p].unused = pas[p].len
        BY <2>1, <3>2 DEF AllocIInv, PaSize
      <4>2. new.unused = new.len /\ new.len = pas[p].len - past /\ new.pstart = pas[p].pstart + past
        BY <2>3, <4>1
      <4>3. new.pstart \in Nat /\ new.len \in Nat /\ new.pstart + new.len <= Blocks
        BY <2>12, <2>13, <4>2, AllocConst
      <4>4. new.kind = "group"
        BY <2>3, <3>2
      <4> QED
        BY <2>5, <4>2, <4>3, <4>4 DEF PaSize
    <3> QED
      BY <2>1, <3>1, <3>2 DEF Listed
  <2>22. \A b \in PaBlocks(p)' \cap Owned'[f] : Backs(p, f, b)'
    <3> SUFFICES ASSUME NEW b \in PaBlocks(p)' \cap Owned'[f] PROVE Backs(p, f, b)'
      OBVIOUS
    <3>1. b \in PaBlocks(p) \cap Owned[f]
      BY <1>6, <2>14
    <3>2. pas[p].kind = "inode" /\ Backs(p, f, b)
      BY <1>6, <2>1, <2>16, <3>1, PaShares DEF Listed
    <3>3. new.lstart = pas[p].lstart /\ new.pstart = pas[p].pstart
      BY <2>1, <2>3, <3>2 DEF past, Prealloc
    <3> QED
      BY <1>3, <1>6, <2>3, <2>5, <3>2, <3>3 DEF Backs
  <2>23. \A q \in Listed : q # p => /\ PaBlocks(q) \cap Owned'[f] = PaBlocks(q) \cap Owned[f]
                                    /\ PaBlocks(q) \cap Waiting' = {}
                                    /\ \A b \in PaBlocks(q) \cap Owned[f] : Backs(q, f, b)'
    <3> SUFFICES ASSUME NEW q \in Listed, q # p
                 PROVE  /\ PaBlocks(q) \cap Owned'[f] = PaBlocks(q) \cap Owned[f]
                        /\ PaBlocks(q) \cap Waiting' = {}
                        /\ \A b \in PaBlocks(q) \cap Owned[f] : Backs(q, f, b)'
      OBVIOUS
    <3>1. PaBlocks(q) \cap Waiting' = {}
      BY <2>20 DEF AllocIInv, PaOwn, Listed
    <3>2. ASSUME NEW b \in PaBlocks(q) \cap Owned[f] PROVE Backs(q, f, b)'
      <4>1. Backs(q, f, b) /\ (pas[q].kind = "group" => ctx[f].pa = q) /\ pas'[q] = pas[q]
        BY <2>5, PaShares DEF Listed
      <4> QED
        BY <1>3, <1>6, <1>p, <4>1 DEF Backs, c
    <3> QED
      BY <1>6, <3>1, <3>2
  <2>24. \A q \in Listed : q # p => PaBlocks(q) \cap PaBlocks(p)' = {}
    BY <2>1, <2>14 DEF AllocIInv, PaOwn
  <2>25. PaBlocks(p)' \cap Waiting' = {} /\ \A g \in Writer : g # f => PaBlocks(p)' \cap Owned[g] = {}
    BY <2>1, <2>14, <2>18, <2>20 DEF AllocIInv, PaOwn
  <2>26. CoreIs'
    <3>1. /\ Accounted = Owned[f] \cup PaPart(p) \cup Rest(f, p) \cup Waiting
          /\ Accounted' = Owned'[f] \cup PaPart(p)' \cup Rest(f, p) \cup Waiting'
      BY <1>4, <2>1, <2>5, AccountedSplit
    <3>2. PaPart(p) = PaBlocks(p) /\ PaPart(p)' = PaBlocks(p)'
      BY <2>1, <2>8 DEF PaPart
    <3>3. Owned[f] \cup PaBlocks(p)' = Owned[f] \cup PaBlocks(p)
      BY <2>14, <2>17
    <3>4. Accounted' = Accounted
      BY <1>6, <2>20, <3>1, <3>2, <3>3
    <3> QED
      BY <1>1, <3>4 DEF AllocIInv, CoreIs
  <2>27. /\ \A g \in Writer : g # f => Owned'[f] \cap Owned[g] = {}
         /\ Owned'[f] \cap Waiting' = {} /\ Waiting' \subseteq Waiting \cup Owned[f]
         /\ pending'.running \cap pending'.committing = {}
    BY <1>1, <1>6, <2>20 DEF AllocIInv, Apart
  <2> QED
    BY <1>4, <1>6, <1>8, <2>1, <2>5, <2>6, <2>7, <2>10, <2>11, <2>21, <2>22,
       <2>23, <2>24,
       <2>25, <2>26, <2>27, OneChanges
<1> QED
  BY <1>10, <1>11

-----------------------------------------------------------------------------
(* Sizes.                                                                  *)
LEMMA RunSize ==
  ASSUME NEW first \in Int, NEW len \in Nat
  PROVE  IsFiniteSet(Run(first, len)) /\ Cardinality(Run(first, len)) = len
<1>1. first + len - 1 \in Int
  OBVIOUS
<1>2. IsFiniteSet(first..(first + len - 1))
      /\ Cardinality(first..(first + len - 1))
           = IF first > first + len - 1 THEN 0 ELSE (first + len - 1) - first + 1
  BY <1>1, FS_Interval
<1> QED
  BY <1>2 DEF Run

LEMMA PaCluster ==
  ASSUME AllocIInv, NEW p \in Listed
  PROVE  /\ PaBlocks(p) \in SUBSET Cluster /\ Spare(p) \in SUBSET Cluster
         /\ IsFiniteSet(Spare(p)) /\ Cardinality(Spare(p)) \in Nat
<1>1. PaBlocks(p) \in SUBSET Cluster
  BY AllocConst DEF AllocIInv, PaSize, Listed, PaBlocks, Run, Cluster
<1> QED
  BY <1>1, ClusterFinite DEF Spare

LEMMA Subtracts ==
  ASSUME NEW S \in SUBSET Cluster, NEW T \in SUBSET S
  PROVE  Cardinality(S \ T) = Cardinality(S) - Cardinality(T)
<1>1. S \cap T = T /\ IsFiniteSet(S)
  BY ClusterFinite
<1> QED
  BY <1>1, FS_Difference

(* A live preallocation that is not counted is nobody's.                   *)
LEMMA NobodyUses ==
  ASSUME AllocIInv, NEW p \in Listed, ~pas[p].deleted, pas[p].count = 0
  PROVE  \A g \in Writer : ~Holds(g, p)
<1> SUFFICES ASSUME NEW g \in Writer, Holds(g, p) PROVE FALSE
  OBVIOUS
<1>1. p \in Pa
  BY DEF Listed
<1>2. ctx[g].at = "drop"
  BY <1>1, HeldIs
<1> QED
  BY <1>2 DEF AllocIInv, FileSound, DropSound, Holds

(* File f takes a run of what preallocation p has in reserve.              *)
LEMMA TakesFromPa ==
  ASSUME AllocIInv, AllocShape', NEW f \in Writer, OnlyFile(f), ctx[f].at = "idle",
         NEW p \in Listed, \A g \in Writer : ~Holds(g, p),
         SameCells(p), pas'[p].count = 1, ~pas'[p].deleted,
         \A q \in Pa : q # p => pas'[q] = pas[q],
         ctx'[f].at = "mark", ctx'[f].pa = p,
         ctx'[f].start \in Nat, ctx'[f].got \in Nat, ctx'[f].got >= 1,
         Run(ctx'[f].start, ctx'[f].got) \subseteq Spare(p),
         \A b \in Run(ctx'[f].lblk, ctx'[f].got) : b \in Lblk(f) /\ map[f][b] = NoBlock,
         pas[p].kind = "inode" =>
           /\ pas[p].file = f /\ pas'[p].unused = pas[p].unused - ctx'[f].got
           /\ ctx'[f].start - ctx'[f].lblk = pas[p].pstart - pas[p].lstart,
         pas[p].kind = "group" =>
           /\ lg' = f /\ pas'[p].unused = pas[p].unused
           /\ ctx'[f].start = pas[p].pstart,
         UNCHANGED <<bitmap, core, bbFree, pending, map>>
  PROVE  AllocIInv'
<1> DEFINE run == Run(ctx'[f].start, ctx'[f].got)
<1>1. /\ ctx[f] = NoContext /\ InHand(f) = {} /\ OnDisk(f) = Mapped(f)
      /\ Owned[f] = Mapped(f) /\ \A r : ~Holds(f, r) /\ ~Uses(f, r)
  BY IdleIs
<1>2. p \in Pa /\ p # NoPa /\ pas[p] \in Prealloc /\ AllocShape
  BY AllocConst, ShapeIs DEF Listed, AllocIInv
<1>3. /\ PaBlocks(p)' = PaBlocks(p) /\ p \in Listed'
  BY <1>2, CellsKeep
<1>4. Mapped(f)' = Mapped(f) /\ InHand(f)' = run
  BY InHandIs DEF Mapped, Lblk, NoBlock, Taken
<1>5. Owned'[f] = Owned[f] \cup run /\ OnDisk(f)' = OnDisk(f)
  BY <1>1, <1>4, OwnedIs DEF OnDisk
<1> HIDE DEF run
<1>6. run \subseteq PaBlocks(p) /\ run \cap Used = {} /\ run \subseteq Spare(p)
      /\ Spare(p) \in SUBSET Cluster
  BY PaCluster DEF Spare, run
<1>7. \A g \in Writer : Owned[g] \cap run = {}
  BY <1>6 DEF Used
<1>8. \A q \in Listed : q # p => PaBlocks(q) \cap run = {}
  BY <1>2, <1>6 DEF AllocIInv, PaOwn
<1>9. Waiting' = Waiting /\ run \cap Waiting = {}
  BY <1>2, <1>6 DEF AllocIInv, PaOwn, Waiting
<1>10. OthersPas(f)
  BY <1>2, OnlyHeld DEF SameCells
<1>11. \A q \in Pa : PaHeld(q)'
  <2> SUFFICES ASSUME NEW q \in Pa PROVE PaHeld(q)'
    OBVIOUS
  <2>1. CASE q = p
    <3>1. Uses(f, p)'
      BY DEF Uses, Holds
    <3> QED
      BY <1>2, <2>1, <3>1, HeldTaken
  <2>2. CASE q # p
    <3>1. ~Holds(f, q)' /\ ~Uses(f, q)'
      BY <2>2 DEF Holds, Uses
    <3> QED
      BY <1>1, <2>2, <3>1, HeldKeeps DEF AllocIInv
  <2> QED
    BY <2>1, <2>2
<1>12. FileSound(f)'
  <2>1. SeekSound(f)' /\ DropSound(f)' /\ FlowSound(f)'
    BY <1>2 DEF SeekSound, DropSound, FlowSound, Seeking, Taken
  <2>2. TakenSound(f)'
    <3>1. ctx'[f].start + ctx'[f].got <= Blocks
      <4>1. ctx'[f].start + ctx'[f].got - 1 \in run
        BY DEF run, Run
      <4>2. ctx'[f].start + ctx'[f].got - 1 \in Cluster
        BY <1>6, <4>1
      <4> QED
        BY <4>2, AllocConst DEF Cluster
    <3>2. Unmapped(f, ctx[f].got)'
      BY DEF Unmapped, Lblk, Run, NoBlock
    <3> QED
      BY <3>1, <3>2 DEF TakenSound
  <2>3. HoldSound(f)'
    BY <1>3, <1>6 DEF HoldSound, SameCells, run, Run
  <2> QED
    BY <2>1, <2>2, <2>3 DEF FileSound
<1>13. OwnDistinct(f)'
  <2>1. Mapped(f)' \cap InHand(f)' = {}
    BY <1>1, <1>4, <1>7
  <2>2. \A l, m \in Lblk(f)' : l # m => map'[f][l] # map'[f][m] \/ map'[f][l] = NoBlock
    BY DEF AllocIInv, OwnDistinct, Lblk
  <2> QED
    BY <2>1, <2>2 DEF OwnDistinct, NoBlock
<1>14. BitmapIs'
  BY <1>5, BitmapSame DEF AllocIInv
<1>15. PaSize(p)'
  <2>1. PaSize(p)
    BY <1>2 DEF AllocIInv
  <2>2. CASE pas[p].kind = "inode"
    <3>1. \A g \in Writer : g # f => Owned'[g] = Owned[g]
      BY OthersOwn
    <3>2. Used' = Used \cup run
      BY <1>5, <3>1 DEF Used
    <3>3. Spare(p)' = Spare(p) \ run
      BY <1>3, <3>2 DEF Spare
    <3>4. Cardinality(Spare(p)') = Cardinality(Spare(p)) - Cardinality(run)
      BY <1>6, <3>3, Subtracts
    <3>5. Cardinality(run) = ctx'[f].got
      BY RunSize DEF run
    <3>6. pas'[p].unused = Cardinality(Spare(p)')
      BY <2>1, <2>2, <3>4, <3>5 DEF PaSize
    <3> QED
      BY <2>1, <2>2, <3>6 DEF PaSize, SameCells
  <2>3. CASE pas[p].kind = "group"
    BY <2>1, <2>3 DEF PaSize, SameCells
  <2> QED
    BY <2>2, <2>3 DEF Listed
<1>16. \A b \in PaBlocks(p)' \cap Owned'[f] : Backs(p, f, b)'
  <2> SUFFICES ASSUME NEW b \in PaBlocks(p), b \in Owned'[f] PROVE Backs(p, f, b)'
    BY <1>3
  <2>1. CASE b \in run
    <3>1. b \in Int /\ b \in InHand(f)'
      BY <1>4, <2>1 DEF run, Run
    <3>2. CASE pas[p].kind = "inode"
      <4>1. AtSlot(f, pas[p].lstart + (b - pas[p].pstart), b)'
        <5>1. /\ pas[p].lstart \in Int /\ pas[p].pstart \in Int /\ ctx'[f].lblk \in Int
              /\ ctx'[f].start \in Int
          BY <1>2 DEF Prealloc, AllocShape, Context
        <5>2. pas[p].lstart + (b - pas[p].pstart) = ctx'[f].lblk + (b - ctx'[f].start)
          <6> DEFINE s == ctx'[f].start  m == ctx'[f].lblk
                     o == pas[p].pstart  e == pas[p].lstart
          <6>1. s - m = o - e
            BY <3>2
          <6>2. s \in Int /\ m \in Int /\ o \in Int /\ e \in Int /\ b \in Int
            BY <3>1, <5>1
          <6> HIDE DEF s, m, o, e
          <6>3. e + (b - o) = m + (b - s)
            BY <6>1, <6>2
          <6> QED
            BY <6>3 DEF s, m, o, e
        <5> QED
          BY <1>2, <3>1, <5>2 DEF AtSlot, Taken, SameCells
      <4> QED
        BY <1>2, <3>2, <4>1 DEF Backs, SameCells
    <3>3. CASE pas[p].kind = "group"
      BY <1>2, <3>1, <3>3 DEF Backs, SameCells
    <3> QED
      BY <3>2, <3>3 DEF Listed
  <2>2. CASE b \notin run
    <3>1. b \in Owned[f] /\ Backs(p, f, b) /\ pas[p].kind = "inode"
      BY <1>1, <1>5, <2>2, PaShares DEF Listed
    <3>2. AtSlot(f, pas[p].lstart + (b - pas[p].pstart), b)'
      BY <1>1, <1>2, <3>1, NothingIs DEF Backs, AtSlot, Taken, Lblk, SameCells
    <3> QED
      BY <1>2, <3>1, <3>2 DEF Backs, SameCells
  <2> QED
    BY <2>1, <2>2
<1>17. ASSUME NEW q \in Listed, q # p
       PROVE  /\ PaBlocks(q) \cap Owned'[f] = PaBlocks(q) \cap Owned[f]
              /\ PaBlocks(q) \cap Waiting' = {}
              /\ \A b \in PaBlocks(q) \cap Owned[f] : Backs(q, f, b)'
  <2>1. PaBlocks(q) \cap Waiting' = {}
    BY <1>9 DEF AllocIInv, PaOwn, Listed
  <2>2. PaBlocks(q) \cap Owned'[f] = PaBlocks(q) \cap Owned[f]
    BY <1>5, <1>8, <1>17
  <2>3. ASSUME NEW b \in PaBlocks(q) \cap Owned[f] PROVE Backs(q, f, b)'
    <3>1. Backs(q, f, b) /\ pas[q].kind = "inode" /\ pas'[q] = pas[q]
      BY <1>1, <1>17, PaShares DEF Listed
    <3>2. AtSlot(f, pas[q].lstart + (b - pas[q].pstart), b)'
      BY <1>1, <3>1, NothingIs DEF Backs, AtSlot, Taken, Lblk
    <3> QED
      BY <1>2, <3>1, <3>2 DEF Backs
  <2> QED
    BY <2>1, <2>2, <2>3
<1>18. CoreIs'
  <2>1. /\ Accounted = Owned[f] \cup PaPart(p) \cup Rest(f, p) \cup Waiting
        /\ Accounted' = Owned'[f] \cup PaPart(p)' \cup Rest(f, p) \cup Waiting'
    BY <1>2, AccountedSplit
  <2>2. PaPart(p) = PaBlocks(p) /\ PaPart(p)' = PaBlocks(p)
    BY <1>3 DEF PaPart
  <2>3. Accounted' = Accounted
    BY <1>5, <1>6, <1>9, <2>1, <2>2
  <2> QED
    BY <2>3 DEF AllocIInv, CoreIs
<1>19. /\ \A g \in Writer : g # f => Owned'[f] \cap Owned[g] = {}
       /\ Owned'[f] \cap Waiting' = {} /\ Waiting' \subseteq Waiting \cup Owned[f]
       /\ pending'.running \cap pending'.committing = {}
  BY <1>5, <1>7, <1>9 DEF AllocIInv, Apart
<1>20. /\ \A q \in Listed : q # p => PaBlocks(q) \cap PaBlocks(p)' = {}
       /\ PaBlocks(p)' \cap Waiting' = {}
  BY <1>2, <1>3, <1>9 DEF AllocIInv, PaOwn
<1>21. \A g \in Writer : g # f => PaBlocks(p)' \cap Owned[g] = {}
  <2> SUFFICES ASSUME NEW g \in Writer, g # f, NEW b \in PaBlocks(p) \cap Owned[g]
               PROVE  FALSE
    BY <1>3
  <2> QED
    BY PaShares DEF Listed
<1> QED
  BY <1>2, <1>3, <1>10, <1>11, <1>12, <1>13, <1>14, <1>15, <1>16, <1>17, <1>18,
     <1>19, <1>20,
     <1>21, OneChanges

LEMMA UsePreallocHolds ==
  ASSUME AllocIInv, NEW f \in Writer, NEW l \in Lblk(f), NEW n \in 1..MaxLen,
         ctx[f].at = "idle", l + n <= Lblks[f],
         \A b \in Run(l, n) : map[f][b] = NoBlock,
         UsePrealloc(f, l, n), UNCHANGED <<bitmap, core, bbFree, pending, map>>
  PROVE  AllocIInv'
<1>1. PICK p \in Covering(f, l) :
        /\ pas' = [pas EXCEPT ![p].unused = @ - InPa(p, l, n).got, ![p].count = @ + 1]
        /\ Ctx(f, [NoContext EXCEPT !.at = "mark", !.lblk = l, !.pa = p,
                     !.start = InPa(p, l, n).start, !.got = InPa(p, l, n).got])
        /\ lg' = lg
  BY DEF UsePrealloc
<1>2. /\ p \in Pa /\ p \in Listed /\ pas[p] \in Prealloc /\ pas[p].kind = "inode"
      /\ pas[p].file = f /\ ~pas[p].deleted /\ l \in Run(pas[p].lstart, pas[p].len)
      /\ AllocShape
  BY <1>1, ShapeIs DEF Covering, OfFile, Listed, AllocIInv
<1> DEFINE s0 == pas[p].pstart
           e0 == pas[p].lstart
           n0 == pas[p].len
           start == s0 + (l - e0)
           rest == s0 + n0 - start
           got == IF n <= rest THEN n ELSE rest
<1>3. /\ s0 \in Nat /\ n0 \in Nat /\ s0 + n0 <= Blocks /\ e0 \in Int
      /\ l \in Int /\ n \in Int /\ n >= 1 /\ e0 <= l /\ l < e0 + n0
      /\ Lblks[f] \in Nat /\ l >= 0
  BY <1>2, AllocConst DEF AllocIInv, PaSize, Prealloc, Run, Lblk
<1>4. InPa(p, l, n).start = start /\ InPa(p, l, n).got = got
  <2>1. n \in Int /\ rest \in Int
    BY <1>3
  <2>2. InPa(p, l, n) = [start |-> start, got |-> Min({n, rest})]
    BY DEF InPa
  <2> HIDE DEF start, rest
  <2>3. Min({n, rest}) = got
    BY <2>1, TwoMin
  <2> QED
    BY <2>2, <2>3
<1>5. /\ start \in Int /\ got \in Int /\ got >= 1 /\ got <= n /\ start >= s0
      /\ start + got <= s0 + n0 /\ start - l = s0 - e0
  BY <1>3
<1> HIDE DEF got, rest, start
<1>6. /\ ctx' \in [Writer -> Context]
      /\ \A g \in Writer : g # f => ctx'[g] = ctx[g]
      /\ ctx'[f].at = "mark" /\ ctx'[f].lblk = l /\ ctx'[f].pa = p
      /\ ctx'[f].start = start /\ ctx'[f].got = got
  <2> DEFINE d == [NoContext EXCEPT !.at = "mark", !.lblk = l, !.pa = p, !.start = start,
                                    !.got = got]
  <2>1. Ctx(f, d)
    BY <1>1, <1>4
  <2>2. NoContext \in Context /\ "mark" \in Steps
    BY NothingIs DEF Steps, Taken
  <2>3. d \in Context
    BY <1>2, <1>3, <1>5, <2>2 DEF Context
  <2>4. d.at = "mark" /\ d.lblk = l /\ d.pa = p /\ d.start = start /\ d.got = got
    BY <2>2 DEF Context
  <2> HIDE DEF d
  <2> QED
    BY <1>2, <2>1, <2>3, <2>4, CtxIs
<1>7. /\ \A q \in Pa : q # p => pas'[q] = pas[q]
      /\ pas' \in [Pa -> Prealloc] /\ SameCells(p) /\ ~pas'[p].deleted
      /\ pas'[p].unused = pas[p].unused - got /\ pas'[p].count = pas[p].count + 1
  <2> DEFINE u == pas[p].unused - got
             k == pas[p].count + 1
             r == [pas[p] EXCEPT !.unused = u, !.count = k]
  <2>1. u \in Int /\ k \in Int
    BY <1>2, <1>5 DEF Prealloc
  <2>2. pas' = [pas EXCEPT ![p] = r]
    BY <1>1, <1>2, <1>4 DEF AllocShape
  <2> HIDE DEF u, k
  <2>3. r \in Prealloc
    BY <1>2, <2>1 DEF Prealloc
  <2>4. r.unused = u /\ r.count = k
    BY <1>2, <2>1 DEF Prealloc
  <2>5. /\ r.kind = pas[p].kind /\ r.file = pas[p].file /\ r.lstart = pas[p].lstart
        /\ r.pstart = pas[p].pstart /\ r.len = pas[p].len /\ r.deleted = pas[p].deleted
    BY <1>2, <2>1 DEF Prealloc
  <2> HIDE DEF r
  <2>6. pas' \in [Pa -> Prealloc] /\ pas'[p] = r /\ \A q \in Pa : q # p => pas'[q] = pas[q]
    BY <1>2, <2>2, <2>3 DEF AllocShape
  <2> QED
    BY <1>2, <2>4, <2>5, <2>6 DEF SameCells, u, k
<1>8. OnlyFile(f)
  BY <1>1, <1>6 DEF OnlyFile
<1>9. AllocShape'
  BY <1>1, <1>2, <1>6, <1>7 DEF AllocShape, Lblk, Cluster, NoBlock
<1>10. Owned[f] = Mapped(f) /\ ctx[f] = NoContext /\ \A q : ~Holds(f, q)
  BY IdleIs
<1>11. \A g \in Writer : ~Holds(g, p)
  BY <1>2, <1>10, HeldIs
<1>12. pas'[p].count = 1
  <2>1. pas[p].count = 0
    BY <1>2, <1>11 DEF AllocIInv, PaHeld, Uses
  <2> QED
    BY <1>7, <2>1
<1>13. \A b \in Run(l, got) : b \in Lblk(f) /\ map[f][b] = NoBlock
  BY <1>3, <1>5 DEF Run, Lblk
<1>14. Run(start, got) \subseteq Spare(p)
  <2> SUFFICES ASSUME NEW b \in Run(start, got)
               PROVE  b \in PaBlocks(p) /\ b \notin Used
    BY DEF Spare
  <2>1. b \in Int /\ b >= start /\ b < start + got
    BY <1>5 DEF Run
  <2>2. b \in PaBlocks(p)
    BY <1>3, <1>5, <2>1 DEF PaBlocks, Run
  <2>3. b \notin Used
    <3> SUFFICES ASSUME NEW g \in Writer, b \in Owned[g] PROVE FALSE
      BY DEF Used
    <3>1. g = f /\ Backs(p, g, b)
      BY <1>2, <2>2, PaShares
    <3>2. AtSlot(f, e0 + (b - s0), b)
      BY <1>2, <3>1 DEF Backs
    <3>3. map[f][e0 + (b - s0)] = b
      BY <1>10, <3>2, NothingIs DEF AtSlot, Taken
    <3>4. e0 + (b - s0) \in Run(l, got)
      <4> HIDE DEF e0, s0, n0
      <4> QED
        BY <1>3, <1>5, <2>1 DEF Run
    <3>5. b = NoBlock
      BY <1>13, <3>3, <3>4
    <3> QED
      BY <1>3, <1>5, <2>1, <3>5 DEF NoBlock
  <2> QED
    BY <2>2, <2>3
<1>15. ctx'[f].start \in Nat /\ ctx'[f].got \in Nat /\ ctx'[f].got >= 1
  BY <1>3, <1>5, <1>6
<1>16. /\ Run(ctx'[f].start, ctx'[f].got) \subseteq Spare(p)
       /\ \A b \in Run(ctx'[f].lblk, ctx'[f].got) : b \in Lblk(f) /\ map[f][b] = NoBlock
       /\ ctx'[f].start - ctx'[f].lblk = pas[p].pstart - pas[p].lstart
       /\ pas'[p].unused = pas[p].unused - ctx'[f].got
  BY <1>5, <1>6, <1>7, <1>13, <1>14
<1> QED
  BY <1>2, <1>6, <1>7, <1>8, <1>9, <1>11, <1>12, <1>15, <1>16, TakesFromPa

LEMMA UseGroupHolds ==
  ASSUME AllocIInv, NEW f \in Writer, NEW l \in Lblk(f), NEW n \in 1..MaxLen,
         ctx[f].at = "idle", l + n <= Lblks[f],
         \A b \in Run(l, n) : map[f][b] = NoBlock,
         UseGroup(f, l, n), UNCHANGED <<bitmap, core, bbFree, pending, map>>
  PROVE  AllocIInv'
<1>1. PICK p \in Listed :
        /\ lg = NoFile /\ lg' = f
        /\ pas[p].kind = "group" /\ ~pas[p].deleted /\ pas[p].unused >= n
        /\ pas' = [pas EXCEPT ![p].count = @ + 1]
        /\ Ctx(f, [NoContext EXCEPT !.at = "mark", !.lblk = l, !.pa = p,
                     !.start = pas[p].pstart, !.got = n])
  BY DEF UseGroup
<1>2. p \in Pa /\ pas[p] \in Prealloc /\ AllocShape
  BY <1>1, ShapeIs DEF Listed, AllocIInv
<1> DEFINE start == pas[p].pstart
<1>3. /\ start \in Nat /\ pas[p].unused = pas[p].len /\ pas[p].len \in Nat
      /\ start + pas[p].len <= Blocks /\ pas[p].len >= n
      /\ n \in Int /\ n >= 1 /\ l \in Int /\ l >= 0 /\ Lblks[f] \in Nat
  BY <1>1, <1>2, AllocConst DEF AllocIInv, PaSize, Lblk
<1>6. /\ ctx' \in [Writer -> Context]
      /\ \A g \in Writer : g # f => ctx'[g] = ctx[g]
      /\ ctx'[f].at = "mark" /\ ctx'[f].lblk = l /\ ctx'[f].pa = p
      /\ ctx'[f].start = start /\ ctx'[f].got = n
  <2> DEFINE d == [NoContext EXCEPT !.at = "mark", !.lblk = l, !.pa = p, !.start = start,
                                    !.got = n]
  <2>1. Ctx(f, d)
    BY <1>1
  <2>2. NoContext \in Context /\ "mark" \in Steps
    BY NothingIs DEF Steps, Taken
  <2>a. start \in Int
    BY <1>3
  <2> HIDE DEF start
  <2>3. d \in Context
    BY <1>2, <1>3, <2>a, <2>2 DEF Context
  <2>4. d.at = "mark" /\ d.lblk = l /\ d.pa = p /\ d.start = start /\ d.got = n
    BY <2>2 DEF Context
  <2> HIDE DEF d
  <2> QED
    BY <1>2, <2>1, <2>3, <2>4, CtxIs
<1>7. /\ \A q \in Pa : q # p => pas'[q] = pas[q]
      /\ pas' \in [Pa -> Prealloc] /\ SameCells(p) /\ ~pas'[p].deleted
      /\ pas'[p].unused = pas[p].unused /\ pas'[p].count = pas[p].count + 1
  <2> DEFINE k == pas[p].count + 1
             r == [pas[p] EXCEPT !.count = k]
  <2>1. k \in Int
    BY <1>2 DEF Prealloc
  <2>2. pas' = [pas EXCEPT ![p] = r]
    BY <1>1, <1>2 DEF AllocShape
  <2> HIDE DEF k
  <2>3. r \in Prealloc
    BY <1>2, <2>1 DEF Prealloc
  <2>4. r.count = k
    BY <1>2, <2>1 DEF Prealloc
  <2>5. /\ r.kind = pas[p].kind /\ r.file = pas[p].file /\ r.lstart = pas[p].lstart
        /\ r.pstart = pas[p].pstart /\ r.len = pas[p].len /\ r.deleted = pas[p].deleted
        /\ r.unused = pas[p].unused
    BY <1>2, <2>1 DEF Prealloc
  <2> HIDE DEF r
  <2>6. pas' \in [Pa -> Prealloc] /\ pas'[p] = r /\ \A q \in Pa : q # p => pas'[q] = pas[q]
    BY <1>2, <2>2, <2>3 DEF AllocShape
  <2> QED
    BY <1>1, <2>4, <2>5, <2>6 DEF SameCells, k
<1>8. OnlyFile(f)
  BY <1>1, <1>6, AllocConst DEF OnlyFile
<1>9. AllocShape'
  <2>1. lg' \in Writer \cup {NoFile}
    BY <1>1
  <2> QED
    BY <1>2, <1>6, <1>7, <2>1 DEF AllocShape, Lblk, Cluster, NoBlock
<1>10. \A q : ~Holds(f, q)
  BY IdleIs
<1>11. \A g \in Writer : ~Holds(g, p)
  <2> SUFFICES ASSUME NEW g \in Writer, Holds(g, p) PROVE FALSE
    OBVIOUS
  <2>1. ctx[g].at \notin Seeking /\ p # NoPa
    BY <1>1, <1>2, HeldIs, AllocConst
  <2>2. ctx[g].at # "drop"
    BY <1>1 DEF AllocIInv, FileSound, DropSound, Holds
  <2>3. lg = g
    BY <1>1, <2>1, <2>2 DEF AllocIInv, FileSound, HoldSound, Holds
  <2> QED
    BY <1>1, <2>3, AllocConst
<1>12. pas'[p].count = 1
  <2>1. pas[p].count = 0
    BY <1>2, <1>11 DEF AllocIInv, PaHeld, Uses
  <2> QED
    BY <1>7, <2>1
<1>13. \A b \in Run(l, n) : b \in Lblk(f) /\ map[f][b] = NoBlock
  BY <1>3 DEF Run, Lblk
<1>14. Run(start, n) \subseteq Spare(p)
  <2> SUFFICES ASSUME NEW b \in Run(start, n)
               PROVE  b \in PaBlocks(p) /\ b \notin Used
    BY DEF Spare
  <2>1. b \in PaBlocks(p)
    BY <1>3 DEF PaBlocks, Run
  <2>2. b \notin Used
    <3> SUFFICES ASSUME NEW g \in Writer, b \in Owned[g] PROVE FALSE
      BY DEF Used
    <3> QED
      BY <1>1, <1>11, <2>1, PaShares
  <2> QED
    BY <2>1, <2>2
<1>15. ctx'[f].start \in Nat /\ ctx'[f].got \in Nat /\ ctx'[f].got >= 1
  BY <1>3, <1>6
<1>16. /\ Run(ctx'[f].start, ctx'[f].got) \subseteq Spare(p)
       /\ \A b \in Run(ctx'[f].lblk, ctx'[f].got) : b \in Lblk(f) /\ map[f][b] = NoBlock
       /\ ctx'[f].start = pas[p].pstart /\ pas[p].kind = "group"
  BY <1>1, <1>6, <1>13, <1>14
<1> QED
  BY <1>1, <1>6, <1>7, <1>8, <1>9, <1>11, <1>12, <1>15, <1>16, TakesFromPa

LEMMA RequestHolds ==
  ASSUME AllocIInv, NEW f \in Writer, Request(f) PROVE AllocIInv'
<1>1. PICK l \in Lblk(f), n \in 1..MaxLen :
        /\ ctx[f].at = "idle" /\ l + n <= Lblks[f]
        /\ \A b \in Run(l, n) : map[f][b] = NoBlock
        /\ UsePrealloc(f, l, n) \/ UseGroup(f, l, n) \/ Search(f, l, n)
        /\ UNCHANGED <<bitmap, core, bbFree, pending, map>>
  BY DEF Request
<1> QED
  BY <1>1, UsePreallocHolds, UseGroupHolds, SearchHolds

(* A preallocation that is used up covers nothing but what files have.     *)
LEMMA DropPaHolds ==
  ASSUME AllocIInv, NEW f \in Writer, DropPa(f) PROVE AllocIInv'
<1>1. /\ AllocShape /\ ctx[f].at = "drop" /\ Unpins(f)
      /\ pas' = [pas EXCEPT ![ctx[f].pa] = NoPrealloc]
      /\ UNCHANGED <<bitmap, core, bbFree, pending, lg, map>>
  BY DEF AllocIInv, DropPa
<1>2. FileSound(f)
  BY DEF AllocIInv
<1>3. PICK p \in Pa : p = ctx[f].pa /\ p \in Listed /\ pas[p].deleted /\ pas[p].unused = 0
  BY <1>1, <1>2 DEF FileSound, DropSound, Listed
<1>4. /\ ctx' \in [Writer -> Context]
      /\ \A g \in Writer : g # f => ctx'[g] = ctx[g]
      /\ ctx'[f].at = "insert" /\ ctx'[f].lblk = ctx[f].lblk
      /\ ctx'[f].start = ctx[f].start /\ ctx'[f].got = ctx[f].got
  BY <1>1, CtxUnpins
<1>5. OnlyFile(f)
  BY <1>1, <1>4 DEF OnlyFile
<1>6. /\ pas' \in [Pa -> Prealloc] /\ pas'[p] = NoPrealloc
      /\ \A q \in Pa : q # p => pas'[q] = pas[q]
  BY <1>1, <1>3, NothingIs DEF AllocShape
<1>7. AllocShape'
  BY <1>1, <1>4, <1>6 DEF AllocShape, Lblk, Cluster
<1>8. Holds(f, p) /\ p # NoPa /\ p \notin Listed'
  BY <1>1, <1>3, <1>6, NothingIs, AllocConst DEF Holds, Listed
<1>9. \A g \in Writer : g # f => ~Holds(g, p)
  BY <1>8, HeldIs
<1>10. OthersPas(f)
  BY <1>6, <1>9, NothingIs, OnlyHeld
<1>11. /\ Mapped(f)' = Mapped(f) /\ InHand(f)' = InHand(f)
       /\ Owned'[f] = Owned[f] /\ TakenSound(f)' /\ OwnDistinct(f)' /\ SeekSound(f)'
       /\ \A l, b : AtSlot(f, l, b)' <=> AtSlot(f, l, b)
  BY <1>1, <1>4, TakenStays DEF Taken
<1>12. OnDisk(f)' = OnDisk(f)
  BY <1>1, <1>4, <1>11 DEF OnDisk
<1>13. BitmapIs'
  BY <1>1, <1>5, <1>12, BitmapSame DEF AllocIInv
<1>14. FileSound(f)'
  <2>1. HoldSound(f)' /\ DropSound(f)' /\ FlowSound(f)'
    BY <1>1, <1>4 DEF HoldSound, DropSound, FlowSound, Seeking, Taken
  <2> QED
    BY <1>11, <2>1 DEF FileSound
<1>15. \A q \in Pa : PaHeld(q)'
  <2> SUFFICES ASSUME NEW q \in Pa PROVE PaHeld(q)'
    OBVIOUS
  <2>1. ~Holds(f, q)' /\ ~Uses(f, q)' /\ ~Uses(f, q)
    BY <1>1, <1>4 DEF Holds, Uses, Seeking
  <2>2. CASE q = p
    BY <1>5, <1>6, <1>9, <2>1, <2>2, NothingIs, HeldFreed
  <2>3. CASE q # p
    <3>1. ~Holds(f, q)
      BY <1>3, <2>3 DEF Holds
    <3> QED
      BY <1>5, <1>6, <2>1, <2>3, <3>1, HeldKeeps DEF AllocIInv
  <2> QED
    BY <2>2, <2>3
<1>16. Waiting' = Waiting
  BY <1>1 DEF Waiting
<1>17. ASSUME NEW q \in Listed, q # p
       PROVE  /\ PaBlocks(q) \cap Owned'[f] = PaBlocks(q) \cap Owned[f]
              /\ PaBlocks(q) \cap Waiting' = {}
              /\ \A b \in PaBlocks(q) \cap Owned[f] : Backs(q, f, b)'
  <2>1. PaBlocks(q) \cap Waiting' = {}
    BY <1>16 DEF AllocIInv, PaOwn, Listed
  <2>2. ASSUME NEW b \in PaBlocks(q) \cap Owned[f] PROVE Backs(q, f, b)'
    <3>1. Backs(q, f, b) /\ pas'[q] = pas[q] /\ pas[q].kind = "inode"
      BY <1>1, <1>6, <1>17, PaShares DEF Listed
    <3> QED
      BY <1>4, <1>11, <3>1 DEF Backs
  <2> QED
    BY <1>11, <2>1, <2>2
<1>18. PaBlocks(p) \subseteq Used
  <2>1. PaSize(p) /\ (pas[p].kind = "inode" \/ pas[p].kind = "group")
    BY <1>3 DEF AllocIInv, Listed
  <2>2. CASE pas[p].kind = "inode"
    <3>1. Cardinality(Spare(p)) = 0
      BY <1>3, <2>1, <2>2 DEF PaSize
    <3>2. Spare(p) = {}
      BY <1>3, <3>1, PaCluster, FS_EmptySet
    <3> QED
      BY <3>2 DEF Spare
  <2>3. CASE pas[p].kind = "group"
    <3>1. pas[p].len = 0 /\ pas[p].pstart \in Nat
      BY <1>3, <2>1, <2>3 DEF PaSize
    <3> QED
      BY <3>1 DEF PaBlocks, Run
  <2> QED
    BY <2>1, <2>2, <2>3
<1>19. CoreIs'
  <2>1. /\ Accounted = Owned[f] \cup PaPart(p) \cup Rest(f, p) \cup Waiting
        /\ Accounted' = Owned'[f] \cup PaPart(p)' \cup Rest(f, p) \cup Waiting'
    BY <1>5, <1>6, AccountedSplit
  <2>2. PaPart(p) = PaBlocks(p) /\ PaPart(p)' = {}
    BY <1>3, <1>8 DEF PaPart
  <2>3. Used = Owned[f] \cup HaveOthers(f) /\ HaveOthers(f) \subseteq Rest(f, p)
    BY UsedSplit DEF Rest
  <2>4. Accounted' = Accounted
    BY <1>11, <1>16, <1>18, <2>1, <2>2, <2>3
  <2> QED
    BY <1>1, <2>4 DEF AllocIInv, CoreIs
<1>20. /\ \A g \in Writer : g # f => Owned'[f] \cap Owned[g] = {}
       /\ Owned'[f] \cap Waiting' = {} /\ Waiting' \subseteq Waiting \cup Owned[f]
       /\ pending'.running \cap pending'.committing = {}
  BY <1>1, <1>11, <1>16 DEF AllocIInv, Apart
<1> QED
  BY <1>5, <1>6, <1>7, <1>8, <1>10, <1>11, <1>13, <1>14, <1>15, <1>17, <1>19,
     <1>20, OneChanges

(* What a release frees of a preallocation nobody works with is what no    *)
(* file has of it, though it asks the bitmap on disk.                      *)
LEMMA NotUsedIs ==
  ASSUME AllocIInv, NEW p \in Listed, \A g \in Writer : ~Holds(g, p)
  PROVE  NotUsed(p) = Spare(p)
<1>1. p \in Pa /\ (pas[p].kind = "inode" \/ pas[p].kind = "group")
  BY DEF Listed
<1>2. CASE pas[p].kind = "group"
  <2>1. PaBlocks(p) \cap Used = {}
    <3> SUFFICES ASSUME NEW g \in Writer, NEW b \in PaBlocks(p) \cap Owned[g]
                 PROVE  FALSE
      BY DEF Used
    <3> QED
      BY <1>2, PaShares
  <2> QED
    BY <1>2, <2>1 DEF NotUsed, Spare
<1>3. CASE pas[p].kind = "inode"
  <2>1. ASSUME NEW b \in PaBlocks(p), b \in bitmap PROVE b \in Used
    <3>1. PICK g \in Writer : b \in OnDisk(g)
      BY <2>1 DEF AllocIInv, BitmapIs
    <3>2. b \in Owned[g]
      BY <3>1, OwnedIs DEF OnDisk
    <3> QED
      BY <3>2 DEF Used
  <2>2. ASSUME NEW b \in PaBlocks(p), b \in Used PROVE b \in bitmap
    <3>1. PICK g \in Writer : b \in Owned[g]
      BY <2>2 DEF Used
    <3>2. Backs(p, g, b) /\ pas[p].file = g /\ FileSound(g)
      BY <1>3, <2>2, <3>1, PaShares DEF AllocIInv
    <3>3. b \in OnDisk(g)
      <4> SUFFICES ASSUME b \notin OnDisk(g) PROVE FALSE
        OBVIOUS
      <4>1. b \in InHand(g) /\ ctx[g].at \in {"mark", "pend"}
        BY <3>1, OwnedIs DEF OnDisk
      <4>2. CASE ctx[g].at = "pend"
        BY <1>3, <3>2, <4>2 DEF FileSound, FlowSound, OfFile
      <4>3. CASE ctx[g].at = "mark"
        <5>1. ctx[g].pa # NoPa /\ ctx[g].pa \in Listed /\ b \in PaBlocks(ctx[g].pa)
          BY <3>2, <4>1, <4>3, InHandIs DEF Backs, FileSound, HoldSound, Taken
        <5>2. ctx[g].pa = p
          BY <1>1, <2>2, <5>1 DEF AllocIInv, PaOwn
        <5> QED
          BY <4>3, <5>2 DEF Holds
      <4> QED
        BY <4>1, <4>2, <4>3
    <3> QED
      BY <3>3 DEF AllocIInv, BitmapIs
  <2> QED
    BY <1>3, <2>1, <2>2 DEF NotUsed, Spare
<1> QED
  BY <1>1, <1>2, <1>3

LEMMA ReleasePasHolds ==
  ASSUME AllocIInv, NEW f \in Writer, OnlyFile(f), NEW released \in SUBSET Listed,
         \A p \in released, g \in Writer : ~Holds(g, p),
         ReleasePas(released), ctx' \in [Writer -> Context], ctx[f].at \notin Taken,
         \A p \in Pa : (Holds(f, p)' <=> Holds(f, p)) /\ (Uses(f, p)' <=> Uses(f, p)),
         InHand(f)' = InHand(f), OnDisk(f)' = OnDisk(f), FileSound(f)',
         \A l, b : AtSlot(f, l, b) => AtSlot(f, l, b)', ctx'[f].at \notin Taken,
         UNCHANGED <<bitmap, pending, lg, map>>
  PROVE  AllocIInv'
<1>1. AllocShape /\ Listed \subseteq Pa /\ released \subseteq Pa
  BY DEF AllocIInv, Listed
<1>2. pas' = [p \in Pa |-> IF p \in released THEN NoPrealloc ELSE pas[p]]
  BY DEF ReleasePas
<1>3. /\ \A p \in released : pas'[p] = NoPrealloc
      /\ \A p \in Pa : p \notin released => pas'[p] = pas[p]
      /\ pas' \in [Pa -> Prealloc]
  BY <1>1, <1>2, NothingIs DEF AllocShape
<1>4. Listed' = Listed \ released
  BY <1>1, <1>3, NothingIs DEF Listed
<1>5. \A p \in Listed \ released : SameCells(p) /\ PaBlocks(p)' = PaBlocks(p)
  <2>1. \A p \in Listed \ released : SameCells(p) /\ p \in Pa
    BY <1>1, <1>3 DEF SameCells
  <2> QED
    BY <2>1, CellsKeep
<1>6. OthersPas(f)
  BY <1>1, <1>3, NothingIs DEF OthersPas
<1>7. Mapped(f)' = Mapped(f) /\ Owned'[f] = Owned[f]
  <2>1. Mapped(f)' = Mapped(f)
    BY DEF Mapped, Lblk, NoBlock
  <2> QED
    BY <2>1, OwnedIs
<1>8. \A g \in Writer : Owned'[g] = Owned[g]
  BY <1>7, OthersOwn
<1>9. Used' = Used /\ Waiting' = Waiting
  BY <1>8 DEF Used, Waiting
<1> DEFINE freed == UNION {NotUsed(p) : p \in released}
<1>10. \A b : b \in freed <=> \E p \in released : b \in PaBlocks(p) /\ b \notin Used
  <2>1. \A p \in released : NotUsed(p) = Spare(p)
    BY <1>1, NotUsedIs
  <2> QED
    BY <2>1 DEF Spare
<1>11. FreeCore(freed)
  BY DEF ReleasePas
<1> HIDE DEF freed
<1>12. core = Used \cup InReserve \cup Waiting
  BY DEF AllocIInv, CoreIs, Accounted
<1>13. \A b : b \in InReserve <=> \E p \in Listed : b \in PaBlocks(p)
  BY DEF InReserve
<1>14. \A b : b \in InReserve' <=> \E p \in Listed \ released : b \in PaBlocks(p)
  <2>1. \A b : b \in InReserve' <=> \E p \in Listed' : b \in PaBlocks(p)'
    BY DEF InReserve
  <2> QED
    BY <1>4, <1>5, <2>1
<1>15. freed \in SUBSET core
  BY <1>10, <1>12, <1>13
<1>16. /\ core' = core \ freed /\ core' \in SUBSET Cluster
       /\ bbFree' = Blocks - Cardinality(core') /\ bbFree' \in Int
  BY <1>11, <1>15, FreeCoreIs
<1>17. \A p \in Listed : \A q \in Listed : q # p => PaBlocks(p) \cap PaBlocks(q) = {}
  BY <1>1 DEF AllocIInv, PaOwn
<1>18. \A p \in Listed : PaBlocks(p) \cap Waiting = {}
  BY <1>1 DEF AllocIInv, PaOwn
<1>19. core' = Used \cup InReserve' \cup Waiting
  <2>1. ASSUME NEW b \in core' PROVE b \in Used \cup InReserve' \cup Waiting
    BY <1>10, <1>12, <1>13, <1>14, <1>16, <2>1
  <2>2. ASSUME NEW b \in Used \cup InReserve' \cup Waiting PROVE b \in core'
    <3>1. b \in core
      BY <1>12, <1>13, <1>14, <2>2
    <3>2. b \notin freed
      BY <1>10, <1>14, <1>17, <1>18, <2>2
    <3> QED
      BY <1>16, <3>1, <3>2
  <2> QED
    BY <2>1, <2>2
<1>20. CoreIs'
  BY <1>9, <1>16, <1>19 DEF CoreIs, Accounted
<1>21. AllocShape'
  BY <1>1, <1>3, <1>16 DEF AllocShape, Lblk, Cluster, NoBlock
<1>22. \A g \in Writer : FileSound(g)' /\ OwnDistinct(g)'
  <2>1. OwnDistinct(f)'
    BY <1>7 DEF AllocIInv, OwnDistinct, Lblk, NoBlock
  <2> QED
    BY <1>1, <1>6, <1>21, <2>1, OthersSound DEF AllocIInv
<1>23. BitmapIs'
  BY BitmapSame DEF AllocIInv
<1>24. ASSUME NEW p \in Pa PROVE PaHeld(p)'
  <2>1. CASE p \in released
    <3>1. ~Uses(f, p)' /\ pas'[p].count = 0
      BY <1>3, <2>1, NothingIs DEF Uses
    <3> QED
      BY <2>1, <3>1, HeldFreed
  <2>2. CASE p \notin released
    BY <1>3, <2>2, HeldKeeps DEF AllocIInv
  <2> QED
    BY <2>1, <2>2
<1>25. ASSUME NEW p \in Pa PROVE PaSize(p)' /\ PaOwn(p)'
  <2>1. CASE p \notin Listed'
    BY <2>1 DEF PaSize, PaOwn
  <2>2. CASE p \in Listed'
    <3>1. /\ p \in Listed \ released /\ SameCells(p) /\ pas'[p] = pas[p]
          /\ PaSize(p) /\ PaOwn(p)
      BY <1>3, <1>4, <1>5, <2>2 DEF AllocIInv
    <3>2. PaSize(p)'
      BY <1>9, <3>1, SizeKeeps
    <3>3. \A q \in Listed' : q # p => PaBlocks(p) \cap PaBlocks(q)' = {}
      BY <1>4, <1>5, <1>17, <3>1
    <3>4. PaBlocks(p) \cap Waiting' = {}
      BY <1>9, <1>18, <3>1
    <3>5. \A b \in PaBlocks(p) \cap Owned'[f] : Backs(p, f, b)'
      <4> SUFFICES ASSUME NEW b \in PaBlocks(p) \cap Owned'[f] PROVE Backs(p, f, b)'
        OBVIOUS
      <4>1. Backs(p, f, b) /\ pas[p].kind = "inode"
        BY <1>7, <3>1, PaShares DEF Listed, Taken
      <4> QED
        BY <3>1, <4>1 DEF Backs, Taken
    <3>6. PaOwn(p)'
      BY <3>1, <3>3, <3>4, <3>5, OwnKeeps
    <3> QED
      BY <3>2, <3>6
  <2> QED
    BY <2>1, <2>2
<1>26. Apart'
  BY <1>8, <1>9 DEF AllocIInv, Apart
<1> QED
  BY <1>20, <1>21, <1>22, <1>23, <1>24, <1>25, <1>26 DEF AllocIInv

LEMMA DiscardGroupHolds ==
  ASSUME AllocIInv, NEW f \in Writer, DiscardGroup(f) PROVE AllocIInv'
<1>1. /\ AllocShape /\ ctx[f].at = "discard" /\ GoTo(f, "scan") /\ "scan" \in Steps
      /\ ReleasePas(Discardable)
      /\ UNCHANGED <<bitmap, pending, lg, map>>
  BY DEF AllocIInv, DiscardGroup, Steps, Seeking
<1>2. /\ ctx' \in [Writer -> Context]
      /\ \A g \in Writer : g # f => ctx'[g] = ctx[g]
      /\ ctx'[f].at = "scan" /\ ctx'[f].lblk = ctx[f].lblk /\ ctx'[f].len = ctx[f].len
      /\ ctx'[f].gstart = ctx[f].gstart /\ ctx'[f].glen = ctx[f].glen
      /\ ctx'[f].pa = ctx[f].pa /\ ctx'[f].freeing = ctx[f].freeing
  BY <1>1, CtxGoes
<1>3. OnlyFile(f)
  BY <1>1, <1>2 DEF OnlyFile
<1>4. Discardable \in SUBSET Listed /\ \A p \in Discardable, g \in Writer : ~Holds(g, p)
  BY NobodyUses DEF Discardable
<1>5. \A p \in Pa : (Holds(f, p)' <=> Holds(f, p)) /\ (Uses(f, p)' <=> Uses(f, p))
  BY <1>1, <1>2 DEF Holds, Uses, Seeking
<1>6. InHand(f)' = InHand(f) /\ ctx[f].at \notin Taken /\ ctx'[f].at \notin Taken
  BY <1>1, <1>2, InHandIs DEF Taken
<1>7. OnDisk(f)' = OnDisk(f)
  BY <1>1, <1>2, <1>6 DEF OnDisk, Mapped, Lblk, NoBlock
<1>8. FileSound(f)'
  <2>1. FileSound(f) /\ ctx[f].pa \in Pa /\ ctx[f].pa \notin Listed
    BY <1>1 DEF AllocIInv, FileSound, SeekSound, Seeking, Listed
  <2>2. pas'[ctx[f].pa] = pas[ctx[f].pa]
    BY <1>1, <2>1 DEF ReleasePas, Discardable
  <2>3. SeekSound(f)'
    BY <1>1, <1>2, <2>1, <2>2
    DEF FileSound, SeekSound, Seeking, Unmapped, Lblk, Run, NoBlock
  <2>4. TakenSound(f)' /\ HoldSound(f)' /\ DropSound(f)' /\ FlowSound(f)'
    BY <1>2 DEF TakenSound, HoldSound, DropSound, FlowSound, Seeking, Taken
  <2> QED
    BY <2>3, <2>4 DEF FileSound
<1>9. \A l, b : AtSlot(f, l, b) => AtSlot(f, l, b)'
  BY <1>1, <1>2 DEF AtSlot, Taken, Lblk
<1> QED
  BY <1>1, <1>2, <1>3, <1>4, <1>5, <1>6, <1>7, <1>8, <1>9, ReleasePasHolds

LEMMA ReleasePaHolds ==
  ASSUME AllocIInv, NEW f \in Writer, ReleasePa(f) PROVE AllocIInv'
<1>1. PICK p \in OfFile(f) : pas[p].deleted /\ ReleasePas({p})
  BY DEF ReleasePa
<1>2. /\ ctx[f].at = "release pas" /\ UNCHANGED <<bitmap, pending, ctx, lg, map>>
      /\ AllocShape
  BY DEF ReleasePa, AllocIInv
<1>3. OnlyFile(f)
  BY <1>2 DEF OnlyFile
<1>4. p \in Pa /\ p \in Listed /\ pas[p].kind = "inode" /\ pas[p].file = f
  BY DEF OfFile, Listed
<1>5. \A g \in Writer : ~Holds(g, p)
  <2> SUFFICES ASSUME NEW g \in Writer, Holds(g, p) PROVE FALSE
    OBVIOUS
  <2>1. g = f
    BY <1>4, HeldIs
  <2> QED
    BY <1>2, <2>1 DEF Holds, Seeking
<1>6. \A q \in Pa : (Holds(f, q)' <=> Holds(f, q)) /\ (Uses(f, q)' <=> Uses(f, q))
  BY <1>2 DEF Holds, Uses
<1>7. ctx[f].at \notin Taken /\ ctx'[f].at \notin Taken /\ ctx' \in [Writer -> Context]
  BY <1>2 DEF Taken, AllocShape
<1>8. InHand(f)' = InHand(f)
  BY <1>2, <1>7, InHandIs
<1>9. OnDisk(f)' = OnDisk(f)
  BY <1>2, <1>8 DEF OnDisk, Mapped, Lblk, NoBlock
<1>10. FileSound(f)'
  <2>1. OfFile(f)' \subseteq OfFile(f) /\ \A q \in OfFile(f)' : pas'[q] = pas[q]
    BY <1>1, <1>4, NothingIs DEF ReleasePas, OfFile, Listed
  <2>2. FlowSound(f)'
    BY <1>2, <2>1 DEF AllocIInv, FileSound, FlowSound
  <2>3. SeekSound(f)' /\ TakenSound(f)' /\ HoldSound(f)' /\ DropSound(f)'
    BY <1>2 DEF SeekSound, TakenSound, HoldSound, DropSound, Seeking, Taken
  <2> QED
    BY <2>2, <2>3 DEF FileSound
<1>11. \A l, b : AtSlot(f, l, b) => AtSlot(f, l, b)'
  BY <1>2 DEF AtSlot, Lblk, Taken
<1>12. {p} \in SUBSET Listed /\ \A q \in {p}, g \in Writer : ~Holds(g, q)
  BY <1>4, <1>5
<1> QED
  BY <1>1, <1>2, <1>3, <1>6, <1>7, <1>8, <1>9, <1>10, <1>11, <1>12, ReleasePasHolds

(* What is given back goes where it came from: to the preallocation of the *)
(* file, or to the bitmap in memory if it came from none.                  *)
LEMMA MarkFailsHolds ==
  ASSUME AllocIInv, NEW f \in Writer, MarkFails(f) PROVE AllocIInv'
<1> DEFINE c == ctx[f]
           run == Run(c.start, c.got)
<1>1. /\ AllocShape /\ c.at = "mark" /\ c \in Context
      /\ Ctx(f, [c EXCEPT !.at = "release", !.start = 0, !.got = 0])
      /\ UNCHANGED <<bitmap, pending, lg, map>>
  BY ShapeIs DEF AllocIInv, MarkFails
<1>2. PICK p \in Pa \cup {NoPa} : p = c.pa
  BY <1>1 DEF Context
<1>3. /\ ctx' \in [Writer -> Context]
      /\ \A g \in Writer : g # f => ctx'[g] = ctx[g]
      /\ ctx'[f].at = "release" /\ ctx'[f].start = 0 /\ ctx'[f].got = 0
      /\ ctx'[f].lblk = c.lblk /\ ctx'[f].pa = p
  <2>1. "release" \in Steps /\ 0 \in Int
    BY DEF Steps, Taken
  <2>2. /\ ctx' \in [Writer -> Context]
        /\ \A g \in Writer : g # f => ctx'[g] = ctx[g]
        /\ ctx'[f].at = "release" /\ ctx'[f].start = 0 /\ ctx'[f].got = 0
        /\ ctx'[f].lblk = ctx[f].lblk /\ ctx'[f].pa = ctx[f].pa
    <3> DEFINE d == [ctx[f] EXCEPT !.at = "release", !.start = 0, !.got = 0]
    <3>1. Ctx(f, d) /\ AllocShape /\ ctx[f] \in Context
      BY <1>1
    <3>2. d \in Context
      BY <2>1, <3>1 DEF Context
    <3>3. d.at = "release" /\ d.start = 0 /\ d.got = 0
      BY <3>1 DEF Context
    <3>4. d.lblk = ctx[f].lblk /\ d.pa = ctx[f].pa
      BY <3>1 DEF Context
    <3> HIDE DEF d
    <3> QED
      BY <3>1, <3>2, <3>3, <3>4, CtxIs
  <2> QED
    BY <1>2, <2>2
<1>4. OnlyFile(f)
  BY <1>1, <1>3 DEF OnlyFile
<1>5. /\ FileSound(f) /\ c.start \in Nat /\ c.got \in Nat /\ c.start + c.got <= Blocks
      /\ InHand(f) = run /\ InHand(f)' = {} /\ run \in SUBSET Cluster /\ c.lblk \in Int
  <2>1. FileSound(f) /\ c.start \in Nat /\ c.got \in Nat /\ c.start + c.got <= Blocks
    BY <1>1 DEF AllocIInv, FileSound, TakenSound, Taken
  <2>2. InHand(f) = run /\ InHand(f)' = Run(0, 0)
    BY <1>1, <1>3, InHandIs DEF Taken
  <2>3. Run(0, 0) = {} /\ run \in SUBSET Cluster
    BY <2>1, AllocConst DEF Run, Cluster
  <2> QED
    BY <1>1, <2>1, <2>2, <2>3 DEF Context
<1>6. Mapped(f)' = Mapped(f)
  BY <1>1 DEF Mapped, Lblk, NoBlock
<1> HIDE DEF run
<1>7. Owned[f] = Mapped(f) \cup run /\ Owned'[f] = Mapped(f) /\ Mapped(f) \cap run = {}
  BY <1>5, <1>6, OwnedIs DEF AllocIInv, OwnDistinct
<1>8. OnDisk(f)' = OnDisk(f)
  BY <1>1, <1>3, <1>5, <1>6 DEF OnDisk
<1>9. BitmapIs'
  BY <1>1, <1>4, <1>8, BitmapSame DEF AllocIInv
<1>10. p # NoPa => /\ p \in Pa /\ p \in Listed /\ ~pas[p].deleted /\ run \subseteq PaBlocks(p)
                   /\ pas[p].kind = "inode" => pas[p].file = f
                   /\ pas[p].kind = "group" => lg = f
  BY <1>1, <1>2, <1>5 DEF FileSound, HoldSound, run
<1>11. /\ \A q \in Pa : /\ SameCells(q) /\ pas'[q].count = pas[q].count
                        /\ pas'[q].deleted = pas[q].deleted
       /\ \A q \in Pa : q # p => pas'[q] = pas[q]
       /\ p # NoPa => pas'[p].unused = IF pas[p].kind = "inode" THEN pas[p].unused + c.got
                                       ELSE pas[p].unused
       /\ pas' \in [Pa -> Prealloc]
  <2>1. CASE p = NoPa
    <3>1. pas' = pas
      BY <1>2, <2>1 DEF MarkFails
    <3> QED
      BY <1>1, <2>1, <3>1 DEF SameCells, AllocShape
  <2>2. CASE p # NoPa
    <3> DEFINE u == IF pas[p].kind = "inode" THEN pas[p].unused + c.got ELSE pas[p].unused
               r == [pas[p] EXCEPT !.unused = u]
    <3>1. pas' = [pas EXCEPT ![p] = r] /\ p \in Pa /\ pas[p] \in Prealloc
      BY <1>1, <1>2, <2>2, ShapeIs DEF MarkFails, AllocShape
    <3>2. u \in Int
      BY <1>5, <3>1 DEF Prealloc
    <3> HIDE DEF u
    <3>3. r \in Prealloc /\ r.unused = u
      BY <3>1, <3>2 DEF Prealloc
    <3>4. /\ r.kind = pas[p].kind /\ r.file = pas[p].file /\ r.lstart = pas[p].lstart
          /\ r.pstart = pas[p].pstart /\ r.len = pas[p].len /\ r.deleted = pas[p].deleted
          /\ r.count = pas[p].count
      BY <3>1 DEF Prealloc
    <3> HIDE DEF r
    <3>5. pas' \in [Pa -> Prealloc] /\ pas'[p] = r /\ \A q \in Pa : q # p => pas'[q] = pas[q]
      BY <1>1, <3>1, <3>3 DEF AllocShape
    <3>6. ASSUME NEW q \in Pa
          PROVE  /\ SameCells(q) /\ pas'[q].count = pas[q].count
                 /\ pas'[q].deleted = pas[q].deleted
      <4>1. CASE q = p
        BY <3>4, <3>5, <4>1 DEF SameCells
      <4>2. CASE q # p
        BY <3>5, <4>2 DEF SameCells
      <4> QED
        BY <4>1, <4>2
    <3>7. pas'[p].unused = u
      BY <3>3, <3>5
    <3> QED
      BY <3>5, <3>6, <3>7 DEF u
  <2> QED
    BY <2>1, <2>2
<1>12. /\ \A q \in Pa : PaBlocks(q)' = PaBlocks(q) /\ (q \in Listed <=> q \in Listed')
       /\ Listed' = Listed
  <2>1. \A q \in Pa : PaBlocks(q)' = PaBlocks(q) /\ (q \in Listed <=> q \in Listed')
    BY <1>11, CellsKeep
  <2> QED
    BY <2>1 DEF Listed
<1>13. OthersPas(f)
  <2>1. CASE p = NoPa
    BY <1>11, <2>1, AllocConst DEF OthersPas
  <2>2. CASE p # NoPa
    <3>1. Holds(f, p)
      BY <1>1, <1>2 DEF Holds
    <3>2. p \in Pa /\ \A g \in Writer : g # f => ~Holds(g, p)
      BY <1>10, <2>2, <3>1, HeldIs
    <3> QED
      BY <1>10, <1>11, <2>2, <3>2, OnlyHeld DEF SameCells
  <2> QED
    BY <2>1, <2>2
<1>14. AllocShape'
  <2>1. core' \in SUBSET Cluster /\ bbFree' \in Int
    <3>1. CASE p = NoPa
      <4>1. core' = core \ run /\ bbFree' = bbFree + Cardinality(run)
        BY <1>2, <3>1 DEF MarkFails, FreeCore, run
      <4>2. Cardinality(run) \in Nat
        BY <1>5, ClusterFinite
      <4> QED
        BY <1>1, <4>1, <4>2 DEF AllocShape
    <3>2. CASE p # NoPa
      BY <1>1, <1>2, <3>2 DEF MarkFails, AllocShape
    <3> QED
      BY <3>1, <3>2
  <2> QED
    BY <1>1, <1>3, <1>11, <2>1 DEF AllocShape, Lblk, Cluster, NoBlock
<1>15. \A q \in Pa : PaHeld(q)'
  <2> SUFFICES ASSUME NEW q \in Pa PROVE PaHeld(q)'
    OBVIOUS
  <2>1. (Holds(f, q)' <=> Holds(f, q)) /\ (Uses(f, q)' <=> Uses(f, q))
    BY <1>1, <1>2, <1>3 DEF Holds, Uses
  <2> QED
    BY <1>4, <1>11, <2>1, HeldKeeps DEF AllocIInv
<1>16. FileSound(f)'
  <2>1. SeekSound(f)' /\ DropSound(f)' /\ FlowSound(f)'
    BY <1>3 DEF SeekSound, DropSound, FlowSound, Seeking, Taken
  <2>2. TakenSound(f)'
    <3>1. Run(c.lblk, 0) = {}
      BY <1>5 DEF Run
    <3>2. Unmapped(f, ctx[f].got)'
      BY <1>3, <3>1 DEF Unmapped, Run
    <3> QED
      BY <1>3, <3>2, AllocConst DEF TakenSound
  <2>3. HoldSound(f)'
    <3>1. Run(ctx'[f].start, ctx'[f].got) = {}
      BY <1>3 DEF Run
    <3>2. CASE p = NoPa
      BY <1>3, <3>2 DEF HoldSound
    <3>3. CASE p # NoPa
      BY <1>1, <1>3, <1>10, <1>11, <1>12, <3>1, <3>3 DEF HoldSound, SameCells, Run
    <3> QED
      BY <3>2, <3>3
  <2> QED
    BY <2>1, <2>2, <2>3 DEF FileSound
<1>17. OwnDistinct(f)'
  BY <1>1, <1>5 DEF AllocIInv, OwnDistinct, Lblk, NoBlock
<1>18. Waiting' = Waiting
  BY <1>1 DEF Waiting
<1>19. \A q \in Listed : q # p => PaBlocks(q) \cap run = {}
  <2> SUFFICES ASSUME NEW q \in Listed, q # p, NEW b \in PaBlocks(q), b \in run
               PROVE  FALSE
    OBVIOUS
  <2>1. CASE p = NoPa
    <3>1. Backs(q, f, b)
      BY <1>7, PaShares
    <3> QED
      BY <1>1, <1>2, <1>5, <2>1, <3>1 DEF Backs
  <2>2. CASE p # NoPa
    BY <1>10, <2>2 DEF AllocIInv, PaOwn
  <2> QED
    BY <2>1, <2>2
<1>20. ASSUME NEW q \in Listed, NEW b \in PaBlocks(q) \cap Mapped(f)
       PROVE  Backs(q, f, b)'
  <2>1. Backs(q, f, b) /\ b \notin InHand(f) /\ q \in Pa
    BY <1>5, <1>7, PaShares DEF Listed
  <2>2. pas[q].kind = "inode"
    BY <2>1 DEF Backs, Listed
  <2>3. SameCells(q)
    BY <1>11, <2>1
  <2>4. AtSlot(f, pas[q].lstart + (b - pas[q].pstart), b)'
    BY <1>1, <2>1, <2>2, <2>3 DEF Backs, AtSlot, Lblk, SameCells
  <2> QED
    BY <1>3, <2>1, <2>2, <2>3, <2>4 DEF Backs, SameCells
<1>21. \A q \in Listed : q # p => /\ PaBlocks(q) \cap Owned'[f] = PaBlocks(q) \cap Owned[f]
                                  /\ PaBlocks(q) \cap Waiting' = {}
                                  /\ \A b \in PaBlocks(q) \cap Owned[f] : Backs(q, f, b)'
  <2> SUFFICES ASSUME NEW q \in Listed, q # p
               PROVE  /\ PaBlocks(q) \cap Owned'[f] = PaBlocks(q) \cap Owned[f]
                      /\ PaBlocks(q) \cap Waiting' = {}
                      /\ \A b \in PaBlocks(q) \cap Owned[f] : Backs(q, f, b)'
    OBVIOUS
  <2>1. PaBlocks(q) \cap Waiting' = {}
    BY <1>18 DEF AllocIInv, PaOwn, Listed
  <2>2. PaBlocks(q) \cap Owned[f] = PaBlocks(q) \cap Mapped(f)
    BY <1>7, <1>19
  <2> QED
    BY <1>7, <1>20, <2>1, <2>2
<1>22. \A g \in Writer : g # f => Owned'[g] = Owned[g] /\ Owned[g] \cap Owned[f] = {}
  BY <1>4, OthersOwn DEF AllocIInv, Apart
<1>23. ASSUME p # NoPa
       PROVE  /\ \A q \in Listed : q # p => PaBlocks(q) \cap PaBlocks(p)' = {}
              /\ PaBlocks(p)' \cap Waiting' = {}
              /\ \A g \in Writer : g # f => PaBlocks(p)' \cap Owned[g] = {}
              /\ \A b \in PaBlocks(p)' \cap Owned'[f] : Backs(p, f, b)'
              /\ PaSize(p)'
  <2>1. p \in Pa /\ p \in Listed /\ PaBlocks(p)' = PaBlocks(p)
    BY <1>10, <1>12, <1>23
  <2>2. /\ \A q \in Listed : q # p => PaBlocks(q) \cap PaBlocks(p)' = {}
        /\ PaBlocks(p)' \cap Waiting' = {}
    BY <1>18, <2>1 DEF AllocIInv, PaOwn
  <2>3. \A g \in Writer : g # f => PaBlocks(p)' \cap Owned[g] = {}
    <3> SUFFICES ASSUME NEW g \in Writer, g # f, NEW b \in PaBlocks(p) \cap Owned[g]
                 PROVE  FALSE
      BY <2>1
    <3>1. Holds(f, p)
      BY <1>1, <1>2 DEF Holds
    <3>2. ~Holds(g, p)
      BY <2>1, <3>1, HeldIs
    <3> QED
      BY <1>10, <1>23, <2>1, <3>2, PaShares DEF Listed
  <2>4. \A b \in PaBlocks(p)' \cap Owned'[f] : Backs(p, f, b)'
    BY <1>7, <1>20, <2>1
  <2>5. PaSize(p)'
    <3>1. PaSize(p) /\ SameCells(p)
      BY <1>11, <2>1 DEF AllocIInv
    <3>a. /\ pas'[p].pstart \in Nat /\ pas'[p].len \in Nat
          /\ pas'[p].pstart + pas'[p].len <= Blocks
      BY <2>1, <3>1 DEF PaSize, SameCells
    <3>2. CASE pas[p].kind = "group"
      <4>1. pas'[p].unused = pas'[p].len /\ pas'[p].kind = "group"
        BY <1>11, <1>23, <2>1, <3>1, <3>2 DEF PaSize, SameCells
      <4> QED
        BY <3>a, <4>1 DEF PaSize
    <3>3. CASE pas[p].kind = "inode"
      <4>1. Used = Owned[f] \cup HaveOthers(f) /\ Used' = Owned'[f] \cup HaveOthers(f)'
        BY UsedSplit
      <4>2. HaveOthers(f)' = HaveOthers(f) /\ HaveOthers(f) \cap run = {}
        BY <1>7, <1>22 DEF HaveOthers
      <4>3. Spare(p) = Spare(p)' \ run /\ run \subseteq Spare(p)'
        BY <1>7, <1>10, <1>23, <2>1, <4>1, <4>2 DEF Spare
      <4>4. Spare(p)' \in SUBSET Cluster
        BY <2>1, PaCluster DEF Spare
      <4>5. Cardinality(Spare(p)) = Cardinality(Spare(p)') - Cardinality(run)
        BY <4>3, <4>4, Subtracts
      <4>6. Cardinality(run) = c.got /\ Cardinality(Spare(p)') \in Nat
        BY <1>5, <4>4, RunSize, ClusterFinite DEF run
      <4>7. pas'[p].unused = Cardinality(Spare(p)')
        BY <1>5, <1>11, <1>23, <3>1, <3>3, <2>1, <4>5, <4>6 DEF PaSize
      <4>8. pas'[p].kind = "inode" /\ pas'[p].file \in Writer
        BY <1>10, <1>23, <3>1, <3>3 DEF SameCells
      <4> QED
        BY <3>a, <4>7, <4>8 DEF PaSize
    <3> QED
      BY <2>1, <3>2, <3>3 DEF Listed
  <2> QED
    BY <2>2, <2>3, <2>4, <2>5
<1>24. CoreIs'
  <2>1. /\ Accounted = Owned[f] \cup PaPart(p) \cup Rest(f, p) \cup Waiting
        /\ Accounted' = Owned'[f] \cup PaPart(p)' \cup Rest(f, p) \cup Waiting'
    BY <1>4, <1>11, AccountedSplit
  <2>2. CASE p = NoPa
    <3>1. PaPart(p) = {} /\ PaPart(p)' = {}
      BY <2>2, AllocConst DEF PaPart, Listed
    <3>2. Rest(f, p) \cap run = {}
      <4> SUFFICES ASSUME NEW b \in Rest(f, p), b \in run PROVE FALSE
        OBVIOUS
      <4>1. CASE \E g \in Writer \ {f} : b \in Owned[g]
        BY <1>7, <1>22, <4>1
      <4>2. CASE \E q \in Listed \ {p} : b \in PaBlocks(q)
        BY <1>19, <4>2
      <4> QED
        BY <4>1, <4>2, RestIs
    <3>3. Waiting \cap run = {}
      BY <1>7 DEF AllocIInv, Apart
    <3>4. core = Accounted /\ run \in SUBSET core
      BY <1>7, <2>1 DEF AllocIInv, CoreIs
    <3>5. FreeCore(run)
      BY <1>2, <2>2 DEF MarkFails, run
    <3>6. core' = core \ run /\ bbFree' = Blocks - Cardinality(core')
      BY <3>4, <3>5, FreeCoreIs
    <3>7. core' = Accounted'
      BY <1>7, <1>18, <2>1, <3>1, <3>2, <3>3, <3>4, <3>6
    <3> QED
      BY <3>6, <3>7 DEF CoreIs
  <2>3. CASE p # NoPa
    <3>1. PaPart(p) = PaBlocks(p) /\ PaPart(p)' = PaBlocks(p)
      BY <1>10, <1>12, <2>3 DEF PaPart
    <3>2. Accounted' = Accounted
      BY <1>7, <1>10, <1>18, <2>1, <2>3, <3>1
    <3>3. core' = core /\ bbFree' = bbFree
      BY <1>2, <2>3 DEF MarkFails
    <3> QED
      BY <3>2, <3>3 DEF AllocIInv, CoreIs
  <2> QED
    BY <2>2, <2>3
<1>25. /\ \A g \in Writer : g # f => Owned'[f] \cap Owned[g] = {}
       /\ Owned'[f] \cap Waiting' = {} /\ Waiting' \subseteq Waiting \cup Owned[f]
       /\ pending'.running \cap pending'.committing = {}
  BY <1>1, <1>7, <1>18, <1>22 DEF AllocIInv, Apart
<1>26. p \in Listed' => p # NoPa
  BY AllocConst DEF Listed
<1> QED
  BY <1>4, <1>9, <1>11, <1>13, <1>14, <1>15, <1>16, <1>17, <1>21, <1>23, <1>24,
     <1>25, <1>26,
     OneChanges

-----------------------------------------------------------------------------
(* A file's new preallocation covers the block asked for.                  *)
LEMMA PaStartIs ==
  ASSUME NEW c \in Context, NEW got \in Int, got >= 1, got <= c.glen, c.len >= 1,
         c.lblk \in Run(c.gstart, c.glen)
  PROVE  /\ PaStart(c, got) \in Int /\ PaStart(c, got) <= c.lblk
         /\ c.lblk < PaStart(c, got) + got
<1>1. /\ c.lblk \in Int /\ c.gstart \in Int /\ c.glen \in Int /\ c.len \in Int
      /\ c.gstart <= c.lblk /\ c.lblk < c.gstart + c.glen
  BY DEF Context, Run
<1> DEFINE end == c.gstart + c.glen
<1>2. CASE got >= c.glen
  <2>1. PaStart(c, got) = c.gstart
    BY <1>1, <1>2 DEF PaStart
  <2> QED
    BY <1>1, <1>2, <2>1
<1>3. CASE got < c.glen /\ c.lblk >= end - got
  <2>1. PaStart(c, got) = end - got
    BY <1>1, <1>3 DEF PaStart
  <2> QED
    BY <1>1, <1>3, <2>1
<1>4. CASE got < c.glen /\ c.lblk < end - got /\ c.lblk + c.len <= c.gstart + got
  <2>1. PaStart(c, got) = c.gstart
    BY <1>1, <1>4 DEF PaStart
  <2> QED
    BY <1>1, <1>4, <2>1
<1>5. CASE got < c.glen /\ c.lblk < end - got /\ ~(c.lblk + c.len <= c.gstart + got)
  <2>1. PaStart(c, got) = c.lblk
    BY <1>1, <1>5 DEF PaStart
  <2> QED
    BY <1>1, <1>5, <2>1
<1> QED
  BY <1>1, <1>2, <1>3, <1>4, <1>5

(* What a file has after it took a free run, and put the rest, if any, in  *)
(* the new preallocation p.                                                *)
LEMMA TakesFree ==
  ASSUME AllocIInv, AllocShape', NEW f \in Writer, OnlyFile(f), ctx[f].at \in Seeking,
         NEW p \in Pa, p = ctx[f].pa, \A q \in Pa : q # p => pas'[q] = pas[q],
         NEW start \in Nat, NEW got \in Nat, got >= 1, FreeAt(start, got),
         MarkCore(Run(start, got)),
         ctx'[f].at = "mark", ctx'[f].pin, ctx'[f].lblk = ctx[f].lblk,
         ctx'[f].start \in Nat, ctx'[f].got \in Nat,
         ctx'[f].start >= start, ctx'[f].start + ctx'[f].got <= start + got,
         ctx'[f].got <= ctx[f].len,
         \/ /\ ctx'[f].pa = NoPa /\ pas'[p] = NoPrealloc
            /\ ctx'[f].start = start /\ ctx'[f].got = got
         \/ /\ ctx'[f].pa = p /\ pas'[p].count = 1 /\ ~pas'[p].deleted
            /\ pas'[p].pstart = start /\ pas'[p].len = got
            /\ \/ /\ pas'[p].kind = "group" /\ lg' = f /\ pas'[p].unused = got
                  /\ ctx'[f].start = start
               \/ /\ pas'[p].kind = "inode" /\ pas'[p].file = f
                  /\ pas'[p].unused = got - ctx'[f].got
                  /\ ctx'[f].start - ctx'[f].lblk = pas'[p].pstart - pas'[p].lstart,
         UNCHANGED <<bitmap, pending, map>>
  PROVE  AllocIInv'
<1> DEFINE run == Run(start, got)
           mine == Run(ctx'[f].start, ctx'[f].got)
<1>1. /\ AllocShape /\ FileSound(f) /\ pas[p].kind = "new" /\ p \notin Listed /\ p # NoPa
      /\ ctx[f].freeing = {} /\ Unmapped(f, ctx[f].len) /\ ctx[f] \in Context
      /\ ctx'[f] \in Context
  BY ShapeIs, AllocConst DEF AllocIInv, AllocShape, FileSound, SeekSound, Listed
<1>2. run \in SUBSET Cluster /\ run \cap core = {} /\ mine \subseteq run /\ start + got <= Blocks
  BY AllocConst DEF FreeAt, Run, Cluster
<1>3. /\ InHand(f) = {} /\ InHand(f)' = mine /\ Mapped(f)' = Mapped(f)
      /\ ctx[f].at \notin Taken
  BY <1>1, InHandIs DEF Seeking, Taken, Mapped, Lblk, NoBlock
<1> HIDE DEF run, mine
<1>4. Owned[f] = Mapped(f) /\ Owned'[f] = Mapped(f) \cup mine
  BY <1>3, OwnedIs
<1>5. OnDisk(f)' = OnDisk(f)
  BY <1>3 DEF OnDisk
<1>6. BitmapIs'
  BY <1>5, BitmapSame DEF AllocIInv
<1>7. Holds(f, p)
  BY DEF Holds
<1>8. \A g \in Writer : g # f => ~Holds(g, p)
  BY <1>7, HeldIs
<1>9. OthersPas(f)
  BY <1>8, NothingIs, OnlyHeld
<1>10. /\ core = Owned[f] \cup PaPart(p) \cup Rest(f, p) \cup Waiting
       /\ \A g \in Writer : g # f => Owned[g] \subseteq Rest(f, p)
       /\ \A q \in Listed : q # p => PaBlocks(q) \subseteq Rest(f, p)
  BY RestIs
<1>11. PaPart(p) = {} /\ Waiting' = Waiting
  BY <1>1 DEF PaPart, Waiting
<1>12. /\ run \cap Owned[f] = {} /\ run \cap Waiting = {}
       /\ \A g \in Writer : run \cap Owned[g] = {}
       /\ \A q \in Listed : PaBlocks(q) \cap run = {}
  BY <1>1, <1>2, <1>10
<1>13. ctx'[f].pa = p => /\ p \in Listed' /\ PaBlocks(p)' = run
  BY <1>1, NothingIs DEF Listed, PaBlocks, run
<1>14. ctx'[f].pa # p => p \notin Listed' /\ mine = run
  BY NothingIs DEF Listed, run, mine
<1>15. \A q \in Pa : PaHeld(q)'
  <2> SUFFICES ASSUME NEW q \in Pa PROVE PaHeld(q)'
    OBVIOUS
  <2>1. CASE q = p /\ ctx'[f].pa = p
    <3>1. Uses(f, p)' /\ pas'[p].count = 1
      BY <1>1, <2>1 DEF Uses, Holds
    <3> QED
      BY <1>8, <2>1, <3>1, HeldTaken
  <2>2. CASE q = p /\ ctx'[f].pa # p
    <3>1. ~Uses(f, p)' /\ pas'[p].count = 0
      BY <2>2, NothingIs DEF Uses, Holds
    <3> QED
      BY <1>8, <2>2, <3>1, HeldFreed
  <2>3. CASE q # p
    <3>1. ~Holds(f, q)' /\ ~Uses(f, q)' /\ ~Holds(f, q) /\ ~Uses(f, q)
      BY <2>3, AllocConst DEF Holds, Uses
    <3> QED
      BY <2>3, <3>1, HeldKeeps DEF AllocIInv
  <2> QED
    BY <2>1, <2>2, <2>3
<1>16. FileSound(f)'
  <2>1. SeekSound(f)' /\ DropSound(f)' /\ FlowSound(f)'
    BY DEF SeekSound, DropSound, FlowSound, Seeking, Taken
  <2>2. TakenSound(f)'
    <3>1. Unmapped(f, ctx[f].got)'
      <4> SUFFICES ASSUME NEW l \in Run(ctx'[f].lblk, ctx'[f].got)
                   PROVE  l \in Lblk(f) /\ map[f][l] = NoBlock
        BY DEF Unmapped, Lblk, Run, NoBlock
      <4>1. l \in Run(ctx[f].lblk, ctx[f].len)
        <5> DEFINE a == ctx[f].lblk  n == ctx[f].len  g == ctx'[f].got
        <5>1. a \in Int /\ n \in Int /\ g \in Int /\ g <= n
          BY <1>1 DEF Context
        <5>2. l \in a..(a + g - 1)
          BY DEF Run
        <5> HIDE DEF a, n, g
        <5>3. l \in a..(a + n - 1)
          BY <5>1, <5>2
        <5> QED
          BY <5>3 DEF Run, a, n
      <4> QED
        BY <1>1, <4>1 DEF Unmapped
    <3> QED
      BY <1>2, <3>1, AllocConst DEF TakenSound
  <2>3. HoldSound(f)'
    <3>1. CASE ctx'[f].pa = p
      BY <1>1, <1>2, <1>13, <3>1 DEF HoldSound, mine, Run
    <3>2. CASE ctx'[f].pa # p
      BY <3>2 DEF HoldSound
    <3> QED
      BY <3>1, <3>2
  <2> QED
    BY <2>1, <2>2, <2>3 DEF FileSound
<1>17. OwnDistinct(f)'
  <2>1. Mapped(f)' \cap InHand(f)' = {}
    BY <1>2, <1>3, <1>4, <1>12
  <2>2. \A l, m \in Lblk(f)' : l # m => map'[f][l] # map'[f][m] \/ map'[f][l] = NoBlock
    BY DEF AllocIInv, OwnDistinct, Lblk
  <2> QED
    BY <2>1, <2>2 DEF OwnDistinct, NoBlock
<1>18. ASSUME NEW q \in Listed, q # p
       PROVE  /\ PaBlocks(q) \cap Owned'[f] = PaBlocks(q) \cap Owned[f]
              /\ PaBlocks(q) \cap Waiting' = {}
              /\ \A b \in PaBlocks(q) \cap Owned[f] : Backs(q, f, b)'
  <2>1. PaBlocks(q) \cap Waiting' = {}
    BY <1>11 DEF AllocIInv, PaOwn, Listed
  <2>2. PaBlocks(q) \cap Owned'[f] = PaBlocks(q) \cap Owned[f]
    BY <1>2, <1>4, <1>12
  <2>3. ASSUME NEW b \in PaBlocks(q) \cap Owned[f] PROVE Backs(q, f, b)'
    <3>1. Backs(q, f, b) /\ pas'[q] = pas[q] /\ pas[q].kind = "inode"
      BY <1>3, <1>18, PaShares DEF Listed, Taken
    <3>2. AtSlot(f, pas[q].lstart + (b - pas[q].pstart), b)'
      BY <1>3, <3>1 DEF Backs, AtSlot, Lblk, Seeking
    <3>3. b \notin InHand(f)'
      BY <1>2, <1>3, <1>12
    <3> QED
      BY <3>1, <3>2, <3>3 DEF Backs
  <2> QED
    BY <2>1, <2>2, <2>3
<1>19. ASSUME p \in Listed'
       PROVE  /\ \A q \in Listed : q # p => PaBlocks(q) \cap PaBlocks(p)' = {}
              /\ PaBlocks(p)' \cap Waiting' = {}
              /\ \A g \in Writer : g # f => PaBlocks(p)' \cap Owned[g] = {}
              /\ \A b \in PaBlocks(p)' \cap Owned'[f] : Backs(p, f, b)'
              /\ PaSize(p)'
  <2>1. ctx'[f].pa = p /\ PaBlocks(p)' = run /\ p # NoPa /\ pas'[p] \in Prealloc
    BY <1>1, <1>13, <1>14, <1>19 DEF AllocShape
  <2>2. ASSUME NEW b \in PaBlocks(p)' \cap Owned'[f] PROVE Backs(p, f, b)'
    <3>1. b \in mine /\ b \in InHand(f)'
      BY <1>3, <1>4, <1>12, <2>1
    <3>2. CASE pas'[p].kind = "group"
      BY <2>1, <3>1, <3>2 DEF Backs
    <3>3. CASE pas'[p].kind = "inode"
      <4> DEFINE s == ctx'[f].start  m == ctx'[f].lblk
                 o == pas'[p].pstart  e == pas'[p].lstart
      <4>1. s - m = o - e
        BY <2>1, <3>3
      <4>2. s \in Int /\ m \in Int /\ o \in Int /\ e \in Int /\ b \in Int
        <5>1. s \in Int /\ m \in Int
          BY <1>1 DEF Context
        <5>2. o \in Int /\ e \in Int
          BY <2>1 DEF Prealloc
        <5>3. b \in Int
          BY <1>2, <3>1 DEF Cluster
        <5> QED
          BY <5>1, <5>2, <5>3
      <4> HIDE DEF s, m, o, e
      <4>3. e + (b - o) = m + (b - s)
        BY <4>1, <4>2
      <4>4. AtSlot(f, pas[p].lstart + (b - pas[p].pstart), b)'
        BY <3>1, <4>3 DEF AtSlot, Taken, s, m, o, e
      <4>5. pas'[p].file = f
        BY <2>1, <3>3
      <4> QED
        BY <2>1, <3>1, <3>3, <4>4, <4>5 DEF Backs
    <3> QED
      BY <2>1, <3>2, <3>3
  <2>3. PaSize(p)'
    <3>1. CASE pas'[p].kind = "group"
      BY <1>2, <2>1, <3>1 DEF PaSize
    <3>2. CASE pas'[p].kind = "inode"
      <4>1. Used' = Owned'[f] \cup HaveOthers(f)'
        BY UsedSplit
      <4>2. HaveOthers(f)' \cap run = {}
        BY <1>12, OthersOwn DEF HaveOthers
      <4>3. Spare(p)' = run \ mine
        BY <1>2, <1>4, <1>12, <2>1, <4>1, <4>2 DEF Spare
      <4>4. Cardinality(run \ mine) = Cardinality(run) - Cardinality(mine)
        BY <1>2, Subtracts
      <4>5. Cardinality(run) = got /\ Cardinality(mine) = ctx'[f].got
        BY RunSize DEF run, mine
      <4>6. pas'[p].unused = Cardinality(Spare(p)')
        BY <2>1, <3>2, <4>3, <4>4, <4>5
      <4>7. pas'[p].file = f
        BY <2>1, <3>2
      <4> QED
        BY <1>2, <2>1, <3>2, <4>6, <4>7 DEF PaSize
    <3> QED
      BY <2>1, <3>1, <3>2
  <2>4. /\ \A q \in Listed : q # p => PaBlocks(q) \cap PaBlocks(p)' = {}
        /\ PaBlocks(p)' \cap Waiting' = {}
        /\ \A g \in Writer : g # f => PaBlocks(p)' \cap Owned[g] = {}
    BY <1>11, <1>12, <2>1
  <2> QED
    BY <2>2, <2>3, <2>4
<1>20. CoreIs'
  <2>1. /\ Accounted' = Owned'[f] \cup PaPart(p)' \cup Rest(f, p) \cup Waiting'
    BY AccountedSplit
  <2>2. (ctx'[f].pa = p => PaPart(p)' = run) /\ (ctx'[f].pa # p => PaPart(p)' = {})
    BY <1>13, <1>14 DEF PaPart
  <2>3. Accounted' = core \cup run
    BY <1>2, <1>4, <1>10, <1>11, <1>14, <2>1, <2>2
  <2>4. MarkCore(run)
    BY DEF run
  <2>5. core' = core \cup run /\ bbFree' = Blocks - Cardinality(core')
    BY <1>2, <2>4, MarkCoreIs
  <2> QED
    BY <2>3, <2>5 DEF CoreIs
<1>21. /\ \A g \in Writer : g # f => Owned'[f] \cap Owned[g] = {}
       /\ Owned'[f] \cap Waiting' = {} /\ Waiting' \subseteq Waiting \cup Owned[f]
       /\ pending'.running \cap pending'.committing = {}
  BY <1>2, <1>4, <1>11, <1>12 DEF AllocIInv, Apart
<1> QED
  BY <1>6, <1>9, <1>15, <1>16, <1>17, <1>18, <1>19, <1>20, <1>21, OneChanges

LEMMA UseBestHolds ==
  ASSUME AllocIInv, NEW f \in Writer, ctx[f].at \in {"scan", "best"},
         NEW start \in Cluster, NEW found \in Nat, found >= 1, FreeAt(start, found),
         UseBest(f, start, found), UNCHANGED <<bitmap, pending, lg, map>>
  PROVE  AllocIInv'
<1> DEFINE c == ctx[f]
           grouped == lg = f
           got == Min({found, c.glen})
           lstart == IF grouped THEN start ELSE PaStart(c, got)
           skip == IF grouped THEN 0 ELSE c.lblk - lstart
           used == Min({c.len, got - skip})
           taken == [c EXCEPT !.at = "mark", !.pin = TRUE, !.len = 0,
                              !.gstart = 0, !.glen = 0]
<1>1. PICK p \in Pa : p = c.pa
  BY DEF AllocIInv, FileSound, SeekSound, Seeking
<1>2. /\ AllocShape /\ c \in Context /\ c.at \in Seeking
      /\ c.len \in Int /\ c.glen \in Int /\ c.lblk \in Int
      /\ c.len >= 1 /\ c.glen >= 1 /\ c.lblk \in Run(c.gstart, c.glen) /\ c.freeing = {}
      /\ Unmapped(f, c.len) /\ start \in Nat
  BY ShapeIs, AllocConst
  DEF AllocIInv, FileSound, SeekSound, Seeking, Context, Cluster
<1>3. got \in Nat /\ got >= 1 /\ got <= found /\ got <= c.glen
  <2>1. got = IF found <= c.glen THEN found ELSE c.glen
    BY <1>2, TwoMin
  <2> QED
    BY <1>2, <2>1
<1>4. FreeAt(start, got)
  <2> HIDE DEF got
  <2>1. Run(start, got) \subseteq Run(start, found)
    BY <1>2, <1>3 DEF Run
  <2> QED
    BY <1>2, <1>3, <2>1, AllocConst DEF FreeAt
<1>5. MarkCore(Run(start, got))
  BY DEF UseBest
<1>6. \/ /\ ~(c.len < got) /\ pas' = [pas EXCEPT ![p] = NoPrealloc]
         /\ Ctx(f, [taken EXCEPT !.start = start, !.got = got, !.pa = NoPa])
      \/ /\ c.len < got
         /\ pas' = [pas EXCEPT ![p] =
                  [kind |-> IF grouped THEN "group" ELSE "inode",
                   file |-> IF grouped THEN NoFile ELSE f, lstart |-> lstart,
                   pstart |-> start, len |-> got, count |-> 1, deleted |-> FALSE,
                   unused |-> IF grouped THEN got ELSE got - used]]
         /\ Ctx(f, [taken EXCEPT !.start = start + skip, !.got = used])
  BY <1>1 DEF UseBest
<1> HIDE DEF got
<1>7. /\ taken \in Context /\ taken.at = "mark" /\ taken.pin /\ taken.pa = p
      /\ taken.lblk = c.lblk
  <2>1. "mark" \in Steps
    BY DEF Steps, Taken
  <2>2. taken \in Context
    <3>1. PICK z \in Int : z = 0
      OBVIOUS
    <3>2. PICK t \in BOOLEAN : t = TRUE
      OBVIOUS
    <3>3. [c EXCEPT !.at = "mark", !.pin = t, !.len = z, !.gstart = z, !.glen = z]
            \in Context
      <4>1. c \in Context
        BY <1>2
      <4> HIDE DEF c
      <4> QED
        BY <2>1, <3>1, <3>2, <4>1 DEF Context
    <3> QED
      BY <3>1, <3>2, <3>3
  <2>3. taken.at = "mark" /\ taken.pin = TRUE
    BY <1>2 DEF Context
  <2>4. taken.pa = p /\ taken.lblk = c.lblk
    BY <1>1, <1>2 DEF Context
  <2> QED
    BY <2>2, <2>3, <2>4
<1> HIDE DEF taken
<1>8. CASE ~(c.len < got)
  <2> DEFINE d == [taken EXCEPT !.start = start, !.got = got, !.pa = NoPa]
  <2>1. Ctx(f, d) /\ pas' = [pas EXCEPT ![p] = NoPrealloc]
    BY <1>6, <1>8
  <2>2. d \in Context
    <3>1. start \in Int /\ got \in Int /\ NoPa \in Pa \cup {NoPa}
      BY <1>2, <1>3
    <3> QED
      BY <1>7, <3>1 DEF Context
  <2>3. d.start = start /\ d.got = got /\ d.pa = NoPa
    BY <1>7 DEF Context
  <2>4. d.at = "mark" /\ d.pin /\ d.lblk = c.lblk
    BY <1>7 DEF Context
  <2> HIDE DEF d
  <2>5. /\ ctx' \in [Writer -> Context] /\ ctx'[f] = d
        /\ \A g \in Writer : g # f => ctx'[g] = ctx[g]
    BY <1>2, <2>1, <2>2, CtxIs
  <2>6. pas' \in [Pa -> Prealloc] /\ pas'[p] = NoPrealloc /\ \A q \in Pa : q # p => pas'[q] = pas[q]
    BY <1>2, <2>1, NothingIs DEF AllocShape
  <2>7. OnlyFile(f)
    BY <2>5 DEF OnlyFile
  <2>8. AllocShape'
    <3>1. Run(start, got) \in SUBSET Cluster /\ Run(start, got) \cap core = {}
      BY <1>2, <1>3, <1>4, AllocConst DEF FreeAt, Run, Cluster
    <3>2. core' \in SUBSET Cluster /\ bbFree' \in Int
      BY <1>5, <3>1, MarkCoreIs
    <3> QED
      BY <1>2, <2>5, <2>6, <3>2 DEF AllocShape, Lblk, Cluster, NoBlock
  <2>9. /\ ctx'[f].at = "mark" /\ ctx'[f].pin /\ ctx'[f].lblk = ctx[f].lblk
        /\ ctx'[f].start = start /\ ctx'[f].got = got /\ ctx'[f].pa = NoPa
    BY <2>3, <2>4, <2>5
  <2>10. got <= ctx[f].len /\ ctx[f].at \in Seeking /\ p = ctx[f].pa
    BY <1>1, <1>2, <1>3, <1>8
  <2>11. /\ ctx'[f].start >= start /\ ctx'[f].start + ctx'[f].got <= start + got
         /\ ctx'[f].got <= ctx[f].len /\ ctx'[f].start \in Nat /\ ctx'[f].got \in Nat
    BY <1>2, <1>3, <2>9, <2>10
  <2> HIDE DEF c
  <2> QED
    BY <1>2, <1>3, <1>4, <1>5, <2>6, <2>7, <2>8, <2>9, <2>10, <2>11, TakesFree
<1>9. CASE c.len < got
  <2>1. /\ lstart \in Int /\ skip \in Int /\ 0 <= skip /\ skip < got
        /\ ~grouped => skip = c.lblk - lstart
        /\ grouped => skip = 0 /\ lstart = start
    <3>1. CASE grouped
      BY <1>2, <1>3, <3>1
    <3>2. CASE ~grouped
      <4>1. PaStart(c, got) \in Int /\ PaStart(c, got) <= c.lblk /\ c.lblk < PaStart(c, got) + got
        <5>1. c \in Context /\ got \in Int /\ got >= 1 /\ got <= c.glen /\ c.len >= 1
              /\ c.lblk \in Run(c.gstart, c.glen)
          BY <1>2, <1>3
        <5> HIDE DEF c
        <5> QED
          BY <5>1, PaStartIs
      <4> QED
        BY <1>2, <1>3, <3>2, <4>1
    <3> QED
      BY <3>1, <3>2
  <2> HIDE DEF skip, lstart
  <2>2. used \in Nat /\ used <= c.len /\ skip + used <= got
    <3>1. got - skip \in Int
      BY <1>3, <2>1
    <3>2. used = IF c.len <= got - skip THEN c.len ELSE got - skip
      BY <1>2, <3>1, TwoMin
    <3> QED
      BY <1>2, <1>3, <2>1, <3>2
  <2> HIDE DEF used
  <2> DEFINE kind == IF grouped THEN "group" ELSE "inode"
             file == IF grouped THEN NoFile ELSE f
             unused == IF grouped THEN got ELSE got - used
             r == [kind |-> kind, file |-> file, lstart |-> lstart, pstart |-> start,
                   len |-> got, count |-> 1, deleted |-> FALSE, unused |-> unused]
             first == start + skip
             d == [taken EXCEPT !.start = first, !.got = used]
  <2>3. Ctx(f, d) /\ pas' = [pas EXCEPT ![p] = r]
    BY <1>6, <1>9
  <2>4. first \in Nat /\ first >= start /\ first + used <= start + got
    BY <1>2, <1>3, <2>1, <2>2
  <2>5. kind \in {"group", "inode"} /\ file \in Writer \cup {NoFile} /\ unused \in Int
    BY <1>3, <2>2
  <2>6. /\ grouped => kind = "group" /\ lg' = f /\ unused = got /\ first = start
        /\ ~grouped => /\ kind = "inode" /\ file = f /\ unused = got - used
                       /\ first - c.lblk = start - lstart
    BY <1>2, <2>1
  <2> HIDE DEF kind, file, unused, first
  <2>7. /\ r.kind = kind /\ r.file = file /\ r.lstart = lstart /\ r.pstart = start
        /\ r.len = got /\ r.count = 1 /\ ~r.deleted /\ r.unused = unused
    OBVIOUS
  <2>8. r \in Prealloc
    BY <1>2, <1>3, <2>1, <2>5 DEF Prealloc
  <2>9. d \in Context
    <3>1. first \in Int /\ used \in Int
      BY <2>2, <2>4
    <3> QED
      BY <1>7, <3>1 DEF Context
  <2>10. d.start = first /\ d.got = used
    BY <1>7 DEF Context
  <2>11. d.at = "mark" /\ d.pin /\ d.lblk = c.lblk /\ d.pa = p
    BY <1>7 DEF Context
  <2> HIDE DEF d, r
  <2>12. /\ ctx' \in [Writer -> Context] /\ ctx'[f] = d
         /\ \A g \in Writer : g # f => ctx'[g] = ctx[g]
    BY <1>2, <2>3, <2>9, CtxIs
  <2>13. pas' \in [Pa -> Prealloc] /\ pas'[p] = r /\ \A q \in Pa : q # p => pas'[q] = pas[q]
    BY <1>2, <2>3, <2>8 DEF AllocShape
  <2>14. OnlyFile(f)
    BY <2>12 DEF OnlyFile
  <2>15. AllocShape'
    <3>1. Run(start, got) \in SUBSET Cluster /\ Run(start, got) \cap core = {}
      BY <1>2, <1>3, <1>4, AllocConst DEF FreeAt, Run, Cluster
    <3>2. core' \in SUBSET Cluster /\ bbFree' \in Int
      BY <1>5, <3>1, MarkCoreIs
    <3> QED
      BY <1>2, <2>12, <2>13, <3>2 DEF AllocShape, Lblk, Cluster, NoBlock
  <2>16. /\ ctx'[f].at = "mark" /\ ctx'[f].pin /\ ctx'[f].lblk = ctx[f].lblk
         /\ ctx'[f].start = first /\ ctx'[f].got = used /\ ctx'[f].pa = p
    BY <2>10, <2>11, <2>12
  <2>17. /\ ctx[f].at \in Seeking /\ p = ctx[f].pa
         /\ ctx'[f].start >= start /\ ctx'[f].start + ctx'[f].got <= start + got
         /\ ctx'[f].got <= ctx[f].len /\ ctx'[f].start \in Nat /\ ctx'[f].got \in Nat
    BY <1>1, <1>2, <2>2, <2>4, <2>16
  <2>18. /\ pas'[p].count = 1 /\ ~pas'[p].deleted /\ pas'[p].pstart = start
         /\ pas'[p].len = got /\ pas'[p].lstart = lstart
    BY <2>7, <2>13
  <2>19. \/ /\ pas'[p].kind = "group" /\ lg' = f /\ pas'[p].unused = got
            /\ ctx'[f].start = start
         \/ /\ pas'[p].kind = "inode" /\ pas'[p].file = f
            /\ pas'[p].unused = got - ctx'[f].got
            /\ ctx'[f].start - ctx'[f].lblk = pas'[p].pstart - pas'[p].lstart
    <3>1. CASE grouped
      BY <2>6, <2>7, <2>13, <2>16, <3>1
    <3>2. CASE ~grouped
      BY <2>6, <2>7, <2>13, <2>16, <3>2
    <3> QED
      BY <3>1, <3>2
  <2> HIDE DEF c, grouped
  <2> QED
    BY <1>2, <1>3, <1>4, <1>5, <2>13, <2>14, <2>15, <2>16, <2>17, <2>18,
       <2>19, TakesFree
<1> QED
  BY <1>8, <1>9

LEMMA ScanHolds ==
  ASSUME AllocIInv, NEW f \in Writer, Scan(f) PROVE AllocIInv'
<1>1. PICK start \in Cluster \ core : UseBest(f, start, Found(start, ctx[f].glen))
  BY DEF Scan
<1>2. ctx[f].at = "scan" /\ UNCHANGED <<bitmap, pending, lg, map>>
  BY DEF Scan
<1>3. start \in Int /\ ctx[f].glen \in Int /\ ctx[f].glen >= 1
  BY <1>2, ShapeIs, AllocConst
  DEF AllocIInv, FileSound, SeekSound, Seeking, Context, Cluster
<1>4. FreeAt(start, 1)
  <2>1. Run(start, 1) = {start}
    BY <1>3 DEF Run
  <2> QED
    BY <2>1, AllocConst DEF FreeAt, Cluster
<1>5. /\ Found(start, ctx[f].glen) \in Nat /\ Found(start, ctx[f].glen) >= 1
      /\ FreeAt(start, Found(start, ctx[f].glen))
  <2>1. PICK n \in Int : n = ctx[f].glen
    BY <1>3
  <2>2. Found(start, n) \in Nat /\ Found(start, n) >= 1
        /\ FreeAt(start, Found(start, n))
    <3>1. /\ Found(start, n) \in Nat /\ (Found(start, n) > 0 => FreeAt(start, Found(start, n)))
          /\ (n >= 1 /\ FreeAt(start, 1) => Found(start, n) >= 1)
      BY <1>3, <2>1, FoundIsFree
    <3> QED
      BY <1>3, <1>4, <2>1, <3>1
  <2> QED
    BY <2>1, <2>2
<1> QED
  BY <1>1, <1>2, <1>5, UseBestHolds

LEMMA TryBestHolds ==
  ASSUME AllocIInv, NEW f \in Writer, TryBest(f) PROVE AllocIInv'
<1>1. CASE ~(Remaining(ctx[f]) > 0)
  BY <1>1, BestLostHolds
<1>2. CASE Remaining(ctx[f]) > 0
  <2>1. /\ ctx[f].at = "best" /\ UNCHANGED <<bitmap, pending, lg, map>>
        /\ UseBest(f, ctx[f].start, Remaining(ctx[f]))
    BY <1>2 DEF TryBest
  <2>2. ctx[f].start \in Cluster /\ ctx[f].got \in Nat /\ ctx[f].start \in Int
    BY <2>1, AllocConst DEF AllocIInv, FileSound, SeekSound, Seeking, Cluster
  <2>3. Remaining(ctx[f]) \in Nat /\ Remaining(ctx[f]) >= 1
        /\ FreeAt(ctx[f].start, Remaining(ctx[f]))
    BY <1>2, <2>2, FoundIsFree DEF Remaining
  <2> QED
    BY <2>1, <2>2, <2>3, UseBestHolds
<1> QED
  BY <1>1, <1>2

-----------------------------------------------------------------------------
(* The invariant holds of every state.                                     *)
LEMMA AllocStarts == AllocInit => AllocIInv
<1> SUFFICES ASSUME AllocInit PROVE AllocIInv
  OBVIOUS
<1>1. /\ bitmap = {} /\ core = {} /\ bbFree = Blocks
      /\ pending.running = {} /\ pending.committing = {}
      /\ pas = [p \in Pa |-> NoPrealloc] /\ ctx = [f \in Writer |-> NoContext]
      /\ lg = NoFile /\ map = [f \in Writer |-> [l \in Lblk(f) |-> NoBlock]]
  BY DEF AllocInit
<1>2. /\ NoPrealloc.kind = "free" /\ NoPrealloc.count = 0
      /\ NoContext.at = "idle" /\ NoContext.freeing = {}
  BY DEF NoPrealloc, NoContext
<1>3. NoPrealloc \in Prealloc /\ NoContext \in Context
  <2>1. NoPrealloc \in Prealloc
    BY DEF NoPrealloc, Prealloc
  <2>2. "idle" \in Steps
    BY DEF Steps
  <2> QED
    BY <2>1, <2>2 DEF NoContext, Context
<1>4. AllocShape
  <2>1. pending \in [running : SUBSET Cluster, committing : SUBSET Cluster]
    BY DEF AllocInit
  <2>2. bbFree \in Int /\ NoFile \in Writer \cup {NoFile}
    BY <1>1, AllocConst
  <2>3. map = [f \in Writer |-> map[f]]
    BY <1>1
  <2>4. \A f \in Writer : map[f] \in [Lblk(f) -> Cluster \cup {NoBlock}]
    BY <1>1
  <2> QED
    BY <1>1, <1>3, <2>1, <2>2, <2>3, <2>4 DEF AllocShape
<1>5. \A f \in Writer : ctx[f] = NoContext /\ InHand(f) = {} /\ Mapped(f) = {}
  BY <1>1, <1>2 DEF InHand, Mapped
<1>6. \A p \in Pa : pas[p] = NoPrealloc /\ p \notin Listed
  BY <1>1, <1>2 DEF Listed
<1>7. \A f \in Writer : FileSound(f) /\ OwnDistinct(f)
  <2> SUFFICES ASSUME NEW f \in Writer PROVE FileSound(f) /\ OwnDistinct(f)
    OBVIOUS
  <2>1. ctx[f].at = "idle" /\ ctx[f] = NoContext /\ lg # f
    BY <1>1, <1>2, <1>5, AllocConst
  <2>2. SeekSound(f) /\ TakenSound(f) /\ HoldSound(f) /\ DropSound(f) /\ FlowSound(f)
    BY <2>1
    DEF SeekSound, TakenSound, HoldSound, DropSound, FlowSound, Seeking, Taken
  <2>3. \A l \in Lblk(f) : map[f][l] = NoBlock
    BY <1>1
  <2> QED
    BY <1>5, <2>2, <2>3 DEF FileSound, OwnDistinct
<1>8. \A p \in Pa : PaHeld(p) /\ PaSize(p) /\ PaOwn(p)
  <2> SUFFICES ASSUME NEW p \in Pa PROVE PaHeld(p) /\ PaSize(p) /\ PaOwn(p)
    OBVIOUS
  <2>1. \A f \in Writer : ~Holds(f, p)
    BY <1>2, <1>5 DEF Holds, Seeking
  <2>2. pas[p].count = 0
    BY <1>2, <1>6
  <2>3. PaHeld(p)
    BY <2>1, <2>2 DEF PaHeld, Uses
  <2> QED
    BY <1>6, <2>3 DEF PaSize, PaOwn
<1>9. /\ \A f \in Writer : Owned[f] = {} /\ OnDisk(f) = {}
      /\ Waiting = {}
  BY <1>1, <1>5 DEF Owned, OnDisk, Waiting
<1>10. Apart /\ BitmapIs
  BY <1>1, <1>9 DEF Apart, BitmapIs
<1>11. Accounted = {}
  <2>1. Used = {}
    BY <1>9 DEF Used
  <2>2. InReserve = {}
    BY <1>6 DEF InReserve, Listed
  <2> QED
    BY <1>9, <2>1, <2>2 DEF Accounted
<1>12. CoreIs
  BY <1>1, <1>11, FS_EmptySet, AllocConst DEF CoreIs
<1> QED
  BY <1>4, <1>7, <1>8, <1>10, <1>12 DEF AllocIInv

LEMMA AllocSteps == AllocIInv /\ [AllocNext]_allocVars => AllocIInv'
<1> SUFFICES ASSUME AllocIInv, [AllocNext]_allocVars PROVE AllocIInv'
  OBVIOUS
<1>1. CASE UNCHANGED allocVars
  BY <1>1, AllocStutter
<1>2. CASE Reload
  BY <1>2, ReloadHolds
<1>3. CASE CommitStarts
  BY <1>3, CommitStartsHolds
<1>4. CASE ProcessFreedData
  BY <1>4, ProcessFreedDataHolds
<1>5. ASSUME NEW f \in Writer,
             \/ Request(f) \/ Scan(f) \/ ScanRemembers(f) \/ TryBest(f)
             \/ NothingFound(f) \/ DiscardGroup(f) \/ NoSpace(f)
             \/ MarkOnDisk(f) \/ MarkFails(f) \/ ReleaseContext(f) \/ DropPa(f)
             \/ Insert(f) \/ InsertFails(f)
             \/ TruncateFile(f) \/ CollectPas(f) \/ ReleasePa(f) \/ ClearOnDisk(f)
             \/ MbFreeMetadata(f)
      PROVE  AllocIInv'
  <2>1. CASE Request(f)
    BY <2>1, RequestHolds
  <2>2. CASE Scan(f)
    BY <2>2, ScanHolds
  <2>3. CASE ScanRemembers(f)
    BY <2>3, ScanRemembersHolds
  <2>4. CASE TryBest(f)
    BY <2>4, TryBestHolds
  <2>5. CASE NothingFound(f)
    BY <2>5, NothingFoundHolds
  <2>6. CASE DiscardGroup(f)
    BY <2>6, DiscardGroupHolds
  <2>7. CASE NoSpace(f)
    BY <2>7, NoSpaceHolds
  <2>8. CASE MarkOnDisk(f)
    BY <2>8, MarkOnDiskHolds
  <2>9. CASE MarkFails(f)
    BY <2>9, MarkFailsHolds
  <2>10. CASE ReleaseContext(f)
    BY <2>10, ReleaseContextHolds
  <2>11. CASE DropPa(f)
    BY <2>11, DropPaHolds
  <2>12. CASE Insert(f)
    BY <2>12, InsertHolds
  <2>13. CASE InsertFails(f)
    BY <2>13, InsertFailsHolds
  <2>14. CASE TruncateFile(f)
    BY <2>14, TruncateFileHolds
  <2>15. CASE CollectPas(f)
    BY <2>15, CollectPasHolds
  <2>16. CASE ReleasePa(f)
    BY <2>16, ReleasePaHolds
  <2>17. CASE ClearOnDisk(f)
    BY <2>17, ClearOnDiskHolds
  <2>18. CASE MbFreeMetadata(f)
    BY <2>18, MbFreeMetadataHolds
  <2> QED
    BY <1>5, <2>1, <2>2, <2>3, <2>4, <2>5, <2>6, <2>7, <2>8, <2>9, <2>10, <2>11,
       <2>12, <2>13, <2>14, <2>15, <2>16, <2>17, <2>18
<1> QED
  BY <1>1, <1>2, <1>3, <1>4, <1>5 DEF AllocNext

LEMMA AllocSays == AllocIInv => BlocksAccounted
<1> SUFFICES ASSUME AllocIInv PROVE BlocksAccounted
  OBVIOUS
<1> DEFINE reserve == UNION {Reserve(p) : p \in Listed}
           all == Used \cup reserve \cup Waiting
<1>1. \A f \in Writer : Mapped(f) \subseteq Owned[f] /\ InHand(f) \subseteq Owned[f]
  BY DEF Owned
<1>2. bitmap \subseteq Used /\ \A f \in Writer : Mapped(f) \subseteq bitmap
  <2>1. \A f \in Writer : OnDisk(f) \subseteq Owned[f] /\ Mapped(f) \subseteq OnDisk(f)
    BY <1>1 DEF OnDisk
  <2> QED
    BY <2>1 DEF AllocIInv, BitmapIs, Used
<1>3. \A f \in Writer : InHand(f) \subseteq Used
  BY <1>1 DEF Used
<1>4. \A p \in Listed : Reserve(p) \subseteq PaBlocks(p) /\ PaBlocks(p) \subseteq Reserve(p) \cup Used
  BY <1>2, <1>3 DEF Reserve
<1>5. all = Accounted
  BY <1>4 DEF Accounted, InReserve
<1>6. reserve \cap Waiting = {}
  <2>1. \A p \in Listed : PaBlocks(p) \cap Waiting = {}
    BY DEF AllocIInv, PaOwn, Listed
  <2> QED
    BY <1>4, <2>1
<1>7. Used \cap Waiting = {}
  BY DEF AllocIInv, Apart, Used
<1>8. \A f, g \in Writer : f # g => Owned[f] \cap Owned[g] = {}
  BY DEF AllocIInv, Apart
<1>9. \A f \in Writer : \A l, m \in Lblk(f) :
        l # m => map[f][l] # map[f][m] \/ map[f][l] = NoBlock
  BY DEF AllocIInv, OwnDistinct
<1>10. core = all /\ bbFree = Blocks - Cardinality(all)
  BY <1>5 DEF AllocIInv, CoreIs
<1> QED
  BY <1>2, <1>6, <1>7, <1>8, <1>9, <1>10 DEF BlocksAccounted, Used

(* BlockAlloc's BlocksAccounted, for every size of the group, of the files *)
(* and of the requests, and any number of files and descriptors: a cluster *)
(* has at most one owner, the bitmap on disk says used of all that the     *)
(* files have, and the bitmap in memory with bb_free of all that has an    *)
(* owner and of nothing else (mballoc.c).                                  *)
THEOREM BlocksAreAccounted == AllocSpec => []BlocksAccounted
<1>1. AllocInit => AllocIInv
  BY AllocStarts
<1>2. AllocIInv /\ [AllocNext]_allocVars => AllocIInv'
  BY AllocSteps
<1>3. AllocIInv => BlocksAccounted
  BY AllocSays
<1> QED
  BY <1>1, <1>2, <1>3, PTL DEF AllocSpec
===============================================================================
