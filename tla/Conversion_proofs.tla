-------------------------- MODULE Conversion_proofs ---------------------------
(* Proofs about directories that change their kind while they are in use:  *)
(* a promotion publishes the tree as it is (Promotion), lookups find the   *)
(* namespace while a demotion converts it back (Demotion), and the locks   *)
(* that these and all other operations take never form a circle of         *)
(* callers that wait for each other (LockOrder).                           *)
EXTENDS Promotion, Demotion, LockOrder, TLAPS, FiniteSetTheorems, SequenceTheorems

-----------------------------------------------------------------------------
(* Promotion.  What the promotion relies on: while it walks and locks, a   *)
(* directory that did not move since it was captured is conventional and   *)
(* has the entries the index will hold; while it publishes, what it has    *)
(* not published yet is, and is locked.                                    *)
Snapshot(d) == ~Stable(d) /\ pro.slots[d] = linear[d]

LockedOnce(n) ==
  /\ n \in 0..Len(pro.dirs) /\ held = {pro.dirs[i] : i \in 1..n}
  /\ \A i, j \in 1..n : pro.dirs[i] = pro.dirs[j] => i = j

FoundTree == \A d \in Folders : /\ Found(d) = tree[d]
                                /\ kind[d] = "interior" => kind[Top] = "root"

CaptureTold ==
  /\ pro.pc \in {"idle", "walk"} => held = {}
  /\ pro.pc # "idle" => Len(pro.dirs) > 0 /\ pro.dirs[1] = Top
  /\ pro.pc = "walk" => pro.done <= Len(pro.dirs)
  /\ pro.pc \in {"walk", "lock"} => \A d \in Read \ touched : Snapshot(d)
  /\ pro.pc = "lock" => LockedOnce(pro.done)
  /\ pro.pc \in {"root", "interior"} => LockedOnce(Len(pro.dirs))
  /\ pro.pc = "root" => \A d \in Captured : Snapshot(d)
  /\ pro.pc = "interior" =>
       /\ kind[Top] = "root" /\ pro.done \in 1..Len(pro.dirs)
       /\ \A i \in pro.done + 1..Len(pro.dirs) : Snapshot(pro.dirs[i])

PromotionIInv == PromotionTypeOK /\ FoundTree /\ CaptureTold

LEMMA CallFields ==
  ASSUME PromotionTypeOK
  PROVE  /\ pro.pc \in {"idle", "walk", "lock", "root", "interior"}
         /\ pro.dirs \in Seq(Folders) /\ Len(pro.dirs) \in Nat
         /\ pro.up \in [Folders -> Folders] /\ pro.done \in Nat /\ pro.slots \in Trees
         /\ \A i \in 1..Len(pro.dirs) : pro.dirs[i] \in Folders
         /\ Captured \subseteq Folders
<1>1. pro.dirs \in Seq(Folders) /\ pro.done \in Nat
  BY DEF PromotionTypeOK, PromoteCall
<1>2. Len(pro.dirs) \in Nat /\ \A i \in 1..Len(pro.dirs) : pro.dirs[i] \in Folders
  BY <1>1
<1> QED
  BY <1>1, <1>2 DEF PromotionTypeOK, PromoteCall, Captured

(* What others, and the demotion of a boundary, do to the directories ds.  *)
LEMMA TreeMoves ==
  ASSUME PromotionIInv, NEW ds \in SUBSET Folders, UNCHANGED <<pro, held>>,
         PromotionTypeOK', FoundTree',
         \A d \in Folders \ ds : kind'[d] = kind[d] /\ linear'[d] = linear[d],
         ds \cap held = {}, touched \subseteq touched', ds \cap Read \subseteq touched'
  PROVE  PromotionIInv'
<1>1. PromotionTypeOK /\ CaptureTold
  BY DEF PromotionIInv
<1>2. /\ Len(pro.dirs) \in Nat /\ Captured \subseteq Folders /\ pro.done \in Nat
      /\ \A i \in 1..Len(pro.dirs) : pro.dirs[i] \in Folders
  BY <1>1, CallFields
<1>3. Read' = Read /\ Captured' = Captured
  BY DEF Read, Captured
<1>4. \A d \in Folders \ ds : Snapshot(d)' <=> Snapshot(d)
  BY DEF Snapshot, Stable
<1>5. \A n : LockedOnce(n)' <=> LockedOnce(n)
  BY DEF LockedOnce
<1>6. ASSUME pro.pc \in {"walk", "lock"} PROVE \A d \in Read' \ touched' : Snapshot(d)'
  <2>1. Read \subseteq Folders
    <3>1. \A i \in 1..pro.done : pro.pc = "walk" => i \in 1..Len(pro.dirs)
      BY <1>1, <1>2 DEF CaptureTold
    <3> QED
      BY <1>2, <3>1 DEF Read, Captured
  <2> QED
    BY <1>1, <1>3, <1>4, <1>6, <2>1 DEF CaptureTold
<1>7. ASSUME pro.pc \in {"root", "interior"}
      PROVE  /\ LockedOnce(Len(pro.dirs)) /\ Captured \cap ds = {} /\ Top \in Captured
             /\ \A i \in 1..Len(pro.dirs) : pro.dirs[i] \in Folders \ ds
  <2>1. LockedOnce(Len(pro.dirs)) /\ pro.dirs[1] = Top /\ 1 \in 1..Len(pro.dirs)
    BY <1>1, <1>2, <1>7 DEF CaptureTold
  <2>2. held = Captured
    BY <2>1 DEF LockedOnce, Captured
  <2> QED
    BY <1>2, <2>1, <2>2 DEF Captured
<1>8. CASE pro.pc = "interior"
  <2>1. /\ kind[Top] = "root" /\ pro.done \in 1..Len(pro.dirs)
        /\ \A i \in pro.done + 1..Len(pro.dirs) : Snapshot(pro.dirs[i])
    BY <1>1, <1>8 DEF CaptureTold
  <2>2. kind'[Top] = "root"
    BY <1>2, <1>7, <1>8, <2>1
  <2>3. ASSUME NEW i \in pro.done + 1..Len(pro.dirs) PROVE Snapshot(pro.dirs[i])'
    <3>1. i \in 1..Len(pro.dirs)
      BY <1>2, <2>1
    <3> QED
      BY <1>4, <1>7, <1>8, <2>1, <3>1 DEF Snapshot, Stable
  <2> QED
    BY <1>1, <1>5, <1>7, <1>8, <2>1, <2>2, <2>3 DEF PromotionIInv, CaptureTold
<1>9. CASE pro.pc # "interior"
  BY <1>1, <1>2, <1>3, <1>4, <1>5, <1>6, <1>7, <1>9 DEF PromotionIInv, CaptureTold
<1> QED
  BY <1>8, <1>9

LEMMA TouchKeeps ==
  ASSUME NEW ds, Touch(ds), PromotionTypeOK, ds \subseteq Folders
  PROVE  touched \subseteq touched' /\ ds \cap Read \subseteq touched' /\ touched' \subseteq Folders
BY DEF Touch, PromotionTypeOK

LEMMA NameStep ==
  ASSUME PromotionIInv, NEW d \in Folders, NEW f \in Plain, ChangeName(d, f)
  PROVE  PromotionIInv'
<1> DEFINE c == IF f \in tree[d] THEN tree[d] \ {f} ELSE tree[d] \cup {f}
<1>1. /\ d \notin held /\ tree' = [tree EXCEPT ![d] = c]
      /\ linear' = (IF Stable(d) THEN linear ELSE [linear EXCEPT ![d] = c])
      /\ index' = (IF Stable(d) THEN [index EXCEPT ![d] = c] ELSE index)
      /\ Touch({d}) /\ UNCHANGED <<kind, pro, held>>
  BY DEF ChangeName, Store
<1>2. PromotionTypeOK /\ FoundTree
  BY DEF PromotionIInv
<1>3. c \in SUBSET Items
  BY <1>2 DEF PromotionTypeOK, Trees, Items
<1> HIDE DEF c
<1>4. PromotionTypeOK'
  <2>1. tree' \in Trees /\ linear' \in Trees /\ index' \in Trees
    BY <1>1, <1>2, <1>3 DEF PromotionTypeOK, Trees
  <2> QED
    BY <1>1, <1>2, <2>1, TouchKeeps DEF PromotionTypeOK
<1>5. \A e \in Folders \ {d} : linear'[e] = linear[e] /\ index'[e] = index[e] /\ tree'[e] = tree[e]
  BY <1>1, <1>2 DEF PromotionTypeOK, Trees
<1>6. FoundTree'
  <2>1. \A e \in Folders \ {d} : Found(e)' = tree'[e]
    BY <1>1, <1>2, <1>5 DEF FoundTree, Found, Stable
  <2>2. Found(d)' = tree'[d]
    BY <1>1, <1>2 DEF FoundTree, Found, Stable, PromotionTypeOK, Trees
  <2> QED
    BY <1>1, <1>2, <2>1, <2>2 DEF FoundTree
<1> QED
  BY <1>1, <1>2, <1>4, <1>5, <1>6, TouchKeeps, TreeMoves

LEMMA MoveFolderStep ==
  ASSUME PromotionIInv, NEW x \in Sub, NEW a \in Folders, NEW b \in Folders,
         MoveFolder(x, a, b)
  PROVE  PromotionIInv'
<1>1. /\ a # b /\ {a, b} \cap held = {} /\ ~Stable(a) /\ ~Stable(b)
      /\ tree' = [tree EXCEPT ![a] = @ \ {x}, ![b] = @ \cup {x}]
      /\ linear' = [linear EXCEPT ![a] = @ \ {x}, ![b] = @ \cup {x}]
      /\ Touch({a, b}) /\ UNCHANGED <<kind, index, pro, held>>
  BY DEF MoveFolder
<1>2. PromotionTypeOK /\ FoundTree
  BY DEF PromotionIInv
<1>3. tree \in [Folders -> SUBSET Items] /\ linear \in [Folders -> SUBSET Items] /\ x \in Items
  BY <1>2 DEF PromotionTypeOK, Trees, Items
<1>4. /\ tree' \in [Folders -> SUBSET Items] /\ linear' \in [Folders -> SUBSET Items]
      /\ tree'[a] = tree[a] \ {x} /\ tree'[b] = tree[b] \cup {x}
      /\ linear'[a] = linear[a] \ {x} /\ linear'[b] = linear[b] \cup {x}
      /\ \A e \in Folders \ {a, b} : linear'[e] = linear[e] /\ tree'[e] = tree[e]
  BY <1>1, <1>3
<1>5. PromotionTypeOK'
  BY <1>1, <1>2, <1>4, TouchKeeps DEF PromotionTypeOK, Trees
<1>6. linear[a] = tree[a] /\ linear[b] = tree[b]
  BY <1>1, <1>2 DEF FoundTree, Found
<1>7. ASSUME NEW e \in Folders PROVE Found(e)' = tree'[e]
  <2>1. CASE e \in {a, b}
    BY <1>1, <1>4, <1>6, <2>1 DEF Found, Stable
  <2>2. CASE e \notin {a, b}
    BY <1>1, <1>2, <1>4, <2>2 DEF FoundTree, Found, Stable
  <2> QED
    BY <2>1, <2>2
<1>8. FoundTree'
  BY <1>1, <1>2, <1>7 DEF FoundTree
<1>9. touched \subseteq touched' /\ {a, b} \cap Read \subseteq touched'
  BY <1>1, <1>2, TouchKeeps
<1> QED
  BY <1>1, <1>4, <1>5, <1>8, <1>9, TreeMoves

LEMMA AloneStep ==
  ASSUME PromotionIInv, NEW d \in Folders, PromotedAlone(d) PROVE PromotionIInv'
<1>1. /\ d # Top /\ d \notin held /\ kind[d] = "conventional"
      /\ kind' = [kind EXCEPT ![d] = "root"]
      /\ index' = [index EXCEPT ![d] = linear[d]]
      /\ linear' = [linear EXCEPT ![d] = {}]
      /\ Touch({d}) /\ UNCHANGED <<tree, pro, held>>
  BY PromotionAssumption DEF PromotedAlone, Stable
<1>2. PromotionTypeOK /\ FoundTree
  BY DEF PromotionIInv
<1>3. /\ linear \in [Folders -> SUBSET Items] /\ index \in [Folders -> SUBSET Items]
      /\ kind \in [Folders -> {"conventional", "root", "interior"}] /\ Top \in Folders
  BY <1>2 DEF PromotionTypeOK, Trees, Folders
<1>4. /\ linear' \in [Folders -> SUBSET Items] /\ index' \in [Folders -> SUBSET Items]
      /\ kind' \in [Folders -> {"conventional", "root", "interior"}]
      /\ kind'[d] = "root" /\ index'[d] = linear[d]
      /\ \A e \in Folders \ {d} : /\ linear'[e] = linear[e] /\ index'[e] = index[e]
                                  /\ kind'[e] = kind[e]
  BY <1>1, <1>3
<1>5. PromotionTypeOK'
  BY <1>1, <1>2, <1>4, TouchKeeps DEF PromotionTypeOK, Trees
<1>6. linear[d] = tree[d]
  BY <1>1, <1>2 DEF FoundTree, Found, Stable
<1>7. FoundTree'
  <2>1. \A e \in Folders \ {d} : Found(e)' = tree'[e]
    BY <1>1, <1>2, <1>3, <1>4 DEF FoundTree, Found, Stable
  <2>2. Found(d)' = tree'[d]
    BY <1>1, <1>4, <1>6 DEF Found, Stable
  <2>3. \A e \in Folders : kind'[e] = "interior" => kind'[Top] = "root"
    BY <1>1, <1>2, <1>3, <1>4 DEF FoundTree
  <2> QED
    BY <2>1, <2>2, <2>3 DEF FoundTree
<1> QED
  BY <1>1, <1>2, <1>4, <1>5, <1>7, TouchKeeps, TreeMoves

LEMMA DemotedStep ==
  ASSUME PromotionIInv, NEW d \in Folders, Demoted(d) PROVE PromotionIInv'
<1> DEFINE all == {d} \cup {x \in Sub : d = Top /\ kind[x] = "interior"}
<1>1. /\ kind[d] = "root" /\ held = {}
      /\ kind' = [x \in Folders |-> IF x \in all THEN "conventional" ELSE kind[x]]
      /\ linear' = [x \in Folders |-> IF x \in all THEN index[x] ELSE linear[x]]
      /\ index' = [x \in Folders |-> IF x \in all THEN {} ELSE index[x]]
      /\ Touch(all) /\ UNCHANGED <<tree, pro, held>>
  BY DEF Demoted
<1>2. PromotionTypeOK /\ FoundTree
  BY DEF PromotionIInv
<1>3. all \subseteq Folders /\ Top \in Folders /\ Folders = {Top} \cup Sub
  BY DEF Folders
<1>4. \A x \in Folders : kind[x] = "interior" => x \in Sub /\ kind[Top] = "root"
  BY <1>2, <1>3 DEF FoundTree
<1>5. \A x \in all : kind[x] \in {"root", "interior"} /\ index[x] = tree[x]
  <2>1. \A x \in all : kind[x] \in {"root", "interior"}
    BY <1>1
  <2> QED
    BY <1>2, <1>3, <1>4, <2>1 DEF FoundTree, Found, Stable
<1>6. PromotionTypeOK'
  <2>1. linear' \in Trees /\ index' \in Trees
    BY <1>1, <1>2 DEF PromotionTypeOK, Trees
  <2>2. kind' \in [Folders -> {"conventional", "root", "interior"}]
    BY <1>1, <1>2 DEF PromotionTypeOK
  <2> QED
    BY <1>1, <1>2, <1>3, <2>1, <2>2, TouchKeeps DEF PromotionTypeOK
<1>7. ASSUME NEW x \in Folders, kind'[x] = "interior" PROVE kind'[Top] = "root"
  <2>1. x \notin all /\ kind[x] = "interior"
    BY <1>1, <1>7
  <2>2. d # Top
    BY <1>4, <2>1
  <2> QED
    BY <1>1, <1>3, <1>4, <2>1, <2>2, PromotionAssumption
<1>8. ASSUME NEW x \in Folders PROVE Found(x)' = tree'[x]
  <2>1. CASE x \in all
    BY <1>1, <1>5, <2>1 DEF Found, Stable
  <2>2. CASE x \notin all
    <3>1. kind'[x] = kind[x] /\ linear'[x] = linear[x] /\ index'[x] = index[x]
      BY <1>1, <2>2
    <3>2. kind'[x] = "interior" => kind'[Top] = "root"
      BY <1>7
    <3>3. Found(x) = tree[x] /\ (kind[x] = "interior" => kind[Top] = "root")
      BY <1>2 DEF FoundTree
    <3> QED
      BY <1>1, <3>1, <3>2, <3>3 DEF Found, Stable
  <2> QED
    BY <2>1, <2>2
<1>9. FoundTree'
  BY <1>7, <1>8 DEF FoundTree
<1>10. \A e \in Folders \ all : kind'[e] = kind[e] /\ linear'[e] = linear[e]
  BY <1>1
<1>11. touched \subseteq touched' /\ all \cap Read \subseteq touched' /\ all \cap held = {}
  BY <1>1, <1>2, <1>3, TouchKeeps
<1> HIDE DEF all
<1> QED
  BY <1>1, <1>3, <1>6, <1>9, <1>10, <1>11, TreeMoves

(* The walk demotes a boundary: it has not read it, or it has moved since. *)
LEMMA WalkDemotesStep == ASSUME PromotionIInv, WalkDemotes PROVE PromotionIInv'
<1>1. PromotionTypeOK /\ FoundTree /\ CaptureTold
  BY DEF PromotionIInv
<1>2. PICK d : d = NextDir
  OBVIOUS
<1>3. /\ pro.pc = "walk" /\ kind[d] = "root" /\ d # Top
      /\ pro.done # Len(pro.dirs)
      /\ kind' = [kind EXCEPT ![d] = "conventional"]
      /\ linear' = [linear EXCEPT ![d] = index[d]]
      /\ index' = [index EXCEPT ![d] = {}]
      /\ UNCHANGED <<tree, pro, touched, held>>
  BY <1>2 DEF WalkDemotes, AllDone
<1>4. d \in Folders /\ held = {}
  <2>1. pro.done + 1 \in 1..Len(pro.dirs)
    BY <1>1, <1>3, CallFields DEF CaptureTold
  <2> QED
    BY <1>1, <1>2, <1>3, <2>1, CallFields DEF CaptureTold, NextDir
<1>5. /\ linear \in [Folders -> SUBSET Items] /\ index \in [Folders -> SUBSET Items]
      /\ kind \in [Folders -> {"conventional", "root", "interior"}] /\ Top \in Folders
  BY <1>1 DEF PromotionTypeOK, Trees, Folders
<1>6. /\ linear' \in [Folders -> SUBSET Items] /\ index' \in [Folders -> SUBSET Items]
      /\ kind' \in [Folders -> {"conventional", "root", "interior"}]
      /\ kind'[d] = "conventional" /\ linear'[d] = index[d]
      /\ \A e \in Folders \ {d} : /\ linear'[e] = linear[e] /\ index'[e] = index[e]
                                  /\ kind'[e] = kind[e]
  BY <1>3, <1>4, <1>5
<1>7. PromotionTypeOK'
  BY <1>1, <1>3, <1>6 DEF PromotionTypeOK, Trees
<1>8. index[d] = tree[d]
  BY <1>1, <1>3, <1>4 DEF FoundTree, Found, Stable
<1>9. FoundTree'
  <2>1. \A e \in Folders \ {d} : Found(e)' = tree'[e]
    BY <1>1, <1>3, <1>5, <1>6 DEF FoundTree, Found, Stable
  <2>2. Found(d)' = tree'[d]
    BY <1>3, <1>6, <1>8 DEF Found, Stable
  <2>3. \A e \in Folders : kind'[e] = "interior" => kind'[Top] = "root"
    BY <1>1, <1>3, <1>5, <1>6 DEF FoundTree
  <2> QED
    BY <2>1, <2>2, <2>3 DEF FoundTree
<1>10. {d} \cap Read \subseteq touched
  BY <1>1, <1>3 DEF CaptureTold, Snapshot, Stable
<1>11. /\ {d} \in SUBSET Folders /\ {d} \cap held = {} /\ touched \subseteq touched'
       /\ {d} \cap Read \subseteq touched'
  BY <1>3, <1>4, <1>10
<1> QED
  BY <1>3, <1>6, <1>7, <1>9, <1>11, TreeMoves

LEMMA SetToSeqsAre ==
  ASSUME NEW S, IsFiniteSet(S), NEW s \in SetToSeqs(S)
  PROVE  s \in Seq(S)
BY FS_CardinalityType DEF SetToSeqs

LEMMA NoPromotionIs ==
  /\ NoPromotion \in PromoteCall /\ NoPromotion.pc = "idle"
  /\ NoPromotion.dirs = <<>> /\ NoPromotion.done = 0
BY DEF NoPromotion, PromoteCall, Trees, Folders

LEMMA BeginStep == ASSUME PromotionIInv, PromoteBegins PROVE PromotionIInv'
<1> DEFINE r == [NoPromotion EXCEPT !.pc = "walk", !.dirs = <<Top>>]
<1>1. /\ pro.pc = "idle" /\ pro' = r
      /\ UNCHANGED <<tree, kind, linear, index, touched, held>>
  BY DEF PromoteBegins
<1>2. /\ r.pc = "walk" /\ r.dirs = <<Top>> /\ r.done = 0 /\ r \in PromoteCall
  <2>1. Top \in Folders /\ <<Top>> \in Seq(Folders)
    BY DEF Folders
  <2> QED
    BY <2>1, NoPromotionIs DEF NoPromotion, PromoteCall, Trees
<1> HIDE DEF r
<1>3. PromotionTypeOK' /\ FoundTree'
  BY <1>1, <1>2 DEF PromotionIInv, PromotionTypeOK, FoundTree, Found, Stable
<1>4. Read' = {}
  BY <1>1, <1>2 DEF Read
<1>5. CaptureTold'
  BY <1>1, <1>2, <1>4 DEF PromotionIInv, CaptureTold
<1> QED
  BY <1>3, <1>5 DEF PromotionIInv

(* What is captured is what the directory has, or it has moved since.      *)
LEMMA ReadStep == ASSUME PromotionIInv, WalkReads PROVE PromotionIInv'
<1>1. PromotionTypeOK /\ FoundTree /\ CaptureTold
  BY DEF PromotionIInv
<1>2. PICK d : d = NextDir
  OBVIOUS
<1>3. /\ pro.pc = "walk" /\ ~Stable(d) /\ pro.done # Len(pro.dirs)
      /\ UNCHANGED <<tree, kind, linear, index, touched, held>>
  BY <1>2 DEF WalkReads, AllDone
<1>4. /\ pro.done \in Nat /\ Len(pro.dirs) \in Nat /\ pro.done + 1 \in 1..Len(pro.dirs)
      /\ pro.done <= Len(pro.dirs)
  BY <1>1, <1>3, CallFields DEF CaptureTold
<1>5. d = pro.dirs[pro.done + 1] /\ d \in Folders
  BY <1>1, <1>2, <1>4, CallFields DEF NextDir
<1>6. PICK join \in SUBSET Sub : \E s \in SetToSeqs(join) :
        pro' = [pc |-> "walk", dirs |-> pro.dirs \o s,
                up |-> [x \in Folders |-> IF x \in join THEN d ELSE pro.up[x]],
                done |-> pro.done + 1,
                slots |-> [pro.slots EXCEPT ![d] = linear[d]]]
  BY <1>2 DEF WalkReads
<1>7. PICK s \in SetToSeqs(join) :
        pro' = [pc |-> "walk", dirs |-> pro.dirs \o s,
                up |-> [x \in Folders |-> IF x \in join THEN d ELSE pro.up[x]],
                done |-> pro.done + 1,
                slots |-> [pro.slots EXCEPT ![d] = linear[d]]]
  BY <1>6
<1>8. /\ pro'.pc = "walk" /\ pro'.dirs = pro.dirs \o s /\ pro'.done = pro.done + 1
      /\ pro'.slots = [pro.slots EXCEPT ![d] = linear[d]]
      /\ pro'.up = [x \in Folders |-> IF x \in join THEN d ELSE pro.up[x]]
  BY <1>7
<1>9. s \in Seq(Folders)
  <2>1. IsFiniteSet(join)
    BY FS_Subset, PromotionAssumption
  <2>2. s \in Seq(join)
    BY <2>1, SetToSeqsAre
  <2> QED
    BY <2>2 DEF Folders
<1>10. /\ pro'.dirs \in Seq(Folders) /\ Len(pro'.dirs) = Len(pro.dirs) + Len(s)
       /\ Len(s) \in Nat
       /\ \A i \in 1..Len(pro.dirs) : pro'.dirs[i] = pro.dirs[i]
  BY <1>1, <1>8, <1>9, CallFields
<1>11. PromotionTypeOK'
  <2>1. pro'.slots \in Trees
    BY <1>1, <1>5, <1>8, CallFields DEF PromotionTypeOK, Trees
  <2>2. pro'.up \in [Folders -> Folders]
    BY <1>1, <1>5, <1>8, CallFields
  <2>3. pro'.done \in Nat
    BY <1>4, <1>8
  <2>4. pro' \in PromoteCall
    BY <1>7, <1>8, <1>10, <2>1, <2>2, <2>3 DEF PromoteCall
  <2> QED
    BY <1>1, <1>3, <2>4 DEF PromotionTypeOK
<1>12. FoundTree'
  BY <1>1, <1>3 DEF FoundTree, Found, Stable
<1>13. ASSUME NEW e \in Read' \ touched' PROVE Snapshot(e)'
  <2>1. PICK i \in 1..pro.done + 1 : e = pro.dirs[i]
    BY <1>4, <1>8, <1>10 DEF Read
  <2>2. e \in Folders
    BY <1>1, <1>4, <2>1, CallFields
  <2>3. CASE e = d
    <3>1. pro'.slots[e] = linear[e]
      BY <1>1, <1>5, <1>8, <2>3, CallFields DEF Trees
    <3> QED
      BY <1>3, <2>3, <3>1 DEF Snapshot, Stable
  <2>4. CASE e # d
    <3>1. i \in 1..pro.done
      BY <1>4, <1>5, <2>1, <2>4
    <3>2. e \in Read \ touched
      BY <1>3, <1>13, <2>1, <3>1 DEF Read
    <3>3. Snapshot(e)
      BY <1>1, <1>3, <3>2 DEF CaptureTold
    <3>4. pro'.slots[e] = pro.slots[e]
      BY <1>1, <1>8, <2>2, <2>4, CallFields DEF Trees
    <3> QED
      BY <1>3, <3>3, <3>4 DEF Snapshot, Stable
  <2> QED
    BY <2>3, <2>4
<1>14. CaptureTold'
  <2>1. held' = {} /\ pro'.dirs[1] = Top /\ Len(pro'.dirs) > 0
    BY <1>1, <1>3, <1>4, <1>10 DEF CaptureTold
  <2>2. pro'.done <= Len(pro'.dirs)
    BY <1>4, <1>8, <1>10
  <2> QED
    BY <1>8, <1>13, <2>1, <2>2 DEF CaptureTold
<1> QED
  BY <1>11, <1>12, <1>14 DEF PromotionIInv

(* Building, then locking one directory after another.                     *)
LEMMA LockSteps ==
  ASSUME PromotionIInv, PromoteBuilds \/ PromoteLocks \/ PromoteValidates
  PROVE  PromotionIInv'
<1>1. PromotionTypeOK /\ FoundTree /\ CaptureTold
  BY DEF PromotionIInv
<1>2. UNCHANGED <<tree, kind, linear, index, touched>>
  BY DEF PromoteBuilds, PromoteLocks, PromoteValidates
<1>3. FoundTree'
  BY <1>1, <1>2 DEF FoundTree, Found, Stable
<1>4. pro \in PromoteCall /\ pro.done \in Nat /\ Len(pro.dirs) \in Nat
  BY <1>1, CallFields DEF PromotionTypeOK
<1>5. ASSUME PromoteBuilds PROVE PromotionIInv'
  <2> DEFINE r == [pro EXCEPT !.pc = "lock", !.done = 0]
  <2>1. /\ pro.pc = "walk" /\ pro.done = Len(pro.dirs) /\ pro' = r /\ held' = held
    BY <1>5 DEF PromoteBuilds, AllDone
  <2>2. /\ r.pc = "lock" /\ r.done = 0 /\ r.dirs = pro.dirs /\ r.slots = pro.slots
        /\ r \in PromoteCall
    BY <1>4 DEF PromoteCall
  <2> HIDE DEF r
  <2>3. Read' = Read /\ \A d : Snapshot(d)' <=> Snapshot(d)
    BY <1>2, <2>1, <2>2 DEF Read, Captured, Snapshot, Stable
  <2>4. LockedOnce(0)'
    BY <1>1, <1>4, <2>1, <2>2 DEF LockedOnce, CaptureTold
  <2>5. CaptureTold'
    BY <1>1, <1>2, <2>1, <2>2, <2>3, <2>4 DEF CaptureTold
  <2> QED
    BY <1>1, <1>2, <1>3, <2>1, <2>2, <2>5 DEF PromotionIInv, PromotionTypeOK
<1>6. ASSUME PromoteLocks PROVE PromotionIInv'
  <2> DEFINE r == [pro EXCEPT !.done = @ + 1]
  <2>1. /\ pro.pc = "lock" /\ pro.done # Len(pro.dirs) /\ pro' = r
        /\ NextDir \notin held /\ held' = held \cup {NextDir}
    BY <1>6 DEF PromoteLocks, AllDone
  <2>2. /\ r.pc = "lock" /\ r.done = pro.done + 1 /\ r.dirs = pro.dirs
        /\ r.slots = pro.slots /\ r \in PromoteCall
    BY <1>4, <2>1 DEF PromoteCall
  <2> HIDE DEF r
  <2>3. Read' = Read /\ \A d : Snapshot(d)' <=> Snapshot(d)
    BY <1>2, <2>1, <2>2 DEF Read, Captured, Snapshot, Stable
  <2>4. /\ LockedOnce(pro.done) /\ pro.done + 1 \in 1..Len(pro.dirs)
        /\ 1..pro.done + 1 = (1..pro.done) \cup {pro.done + 1}
    BY <1>1, <1>4, <2>1 DEF CaptureTold, LockedOnce
  <2>5. LockedOnce(pro.done)'
    <3>1. held' = {pro.dirs[i] : i \in 1..pro.done + 1}
      BY <2>1, <2>4 DEF LockedOnce, NextDir
    <3>2. \A i, j \in 1..pro.done + 1 : pro.dirs[i] = pro.dirs[j] => i = j
      BY <2>1, <2>4 DEF LockedOnce, NextDir
    <3>3. pro'.done = pro.done + 1 /\ pro'.dirs = pro.dirs
      BY <2>1, <2>2
    <3>4. pro.done + 1 \in 0..Len(pro.dirs)
      BY <1>4, <2>4
    <3> QED
      BY <3>1, <3>2, <3>3, <3>4 DEF LockedOnce
  <2>6. held' \subseteq Folders
    BY <1>1, <2>1, <2>4, CallFields DEF PromotionTypeOK, NextDir
  <2>7. CaptureTold'
    BY <1>1, <1>2, <2>1, <2>2, <2>3, <2>5 DEF CaptureTold
  <2> QED
    BY <1>1, <1>2, <1>3, <2>1, <2>2, <2>6, <2>7 DEF PromotionIInv, PromotionTypeOK
<1>7. ASSUME PromoteValidates PROVE PromotionIInv'
  <2> DEFINE r == [pro EXCEPT !.pc = "root"]
  <2>1. /\ pro.pc = "lock" /\ pro.done = Len(pro.dirs) /\ pro' = r /\ held' = held
        /\ Captured \cap touched = {}
    BY <1>7 DEF PromoteValidates, AllDone
  <2>2. /\ r.pc = "root" /\ r.done = pro.done /\ r.dirs = pro.dirs
        /\ r.slots = pro.slots /\ r \in PromoteCall
    BY <1>4 DEF PromoteCall
  <2> HIDE DEF r
  <2>3. Captured' = Captured /\ \A d : Snapshot(d)' <=> Snapshot(d)
    BY <1>2, <2>1, <2>2 DEF Captured, Snapshot, Stable
  <2>4. \A d \in Captured : Snapshot(d)
    BY <1>1, <2>1 DEF CaptureTold, Read
  <2>5. LockedOnce(Len(pro.dirs))'
    BY <1>1, <2>1, <2>2 DEF CaptureTold, LockedOnce
  <2>6. CaptureTold'
    BY <1>1, <2>1, <2>2, <2>3, <2>4, <2>5 DEF CaptureTold
  <2> QED
    BY <1>1, <1>2, <1>3, <2>1, <2>2, <2>6 DEF PromotionIInv, PromotionTypeOK
<1> QED
  BY <1>5, <1>6, <1>7

LEMMA PublishRootStep == ASSUME PromotionIInv, PromotePublishesRoot PROVE PromotionIInv'
<1> DEFINE r == [pro EXCEPT !.pc = "interior", !.done = 1]
<1>1. PromotionTypeOK /\ FoundTree /\ CaptureTold
  BY DEF PromotionIInv
<1>2. /\ pro.pc = "root" /\ pro' = r
      /\ kind' = [kind EXCEPT ![Top] = "root"]
      /\ index' = [index EXCEPT ![Top] = pro.slots[Top]]
      /\ linear' = [linear EXCEPT ![Top] = {}]
      /\ UNCHANGED <<tree, touched, held>>
  BY DEF PromotePublishesRoot
<1>3. /\ r.pc = "interior" /\ r.done = 1 /\ r.dirs = pro.dirs /\ r.slots = pro.slots
      /\ r \in PromoteCall
  BY <1>1 DEF PromotionTypeOK, PromoteCall
<1> HIDE DEF r
<1>4. /\ Len(pro.dirs) \in Nat /\ 1 \in 1..Len(pro.dirs) /\ pro.dirs[1] = Top
      /\ LockedOnce(Len(pro.dirs)) /\ \A d \in Captured : Snapshot(d)
  BY <1>1, <1>2, CallFields DEF CaptureTold
<1>5. Top \in Captured /\ Snapshot(Top) /\ Top \in Folders
  BY <1>4 DEF Captured, Folders
<1>6. /\ linear \in [Folders -> SUBSET Items] /\ index \in [Folders -> SUBSET Items]
      /\ kind \in [Folders -> {"conventional", "root", "interior"}]
      /\ pro.slots \in [Folders -> SUBSET Items]
  BY <1>1, CallFields DEF PromotionTypeOK, Trees
<1>7. /\ linear' \in [Folders -> SUBSET Items] /\ index' \in [Folders -> SUBSET Items]
      /\ kind' \in [Folders -> {"conventional", "root", "interior"}]
      /\ kind'[Top] = "root" /\ index'[Top] = linear[Top]
      /\ \A e \in Folders \ {Top} : /\ linear'[e] = linear[e] /\ index'[e] = index[e]
                                    /\ kind'[e] = kind[e]
  BY <1>2, <1>5, <1>6 DEF Snapshot
<1>8. PromotionTypeOK'
  BY <1>1, <1>2, <1>3, <1>7 DEF PromotionTypeOK, Trees
<1>9. kind[Top] = "conventional" /\ linear[Top] = tree[Top]
  BY <1>1, <1>5 DEF Snapshot, Stable, FoundTree, Found
<1>10. \A e \in Folders : kind[e] # "interior"
  BY <1>1, <1>9 DEF FoundTree
<1>11. FoundTree'
  <2>1. Found(Top)' = tree'[Top]
    BY <1>2, <1>7, <1>9 DEF Found, Stable
  <2>2. \A e \in Folders \ {Top} : Found(e)' = tree'[e]
    BY <1>1, <1>2, <1>7, <1>10 DEF FoundTree, Found, Stable
  <2> QED
    BY <1>7, <2>1, <2>2 DEF FoundTree
<1>12. ASSUME NEW i \in 1 + 1..Len(pro.dirs) PROVE Snapshot(pro.dirs[i])'
  <2>1. i \in 1..Len(pro.dirs) /\ i # 1
    BY <1>4
  <2>2. pro.dirs[i] \in Captured /\ pro.dirs[i] \in Folders \ {Top}
    BY <1>1, <1>4, <2>1, CallFields DEF Captured, LockedOnce
  <2> QED
    BY <1>2, <1>3, <1>4, <1>7, <2>2 DEF Snapshot, Stable
<1>13. CaptureTold'
  <2>1. LockedOnce(Len(pro.dirs))'
    BY <1>2, <1>3, <1>4 DEF LockedOnce
  <2> QED
    BY <1>2, <1>3, <1>4, <1>7, <1>12, <2>1 DEF CaptureTold
<1> QED
  BY <1>8, <1>11, <1>13 DEF PromotionIInv

LEMMA PublishInteriorStep ==
  ASSUME PromotionIInv, PromotePublishesInterior PROVE PromotionIInv'
<1> DEFINE r == [pro EXCEPT !.done = @ + 1]
<1>1. PromotionTypeOK /\ FoundTree /\ CaptureTold
  BY DEF PromotionIInv
<1>2. PICK d : d = NextDir
  OBVIOUS
<1>3. /\ pro.pc = "interior" /\ pro' = r /\ pro.done # Len(pro.dirs)
      /\ kind' = [kind EXCEPT ![d] = "interior"]
      /\ index' = [index EXCEPT ![d] = pro.slots[d]]
      /\ linear' = [linear EXCEPT ![d] = {}]
      /\ UNCHANGED <<tree, touched, held>>
  BY <1>2 DEF PromotePublishesInterior, AllDone
<1>4. /\ Len(pro.dirs) \in Nat /\ pro.done \in 1..Len(pro.dirs)
      /\ pro.done + 1 \in 1..Len(pro.dirs) /\ pro.dirs[1] = Top
      /\ LockedOnce(Len(pro.dirs)) /\ kind[Top] = "root"
      /\ \A i \in pro.done + 1..Len(pro.dirs) : Snapshot(pro.dirs[i])
  BY <1>1, <1>3, CallFields DEF CaptureTold
<1>5. /\ r.pc = "interior" /\ r.done = pro.done + 1 /\ r.dirs = pro.dirs
      /\ r.slots = pro.slots /\ r \in PromoteCall
  BY <1>1, <1>3, <1>4 DEF PromotionTypeOK, PromoteCall
<1> HIDE DEF r
<1>6. d \in Folders \ {Top} /\ Top \in Folders /\ Snapshot(d)
  <2>1. d = pro.dirs[pro.done + 1] /\ pro.done + 1 # 1 /\ 1 \in 1..Len(pro.dirs)
    BY <1>2, <1>4 DEF NextDir
  <2>2. pro.done + 1 \in pro.done + 1..Len(pro.dirs)
    BY <1>4
  <2> QED
    BY <1>1, <1>4, <2>1, <2>2, CallFields DEF LockedOnce, Folders
<1>7. /\ linear \in [Folders -> SUBSET Items] /\ index \in [Folders -> SUBSET Items]
      /\ kind \in [Folders -> {"conventional", "root", "interior"}]
      /\ pro.slots \in [Folders -> SUBSET Items]
  BY <1>1, CallFields DEF PromotionTypeOK, Trees
<1>8. /\ linear' \in [Folders -> SUBSET Items] /\ index' \in [Folders -> SUBSET Items]
      /\ kind' \in [Folders -> {"conventional", "root", "interior"}]
      /\ kind'[d] = "interior" /\ index'[d] = linear[d] /\ kind'[Top] = "root"
      /\ \A e \in Folders \ {d} : /\ linear'[e] = linear[e] /\ index'[e] = index[e]
                                  /\ kind'[e] = kind[e]
  BY <1>3, <1>4, <1>6, <1>7 DEF Snapshot
<1>9. PromotionTypeOK'
  BY <1>1, <1>3, <1>5, <1>8 DEF PromotionTypeOK, Trees
<1>10. linear[d] = tree[d]
  BY <1>1, <1>6 DEF Snapshot, Stable, FoundTree, Found
<1>11. FoundTree'
  <2>1. Found(d)' = tree'[d]
    BY <1>3, <1>8, <1>10 DEF Found, Stable
  <2>2. \A e \in Folders \ {d} : Found(e)' = tree'[e]
    BY <1>1, <1>3, <1>4, <1>8 DEF FoundTree, Found, Stable
  <2> QED
    BY <1>8, <2>1, <2>2 DEF FoundTree
<1>12. ASSUME NEW i \in (pro.done + 1) + 1..Len(pro.dirs) PROVE Snapshot(pro.dirs[i])'
  <2>1. /\ i \in 1..Len(pro.dirs) /\ i # pro.done + 1
        /\ i \in pro.done + 1..Len(pro.dirs)
    BY <1>4
  <2>2. pro.dirs[i] \in Folders \ {d} /\ Snapshot(pro.dirs[i])
    BY <1>1, <1>2, <1>4, <2>1, CallFields DEF NextDir, LockedOnce
  <2> QED
    BY <1>3, <1>5, <1>8, <2>2 DEF Snapshot, Stable
<1>13. CaptureTold'
  <2>1. LockedOnce(Len(pro.dirs))'
    BY <1>3, <1>4, <1>5 DEF LockedOnce
  <2>2. pro'.done \in 1..Len(pro'.dirs) /\ Len(pro'.dirs) > 0
    BY <1>3, <1>4, <1>5
  <2> QED
    BY <1>3, <1>4, <1>5, <1>8, <1>12, <2>1, <2>2 DEF CaptureTold
<1> QED
  BY <1>9, <1>11, <1>13 DEF PromotionIInv

LEMMA EndStep == ASSUME PromotionIInv, PromoteEnds PROVE PromotionIInv'
<1>1. /\ pro' = NoPromotion /\ held' = {} /\ touched' = {}
      /\ UNCHANGED <<tree, kind, linear, index>>
  BY DEF PromoteEnds
<1>2. PromotionTypeOK' /\ FoundTree'
  BY <1>1, NoPromotionIs DEF PromotionIInv, PromotionTypeOK, FoundTree, Found, Stable
<1>3. CaptureTold'
  BY <1>1, NoPromotionIs DEF CaptureTold
<1> QED
  BY <1>2, <1>3 DEF PromotionIInv

LEMMA PromotionInitIInv == PromotionInit => PromotionIInv
<1> SUFFICES ASSUME PromotionInit PROVE PromotionIInv
  OBVIOUS
<1>1. PromotionTypeOK
  <2>1. tree \in Trees /\ linear \in Trees /\ index \in Trees
    BY DEF PromotionInit, Trees, Items
  <2> QED
    BY <2>1, NoPromotionIs DEF PromotionInit, PromotionTypeOK
<1>2. FoundTree
  BY DEF PromotionInit, FoundTree, Found, Stable
<1>3. CaptureTold
  BY NoPromotionIs DEF PromotionInit, CaptureTold
<1> QED
  BY <1>1, <1>2, <1>3 DEF PromotionIInv

LEMMA PromotionKept == PromotionIInv /\ [PromotionNext]_proVars => PromotionIInv'
<1> SUFFICES ASSUME PromotionIInv, [PromotionNext]_proVars PROVE PromotionIInv'
  OBVIOUS
<1>1. CASE UNCHANGED proVars
  BY <1>1, TreeMoves DEF PromotionIInv, PromotionTypeOK, FoundTree, Found, Stable, proVars
<1>2. ASSUME NEW d \in Folders, Demoted(d) \/ PromotedAlone(d) PROVE PromotionIInv'
  BY <1>2, DemotedStep, AloneStep
<1>3. ASSUME NEW d \in Folders, NEW f \in Plain, ChangeName(d, f) PROVE PromotionIInv'
  BY <1>3, NameStep
<1>4. ASSUME NEW x \in Sub, NEW a \in Folders, NEW b \in Folders, MoveFolder(x, a, b)
      PROVE  PromotionIInv'
  BY <1>4, MoveFolderStep
<1>5. ASSUME \/ PromoteBegins \/ WalkDemotes \/ WalkReads \/ PromoteBuilds
             \/ PromoteLocks \/ PromoteValidates \/ PromotePublishesRoot
             \/ PromotePublishesInterior \/ PromoteEnds
      PROVE  PromotionIInv'
  BY <1>5, BeginStep, WalkDemotesStep, ReadStep, LockSteps, PublishRootStep,
     PublishInteriorStep, EndStep
<1> QED
  BY <1>1, <1>2, <1>3, <1>4, <1>5 DEF PromotionNext

(* Whatever renames, creations, other promotions and demotions do to the   *)
(* tree while __ext5_promote_subtree captures it with nothing locked, and  *)
(* wherever publication stops, a lookup finds the names a directory has.   *)
THEOREM PromotionFindsTree == PromotionSpec => []PromotedFindsTree
<1>1. PromotionIInv => PromotedFindsTree
  BY DEF PromotionIInv, FoundTree, PromotedFindsTree
<1> QED
  BY <1>1, PromotionInitIInv, PromotionKept, PTL DEF PromotionSpec

-----------------------------------------------------------------------------
(* Demotion.  Where the one under way stands: while it has found and       *)
(* locked directories, they are routed to a stable root, and the walk has  *)
(* with a directory every child that still is.                             *)
Walked == {"built", "rooted", "locked", "valid", "final"}
Owned == {"locked", "valid", "final"}
Checked == {"valid", "final"}
Routes(d) == mode[d] = "stable"

DemStands ==
  /\ dem.pc # "idle" => Routes(Root)
  /\ dem.pc \in {"pinned", "cloned", "built", "rooted", "locked"} => Routes(dem.target)
  /\ dem.pc \in Walked \ Checked => \A d \in dem.walk : Routes(d)
  /\ dem.pc \in Walked =>
       /\ dem.target \in dem.walk
       /\ \A d \in dem.walk : d = dem.target \/ d \in Interior
       /\ \A d \in dem.walk : \A x \in dem.old[d] \cap Interior :
            x \in dem.walk \/ ~Routes(x)
  /\ dem.pc = "rooted" => frozen = {Root}
  /\ dem.pc \in Owned => frozen = {Root} \cup dem.walk
  /\ dem.pc = "final" => /\ dem.target = Root
                         /\ \A d \in dem.walk \ {Root} : ~Routes(d)

(* Every interior is below the root.                                       *)
Connected ==
  \A S \in SUBSET Dirs : Root \in S /\ ClosedUnder(Children(ns), S) => Interior \subseteq S

(* A lookup finds the namespace.                                           *)
SeesNames == \A d \in Dirs : Visible(d) = ns[d]

(* The oldest record of a file's name inserts it where the base has none,  *)
(* so taking it back leaves none.                                          *)
FirstNew(b, log) ==
  \A i \in 1..Len(log) :
    /\ log[i].op = "insert" /\ log[i].name \in File
    /\ \A j \in 1..(i - 1) : ~Binds(log[j], log[i].dir, log[i].name)
    => log[i].name \notin b[log[i].dir]
FirstIsNew == FirstNew(base, delta)

(* A conventional directory has conventional children, except among those  *)
(* that a demotion is converting; these are as they were captured.         *)
Branches ==
  /\ ~Routes(Root) => \A d \in Interior : ~Routes(d)
  /\ \A d \in Dirs :
       ~Routes(d) /\ ~(dem.pc \in Checked /\ d \in dem.walk) =>
         \A x \in ns[d] \cap Interior : ~Routes(x)
AsCaptured == dem.pc \in Checked => \A d \in frozen : ns[d] = dem.old[d]

DemotionIInv ==
  /\ DemotionTypeOK /\ DemStands /\ Connected
  /\ Unharmed => SeesNames /\ FirstIsNew /\ Branches /\ AsCaptured

LEMMA DemTypes ==
  DemotionTypeOK <=>
    /\ ns \in [Dirs -> SUBSET Entries] /\ dirent \in [Dirs -> SUBSET Entries]
    /\ base \in [Dirs -> SUBSET Entries]
    /\ mode \in [Dirs -> {"stable", "conventional"}]
    /\ delta \in Seq(Change) /\ Len(delta) <= MaxDelta
    /\ blobId \in 0..MaxBlob
    /\ {staging, slipped, stranded} \subseteq BOOLEAN
    /\ dem \in DemoteCall /\ frozen \subseteq Dirs
BY DEF DemotionTypeOK, Contents

(* What is reached: x, with a directory its children, and nothing that a   *)
(* set with x closed under the children leaves out.                        *)
LEMMA ReachIs ==
  ASSUME NEW kids, NEW x \in Dirs, \A d \in Dirs : kids[d] \subseteq Dirs
  PROVE  /\ x \in Reach(kids, x) /\ Reach(kids, x) \subseteq Dirs
         /\ ClosedUnder(kids, Reach(kids, x))
         /\ \A S \in SUBSET Dirs : x \in S /\ ClosedUnder(kids, S) => Reach(kids, x) \subseteq S
<1>1. x \in Reach(kids, x) /\ Reach(kids, x) \subseteq Dirs
  BY DEF Reach
<1>2. ASSUME NEW d \in Reach(kids, x), NEW y \in kids[d] PROVE y \in Reach(kids, x)
  <2>1. y \in Dirs
    BY <1>1, <1>2
  <2>2. ASSUME NEW S \in SUBSET Dirs, x \in S, ClosedUnder(kids, S) PROVE y \in S
    <3>1. d \in S
      BY <1>2, <2>2 DEF Reach
    <3> QED
      BY <1>2, <2>2, <3>1 DEF ClosedUnder
  <2> QED
    BY <2>1, <2>2 DEF Reach
<1> QED
  BY <1>1, <1>2 DEF Reach, ClosedUnder

(* base and delta merged, one record at a time.                            *)
LEMMA MergeType ==
  ASSUME NEW b, NEW log PROVE Merge(b, log) \in [Dirs -> SUBSET Entries]
BY DEF Merge

LEMMA MergeNone ==
  ASSUME NEW b \in [Dirs -> SUBSET Entries] PROVE Merge(b, <<>>) = b
<1>1. Len(<<>>) = 0
  OBVIOUS
<1>2. \A d \in Dirs : Merge(b, <<>>)[d] = b[d]
  BY <1>1 DEF Merge
<1> QED
  BY <1>2, MergeType

LEMMA MergeOne ==
  ASSUME NEW b, NEW log \in Seq(Change), NEW r \in Change
  PROVE  \A d \in Dirs, e \in Entries :
           e \in Merge(b, Append(log, r))[d] <=>
             IF Binds(r, d, e) THEN r.op = "insert" ELSE e \in Merge(b, log)[d]
<1> DEFINE new == Append(log, r)
           n == Len(log)
<1>1. /\ n \in Nat /\ Len(new) = n + 1 /\ new[n + 1] = r
      /\ \A i \in 1..n : new[i] = log[i]
  OBVIOUS
<1>2. 1..n + 1 = (1..n) \cup {n + 1} /\ n + 1 \notin 1..n
  BY <1>1
<1> HIDE DEF new, n
<1> SUFFICES ASSUME NEW d \in Dirs, NEW e \in Entries
             PROVE  e \in Merge(b, new)[d] <=>
                      IF Binds(r, d, e) THEN r.op = "insert" ELSE e \in Merge(b, log)[d]
  BY DEF new
<1>3. e \in Merge(b, new)[d] <=>
        \/ e \in b[d] /\ \A i \in 1..n + 1 : ~Binds(new[i], d, e)
        \/ \E i \in 1..n + 1 : /\ Binds(new[i], d, e) /\ new[i].op = "insert"
                               /\ \A j \in i + 1..n + 1 : ~Binds(new[j], d, e)
  BY <1>1 DEF Merge
<1>4. e \in Merge(b, log)[d] <=>
        \/ e \in b[d] /\ \A i \in 1..n : ~Binds(log[i], d, e)
        \/ \E i \in 1..n : /\ Binds(log[i], d, e) /\ log[i].op = "insert"
                           /\ \A j \in i + 1..n : ~Binds(log[j], d, e)
  BY DEF Merge, n
<1>5. CASE Binds(r, d, e)
  <2>1. \A i \in 1..n : n + 1 \in i + 1..n + 1
    BY <1>1
  <2>2. (n + 1) + 1..n + 1 = {}
    BY <1>1
  <2> QED
    BY <1>1, <1>2, <1>3, <1>5, <2>1, <2>2
<1>6. CASE ~Binds(r, d, e)
  <2>1. (\A i \in 1..n + 1 : ~Binds(new[i], d, e)) <=> (\A i \in 1..n : ~Binds(log[i], d, e))
    BY <1>1, <1>2, <1>6
  <2>2. \A i \in 1..n : /\ i + 1..n + 1 = (i + 1..n) \cup {n + 1}
                        /\ i + 1..n \subseteq 1..n
    BY <1>1
  <2>3. ASSUME NEW i \in 1..n
        PROVE  (\A j \in i + 1..n + 1 : ~Binds(new[j], d, e)) <=>
               (\A j \in i + 1..n : ~Binds(log[j], d, e))
    BY <1>1, <1>6, <2>2
  <2> QED
    BY <1>1, <1>2, <1>3, <1>4, <1>6, <2>1, <2>3
<1> QED
  BY <1>5, <1>6

(* A record taken back.                                                    *)
LEMMA MergeRewound ==
  ASSUME NEW b, NEW log \in Seq(Change), log # <<>>
  PROVE  LET old == SubSeq(log, 1, Len(log) - 1)
         IN  /\ old \in Seq(Change) /\ Len(old) = Len(log) - 1
             /\ \A i \in 1..Len(old) : old[i] = log[i]
             /\ log = Append(old, log[Len(log)]) /\ log[Len(log)] \in Change
<1>1. Len(log) \in Nat /\ Len(log) # 0
  OBVIOUS
<1>2. Len(log) - 1 \in Nat /\ Len(log) \in 1..Len(log)
  BY <1>1
<1> DEFINE old == SubSeq(log, 1, Len(log) - 1)
<1>3. old \in Seq(Change) /\ Len(old) = Len(log) - 1 /\ \A i \in 1..Len(old) : old[i] = log[i]
  <2>1. \A i \in 1..Len(log) - 1 : log[i] \in Change
    BY <1>1, <1>2
  <2>2. /\ old \in Seq(Change)
        /\ Len(old) = (IF 1 <= Len(log) - 1 THEN Len(log) - 1 - 1 + 1 ELSE 0)
        /\ \A i \in 1..Len(log) - 1 - 1 + 1 : old[i] = log[1 + i - 1]
    BY <1>2, <2>1, SubSeqProperties
  <2> HIDE DEF old
  <2>3. Len(old) = Len(log) - 1
    <3>1. ASSUME NEW n \in Nat, n # 0
          PROVE  (IF 1 <= n - 1 THEN n - 1 - 1 + 1 ELSE 0) = n - 1
      BY <3>1
    <3> QED
      BY <1>1, <2>2, <3>1
  <2> QED
    BY <1>1, <1>2, <2>2, <2>3
<1>4. log[Len(log)] \in Change
  BY <1>2
<1>5. log = Append(old, log[Len(log)])
  BY <1>1, <1>2, <1>3, <1>4
<1> QED
  BY <1>3, <1>4, <1>5

LEMMA FirstOne ==
  ASSUME NEW b, NEW log \in Seq(Change), NEW r \in Change, FirstNew(b, log),
         /\ r.op = "insert" /\ r.name \in File
         /\ \A j \in 1..Len(log) : ~Binds(log[j], r.dir, r.name)
         => r.name \notin b[r.dir]
  PROVE  FirstNew(b, Append(log, r))
<1> DEFINE new == Append(log, r)
           n == Len(log)
<1>1. /\ n \in Nat /\ Len(new) = n + 1 /\ new[n + 1] = r
      /\ \A i \in 1..n : new[i] = log[i]
  OBVIOUS
<1> HIDE DEF new
<1>2. ASSUME NEW i \in 1..n + 1, new[i].op = "insert", new[i].name \in File,
             \A j \in 1..i - 1 : ~Binds(new[j], new[i].dir, new[i].name)
      PROVE  new[i].name \notin b[new[i].dir]
  <2>1. CASE i = n + 1
    <3>1. (n + 1) - 1 = n
      BY <1>1
    <3> QED
      BY <1>1, <1>2, <2>1, <3>1
  <2>2. CASE i # n + 1
    <3>1. i \in 1..n /\ \A j \in 1..i - 1 : j \in 1..n
      BY <1>1, <2>2
    <3> QED
      BY <1>1, <1>2, <3>1 DEF FirstNew
  <2> QED
    BY <2>1, <2>2
<1> QED
  BY <1>1, <1>2 DEF FirstNew, new

(* Names change in directories that nobody has locked, and in conventional *)
(* ones no directory's does.                                               *)
LEMMA NamesMove ==
  ASSUME DemotionIInv, UnchangedByNames, DemotionTypeOK', Connected',
         Unharmed => SeesNames' /\ FirstIsNew',
         \A d \in frozen : ns'[d] = ns[d],
         \A d \in Dirs : ~Routes(d) => ns'[d] \cap Interior = ns[d] \cap Interior
  PROVE  DemotionIInv'
<1>1. /\ UNCHANGED <<mode, base, blobId, staging, dem, frozen, stranded, slipped>>
      /\ Interior \subseteq Dirs
  BY DEF UnchangedByNames, Dirs
<1>2. DemStands'
  BY <1>1 DEF DemotionIInv, DemStands, Routes
<1>3. Unharmed' => Unharmed
  BY <1>1 DEF Unharmed
<1>4. ASSUME Unharmed' PROVE Branches' /\ AsCaptured'
  <2>1. Branches /\ AsCaptured
    BY <1>3, <1>4 DEF DemotionIInv
  <2>2. Branches'
    BY <1>1, <2>1 DEF Branches, Routes
  <2>3. AsCaptured'
    BY <1>1, <2>1 DEF AsCaptured
  <2> QED
    BY <2>2, <2>3
<1> QED
  BY <1>2, <1>3, <1>4 DEF DemotionIInv

LEMMA ChildrenKept ==
  ASSUME DemotionIInv, \A d \in Dirs : ns'[d] \cap Interior = ns[d] \cap Interior
  PROVE  Connected'
<1>1. Children(ns') = Children(ns)
  BY DEF Children
<1> QED
  BY <1>1 DEF DemotionIInv, Connected

(* A file's name comes to or leaves a directory.                           *)
LEMMA FileNameMoves ==
  ASSUME DemotionIInv, UnchangedByNames, NEW d \in Dirs, NEW f \in File,
         d \notin frozen,
         ns' \in [Dirs -> SUBSET Entries], dirent' \in [Dirs -> SUBSET Entries],
         delta' \in Seq(Change), Len(delta') <= MaxDelta,
         \A e \in Dirs \ {d} : ns'[e] = ns[e],
         ns'[d] \ {f} = ns[d] \ {f},
         Unharmed => SeesNames' /\ FirstIsNew'
  PROVE  DemotionIInv'
<1>1. DemotionTypeOK'
  BY DemTypes DEF DemotionIInv, UnchangedByNames, DemotionTypeOK, Contents
<1>2. ASSUME NEW e \in Dirs PROVE ns'[e] \cap Interior = ns[e] \cap Interior
  BY DemotionAssumption
<1>3. Connected'
  BY <1>2, ChildrenKept
<1>4. \A e \in frozen : ns'[e] = ns[e]
  <2>1. frozen \subseteq Dirs
    BY DemTypes DEF DemotionIInv
  <2> QED
    BY <2>1
<1> QED
  BY <1>1, <1>2, <1>3, <1>4, NamesMove

LEMMA AddNameStep ==
  ASSUME DemotionIInv, NEW d \in Dirs, NEW f \in File, AddName(d, f)
  PROVE  DemotionIInv'
<1>1. /\ ns \in [Dirs -> SUBSET Entries] /\ dirent \in [Dirs -> SUBSET Entries]
      /\ base \in [Dirs -> SUBSET Entries] /\ delta \in Seq(Change)
      /\ mode \in [Dirs -> {"stable", "conventional"}]
      /\ Len(delta) \in Nat /\ Len(delta) <= MaxDelta /\ f \in Entries /\ MaxDelta \in Nat
  BY DemTypes, DemotionAssumption DEF DemotionIInv, Entries
<1>2. /\ d \notin frozen /\ f \notin ns[d] /\ ns' = [ns EXCEPT ![d] = @ \cup {f}]
      /\ UnchangedByNames /\ mode' = mode /\ base' = base
  BY DEF AddName, UnchangedByNames
<1>3. /\ ns' \in [Dirs -> SUBSET Entries] /\ ns'[d] = ns[d] \cup {f}
      /\ \A e \in Dirs \ {d} : ns'[e] = ns[e]
  BY <1>1, <1>2
<1>4. CASE mode[d] = "stable"
  <2> DEFINE r == Record("insert", d, f)
  <2>1. /\ Len(delta) < MaxDelta /\ delta' = Append(delta, r) /\ dirent' = dirent
    BY <1>4 DEF AddName
  <2>2. r \in Change /\ r.op = "insert" /\ r.dir = d /\ r.name = f
    BY <1>1 DEF Record, Change
  <2> HIDE DEF r
  <2>3. delta' \in Seq(Change) /\ Len(delta') <= MaxDelta
    BY <1>1, <2>1, <2>2
  <2>4. \A x \in Dirs, e \in Entries :
          e \in Merged'[x] <=> (x = d /\ e = f) \/ e \in Merged[x]
    BY <1>1, <1>2, <2>1, <2>2, MergeOne DEF Merged, Binds
  <2>5. ASSUME Unharmed PROVE SeesNames' /\ FirstIsNew'
    <3>1. SeesNames /\ FirstIsNew
      BY <2>5 DEF DemotionIInv
    <3>2. ASSUME NEW x \in Dirs PROVE Visible(x)' = ns'[x]
      <4>1. CASE mode[x] = "stable"
        <5>1. Merged[x] = ns[x] /\ Visible(x)' = Merged'[x]
          BY <1>2, <3>1, <4>1 DEF SeesNames, Visible
        <5>2. Merged'[x] \subseteq Entries /\ ns'[x] \subseteq Entries
          BY <1>3, MergeType DEF Merged
        <5>3. \A e \in Entries : e \in Merged'[x] <=> e \in ns'[x]
          BY <1>3, <2>4, <5>1
        <5> QED
          BY <5>1, <5>2, <5>3
      <4>2. CASE mode[x] # "stable"
        BY <1>2, <1>3, <1>4, <2>1, <3>1, <4>2 DEF SeesNames, Visible
      <4> QED
        BY <4>1, <4>2
    <3>3. ASSUME \A j \in 1..Len(delta) : ~Binds(delta[j], d, f) PROVE f \notin base[d]
      <4>1. Merged[d] = ns[d]
        BY <1>4, <3>1 DEF SeesNames, Visible
      <4> QED
        BY <1>1, <1>2, <3>3, <4>1 DEF Merged, Merge
    <3>4. FirstIsNew'
      BY <1>1, <1>2, <2>1, <2>2, <3>1, <3>3, FirstOne DEF FirstIsNew
    <3> QED
      BY <3>2, <3>4 DEF SeesNames
  <2> QED
    BY <1>1, <1>2, <1>3, <2>1, <2>3, <2>5, FileNameMoves
<1>5. CASE mode[d] # "stable"
  <2>1. dirent' = [dirent EXCEPT ![d] = @ \cup {f}] /\ delta' = delta
    BY <1>5 DEF AddName
  <2>2. /\ dirent' \in [Dirs -> SUBSET Entries] /\ dirent'[d] = dirent[d] \cup {f}
        /\ \A e \in Dirs \ {d} : dirent'[e] = dirent[e]
    BY <1>1, <2>1
  <2>3. ASSUME Unharmed PROVE SeesNames' /\ FirstIsNew'
    <3>1. SeesNames /\ FirstIsNew
      BY <2>3 DEF DemotionIInv
    <3>2. Merged' = Merged
      BY <1>2, <2>1 DEF Merged
    <3> QED
      BY <1>2, <1>3, <1>5, <2>1, <2>2, <3>1, <3>2 DEF SeesNames, FirstIsNew, Visible
  <2> QED
    BY <1>1, <1>2, <1>3, <2>1, <2>2, <2>3, FileNameMoves
<1> QED
  BY <1>4, <1>5

(* A record taken back, a tombstone, or an entry removed.                  *)
LEMMA DropNameStep ==
  ASSUME DemotionIInv, NEW d \in Dirs, NEW f \in File, DropName(d, f)
  PROVE  DemotionIInv'
<1>1. /\ ns \in [Dirs -> SUBSET Entries] /\ dirent \in [Dirs -> SUBSET Entries]
      /\ base \in [Dirs -> SUBSET Entries] /\ delta \in Seq(Change)
      /\ mode \in [Dirs -> {"stable", "conventional"}]
      /\ Len(delta) \in Nat /\ Len(delta) <= MaxDelta /\ f \in Entries /\ MaxDelta \in Nat
  BY DemTypes, DemotionAssumption DEF DemotionIInv, Entries
<1>2. /\ d \notin frozen /\ f \in ns[d] /\ ns' = [ns EXCEPT ![d] = @ \ {f}]
      /\ UnchangedByNames /\ mode' = mode /\ base' = base
  BY DEF DropName, UnchangedByNames
<1>3. /\ ns' \in [Dirs -> SUBSET Entries] /\ ns'[d] = ns[d] \ {f}
      /\ \A e \in Dirs \ {d} : ns'[e] = ns[e]
  BY <1>1, <1>2
<1>4. ASSUME mode[d] = "stable", dirent' = dirent,
             delta' \in Seq(Change), Len(delta') <= MaxDelta,
             Unharmed => FirstIsNew',
             Unharmed => \A x \in Dirs, e \in Entries :
                           e \in Merged'[x] <=> ~(x = d /\ e = f) /\ e \in Merged[x]
      PROVE  DemotionIInv'
  <2>1. ASSUME Unharmed PROVE SeesNames'
    <3>1. SeesNames
      BY <2>1 DEF DemotionIInv
    <3>2. ASSUME NEW x \in Dirs PROVE Visible(x)' = ns'[x]
      <4>1. CASE mode[x] = "stable"
        <5>1. Merged[x] = ns[x] /\ Visible(x)' = Merged'[x]
          BY <1>2, <3>1, <4>1 DEF SeesNames, Visible
        <5>2. Merged'[x] \subseteq Entries /\ ns'[x] \subseteq Entries
          BY <1>3, MergeType DEF Merged
        <5>3. \A e \in Entries : e \in Merged'[x] <=> e \in ns'[x]
          BY <1>3, <1>4, <2>1, <5>1
        <5> QED
          BY <5>1, <5>2, <5>3
      <4>2. CASE mode[x] # "stable"
        BY <1>2, <1>3, <1>4, <3>1, <4>2 DEF SeesNames, Visible
      <4> QED
        BY <4>1, <4>2
    <3> QED
      BY <3>2 DEF SeesNames
  <2>2. dirent' \in [Dirs -> SUBSET Entries] /\ ns'[d] \ {f} = ns[d] \ {f}
    BY <1>1, <1>3, <1>4
  <2> QED
    BY <1>2, <1>3, <1>4, <2>1, <2>2, FileNameMoves
<1>5. CASE mode[d] = "stable" /\ Cancels(d, f)
  <2> DEFINE n == Len(delta)
             old == SubSeq(delta, 1, n - 1)
             r == Record("insert", d, f)
  <2>1. delta' = old /\ dirent' = dirent
    BY <1>5 DEF DropName, Unlog
  <2>2. /\ delta # <<>> /\ delta[n] = r /\ \A i \in 1..n - 1 : ~Binds(delta[i], d, f)
    BY <1>5 DEF Cancels
  <2>3. /\ old \in Seq(Change) /\ Len(old) = n - 1 /\ \A i \in 1..Len(old) : old[i] = delta[i]
        /\ delta = Append(old, r) /\ r \in Change /\ n \in 1..n
    BY <1>1, <2>2, MergeRewound
  <2>4. r.op = "insert" /\ r.dir = d /\ r.name = f
    BY DEF Record
  <2> HIDE DEF n, old, r
  <2>5. \A x \in Dirs, e \in Entries :
          e \in Merge(base, delta)[x] <=> (x = d /\ e = f) \/ e \in Merge(base, old)[x]
    BY <2>3, <2>4, MergeOne DEF Binds
  <2>6. Len(delta') <= MaxDelta
    BY <1>1, <2>1, <2>3 DEF n
  <2>7. ASSUME Unharmed PROVE f \notin Merge(base, old)[d]
    <3>1. FirstNew(base, delta)
      BY <2>7 DEF DemotionIInv, FirstIsNew
    <3>2. f \notin base[d]
      BY <2>2, <2>3, <2>4, <3>1 DEF FirstNew, n
    <3>3. \A i \in 1..Len(old) : ~Binds(old[i], d, f)
      BY <2>2, <2>3
    <3> QED
      BY <3>2, <3>3 DEF Merge
  <2>8. ASSUME Unharmed, NEW x \in Dirs, NEW e \in Entries
        PROVE  e \in Merged'[x] <=> ~(x = d /\ e = f) /\ e \in Merged[x]
    BY <1>2, <2>1, <2>5, <2>7, <2>8 DEF Merged
  <2>9. ASSUME Unharmed PROVE FirstIsNew'
    <3>1. FirstNew(base, delta)
      BY <2>9 DEF DemotionIInv, FirstIsNew
    <3>2. \A i \in 1..Len(old) : i \in 1..Len(delta) /\ \A j \in 1..i - 1 : j \in 1..Len(old)
      BY <1>1, <2>3 DEF n
    <3>3. FirstNew(base, old)
      BY <2>3, <3>1, <3>2 DEF FirstNew
    <3> QED
      BY <1>2, <2>1, <3>3 DEF FirstIsNew
  <2> QED
    BY <1>4, <1>5, <2>1, <2>3, <2>6, <2>8, <2>9
<1>6. CASE mode[d] = "stable" /\ ~Cancels(d, f)
  <2> DEFINE r == Record("delete", d, f)
  <2>1. delta' = Append(delta, r) /\ dirent' = dirent /\ Len(delta') <= MaxDelta
    BY <1>6 DEF DropName, Unlog
  <2>2. r \in Change /\ r.op = "delete" /\ r.dir = d /\ r.name = f
    BY <1>1 DEF Record, Change
  <2> HIDE DEF r
  <2>3. delta' \in Seq(Change)
    BY <1>1, <2>1, <2>2
  <2>4. \A x \in Dirs, e \in Entries :
          e \in Merged'[x] <=> ~(x = d /\ e = f) /\ e \in Merged[x]
    <3>1. \A x \in Dirs, e \in Entries :
            e \in Merge(base, Append(delta, r))[x] <=>
              IF Binds(r, x, e) THEN r.op = "insert" ELSE e \in Merge(base, delta)[x]
      BY <1>1, <2>2, MergeOne
    <3>2. r.op # "insert"
      BY <2>2
    <3>3. \A x, e : Binds(r, x, e) <=> x = d /\ e = f
      BY <2>2 DEF Binds
    <3> QED
      BY <1>2, <2>1, <3>1, <3>2, <3>3 DEF Merged
  <2>5. ASSUME Unharmed PROVE FirstIsNew'
    <3>1. FirstNew(base, delta)
      BY <2>5 DEF DemotionIInv, FirstIsNew
    <3> QED
      BY <1>1, <1>2, <2>1, <2>2, <3>1, FirstOne DEF FirstIsNew
  <2> QED
    BY <1>4, <1>6, <2>1, <2>3, <2>4, <2>5
<1>7. CASE mode[d] # "stable"
  <2>1. dirent' = [dirent EXCEPT ![d] = @ \ {f}] /\ delta' = delta
    BY <1>7 DEF DropName
  <2>2. /\ dirent' \in [Dirs -> SUBSET Entries] /\ dirent'[d] = dirent[d] \ {f}
        /\ \A e \in Dirs \ {d} : dirent'[e] = dirent[e]
    BY <1>1, <2>1
  <2>3. ASSUME Unharmed PROVE SeesNames' /\ FirstIsNew'
    <3>1. SeesNames /\ FirstIsNew
      BY <2>3 DEF DemotionIInv
    <3>2. Merged' = Merged
      BY <1>2, <2>1 DEF Merged
    <3> QED
      BY <1>2, <1>3, <1>7, <2>1, <2>2, <3>1, <3>2 DEF SeesNames, FirstIsNew, Visible
  <2>4. ns'[d] \ {f} = ns[d] \ {f}
    BY <1>3
  <2> QED
    BY <1>1, <1>2, <1>3, <2>1, <2>2, <2>3, <2>4, FileNameMoves
<1> QED
  BY <1>5, <1>6, <1>7

(* A directory moves inside the root: every interior is still below it.    *)
LEMMA MoveConnects ==
  ASSUME NEW x \in Interior, NEW a \in Dirs, NEW b \in Dirs, a # b,
         ns \in [Dirs -> SUBSET Entries], x \in ns[a], b \notin Below(ns, x), Connected,
         ns'[b] = ns[b] \cup {x},
         \A d \in Dirs : ns[d] \ {x} \subseteq ns'[d]
  PROVE  Connected'
<1> DEFINE kids == Children(ns)
           B == Below(ns, x)
<1>1. \A d \in Dirs : kids[d] = ns[d] \cap Interior /\ Children(ns')[d] = ns'[d] \cap Interior
  BY DEF Children
<1>2. /\ x \in B /\ B \subseteq Dirs /\ ClosedUnder(kids, B)
  <2>1. x \in Dirs /\ \A d \in Dirs : kids[d] \subseteq Dirs
    BY <1>1 DEF Dirs
  <2> HIDE DEF kids
  <2> QED
    BY <2>1, ReachIs DEF Below, kids
<1> HIDE DEF kids, B
<1>3. ASSUME NEW S \in SUBSET Dirs, Root \in S, ClosedUnder(Children(ns'), S)
      PROVE  Interior \subseteq S
  <2>1. \A d \in S : kids[d] \subseteq S \cup {x}
    BY <1>1, <1>3 DEF ClosedUnder
  <2>2. ClosedUnder(kids, S \cup B)
    BY <1>2, <2>1 DEF ClosedUnder
  <2>3. Interior \subseteq S \cup B
    BY <1>2, <1>3, <2>2 DEF Connected, kids
  <2>4. b \in S
    BY <1>3, <2>3 DEF Dirs, B
  <2>5. x \in S
    BY <1>1, <1>3, <2>4 DEF ClosedUnder
  <2>6. ClosedUnder(kids, S)
    BY <2>1, <2>5 DEF ClosedUnder
  <2> QED
    BY <1>3, <2>6 DEF Connected, kids
<1> QED
  BY <1>3 DEF Connected

LEMMA MoveDirStep ==
  ASSUME DemotionIInv, NEW x \in Interior, NEW a \in Dirs, NEW b \in Dirs, MoveDir(x, a, b)
  PROVE  DemotionIInv'
<1>1. /\ ns \in [Dirs -> SUBSET Entries] /\ delta \in Seq(Change)
      /\ mode \in [Dirs -> {"stable", "conventional"}] /\ frozen \subseteq Dirs
      /\ Len(delta) \in Nat /\ x \in Entries /\ x \notin File /\ MaxDelta \in Nat
  BY DemTypes, DemotionAssumption DEF DemotionIInv, Entries
<1> DEFINE r == Record("insert", b, x)
           s == Record("delete", a, x)
           mid == Append(delta, r)
<1>2. /\ a # b /\ a \notin frozen /\ b \notin frozen
      /\ mode[a] = "stable" /\ mode[b] = "stable" /\ x \in ns[a] /\ b \notin Below(ns, x)
      /\ Len(delta) + 2 <= MaxDelta
      /\ ns' = [ns EXCEPT ![a] = @ \ {x}, ![b] = @ \cup {x}]
      /\ delta' = delta \o <<r, s>> /\ dirent' = dirent
      /\ UnchangedByNames /\ mode' = mode /\ base' = base
  BY DEF MoveDir, UnchangedByNames
<1>3. /\ r \in Change /\ r.dir = b /\ r.name = x /\ r.op = "insert"
      /\ s \in Change /\ s.dir = a /\ s.name = x /\ s.op = "delete"
  BY <1>1 DEF Record, Change
<1> HIDE DEF r, s
<1>4. /\ mid \in Seq(Change) /\ delta' = Append(mid, s)
      /\ delta' \in Seq(Change) /\ Len(delta') = Len(delta) + 2
  BY <1>1, <1>2, <1>3
<1> HIDE DEF mid
<1>5. /\ ns' \in [Dirs -> SUBSET Entries]
      /\ ns'[a] = ns[a] \ {x} /\ ns'[b] = ns[b] \cup {x}
      /\ \A d \in Dirs \ {a, b} : ns'[d] = ns[d]
  BY <1>1, <1>2
<1>6. DemotionTypeOK'
  <2>1. Len(delta') <= MaxDelta
    BY <1>1, <1>2, <1>4
  <2> QED
    BY <1>2, <1>4, <1>5, <2>1 DEF DemotionIInv, UnchangedByNames, DemotionTypeOK, Contents
<1>7. Connected'
  <2>1. \A d \in Dirs : ns[d] \ {x} \subseteq ns'[d]
    BY <1>5
  <2> QED
    BY <1>1, <1>2, <1>5, <2>1, MoveConnects DEF DemotionIInv
<1>8. \A d \in Dirs, e \in Entries :
        e \in Merged'[d] <=> IF e = x /\ d \in {a, b} THEN d = b ELSE e \in Merged[d]
  <2>1. \A d \in Dirs, e \in Entries :
          e \in Merge(base, mid)[d] <=>
            IF Binds(r, d, e) THEN r.op = "insert" ELSE e \in Merge(base, delta)[d]
    BY <1>1, <1>3, MergeOne DEF mid
  <2>2. \A d \in Dirs, e \in Entries :
          e \in Merge(base, Append(mid, s))[d] <=>
            IF Binds(s, d, e) THEN s.op = "insert" ELSE e \in Merge(base, mid)[d]
    BY <1>3, <1>4, MergeOne
  <2>3. \A d, e : /\ Binds(r, d, e) <=> d = b /\ e = x
                  /\ Binds(s, d, e) <=> d = a /\ e = x
    BY <1>3 DEF Binds
  <2>4. s.op # "insert" /\ r.op = "insert" /\ Merged' = Merge(base, Append(mid, s))
    BY <1>2, <1>3, <1>4 DEF Merged
  <2> QED
    BY <1>2, <2>1, <2>2, <2>3, <2>4 DEF Merged
<1>9. ASSUME Unharmed PROVE SeesNames' /\ FirstIsNew'
  <2>1. SeesNames /\ FirstNew(base, delta)
    BY <1>9 DEF DemotionIInv, FirstIsNew
  <2>2. FirstIsNew'
    <3>1. FirstNew(base, mid)
      BY <1>1, <1>3, <2>1, FirstOne DEF mid
    <3>2. FirstNew(base, Append(mid, s))
      BY <1>1, <1>3, <1>4, <3>1, FirstOne
    <3> QED
      BY <1>2, <1>4, <3>2 DEF FirstIsNew
  <2>3. ASSUME NEW d \in Dirs PROVE Visible(d)' = ns'[d]
    <3>1. CASE mode[d] = "stable"
      <4>1. Merged[d] = ns[d] /\ Visible(d)' = Merged'[d]
        BY <1>2, <2>1, <3>1 DEF SeesNames, Visible
      <4>2. Merged'[d] \subseteq Entries /\ ns'[d] \subseteq Entries
        BY <1>5, MergeType DEF Merged
      <4>3. \A e \in Entries : e \in Merged'[d] <=> e \in ns'[d]
        BY <1>2, <1>5, <1>8, <4>1
      <4> QED
        BY <4>1, <4>2, <4>3
    <3>2. CASE mode[d] # "stable"
      BY <1>2, <1>5, <2>1, <3>2 DEF SeesNames, Visible
    <3> QED
      BY <3>1, <3>2
  <2> QED
    BY <2>2, <2>3 DEF SeesNames
<1>10. \A d \in frozen : ns'[d] = ns[d]
  BY <1>1, <1>2, <1>5
<1>11. \A d \in Dirs : ~Routes(d) => ns'[d] \cap Interior = ns[d] \cap Interior
  BY <1>2, <1>5 DEF Routes
<1> QED
  BY <1>2, <1>6, <1>7, <1>9, <1>10, <1>11, NamesMove

(* Another blob, a compaction: the same names.                             *)
LEMMA CompactSteps ==
  ASSUME DemotionIInv, Reparse \/ CompactStages \/ CompactSwaps \/ CompactGivesUp
  PROVE  DemotionIInv'
<1>1. /\ UNCHANGED <<ns, mode, dirent, dem, frozen, stranded, slipped>>
      /\ blobId \in 0..MaxBlob /\ base \in [Dirs -> SUBSET Entries] /\ MaxBlob \in Nat
      /\ staging \in BOOLEAN
  BY DemTypes, DemotionAssumption
     DEF DemotionIInv, Reparse, CompactStages, CompactSwaps, CompactGivesUp
<1>2. /\ blobId' \in 0..MaxBlob
      /\ staging' \in BOOLEAN
  <2>1. blobId' = blobId \/ (blobId < MaxBlob /\ blobId' = blobId + 1)
    BY DEF Reparse, CompactStages, CompactSwaps, CompactGivesUp
  <2>2. staging' \in BOOLEAN
    BY <1>1 DEF Reparse, CompactStages, CompactSwaps, CompactGivesUp
  <2> QED
    BY <1>1, <2>1, <2>2
<1>3. /\ base' \in [Dirs -> SUBSET Entries]
      /\ Merged' = Merged
      /\ \/ base' = base /\ delta' = delta
         \/ delta' = <<>>
  <2>1. CASE CompactSwaps
    <3>1. base' = Merged /\ delta' = <<>>
      BY <2>1 DEF CompactSwaps
    <3>2. Merged \in [Dirs -> SUBSET Entries]
      BY MergeType DEF Merged
    <3>3. Merged' = Merge(Merged, <<>>)
      BY <3>1 DEF Merged
    <3> QED
      BY <3>1, <3>2, <3>3, MergeNone
  <2>2. CASE base' = base /\ delta' = delta
    BY <1>1, <2>2 DEF Merged
  <2> QED
    BY <2>1, <2>2 DEF Reparse, CompactStages, CompactGivesUp
<1>4. DemotionTypeOK'
  <2>1. delta' \in Seq(Change) /\ Len(delta') <= MaxDelta
    <3>1. Len(<<>>) = 0 /\ <<>> \in Seq(Change) /\ 0 <= MaxDelta
      BY DemotionAssumption
    <3> QED
      BY <1>3, <3>1, DemTypes DEF DemotionIInv
  <2> QED
    BY <1>1, <1>2, <1>3, <2>1 DEF DemotionIInv, DemotionTypeOK, Contents
<1>5. FirstIsNew => FirstIsNew'
  <2>1. FirstNew(base', <<>>)
    BY DEF FirstNew
  <2> QED
    BY <1>3, <2>1 DEF FirstIsNew
<1>6. DemStands' /\ Connected'
  BY <1>1 DEF DemotionIInv, DemStands, Connected, Routes
<1>7. SeesNames => SeesNames'
  BY <1>1, <1>3 DEF SeesNames, Visible
<1>8. (Branches => Branches') /\ (AsCaptured => AsCaptured')
  BY <1>1 DEF Branches, AsCaptured, Routes
<1>9. Unharmed' => Unharmed
  BY <1>1 DEF Unharmed
<1> QED
  BY <1>4, <1>5, <1>6, <1>7, <1>8, <1>9 DEF DemotionIInv

LEMMA NoDemotionIs ==
  NoDemotion \in DemoteCall /\ NoDemotion.pc = "idle"
BY DEF NoDemotion, DemoteCall, Contents, Dirs

LEMMA DemPcs ==
  ASSUME DemotionTypeOK,
         NEW pc \in {"idle", "pinned", "cloned", "built", "rooted", "locked", "valid", "final"}
  PROVE  LET r == [dem EXCEPT !.pc = pc]
         IN  /\ r \in DemoteCall /\ r.pc = pc /\ r.target = dem.target
             /\ r.blob = dem.blob /\ r.seq = dem.seq /\ r.old = dem.old /\ r.walk = dem.walk
BY DEF DemotionTypeOK, DemoteCall

LEMMA DemFields ==
  ASSUME DemotionTypeOK
  PROVE  /\ dem \in DemoteCall /\ dem.target \in Dirs /\ dem.walk \subseteq Dirs
         /\ dem.old \in [Dirs -> SUBSET Entries]
BY DEF DemotionTypeOK, DemoteCall, Contents

(* A step of the demotion that publishes nothing.                          *)
LEMMA DemMoves ==
  ASSUME DemotionIInv, UNCHANGED <<ns, base, delta, blobId, staging, mode, dirent>>,
         dem' \in DemoteCall, frozen' \subseteq Dirs,
         slipped' \in BOOLEAN, slipped => slipped',
         stranded' \in BOOLEAN, stranded => stranded',
         DemStands', Unharmed' => AsCaptured',
         \/ dem.pc \notin Checked
         \/ dem'.pc \in Checked /\ dem'.walk = dem.walk
         \/ Unharmed' => \A d \in dem.walk : ~Routes(d) =>
                           \A x \in ns[d] \cap Interior : ~Routes(x)
  PROVE  DemotionIInv'
<1>1. DemotionTypeOK'
  <2>1. {staging', slipped', stranded'} \subseteq BOOLEAN
    BY DEF DemotionIInv, DemotionTypeOK
  <2> QED
    BY <2>1 DEF DemotionIInv, DemotionTypeOK
<1>2. Unharmed' => Unharmed
  BY DEF Unharmed
<1>3. ASSUME Unharmed' PROVE SeesNames' /\ FirstIsNew' /\ Branches'
  <2>1. SeesNames /\ FirstIsNew /\ Branches
    BY <1>2, <1>3 DEF DemotionIInv
  <2>2. SeesNames' /\ FirstIsNew'
    BY <2>1 DEF SeesNames, FirstIsNew, Visible, Merged
  <2>3. ASSUME NEW d \in Dirs, ~Routes(d), ~(dem'.pc \in Checked /\ d \in dem'.walk)
        PROVE  \A x \in ns[d] \cap Interior : ~Routes(x)
    BY <1>3, <2>1, <2>3 DEF Branches
  <2>4. \A x : Routes(x)' <=> Routes(x)
    BY DEF Routes
  <2>5. Branches'
    BY <2>1, <2>3, <2>4 DEF Branches
  <2> QED
    BY <2>2, <2>5
<1>4. Connected'
  BY DEF DemotionIInv, Connected
<1> QED
  BY <1>1, <1>3, <1>4 DEF DemotionIInv

LEMMA PinStep == ASSUME DemotionIInv, NEW x \in Dirs, DemotePins(x) PROVE DemotionIInv'
<1> DEFINE r == [NoDemotion EXCEPT !.pc = "pinned", !.target = x, !.blob = blobId]
<1>1. /\ dem.pc = "idle" /\ dem' = r /\ mode[Root] = "stable" /\ mode[x] = "stable"
      /\ UNCHANGED <<ns, base, delta, blobId, staging, stranded, mode, dirent, frozen, slipped>>
  BY DEF DemotePins, Rest
<1>2. blobId \in Nat /\ frozen \subseteq Dirs /\ slipped \in BOOLEAN /\ stranded \in BOOLEAN
  <2>1. blobId \in 0..MaxBlob
    BY DEF DemotionIInv, DemotionTypeOK
  <2> QED
    BY <2>1, DemotionAssumption DEF DemotionIInv, DemotionTypeOK
<1>3. r \in DemoteCall /\ r.pc = "pinned" /\ r.target = x
  BY <1>2 DEF NoDemotion, DemoteCall, Contents
<1> HIDE DEF r
<1>4. DemStands'
  BY <1>1, <1>3 DEF DemStands, Routes, Walked, Owned, Checked
<1>5. AsCaptured'
  BY <1>1, <1>3 DEF AsCaptured, Checked
<1> QED
  BY <1>1, <1>2, <1>3, <1>4, <1>5, DemMoves DEF Checked

LEMMA CloneStep == ASSUME DemotionIInv, DemoteClones PROVE DemotionIInv'
<1> DEFINE r == [dem EXCEPT !.pc = "cloned", !.seq = Len(delta), !.old = Merged]
<1>1. /\ dem.pc = "pinned" /\ dem' = r
      /\ UNCHANGED <<ns, base, delta, blobId, staging, stranded, mode, dirent, frozen, slipped>>
  BY DEF DemoteClones, Rest
<1>2. /\ dem \in DemoteCall /\ Len(delta) \in Nat /\ Merged \in [Dirs -> SUBSET Entries]
      /\ frozen \subseteq Dirs /\ slipped \in BOOLEAN /\ stranded \in BOOLEAN
  <2>1. delta \in Seq(Change)
    BY DEF DemotionIInv, DemotionTypeOK
  <2> QED
    BY <2>1, MergeType DEF DemotionIInv, DemotionTypeOK, Merged
<1>3. r \in DemoteCall /\ r.pc = "cloned" /\ r.target = dem.target
  BY <1>2 DEF DemoteCall, Contents
<1> HIDE DEF r
<1>4. DemStands'
  BY <1>1, <1>3 DEF DemotionIInv, DemStands, Routes, Walked, Owned, Checked
<1>5. AsCaptured'
  BY <1>1, <1>3 DEF AsCaptured, Checked
<1> QED
  BY <1>1, <1>2, <1>3, <1>4, <1>5, DemMoves DEF Checked

(* The walk finds, from the target, every child that is routed here.       *)
LEMMA BuildStep == ASSUME DemotionIInv, DemoteBuilds PROVE DemotionIInv'
<1> DEFINE w == Resolve(dem.old, dem.target)
           r == [dem EXCEPT !.pc = "built", !.walk = w]
           kids == Routed(dem.old)
<1>1. /\ dem.pc = "cloned" /\ dem' = r
      /\ UNCHANGED <<ns, base, delta, blobId, staging, stranded, mode, dirent, frozen, slipped>>
  BY DEF DemoteBuilds, Rest
<1>2. /\ dem \in DemoteCall /\ dem.target \in Dirs /\ Routes(dem.target) /\ Routes(Root)
      /\ frozen \subseteq Dirs /\ slipped \in BOOLEAN /\ stranded \in BOOLEAN
  BY <1>1, DemFields DEF DemotionIInv, DemotionTypeOK, DemStands
<1>3. \A d \in Dirs : kids[d] = {y \in dem.old[d] \cap Interior : mode[y] = "stable"}
  BY DEF Routed
<1>4. \A d \in Dirs : kids[d] \subseteq Dirs
  BY <1>3 DEF Dirs
<1>5. /\ dem.target \in w /\ w \subseteq Dirs /\ ClosedUnder(kids, w)
      /\ \A S \in SUBSET Dirs : dem.target \in S /\ ClosedUnder(kids, S) => w \subseteq S
  <2> HIDE DEF kids
  <2> QED
    BY <1>2, <1>4, ReachIs DEF Resolve, kids
<1>6. \A d \in w : Routes(d) /\ (d = dem.target \/ d \in Interior)
  <2> DEFINE S == {dem.target} \cup {y \in Interior : mode[y] = "stable"}
  <2>1. S \in SUBSET Dirs /\ dem.target \in S
    BY <1>2 DEF Dirs
  <2>2. ClosedUnder(kids, S)
    BY <1>3, <2>1 DEF ClosedUnder
  <2>3. w \subseteq S
    BY <1>5, <2>1, <2>2
  <2> QED
    BY <1>2, <2>3 DEF Routes
<1>7. \A d \in w : \A x \in dem.old[d] \cap Interior : x \in w \/ ~Routes(x)
  BY <1>3, <1>5 DEF ClosedUnder, Routes
<1> HIDE DEF w, kids
<1>8. /\ r \in DemoteCall /\ r.pc = "built" /\ r.target = dem.target /\ r.walk = w
      /\ r.old = dem.old
  BY <1>2, <1>5 DEF DemoteCall
<1> HIDE DEF r
<1>9. DemStands'
  BY <1>1, <1>2, <1>5, <1>6, <1>7, <1>8 DEF DemStands, Routes, Walked, Owned, Checked
<1>10. AsCaptured'
  BY <1>1, <1>8 DEF AsCaptured, Checked
<1> QED
  BY <1>1, <1>2, <1>8, <1>9, <1>10, DemMoves DEF Checked

(* The locks, and the check that nothing has changed since the capture.    *)
LEMMA LockRootStep ==
  ASSUME DemotionIInv, DemoteLocksRoot \/ DemoteLocksInteriors PROVE DemotionIInv'
<1>1. DemotionTypeOK /\ DemStands /\ Root \in Dirs
  BY DEF DemotionIInv, Dirs
<1>2. PICK pc \in {"rooted", "locked"} :
        /\ dem.pc = IF pc = "rooted" THEN "built" ELSE "rooted"
        /\ dem' = [dem EXCEPT !.pc = pc]
        /\ frozen' = IF pc = "rooted" THEN {Root} ELSE frozen \cup dem.walk
        /\ UNCHANGED <<ns, base, delta, blobId, staging, stranded, mode, dirent>>
        /\ slipped' \in BOOLEAN /\ (slipped => slipped')
  <2>1. CASE DemoteLocksRoot
    BY <1>1, <2>1 DEF DemoteLocksRoot, Rest, Slips, DemotionTypeOK
  <2>2. CASE DemoteLocksInteriors
    BY <1>1, <2>2 DEF DemoteLocksInteriors, Rest, DemotionTypeOK
  <2> QED
    BY <2>1, <2>2
<1> DEFINE r == [dem EXCEPT !.pc = pc]
<1>3. /\ r \in DemoteCall /\ r.pc = pc /\ r.target = dem.target
      /\ r.old = dem.old /\ r.walk = dem.walk /\ dem' = r
  BY <1>1, <1>2, DemPcs
<1> HIDE DEF r
<1>4. frozen' \subseteq Dirs /\ dem.walk \subseteq Dirs /\ stranded' \in BOOLEAN
  BY <1>1, <1>2, DemFields DEF DemotionTypeOK
<1>5. DemStands'
  <2>1. CASE pc = "rooted"
    BY <1>1, <1>2, <1>3, <2>1 DEF DemStands, Routes, Walked, Owned, Checked
  <2>2. CASE pc = "locked"
    BY <1>1, <1>2, <1>3, <2>2 DEF DemStands, Routes, Walked, Owned, Checked
  <2> QED
    BY <2>1, <2>2
<1>6. AsCaptured'
  BY <1>2, <1>3 DEF AsCaptured, Checked
<1> QED
  BY <1>2, <1>3, <1>4, <1>5, <1>6, DemMoves DEF Checked

LEMMA ValidateStep == ASSUME DemotionIInv, DemoteValidates PROVE DemotionIInv'
<1>1. /\ dem.pc = "locked" /\ Len(delta) = dem.seq /\ dem' = [dem EXCEPT !.pc = "valid"]
      /\ UNCHANGED <<ns, base, delta, blobId, staging, stranded, mode, dirent, frozen>>
      /\ slipped' = (slipped \/ (Len(delta) = dem.seq /\ Merged # dem.old))
  BY DEF DemoteValidates, SourceSame, Slips, Rest
<1>2. /\ DemotionTypeOK /\ DemStands /\ Root \in Dirs /\ frozen \subseteq Dirs
      /\ slipped' \in BOOLEAN /\ (slipped => slipped') /\ stranded \in BOOLEAN
  BY <1>1 DEF DemotionIInv, DemotionTypeOK, Dirs
<1> DEFINE r == [dem EXCEPT !.pc = "valid"]
<1>3. /\ r \in DemoteCall /\ r.pc = "valid" /\ r.target = dem.target
      /\ r.old = dem.old /\ r.walk = dem.walk /\ dem' = r
  BY <1>1, <1>2, DemPcs
<1> HIDE DEF r
<1>4. DemStands'
  BY <1>1, <1>2, <1>3 DEF DemStands, Routes, Walked, Owned, Checked
<1>5. ASSUME Unharmed' PROVE AsCaptured'
  <2>1. SeesNames /\ Merged = dem.old
    BY <1>1, <1>2, <1>5 DEF DemotionIInv, Unharmed
  <2>2. \A d \in frozen : mode[d] = "stable"
    BY <1>1, <1>2 DEF DemStands, Routes, Walked, Owned, Checked
  <2>3. \A d \in frozen : ns[d] = dem.old[d]
    BY <1>2, <2>1, <2>2 DEF SeesNames, Visible
  <2> QED
    BY <1>1, <1>3, <2>3 DEF AsCaptured
<1> QED
  BY <1>1, <1>2, <1>3, <1>4, <1>5, DemMoves DEF Checked

(* A shadow replaces a directory that is locked and as it was captured.    *)
LEMMA ShadowServes ==
  ASSUME DemotionIInv, dem.pc \in Checked, NEW d \in Dirs, d \in frozen,
         mode' = [mode EXCEPT ![d] = "conventional"],
         dirent' = [dirent EXCEPT ![d] = Shadow(d)],
         UNCHANGED <<ns, base, delta, slipped, stranded>>
  PROVE  /\ mode' \in [Dirs -> {"stable", "conventional"}] /\ dirent' \in Contents
         /\ ~Routes(d)'
         /\ \A e \in Dirs \ {d} : Routes(e)' <=> Routes(e)
         /\ Unharmed' => Unharmed
         /\ Unharmed => SeesNames' /\ FirstIsNew'
<1>1. /\ mode \in [Dirs -> {"stable", "conventional"}] /\ dirent \in [Dirs -> SUBSET Entries]
      /\ dem.old \in [Dirs -> SUBSET Entries]
  BY DemFields DEF DemotionIInv, DemotionTypeOK, Contents
<1>2. /\ mode' \in [Dirs -> {"stable", "conventional"}] /\ dirent' \in Contents
      /\ mode'[d] = "conventional" /\ dirent'[d] = dem.old[d]
      /\ \A e \in Dirs \ {d} : mode'[e] = mode[e] /\ dirent'[e] = dirent[e]
  BY <1>1 DEF Shadow, Contents
<1>3. ASSUME Unharmed PROVE SeesNames' /\ FirstIsNew'
  <2>1. SeesNames /\ FirstIsNew /\ ns[d] = dem.old[d] /\ Merged' = Merged
    BY <1>3 DEF DemotionIInv, AsCaptured, Merged
  <2>2. Visible(d)' = ns[d]
    BY <1>2, <2>1 DEF Visible
  <2>3. \A e \in Dirs \ {d} : Visible(e)' = ns[e]
    BY <1>2, <2>1 DEF SeesNames, Visible
  <2> QED
    BY <2>1, <2>2, <2>3 DEF SeesNames, FirstIsNew
<1>4. Unharmed' => Unharmed
  BY DEF Unharmed
<1> QED
  BY <1>2, <1>3, <1>4 DEF Routes

LEMMA ShadowInteriorStep ==
  ASSUME DemotionIInv, NEW d \in Dirs, DemotePublishesInterior(d) PROVE DemotionIInv'
<1>1. /\ dem.pc = "valid" /\ d \in dem.walk /\ d # Root
      /\ mode' = [mode EXCEPT ![d] = "conventional"]
      /\ dirent' = [dirent EXCEPT ![d] = Shadow(d)]
      /\ UNCHANGED <<ns, base, delta, blobId, staging, stranded, dem, frozen, slipped>>
  BY DEF DemotePublishesInterior, Rest
<1>2. DemotionTypeOK /\ DemStands /\ frozen = {Root} \cup dem.walk /\ Root \in Dirs
  BY <1>1 DEF DemotionIInv, DemStands, Owned, Dirs
<1>3. /\ mode' \in [Dirs -> {"stable", "conventional"}] /\ dirent' \in Contents
      /\ ~Routes(d)'
      /\ \A e \in Dirs \ {d} : Routes(e)' <=> Routes(e)
      /\ Unharmed' => Unharmed
      /\ Unharmed => SeesNames' /\ FirstIsNew'
  BY <1>1, <1>2, ShadowServes DEF Checked
<1>4. DemotionTypeOK'
  BY <1>1, <1>2, <1>3 DEF DemotionTypeOK
<1>5. Connected'
  BY <1>1 DEF DemotionIInv, Connected
<1>6. Routes(Root) /\ Routes(Root)'
  BY <1>1, <1>2, <1>3 DEF DemStands
<1>7. \A x \in Interior : ~Routes(x) => ~Routes(x)'
  BY <1>3 DEF Dirs
<1>8. DemStands'
  BY <1>1, <1>2, <1>6, <1>7 DEF DemStands, Walked, Owned, Checked
<1>9. ASSUME Unharmed PROVE Branches' /\ AsCaptured'
  <2>1. Branches /\ AsCaptured
    BY <1>9 DEF DemotionIInv
  <2>2. ASSUME NEW e \in Dirs, ~Routes(e)', ~(dem.pc \in Checked /\ e \in dem.walk)
        PROVE  \A x \in ns[e] \cap Interior : ~Routes(x)'
    <3>1. e # d /\ ~Routes(e)
      BY <1>1, <1>3, <2>2 DEF Checked
    <3> QED
      BY <1>7, <2>1, <2>2, <3>1 DEF Branches
  <2>3. Branches'
    BY <1>1, <1>6, <2>2 DEF Branches
  <2>4. AsCaptured'
    BY <1>1, <2>1 DEF AsCaptured
  <2> QED
    BY <2>3, <2>4
<1> QED
  BY <1>3, <1>4, <1>5, <1>8, <1>9 DEF DemotionIInv

(* The captured children of what is converted are converted with it.       *)
LEMMA WalkIsWhole ==
  ASSUME DemotionIInv, Unharmed, dem.pc \in Checked,
         \A d \in dem.walk \ {Root} : ~Routes(d)
  PROVE  \A d \in dem.walk : \A x \in ns[d] \cap Interior : ~Routes(x)
<1> SUFFICES ASSUME NEW d \in dem.walk, NEW x \in ns[d] \cap Interior PROVE ~Routes(x)
  OBVIOUS
<1>1. DemStands /\ AsCaptured /\ Root \notin Interior
  BY DemotionAssumption DEF DemotionIInv
<1>2. d \in frozen /\ dem.pc \in Walked
  BY <1>1 DEF DemStands, Checked, Owned, Walked
<1>3. x \in dem.old[d] \cap Interior
  BY <1>1, <1>2 DEF AsCaptured
<1>4. x \in dem.walk \/ ~Routes(x)
  BY <1>1, <1>2, <1>3 DEF DemStands
<1> QED
  BY <1>1, <1>4

LEMMA FinalStep == ASSUME DemotionIInv, DemoteFinal PROVE DemotionIInv'
<1>1. /\ dem.pc = "valid" /\ \A d \in dem.walk \ {Root} : ~Routes(d)
      /\ UNCHANGED <<ns, base, delta, blobId, staging, stranded, mode, dirent>>
      /\ slipped' = (slipped \/ (Len(delta) = dem.seq /\ Merged # dem.old))
      /\ IF dem.target = Root THEN dem' = [dem EXCEPT !.pc = "final"] /\ UNCHANGED frozen
         ELSE dem' = NoDemotion /\ frozen' = {}
  BY DEF DemoteFinal, Slips, Rest, Routes
<1>2. /\ DemotionTypeOK /\ DemStands /\ frozen \subseteq Dirs
      /\ slipped' \in BOOLEAN /\ (slipped => slipped') /\ stranded \in BOOLEAN
  BY <1>1 DEF DemotionIInv, DemotionTypeOK
<1>3. CASE dem.target = Root
  <2> DEFINE r == [dem EXCEPT !.pc = "final"]
  <2>1. /\ r \in DemoteCall /\ r.pc = "final" /\ r.target = dem.target
        /\ r.old = dem.old /\ r.walk = dem.walk /\ dem' = r /\ frozen' = frozen
    BY <1>1, <1>2, <1>3, DemPcs
  <2> HIDE DEF r
  <2>2. DemStands'
    BY <1>1, <1>2, <1>3, <2>1 DEF DemStands, Routes, Walked, Owned, Checked
  <2>3. Unharmed' => AsCaptured'
    BY <1>1, <1>2, <2>1 DEF DemotionIInv, AsCaptured, Checked, Unharmed
  <2> QED
    BY <1>1, <1>2, <2>1, <2>2, <2>3, DemMoves DEF Checked
<1>4. CASE dem.target # Root
  <2>1. dem' \in DemoteCall /\ dem'.pc = "idle" /\ frozen' = {}
    BY <1>1, <1>4, NoDemotionIs
  <2>2. DemStands' /\ AsCaptured'
    BY <2>1 DEF DemStands, AsCaptured, Walked, Owned, Checked
  <2>3. Unharmed' => \A d \in dem.walk : ~Routes(d) =>
                       \A x \in ns[d] \cap Interior : ~Routes(x)
    <3>1. Unharmed' => Unharmed
      BY <1>1 DEF Unharmed
    <3> QED
      BY <1>1, <3>1, WalkIsWhole DEF Checked
  <2> QED
    BY <1>1, <1>2, <2>1, <2>2, <2>3, DemMoves
<1> QED
  BY <1>3, <1>4

(* The root goes last, and with it no interior is left routed to it.       *)
LEMMA ShadowRootStep == ASSUME DemotionIInv, DemotePublishesRoot PROVE DemotionIInv'
<1>1. /\ dem.pc = "final" /\ dem' = NoDemotion /\ frozen' = {}
      /\ mode' = [mode EXCEPT ![Root] = "conventional"]
      /\ dirent' = [dirent EXCEPT ![Root] = Shadow(Root)]
      /\ UNCHANGED <<ns, base, delta, blobId, staging, stranded, slipped>>
  BY DEF DemotePublishesRoot, Rest
<1>2. /\ DemotionTypeOK /\ DemStands /\ frozen = {Root} \cup dem.walk /\ Root \in Dirs
      /\ Root \in dem.walk /\ \A d \in dem.walk \ {Root} : ~Routes(d)
  BY <1>1 DEF DemotionIInv, DemStands, Owned, Walked, Dirs
<1>3. /\ mode' \in [Dirs -> {"stable", "conventional"}] /\ dirent' \in Contents
      /\ ~Routes(Root)'
      /\ \A e \in Dirs \ {Root} : Routes(e)' <=> Routes(e)
      /\ Unharmed' => Unharmed
      /\ Unharmed => SeesNames' /\ FirstIsNew'
  BY <1>1, <1>2, ShadowServes DEF Checked
<1>4. dem' \in DemoteCall /\ dem'.pc = "idle"
  BY <1>1, NoDemotionIs
<1>5. DemotionTypeOK'
  BY <1>1, <1>2, <1>3, <1>4 DEF DemotionTypeOK
<1>6. DemStands' /\ Connected' /\ AsCaptured'
  BY <1>1, <1>4 DEF DemotionIInv, DemStands, Connected, AsCaptured, Walked, Owned, Checked
<1>7. ASSUME Unharmed PROVE Branches'
  <2> DEFINE S == {Root} \cup {y \in Interior : ~Routes(y)}
  <2>1. Branches /\ \A d \in dem.walk : \A x \in ns[d] \cap Interior : ~Routes(x)
    BY <1>1, <1>2, <1>7, WalkIsWhole DEF DemotionIInv, Checked
  <2>2. \A d \in S : \A x \in ns[d] \cap Interior : ~Routes(x)
    BY <1>2, <2>1 DEF Branches, Dirs
  <2>3. S \in SUBSET Dirs /\ Root \in S
    BY DEF Dirs
  <2>4. ClosedUnder(Children(ns), S)
    BY <2>2, <2>3 DEF ClosedUnder, Children
  <2>5. Interior \subseteq S
    <3> HIDE DEF S
    <3> QED
      BY <2>3, <2>4 DEF DemotionIInv, Connected
  <2>6. \A d \in Interior : ~Routes(d)'
    BY <1>3, <2>5, DemotionAssumption DEF Dirs
  <2> QED
    BY <1>1, <2>6 DEF Branches
<1> QED
  BY <1>3, <1>5, <1>6, <1>7 DEF DemotionIInv

(* One that stops between a directory and its child is told by stranded.   *)
LEMMA GivesUpStep == ASSUME DemotionIInv, DemoteGivesUp PROVE DemotionIInv'
<1>1. /\ dem.pc # "idle" /\ dem' = NoDemotion /\ frozen' = {}
      /\ stranded' = (stranded \/ \E d \in Interior :
                         /\ mode[d] = "conventional"
                         /\ \E x \in dirent[d] \cap Interior : mode[x] = "stable")
      /\ UNCHANGED <<ns, base, delta, blobId, staging, mode, dirent, slipped>>
  BY DEF DemoteGivesUp
<1>2. /\ DemotionTypeOK /\ DemStands
      /\ stranded' \in BOOLEAN /\ (stranded => stranded') /\ slipped \in BOOLEAN
  BY <1>1 DEF DemotionIInv, DemotionTypeOK
<1>3. dem' \in DemoteCall /\ dem'.pc = "idle"
  BY <1>1, NoDemotionIs
<1>4. DemStands' /\ AsCaptured'
  BY <1>1, <1>3 DEF DemStands, AsCaptured, Walked, Owned, Checked
<1>5. ASSUME Unharmed', dem.pc \in Checked, NEW d \in dem.walk, ~Routes(d)
      PROVE  \A x \in ns[d] \cap Interior : ~Routes(x)
  <2>1. SeesNames
    BY <1>1, <1>5 DEF DemotionIInv, Unharmed
  <2>2. d \in Dirs /\ d # Root
    BY <1>1, <1>2, <1>5, DemFields DEF DemStands
  <2>3. mode[d] = "conventional" /\ d \in Interior
    BY <1>2, <1>5, <2>2 DEF DemotionTypeOK, Routes, Dirs
  <2>4. dirent[d] = ns[d]
    BY <2>1, <2>2, <2>3 DEF SeesNames, Visible
  <2> QED
    BY <1>1, <1>5, <2>3, <2>4 DEF Unharmed, Routes
<1> QED
  BY <1>1, <1>2, <1>3, <1>4, <1>5, DemMoves

LEMMA DemotionInitIInv == DemotionInit => DemotionIInv
<1> SUFFICES ASSUME DemotionInit PROVE DemotionIInv
  OBVIOUS
<1>1. /\ ns = [d \in Dirs |-> IF d = Root THEN Interior ELSE {}] /\ base = ns
      /\ mode = [d \in Dirs |-> "stable"] /\ dirent = [d \in Dirs |-> {}]
      /\ delta = <<>> /\ blobId = 0 /\ dem = NoDemotion /\ frozen = {}
      /\ staging = FALSE /\ stranded = FALSE /\ slipped = FALSE
  BY DEF DemotionInit
<1>2. /\ ns \in [Dirs -> SUBSET Entries] /\ base \in [Dirs -> SUBSET Entries]
      /\ ns[Root] = Interior /\ \A d \in Dirs : mode[d] = "stable"
  BY <1>1 DEF Entries, Dirs
<1>3. dem \in DemoteCall /\ dem.pc = "idle"
  BY <1>1, NoDemotionIs
<1>4. DemotionTypeOK
  <2>1. delta \in Seq(Change) /\ Len(delta) <= MaxDelta /\ blobId \in 0..MaxBlob
    BY <1>1, DemotionAssumption
  <2> QED
    BY <1>1, <1>2, <1>3, <2>1 DEF DemotionTypeOK, Contents
<1>5. DemStands /\ AsCaptured
  BY <1>3 DEF DemStands, AsCaptured, Walked, Owned, Checked
<1>6. Connected
  BY <1>2 DEF Connected, ClosedUnder, Children, Dirs
<1>7. SeesNames
  BY <1>1, <1>2, MergeNone DEF SeesNames, Visible, Merged
<1>8. FirstIsNew
  BY <1>1 DEF FirstIsNew, FirstNew
<1>9. Branches
  BY <1>2 DEF Branches, Routes, Dirs
<1> QED
  BY <1>4, <1>5, <1>6, <1>7, <1>8, <1>9 DEF DemotionIInv

LEMMA DemotionKept == DemotionIInv /\ [DemotionNext]_demVars => DemotionIInv'
<1> SUFFICES ASSUME DemotionIInv, [DemotionNext]_demVars PROVE DemotionIInv'
  OBVIOUS
<1>1. ASSUME NEW d \in Dirs, NEW f \in File, AddName(d, f) PROVE DemotionIInv'
  BY <1>1, AddNameStep
<1>2. ASSUME NEW d \in Dirs, NEW f \in File, DropName(d, f) PROVE DemotionIInv'
  BY <1>2, DropNameStep
<1>3. ASSUME NEW x \in Interior, NEW a \in Dirs, NEW b \in Dirs, MoveDir(x, a, b)
      PROVE  DemotionIInv'
  BY <1>3, MoveDirStep
<1>4. CASE Reparse \/ CompactStages \/ CompactSwaps \/ CompactGivesUp
  BY <1>4, CompactSteps
<1>5. ASSUME NEW x \in Dirs, DemotePins(x) PROVE DemotionIInv'
  BY <1>5, PinStep
<1>6. ASSUME NEW x \in Dirs, DemotePublishesInterior(x) PROVE DemotionIInv'
  BY <1>6, ShadowInteriorStep
<1>7. CASE DemoteClones
  BY <1>7, CloneStep
<1>8. CASE DemoteBuilds
  BY <1>8, BuildStep
<1>9. CASE DemoteLocksRoot \/ DemoteLocksInteriors
  BY <1>9, LockRootStep
<1>10. CASE DemoteValidates
  BY <1>10, ValidateStep
<1>11. CASE DemoteFinal
  BY <1>11, FinalStep
<1>12. CASE DemotePublishesRoot
  BY <1>12, ShadowRootStep
<1>13. CASE DemoteGivesUp
  BY <1>13, GivesUpStep
<1>14. CASE UNCHANGED demVars
  BY <1>14 DEF demVars, DemotionIInv, DemotionTypeOK, DemStands, Connected, Unharmed, SeesNames,
     FirstIsNew, Branches, AsCaptured, Routes, Visible, Merged
<1> QED
  BY <1>1, <1>2, <1>3, <1>4, <1>5, <1>6, <1>7, <1>8, <1>9, <1>10, <1>11, <1>12, <1>13, <1>14
     DEF DemotionNext

(* Directories turn conventional one by one, names change around them and  *)
(* the demotion may stop: what a lookup finds is always the namespace.     *)
THEOREM DemotionFindsNamespace == DemotionSpec => []LookupsFindNamespace
<1>1. DemotionIInv => LookupsFindNamespace
  BY DEF DemotionIInv, LookupsFindNamespace, SeesNames, Branches, Routes, DemotionTypeOK, Dirs
<1> QED
  BY <1>1, DemotionInitIInv, DemotionKept, PTL DEF DemotionSpec

-----------------------------------------------------------------------------
(* LockOrder. A program is a sequence of steps; what a caller holds is a   *)
(* record of the locks it has for writing, those it has for reading, and   *)
(* whether a handle is open.                                               *)
Acts == {"lock", "share", "unlock", "try", "check", "start", "stop", "drain", "out"}
StepSet == [act : Acts, lock : Locks, keep : SUBSET Locks]

Holding == [own : SUBSET Locks, sh : SUBSET Locks, han : BOOLEAN]
Hold(O, S, h) == [own |-> O, sh |-> S, han |-> h]
HeldBy(c) == Hold({l \in Locks : owner[l] = c}, {l \in Locks : c \in shared[l]},
                  c \in handles)

Both(H) == H.own \cup H.sh
Lacks(H, sorts) == \A l \in Both(H) : l[1] \notin sorts

(* Who locks several directories holds the gate while it does: a rename    *)
(* holds s_vfs_rename_mutex, which lets a demotion past only if it is      *)
(* free; where no rename runs, a promotion and a demotion hold             *)
(* li_transition_lock.                                                     *)
Gate(ren) == IF ren THEN RenameMutex ELSE Transition

(* When a caller may wait for a directory: it holds no i_li_lock,          *)
(* reference or handle; without the gate it holds no directory, except     *)
(* that a demotion for a promotion holds the parent of the root it waits   *)
(* for; with the gate it goes down, so it waits for up only with other,    *)
(* and for root only with up or other.                                     *)
Orderly(ren, l, H) ==
  /\ ~H.han /\ Lacks(H, {"i_li_lock", "refs"})
  /\ Gate(ren) \notin H.own =>
       \/ Lacks(H, {"i_rwsem"})
       \/ /\ Transition \in H.own /\ l = Rw("root")
          /\ \A k \in Both(H) : k[1] = "i_rwsem" => k = Rw("up")
  /\ Gate(ren) \in H.own =>
       \A k \in Both(H) : k[1] = "i_rwsem" =>
         /\ l = Rw("up") => k = Rw("other")
         /\ l = Rw("root") => k \in {Rw("up"), Rw("other")}

(* When a caller that holds H may come to step x.                          *)
Safe(ren, x, H) ==
  /\ x.act \in {"lock", "share", "try"} => x.lock \notin Both(H)
  /\ x.act = "lock" => x.lock[1] # "refs"
  /\ x.act = "share" => x.lock[1] \in {"i_rwsem", "refs"}
  /\ x.act \in {"lock", "share"} /\ x.lock[1] = "i_rwsem" => Orderly(ren, x.lock, H)
  /\ x.act = "lock" /\ x.lock \in {Transition, RenameMutex} =>
       Both(H) = {} /\ ~H.han /\ (x.lock = RenameMutex => ren)
  /\ x.act = "lock" /\ x.lock[1] = "i_li_lock" =>
       /\ x.lock \in {Li("root"), Li("other")}
       /\ \A k \in Both(H) : k[1] = "i_li_lock" => k = Li("root") /\ x.lock = Li("other")
  /\ x.act = "try" => x.lock = RenameMutex
  /\ x.act = "unlock" => x.lock \in H.own
  /\ x.act = "start" => H.han \/ Lacks(H, {"i_li_lock", "refs"})
  /\ x.act = "drain" => ~H.han /\ Lacks(H, {"i_li_lock", "refs"}) /\ x.lock[1] = "refs"

(* What it holds when the step is done.                                    *)
After(x, H) ==
  CASE x.act \in {"lock", "try"} -> Hold(H.own \cup {x.lock}, H.sh, H.han)
    [] x.act = "share" -> Hold(H.own, H.sh \cup {x.lock}, H.han)
    [] x.act = "unlock" -> Hold(H.own \ {x.lock}, H.sh, H.han)
    [] x.act = "start" -> Hold(H.own, H.sh, TRUE)
    [] x.act = "stop" -> Hold(H.own, H.sh, FALSE)
    [] x.act = "out" -> Hold(H.own \cap x.keep, H.sh \cap x.keep, FALSE)
    [] OTHER -> H

IsOut(s, j) == /\ j \in DOMAIN s /\ s[j].act = "out"
               /\ \A k \in 1..(j - 1) : s[k].act # "out"
AtOut(s) == SubSeq(s, CHOOSE j \in DOMAIN s : /\ s[j].act = "out"
                                              /\ \A k \in 1..(j - 1) : s[k].act # "out",
                   Len(s))

(* Good(ren, s, H): whoever holds H can take all of the steps s, by every  *)
(* path that failing checks and tries open, is safe at each and holds      *)
(* nothing at the end. It is the greatest fixed point of Runnable: some    *)
(* set of points that is closed under all the ways to go on has this one.  *)
Point == Seq(StepSet) \X Holding
Runnable(ren, s, H, R) ==
  /\ s = <<>> => Both(H) = {} /\ ~H.han
  /\ s # <<>> =>
       /\ Safe(ren, Head(s), H)
       /\ <<Tail(s), After(Head(s), H)>> \in R
       /\ Head(s).act \in {"check", "try"} => <<AtOut(s), H>> \in R
Closed(ren, R) ==
  /\ R \in SUBSET Point
  /\ \A s \in Seq(StepSet), H \in Holding : <<s, H>> \in R => Runnable(ren, s, H, R)
Good(ren, s, H) == \E R : Closed(ren, R) /\ <<s, H>> \in R

LEMMA GoodTyped ==
  ASSUME NEW ren, NEW s, NEW H, Good(ren, s, H) PROVE s \in Seq(StepSet) /\ H \in Holding
BY DEF Good, Closed, Point

LEMMA GoodUnfold ==
  ASSUME NEW ren, NEW s, NEW H, Good(ren, s, H)
  PROVE  /\ s = <<>> => Both(H) = {} /\ ~H.han
         /\ s # <<>> =>
              /\ Safe(ren, Head(s), H)
              /\ Good(ren, Tail(s), After(Head(s), H))
              /\ Head(s).act \in {"check", "try"} => Good(ren, AtOut(s), H)
<1>1. PICK R : Closed(ren, R) /\ <<s, H>> \in R
  BY DEF Good
<1>2. Runnable(ren, s, H, R)
  BY <1>1, GoodTyped DEF Closed
<1> QED
  BY <1>1, <1>2 DEF Runnable, Good

LEMMA GoodFold ==
  ASSUME NEW ren, NEW s \in Seq(StepSet), NEW H \in Holding,
         s = <<>> => Both(H) = {} /\ ~H.han,
         s # <<>> =>
              /\ Safe(ren, Head(s), H)
              /\ Good(ren, Tail(s), After(Head(s), H))
              /\ Head(s).act \in {"check", "try"} => Good(ren, AtOut(s), H)
  PROVE  Good(ren, s, H)
<1> DEFINE Q == {x \in Point : Good(ren, x[1], x[2])} \cup {<<s, H>>}
<1>1. \A t, I : Good(ren, t, I) => <<t, I>> \in Q
  <2> SUFFICES ASSUME NEW t, NEW I, Good(ren, t, I) PROVE <<t, I>> \in Q
    OBVIOUS
  <2>1. <<t, I>> \in Point
    BY GoodTyped DEF Point
  <2> QED
    BY <2>1
<1>2. Q \in SUBSET Point
  BY DEF Point
<1>3. ASSUME NEW t \in Seq(StepSet), NEW I \in Holding, <<t, I>> \in Q
      PROVE  Runnable(ren, t, I, Q)
  <2>1. CASE <<t, I>> = <<s, H>>
    <3>1. t = s /\ I = H
      BY <2>1
    <3> HIDE DEF Q
    <3> QED
      BY <1>1, <3>1 DEF Runnable
  <2>2. CASE <<t, I>> # <<s, H>>
    <3>1. Good(ren, t, I)
      BY <1>3, <2>2
    <3> HIDE DEF Q
    <3> QED
      BY <1>1, <3>1, GoodUnfold DEF Runnable
  <2> QED
    BY <2>1, <2>2
<1>4. Closed(ren, Q) /\ <<s, H>> \in Q
  BY <1>2, <1>3 DEF Closed
<1> QED
  BY <1>4 DEF Good

HasOut(s) == \E j \in DOMAIN s : IsOut(s, j)

(* The programs are concatenations, and a failure skips to the next "out". *)
(* So what a piece p of a program does is said about all that may follow   *)
(* it: Run(ren, p, X0, H0, X, H) says that from H0 the piece leads to H,   *)
(* and that where failures under the holdings X are cleaned up after p,    *)
(* those under X0 are before it.                                           *)
Fine(ren, t, X, H) ==
  /\ t \in Seq(StepSet) /\ HasOut(t)
  /\ Good(ren, t, H)
  /\ \A I \in X : Good(ren, AtOut(t), I)
Run(ren, p, X0, H0, X, H) ==
  /\ p \in Seq(StepSet)
  /\ \A t \in Seq(StepSet) : Fine(ren, t, X, H) => Fine(ren, p \o t, X0, H0)

(* What the first "out" of a sequence is.                                  *)
LEMMA AtOutIs ==
  ASSUME NEW s \in Seq(StepSet), NEW j, IsOut(s, j)
  PROVE  AtOut(s) = SubSeq(s, j, Len(s))
<1> DEFINE i == CHOOSE k \in DOMAIN s : /\ s[k].act = "out"
                                        /\ \A m \in 1..(k - 1) : s[m].act # "out"
<1>1. i \in DOMAIN s /\ s[i].act = "out" /\ \A m \in 1..(i - 1) : s[m].act # "out"
  BY DEF IsOut
<1>2. AtOut(s) = SubSeq(s, i, Len(s))
  BY DEF AtOut
<1> HIDE DEF i
<1>3. i \in 1..Len(s) /\ j \in 1..Len(s)
  BY <1>1 DEF IsOut
<1>4. i = j
  BY <1>1, <1>3 DEF IsOut
<1> QED
  BY <1>2, <1>4

LEMMA OutFirst ==
  ASSUME NEW x \in StepSet, NEW t \in Seq(StepSet), x.act = "out"
  PROVE  IsOut(<<x>> \o t, 1) /\ AtOut(<<x>> \o t) = <<x>> \o t
<1>1. <<x>> \o t \in Seq(StepSet) /\ Len(<<x>> \o t) = Len(t) + 1 /\ Len(t) \in Nat
      /\ (<<x>> \o t)[1] = x
  OBVIOUS
<1> DEFINE s == <<x>> \o t
<1>2. IsOut(s, 1)
  BY <1>1 DEF IsOut
<1>3. AtOut(s) = SubSeq(s, 1, Len(s))
  BY <1>1, <1>2, AtOutIs
<1> HIDE DEF s
<1>4. s \in Seq(StepSet)
  BY <1>1 DEF s
<1>5. SubSeq(s, 1, Len(s)) = s
  BY <1>4
<1> QED
  BY <1>2, <1>3, <1>5 DEF s

LEMMA OutLater ==
  ASSUME NEW x \in StepSet, NEW t \in Seq(StepSet), x.act # "out", HasOut(t)
  PROVE  HasOut(<<x>> \o t) /\ AtOut(<<x>> \o t) = AtOut(t)
<1>1. PICK j \in DOMAIN t : IsOut(t, j)
  BY DEF HasOut
<1>2. /\ <<x>> \o t \in Seq(StepSet) /\ Len(<<x>> \o t) = Len(t) + 1 /\ Len(t) \in Nat
      /\ (<<x>> \o t)[1] = x
      /\ \A i \in 1..Len(t) : (<<x>> \o t)[i + 1] = t[i]
  OBVIOUS
<1> DEFINE s == <<x>> \o t
<1> HIDE DEF s
<1>3. /\ s \in Seq(StepSet) /\ Len(s) = Len(t) + 1 /\ Len(t) \in Nat /\ s[1] = x
      /\ \A i \in 1..Len(t) : s[i + 1] = t[i]
  BY <1>2 DEF s
<1>4. j \in 1..Len(t) /\ j \in Nat
  BY <1>1
<1>5. IsOut(s, j + 1)
  <2>1. j + 1 \in DOMAIN s /\ s[j + 1].act = "out"
    BY <1>1, <1>3, <1>4 DEF IsOut
  <2>2. ASSUME NEW k \in 1..((j + 1) - 1) PROVE s[k].act # "out"
    <3>1. CASE k = 1
      BY <3>1, <1>3
    <3>2. CASE k # 1
      <4>1. k - 1 \in 1..(j - 1) /\ k - 1 \in 1..Len(t) /\ (k - 1) + 1 = k
        BY <3>2, <1>4, <1>3
      <4>2. s[k] = t[k - 1]
        BY <4>1, <1>3
      <4> QED
        BY <4>1, <4>2, <1>1 DEF IsOut
    <3> QED
      BY <3>1, <3>2
  <2> QED
    BY <2>1, <2>2 DEF IsOut
<1>6. AtOut(s) = SubSeq(s, j + 1, Len(s)) /\ AtOut(t) = SubSeq(t, j, Len(t))
  BY <1>1, <1>3, <1>5, AtOutIs
<1>7. SubSeq(s, j + 1, Len(s)) = SubSeq(t, j, Len(t))
  BY <1>3, <1>4
<1>8. HasOut(s)
  BY <1>5 DEF HasOut, IsOut
<1> QED
  BY <1>6, <1>7, <1>8 DEF s

LEMMA HeadTail ==
  ASSUME NEW x \in StepSet, NEW t \in Seq(StepSet)
  PROVE  /\ <<x>> \o t \in Seq(StepSet) /\ <<x>> \o t # <<>>
         /\ Head(<<x>> \o t) = x /\ Tail(<<x>> \o t) = t
OBVIOUS

(* A step that is no "out", an "out", and pieces one after the other.      *)
LEMMA RunStep ==
  ASSUME NEW ren, NEW x \in StepSet, NEW H \in Holding, NEW X,
         x.act # "out", Safe(ren, x, H), x.act \in {"check", "try"} => H \in X
  PROVE  Run(ren, <<x>>, X, H, X, After(x, H))
<1> SUFFICES ASSUME NEW t \in Seq(StepSet), Fine(ren, t, X, After(x, H))
             PROVE  Fine(ren, <<x>> \o t, X, H)
  BY DEF Run
<1>1. HasOut(<<x>> \o t) /\ AtOut(<<x>> \o t) = AtOut(t)
  BY OutLater DEF Fine
<1> DEFINE s == <<x>> \o t
<1> HIDE DEF s
<1>2. s \in Seq(StepSet) /\ s # <<>> /\ Head(s) = x /\ Tail(s) = t
  BY HeadTail DEF s
<1>3. AtOut(s) = AtOut(t) /\ HasOut(s)
  BY <1>1 DEF s
<1>4. Good(ren, s, H)
  BY <1>2, <1>3, GoodFold DEF Fine
<1> QED
  BY <1>2, <1>3, <1>4 DEF Fine, s

LEMMA RunOut ==
  ASSUME NEW ren, NEW x \in StepSet, NEW H \in Holding, NEW X, NEW X0 \in SUBSET Holding,
         x.act = "out", \A I \in X0 : After(x, I) = After(x, H)
  PROVE  Run(ren, <<x>>, X0, H, X, After(x, H))
<1> SUFFICES ASSUME NEW t \in Seq(StepSet), Fine(ren, t, X, After(x, H))
             PROVE  Fine(ren, <<x>> \o t, X0, H)
  BY DEF Run
<1>1. IsOut(<<x>> \o t, 1) /\ AtOut(<<x>> \o t) = <<x>> \o t
  BY OutFirst
<1> DEFINE s == <<x>> \o t
<1> HIDE DEF s
<1>2. s \in Seq(StepSet) /\ s # <<>> /\ Head(s) = x /\ Tail(s) = t
  BY HeadTail DEF s
<1>3. AtOut(s) = s /\ HasOut(s)
  BY <1>1 DEF s, HasOut, IsOut
<1>4. ASSUME NEW I \in Holding, After(x, I) = After(x, H) PROVE Good(ren, s, I)
  <2>1. Safe(ren, x, I)
    BY DEF Safe
  <2> QED
    BY <1>2, <1>4, <2>1, GoodFold DEF Fine
<1> QED
  BY <1>2, <1>3, <1>4 DEF Fine, s

LEMMA RunChain ==
  ASSUME NEW ren, NEW p, NEW q, NEW X0, NEW H0, NEW X1, NEW H1, NEW X2, NEW H2,
         Run(ren, p, X0, H0, X1, H1), Run(ren, q, X1, H1, X2, H2)
  PROVE  Run(ren, p \o q, X0, H0, X2, H2)
<1>1. p \in Seq(StepSet) /\ q \in Seq(StepSet) /\ p \o q \in Seq(StepSet)
  BY DEF Run
<1> SUFFICES ASSUME NEW t \in Seq(StepSet), Fine(ren, t, X2, H2)
             PROVE  Fine(ren, (p \o q) \o t, X0, H0)
  BY <1>1 DEF Run
<1>2. q \o t \in Seq(StepSet) /\ Fine(ren, q \o t, X1, H1)
  BY <1>1 DEF Run
<1>3. Fine(ren, p \o (q \o t), X0, H0)
  BY <1>2 DEF Run
<1>4. (p \o q) \o t = p \o (q \o t)
  BY <1>1
<1> QED
  BY <1>3, <1>4

LEMMA RunNone ==
  ASSUME NEW ren, NEW X, NEW H
  PROVE  Run(ren, <<>>, X, H, X, H)
<1> SUFFICES ASSUME NEW t \in Seq(StepSet), Fine(ren, t, X, H)
             PROVE  Fine(ren, <<>> \o t, X, H)
  BY DEF Run
<1>1. <<>> \o t = t
  OBVIOUS
<1> QED
  BY <1>1

Nothing == Hold({}, {}, FALSE)

LEMMA HoldTyped ==
  ASSUME NEW O, NEW S, NEW h \in BOOLEAN, O \subseteq Locks, S \subseteq Locks
  PROVE  /\ Hold(O, S, h) \in Holding /\ Both(Hold(O, S, h)) = O \cup S
         /\ Hold(O, S, h).own = O /\ Hold(O, S, h).sh = S /\ Hold(O, S, h).han = h
BY DEF Hold, Holding, Both

(* The last clean-up leaves nothing held, whatever was.                    *)
LEMMA LastOut ==
  ASSUME NEW ren, NEW p, NEW X0, NEW H0, NEW H \in Holding, Run(ren, p, X0, H0, Holding, H)
  PROVE  Good(ren, p \o Out({}), H0)
<1> DEFINE x == [act |-> "out", lock |-> Transition, keep |-> {}]
<1>1. x \in StepSet /\ x.act = "out" /\ x.keep = {} /\ Out({}) = <<x>>
  BY DEF StepSet, Acts, Locks, Tree, Out
<1> HIDE DEF x
<1>2. Good(ren, <<>>, Nothing)
  <2>1. <<>> \in Seq(StepSet) /\ Nothing \in Holding /\ Both(Nothing) = {} /\ ~Nothing.han
    BY DEF Nothing, Hold, Holding, Both
  <2> QED
    BY <2>1, GoodFold
<1>3. <<x>> = <<x>> \o <<>>
  BY <1>1
<1>4. IsOut(<<x>> \o <<>>, 1) /\ AtOut(<<x>> \o <<>>) = <<x>> \o <<>>
  <2>1. <<>> \in Seq(StepSet)
    OBVIOUS
  <2> QED
    BY <1>1, <2>1, OutFirst
<1>5. ASSUME NEW I \in Holding PROVE Good(ren, <<x>>, I)
  <2>1. After(x, I) = Nothing
    BY <1>1 DEF After, Nothing
  <2>2. Safe(ren, x, I)
    BY <1>1 DEF Safe
  <2>3. <<x>> \in Seq(StepSet) /\ <<x>> # <<>> /\ Head(<<x>>) = x /\ Tail(<<x>>) = <<>>
    BY <1>1
  <2> QED
    BY <1>1, <1>2, <2>1, <2>2, <2>3, GoodFold
<1>6. Fine(ren, <<x>>, Holding, H)
  <2>1. HasOut(<<x>>) /\ AtOut(<<x>>) = <<x>> /\ <<x>> \in Seq(StepSet)
    BY <1>1, <1>3, <1>4 DEF HasOut, IsOut
  <2> QED
    BY <2>1, <1>5 DEF Fine
<1>7. Fine(ren, p \o <<x>>, X0, H0)
  <2>1. <<x>> \in Seq(StepSet)
    BY <1>1
  <2> QED
    BY <2>1, <1>6 DEF Run
<1> QED
  BY <1>1, <1>7 DEF Fine

(* The locks are different from each other.                                *)
LEMMA LockFacts ==
  /\ \A d \in Tree : /\ Rw(d) \in Locks /\ Rw(d)[1] = "i_rwsem"
                     /\ Li(d) \in Locks /\ Li(d)[1] = "i_li_lock"
                     /\ Ref(d) \in Locks /\ Ref(d)[1] = "refs"
  /\ \A d, e \in Tree : Rw(d) = Rw(e) \/ Li(d) = Li(e) \/ Ref(d) = Ref(e) => d = e
  /\ Transition \in Locks /\ Transition[1] = "li_transition_lock"
  /\ RenameMutex \in Locks /\ RenameMutex[1] = "s_vfs_rename_mutex"
<1>1. \A d \in Tree : Rw(d) \in Locks /\ Li(d) \in Locks /\ Ref(d) \in Locks
  BY DEF Rw, Li, Ref, Locks
<1>2. \A d \in Tree : Rw(d)[1] = "i_rwsem" /\ Li(d)[1] = "i_li_lock" /\ Ref(d)[1] = "refs"
  BY DEF Rw, Li, Ref
<1>3. \A d \in Tree : Rw(d)[2] = d /\ Li(d)[2] = d /\ Ref(d)[2] = d
  BY DEF Rw, Li, Ref
<1>4. /\ Transition \in Locks /\ Transition[1] = "li_transition_lock"
      /\ RenameMutex \in Locks /\ RenameMutex[1] = "s_vfs_rename_mutex"
  BY DEF Transition, RenameMutex, Locks
<1> QED
  BY <1>1, <1>2, <1>3, <1>4

LEMMA LockSorts ==
  ASSUME NEW l \in Locks
  PROVE  \/ l[1] \in {"i_rwsem", "i_li_lock", "refs"}
         \/ l \in {Transition, RenameMutex}
BY DEF Locks

(* What a caller that waits holds (Shape), whether another that holds K is *)
(* in its way (Blocks), and the level of its wait: of those that wait, the *)
(* one in the way is always at a higher level. At the top is the caller    *)
(* that waits for the i_li_lock of other: who has it waits for nobody.     *)
Shape(ren, x, H) ==
  \/ /\ x.act = "start" /\ ~H.han /\ Lacks(H, {"i_li_lock", "refs"})
  \/ /\ x.act = "drain" /\ ~H.han /\ Lacks(H, {"i_li_lock", "refs"})
     /\ x.lock[1] = "refs"
  \/ /\ x.act \in {"lock", "share"} /\ x.lock[1] = "i_rwsem"
     /\ Orderly(ren, x.lock, H)
  \/ /\ x.act = "lock" /\ x.lock \in {Transition, RenameMutex}
     /\ Both(H) = {} /\ ~H.han /\ (x.lock = RenameMutex => ren)
  \/ /\ x.act = "lock" /\ x.lock \in {Li("root"), Li("other")}
     /\ \A k \in Both(H) : k[1] = "i_li_lock" =>
          k = Li("root") /\ x.lock = Li("other")
Blocks(x, K) ==
  CASE x.act = "start" -> K.han
    [] x.act = "drain" -> x.lock \in K.sh
    [] OTHER -> x.lock \in Both(K)
Level(ren, x, H) ==
  CASE x.act \in {"start", "drain"} -> 6
    [] x.act \notin {"start", "drain"} /\ x.lock = Transition -> 0
    [] x.act \notin {"start", "drain"} /\ x.lock = RenameMutex -> 1
    [] x.act \notin {"start", "drain"} /\ x.lock = Li("root") -> 7
    [] x.act \notin {"start", "drain"} /\ x.lock = Li("other") -> 8
    [] OTHER -> IF Gate(ren) \notin H.own
                THEN IF Lacks(H, {"i_rwsem"}) THEN 1 ELSE 3
                ELSE IF x.lock = Rw("up") THEN 2
                ELSE IF x.lock = Rw("root") THEN 4 ELSE 5

LEMMA LevelOf ==
  ASSUME NEW ren, NEW x, NEW H
  PROVE
    /\ x.act \in {"start", "drain"} => Level(ren, x, H) = 6
    /\ x.act = "lock" /\ x.lock = Transition => Level(ren, x, H) = 0
    /\ x.act = "lock" /\ x.lock = RenameMutex => Level(ren, x, H) = 1
    /\ x.act = "lock" /\ x.lock = Li("root") => Level(ren, x, H) = 7
    /\ x.act = "lock" /\ x.lock = Li("other") => Level(ren, x, H) = 8
    /\ x.act \in {"lock", "share"} /\ x.lock[1] = "i_rwsem" =>
         Level(ren, x, H) =
           IF Gate(ren) \notin H.own
           THEN IF Lacks(H, {"i_rwsem"}) THEN 1 ELSE 3
           ELSE IF x.lock = Rw("up") THEN 2
           ELSE IF x.lock = Rw("root") THEN 4 ELSE 5
<1>1. /\ Transition[1] = "li_transition_lock" /\ RenameMutex[1] = "s_vfs_rename_mutex"
      /\ Li("root")[1] = "i_li_lock" /\ Li("other")[1] = "i_li_lock"
      /\ Li("root") # Li("other")
  BY LockFacts DEF Tree
<1> QED
  BY <1>1 DEF Level

(* Whoever is in the way of a caller and waits itself, waits at a higher   *)
(* level.                                                                  *)
LEMMA Rises ==
  ASSUME NEW ren \in BOOLEAN, NEW x, NEW y, NEW H, NEW K,
         H.han \in BOOLEAN, K.han \in BOOLEAN,
         Shape(ren, x, H), Shape(ren, y, K), Blocks(x, K),
         \A l \in Locks : ~(l \in H.own /\ l \in K.own),
         \A l \in K.sh : l[1] \in {"i_rwsem", "refs"}
  PROVE  Level(ren, y, K) > Level(ren, x, H)
<1> USE DEF Lacks
<1>1. CASE x.act \in {"start", "drain"}
  <2>1. Level(ren, x, H) = 6
    BY <1>1, LevelOf
  <2>2. K.han \/ \E k \in Both(K) : k[1] = "refs"
    BY <1>1 DEF Shape, Blocks, Both
  <2>3. y.act = "lock" /\ y.lock \in {Li("root"), Li("other")}
    BY <2>2 DEF Shape, Orderly
  <2> QED
    BY <2>1, <2>3, LevelOf
<1>2. CASE x.act = "lock" /\ x.lock \in {Transition, RenameMutex}
  <2>1. x.lock \in Both(K)
    BY <1>2 DEF Blocks
  <2>2. CASE y.act \in {"start", "drain"} \/ (y.act
          = "lock" /\ y.lock \in {Li("root"), Li("other")})
    BY <2>2, <1>2, LevelOf
  <2>3. CASE y.act \in {"lock", "share"} /\ y.lock[1] = "i_rwsem"
    <3>1. CASE x.lock = Transition
      BY <3>1, <1>2, <2>3, LevelOf
    <3>2. CASE x.lock = RenameMutex
      <4>1. ren
        BY <3>2, <1>2, LockFacts DEF Shape, Tree
      <4>2. Gate(ren) \in K.own
        BY <4>1, <3>2, <2>1, LockFacts DEF Gate, Both
      <4>3. Level(ren, x, H) = 1
        BY <3>2, <1>2, LevelOf
      <4>4. Level(ren, y, K) \in {2, 4, 5}
        BY <2>3, <4>2, LevelOf
      <4> QED
        BY <4>3, <4>4
    <3> QED
      BY <3>1, <3>2, <1>2
  <2> QED
    BY <2>1, <2>2, <2>3 DEF Shape
<1>3. CASE x.act = "lock" /\ x.lock \in {Li("root"), Li("other")}
  <2>1. x.lock \in Both(K) /\ x.lock[1] = "i_li_lock"
    BY <1>3, LockFacts DEF Blocks, Tree
  <2>2. y.act = "lock" /\ y.lock = Li("other") /\ x.lock = Li("root")
    BY <2>1, <1>3 DEF Shape, Orderly
  <2> QED
    BY <2>2, <1>3, LevelOf
<1>4. CASE x.act \in {"lock", "share"} /\ x.lock[1] = "i_rwsem"
  <2>1. x.lock \in Both(K) /\ x.lock[1] = "i_rwsem" /\ Orderly(ren, x.lock, H)
    BY <1>4, LockFacts DEF Blocks, Shape, Tree
  <2>2. Level(ren, x, H) \in 0..5
    BY <1>4, LevelOf
  <2>3. CASE y.act \in {"start", "drain"} \/ (y.act
          = "lock" /\ y.lock \in {Li("root"), Li("other")})
    BY <2>2, <2>3, LevelOf
  <2>4. CASE y.act \in {"lock", "share"} /\ y.lock[1] = "i_rwsem"
    <3>1. Orderly(ren, y.lock, K)
      BY <2>4, LockFacts DEF Shape, Tree
    <3>2. Gate(ren) \in Locks
      BY LockFacts DEF Gate
    <3> QED
      BY <3>1, <3>2, <2>1, <2>4, <1>4, LevelOf, LockFacts DEF Orderly, Tree, Both
  <2> QED
    BY <2>1, <2>3, <2>4 DEF Shape
<1> QED
  BY <1>1, <1>2, <1>3, <1>4 DEF Shape

LEMMA LevelRange ==
  ASSUME NEW ren, NEW x, NEW H, Shape(ren, x, H)
  PROVE  Level(ren, x, H) \in 0..8
BY LevelOf DEF Shape

(* The inductive invariant: every caller holds what its remaining steps    *)
(* expect, references to a blob are only shared, and only directories and  *)
(* references are.                                                         *)
LockIInv ==
  /\ kinds \in OpSets
  /\ left \in [Caller -> Seq(StepSet)]
  /\ owner \in [Locks -> Caller \cup {"none"}]
  /\ shared \in [Locks -> SUBSET Caller]
  /\ handles \subseteq Caller
  /\ barrier \in BOOLEAN
  /\ \A c \in Caller : Good("rename" \in kinds, left[c], HeldBy(c))
  /\ \A l \in Locks : /\ owner[l] # "none" => l[1] # "refs"
                      /\ shared[l] # {} => l[1] \in {"i_rwsem", "refs"}

LEMMA HeldTyped ==
  ASSUME LockIInv, NEW c \in Caller
  PROVE  /\ HeldBy(c) \in Holding
         /\ \A l \in Locks : /\ l \in HeldBy(c).own <=> owner[l] = c
                             /\ l \in HeldBy(c).sh <=> c \in shared[l]
         /\ HeldBy(c).own \subseteq Locks /\ HeldBy(c).sh \subseteq Locks
         /\ HeldBy(c).han = (c \in handles)
BY DEF LockIInv, HeldBy, Hold, Holding

(* A caller that waits is safe at a step that can wait.                    *)
LEMMA WaitShape ==
  ASSUME LockIInv, NEW c \in Caller, NEW d \in WaitsFor(c)
  PROVE  /\ ~Idle(c) /\ Next1(c) \in StepSet
         /\ Shape("rename" \in kinds, Next1(c), HeldBy(c))
         /\ d \in Caller => Blocks(Next1(c), HeldBy(d))
<1>1. ~Idle(c)
  BY DEF WaitsFor, Taking
<1>2. Next1(c) \in StepSet
  BY <1>1 DEF LockIInv, Idle, Next1
<1>3. Safe("rename" \in kinds, Next1(c), HeldBy(c))
  BY <1>1, GoodUnfold DEF LockIInv, Idle, Next1
<1> DEFINE x == Next1(c)
<1>4. Next1(c).lock \in Locks
  BY <1>2 DEF StepSet
<1>5. CASE Next1(c).act = "start"
  <2>1. c \notin handles /\ d \in handles
    BY <1>1, <1>5 DEF WaitsFor, Taking
  <2>2. Lacks(HeldBy(c), {"i_li_lock", "refs"}) /\ ~HeldBy(c).han
    BY <1>3, <1>5, <2>1, HeldTyped DEF Safe
  <2>3. d \in Caller => HeldBy(d).han
    BY <2>1, HeldTyped
  <2> QED
    BY <1>1, <1>2, <1>5, <2>2, <2>3 DEF Shape, Blocks
<1>6. CASE Next1(c).act = "drain"
  <2>1. d \in shared[Next1(c).lock]
    BY <1>1, <1>6 DEF WaitsFor, Taking
  <2>2. d \in Caller => Next1(c).lock \in HeldBy(d).sh
    BY <2>1, <1>4, HeldTyped
  <2>3. Shape("rename" \in kinds, Next1(c), HeldBy(c))
    BY <1>3, <1>6 DEF Safe, Shape
  <2> QED
    BY <1>1, <1>2, <1>6, <2>2, <2>3 DEF Blocks
<1>7. CASE Next1(c).act = "lock"
  <2>1. d \in shared[Next1(c).lock] \/ (d = owner[Next1(c).lock])
    BY <1>1, <1>7 DEF WaitsFor, Taking
  <2>2. d \in Caller => Next1(c).lock \in Both(HeldBy(d))
    BY <2>1, <1>4, HeldTyped DEF Both
  <2>3. Shape("rename" \in kinds, Next1(c), HeldBy(c))
    BY <1>3, <1>4, <1>7, LockSorts DEF Safe, Shape
  <2> QED
    BY <1>1, <1>2, <1>7, <2>2, <2>3 DEF Blocks
<1>8. CASE Next1(c).act = "share"
  <2>1. d = owner[Next1(c).lock] /\ d # "none"
    BY <1>1, <1>8 DEF WaitsFor, Taking
  <2>2. d \in Caller => Next1(c).lock \in Both(HeldBy(d))
    BY <2>1, <1>4, HeldTyped DEF Both
  <2>3. Next1(c).lock[1] # "refs"
    BY <2>1, <1>4 DEF LockIInv
  <2>4. Shape("rename" \in kinds, Next1(c), HeldBy(c))
    BY <1>3, <1>8, <2>3 DEF Safe, Shape
  <2> QED
    BY <1>1, <1>2, <1>8, <2>2, <2>4 DEF Blocks
<1> QED
  BY <1>1, <1>5, <1>6, <1>7, <1>8 DEF WaitsFor, Taking

LEMMA WaitingRises ==
  ASSUME LockIInv, NEW c \in Caller, NEW d \in Caller, d \in WaitsFor(c),
         NEW e \in WaitsFor(d)
  PROVE  Level("rename" \in kinds, Next1(d), HeldBy(d))
           > Level("rename" \in kinds, Next1(c), HeldBy(c))
<1>1. Shape("rename" \in kinds, Next1(c), HeldBy(c)) /\ Blocks(Next1(c), HeldBy(d))
  BY WaitShape
<1>2. Shape("rename" \in kinds, Next1(d), HeldBy(d))
  BY WaitShape
<1>3. HeldBy(c).han \in BOOLEAN /\ HeldBy(d).han \in BOOLEAN
  BY HeldTyped DEF Holding
<1>4. \A l \in HeldBy(d).sh : l[1] \in {"i_rwsem", "refs"}
  BY HeldTyped DEF LockIInv
<1>5. c # d
  <2>1. Next1(c) \in StepSet /\ Safe("rename" \in kinds, Next1(c), HeldBy(c))
    BY WaitShape, GoodUnfold DEF LockIInv, Idle, Next1
  <2>2. Next1(c).act = "start" => c \notin handles /\ d \in handles
    BY WaitShape DEF WaitsFor, Taking
  <2>3. Next1(c).act = "drain" => Lacks(HeldBy(c), {"refs"}) /\ Next1(c).lock[1] = "refs"
    BY <2>1 DEF Safe, Lacks
  <2>4. Next1(c).act \in {"lock", "share"} => Next1(c).lock \notin Both(HeldBy(c))
    BY <2>1 DEF Safe
  <2> QED
    BY <1>1, <2>2, <2>3, <2>4 DEF Blocks, Shape, Lacks, Both
<1>6. \A l \in Locks : ~(l \in HeldBy(c).own /\ l \in HeldBy(d).own)
  BY <1>5, HeldTyped
<1>7. PICK ren \in BOOLEAN : ren = ("rename" \in kinds)
  <2>1. CASE "rename" \in kinds
    <3>1. TRUE \in BOOLEAN /\ TRUE = ("rename" \in kinds)
      BY <2>1
    <3> QED
      BY Zenon, <3>1
  <2>2. CASE "rename" \notin kinds
    <3>1. FALSE \in BOOLEAN /\ FALSE = ("rename" \in kinds)
      BY <2>2
    <3> QED
      BY Zenon, <3>1
  <2> QED
    BY <2>1, <2>2
<1>8. Shape(ren, Next1(c), HeldBy(c)) /\ Shape(ren, Next1(d), HeldBy(d))
  BY <1>1, <1>2, <1>7
<1>9. Level(ren, Next1(d), HeldBy(d)) > Level(ren, Next1(c), HeldBy(c))
  BY <1>1, <1>3, <1>4, <1>6, <1>8, Rises
<1> QED
  BY <1>7, <1>9

(* If each of some callers waited for one of them, their levels would rise *)
(* without end.                                                            *)
LEMMA LockIInvNobodyStuck ==
  ASSUME LockIInv PROVE NobodyStuck
<1> SUFFICES ASSUME NEW callers \in (SUBSET Caller) \ {{}},
                    \A c \in callers : ~(WaitsFor(c) \cap callers = {})
             PROVE  FALSE
  BY Zenon DEF NobodyStuck
<1> DEFINE L(c) == Level("rename" \in kinds, Next1(c), HeldBy(c))
<1> DEFINE Reached(n) == \E c \in callers : L(c) >= n
<1>1. \A c \in callers : L(c) \in 0..8
  BY WaitShape, LevelRange
<1>2. \A c \in callers : \E d \in callers : L(d) > L(c)
  <2> TAKE c \in callers
  <2>1. PICK d \in callers : d \in WaitsFor(c)
    OBVIOUS
  <2>2. PICK e : e \in WaitsFor(d)
    OBVIOUS
  <2> QED
    BY <2>1, <2>2, WaitingRises
<1> HIDE DEF L
<1>3. ASSUME NEW n \in 0..8, Reached(n) PROVE Reached(n + 1)
  <2>1. PICK c \in callers : L(c) >= n
    BY <1>3
  <2>2. PICK d \in callers : L(d) > L(c)
    BY <1>2
  <2>3. L(d) >= n + 1
    BY <1>1, <2>1, <2>2
  <2> QED
    BY <2>3
<1>4. Reached(0)
  BY <1>1
<1>5. Reached(1) /\ Reached(2) /\ Reached(3)
  <2>1. Reached(0 + 1)
    BY <1>3, <1>4
  <2> HIDE DEF Reached
  <2>2. Reached(1 + 1)
    BY <1>3, <2>1
  <2>3. Reached(2 + 1)
    BY <1>3, <2>2
  <2> QED
    BY <2>1, <2>2, <2>3
<1>6. Reached(4) /\ Reached(5) /\ Reached(6)
  <2> HIDE DEF Reached
  <2>1. Reached(3 + 1)
    BY <1>3, <1>5
  <2>2. Reached(4 + 1)
    BY <1>3, <2>1
  <2>3. Reached(5 + 1)
    BY <1>3, <2>2
  <2> QED
    BY <2>1, <2>2, <2>3
<1>7. Reached(9)
  <2> HIDE DEF Reached
  <2>1. Reached(6 + 1)
    BY <1>3, <1>6
  <2>2. Reached(7 + 1)
    BY <1>3, <2>1
  <2>3. Reached(8 + 1)
    BY <1>3, <2>2
  <2> QED
    BY <2>3
<1> QED
  BY <1>1, <1>7

LEMMA AfterActs ==
  ASSUME NEW x, NEW H
  PROVE  /\ x.act \in {"lock", "try"} => After(x, H) = Hold(H.own \cup {x.lock}, H.sh, H.han)
         /\ x.act = "share" => After(x, H) = Hold(H.own, H.sh \cup {x.lock}, H.han)
         /\ x.act = "unlock" => After(x, H) = Hold(H.own \ {x.lock}, H.sh, H.han)
         /\ x.act = "start" => After(x, H) = Hold(H.own, H.sh, TRUE)
         /\ x.act = "stop" => After(x, H) = Hold(H.own, H.sh, FALSE)
         /\ x.act = "out" => After(x, H) = Hold(H.own \cap x.keep, H.sh \cap x.keep, FALSE)
         /\ x.act \in {"check", "drain"} => After(x, H) = H
BY DEF After

LEMMA Runs ==
  ASSUME LockIInv, NEW c \in Caller, ~Idle(c)
  PROVE  /\ Next1(c) \in StepSet /\ Next1(c).lock \in Locks
         /\ Tail(left[c]) \in Seq(StepSet)
         /\ Safe("rename" \in kinds, Next1(c), HeldBy(c))
         /\ Good("rename" \in kinds, Tail(left[c]), After(Next1(c), HeldBy(c)))
         /\ Next1(c).act \in {"check", "try"} =>
              Good("rename" \in kinds, AtOut(left[c]), HeldBy(c))
<1>1. Next1(c) \in StepSet /\ Tail(left[c]) \in Seq(StepSet)
  BY DEF LockIInv, Idle, Next1
<1>2. Next1(c).lock \in Locks
  BY <1>1 DEF StepSet
<1> QED
  BY <1>1, <1>2, GoodUnfold DEF LockIInv, Idle, Next1

(* One caller moves; the others hold what they held.                       *)
LEMMA OthersHold ==
  ASSUME LockIInv, NEW c \in Caller,
         kinds' = kinds, left' \in [Caller -> Seq(StepSet)],
         \A d \in Caller \ {c} : left'[d] = left[d] /\ HeldBy(d)' = HeldBy(d),
         Good("rename" \in kinds, left'[c], HeldBy(c)'),
         owner' \in [Locks -> Caller \cup {"none"}],
         shared' \in [Locks -> SUBSET Caller],
         handles' \subseteq Caller, barrier' \in BOOLEAN,
         \A l \in Locks : /\ owner'[l] # "none" => l[1] # "refs"
                          /\ shared'[l] # {} => l[1] \in {"i_rwsem", "refs"}
  PROVE  LockIInv'
<1>1. \A d \in Caller : Good("rename" \in kinds, left'[d], HeldBy(d)')
  BY DEF LockIInv
<1> QED
  BY <1>1 DEF LockIInv

LEMMA StepTakes ==
  ASSUME LockIInv, NEW c \in Caller, ~Idle(c), Remaining(c),
         kinds' = kinds, barrier' = barrier,
         \A d \in Caller \ {c} : HeldBy(d)' = HeldBy(d),
         HeldBy(c)' = After(Next1(c), HeldBy(c)),
         owner' \in [Locks -> Caller \cup {"none"}],
         shared' \in [Locks -> SUBSET Caller],
         handles' \subseteq Caller,
         \A l \in Locks : /\ owner'[l] # "none" => l[1] # "refs"
                          /\ shared'[l] # {} => l[1] \in {"i_rwsem", "refs"}
  PROVE  LockIInv'
<1>1. left \in [Caller -> Seq(StepSet)] /\ Tail(left[c]) \in Seq(StepSet)
  BY Runs DEF LockIInv
<1>2. left' \in [Caller -> Seq(StepSet)] /\ left'[c] = Tail(left[c])
      /\ \A d \in Caller \ {c} : left'[d] = left[d]
  BY <1>1 DEF Remaining
<1>3. Good("rename" \in kinds, left'[c], HeldBy(c)')
  BY <1>2, Runs
<1>4. barrier' \in BOOLEAN
  BY DEF LockIInv
<1> QED
  BY <1>2, <1>3, <1>4, OthersHold

LEMMA HeldNext ==
  ASSUME NEW d
  PROVE  HeldBy(d)' = Hold({l \in Locks : owner'[l] = d}, {l \in Locks : d \in shared'[l]},
                           d \in handles')
BY DEF HeldBy

LEMMA HeldNow ==
  ASSUME NEW d
  PROVE  /\ HeldBy(d).own = {l \in Locks : owner[l] = d}
         /\ HeldBy(d).sh = {l \in Locks : d \in shared[l]}
         /\ HeldBy(d).han = (d \in handles)
         /\ HeldBy(d) = Hold({l \in Locks : owner[l] = d}, {l \in Locks : d \in shared[l]},
                             d \in handles)
BY DEF HeldBy, Hold

(* The actions keep LockIInv.                                              *)
LEMMA TakeLockKeeps ==
  ASSUME LockIInv, NEW c \in Caller, TakeLock(c) PROVE LockIInv'
<1> DEFINE x == Next1(c)
<1>1. ~Idle(c) /\ x.act \in {"lock", "try"} /\ x.lock \in Locks /\ c # "none"
  BY Runs, LockAssumption DEF TakeLock, Taking
<1>2. Safe("rename" \in kinds, x, HeldBy(c))
  BY <1>1, Runs
<1> HIDE DEF x
<1>3. /\ owner[x.lock] = "none" /\ owner' = [owner EXCEPT ![x.lock] = c]
      /\ kinds' = kinds /\ shared' = shared /\ handles' = handles /\ barrier' = barrier
      /\ Remaining(c)
  BY DEF TakeLock, FreeForWriting, x
<1>4. /\ owner' \in [Locks -> Caller \cup {"none"}] /\ owner'[x.lock] = c
      /\ \A l \in Locks : l # x.lock => owner'[l] = owner[l]
  BY <1>1, <1>3 DEF LockIInv
<1>5. \A d \in Caller \ {c} : HeldBy(d)' = HeldBy(d)
  <2> TAKE d \in Caller \ {c}
  <2>1. {l \in Locks : owner'[l] = d} = {l \in Locks : owner[l] = d}
    BY <1>1, <1>3, <1>4, LockAssumption
  <2> QED
    BY <2>1, <1>3, HeldNext, HeldNow
<1>6. HeldBy(c)' = After(x, HeldBy(c))
  <2>1. {l \in Locks : owner'[l] = c} = {l \in Locks : owner[l] = c} \cup {x.lock}
    BY <1>1, <1>3, <1>4
  <2>2. After(x, HeldBy(c)) = Hold(HeldBy(c).own \cup {x.lock}, HeldBy(c).sh, HeldBy(c).han)
    BY <1>1, AfterActs
  <2> QED
    BY <2>1, <2>2, <1>3, HeldNext, HeldNow
<1>7. x.lock[1] # "refs"
  BY <1>1, <1>2, LockFacts DEF Safe
<1>8. \A l \in Locks : /\ owner'[l] # "none" => l[1] # "refs"
                       /\ shared'[l] # {} => l[1] \in {"i_rwsem", "refs"}
  BY <1>3, <1>4, <1>7 DEF LockIInv
<1>9. shared' \in [Locks -> SUBSET Caller] /\ handles' \subseteq Caller
  BY <1>3 DEF LockIInv
<1> QED
  BY <1>1, <1>3, <1>4, <1>5, <1>6, <1>8, <1>9, StepTakes DEF x

LEMMA TakeSharedKeeps ==
  ASSUME LockIInv, NEW c \in Caller, TakeShared(c) PROVE LockIInv'
<1> DEFINE x == Next1(c)
<1>1. ~Idle(c) /\ x.act = "share" /\ x.lock \in Locks
  BY Runs DEF TakeShared, Taking
<1>2. Safe("rename" \in kinds, x, HeldBy(c))
  BY <1>1, Runs
<1> HIDE DEF x
<1>3. /\ shared' = [shared EXCEPT ![x.lock] = @ \cup {c}]
      /\ kinds' = kinds /\ owner' = owner /\ handles' = handles /\ barrier' = barrier
      /\ Remaining(c)
  BY DEF TakeShared, x
<1>4. /\ shared' \in [Locks -> SUBSET Caller] /\ shared'[x.lock] = shared[x.lock] \cup {c}
      /\ \A l \in Locks : l # x.lock => shared'[l] = shared[l]
  BY <1>1, <1>3 DEF LockIInv
<1>5. \A d \in Caller \ {c} : HeldBy(d)' = HeldBy(d)
  <2> TAKE d \in Caller \ {c}
  <2>1. {l \in Locks : d \in shared'[l]} = {l \in Locks : d \in shared[l]}
    BY <1>1, <1>3, <1>4
  <2> QED
    BY <2>1, <1>3, HeldNext, HeldNow
<1>6. HeldBy(c)' = After(x, HeldBy(c))
  <2>1. {l \in Locks : c \in shared'[l]} = {l \in Locks : c \in shared[l]} \cup {x.lock}
    BY <1>1, <1>3, <1>4
  <2>2. After(x, HeldBy(c)) = Hold(HeldBy(c).own, HeldBy(c).sh \cup {x.lock}, HeldBy(c).han)
    BY <1>1, AfterActs
  <2> QED
    BY <2>1, <2>2, <1>3, HeldNext, HeldNow
<1>7. x.lock[1] \in {"i_rwsem", "refs"}
  BY <1>1, <1>2 DEF Safe
<1>8. \A l \in Locks : /\ owner'[l] # "none" => l[1] # "refs"
                       /\ shared'[l] # {} => l[1] \in {"i_rwsem", "refs"}
  BY <1>3, <1>4, <1>7 DEF LockIInv
<1>9. owner' \in [Locks -> Caller \cup {"none"}] /\ handles' \subseteq Caller
  BY <1>3 DEF LockIInv
<1> QED
  BY <1>1, <1>3, <1>4, <1>5, <1>6, <1>8, <1>9, StepTakes DEF x

LEMMA GiveLockKeeps ==
  ASSUME LockIInv, NEW c \in Caller, GiveLock(c) PROVE LockIInv'
<1> DEFINE x == Next1(c)
<1>1. ~Idle(c) /\ x.act = "unlock" /\ x.lock \in Locks /\ c # "none"
  BY Runs, LockAssumption DEF GiveLock, Taking
<1>2. Safe("rename" \in kinds, x, HeldBy(c))
  BY <1>1, Runs
<1> HIDE DEF x
<1>3. /\ owner' = [owner EXCEPT ![x.lock] = "none"]
      /\ kinds' = kinds /\ shared' = shared /\ handles' = handles /\ barrier' = barrier
      /\ Remaining(c)
  BY DEF GiveLock, x
<1>4. /\ owner' \in [Locks -> Caller \cup {"none"}] /\ owner'[x.lock] = "none"
      /\ \A l \in Locks : l # x.lock => owner'[l] = owner[l]
  BY <1>1, <1>3 DEF LockIInv
<1>5. owner[x.lock] = c
  BY <1>1, <1>2, HeldTyped DEF Safe
<1>6. \A d \in Caller \ {c} : HeldBy(d)' = HeldBy(d)
  <2> TAKE d \in Caller \ {c}
  <2>1. {l \in Locks : owner'[l] = d} = {l \in Locks : owner[l] = d}
    BY <1>1, <1>4, <1>5, LockAssumption
  <2> QED
    BY <2>1, <1>3, HeldNext, HeldNow
<1>7. HeldBy(c)' = After(x, HeldBy(c))
  <2>1. {l \in Locks : owner'[l] = c} = {l \in Locks : owner[l] = c} \ {x.lock}
    BY <1>1, <1>4
  <2>2. After(x, HeldBy(c)) = Hold(HeldBy(c).own \ {x.lock}, HeldBy(c).sh, HeldBy(c).han)
    BY <1>1, AfterActs
  <2> QED
    BY <2>1, <2>2, <1>3, HeldNext, HeldNow
<1>8. \A l \in Locks : /\ owner'[l] # "none" => l[1] # "refs"
                       /\ shared'[l] # {} => l[1] \in {"i_rwsem", "refs"}
  BY <1>3, <1>4 DEF LockIInv
<1>9. shared' \in [Locks -> SUBSET Caller] /\ handles' \subseteq Caller
  BY <1>3 DEF LockIInv
<1> QED
  BY <1>1, <1>3, <1>4, <1>6, <1>7, <1>8, <1>9, StepTakes DEF x

LEMMA PassesKeeps ==
  ASSUME LockIInv, NEW c \in Caller, Passes(c) PROVE LockIInv'
<1>1. ~Idle(c) /\ Next1(c).act \in {"check", "drain"}
  BY DEF Passes, Taking
<1>2. UNCHANGED <<kinds, owner, shared, handles, barrier>> /\ Remaining(c)
  BY DEF Passes
<1>3. \A d \in Caller : HeldBy(d)' = HeldBy(d)
  BY <1>2, HeldNext, HeldNow
<1>4. HeldBy(c)' = After(Next1(c), HeldBy(c))
  BY <1>1, <1>3, AfterActs
<1>5. /\ owner' \in [Locks -> Caller \cup {"none"}] /\ shared' \in [Locks -> SUBSET Caller]
      /\ handles' \subseteq Caller
      /\ \A l \in Locks : /\ owner'[l] # "none" => l[1] # "refs"
                          /\ shared'[l] # {} => l[1] \in {"i_rwsem", "refs"}
  BY <1>2 DEF LockIInv
<1> QED
  BY <1>1, <1>2, <1>3, <1>4, <1>5, StepTakes

LEMMA FailsKeeps ==
  ASSUME LockIInv, NEW c \in Caller, Fails(c) PROVE LockIInv'
<1>1. ~Idle(c) /\ Next1(c).act \in {"check", "try"}
  BY DEF Fails, Taking
<1>2. /\ UNCHANGED <<kinds, owner, shared, handles, barrier>>
      /\ left' = [left EXCEPT ![c] = AtOut(left[c])]
  BY DEF Fails, AtOut
<1>3. Good("rename" \in kinds, AtOut(left[c]), HeldBy(c))
  BY <1>1, Runs
<1>4. AtOut(left[c]) \in Seq(StepSet)
  BY <1>3, GoodTyped
<1>5. left \in [Caller -> Seq(StepSet)]
  BY DEF LockIInv
<1>6. left' \in [Caller -> Seq(StepSet)] /\ left'[c] = AtOut(left[c])
      /\ \A d \in Caller \ {c} : left'[d] = left[d]
  BY <1>2, <1>4, <1>5
<1>7. \A d \in Caller : HeldBy(d)' = HeldBy(d)
  BY <1>2, HeldNext, HeldNow
<1>8. /\ owner' \in [Locks -> Caller \cup {"none"}] /\ shared' \in [Locks -> SUBSET Caller]
      /\ handles' \subseteq Caller /\ barrier' \in BOOLEAN /\ kinds' = kinds
      /\ \A l \in Locks : /\ owner'[l] # "none" => l[1] # "refs"
                          /\ shared'[l] # {} => l[1] \in {"i_rwsem", "refs"}
  BY <1>2 DEF LockIInv
<1>9. Good("rename" \in kinds, left'[c], HeldBy(c)')
  BY <1>3, <1>6, <1>7
<1> QED
  BY <1>6, <1>7, <1>8, <1>9, OthersHold

LEMMA CleansUpKeeps ==
  ASSUME LockIInv, NEW c \in Caller, CleansUp(c) PROVE LockIInv'
<1> DEFINE x == Next1(c)
<1>1. ~Idle(c) /\ x.act = "out" /\ c # "none"
  BY LockAssumption DEF CleansUp, Taking
<1> HIDE DEF x
<1>2. /\ owner' = [l \in Locks |-> IF owner[l] = c /\ l \notin x.keep
                                   THEN "none" ELSE owner[l]]
      /\ shared' = [l \in Locks |-> IF l \in x.keep THEN shared[l] ELSE shared[l] \ {c}]
      /\ handles' = handles \ {c}
      /\ kinds' = kinds /\ barrier' = barrier /\ Remaining(c)
  BY DEF CleansUp, x
<1>3. \A l \in Locks :
        /\ owner'[l] = (IF owner[l] = c /\ l \notin x.keep THEN "none" ELSE owner[l])
        /\ shared'[l] = (IF l \in x.keep THEN shared[l] ELSE shared[l] \ {c})
  BY <1>2
<1>4. owner' \in [Locks -> Caller \cup {"none"}] /\ shared' \in [Locks -> SUBSET Caller]
      /\ handles' \subseteq Caller
  BY <1>2 DEF LockIInv
<1>5. \A d \in Caller \ {c} : HeldBy(d)' = HeldBy(d)
  <2> TAKE d \in Caller \ {c}
  <2>1. {l \in Locks : owner'[l] = d} = {l \in Locks : owner[l] = d}
    BY <1>3, LockAssumption
  <2>2. {l \in Locks : d \in shared'[l]} = {l \in Locks : d \in shared[l]}
    BY <1>3
  <2>3. (d \in handles') = (d \in handles)
    BY <1>2
  <2> QED
    BY <2>1, <2>2, <2>3, HeldNext, HeldNow
<1>6. HeldBy(c)' = After(x, HeldBy(c))
  <2>1. {l \in Locks : owner'[l] = c} = {l \in Locks : owner[l] = c} \cap x.keep
    BY <1>1, <1>3
  <2>2. {l \in Locks : c \in shared'[l]} = {l \in Locks : c \in shared[l]} \cap x.keep
    BY <1>3
  <2>3. (c \in handles') = FALSE
    BY <1>2
  <2>4. After(x, HeldBy(c)) = Hold(HeldBy(c).own \cap x.keep, HeldBy(c).sh \cap x.keep, FALSE)
    BY <1>1, AfterActs
  <2> QED
    BY <2>1, <2>2, <2>3, <2>4, HeldNext, HeldNow
<1>7. \A l \in Locks : /\ owner'[l] # "none" => l[1] # "refs"
                       /\ shared'[l] # {} => l[1] \in {"i_rwsem", "refs"}
  BY <1>3 DEF LockIInv
<1> QED
  BY <1>1, <1>2, <1>4, <1>5, <1>6, <1>7, StepTakes DEF x

LEMMA HandleKeeps ==
  ASSUME LockIInv, NEW c \in Caller, StartHandle(c) \/ StopHandle(c) PROVE LockIInv'
<1>1. ~Idle(c)
  BY DEF StartHandle, StopHandle, Taking
<1>2. UNCHANGED <<kinds, owner, shared, barrier>> /\ Remaining(c)
  BY DEF StartHandle, StopHandle
<1>3. /\ handles' \subseteq Caller
      /\ \A d \in Caller \ {c} : (d \in handles') = (d \in handles)
  BY DEF StartHandle, StopHandle, LockIInv
<1>7. HeldBy(c)' = Hold(HeldBy(c).own, HeldBy(c).sh, c \in handles')
  <2>3. owner' = owner /\ shared' = shared
    BY <1>2
  <2>4. /\ HeldBy(c).own = {l \in Locks : owner[l] = c}
        /\ HeldBy(c).sh = {l \in Locks : c \in shared[l]}
    BY Zenon, HeldNow
  <2>1. /\ {l \in Locks : owner'[l] = c} = HeldBy(c).own
        /\ {l \in Locks : c \in shared'[l]} = HeldBy(c).sh
    BY <2>3, <2>4
  <2>2. HeldBy(c)' = Hold({l \in Locks : owner'[l] = c}, {l \in Locks : c \in shared'[l]},
                         c \in handles')
    BY HeldNext
  <2> QED
    BY <2>1, <2>2, Zenon
<1>4. HeldBy(c)' = After(Next1(c), HeldBy(c))
  <2>1. CASE StartHandle(c)
    <3>1. Next1(c).act = "start" /\ (c \in handles') = TRUE
      BY <2>1 DEF StartHandle, Taking
    <3>2. After(Next1(c), HeldBy(c)) = Hold(HeldBy(c).own, HeldBy(c).sh, TRUE)
      BY <3>1, AfterActs
    <3> QED
      BY <3>1, <3>2, <1>7, Zenon
  <2>2. CASE StopHandle(c)
    <3>1. Next1(c).act = "stop" /\ (c \in handles') = FALSE
      BY <2>2 DEF StopHandle, Taking
    <3>2. After(Next1(c), HeldBy(c)) = Hold(HeldBy(c).own, HeldBy(c).sh, FALSE)
      BY <3>1, AfterActs
    <3> QED
      BY <3>1, <3>2, <1>7, Zenon
  <2> QED
    BY <2>1, <2>2
<1>5. \A d \in Caller \ {c} : HeldBy(d)' = HeldBy(d)
  BY <1>2, <1>3, HeldNext, HeldNow
<1>6. /\ owner' \in [Locks -> Caller \cup {"none"}] /\ shared' \in [Locks -> SUBSET Caller]
      /\ \A l \in Locks : /\ owner'[l] # "none" => l[1] # "refs"
                          /\ shared'[l] # {} => l[1] \in {"i_rwsem", "refs"}
  BY <1>2 DEF LockIInv
<1> QED
  BY <1>1, <1>2, <1>3, <1>4, <1>5, <1>6, StepTakes

LEMMA CommitKeeps ==
  ASSUME LockIInv, CommitLocks \/ CommitProceeds PROVE LockIInv'
<1>1. UNCHANGED <<kinds, left, owner, shared, handles>> /\ barrier' \in BOOLEAN
  BY DEF CommitLocks, CommitProceeds
<1>2. \A d \in Caller : HeldBy(d)' = HeldBy(d)
  BY <1>1, HeldNext, HeldNow
<1> QED
  BY <1>1, <1>2 DEF LockIInv

(* Orderly for holdings that are spelled out, and then what each kind of   *)
(* step does to them.                                                      *)
Clear(O, S, sorts) == \A k \in O \cup S : k[1] \notin sorts
Allows(ren, l, O, S) ==
  /\ Clear(O, S, {"i_li_lock", "refs"})
  /\ \/ Clear(O, S, {"i_rwsem"})
     \/ /\ Gate(ren) \notin O
        /\ Transition \in O /\ l = Rw("root")
        /\ \A k \in O \cup S : k[1] = "i_rwsem" => k = Rw("up")
     \/ /\ Gate(ren) \in O
        /\ \A k \in O \cup S : k[1] = "i_rwsem" =>
             /\ l = Rw("up") => k = Rw("other")
             /\ l = Rw("root") => k \in {Rw("up"), Rw("other")}

LEMMA HeldFree ==
  ASSUME NEW O \in SUBSET Locks, NEW S \in SUBSET Locks
  PROVE  /\ Hold(O, S, FALSE) \in Holding /\ Both(Hold(O, S, FALSE)) = O \cup S
         /\ Hold(O, S, FALSE).own = O /\ Hold(O, S, FALSE).sh = S
         /\ Hold(O, S, FALSE).han = FALSE
BY DEF Hold, Holding, Both

LEMMA AllowsOrderly ==
  ASSUME NEW ren, NEW O \in SUBSET Locks, NEW S \in SUBSET Locks, NEW d \in Tree,
         Allows(ren, Rw(d), O, S)
  PROVE  Orderly(ren, Rw(d), Hold(O, S, FALSE))
<1>1. /\ Both(Hold(O, S, FALSE)) = O \cup S /\ Hold(O, S, FALSE).own = O
      /\ Hold(O, S, FALSE).han = FALSE
  BY HeldFree
<1>2. ASSUME Clear(O, S, {"i_rwsem"}) PROVE \A k \in O \cup S : k[1] # "i_rwsem"
  BY <1>2 DEF Clear
<1> QED
  BY <1>1, <1>2 DEF Allows, Orderly, Lacks, Clear

LEMMA StepIn ==
  ASSUME NEW l \in Locks, NEW a \in Acts
  PROVE  /\ Step(a, l) \in StepSet /\ Step(a, l).act = a /\ Step(a, l).lock = l
BY DEF Step, StepSet

LEMMA TakeRun ==
  ASSUME NEW ren, NEW X, NEW l \in Locks, NEW a \in {"lock", "try"},
         NEW O \in SUBSET Locks, NEW S \in SUBSET Locks, NEW h \in BOOLEAN,
         Safe(ren, Step(a, l), Hold(O, S, h)), a = "try" => Hold(O, S, h) \in X
  PROVE  Run(ren, <<Step(a, l)>>, X, Hold(O, S, h), X, Hold(O \cup {l}, S, h))
<1>1. Step(a, l) \in StepSet /\ Step(a, l).act = a /\ Step(a, l).lock = l
  BY StepIn DEF Acts
<1>2. Hold(O, S, h) \in Holding /\ Hold(O, S, h).own = O /\ Hold(O, S, h).sh = S
      /\ Hold(O, S, h).han = h
  BY HoldTyped
<1>3. After(Step(a, l), Hold(O, S, h)) = Hold(O \cup {l}, S, h)
  BY <1>1, <1>2 DEF After, Hold
<1>4. Run(ren, <<Step(a, l)>>, X, Hold(O, S, h), X, After(Step(a, l), Hold(O, S, h)))
  BY <1>1, <1>2, RunStep
<1> QED
  BY <1>3, <1>4

LEMMA AcquireRwRun ==
  ASSUME NEW ren, NEW X, NEW d \in Tree, NEW O \in SUBSET Locks, NEW S \in SUBSET Locks,
         Rw(d) \notin O \cup S, Allows(ren, Rw(d), O, S)
  PROVE  /\ Run(ren, Acquire(Rw(d)), X, Hold(O, S, FALSE), X, Hold(O \cup {Rw(d)}, S, FALSE))
         /\ Run(ren, Share(Rw(d)), X, Hold(O, S, FALSE), X, Hold(O, S \cup {Rw(d)}, FALSE))
<1>1. /\ Rw(d) \in Locks /\ Rw(d)[1] = "i_rwsem" /\ Rw(d) # Transition /\ Rw(d) # RenameMutex
  BY LockFacts
<1>2. Orderly(ren, Rw(d), Hold(O, S, FALSE))
  BY AllowsOrderly
<1>3. /\ Hold(O, S, FALSE) \in Holding /\ Both(Hold(O, S, FALSE)) = O \cup S
      /\ Hold(O, S, FALSE).own = O /\ Hold(O, S, FALSE).sh = S
      /\ Hold(O, S, FALSE).han = FALSE
  BY HeldFree
<1>4. \A a \in {"lock", "share"} :
        Step(a, Rw(d)) \in StepSet /\ Step(a, Rw(d)).act = a /\ Step(a, Rw(d)).lock = Rw(d)
  BY <1>1, StepIn DEF Acts
<1>5. \A a \in {"lock", "share"} : Safe(ren, Step(a, Rw(d)), Hold(O, S, FALSE))
  BY <1>1, <1>2, <1>3, <1>4 DEF Safe
<1>6. Run(ren, Acquire(Rw(d)), X, Hold(O, S, FALSE), X, Hold(O \cup {Rw(d)}, S, FALSE))
  BY <1>1, <1>5, TakeRun DEF Acquire
<1>7. After(Step("share", Rw(d)), Hold(O, S, FALSE)) = Hold(O, S \cup {Rw(d)}, FALSE)
  BY <1>3, <1>4 DEF After, Hold
<1>8. Run(ren, <<Step("share", Rw(d))>>, X, Hold(O, S, FALSE), X,
          After(Step("share", Rw(d)), Hold(O, S, FALSE)))
  BY <1>3, <1>4, <1>5, RunStep
<1> QED
  BY <1>6, <1>7, <1>8 DEF Share

LEMMA AcquireLiRun ==
  ASSUME NEW ren, NEW X, NEW r \in {"root", "other"},
         NEW O \in SUBSET Locks, NEW S \in SUBSET Locks, NEW h \in BOOLEAN,
         Li(r) \notin O \cup S,
         \A k \in O \cup S : k[1] = "i_li_lock" => k = Li("root") /\ r = "other"
  PROVE  Run(ren, Acquire(Li(r)), X, Hold(O, S, h), X, Hold(O \cup {Li(r)}, S, h))
<1>1. /\ Li(r) \in Locks /\ Li(r)[1] = "i_li_lock" /\ Li(r) # Transition /\ Li(r) # RenameMutex
      /\ Li("root") # Li("other")
  BY LockFacts DEF Tree
<1>2. Both(Hold(O, S, h)) = O \cup S
  BY HoldTyped
<1>3. Step("lock", Li(r)).act = "lock" /\ Step("lock", Li(r)).lock = Li(r)
  BY <1>1, StepIn DEF Acts
<1>4. Safe(ren, Step("lock", Li(r)), Hold(O, S, h))
  BY <1>1, <1>2, <1>3 DEF Safe
<1> QED
  BY <1>1, <1>4, TakeRun DEF Acquire

LEMMA AcquireGateRun ==
  ASSUME NEW ren, NEW X, NEW l \in {Transition, RenameMutex}, l = RenameMutex => ren
  PROVE  Run(ren, Acquire(l), X, Nothing, X, Hold({l}, {}, FALSE))
<1>1. l \in Locks /\ l[1] \in {"li_transition_lock", "s_vfs_rename_mutex"}
      /\ l \notin {Li("root"), Li("other")} /\ Transition # RenameMutex
  BY LockFacts DEF Tree
<1>2. Both(Nothing) = {} /\ Nothing.han = FALSE
  BY DEF Nothing, Hold, Both
<1>3. Step("lock", l).act = "lock" /\ Step("lock", l).lock = l
  BY <1>1, StepIn DEF Acts
<1>4. Safe(ren, Step("lock", l), Nothing)
  BY <1>1, <1>2, <1>3 DEF Safe
<1>5. Run(ren, Acquire(l), X, Nothing, X, Hold({} \cup {l}, {}, FALSE))
  BY <1>1, <1>4, TakeRun DEF Acquire, Nothing
<1>6. {} \cup {l} = {l}
  OBVIOUS
<1> QED
  BY <1>5, <1>6

LEMMA TryRun ==
  ASSUME NEW ren, NEW X, NEW O \in SUBSET Locks, NEW S \in SUBSET Locks,
         RenameMutex \notin O \cup S, Hold(O, S, FALSE) \in X
  PROVE  Run(ren, TryLock(RenameMutex), X, Hold(O, S, FALSE), X,
             Hold(O \cup {RenameMutex}, S, FALSE))
<1>1. RenameMutex \in Locks
  BY LockFacts
<1>2. Both(Hold(O, S, FALSE)) = O \cup S
  BY HeldFree
<1>3. Step("try", RenameMutex).act = "try" /\ Step("try", RenameMutex).lock = RenameMutex
  BY <1>1, StepIn DEF Acts
<1>4. Safe(ren, Step("try", RenameMutex), Hold(O, S, FALSE))
  BY <1>1, <1>2, <1>3 DEF Safe
<1> QED
  BY <1>1, <1>4, TakeRun DEF TryLock

LEMMA ShareRefRun ==
  ASSUME NEW ren, NEW X, NEW r \in Tree, NEW O \in SUBSET Locks, NEW S \in SUBSET Locks,
         Ref(r) \notin O \cup S
  PROVE  Run(ren, Share(Ref(r)), X, Hold(O, S, FALSE), X, Hold(O, S \cup {Ref(r)}, FALSE))
<1>1. Ref(r) \in Locks /\ Ref(r)[1] = "refs"
  BY LockFacts
<1>2. /\ Hold(O, S, FALSE) \in Holding /\ Both(Hold(O, S, FALSE)) = O \cup S
      /\ Hold(O, S, FALSE).own = O /\ Hold(O, S, FALSE).sh = S
      /\ Hold(O, S, FALSE).han = FALSE
  BY HeldFree
<1>3. /\ Step("share", Ref(r)) \in StepSet /\ Step("share", Ref(r)).act = "share"
      /\ Step("share", Ref(r)).lock = Ref(r)
  BY <1>1, StepIn DEF Acts
<1>4. Safe(ren, Step("share", Ref(r)), Hold(O, S, FALSE))
  BY <1>1, <1>2, <1>3 DEF Safe
<1>5. After(Step("share", Ref(r)), Hold(O, S, FALSE)) = Hold(O, S \cup {Ref(r)}, FALSE)
  BY <1>2, <1>3 DEF After, Hold
<1>6. Run(ren, <<Step("share", Ref(r))>>, X, Hold(O, S, FALSE), X,
          After(Step("share", Ref(r)), Hold(O, S, FALSE)))
  BY <1>2, <1>3, <1>4, RunStep
<1> QED
  BY <1>5, <1>6 DEF Share

LEMMA ReleaseRun ==
  ASSUME NEW ren, NEW X, NEW l \in Locks, NEW O \in SUBSET Locks, NEW S \in SUBSET Locks,
         NEW h \in BOOLEAN, l \in O
  PROVE  Run(ren, Release(l), X, Hold(O, S, h), X, Hold(O \ {l}, S, h))
<1>1. /\ Step("unlock", l) \in StepSet /\ Step("unlock", l).act = "unlock"
      /\ Step("unlock", l).lock = l
  BY StepIn DEF Acts
<1>2. /\ Hold(O, S, h) \in Holding /\ Hold(O, S, h).own = O /\ Hold(O, S, h).sh = S
      /\ Hold(O, S, h).han = h
  BY HoldTyped
<1>3. Safe(ren, Step("unlock", l), Hold(O, S, h))
  BY <1>1, <1>2 DEF Safe
<1>4. After(Step("unlock", l), Hold(O, S, h)) = Hold(O \ {l}, S, h)
  BY <1>1, <1>2 DEF After, Hold
<1>5. Run(ren, <<Step("unlock", l)>>, X, Hold(O, S, h), X,
        After(Step("unlock", l), Hold(O, S, h)))
  BY <1>1, <1>2, <1>3, RunStep
<1> QED
  BY <1>4, <1>5 DEF Release

LEMMA CheckRun ==
  ASSUME NEW ren, NEW X, NEW H \in Holding, H \in X
  PROVE  Run(ren, Check, X, H, X, H)
<1>1. /\ Step("check", Transition) \in StepSet /\ Step("check", Transition).act = "check"
  BY StepIn, LockFacts DEF Acts
<1>2. Safe(ren, Step("check", Transition), H)
  BY <1>1 DEF Safe
<1>3. After(Step("check", Transition), H) = H
  BY <1>1 DEF After, Hold
<1>4. Run(ren, <<Step("check", Transition)>>, X, H, X, After(Step("check", Transition), H))
  BY <1>1, <1>2, RunStep
<1> QED
  BY <1>3, <1>4 DEF Check

LEMMA DrainRun ==
  ASSUME NEW ren, NEW X, NEW r \in Tree, NEW O \in SUBSET Locks, NEW S \in SUBSET Locks,
         Clear(O, S, {"i_li_lock", "refs"})
  PROVE  Run(ren, Drain(r), X, Hold(O, S, FALSE), X, Hold(O, S, FALSE))
<1>1. Ref(r) \in Locks /\ Ref(r)[1] = "refs"
  BY LockFacts
<1>2. /\ Step("drain", Ref(r)) \in StepSet /\ Step("drain", Ref(r)).act = "drain"
      /\ Step("drain", Ref(r)).lock = Ref(r)
  BY <1>1, StepIn DEF Acts
<1>3. /\ Hold(O, S, FALSE) \in Holding /\ Both(Hold(O, S, FALSE)) = O \cup S
      /\ Hold(O, S, FALSE).han = FALSE
  BY HeldFree
<1>4. Safe(ren, Step("drain", Ref(r)), Hold(O, S, FALSE))
  BY <1>1, <1>2, <1>3 DEF Safe, Lacks, Clear
<1>5. After(Step("drain", Ref(r)), Hold(O, S, FALSE)) = Hold(O, S, FALSE)
  BY <1>2 DEF After, Hold
<1>6. Run(ren, <<Step("drain", Ref(r))>>, X, Hold(O, S, FALSE), X,
          After(Step("drain", Ref(r)), Hold(O, S, FALSE)))
  BY <1>2, <1>3, <1>4, RunStep
<1> QED
  BY <1>5, <1>6 DEF Drain

LEMMA StartStopRun ==
  ASSUME NEW ren, NEW X, NEW O \in SUBSET Locks, NEW S \in SUBSET Locks
  PROVE  /\ Clear(O, S, {"i_li_lock", "refs"}) =>
              Run(ren, Start, X, Hold(O, S, FALSE), X, Hold(O, S, TRUE))
         /\ Run(ren, Stop, X, Hold(O, S, TRUE), X, Hold(O, S, FALSE))
<1>1. \A a \in {"start", "stop"} :
        Step(a, Transition) \in StepSet /\ Step(a, Transition).act = a
  BY LockFacts, StepIn DEF Acts
<1>2. \A h \in BOOLEAN : /\ Hold(O, S, h) \in Holding /\ Both(Hold(O, S, h)) = O \cup S
                         /\ Hold(O, S, h).own = O /\ Hold(O, S, h).sh = S
  BY HoldTyped
<1>3. Clear(O, S, {"i_li_lock", "refs"})
        => Safe(ren, Step("start", Transition), Hold(O, S, FALSE))
  BY <1>1, <1>2 DEF Safe, Lacks, Clear
<1>4. Safe(ren, Step("stop", Transition), Hold(O, S, TRUE))
  BY <1>1 DEF Safe
<1>5. /\ After(Step("start", Transition), Hold(O, S, FALSE)) = Hold(O, S, TRUE)
      /\ After(Step("stop", Transition), Hold(O, S, TRUE)) = Hold(O, S, FALSE)
  BY <1>1, <1>2 DEF After, Hold
<1>6. Clear(O, S, {"i_li_lock", "refs"}) =>
        Run(ren, <<Step("start", Transition)>>, X, Hold(O, S, FALSE), X,
            After(Step("start", Transition), Hold(O, S, FALSE)))
  BY <1>1, <1>2, <1>3, RunStep
<1>7. Run(ren, <<Step("stop", Transition)>>, X, Hold(O, S, TRUE), X,
          After(Step("stop", Transition), Hold(O, S, TRUE)))
  BY <1>1, <1>2, <1>4, RunStep
<1> QED
  BY <1>5, <1>6, <1>7 DEF Start, Stop

LEMMA HandleRun ==
  ASSUME NEW ren, NEW X, NEW O \in SUBSET Locks, NEW S \in SUBSET Locks,
         Clear(O, S, {"i_li_lock", "refs"})
  PROVE  Run(ren, Handle, X, Hold(O, S, FALSE), X, Hold(O, S, FALSE))
BY StartStopRun, RunChain DEF Handle

LEMMA BrieflyLiRun ==
  ASSUME NEW ren, NEW X, NEW r \in {"root", "other"},
         NEW O \in SUBSET Locks, NEW S \in SUBSET Locks, NEW h \in BOOLEAN,
         Clear(O, S, {"i_li_lock"})
  PROVE  Run(ren, Briefly(Li(r)), X, Hold(O, S, h), X, Hold(O, S, h))
<1>1. Li(r) \in Locks /\ Li(r)[1] = "i_li_lock"
  BY LockFacts DEF Tree
<1>2. \A k \in O \cup S : k[1] # "i_li_lock"
  BY DEF Clear
<1>3. Run(ren, Acquire(Li(r)), X, Hold(O, S, h), X, Hold(O \cup {Li(r)}, S, h))
  BY <1>1, <1>2, AcquireLiRun
<1>4. PICK P \in SUBSET Locks : P = O \cup {Li(r)}
  BY <1>1
<1>5. Run(ren, Release(Li(r)), X, Hold(P, S, h), X, Hold(P \ {Li(r)}, S, h))
  BY <1>1, <1>4, ReleaseRun
<1>6. P \ {Li(r)} = O
  BY <1>1, <1>2, <1>4
<1> QED
  BY <1>3, <1>4, <1>5, <1>6, RunChain DEF Briefly

LEMMA BrieflyRwRun ==
  ASSUME NEW ren, NEW X, NEW d \in Tree, NEW O \in SUBSET Locks, NEW S \in SUBSET Locks,
         Rw(d) \notin O \cup S, Allows(ren, Rw(d), O, S)
  PROVE  Run(ren, Briefly(Rw(d)), X, Hold(O, S, FALSE), X, Hold(O, S, FALSE))
<1>1. Rw(d) \in Locks
  BY LockFacts
<1>2. PICK P \in SUBSET Locks : P = O \cup {Rw(d)}
  BY <1>1
<1>3. Run(ren, Acquire(Rw(d)), X, Hold(O, S, FALSE), X, Hold(P, S, FALSE))
  BY <1>2, AcquireRwRun
<1>4. Run(ren, Release(Rw(d)), X, Hold(P, S, FALSE), X, Hold(P \ {Rw(d)}, S, FALSE))
  BY <1>1, <1>2, ReleaseRun
<1>5. P \ {Rw(d)} = O
  BY <1>1, <1>2
<1> QED
  BY <1>3, <1>4, <1>5, RunChain DEF Briefly

LEMMA OutRun ==
  ASSUME NEW ren, NEW X, NEW X0 \in SUBSET Holding, NEW keep \in SUBSET Locks,
         NEW O \in SUBSET Locks, NEW S \in SUBSET Locks, NEW h \in BOOLEAN,
         NEW P, NEW T, O \cap keep = P, S \cap keep = T,
         \A I \in X0 : I.own \cap keep = P /\ I.sh \cap keep = T
  PROVE  Run(ren, Out(keep), X0, Hold(O, S, h), X, Hold(P, T, FALSE))
<1> DEFINE x == [act |-> "out", lock |-> Transition, keep |-> keep]
<1>1. x \in StepSet /\ x.act = "out" /\ x.keep = keep /\ Out(keep) = <<x>>
  BY LockFacts DEF StepSet, Acts, Out
<1> HIDE DEF x
<1>2. Hold(O, S, h) \in Holding /\ Hold(O, S, h).own = O /\ Hold(O, S, h).sh = S
  BY HoldTyped
<1>3. After(x, Hold(O, S, h)) = Hold(P, T, FALSE)
  BY <1>1, <1>2 DEF After, Hold
<1>4. \A I \in X0 : After(x, I) = After(x, Hold(O, S, h))
  BY <1>1, <1>3 DEF After, Hold
<1>5. Run(ren, <<x>>, X0, Hold(O, S, h), X, After(x, Hold(O, S, h)))
  BY <1>1, <1>2, <1>4, RunOut
<1> QED
  BY <1>1, <1>3, <1>5

LEMMA HeldOpen ==
  ASSUME NEW O \in SUBSET Locks, NEW S \in SUBSET Locks
  PROVE  Hold(O, S, TRUE) \in Holding
BY DEF Hold, Holding

(* Every program is good from nothing. The proofs go through the programs  *)
(* step by step, with what is held after each.                             *)
LEMMA MutateGood ==
  ASSUME NEW ren, NEW d \in Tree
  PROVE  Good(ren, Mutate(d), Nothing)
<1>1. PICK c1 : /\ c1 = Acquire(Rw(d))
                /\ Run(ren, c1, Holding, Nothing, Holding,
                       Hold({Rw(d)}, {}, FALSE))
  <2>1. /\ {} \in SUBSET Locks
        /\ {} \in SUBSET Locks
        /\ Rw(d) \notin {} \cup {}
        /\ Allows(ren, Rw(d), {}, {})
        /\ {} \cup {Rw(d)} = {Rw(d)}
    BY LockFacts DEF Tree, Clear, Allows, Gate
  <2>2. Run(ren, Acquire(Rw(d)), Holding, Nothing, Holding,
            Hold({Rw(d)}, {}, FALSE))
    BY <2>1, AcquireRwRun DEF Nothing
  <2> QED
    BY <2>2
<1>2. PICK c2 : /\ c2 = c1 \o Start
                /\ Run(ren, c2, Holding, Nothing, Holding,
                       Hold({Rw(d)}, {}, TRUE))
  <2>1. /\ {Rw(d)} \in SUBSET Locks
        /\ {} \in SUBSET Locks
        /\ Clear({Rw(d)}, {}, {"i_li_lock", "refs"})
    BY LockFacts DEF Tree, Clear, Allows, Gate
  <2>2. Run(ren, Start, Holding, Hold({Rw(d)}, {}, FALSE), Holding,
            Hold({Rw(d)}, {}, TRUE))
    BY <2>1, StartStopRun
  <2>3. Run(ren, c1 \o Start, Holding, Nothing, Holding,
            Hold({Rw(d)}, {}, TRUE))
    BY <1>1, <2>2, RunChain
  <2> QED
    BY <2>3
<1>3. PICK c3 : /\ c3 = c2 \o (IF d = "up" THEN <<>> ELSE Briefly(Li(RootOf(d))))
                /\ Run(ren, c3, Holding, Nothing, Holding,
                       Hold({Rw(d)}, {}, TRUE))
  <2>2. Run(ren, (IF d = "up" THEN <<>> ELSE Briefly(Li(RootOf(d)))), Holding,
          Hold({Rw(d)}, {}, TRUE), Holding,
            Hold({Rw(d)}, {}, TRUE))
    <3>1. /\ {Rw(d)} \in SUBSET Locks /\ {} \in SUBSET Locks
          /\ Clear({Rw(d)}, {}, {"i_li_lock"})
      BY LockFacts DEF Clear
    <3>2. CASE d = "up"
      BY <3>2, RunNone
    <3>3. CASE d # "up"
      <4>1. RootOf(d) \in {"root", "other"}
        BY <3>3 DEF RootOf, Region, Tree
      <4>2. PICK r \in {"root", "other"} : r = RootOf(d)
        BY <4>1
      <4>3. Run(ren, Briefly(Li(r)), Holding, Hold({Rw(d)}, {}, TRUE), Holding,
                Hold({Rw(d)}, {}, TRUE))
        BY <3>1, BrieflyLiRun
      <4> QED
        BY <3>3, <4>2, <4>3
    <3> QED
      BY <3>2, <3>3
  <2>3. Run(ren, c2 \o (IF d = "up" THEN <<>> ELSE Briefly(Li(RootOf(d)))), Holding, Nothing,
          Holding,
            Hold({Rw(d)}, {}, TRUE))
    BY <1>2, <2>2, RunChain
  <2> QED
    BY <2>3
<1>4. PICK c4 : /\ c4 = c3 \o Stop
                /\ Run(ren, c4, Holding, Nothing, Holding,
                       Hold({Rw(d)}, {}, FALSE))
  <2>1. /\ {Rw(d)} \in SUBSET Locks
        /\ {} \in SUBSET Locks
    BY LockFacts DEF Tree, Clear, Allows, Gate
  <2>2. Run(ren, Stop, Holding, Hold({Rw(d)}, {}, TRUE), Holding,
            Hold({Rw(d)}, {}, FALSE))
    BY <2>1, StartStopRun
  <2>3. Run(ren, c3 \o Stop, Holding, Nothing, Holding,
            Hold({Rw(d)}, {}, FALSE))
    BY <1>3, <2>2, RunChain
  <2> QED
    BY <2>3
<1>5. Mutate(d) = c4 \o Out({})
  BY <1>1, <1>2, <1>3, <1>4 DEF Mutate
<1>6. Hold({Rw(d)}, {}, FALSE) \in Holding
  <2>1. {Rw(d)} \in SUBSET Locks /\ {} \in SUBSET Locks
    BY LockFacts DEF Tree
  <2> QED
    BY <2>1, HeldFree
<1> QED
  BY <1>4, <1>5, <1>6, LastOut

(* The i_li_lock of one root or of two in their order.                     *)
LEMMA RootsRun ==
  ASSUME NEW ren, NEW d \in Tree, NEW e \in Tree, NEW O \in SUBSET Locks,
         Clear(O, {}, {"i_li_lock"})
  PROVE  \E P \in SUBSET Locks :
           Run(ren, RootsInOrder(d, e), Holding, Hold(O, {}, TRUE), Holding, Hold(P, {}, TRUE))
<1> DEFINE r == {RootOf(d), RootOf(e)} \cap Roots
<1>1. RootsInOrder(d, e) =
        IF Cardinality(r) = 2 THEN Acquire(Li("root")) \o Acquire(Li("other"))
        ELSE IF r = {} THEN <<>> ELSE Acquire(Li(CHOOSE x \in r : TRUE))
  BY DEF RootsInOrder
<1>2. r \subseteq {"root", "other"}
  BY DEF Roots
<1> HIDE DEF r
<1>3. /\ Li("root") \in Locks /\ Li("other") \in Locks /\ Li("root") # Li("other")
      /\ \A k \in O \cup {} : k[1] # "i_li_lock"
      /\ Li("root")[1] = "i_li_lock" /\ Li("other")[1] = "i_li_lock"
  BY LockFacts DEF Tree, Clear
<1>4. \A x \in {"root", "other"} :
        Run(ren, Acquire(Li(x)), Holding, Hold(O, {}, TRUE), Holding,
            Hold(O \cup {Li(x)}, {}, TRUE))
  <2> TAKE x \in {"root", "other"}
  <2>1. Li(x) \notin O \cup {} /\ {} \in SUBSET Locks
    BY <1>3
  <2> QED
    BY <1>3, <2>1, AcquireLiRun
<1>5. CASE Cardinality(r) = 2
  <2>1. PICK P \in SUBSET Locks : P = O \cup {Li("root")}
    BY <1>3
  <2>2. /\ Li("other") \notin P \cup {} /\ {} \in SUBSET Locks
        /\ \A k \in P \cup {} : k[1] = "i_li_lock" => k = Li("root")
    BY <1>3, <2>1
  <2>3. Run(ren, Acquire(Li("other")), Holding, Hold(P, {}, TRUE), Holding,
            Hold(P \cup {Li("other")}, {}, TRUE))
    BY <2>2, AcquireLiRun
  <2>4. Run(ren, Acquire(Li("root")), Holding, Hold(O, {}, TRUE), Holding, Hold(P, {}, TRUE))
    BY <1>4, <2>1
  <2>5. Run(ren, RootsInOrder(d, e), Holding, Hold(O, {}, TRUE), Holding,
            Hold(P \cup {Li("other")}, {}, TRUE))
    BY <1>1, <1>5, <2>3, <2>4, RunChain
  <2>6. P \cup {Li("other")} \in SUBSET Locks
    BY <1>3
  <2> QED
    BY <2>5, <2>6
<1>6. CASE Cardinality(r) # 2 /\ r = {}
  <2>1. Run(ren, RootsInOrder(d, e), Holding, Hold(O, {}, TRUE), Holding, Hold(O, {}, TRUE))
    BY <1>1, <1>6, RunNone
  <2> QED
    BY <2>1
<1>7. CASE Cardinality(r) # 2 /\ r # {}
  <2>1. PICK x : x = CHOOSE y \in r : TRUE
    OBVIOUS
  <2>2. x \in {"root", "other"}
    BY <1>2, <1>7, <2>1
  <2>3. Run(ren, RootsInOrder(d, e), Holding, Hold(O, {}, TRUE), Holding,
            Hold(O \cup {Li(x)}, {}, TRUE))
    BY <1>1, <1>4, <1>7, <2>1, <2>2
  <2>4. O \cup {Li(x)} \in SUBSET Locks
    BY <1>3, <2>2
  <2> QED
    BY <2>3, <2>4
<1> QED
  BY <1>5, <1>6, <1>7

LEMMA RenameRun ==
  ASSUME NEW ren, ren, NEW x \in Tree, NEW y \in Tree, NEW d \in Tree, NEW e \in Tree,
         x # y, y = "up" => x = "other", y = "root" => x \in {"up", "other"}
  PROVE  Good(ren, Acquire(RenameMutex) \o Acquire(Rw(x)) \o Acquire(Rw(y)) \o Start
                   \o RootsInOrder(d, e) \o Stop \o Out({}), Nothing)
<1>a. ren /\ x # y /\ (y = "up" => x = "other") /\ (y = "root" => x \in {"up", "other"})
  OBVIOUS
<1>1. PICK c1 : /\ c1 = Acquire(RenameMutex)
                /\ Run(ren, c1, Holding, Nothing, Holding,
                       Hold({RenameMutex}, {}, FALSE))
  <2>1. /\ {} \in SUBSET Locks
        /\ {} \in SUBSET Locks
        /\ Transition # RenameMutex
    BY LockFacts DEF Tree, Clear, Allows, Gate
  <2>2. Run(ren, Acquire(RenameMutex), Holding, Nothing, Holding,
            Hold({RenameMutex}, {}, FALSE))
    BY <2>1, AcquireGateRun
  <2> QED
    BY <2>2
<1>2. PICK c2 : /\ c2 = c1 \o Acquire(Rw(x))
                /\ Run(ren, c2, Holding, Nothing, Holding,
                       Hold({RenameMutex, Rw(x)}, {}, FALSE))
  <2>1. /\ {RenameMutex} \in SUBSET Locks
        /\ {} \in SUBSET Locks
        /\ Rw(x) \notin {RenameMutex} \cup {}
        /\ Allows(ren, Rw(x), {RenameMutex}, {})
        /\ {RenameMutex} \cup {Rw(x)} = {RenameMutex, Rw(x)}
    BY LockFacts, <1>a DEF Tree, Clear, Allows, Gate
  <2>2. Run(ren, Acquire(Rw(x)), Holding, Hold({RenameMutex}, {}, FALSE), Holding,
            Hold({RenameMutex, Rw(x)}, {}, FALSE))
    BY <2>1, AcquireRwRun DEF Tree
  <2>3. Run(ren, c1 \o Acquire(Rw(x)), Holding, Nothing, Holding,
            Hold({RenameMutex, Rw(x)}, {}, FALSE))
    BY <1>1, <2>2, RunChain
  <2> QED
    BY <2>3
<1>3. PICK c3 : /\ c3 = c2 \o Acquire(Rw(y))
                /\ Run(ren, c3, Holding, Nothing, Holding,
                       Hold({RenameMutex, Rw(x), Rw(y)}, {}, FALSE))
  <2>1. /\ {RenameMutex, Rw(x)} \in SUBSET Locks
        /\ {} \in SUBSET Locks
        /\ Rw(y) \notin {RenameMutex, Rw(x)} \cup {}
        /\ Allows(ren, Rw(y), {RenameMutex, Rw(x)}, {})
        /\ {RenameMutex, Rw(x)} \cup {Rw(y)} = {RenameMutex, Rw(x), Rw(y)}
    BY LockFacts, <1>a DEF Tree, Clear, Allows, Gate
  <2>2. Run(ren, Acquire(Rw(y)), Holding, Hold({RenameMutex, Rw(x)}, {}, FALSE), Holding,
            Hold({RenameMutex, Rw(x), Rw(y)}, {}, FALSE))
    BY <2>1, AcquireRwRun DEF Tree
  <2>3. Run(ren, c2 \o Acquire(Rw(y)), Holding, Nothing, Holding,
            Hold({RenameMutex, Rw(x), Rw(y)}, {}, FALSE))
    BY <1>2, <2>2, RunChain
  <2> QED
    BY <2>3
<1>4. PICK c4 : /\ c4 = c3 \o Start
                /\ Run(ren, c4, Holding, Nothing, Holding,
                       Hold({RenameMutex, Rw(x), Rw(y)}, {}, TRUE))
  <2>1. /\ {RenameMutex, Rw(x), Rw(y)} \in SUBSET Locks
        /\ {} \in SUBSET Locks
        /\ Clear({RenameMutex, Rw(x), Rw(y)}, {}, {"i_li_lock", "refs"})
    BY LockFacts DEF Tree, Clear, Allows, Gate
  <2>2. Run(ren, Start, Holding, Hold({RenameMutex, Rw(x), Rw(y)}, {}, FALSE), Holding,
            Hold({RenameMutex, Rw(x), Rw(y)}, {}, TRUE))
    BY <2>1, StartStopRun
  <2>3. Run(ren, c3 \o Start, Holding, Nothing, Holding,
            Hold({RenameMutex, Rw(x), Rw(y)}, {}, TRUE))
    BY <1>3, <2>2, RunChain
  <2> QED
    BY <2>3
<1>5. PICK P \in SUBSET Locks :
        Run(ren, RootsInOrder(d, e), Holding, Hold({RenameMutex, Rw(x), Rw(y)}, {}, TRUE),
            Holding, Hold(P, {}, TRUE))
  <2>1. {RenameMutex, Rw(x), Rw(y)} \in SUBSET Locks /\ Clear({RenameMutex, Rw(x), Rw(y)},
          {}, {"i_li_lock"})
    BY LockFacts DEF Clear
  <2> QED
    BY <2>1, RootsRun
<1>6. Run(ren, c4 \o RootsInOrder(d, e), Holding, Nothing, Holding, Hold(P, {}, TRUE))
  BY <1>4, <1>5, RunChain
<1>7. {} \in SUBSET Locks
  OBVIOUS
<1>8. Run(ren, Stop, Holding, Hold(P, {}, TRUE), Holding, Hold(P, {}, FALSE))
  BY <1>7, StartStopRun
<1>9. Run(ren, (c4 \o RootsInOrder(d, e)) \o Stop, Holding, Nothing, Holding,
        Hold(P, {}, FALSE))
  BY <1>6, <1>8, RunChain
<1>10. Hold(P, {}, FALSE) \in Holding
  BY <1>7, HeldFree
<1>11. Good(ren, ((c4 \o RootsInOrder(d, e)) \o Stop) \o Out({}), Nothing)
  BY <1>9, <1>10, LastOut
<1> QED
  BY <1>1, <1>2, <1>3, <1>4, <1>11

LEMMA MutexAssociates ==
  ASSUME NEW x \in Tree, NEW y \in Tree
  PROVE  Acquire(RenameMutex) \o (Acquire(Rw(x)) \o Acquire(Rw(y)))
           = (Acquire(RenameMutex) \o Acquire(Rw(x))) \o Acquire(Rw(y))
<1>1. /\ Acquire(RenameMutex) \in Seq(StepSet)
      /\ Acquire(Rw(x)) \in Seq(StepSet) /\ Acquire(Rw(y)) \in Seq(StepSet)
  BY LockFacts, StepIn DEF Acquire, Acts
<1> QED
  BY <1>1

LEMMA RenameGood ==
  ASSUME NEW ren, ren, NEW d \in Tree, NEW e \in Tree, d # e
  PROVE  Good(ren, Rename(d, e), Nothing)
<1>1. CASE Ancestor(e, d)
  <2>1. Rename(d, e) = Acquire(RenameMutex) \o (Acquire(Rw(e)) \o Acquire(Rw(d))) \o Start
                         \o RootsInOrder(d, e) \o Stop \o Out({})
    BY <1>1 DEF Rename
  <2>2. d # "up" /\ (d = "root" => e \in {"up", "other"})
    BY <1>1 DEF Ancestor, Region
  <2> QED
    BY <2>1, <2>2, RenameRun, MutexAssociates
<1>2. CASE ~Ancestor(e, d)
  <2>1. Rename(d, e) = Acquire(RenameMutex) \o (Acquire(Rw(d)) \o Acquire(Rw(e))) \o Start
                         \o RootsInOrder(d, e) \o Stop \o Out({})
    BY <1>2 DEF Rename
  <2>2. /\ e = "up" => d = "other"
        /\ e = "root" => d \in {"up", "other"}
    BY <1>2 DEF Ancestor, Region, Tree
  <2> QED
    BY <2>1, <2>2, RenameRun, MutexAssociates
<1> QED
  BY <1>1, <1>2

LEMMA ListGood ==
  ASSUME ~ReclaimStarts, NEW ren, NEW d \in Region
  PROVE  Good(ren, List(d), Nothing)
<1>b. d \in Tree
  BY DEF Region, Tree
<1>1. PICK c1 : /\ c1 = Share(Rw(d))
                /\ Run(ren, c1, Holding, Nothing, Holding,
                       Hold({}, {Rw(d)}, FALSE))
  <2>1. /\ {} \in SUBSET Locks
        /\ {} \in SUBSET Locks
        /\ Rw(d) \notin {} \cup {}
        /\ Allows(ren, Rw(d), {}, {})
        /\ {} \cup {Rw(d)} = {Rw(d)}
    BY LockFacts, <1>b DEF Tree, Clear, Allows, Gate
  <2>2. Run(ren, Share(Rw(d)), Holding, Nothing, Holding,
            Hold({}, {Rw(d)}, FALSE))
    BY <2>1, <1>b, AcquireRwRun DEF Nothing
  <2> QED
    BY <2>2
<1>2. PICK c2 : /\ c2 = c1 \o Share(Ref("root"))
                /\ Run(ren, c2, Holding, Nothing, Holding,
                       Hold({}, {Rw(d), Ref("root")}, FALSE))
  <2>1. /\ {} \in SUBSET Locks
        /\ {Rw(d)} \in SUBSET Locks
        /\ Ref("root") \notin {} \cup {Rw(d)}
        /\ {Rw(d)} \cup {Ref("root")} = {Rw(d), Ref("root")}
    BY LockFacts, <1>b DEF Tree, Clear, Allows, Gate
  <2>2. Run(ren, Share(Ref("root")), Holding, Hold({}, {Rw(d)}, FALSE), Holding,
            Hold({}, {Rw(d), Ref("root")}, FALSE))
    BY <2>1, ShareRefRun DEF Tree
  <2>3. Run(ren, c1 \o Share(Ref("root")), Holding, Nothing, Holding,
            Hold({}, {Rw(d), Ref("root")}, FALSE))
    BY <1>1, <2>2, RunChain
  <2> QED
    BY <2>3
<1>3. PICK c3 : /\ c3 = c2 \o Acquire(Li("root"))
                /\ Run(ren, c3, Holding, Nothing, Holding,
                       Hold({Li("root")}, {Rw(d), Ref("root")}, FALSE))
  <2>1. /\ {} \in SUBSET Locks
        /\ {Rw(d), Ref("root")} \in SUBSET Locks
        /\ Li("root") \notin {} \cup {Rw(d), Ref("root")}
        /\ \A k \in {} \cup {Rw(d), Ref("root")} : k[1] = "i_li_lock"
             => k = Li("root") /\ "root" = "other"
        /\ {} \cup {Li("root")} = {Li("root")}
    BY LockFacts, <1>b DEF Tree, Clear, Allows, Gate
  <2>2. Run(ren, Acquire(Li("root")), Holding, Hold({}, {Rw(d), Ref("root")}, FALSE), Holding,
            Hold({Li("root")}, {Rw(d), Ref("root")}, FALSE))
    BY <2>1, AcquireLiRun
  <2>3. Run(ren, c2 \o Acquire(Li("root")), Holding, Nothing, Holding,
            Hold({Li("root")}, {Rw(d), Ref("root")}, FALSE))
    BY <1>2, <2>2, RunChain
  <2> QED
    BY <2>3
<1>c. c3 \o Allocate = c3
  <2>1. c3 \in Seq(StepSet)
    BY <1>3 DEF Run
  <2> QED
    BY <2>1 DEF Allocate
<1>4. PICK c4 : /\ c4 = c3 \o Release(Li("root"))
                /\ Run(ren, c4, Holding, Nothing, Holding,
                       Hold({}, {Rw(d), Ref("root")}, FALSE))
  <2>1. /\ {Li("root")} \in SUBSET Locks
        /\ {Rw(d), Ref("root")} \in SUBSET Locks
        /\ Li("root") \in Locks /\ Li("root") \in {Li("root")}
        /\ {Li("root")} \ {Li("root")} = {}
    BY LockFacts, <1>b DEF Tree, Clear, Allows, Gate
  <2>2. Run(ren, Release(Li("root")), Holding,
          Hold({Li("root")}, {Rw(d), Ref("root")}, FALSE), Holding,
            Hold({}, {Rw(d), Ref("root")}, FALSE))
    BY <2>1, ReleaseRun
  <2>3. Run(ren, c3 \o Release(Li("root")), Holding, Nothing, Holding,
            Hold({}, {Rw(d), Ref("root")}, FALSE))
    BY <1>3, <2>2, RunChain
  <2> QED
    BY <2>3
<1>5. List(d) = c4 \o Out({})
  BY <1>1, <1>2, <1>3, <1>4, <1>c DEF List, RootOf, Tree
<1>6. Hold({}, {Rw(d), Ref("root")}, FALSE) \in Holding
  <2>1. {} \in SUBSET Locks /\ {Rw(d), Ref("root")} \in SUBSET Locks
    BY LockFacts, <1>b DEF Tree
  <2> QED
    BY <2>1, HeldFree
<1> QED
  BY <1>4, <1>5, <1>6, LastOut

LEMMA CompactGood ==
  ASSUME ~ReclaimStarts, NEW ren
  PROVE  Good(ren, Compact("root"), Nothing)
<1>1. PICK c1 : /\ c1 = Briefly(Li("root"))
                /\ Run(ren, c1, Holding, Nothing, Holding,
                       Hold({}, {}, FALSE))
  <2>1. /\ {} \in SUBSET Locks
        /\ {} \in SUBSET Locks
        /\ Clear({}, {}, {"i_li_lock"})
    BY LockFacts DEF Tree, Clear, Allows, Gate
  <2>2. Run(ren, Briefly(Li("root")), Holding, Nothing, Holding,
            Hold({}, {}, FALSE))
    BY <2>1, BrieflyLiRun DEF Nothing
  <2> QED
    BY <2>2
<1>2. PICK c2 : /\ c2 = c1 \o Acquire(Rw("root"))
                /\ Run(ren, c2, Holding, Nothing, Holding,
                       Hold({Rw("root")}, {}, FALSE))
  <2>1. /\ {} \in SUBSET Locks
        /\ {} \in SUBSET Locks
        /\ Rw("root") \notin {} \cup {}
        /\ Allows(ren, Rw("root"), {}, {})
        /\ {} \cup {Rw("root")} = {Rw("root")}
    BY LockFacts DEF Tree, Clear, Allows, Gate
  <2>2. Run(ren, Acquire(Rw("root")), Holding, Hold({}, {}, FALSE), Holding,
            Hold({Rw("root")}, {}, FALSE))
    BY <2>1, AcquireRwRun DEF Tree
  <2>3. Run(ren, c1 \o Acquire(Rw("root")), Holding, Nothing, Holding,
            Hold({Rw("root")}, {}, FALSE))
    BY <1>1, <2>2, RunChain
  <2> QED
    BY <2>3
<1>3. PICK c3 : /\ c3 = c2 \o Briefly(Li("root"))
                /\ Run(ren, c3, Holding, Nothing, Holding,
                       Hold({Rw("root")}, {}, FALSE))
  <2>1. /\ {Rw("root")} \in SUBSET Locks
        /\ {} \in SUBSET Locks
        /\ Clear({Rw("root")}, {}, {"i_li_lock"})
    BY LockFacts DEF Tree, Clear, Allows, Gate
  <2>2. Run(ren, Briefly(Li("root")), Holding, Hold({Rw("root")}, {}, FALSE), Holding,
            Hold({Rw("root")}, {}, FALSE))
    BY <2>1, BrieflyLiRun
  <2>3. Run(ren, c2 \o Briefly(Li("root")), Holding, Nothing, Holding,
            Hold({Rw("root")}, {}, FALSE))
    BY <1>2, <2>2, RunChain
  <2> QED
    BY <2>3
<1>4. PICK c4 : /\ c4 = c3 \o Start
                /\ Run(ren, c4, Holding, Nothing, Holding,
                       Hold({Rw("root")}, {}, TRUE))
  <2>1. /\ {Rw("root")} \in SUBSET Locks
        /\ {} \in SUBSET Locks
        /\ Clear({Rw("root")}, {}, {"i_li_lock", "refs"})
    BY LockFacts DEF Tree, Clear, Allows, Gate
  <2>2. Run(ren, Start, Holding, Hold({Rw("root")}, {}, FALSE), Holding,
            Hold({Rw("root")}, {}, TRUE))
    BY <2>1, StartStopRun
  <2>3. Run(ren, c3 \o Start, Holding, Nothing, Holding,
            Hold({Rw("root")}, {}, TRUE))
    BY <1>3, <2>2, RunChain
  <2> QED
    BY <2>3
<1>5. PICK c5 : /\ c5 = c4 \o Briefly(Li("root"))
                /\ Run(ren, c5, Holding, Nothing, Holding,
                       Hold({Rw("root")}, {}, TRUE))
  <2>1. /\ {Rw("root")} \in SUBSET Locks
        /\ {} \in SUBSET Locks
        /\ Clear({Rw("root")}, {}, {"i_li_lock"})
    BY LockFacts DEF Tree, Clear, Allows, Gate
  <2>2. Run(ren, Briefly(Li("root")), Holding, Hold({Rw("root")}, {}, TRUE), Holding,
            Hold({Rw("root")}, {}, TRUE))
    BY <2>1, BrieflyLiRun
  <2>3. Run(ren, c4 \o Briefly(Li("root")), Holding, Nothing, Holding,
            Hold({Rw("root")}, {}, TRUE))
    BY <1>4, <2>2, RunChain
  <2> QED
    BY <2>3
<1>6. PICK c6 : /\ c6 = c5 \o Stop
                /\ Run(ren, c6, Holding, Nothing, Holding,
                       Hold({Rw("root")}, {}, FALSE))
  <2>1. /\ {Rw("root")} \in SUBSET Locks
        /\ {} \in SUBSET Locks
    BY LockFacts DEF Tree, Clear, Allows, Gate
  <2>2. Run(ren, Stop, Holding, Hold({Rw("root")}, {}, TRUE), Holding,
            Hold({Rw("root")}, {}, FALSE))
    BY <2>1, StartStopRun
  <2>3. Run(ren, c5 \o Stop, Holding, Nothing, Holding,
            Hold({Rw("root")}, {}, FALSE))
    BY <1>5, <2>2, RunChain
  <2> QED
    BY <2>3
<1>7. PICK c7 : /\ c7 = c6 \o Briefly(Li("root"))
                /\ Run(ren, c7, Holding, Nothing, Holding,
                       Hold({Rw("root")}, {}, FALSE))
  <2>1. /\ {Rw("root")} \in SUBSET Locks
        /\ {} \in SUBSET Locks
        /\ Clear({Rw("root")}, {}, {"i_li_lock"})
    BY LockFacts DEF Tree, Clear, Allows, Gate
  <2>2. Run(ren, Briefly(Li("root")), Holding, Hold({Rw("root")}, {}, FALSE), Holding,
            Hold({Rw("root")}, {}, FALSE))
    BY <2>1, BrieflyLiRun
  <2>3. Run(ren, c6 \o Briefly(Li("root")), Holding, Nothing, Holding,
            Hold({Rw("root")}, {}, FALSE))
    BY <1>6, <2>2, RunChain
  <2> QED
    BY <2>3
<1>8. PICK c8 : /\ c8 = c7 \o Release(Rw("root"))
                /\ Run(ren, c8, Holding, Nothing, Holding,
                       Hold({}, {}, FALSE))
  <2>1. /\ {Rw("root")} \in SUBSET Locks
        /\ {} \in SUBSET Locks
        /\ Rw("root") \in Locks /\ Rw("root") \in {Rw("root")}
        /\ {Rw("root")} \ {Rw("root")} = {}
    BY LockFacts DEF Tree, Clear, Allows, Gate
  <2>2. Run(ren, Release(Rw("root")), Holding, Hold({Rw("root")}, {}, FALSE), Holding,
            Hold({}, {}, FALSE))
    BY <2>1, ReleaseRun
  <2>3. Run(ren, c7 \o Release(Rw("root")), Holding, Nothing, Holding,
            Hold({}, {}, FALSE))
    BY <1>7, <2>2, RunChain
  <2> QED
    BY <2>3
<1>9. PICK c9 : /\ c9 = c8 \o Acquire(Li("root"))
                /\ Run(ren, c9, Holding, Nothing, Holding,
                       Hold({Li("root")}, {}, FALSE))
  <2>1. /\ {} \in SUBSET Locks
        /\ {} \in SUBSET Locks
        /\ Li("root") \notin {} \cup {}
        /\ \A k \in {} \cup {} : k[1] = "i_li_lock" => k = Li("root") /\ "root" = "other"
        /\ {} \cup {Li("root")} = {Li("root")}
    BY LockFacts DEF Tree, Clear, Allows, Gate
  <2>2. Run(ren, Acquire(Li("root")), Holding, Hold({}, {}, FALSE), Holding,
            Hold({Li("root")}, {}, FALSE))
    BY <2>1, AcquireLiRun
  <2>3. Run(ren, c8 \o Acquire(Li("root")), Holding, Nothing, Holding,
            Hold({Li("root")}, {}, FALSE))
    BY <1>8, <2>2, RunChain
  <2> QED
    BY <2>3
<1>10. PICK c10 : /\ c10 = c9 \o Check
                  /\ Run(ren, c10, Holding, Nothing, Holding,
                         Hold({Li("root")}, {}, FALSE))
  <2>0. /\ {Li("root")} \in SUBSET Locks
        /\ {} \in SUBSET Locks
    BY LockFacts DEF Tree
  <2>1. Hold({Li("root")}, {}, FALSE) \in Holding
    BY <2>0, LockFacts, HeldFree, HeldOpen DEF Tree
  <2>2. Run(ren, Check, Holding, Hold({Li("root")}, {}, FALSE), Holding,
            Hold({Li("root")}, {}, FALSE))
    BY <2>1, CheckRun
  <2>3. Run(ren, c9 \o Check, Holding, Nothing, Holding,
            Hold({Li("root")}, {}, FALSE))
    BY <1>9, <2>2, RunChain
  <2> QED
    BY <2>3
<1>a. c10 \o Allocate = c10
  <2>1. c10 \in Seq(StepSet)
    BY <1>10 DEF Run
  <2> QED
    BY <2>1 DEF Allocate
<1>11. PICK c11 : /\ c11 = c10 \o Release(Li("root"))
                  /\ Run(ren, c11, Holding, Nothing, Holding,
                         Hold({}, {}, FALSE))
  <2>1. /\ {Li("root")} \in SUBSET Locks
        /\ {} \in SUBSET Locks
        /\ Li("root") \in Locks /\ Li("root") \in {Li("root")}
        /\ {Li("root")} \ {Li("root")} = {}
    BY LockFacts DEF Tree, Clear, Allows, Gate
  <2>2. Run(ren, Release(Li("root")), Holding, Hold({Li("root")}, {}, FALSE), Holding,
            Hold({}, {}, FALSE))
    BY <2>1, ReleaseRun
  <2>3. Run(ren, c10 \o Release(Li("root")), Holding, Nothing, Holding,
            Hold({}, {}, FALSE))
    BY <1>10, <2>2, RunChain
  <2> QED
    BY <2>3
<1>12. PICK c12 : /\ c12 = c11 \o Handle
                  /\ Run(ren, c12, Holding, Nothing, Holding,
                         Hold({}, {}, FALSE))
  <2>1. /\ {} \in SUBSET Locks
        /\ {} \in SUBSET Locks
        /\ Clear({}, {}, {"i_li_lock", "refs"})
    BY LockFacts DEF Tree, Clear, Allows, Gate
  <2>2. Run(ren, Handle, Holding, Hold({}, {}, FALSE), Holding,
            Hold({}, {}, FALSE))
    BY <2>1, HandleRun
  <2>3. Run(ren, c11 \o Handle, Holding, Nothing, Holding,
            Hold({}, {}, FALSE))
    BY <1>11, <2>2, RunChain
  <2> QED
    BY <2>3
<1>13. PICK c13 : /\ c13 = c12 \o Acquire(Rw("root"))
                  /\ Run(ren, c13, Holding, Nothing, Holding,
                         Hold({Rw("root")}, {}, FALSE))
  <2>1. /\ {} \in SUBSET Locks
        /\ {} \in SUBSET Locks
        /\ Rw("root") \notin {} \cup {}
        /\ Allows(ren, Rw("root"), {}, {})
        /\ {} \cup {Rw("root")} = {Rw("root")}
    BY LockFacts DEF Tree, Clear, Allows, Gate
  <2>2. Run(ren, Acquire(Rw("root")), Holding, Hold({}, {}, FALSE), Holding,
            Hold({Rw("root")}, {}, FALSE))
    BY <2>1, AcquireRwRun DEF Tree
  <2>3. Run(ren, c12 \o Acquire(Rw("root")), Holding, Nothing, Holding,
            Hold({Rw("root")}, {}, FALSE))
    BY <1>12, <2>2, RunChain
  <2> QED
    BY <2>3
<1>14. PICK c14 : /\ c14 = c13 \o Start
                  /\ Run(ren, c14, Holding, Nothing, Holding,
                         Hold({Rw("root")}, {}, TRUE))
  <2>1. /\ {Rw("root")} \in SUBSET Locks
        /\ {} \in SUBSET Locks
        /\ Clear({Rw("root")}, {}, {"i_li_lock", "refs"})
    BY LockFacts DEF Tree, Clear, Allows, Gate
  <2>2. Run(ren, Start, Holding, Hold({Rw("root")}, {}, FALSE), Holding,
            Hold({Rw("root")}, {}, TRUE))
    BY <2>1, StartStopRun
  <2>3. Run(ren, c13 \o Start, Holding, Nothing, Holding,
            Hold({Rw("root")}, {}, TRUE))
    BY <1>13, <2>2, RunChain
  <2> QED
    BY <2>3
<1>15. PICK c15 : /\ c15 = c14 \o Acquire(Li("root"))
                  /\ Run(ren, c15, Holding, Nothing, Holding,
                         Hold({Rw("root"), Li("root")}, {}, TRUE))
  <2>1. /\ {Rw("root")} \in SUBSET Locks
        /\ {} \in SUBSET Locks
        /\ Li("root") \notin {Rw("root")} \cup {}
        /\ \A k \in {Rw("root")} \cup {} : k[1] = "i_li_lock"
             => k = Li("root") /\ "root" = "other"
        /\ {Rw("root")} \cup {Li("root")} = {Rw("root"), Li("root")}
    BY LockFacts DEF Tree, Clear, Allows, Gate
  <2>2. Run(ren, Acquire(Li("root")), Holding, Hold({Rw("root")}, {}, TRUE), Holding,
            Hold({Rw("root"), Li("root")}, {}, TRUE))
    BY <2>1, AcquireLiRun
  <2>3. Run(ren, c14 \o Acquire(Li("root")), Holding, Nothing, Holding,
            Hold({Rw("root"), Li("root")}, {}, TRUE))
    BY <1>14, <2>2, RunChain
  <2> QED
    BY <2>3
<1>16. PICK c16 : /\ c16 = c15 \o Check
                  /\ Run(ren, c16, Holding, Nothing, Holding,
                         Hold({Rw("root"), Li("root")}, {}, TRUE))
  <2>0. /\ {Rw("root"), Li("root")} \in SUBSET Locks
        /\ {} \in SUBSET Locks
    BY LockFacts DEF Tree
  <2>1. Hold({Rw("root"), Li("root")}, {}, TRUE) \in Holding
    BY <2>0, LockFacts, HeldFree, HeldOpen DEF Tree
  <2>2. Run(ren, Check, Holding, Hold({Rw("root"), Li("root")}, {}, TRUE), Holding,
            Hold({Rw("root"), Li("root")}, {}, TRUE))
    BY <2>1, CheckRun
  <2>3. Run(ren, c15 \o Check, Holding, Nothing, Holding,
            Hold({Rw("root"), Li("root")}, {}, TRUE))
    BY <1>15, <2>2, RunChain
  <2> QED
    BY <2>3
<1>17. PICK c17 : /\ c17 = c16 \o Release(Li("root"))
                  /\ Run(ren, c17, Holding, Nothing, Holding,
                         Hold({Rw("root")}, {}, TRUE))
  <2>1. /\ {Rw("root"), Li("root")} \in SUBSET Locks
        /\ {} \in SUBSET Locks
        /\ Li("root") \in Locks /\ Li("root") \in {Rw("root"), Li("root")}
        /\ {Rw("root"), Li("root")} \ {Li("root")} = {Rw("root")}
    BY LockFacts DEF Tree, Clear, Allows, Gate
  <2>2. Run(ren, Release(Li("root")), Holding, Hold({Rw("root"), Li("root")}, {}, TRUE),
          Holding,
            Hold({Rw("root")}, {}, TRUE))
    BY <2>1, ReleaseRun
  <2>3. Run(ren, c16 \o Release(Li("root")), Holding, Nothing, Holding,
            Hold({Rw("root")}, {}, TRUE))
    BY <1>16, <2>2, RunChain
  <2> QED
    BY <2>3
<1>18. PICK c18 : /\ c18 = c17 \o Stop
                  /\ Run(ren, c18, Holding, Nothing, Holding,
                         Hold({Rw("root")}, {}, FALSE))
  <2>1. /\ {Rw("root")} \in SUBSET Locks
        /\ {} \in SUBSET Locks
    BY LockFacts DEF Tree, Clear, Allows, Gate
  <2>2. Run(ren, Stop, Holding, Hold({Rw("root")}, {}, TRUE), Holding,
            Hold({Rw("root")}, {}, FALSE))
    BY <2>1, StartStopRun
  <2>3. Run(ren, c17 \o Stop, Holding, Nothing, Holding,
            Hold({Rw("root")}, {}, FALSE))
    BY <1>17, <2>2, RunChain
  <2> QED
    BY <2>3
<1>19. PICK c19 : /\ c19 = c18 \o Release(Rw("root"))
                  /\ Run(ren, c19, Holding, Nothing, Holding,
                         Hold({}, {}, FALSE))
  <2>1. /\ {Rw("root")} \in SUBSET Locks
        /\ {} \in SUBSET Locks
        /\ Rw("root") \in Locks /\ Rw("root") \in {Rw("root")}
        /\ {Rw("root")} \ {Rw("root")} = {}
    BY LockFacts DEF Tree, Clear, Allows, Gate
  <2>2. Run(ren, Release(Rw("root")), Holding, Hold({Rw("root")}, {}, FALSE), Holding,
            Hold({}, {}, FALSE))
    BY <2>1, ReleaseRun
  <2>3. Run(ren, c18 \o Release(Rw("root")), Holding, Nothing, Holding,
            Hold({}, {}, FALSE))
    BY <1>18, <2>2, RunChain
  <2> QED
    BY <2>3
<1>20. PICK c20 : /\ c20 = c19 \o Drain("root")
                  /\ Run(ren, c20, Holding, Nothing, Holding,
                         Hold({}, {}, FALSE))
  <2>1. /\ {} \in SUBSET Locks
        /\ {} \in SUBSET Locks
        /\ Clear({}, {}, {"i_li_lock", "refs"})
    BY LockFacts DEF Tree, Clear, Allows, Gate
  <2>2. Run(ren, Drain("root"), Holding, Hold({}, {}, FALSE), Holding,
            Hold({}, {}, FALSE))
    BY <2>1, DrainRun DEF Tree
  <2>3. Run(ren, c19 \o Drain("root"), Holding, Nothing, Holding,
            Hold({}, {}, FALSE))
    BY <1>19, <2>2, RunChain
  <2> QED
    BY <2>3
<1>21. PICK c21 : /\ c21 = c20 \o Acquire(Rw("root"))
                  /\ Run(ren, c21, Holding, Nothing, Holding,
                         Hold({Rw("root")}, {}, FALSE))
  <2>1. /\ {} \in SUBSET Locks
        /\ {} \in SUBSET Locks
        /\ Rw("root") \notin {} \cup {}
        /\ Allows(ren, Rw("root"), {}, {})
        /\ {} \cup {Rw("root")} = {Rw("root")}
    BY LockFacts DEF Tree, Clear, Allows, Gate
  <2>2. Run(ren, Acquire(Rw("root")), Holding, Hold({}, {}, FALSE), Holding,
            Hold({Rw("root")}, {}, FALSE))
    BY <2>1, AcquireRwRun DEF Tree
  <2>3. Run(ren, c20 \o Acquire(Rw("root")), Holding, Nothing, Holding,
            Hold({Rw("root")}, {}, FALSE))
    BY <1>20, <2>2, RunChain
  <2> QED
    BY <2>3
<1>22. PICK c22 : /\ c22 = c21 \o Handle
                  /\ Run(ren, c22, Holding, Nothing, Holding,
                         Hold({Rw("root")}, {}, FALSE))
  <2>1. /\ {Rw("root")} \in SUBSET Locks
        /\ {} \in SUBSET Locks
        /\ Clear({Rw("root")}, {}, {"i_li_lock", "refs"})
    BY LockFacts DEF Tree, Clear, Allows, Gate
  <2>2. Run(ren, Handle, Holding, Hold({Rw("root")}, {}, FALSE), Holding,
            Hold({Rw("root")}, {}, FALSE))
    BY <2>1, HandleRun
  <2>3. Run(ren, c21 \o Handle, Holding, Nothing, Holding,
            Hold({Rw("root")}, {}, FALSE))
    BY <1>21, <2>2, RunChain
  <2> QED
    BY <2>3
<1>23. Compact("root") = c22 \o Out({})
  BY <1>1, <1>2, <1>3, <1>4, <1>5, <1>6, <1>7, <1>8, <1>9, <1>10, <1>11, <1>12, <1>13, <1>14,
     <1>15, <1>16, <1>17, <1>18, <1>19, <1>20, <1>21, <1>22, <1>a DEF Compact
<1>24. Hold({Rw("root")}, {}, FALSE) \in Holding
  <2>1. {Rw("root")} \in SUBSET Locks /\ {} \in SUBSET Locks
    BY LockFacts DEF Tree
  <2> QED
    BY <2>1, HeldFree
<1> QED
  BY <1>22, <1>23, <1>24, LastOut

(* A demotion keeps li_transition_lock, and the parent's lock when it runs *)
(* for a promotion; the holdings that its clean-up leaves with just these. *)
Kept(S) == {I \in Holding : /\ I.own \cap ({Transition} \cup S) = {Transition}
                            /\ I.sh \cap ({Transition} \cup S) = S}

LEMMA KeptIs ==
  ASSUME NEW O \in SUBSET Locks, NEW S \in SUBSET {Rw("up")},
         Transition \in O, Rw("up") \notin O
  PROVE  Hold(O, S, FALSE) \in Kept(S)
<1>1. S \in SUBSET Locks /\ Transition \notin S
  BY LockFacts DEF Tree
<1>2. /\ Hold(O, S, FALSE) \in Holding
      /\ Hold(O, S, FALSE).own = O /\ Hold(O, S, FALSE).sh = S
  BY <1>1, HeldFree
<1> QED
  BY <1>1, <1>2 DEF Kept

LEMMA DemoteBodyRun ==
  ASSUME ~ReclaimStarts, NEW ren, NEW S \in SUBSET {Rw("up")}
  PROVE  Run(ren, DemoteBody({Transition} \cup S), Kept(S), Hold({Transition}, S, FALSE),
             Holding, Hold({Transition}, S, FALSE))
<1>1. PICK c1 : /\ c1 = Acquire(Rw("root"))
                /\ Run(ren, c1, Kept(S), Hold({Transition}, S, FALSE), Kept(S),
                       Hold({Transition, Rw("root")}, S, FALSE))
  <2>1. /\ {Transition} \in SUBSET Locks
        /\ S \in SUBSET Locks
        /\ Rw("root") \notin {Transition} \cup S
        /\ Allows(ren, Rw("root"), {Transition}, S)
        /\ {Transition} \cup {Rw("root")} = {Transition, Rw("root")}
    BY LockFacts DEF Tree, Clear, Allows, Gate
  <2>2. Run(ren, Acquire(Rw("root")), Kept(S), Hold({Transition}, S, FALSE), Kept(S),
            Hold({Transition, Rw("root")}, S, FALSE))
    BY <2>1, AcquireRwRun DEF Tree
  <2> QED
    BY <2>2
<1>2. PICK c2 : /\ c2 = c1 \o Acquire(Li("root"))
                /\ Run(ren, c2, Kept(S), Hold({Transition}, S, FALSE), Kept(S),
                       Hold({Transition, Rw("root"), Li("root")}, S, FALSE))
  <2>1. /\ {Transition, Rw("root")} \in SUBSET Locks
        /\ S \in SUBSET Locks
        /\ Li("root") \notin {Transition, Rw("root")} \cup S
        /\ \A k \in {Transition, Rw("root")} \cup S : k[1] = "i_li_lock"
             => k = Li("root") /\ "root" = "other"
        /\ {Transition, Rw("root")} \cup {Li("root")} = {Transition, Rw("root"), Li("root")}
    BY LockFacts DEF Tree, Clear, Allows, Gate
  <2>2. Run(ren, Acquire(Li("root")), Kept(S), Hold({Transition, Rw("root")}, S, FALSE),
          Kept(S),
            Hold({Transition, Rw("root"), Li("root")}, S, FALSE))
    BY <2>1, AcquireLiRun
  <2>3. Run(ren, c1 \o Acquire(Li("root")), Kept(S), Hold({Transition}, S, FALSE), Kept(S),
            Hold({Transition, Rw("root"), Li("root")}, S, FALSE))
    BY <1>1, <2>2, RunChain
  <2> QED
    BY <2>3
<1>3. PICK c3 : /\ c3 = c2 \o Check
                /\ Run(ren, c3, Kept(S), Hold({Transition}, S, FALSE), Kept(S),
                       Hold({Transition, Rw("root"), Li("root")}, S, FALSE))
  <2>0. /\ {Transition, Rw("root"), Li("root")} \in SUBSET Locks
        /\ S \in SUBSET Locks
    BY LockFacts DEF Tree
  <2>1. /\ Hold({Transition, Rw("root"), Li("root")}, S, FALSE) \in Holding
        /\ Hold({Transition, Rw("root"), Li("root")}, S, FALSE) \in Kept(S)
    BY <2>0, LockFacts, HeldFree, HeldOpen, KeptIs DEF Tree
  <2>2. Run(ren, Check, Kept(S), Hold({Transition, Rw("root"), Li("root")}, S, FALSE), Kept(S),
            Hold({Transition, Rw("root"), Li("root")}, S, FALSE))
    BY <2>1, CheckRun
  <2>3. Run(ren, c2 \o Check, Kept(S), Hold({Transition}, S, FALSE), Kept(S),
            Hold({Transition, Rw("root"), Li("root")}, S, FALSE))
    BY <1>2, <2>2, RunChain
  <2> QED
    BY <2>3
<1>a. c3 \o Allocate = c3
  <2>1. c3 \in Seq(StepSet)
    BY <1>3 DEF Run
  <2> QED
    BY <2>1 DEF Allocate
<1>4. PICK c4 : /\ c4 = c3 \o Release(Li("root"))
                /\ Run(ren, c4, Kept(S), Hold({Transition}, S, FALSE), Kept(S),
                       Hold({Transition, Rw("root")}, S, FALSE))
  <2>1. /\ {Transition, Rw("root"), Li("root")} \in SUBSET Locks
        /\ S \in SUBSET Locks
        /\ Li("root") \in Locks /\ Li("root") \in {Transition, Rw("root"), Li("root")}
        /\ {Transition, Rw("root"), Li("root")} \ {Li("root")} = {Transition, Rw("root")}
    BY LockFacts DEF Tree, Clear, Allows, Gate
  <2>2. Run(ren, Release(Li("root")), Kept(S),
          Hold({Transition, Rw("root"), Li("root")}, S, FALSE), Kept(S),
            Hold({Transition, Rw("root")}, S, FALSE))
    BY <2>1, ReleaseRun
  <2>3. Run(ren, c3 \o Release(Li("root")), Kept(S), Hold({Transition}, S, FALSE), Kept(S),
            Hold({Transition, Rw("root")}, S, FALSE))
    BY <1>3, <2>2, RunChain
  <2> QED
    BY <2>3
<1>5. PICK c5 : /\ c5 = c4 \o Release(Rw("root"))
                /\ Run(ren, c5, Kept(S), Hold({Transition}, S, FALSE), Kept(S),
                       Hold({Transition}, S, FALSE))
  <2>1. /\ {Transition, Rw("root")} \in SUBSET Locks
        /\ S \in SUBSET Locks
        /\ Rw("root") \in Locks /\ Rw("root") \in {Transition, Rw("root")}
        /\ {Transition, Rw("root")} \ {Rw("root")} = {Transition}
    BY LockFacts DEF Tree, Clear, Allows, Gate
  <2>2. Run(ren, Release(Rw("root")), Kept(S), Hold({Transition, Rw("root")}, S, FALSE),
          Kept(S),
            Hold({Transition}, S, FALSE))
    BY <2>1, ReleaseRun
  <2>3. Run(ren, c4 \o Release(Rw("root")), Kept(S), Hold({Transition}, S, FALSE), Kept(S),
            Hold({Transition}, S, FALSE))
    BY <1>4, <2>2, RunChain
  <2> QED
    BY <2>3
<1>6. PICK c6 : /\ c6 = c5 \o Acquire(Li("root"))
                /\ Run(ren, c6, Kept(S), Hold({Transition}, S, FALSE), Kept(S),
                       Hold({Transition, Li("root")}, S, FALSE))
  <2>1. /\ {Transition} \in SUBSET Locks
        /\ S \in SUBSET Locks
        /\ Li("root") \notin {Transition} \cup S
        /\ \A k \in {Transition} \cup S : k[1] = "i_li_lock"
             => k = Li("root") /\ "root" = "other"
        /\ {Transition} \cup {Li("root")} = {Transition, Li("root")}
    BY LockFacts DEF Tree, Clear, Allows, Gate
  <2>2. Run(ren, Acquire(Li("root")), Kept(S), Hold({Transition}, S, FALSE), Kept(S),
            Hold({Transition, Li("root")}, S, FALSE))
    BY <2>1, AcquireLiRun
  <2>3. Run(ren, c5 \o Acquire(Li("root")), Kept(S), Hold({Transition}, S, FALSE), Kept(S),
            Hold({Transition, Li("root")}, S, FALSE))
    BY <1>5, <2>2, RunChain
  <2> QED
    BY <2>3
<1>7. PICK c7 : /\ c7 = c6 \o Check
                /\ Run(ren, c7, Kept(S), Hold({Transition}, S, FALSE), Kept(S),
                       Hold({Transition, Li("root")}, S, FALSE))
  <2>0. /\ {Transition, Li("root")} \in SUBSET Locks
        /\ S \in SUBSET Locks
    BY LockFacts DEF Tree
  <2>1. /\ Hold({Transition, Li("root")}, S, FALSE) \in Holding
        /\ Hold({Transition, Li("root")}, S, FALSE) \in Kept(S)
    BY <2>0, LockFacts, HeldFree, HeldOpen, KeptIs DEF Tree
  <2>2. Run(ren, Check, Kept(S), Hold({Transition, Li("root")}, S, FALSE), Kept(S),
            Hold({Transition, Li("root")}, S, FALSE))
    BY <2>1, CheckRun
  <2>3. Run(ren, c6 \o Check, Kept(S), Hold({Transition}, S, FALSE), Kept(S),
            Hold({Transition, Li("root")}, S, FALSE))
    BY <1>6, <2>2, RunChain
  <2> QED
    BY <2>3
<1>b. c7 \o Allocate = c7
  <2>1. c7 \in Seq(StepSet)
    BY <1>7 DEF Run
  <2> QED
    BY <2>1 DEF Allocate
<1>8. PICK c8 : /\ c8 = c7 \o Release(Li("root"))
                /\ Run(ren, c8, Kept(S), Hold({Transition}, S, FALSE), Kept(S),
                       Hold({Transition}, S, FALSE))
  <2>1. /\ {Transition, Li("root")} \in SUBSET Locks
        /\ S \in SUBSET Locks
        /\ Li("root") \in Locks /\ Li("root") \in {Transition, Li("root")}
        /\ {Transition, Li("root")} \ {Li("root")} = {Transition}
    BY LockFacts DEF Tree, Clear, Allows, Gate
  <2>2. Run(ren, Release(Li("root")), Kept(S), Hold({Transition, Li("root")}, S, FALSE),
          Kept(S),
            Hold({Transition}, S, FALSE))
    BY <2>1, ReleaseRun
  <2>3. Run(ren, c7 \o Release(Li("root")), Kept(S), Hold({Transition}, S, FALSE), Kept(S),
            Hold({Transition}, S, FALSE))
    BY <1>7, <2>2, RunChain
  <2> QED
    BY <2>3
<1>9. PICK c9 : /\ c9 = c8 \o Handle
                /\ Run(ren, c9, Kept(S), Hold({Transition}, S, FALSE), Kept(S),
                       Hold({Transition}, S, FALSE))
  <2>1. /\ {Transition} \in SUBSET Locks
        /\ S \in SUBSET Locks
        /\ Clear({Transition}, S, {"i_li_lock", "refs"})
    BY LockFacts DEF Tree, Clear, Allows, Gate
  <2>2. Run(ren, Handle, Kept(S), Hold({Transition}, S, FALSE), Kept(S),
            Hold({Transition}, S, FALSE))
    BY <2>1, HandleRun
  <2>3. Run(ren, c8 \o Handle, Kept(S), Hold({Transition}, S, FALSE), Kept(S),
            Hold({Transition}, S, FALSE))
    BY <1>8, <2>2, RunChain
  <2> QED
    BY <2>3
<1>10. PICK c10 : /\ c10 = c9 \o TryLock(RenameMutex)
                  /\ Run(ren, c10, Kept(S), Hold({Transition}, S, FALSE), Kept(S),
                         Hold({Transition, RenameMutex}, S, FALSE))
  <2>1. /\ {Transition} \in SUBSET Locks
        /\ S \in SUBSET Locks
        /\ RenameMutex \notin {Transition} \cup S
        /\ Hold({Transition}, S, FALSE) \in Kept(S)
        /\ {Transition} \cup {RenameMutex} = {Transition, RenameMutex}
    BY LockFacts, KeptIs DEF Tree, Clear, Allows, Gate
  <2>2. Run(ren, TryLock(RenameMutex), Kept(S), Hold({Transition}, S, FALSE), Kept(S),
            Hold({Transition, RenameMutex}, S, FALSE))
    BY <2>1, TryRun
  <2>3. Run(ren, c9 \o TryLock(RenameMutex), Kept(S), Hold({Transition}, S, FALSE), Kept(S),
            Hold({Transition, RenameMutex}, S, FALSE))
    BY <1>9, <2>2, RunChain
  <2> QED
    BY <2>3
<1>11. PICK c11 : /\ c11 = c10 \o Acquire(Rw("root"))
                  /\ Run(ren, c11, Kept(S), Hold({Transition}, S, FALSE), Kept(S),
                         Hold({Transition, RenameMutex, Rw("root")}, S, FALSE))
  <2>1. /\ {Transition, RenameMutex} \in SUBSET Locks
        /\ S \in SUBSET Locks
        /\ Rw("root") \notin {Transition, RenameMutex} \cup S
        /\ Allows(ren, Rw("root"), {Transition, RenameMutex}, S)
        /\ {Transition, RenameMutex} \cup {Rw("root")} = {Transition, RenameMutex, Rw("root")}
    BY LockFacts DEF Tree, Clear, Allows, Gate
  <2>2. Run(ren, Acquire(Rw("root")), Kept(S), Hold({Transition, RenameMutex}, S, FALSE),
          Kept(S),
            Hold({Transition, RenameMutex, Rw("root")}, S, FALSE))
    BY <2>1, AcquireRwRun DEF Tree
  <2>3. Run(ren, c10 \o Acquire(Rw("root")), Kept(S), Hold({Transition}, S, FALSE), Kept(S),
            Hold({Transition, RenameMutex, Rw("root")}, S, FALSE))
    BY <1>10, <2>2, RunChain
  <2> QED
    BY <2>3
<1>12. PICK c12 : /\ c12 = c11 \o Acquire(Li("root"))
                  /\ Run(ren, c12, Kept(S), Hold({Transition}, S, FALSE), Kept(S),
                         Hold({Transition, RenameMutex, Rw("root"), Li("root")}, S, FALSE))
  <2>1. /\ {Transition, RenameMutex, Rw("root")} \in SUBSET Locks
        /\ S \in SUBSET Locks
        /\ Li("root") \notin {Transition, RenameMutex, Rw("root")} \cup S
        /\ \A k \in {Transition, RenameMutex, Rw("root")} \cup S : k[1] = "i_li_lock"
             => k = Li("root") /\ "root" = "other"
        /\ {Transition, RenameMutex, Rw("root")} \cup {Li("root")}
             = {Transition, RenameMutex, Rw("root"), Li("root")}
    BY LockFacts DEF Tree, Clear, Allows, Gate
  <2>2. Run(ren, Acquire(Li("root")), Kept(S),
          Hold({Transition, RenameMutex, Rw("root")}, S, FALSE), Kept(S),
            Hold({Transition, RenameMutex, Rw("root"), Li("root")}, S, FALSE))
    BY <2>1, AcquireLiRun
  <2>3. Run(ren, c11 \o Acquire(Li("root")), Kept(S), Hold({Transition}, S, FALSE), Kept(S),
            Hold({Transition, RenameMutex, Rw("root"), Li("root")}, S, FALSE))
    BY <1>11, <2>2, RunChain
  <2> QED
    BY <2>3
<1>13. PICK c13 : /\ c13 = c12 \o Check
                  /\ Run(ren, c13, Kept(S), Hold({Transition}, S, FALSE), Kept(S),
                         Hold({Transition, RenameMutex, Rw("root"), Li("root")}, S, FALSE))
  <2>0. /\ {Transition, RenameMutex, Rw("root"), Li("root")} \in SUBSET Locks
        /\ S \in SUBSET Locks
    BY LockFacts DEF Tree
  <2>1. /\ Hold({Transition, RenameMutex, Rw("root"), Li("root")}, S, FALSE) \in Holding
        /\ Hold({Transition, RenameMutex, Rw("root"), Li("root")}, S, FALSE) \in Kept(S)
    BY <2>0, LockFacts, HeldFree, HeldOpen, KeptIs DEF Tree
  <2>2. Run(ren, Check, Kept(S),
          Hold({Transition, RenameMutex, Rw("root"), Li("root")}, S, FALSE), Kept(S),
            Hold({Transition, RenameMutex, Rw("root"), Li("root")}, S, FALSE))
    BY <2>1, CheckRun
  <2>3. Run(ren, c12 \o Check, Kept(S), Hold({Transition}, S, FALSE), Kept(S),
            Hold({Transition, RenameMutex, Rw("root"), Li("root")}, S, FALSE))
    BY <1>12, <2>2, RunChain
  <2> QED
    BY <2>3
<1>14. PICK c14 : /\ c14 = c13 \o Release(Li("root"))
                  /\ Run(ren, c14, Kept(S), Hold({Transition}, S, FALSE), Kept(S),
                         Hold({Transition, RenameMutex, Rw("root")}, S, FALSE))
  <2>1. /\ {Transition, RenameMutex, Rw("root"), Li("root")} \in SUBSET Locks
        /\ S \in SUBSET Locks
        /\ Li("root") \in Locks /\ Li("root")
             \in {Transition, RenameMutex, Rw("root"), Li("root")}
        /\ {Transition, RenameMutex, Rw("root"), Li("root")} \ {Li("root")}
             = {Transition, RenameMutex, Rw("root")}
    BY LockFacts DEF Tree, Clear, Allows, Gate
  <2>2. Run(ren, Release(Li("root")), Kept(S),
          Hold({Transition, RenameMutex, Rw("root"), Li("root")}, S, FALSE), Kept(S),
            Hold({Transition, RenameMutex, Rw("root")}, S, FALSE))
    BY <2>1, ReleaseRun
  <2>3. Run(ren, c13 \o Release(Li("root")), Kept(S), Hold({Transition}, S, FALSE), Kept(S),
            Hold({Transition, RenameMutex, Rw("root")}, S, FALSE))
    BY <1>13, <2>2, RunChain
  <2> QED
    BY <2>3
<1>15. PICK c15 : /\ c15 = c14 \o Acquire(Rw("left"))
                  /\ Run(ren, c15, Kept(S), Hold({Transition}, S, FALSE), Kept(S),
                         Hold({Transition, RenameMutex, Rw("root"), Rw("left")}, S, FALSE))
  <2>1. /\ {Transition, RenameMutex, Rw("root")} \in SUBSET Locks
        /\ S \in SUBSET Locks
        /\ Rw("left") \notin {Transition, RenameMutex, Rw("root")} \cup S
        /\ Allows(ren, Rw("left"), {Transition, RenameMutex, Rw("root")}, S)
        /\ {Transition, RenameMutex, Rw("root")} \cup {Rw("left")}
             = {Transition, RenameMutex, Rw("root"), Rw("left")}
    BY LockFacts DEF Tree, Clear, Allows, Gate
  <2>2. Run(ren, Acquire(Rw("left")), Kept(S),
          Hold({Transition, RenameMutex, Rw("root")}, S, FALSE), Kept(S),
            Hold({Transition, RenameMutex, Rw("root"), Rw("left")}, S, FALSE))
    BY <2>1, AcquireRwRun DEF Tree
  <2>3. Run(ren, c14 \o Acquire(Rw("left")), Kept(S), Hold({Transition}, S, FALSE), Kept(S),
            Hold({Transition, RenameMutex, Rw("root"), Rw("left")}, S, FALSE))
    BY <1>14, <2>2, RunChain
  <2> QED
    BY <2>3
<1>16. PICK c16 : /\ c16 = c15 \o Acquire(Rw("right"))
                  /\ Run(ren, c16, Kept(S), Hold({Transition}, S, FALSE), Kept(S),
                         Hold({Transition, RenameMutex, Rw("root"), Rw("left"), Rw("right")},
                             S, FALSE))
  <2>1. /\ {Transition, RenameMutex, Rw("root"), Rw("left")} \in SUBSET Locks
        /\ S \in SUBSET Locks
        /\ Rw("right") \notin {Transition, RenameMutex, Rw("root"), Rw("left")} \cup S
        /\ Allows(ren, Rw("right"), {Transition, RenameMutex, Rw("root"), Rw("left")}, S)
        /\ {Transition, RenameMutex, Rw("root"), Rw("left")} \cup {Rw("right")}
             = {Transition, RenameMutex, Rw("root"), Rw("left"), Rw("right")}
    BY LockFacts DEF Tree, Clear, Allows, Gate
  <2>2. Run(ren, Acquire(Rw("right")), Kept(S),
          Hold({Transition, RenameMutex, Rw("root"), Rw("left")}, S, FALSE), Kept(S),
            Hold({Transition, RenameMutex, Rw("root"), Rw("left"), Rw("right")}, S, FALSE))
    BY <2>1, AcquireRwRun DEF Tree
  <2>3. Run(ren, c15 \o Acquire(Rw("right")), Kept(S), Hold({Transition}, S, FALSE), Kept(S),
            Hold({Transition, RenameMutex, Rw("root"), Rw("left"), Rw("right")}, S, FALSE))
    BY <1>15, <2>2, RunChain
  <2> QED
    BY <2>3
<1>17. PICK c17 : /\ c17 = c16 \o Release(RenameMutex)
                  /\ Run(ren, c17, Kept(S), Hold({Transition}, S, FALSE), Kept(S),
                         Hold({Transition, Rw("root"), Rw("left"), Rw("right")}, S, FALSE))
  <2>1. /\ {Transition, RenameMutex, Rw("root"), Rw("left"), Rw("right")} \in SUBSET Locks
        /\ S \in SUBSET Locks
        /\ RenameMutex \in Locks /\ RenameMutex
             \in {Transition, RenameMutex, Rw("root"), Rw("left"), Rw("right")}
        /\ {Transition, RenameMutex, Rw("root"), Rw("left"), Rw("right")} \ {RenameMutex}
             = {Transition, Rw("root"), Rw("left"), Rw("right")}
    BY LockFacts DEF Tree, Clear, Allows, Gate
  <2>2. Run(ren, Release(RenameMutex), Kept(S),
          Hold({Transition, RenameMutex, Rw("root"), Rw("left"), Rw("right")}, S, FALSE),
              Kept(S),
            Hold({Transition, Rw("root"), Rw("left"), Rw("right")}, S, FALSE))
    BY <2>1, ReleaseRun
  <2>3. Run(ren, c16 \o Release(RenameMutex), Kept(S), Hold({Transition}, S, FALSE), Kept(S),
            Hold({Transition, Rw("root"), Rw("left"), Rw("right")}, S, FALSE))
    BY <1>16, <2>2, RunChain
  <2> QED
    BY <2>3
<1>18. PICK c18 : /\ c18 = c17 \o Acquire(Li("root"))
                  /\ Run(ren, c18, Kept(S), Hold({Transition}, S, FALSE), Kept(S),
                         Hold({Transition, Rw("root"), Rw("left"), Rw("right"), Li("root")},
                             S, FALSE))
  <2>1. /\ {Transition, Rw("root"), Rw("left"), Rw("right")} \in SUBSET Locks
        /\ S \in SUBSET Locks
        /\ Li("root") \notin {Transition, Rw("root"), Rw("left"), Rw("right")} \cup S
        /\ \A k \in {Transition, Rw("root"), Rw("left"), Rw("right")} \cup S : k[1]
             = "i_li_lock" => k = Li("root") /\ "root" = "other"
        /\ {Transition, Rw("root"), Rw("left"), Rw("right")} \cup {Li("root")}
             = {Transition, Rw("root"), Rw("left"), Rw("right"), Li("root")}
    BY LockFacts DEF Tree, Clear, Allows, Gate
  <2>2. Run(ren, Acquire(Li("root")), Kept(S),
          Hold({Transition, Rw("root"), Rw("left"), Rw("right")}, S, FALSE), Kept(S),
            Hold({Transition, Rw("root"), Rw("left"), Rw("right"), Li("root")}, S, FALSE))
    BY <2>1, AcquireLiRun
  <2>3. Run(ren, c17 \o Acquire(Li("root")), Kept(S), Hold({Transition}, S, FALSE), Kept(S),
            Hold({Transition, Rw("root"), Rw("left"), Rw("right"), Li("root")}, S, FALSE))
    BY <1>17, <2>2, RunChain
  <2> QED
    BY <2>3
<1>19. PICK c19 : /\ c19 = c18 \o Check
                  /\ Run(ren, c19, Kept(S), Hold({Transition}, S, FALSE), Kept(S),
                         Hold({Transition, Rw("root"), Rw("left"), Rw("right"), Li("root")},
                             S, FALSE))
  <2>0. /\ {Transition, Rw("root"), Rw("left"), Rw("right"), Li("root")} \in SUBSET Locks
        /\ S \in SUBSET Locks
    BY LockFacts DEF Tree
  <2>1. /\ Hold({Transition, Rw("root"), Rw("left"), Rw("right"), Li("root")}, S, FALSE)
             \in Holding
        /\ Hold({Transition, Rw("root"), Rw("left"), Rw("right"), Li("root")}, S, FALSE)
             \in Kept(S)
    BY <2>0, LockFacts, HeldFree, HeldOpen, KeptIs DEF Tree
  <2>2. Run(ren, Check, Kept(S),
          Hold({Transition, Rw("root"), Rw("left"), Rw("right"), Li("root")}, S, FALSE),
              Kept(S),
            Hold({Transition, Rw("root"), Rw("left"), Rw("right"), Li("root")}, S, FALSE))
    BY <2>1, CheckRun
  <2>3. Run(ren, c18 \o Check, Kept(S), Hold({Transition}, S, FALSE), Kept(S),
            Hold({Transition, Rw("root"), Rw("left"), Rw("right"), Li("root")}, S, FALSE))
    BY <1>18, <2>2, RunChain
  <2> QED
    BY <2>3
<1>20. PICK c20 : /\ c20 = c19 \o Release(Li("root"))
                  /\ Run(ren, c20, Kept(S), Hold({Transition}, S, FALSE), Kept(S),
                         Hold({Transition, Rw("root"), Rw("left"), Rw("right")}, S, FALSE))
  <2>1. /\ {Transition, Rw("root"), Rw("left"), Rw("right"), Li("root")} \in SUBSET Locks
        /\ S \in SUBSET Locks
        /\ Li("root") \in Locks /\ Li("root")
             \in {Transition, Rw("root"), Rw("left"), Rw("right"), Li("root")}
        /\ {Transition, Rw("root"), Rw("left"), Rw("right"), Li("root")} \ {Li("root")}
             = {Transition, Rw("root"), Rw("left"), Rw("right")}
    BY LockFacts DEF Tree, Clear, Allows, Gate
  <2>2. Run(ren, Release(Li("root")), Kept(S),
          Hold({Transition, Rw("root"), Rw("left"), Rw("right"), Li("root")}, S, FALSE),
              Kept(S),
            Hold({Transition, Rw("root"), Rw("left"), Rw("right")}, S, FALSE))
    BY <2>1, ReleaseRun
  <2>3. Run(ren, c19 \o Release(Li("root")), Kept(S), Hold({Transition}, S, FALSE), Kept(S),
            Hold({Transition, Rw("root"), Rw("left"), Rw("right")}, S, FALSE))
    BY <1>19, <2>2, RunChain
  <2> QED
    BY <2>3
<1>21. PICK c21 : /\ c21 = c20 \o Handle
                  /\ Run(ren, c21, Kept(S), Hold({Transition}, S, FALSE), Kept(S),
                         Hold({Transition, Rw("root"), Rw("left"), Rw("right")}, S, FALSE))
  <2>1. /\ {Transition, Rw("root"), Rw("left"), Rw("right")} \in SUBSET Locks
        /\ S \in SUBSET Locks
        /\ Clear({Transition, Rw("root"), Rw("left"), Rw("right")}, S, {"i_li_lock", "refs"})
    BY LockFacts DEF Tree, Clear, Allows, Gate
  <2>2. Run(ren, Handle, Kept(S),
          Hold({Transition, Rw("root"), Rw("left"), Rw("right")}, S, FALSE), Kept(S),
            Hold({Transition, Rw("root"), Rw("left"), Rw("right")}, S, FALSE))
    BY <2>1, HandleRun
  <2>3. Run(ren, c20 \o Handle, Kept(S), Hold({Transition}, S, FALSE), Kept(S),
            Hold({Transition, Rw("root"), Rw("left"), Rw("right")}, S, FALSE))
    BY <1>20, <2>2, RunChain
  <2> QED
    BY <2>3
<1>22. PICK c22 : /\ c22 = c21 \o Acquire(Li("root"))
                  /\ Run(ren, c22, Kept(S), Hold({Transition}, S, FALSE), Kept(S),
                         Hold({Transition, Rw("root"), Rw("left"), Rw("right"), Li("root")},
                             S, FALSE))
  <2>1. /\ {Transition, Rw("root"), Rw("left"), Rw("right")} \in SUBSET Locks
        /\ S \in SUBSET Locks
        /\ Li("root") \notin {Transition, Rw("root"), Rw("left"), Rw("right")} \cup S
        /\ \A k \in {Transition, Rw("root"), Rw("left"), Rw("right")} \cup S : k[1]
             = "i_li_lock" => k = Li("root") /\ "root" = "other"
        /\ {Transition, Rw("root"), Rw("left"), Rw("right")} \cup {Li("root")}
             = {Transition, Rw("root"), Rw("left"), Rw("right"), Li("root")}
    BY LockFacts DEF Tree, Clear, Allows, Gate
  <2>2. Run(ren, Acquire(Li("root")), Kept(S),
          Hold({Transition, Rw("root"), Rw("left"), Rw("right")}, S, FALSE), Kept(S),
            Hold({Transition, Rw("root"), Rw("left"), Rw("right"), Li("root")}, S, FALSE))
    BY <2>1, AcquireLiRun
  <2>3. Run(ren, c21 \o Acquire(Li("root")), Kept(S), Hold({Transition}, S, FALSE), Kept(S),
            Hold({Transition, Rw("root"), Rw("left"), Rw("right"), Li("root")}, S, FALSE))
    BY <1>21, <2>2, RunChain
  <2> QED
    BY <2>3
<1>23. PICK c23 : /\ c23 = c22 \o Check
                  /\ Run(ren, c23, Kept(S), Hold({Transition}, S, FALSE), Kept(S),
                         Hold({Transition, Rw("root"), Rw("left"), Rw("right"), Li("root")},
                             S, FALSE))
  <2>0. /\ {Transition, Rw("root"), Rw("left"), Rw("right"), Li("root")} \in SUBSET Locks
        /\ S \in SUBSET Locks
    BY LockFacts DEF Tree
  <2>1. /\ Hold({Transition, Rw("root"), Rw("left"), Rw("right"), Li("root")}, S, FALSE)
             \in Holding
        /\ Hold({Transition, Rw("root"), Rw("left"), Rw("right"), Li("root")}, S, FALSE)
             \in Kept(S)
    BY <2>0, LockFacts, HeldFree, HeldOpen, KeptIs DEF Tree
  <2>2. Run(ren, Check, Kept(S),
          Hold({Transition, Rw("root"), Rw("left"), Rw("right"), Li("root")}, S, FALSE),
              Kept(S),
            Hold({Transition, Rw("root"), Rw("left"), Rw("right"), Li("root")}, S, FALSE))
    BY <2>1, CheckRun
  <2>3. Run(ren, c22 \o Check, Kept(S), Hold({Transition}, S, FALSE), Kept(S),
            Hold({Transition, Rw("root"), Rw("left"), Rw("right"), Li("root")}, S, FALSE))
    BY <1>22, <2>2, RunChain
  <2> QED
    BY <2>3
<1>24. PICK c24 : /\ c24 = c23 \o Release(Li("root"))
                  /\ Run(ren, c24, Kept(S), Hold({Transition}, S, FALSE), Kept(S),
                         Hold({Transition, Rw("root"), Rw("left"), Rw("right")}, S, FALSE))
  <2>1. /\ {Transition, Rw("root"), Rw("left"), Rw("right"), Li("root")} \in SUBSET Locks
        /\ S \in SUBSET Locks
        /\ Li("root") \in Locks /\ Li("root")
             \in {Transition, Rw("root"), Rw("left"), Rw("right"), Li("root")}
        /\ {Transition, Rw("root"), Rw("left"), Rw("right"), Li("root")} \ {Li("root")}
             = {Transition, Rw("root"), Rw("left"), Rw("right")}
    BY LockFacts DEF Tree, Clear, Allows, Gate
  <2>2. Run(ren, Release(Li("root")), Kept(S),
          Hold({Transition, Rw("root"), Rw("left"), Rw("right"), Li("root")}, S, FALSE),
              Kept(S),
            Hold({Transition, Rw("root"), Rw("left"), Rw("right")}, S, FALSE))
    BY <2>1, ReleaseRun
  <2>3. Run(ren, c23 \o Release(Li("root")), Kept(S), Hold({Transition}, S, FALSE), Kept(S),
            Hold({Transition, Rw("root"), Rw("left"), Rw("right")}, S, FALSE))
    BY <1>23, <2>2, RunChain
  <2> QED
    BY <2>3
<1>25. PICK c25 : /\ c25 = c24 \o Handle
                  /\ Run(ren, c25, Kept(S), Hold({Transition}, S, FALSE), Kept(S),
                         Hold({Transition, Rw("root"), Rw("left"), Rw("right")}, S, FALSE))
  <2>1. /\ {Transition, Rw("root"), Rw("left"), Rw("right")} \in SUBSET Locks
        /\ S \in SUBSET Locks
        /\ Clear({Transition, Rw("root"), Rw("left"), Rw("right")}, S, {"i_li_lock", "refs"})
    BY LockFacts DEF Tree, Clear, Allows, Gate
  <2>2. Run(ren, Handle, Kept(S),
          Hold({Transition, Rw("root"), Rw("left"), Rw("right")}, S, FALSE), Kept(S),
            Hold({Transition, Rw("root"), Rw("left"), Rw("right")}, S, FALSE))
    BY <2>1, HandleRun
  <2>3. Run(ren, c24 \o Handle, Kept(S), Hold({Transition}, S, FALSE), Kept(S),
            Hold({Transition, Rw("root"), Rw("left"), Rw("right")}, S, FALSE))
    BY <1>24, <2>2, RunChain
  <2> QED
    BY <2>3
<1>26. PICK c26 : /\ c26 = c25 \o Out({Transition} \cup S)
                  /\ Run(ren, c26, Kept(S), Hold({Transition}, S, FALSE), Holding,
                         Hold({Transition}, S, FALSE))
  <2>1. /\ {Transition, Rw("root"), Rw("left"), Rw("right")} \in SUBSET Locks
        /\ S \in SUBSET Locks
        /\ {Transition} \cup S \in SUBSET Locks /\ Kept(S) \in SUBSET Holding
        /\ {Transition, Rw("root"), Rw("left"), Rw("right")} \cap ({Transition} \cup S)
             = {Transition}
        /\ S \cap ({Transition} \cup S) = S
        /\ \A I \in Kept(S) : /\ I.own \cap ({Transition} \cup S) = {Transition}
                              /\ I.sh \cap ({Transition} \cup S) = S
    BY LockFacts DEF Tree, Kept
  <2>2. Run(ren, Out({Transition} \cup S), Kept(S),
          Hold({Transition, Rw("root"), Rw("left"), Rw("right")}, S, FALSE), Holding,
            Hold({Transition}, S, FALSE))
    BY <2>1, OutRun
  <2>3. Run(ren, c25 \o Out({Transition} \cup S), Kept(S), Hold({Transition}, S, FALSE),
          Holding,
            Hold({Transition}, S, FALSE))
    BY <1>25, <2>2, RunChain
  <2> QED
    BY <2>3
<1>27. PICK c27 : /\ c27 = c26 \o Drain("root")
                  /\ Run(ren, c27, Kept(S), Hold({Transition}, S, FALSE), Holding,
                         Hold({Transition}, S, FALSE))
  <2>1. /\ {Transition} \in SUBSET Locks
        /\ S \in SUBSET Locks
        /\ Clear({Transition}, S, {"i_li_lock", "refs"})
    BY LockFacts DEF Tree, Clear, Allows, Gate
  <2>2. Run(ren, Drain("root"), Holding, Hold({Transition}, S, FALSE), Holding,
            Hold({Transition}, S, FALSE))
    BY <2>1, DrainRun DEF Tree
  <2>3. Run(ren, c26 \o Drain("root"), Kept(S), Hold({Transition}, S, FALSE), Holding,
            Hold({Transition}, S, FALSE))
    BY <1>26, <2>2, RunChain
  <2> QED
    BY <2>3
<1>28. PICK c28 : /\ c28 = c27 \o Handle
                  /\ Run(ren, c28, Kept(S), Hold({Transition}, S, FALSE), Holding,
                         Hold({Transition}, S, FALSE))
  <2>1. /\ {Transition} \in SUBSET Locks
        /\ S \in SUBSET Locks
        /\ Clear({Transition}, S, {"i_li_lock", "refs"})
    BY LockFacts DEF Tree, Clear, Allows, Gate
  <2>2. Run(ren, Handle, Holding, Hold({Transition}, S, FALSE), Holding,
            Hold({Transition}, S, FALSE))
    BY <2>1, HandleRun
  <2>3. Run(ren, c27 \o Handle, Kept(S), Hold({Transition}, S, FALSE), Holding,
            Hold({Transition}, S, FALSE))
    BY <1>27, <2>2, RunChain
  <2> QED
    BY <2>3
<1>29. PICK c29 : /\ c29 = c28 \o Briefly(Rw("root"))
                  /\ Run(ren, c29, Kept(S), Hold({Transition}, S, FALSE), Holding,
                         Hold({Transition}, S, FALSE))
  <2>1. /\ {Transition} \in SUBSET Locks
        /\ S \in SUBSET Locks
        /\ Rw("root") \notin {Transition} \cup S
        /\ Allows(ren, Rw("root"), {Transition}, S)
    BY LockFacts DEF Tree, Clear, Allows, Gate
  <2>2. Run(ren, Briefly(Rw("root")), Holding, Hold({Transition}, S, FALSE), Holding,
            Hold({Transition}, S, FALSE))
    BY <2>1, BrieflyRwRun DEF Tree
  <2>3. Run(ren, c28 \o Briefly(Rw("root")), Kept(S), Hold({Transition}, S, FALSE), Holding,
            Hold({Transition}, S, FALSE))
    BY <1>28, <2>2, RunChain
  <2> QED
    BY <2>3
<1>30. DemoteBody({Transition} \cup S) = c29
  BY <1>1, <1>2, <1>3, <1>4, <1>5, <1>6, <1>7, <1>8, <1>9, <1>10, <1>11, <1>12, <1>13, <1>14,
     <1>15, <1>16, <1>17, <1>18, <1>19, <1>20, <1>21, <1>22, <1>23, <1>24, <1>25, <1>26,
         <1>27, <1>28, <1>29, <1>a, <1>b DEF DemoteBody
<1> QED
  BY <1>29, <1>30

LEMMA DemoteGood ==
  ASSUME ~ReclaimStarts, NEW ren PROVE Good(ren, DemoteRegion, Nothing)
<1>0. {} \in SUBSET {Rw("up")}
  OBVIOUS
<1>1. PICK S : S = {} /\ S \in SUBSET {Rw("up")}
  BY <1>0
<1>2. Run(ren, Acquire(Transition), Kept(S), Nothing, Kept(S), Hold({Transition}, S, FALSE))
  BY <1>1, LockFacts, AcquireGateRun
<1>3. Run(ren, DemoteBody({Transition} \cup S), Kept(S), Hold({Transition}, S, FALSE),
          Holding, Hold({Transition}, S, FALSE))
  BY <1>1, DemoteBodyRun
<1>4. {Transition} \cup S = {Transition}
  BY <1>1
<1>5. Run(ren, Acquire(Transition) \o DemoteBody({Transition}), Kept(S), Nothing,
          Holding, Hold({Transition}, S, FALSE))
  BY <1>2, <1>3, <1>4, RunChain
<1>6. Hold({Transition}, S, FALSE) \in Holding
  BY <1>1, LockFacts, HeldFree
<1> QED
  BY <1>5, <1>6, LastOut DEF DemoteRegion

LEMMA SubsumeGood ==
  ASSUME ~ReclaimStarts, NEW ren PROVE Good(ren, Subsume, Nothing)
<1>1. PICK S : S = {Rw("up")} /\ S \in SUBSET {Rw("up")} /\ S \in SUBSET Locks
  BY LockFacts DEF Tree
<1>2. Run(ren, Acquire(Transition), Kept(S), Nothing, Kept(S), Hold({Transition}, {}, FALSE))
  BY LockFacts, AcquireGateRun
<1>3. /\ {Transition} \in SUBSET Locks /\ {} \in SUBSET Locks
      /\ Rw("up") \notin {Transition} \cup {} /\ Allows(ren, Rw("up"), {Transition}, {})
      /\ {} \cup {Rw("up")} = S
  BY <1>1, LockFacts DEF Tree, Clear, Allows, Gate
<1>4. Run(ren, Share(Rw("up")), Kept(S), Hold({Transition}, {}, FALSE), Kept(S),
          Hold({Transition}, S, FALSE))
  BY <1>3, AcquireRwRun DEF Tree
<1>5. Hold({Transition}, S, FALSE) \in Holding /\ Hold({Transition}, S, FALSE) \in Kept(S)
  BY <1>1, <1>3, HeldFree, KeptIs
<1>6. Run(ren, Check, Kept(S), Hold({Transition}, S, FALSE), Kept(S),
        Hold({Transition}, S, FALSE))
  BY <1>5, CheckRun
<1>7. Run(ren, DemoteBody({Transition} \cup S), Kept(S), Hold({Transition}, S, FALSE),
          Holding, Hold({Transition}, S, FALSE))
  BY <1>1, DemoteBodyRun
<1>8. {Transition} \cup S = {Transition, Rw("up")}
  BY <1>1
<1>9. Run(ren, Acquire(Transition) \o Share(Rw("up")), Kept(S), Nothing, Kept(S),
          Hold({Transition}, S, FALSE))
  BY <1>2, <1>4, RunChain
<1>10. Run(ren, (Acquire(Transition) \o Share(Rw("up"))) \o Check, Kept(S), Nothing, Kept(S),
           Hold({Transition}, S, FALSE))
  BY <1>6, <1>9, RunChain
<1>11. Run(ren, ((Acquire(Transition) \o Share(Rw("up"))) \o Check)
                   \o DemoteBody({Transition, Rw("up")}), Kept(S), Nothing,
           Holding, Hold({Transition}, S, FALSE))
  BY <1>7, <1>8, <1>10, RunChain
<1> QED
  BY <1>5, <1>11, LastOut DEF Subsume

LEMMA ReserveGood ==
  ASSUME NEW ren
  PROVE  Good(ren, Reserve("root"), Nothing)
<1>1. PICK c1 : /\ c1 = Acquire(Transition)
                /\ Run(ren, c1, Holding, Nothing, Holding,
                       Hold({Transition}, {}, FALSE))
  <2>1. /\ {} \in SUBSET Locks
        /\ {} \in SUBSET Locks
        /\ Transition # RenameMutex
    BY LockFacts DEF Tree, Clear, Allows, Gate
  <2>2. Run(ren, Acquire(Transition), Holding, Nothing, Holding,
            Hold({Transition}, {}, FALSE))
    BY <2>1, AcquireGateRun
  <2> QED
    BY <2>2
<1>2. PICK c2 : /\ c2 = c1 \o Acquire(Rw("root"))
                /\ Run(ren, c2, Holding, Nothing, Holding,
                       Hold({Transition, Rw("root")}, {}, FALSE))
  <2>1. /\ {Transition} \in SUBSET Locks
        /\ {} \in SUBSET Locks
        /\ Rw("root") \notin {Transition} \cup {}
        /\ Allows(ren, Rw("root"), {Transition}, {})
        /\ {Transition} \cup {Rw("root")} = {Transition, Rw("root")}
    BY LockFacts DEF Tree, Clear, Allows, Gate
  <2>2. Run(ren, Acquire(Rw("root")), Holding, Hold({Transition}, {}, FALSE), Holding,
            Hold({Transition, Rw("root")}, {}, FALSE))
    BY <2>1, AcquireRwRun DEF Tree
  <2>3. Run(ren, c1 \o Acquire(Rw("root")), Holding, Nothing, Holding,
            Hold({Transition, Rw("root")}, {}, FALSE))
    BY <1>1, <2>2, RunChain
  <2> QED
    BY <2>3
<1>3. PICK c3 : /\ c3 = c2 \o Briefly(Li("root"))
                /\ Run(ren, c3, Holding, Nothing, Holding,
                       Hold({Transition, Rw("root")}, {}, FALSE))
  <2>1. /\ {Transition, Rw("root")} \in SUBSET Locks
        /\ {} \in SUBSET Locks
        /\ Clear({Transition, Rw("root")}, {}, {"i_li_lock"})
    BY LockFacts DEF Tree, Clear, Allows, Gate
  <2>2. Run(ren, Briefly(Li("root")), Holding, Hold({Transition, Rw("root")}, {}, FALSE),
          Holding,
            Hold({Transition, Rw("root")}, {}, FALSE))
    BY <2>1, BrieflyLiRun
  <2>3. Run(ren, c2 \o Briefly(Li("root")), Holding, Nothing, Holding,
            Hold({Transition, Rw("root")}, {}, FALSE))
    BY <1>2, <2>2, RunChain
  <2> QED
    BY <2>3
<1>4. PICK c4 : /\ c4 = c3 \o Handle
                /\ Run(ren, c4, Holding, Nothing, Holding,
                       Hold({Transition, Rw("root")}, {}, FALSE))
  <2>1. /\ {Transition, Rw("root")} \in SUBSET Locks
        /\ {} \in SUBSET Locks
        /\ Clear({Transition, Rw("root")}, {}, {"i_li_lock", "refs"})
    BY LockFacts DEF Tree, Clear, Allows, Gate
  <2>2. Run(ren, Handle, Holding, Hold({Transition, Rw("root")}, {}, FALSE), Holding,
            Hold({Transition, Rw("root")}, {}, FALSE))
    BY <2>1, HandleRun
  <2>3. Run(ren, c3 \o Handle, Holding, Nothing, Holding,
            Hold({Transition, Rw("root")}, {}, FALSE))
    BY <1>3, <2>2, RunChain
  <2> QED
    BY <2>3
<1>5. PICK c5 : /\ c5 = c4 \o Briefly(Li("root"))
                /\ Run(ren, c5, Holding, Nothing, Holding,
                       Hold({Transition, Rw("root")}, {}, FALSE))
  <2>1. /\ {Transition, Rw("root")} \in SUBSET Locks
        /\ {} \in SUBSET Locks
        /\ Clear({Transition, Rw("root")}, {}, {"i_li_lock"})
    BY LockFacts DEF Tree, Clear, Allows, Gate
  <2>2. Run(ren, Briefly(Li("root")), Holding, Hold({Transition, Rw("root")}, {}, FALSE),
          Holding,
            Hold({Transition, Rw("root")}, {}, FALSE))
    BY <2>1, BrieflyLiRun
  <2>3. Run(ren, c4 \o Briefly(Li("root")), Holding, Nothing, Holding,
            Hold({Transition, Rw("root")}, {}, FALSE))
    BY <1>4, <2>2, RunChain
  <2> QED
    BY <2>3
<1>6. Reserve("root") = c5 \o Out({})
  BY <1>1, <1>2, <1>3, <1>4, <1>5 DEF Reserve
<1>7. Hold({Transition, Rw("root")}, {}, FALSE) \in Holding
  <2>1. {Transition, Rw("root")} \in SUBSET Locks /\ {} \in SUBSET Locks
    BY LockFacts DEF Tree
  <2> QED
    BY <2>1, HeldFree
<1> QED
  BY <1>5, <1>6, <1>7, LastOut

LEMMA PromoteGood ==
  ASSUME NEW ren, ~ren, NEW x \in {"left", "right"}, NEW y \in {"left", "right"}, x # y
  PROVE  Good(ren, Promote(x, y), Nothing)
<1>a. x \in Tree /\ y \in Tree /\ ~ren /\ x # y /\ x # "root" /\ y # "root"
  BY DEF Tree
<1>1. PICK c1 : /\ c1 = Share(Rw("root"))
                /\ Run(ren, c1, Holding, Nothing, Holding,
                       Hold({}, {Rw("root")}, FALSE))
  <2>1. /\ {} \in SUBSET Locks
        /\ {} \in SUBSET Locks
        /\ Rw("root") \notin {} \cup {}
        /\ Allows(ren, Rw("root"), {}, {})
        /\ {} \cup {Rw("root")} = {Rw("root")}
    BY LockFacts, <1>a DEF Tree, Clear, Allows, Gate
  <2>2. Run(ren, Share(Rw("root")), Holding, Nothing, Holding,
            Hold({}, {Rw("root")}, FALSE))
    BY <2>1, <1>a, AcquireRwRun DEF Tree, Nothing
  <2> QED
    BY <2>2
<1>2. PICK c2 : /\ c2 = c1 \o Out({})
                /\ Run(ren, c2, Holding, Nothing, Holding,
                       Hold({}, {}, FALSE))
  <2>1. /\ {} \in SUBSET Locks
        /\ {Rw("root")} \in SUBSET Locks
        /\ {} \in SUBSET Locks /\ Holding \in SUBSET Holding
        /\ {} \cap {} = {} /\ {Rw("root")} \cap {} = {}
        /\ \A I \in Holding : I.own \cap {} = {} /\ I.sh \cap {} = {}
    BY LockFacts, <1>a DEF Tree, Clear, Allows, Gate
  <2>2. Run(ren, Out({}), Holding, Hold({}, {Rw("root")}, FALSE), Holding,
            Hold({}, {}, FALSE))
    BY <2>1, OutRun
  <2>3. Run(ren, c1 \o Out({}), Holding, Nothing, Holding,
            Hold({}, {}, FALSE))
    BY <1>1, <2>2, RunChain
  <2> QED
    BY <2>3
<1>3. PICK c3 : /\ c3 = c2 \o Share(Rw(x))
                /\ Run(ren, c3, Holding, Nothing, Holding,
                       Hold({}, {Rw(x)}, FALSE))
  <2>1. /\ {} \in SUBSET Locks
        /\ {} \in SUBSET Locks
        /\ Rw(x) \notin {} \cup {}
        /\ Allows(ren, Rw(x), {}, {})
        /\ {} \cup {Rw(x)} = {Rw(x)}
    BY LockFacts, <1>a DEF Tree, Clear, Allows, Gate
  <2>2. Run(ren, Share(Rw(x)), Holding, Hold({}, {}, FALSE), Holding,
            Hold({}, {Rw(x)}, FALSE))
    BY <2>1, <1>a, AcquireRwRun DEF Tree
  <2>3. Run(ren, c2 \o Share(Rw(x)), Holding, Nothing, Holding,
            Hold({}, {Rw(x)}, FALSE))
    BY <1>2, <2>2, RunChain
  <2> QED
    BY <2>3
<1>4. PICK c4 : /\ c4 = c3 \o Out({})
                /\ Run(ren, c4, Holding, Nothing, Holding,
                       Hold({}, {}, FALSE))
  <2>1. /\ {} \in SUBSET Locks
        /\ {Rw(x)} \in SUBSET Locks
        /\ {} \in SUBSET Locks /\ Holding \in SUBSET Holding
        /\ {} \cap {} = {} /\ {Rw(x)} \cap {} = {}
        /\ \A I \in Holding : I.own \cap {} = {} /\ I.sh \cap {} = {}
    BY LockFacts, <1>a DEF Tree, Clear, Allows, Gate
  <2>2. Run(ren, Out({}), Holding, Hold({}, {Rw(x)}, FALSE), Holding,
            Hold({}, {}, FALSE))
    BY <2>1, OutRun
  <2>3. Run(ren, c3 \o Out({}), Holding, Nothing, Holding,
            Hold({}, {}, FALSE))
    BY <1>3, <2>2, RunChain
  <2> QED
    BY <2>3
<1>5. PICK c5 : /\ c5 = c4 \o Share(Rw(y))
                /\ Run(ren, c5, Holding, Nothing, Holding,
                       Hold({}, {Rw(y)}, FALSE))
  <2>1. /\ {} \in SUBSET Locks
        /\ {} \in SUBSET Locks
        /\ Rw(y) \notin {} \cup {}
        /\ Allows(ren, Rw(y), {}, {})
        /\ {} \cup {Rw(y)} = {Rw(y)}
    BY LockFacts, <1>a DEF Tree, Clear, Allows, Gate
  <2>2. Run(ren, Share(Rw(y)), Holding, Hold({}, {}, FALSE), Holding,
            Hold({}, {Rw(y)}, FALSE))
    BY <2>1, <1>a, AcquireRwRun DEF Tree
  <2>3. Run(ren, c4 \o Share(Rw(y)), Holding, Nothing, Holding,
            Hold({}, {Rw(y)}, FALSE))
    BY <1>4, <2>2, RunChain
  <2> QED
    BY <2>3
<1>6. PICK c6 : /\ c6 = c5 \o Out({})
                /\ Run(ren, c6, Holding, Nothing, Holding,
                       Hold({}, {}, FALSE))
  <2>1. /\ {} \in SUBSET Locks
        /\ {Rw(y)} \in SUBSET Locks
        /\ {} \in SUBSET Locks /\ Holding \in SUBSET Holding
        /\ {} \cap {} = {} /\ {Rw(y)} \cap {} = {}
        /\ \A I \in Holding : I.own \cap {} = {} /\ I.sh \cap {} = {}
    BY LockFacts, <1>a DEF Tree, Clear, Allows, Gate
  <2>2. Run(ren, Out({}), Holding, Hold({}, {Rw(y)}, FALSE), Holding,
            Hold({}, {}, FALSE))
    BY <2>1, OutRun
  <2>3. Run(ren, c5 \o Out({}), Holding, Nothing, Holding,
            Hold({}, {}, FALSE))
    BY <1>5, <2>2, RunChain
  <2> QED
    BY <2>3
<1>7. PICK c7 : /\ c7 = c6 \o Handle
                /\ Run(ren, c7, Holding, Nothing, Holding,
                       Hold({}, {}, FALSE))
  <2>1. /\ {} \in SUBSET Locks
        /\ {} \in SUBSET Locks
        /\ Clear({}, {}, {"i_li_lock", "refs"})
    BY LockFacts, <1>a DEF Tree, Clear, Allows, Gate
  <2>2. Run(ren, Handle, Holding, Hold({}, {}, FALSE), Holding,
            Hold({}, {}, FALSE))
    BY <2>1, HandleRun
  <2>3. Run(ren, c6 \o Handle, Holding, Nothing, Holding,
            Hold({}, {}, FALSE))
    BY <1>6, <2>2, RunChain
  <2> QED
    BY <2>3
<1>8. PICK c8 : /\ c8 = c7 \o Acquire(Transition)
                /\ Run(ren, c8, Holding, Nothing, Holding,
                       Hold({Transition}, {}, FALSE))
  <2>1. /\ {} \in SUBSET Locks
        /\ {} \in SUBSET Locks
        /\ Nothing = Hold({}, {}, FALSE)
        /\ Transition # RenameMutex
    BY LockFacts, <1>a DEF Tree, Nothing
  <2>2. Run(ren, Acquire(Transition), Holding, Hold({}, {}, FALSE), Holding,
            Hold({Transition}, {}, FALSE))
    BY <2>1, AcquireGateRun
  <2>3. Run(ren, c7 \o Acquire(Transition), Holding, Nothing, Holding,
            Hold({Transition}, {}, FALSE))
    BY <1>7, <2>2, RunChain
  <2> QED
    BY <2>3
<1>9. PICK c9 : /\ c9 = c8 \o Acquire(Rw("root"))
                /\ Run(ren, c9, Holding, Nothing, Holding,
                       Hold({Transition, Rw("root")}, {}, FALSE))
  <2>1. /\ {Transition} \in SUBSET Locks
        /\ {} \in SUBSET Locks
        /\ Rw("root") \notin {Transition} \cup {}
        /\ Allows(ren, Rw("root"), {Transition}, {})
        /\ {Transition} \cup {Rw("root")} = {Transition, Rw("root")}
    BY LockFacts, <1>a DEF Tree, Clear, Allows, Gate
  <2>2. Run(ren, Acquire(Rw("root")), Holding, Hold({Transition}, {}, FALSE), Holding,
            Hold({Transition, Rw("root")}, {}, FALSE))
    BY <2>1, <1>a, AcquireRwRun DEF Tree
  <2>3. Run(ren, c8 \o Acquire(Rw("root")), Holding, Nothing, Holding,
            Hold({Transition, Rw("root")}, {}, FALSE))
    BY <1>8, <2>2, RunChain
  <2> QED
    BY <2>3
<1>10. PICK c10 : /\ c10 = c9 \o Acquire(Rw(x))
                  /\ Run(ren, c10, Holding, Nothing, Holding,
                         Hold({Transition, Rw("root"), Rw(x)}, {}, FALSE))
  <2>1. /\ {Transition, Rw("root")} \in SUBSET Locks
        /\ {} \in SUBSET Locks
        /\ Rw(x) \notin {Transition, Rw("root")} \cup {}
        /\ Allows(ren, Rw(x), {Transition, Rw("root")}, {})
        /\ {Transition, Rw("root")} \cup {Rw(x)} = {Transition, Rw("root"), Rw(x)}
    BY LockFacts, <1>a DEF Tree, Clear, Allows, Gate
  <2>2. Run(ren, Acquire(Rw(x)), Holding, Hold({Transition, Rw("root")}, {}, FALSE), Holding,
            Hold({Transition, Rw("root"), Rw(x)}, {}, FALSE))
    BY <2>1, <1>a, AcquireRwRun DEF Tree
  <2>3. Run(ren, c9 \o Acquire(Rw(x)), Holding, Nothing, Holding,
            Hold({Transition, Rw("root"), Rw(x)}, {}, FALSE))
    BY <1>9, <2>2, RunChain
  <2> QED
    BY <2>3
<1>11. PICK c11 : /\ c11 = c10 \o Acquire(Rw(y))
                  /\ Run(ren, c11, Holding, Nothing, Holding,
                         Hold({Transition, Rw("root"), Rw(x), Rw(y)}, {}, FALSE))
  <2>1. /\ {Transition, Rw("root"), Rw(x)} \in SUBSET Locks
        /\ {} \in SUBSET Locks
        /\ Rw(y) \notin {Transition, Rw("root"), Rw(x)} \cup {}
        /\ Allows(ren, Rw(y), {Transition, Rw("root"), Rw(x)}, {})
        /\ {Transition, Rw("root"), Rw(x)} \cup {Rw(y)} = {Transition, Rw("root"), Rw(x), Rw(y)}
    BY LockFacts, <1>a DEF Tree, Clear, Allows, Gate
  <2>2. Run(ren, Acquire(Rw(y)), Holding, Hold({Transition, Rw("root"), Rw(x)}, {}, FALSE),
          Holding,
            Hold({Transition, Rw("root"), Rw(x), Rw(y)}, {}, FALSE))
    BY <2>1, <1>a, AcquireRwRun DEF Tree
  <2>3. Run(ren, c10 \o Acquire(Rw(y)), Holding, Nothing, Holding,
            Hold({Transition, Rw("root"), Rw(x), Rw(y)}, {}, FALSE))
    BY <1>10, <2>2, RunChain
  <2> QED
    BY <2>3
<1>12. PICK c12 : /\ c12 = c11 \o Check
                  /\ Run(ren, c12, Holding, Nothing, Holding,
                         Hold({Transition, Rw("root"), Rw(x), Rw(y)}, {}, FALSE))
  <2>0. /\ {Transition, Rw("root"), Rw(x), Rw(y)} \in SUBSET Locks
        /\ {} \in SUBSET Locks
    BY LockFacts, <1>a DEF Tree
  <2>1. Hold({Transition, Rw("root"), Rw(x), Rw(y)}, {}, FALSE) \in Holding
    BY <2>0, LockFacts, HeldFree, HeldOpen DEF Tree
  <2>2. Run(ren, Check, Holding, Hold({Transition, Rw("root"), Rw(x), Rw(y)}, {}, FALSE),
          Holding,
            Hold({Transition, Rw("root"), Rw(x), Rw(y)}, {}, FALSE))
    BY <2>1, CheckRun
  <2>3. Run(ren, c11 \o Check, Holding, Nothing, Holding,
            Hold({Transition, Rw("root"), Rw(x), Rw(y)}, {}, FALSE))
    BY <1>11, <2>2, RunChain
  <2> QED
    BY <2>3
<1>13. PICK c13 : /\ c13 = c12 \o Handle
                  /\ Run(ren, c13, Holding, Nothing, Holding,
                         Hold({Transition, Rw("root"), Rw(x), Rw(y)}, {}, FALSE))
  <2>1. /\ {Transition, Rw("root"), Rw(x), Rw(y)} \in SUBSET Locks
        /\ {} \in SUBSET Locks
        /\ Clear({Transition, Rw("root"), Rw(x), Rw(y)}, {}, {"i_li_lock", "refs"})
    BY LockFacts, <1>a DEF Tree, Clear, Allows, Gate
  <2>2. Run(ren, Handle, Holding, Hold({Transition, Rw("root"), Rw(x), Rw(y)}, {}, FALSE),
          Holding,
            Hold({Transition, Rw("root"), Rw(x), Rw(y)}, {}, FALSE))
    BY <2>1, HandleRun
  <2>3. Run(ren, c12 \o Handle, Holding, Nothing, Holding,
            Hold({Transition, Rw("root"), Rw(x), Rw(y)}, {}, FALSE))
    BY <1>12, <2>2, RunChain
  <2> QED
    BY <2>3
<1>14. PICK c14 : /\ c14 = c13 \o Handle
                  /\ Run(ren, c14, Holding, Nothing, Holding,
                         Hold({Transition, Rw("root"), Rw(x), Rw(y)}, {}, FALSE))
  <2>1. /\ {Transition, Rw("root"), Rw(x), Rw(y)} \in SUBSET Locks
        /\ {} \in SUBSET Locks
        /\ Clear({Transition, Rw("root"), Rw(x), Rw(y)}, {}, {"i_li_lock", "refs"})
    BY LockFacts, <1>a DEF Tree, Clear, Allows, Gate
  <2>2. Run(ren, Handle, Holding, Hold({Transition, Rw("root"), Rw(x), Rw(y)}, {}, FALSE),
          Holding,
            Hold({Transition, Rw("root"), Rw(x), Rw(y)}, {}, FALSE))
    BY <2>1, HandleRun
  <2>3. Run(ren, c13 \o Handle, Holding, Nothing, Holding,
            Hold({Transition, Rw("root"), Rw(x), Rw(y)}, {}, FALSE))
    BY <1>13, <2>2, RunChain
  <2> QED
    BY <2>3
<1>15. Promote(x, y) = c14 \o Out({})
  BY <1>1, <1>2, <1>3, <1>4, <1>5, <1>6, <1>7, <1>8, <1>9, <1>10, <1>11, <1>12, <1>13,
     <1>14 DEF Promote
<1>16. Hold({Transition, Rw("root"), Rw(x), Rw(y)}, {}, FALSE) \in Holding
  <2>1. {Transition, Rw("root"), Rw(x), Rw(y)} \in SUBSET Locks /\ {} \in SUBSET Locks
    BY LockFacts, <1>a DEF Tree
  <2> QED
    BY <2>1, HeldFree
<1> QED
  BY <1>14, <1>15, <1>16, LastOut

(* Promotions and renames do not run together.                             *)
Separate == \A k \in OpSets : ~({"promote", "rename"} \subseteq k)

LEMMA ProgramsGood ==
  ASSUME ~ReclaimStarts, Separate, kinds \in OpSets, NEW k \in kinds, NEW p \in Programs(k)
  PROVE  Good("rename" \in kinds, p, Nothing)
<1>a. k \in Kinds
  BY LockAssumption
<1>1. CASE k = "mutate"
  BY <1>1, MutateGood DEF Programs
<1>2. CASE k = "rename"
  <2>1. PICK d \in Tree, e \in Tree : d # e /\ p = Rename(d, e)
    BY <1>2 DEF Programs
  <2>2. "rename" \in kinds
    BY <1>2
  <2> QED
    BY <2>1, <2>2, RenameGood
<1>3. CASE k = "list"
  BY <1>3, ListGood DEF Programs
<1>4. CASE k = "compact"
  BY <1>4, CompactGood DEF Programs
<1>5. CASE k = "demote"
  BY <1>5, DemoteGood DEF Programs
<1>6. CASE k = "subsume"
  BY <1>6, SubsumeGood DEF Programs
<1>7. CASE k = "reserve"
  BY <1>7, ReserveGood DEF Programs
<1>8. CASE k = "promote"
  <2>1. "rename" \notin kinds
    BY <1>8 DEF Separate
  <2> QED
    BY <1>8, <2>1, PromoteGood DEF Programs
<1> QED
  BY <1>a, <1>1, <1>2, <1>3, <1>4, <1>5, <1>6, <1>7, <1>8 DEF Kinds

LEMMA BeginKeeps ==
  ASSUME ~ReclaimStarts, Separate, LockIInv, NEW c \in Caller, Begin(c)
  PROVE  LockIInv'
<1>1. PICK k \in kinds : \E p \in Programs(k) : left' = [left EXCEPT ![c] = p]
  BY DEF Begin
<1>2. PICK p \in Programs(k) : left' = [left EXCEPT ![c] = p]
  BY <1>1
<1>3. UNCHANGED <<kinds, owner, shared, handles, barrier>> /\ Idle(c)
  BY DEF Begin
<1>4. kinds \in OpSets
  BY DEF LockIInv
<1>5. Good("rename" \in kinds, p, Nothing)
  BY <1>4, ProgramsGood
<1>6. HeldBy(c) = Nothing
  <2>1. Both(HeldBy(c)) = {} /\ ~HeldBy(c).han
    BY <1>3, GoodUnfold DEF LockIInv, Idle
  <2>2. HeldBy(c).own = {} /\ HeldBy(c).sh = {}
    BY <2>1 DEF Both
  <2>3. \A l \in Locks : owner[l] # c /\ c \notin shared[l]
    BY <2>2, HeldTyped
  <2>4. {l \in Locks : owner[l] = c} = {} /\ {l \in Locks : c \in shared[l]} = {}
    BY <2>3
  <2>5. (c \in handles) = FALSE
    <3>1. HeldBy(c).han = (c \in handles)
      BY Zenon DEF HeldBy, Hold
    <3>2. HeldBy(c).han \in BOOLEAN
      BY HeldTyped DEF Holding
    <3> QED
      BY Zenon, <2>1, <3>1, <3>2
  <2> QED
    BY <2>4, <2>5, Zenon DEF HeldBy, Nothing
<1>7. p \in Seq(StepSet) /\ left \in [Caller -> Seq(StepSet)]
  BY <1>5, GoodTyped DEF LockIInv
<1>8. left' \in [Caller -> Seq(StepSet)] /\ left'[c] = p
      /\ \A d \in Caller \ {c} : left'[d] = left[d]
  BY <1>2, <1>7
<1>9. \A d \in Caller : HeldBy(d)' = HeldBy(d)
  BY <1>3, HeldNext, HeldNow
<1>10. /\ owner' \in [Locks -> Caller \cup {"none"}] /\ shared' \in [Locks -> SUBSET Caller]
       /\ handles' \subseteq Caller /\ barrier' \in BOOLEAN /\ kinds' = kinds
       /\ \A l \in Locks : /\ owner'[l] # "none" => l[1] # "refs"
                           /\ shared'[l] # {} => l[1] \in {"i_rwsem", "refs"}
  BY <1>3 DEF LockIInv
<1>11. Good("rename" \in kinds, left'[c], HeldBy(c)')
  BY <1>5, <1>6, <1>8, <1>9
<1> QED
  BY <1>8, <1>9, <1>10, <1>11, OthersHold

LEMMA LockInitIInv ==
  ASSUME LockInit PROVE LockIInv
<1>1. /\ kinds \in OpSets /\ left = [c \in Caller |-> <<>>]
      /\ owner = [l \in Locks |-> "none"] /\ shared = [l \in Locks |-> {}]
      /\ handles = {} /\ barrier = FALSE
  BY DEF LockInit
<1>5. <<>> \in Seq(StepSet)
  OBVIOUS
<1>2. /\ left \in [Caller -> Seq(StepSet)] /\ owner \in [Locks -> Caller \cup {"none"}]
      /\ shared \in [Locks -> SUBSET Caller] /\ handles \subseteq Caller /\ barrier \in BOOLEAN
  BY <1>1, <1>5
<1>3. ASSUME NEW c \in Caller PROVE Good("rename" \in kinds, left[c], HeldBy(c))
  <2>1. /\ {l \in Locks : owner[l] = c} = {} /\ {l \in Locks : c \in shared[l]} = {}
        /\ (c \in handles) = FALSE
    BY <1>1, LockAssumption
  <2>2. HeldBy(c) = Nothing
    BY <2>1, Zenon DEF HeldBy, Nothing
  <2>3. left[c] = <<>> /\ <<>> \in Seq(StepSet)
    BY <1>1
  <2>4. Nothing \in Holding /\ Both(Nothing) = {} /\ ~Nothing.han
    BY DEF Nothing, Hold, Holding, Both
  <2> QED
    BY <2>2, <2>3, <2>4, GoodFold
<1>4. \A l \in Locks : /\ owner[l] # "none" => l[1] # "refs"
                       /\ shared[l] # {} => l[1] \in {"i_rwsem", "refs"}
  BY <1>1
<1> QED
  BY <1>1, <1>2, <1>3, <1>4 DEF LockIInv

(* However many callers run whichever operations, no circle of them waits  *)
(* for each other, provided that promotions and renames do not run         *)
(* together and no allocation under i_li_lock enters the journal: with     *)
(* either, the code can deadlock (section 5 of the README).                *)
THEOREM NobodyGetsStuck ==
  ASSUME ~ReclaimStarts, \A k \in OpSets : ~({"promote", "rename"} \subseteq k)
  PROVE  LockSpec => []NobodyStuck
<1>1. LockInit => LockIInv
  BY LockInitIInv
<1>2. LockIInv /\ [LockNext]_lockVars => LockIInv'
  <2> SUFFICES ASSUME LockIInv, [LockNext]_lockVars PROVE LockIInv'
    OBVIOUS
  <2>1. ASSUME NEW c \in Caller, Begin(c) PROVE LockIInv'
    BY <2>1, BeginKeeps DEF Separate
  <2>2. ASSUME NEW c \in Caller, TakeLock(c) \/ TakeShared(c) \/ GiveLock(c) PROVE LockIInv'
    BY <2>2, TakeLockKeeps, TakeSharedKeeps, GiveLockKeeps
  <2>3. ASSUME NEW c \in Caller, Passes(c) \/ Fails(c) \/ CleansUp(c) PROVE LockIInv'
    BY <2>3, PassesKeeps, FailsKeeps, CleansUpKeeps
  <2>4. ASSUME NEW c \in Caller, StartHandle(c) \/ StopHandle(c) PROVE LockIInv'
    BY <2>4, HandleKeeps
  <2>5. CASE CommitLocks \/ CommitProceeds
    BY <2>5, CommitKeeps
  <2>6. CASE UNCHANGED lockVars
    <3>1. UNCHANGED <<kinds, left, owner, shared, handles, barrier>>
      BY <2>6 DEF lockVars
    <3>2. \A d \in Caller : HeldBy(d)' = HeldBy(d)
      BY <3>1, HeldNext, HeldNow
    <3> QED
      BY <3>1, <3>2 DEF LockIInv
  <2> QED
    BY <2>1, <2>2, <2>3, <2>4, <2>5, <2>6 DEF LockNext
<1>3. LockIInv => NobodyStuck
  BY LockIInvNobodyStuck
<1> QED
  BY <1>1, <1>2, <1>3, PTL DEF LockSpec
=============================================================================
