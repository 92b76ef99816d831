----------------------------- MODULE Promotion -----------------------------
(***************************************************************************)
(* Turning a conventional tree into one stable root while it is in use:    *)
(* __ext5_promote_subtree.  Directories are captured one at a time under   *)
(* their shared lock, with their i_version; nested roots are demoted on    *)
(* the way; the index is built with nothing locked; then the whole tree is *)
(* locked, parents first, the versions compared, and the root and after it *)
(* every interior published by a journal handle of its own.                *)
(***************************************************************************)
EXTENDS Naturals, FiniteSets, SequencesExt

CONSTANTS Top,   \* the directory to promote
          Sub,   \* the directories below it
          Plain  \* names of everything else

ASSUME PromotionAssumption == Top \notin Sub /\ IsFiniteSet(Sub)

VARIABLES
  tree,     \* history: the namespace, as the callers were told
  kind,     \* per directory: conventional, a root, or an interior of Top
  linear,   \* per directory: its conventional entries
  index,    \* per directory: its entries in the index once it is routed
  pro,      \* the promotion
  touched,  \* directories whose i_version moved since they were captured
  held      \* directories whose i_rwsem the promotion holds

proVars == <<tree, kind, linear, index, pro, touched, held>>

Folders == {Top} \cup Sub
Items == Sub \cup Plain
Trees == [Folders -> SUBSET Items]

(* dirs is c->dirs, up their parents there, done the part captured, locked *)
(* or published, slots what the index will hold for each.                  *)
PromoteCall == [pc : {"idle", "walk", "lock", "root", "interior"},
                dirs : Seq(Folders), up : [Folders -> Folders],
                done : Nat, slots : Trees]
NoPromotion == [pc |-> "idle", dirs |-> <<>>, up |-> [d \in Folders |-> Top],
                done |-> 0, slots |-> [d \in Folders |-> {}]]

PromotionInit ==
  /\ tree = [d \in Folders |-> IF d = Top THEN Sub ELSE {}]
  /\ kind = [d \in Folders |-> "conventional"]
  /\ linear = tree
  /\ index = [d \in Folders |-> {}]
  /\ pro = NoPromotion
  /\ touched = {}
  /\ held = {}

-----------------------------------------------------------------------------
Stable(d) == kind[d] # "conventional"

Captured == {pro.dirs[i] : i \in 1..Len(pro.dirs)}
Read == IF pro.pc = "walk" THEN {pro.dirs[i] : i \in 1..pro.done}
        ELSE Captured

(* A directory that moved between two captures is in c->dirs twice.        *)
CapturedOnce == Len(pro.dirs) = Cardinality(Captured)

NextDir == pro.dirs[pro.done + 1]
AllDone == pro.done = Len(pro.dirs)

(* What a lookup in d finds; a route to a root that is none finds nothing. *)
Found(d) == IF ~Stable(d) THEN linear[d]
            ELSE IF kind[d] = "interior" /\ kind[Top] # "root" THEN {}
            ELSE index[d]

(* Entries of d become c in whichever form d has.                          *)
Store(l, x, d, c) ==
  /\ linear' = IF Stable(d) THEN l ELSE [l EXCEPT ![d] = c]
  /\ index' = IF Stable(d) THEN [x EXCEPT ![d] = c] ELSE x

(* inode_inc_iversion; only what is captured is compared.                  *)
Touch(ds) == touched' = touched \cup (ds \cap Read)

(* A name comes or goes, with the directory's i_rwsem held; in either form *)
(* of directory its i_version moves.                                       *)
ChangeName(d, f) ==
  LET c == IF f \in tree[d] THEN tree[d] \ {f} ELSE tree[d] \cup {f}
  IN  /\ d \notin held
      /\ tree' = [tree EXCEPT ![d] = c]
      /\ Store(linear, index, d, c)
      /\ Touch({d})
      /\ UNCHANGED <<kind, pro, held>>

(* The descendants of x, x included; here at most two levels.              *)
Inside(x) == {x} \cup (tree[x] \cap Sub)
                 \cup UNION {tree[y] \cap Sub : y \in tree[x] \cap Sub}

(* ext5_rename between conventional directories.                           *)
MoveFolder(x, a, b) ==
  /\ a # b /\ {a, b} \cap held = {}
  /\ ~Stable(a) /\ ~Stable(b)
  /\ x \in tree[a] /\ b \notin Inside(x)
  /\ tree' = [tree EXCEPT ![a] = @ \ {x}, ![b] = @ \cup {x}]
  /\ linear' = [linear EXCEPT ![a] = @ \ {x}, ![b] = @ \cup {x}]
  /\ Touch({a, b})
  /\ UNCHANGED <<kind, index, pro, held>>

(* Another worker promotes a directory of the tree on its own ...          *)
PromotedAlone(d) ==
  /\ d \in Sub \ held /\ held = {}
  /\ ~Stable(d)
  /\ kind' = [kind EXCEPT ![d] = "root"]
  /\ index' = [index EXCEPT ![d] = linear[d]]
  /\ linear' = [linear EXCEPT ![d] = {}]
  /\ Touch({d})
  /\ UNCHANGED <<tree, pro, held>>

(* ... or demotes a root with its interiors (see Demotion).                *)
Demoted(d) ==
  LET all == {d} \cup {x \in Sub : d = Top /\ kind[x] = "interior"}
  IN  /\ kind[d] = "root" /\ held = {}
      /\ kind' = [x \in Folders |-> IF x \in all THEN "conventional"
                                    ELSE kind[x]]
      /\ linear' = [x \in Folders |-> IF x \in all THEN index[x]
                                      ELSE linear[x]]
      /\ index' = [x \in Folders |-> IF x \in all THEN {} ELSE index[x]]
      /\ Touch(all)
      /\ UNCHANGED <<tree, pro, held>>

-----------------------------------------------------------------------------
PromoteBegins ==
  /\ pro.pc = "idle"
  /\ ~Stable(Top)
  /\ pro' = [NoPromotion EXCEPT !.pc = "walk", !.dirs = <<Top>>]
  /\ UNCHANGED <<tree, kind, linear, index, touched, held>>

(* ext5_demote_subtree_for_promote: the parent must not have changed since *)
(* it was captured.                                                        *)
WalkDemotes ==
  LET d == NextDir
  IN  /\ pro.pc = "walk"
      /\ ~AllDone
      /\ kind[d] = "root"
      /\ d # Top /\ pro.up[d] \notin touched
      /\ kind' = [kind EXCEPT ![d] = "conventional"]
      /\ linear' = [linear EXCEPT ![d] = index[d]]
      /\ index' = [index EXCEPT ![d] = {}]
      /\ UNCHANGED <<tree, pro, touched, held>>

(* promote_walk_dir under the shared lock: every entry becomes a slot, and *)
(* every directory among them joins the walk unless it is a boundary.      *)
WalkReads ==
  LET d == NextDir
      roots == {x \in linear[d] \cap Sub : kind[x] = "root"}
      mine == {x \in linear[d] \cap Sub : kind[x] # "interior"}
  IN  /\ pro.pc = "walk"
      /\ ~AllDone
      /\ ~Stable(d)
      /\ \A x \in linear[d] \cap Sub : kind[x] # "interior"
      /\ \E join \in {mine, mine \ roots} :
           \E s \in SetToSeqs(join) :
             pro' = [pc |-> "walk", dirs |-> pro.dirs \o s,
                     up |-> [x \in Folders |-> IF x \in join THEN d
                                               ELSE pro.up[x]],
                     done |-> pro.done + 1,
                     slots |-> [pro.slots EXCEPT ![d] = linear[d]]]
      /\ UNCHANGED <<tree, kind, linear, index, touched, held>>

(* promote_build_blob_v2 and the shadows, nothing locked.                  *)
PromoteBuilds ==
  /\ pro.pc = "walk"
  /\ AllDone
  /\ pro' = [pro EXCEPT !.pc = "lock", !.done = 0]
  /\ UNCHANGED <<tree, kind, linear, index, touched, held>>

(* promote_lock_and_validate: one directory after another ...              *)
PromoteLocks ==
  /\ pro.pc = "lock"
  /\ ~AllDone
  /\ NextDir \notin held
  /\ held' = held \cup {NextDir}
  /\ pro' = [pro EXCEPT !.done = @ + 1]
  /\ UNCHANGED <<tree, kind, linear, index, touched>>

(* Mutant: only the root is compared with its snapshot.                    *)
PromoteValidatesTop ==
  /\ pro.pc = "lock"
  /\ AllDone
  /\ Top \notin touched /\ ~Stable(Top)
  /\ pro' = [pro EXCEPT !.pc = "root"]
  /\ UNCHANGED <<tree, kind, linear, index, touched, held>>

(* ... then none may have changed, nor be stable by now.                   *)
PromoteValidates ==
  /\ pro.pc = "lock"
  /\ AllDone
  /\ Captured \cap touched = {}
  /\ \A d \in Captured : ~Stable(d)
  /\ pro' = [pro EXCEPT !.pc = "root"]
  /\ UNCHANGED <<tree, kind, linear, index, touched, held>>

(* promote_publish_root_shadow.                                            *)
PromotePublishesRoot ==
  /\ pro.pc = "root"
  /\ kind' = [kind EXCEPT ![Top] = "root"]
  /\ index' = [index EXCEPT ![Top] = pro.slots[Top]]
  /\ linear' = [linear EXCEPT ![Top] = {}]
  /\ pro' = [pro EXCEPT !.pc = "interior", !.done = 1]
  /\ UNCHANGED <<tree, touched, held>>

(* promote_publish_interior_shadow, in the order of the walk.              *)
PromotePublishesInterior ==
  LET d == NextDir
  IN  /\ pro.pc = "interior"
      /\ ~AllDone
      /\ kind' = [kind EXCEPT ![d] = "interior"]
      /\ index' = [index EXCEPT ![d] = pro.slots[d]]
      /\ linear' = [linear EXCEPT ![d] = {}]
      /\ pro' = [pro EXCEPT !.done = @ + 1]
      /\ UNCHANGED <<tree, touched, held>>

(* Done; or a capture, a check, a journal handle or the power failed, and  *)
(* what is published stays.                                                *)
PromoteEnds ==
  /\ pro.pc # "idle"
  /\ pro' = NoPromotion
  /\ held' = {} /\ touched' = {}
  /\ UNCHANGED <<tree, kind, linear, index>>

PromotionNext ==
  \/ \E d \in Folders : Demoted(d) \/ PromotedAlone(d)
                          \/ \E f \in Plain : ChangeName(d, f)
  \/ \E x \in Sub, a, b \in Folders : MoveFolder(x, a, b)
  \/ PromoteBegins \/ WalkDemotes \/ WalkReads \/ PromoteBuilds
  \/ PromoteLocks \/ PromoteValidates \/ PromotePublishesRoot
  \/ PromotePublishesInterior \/ PromoteEnds

PromotionSpec == PromotionInit /\ [][PromotionNext]_proVars

-----------------------------------------------------------------------------
(* Every variable has its type.                                            *)
PromotionTypeOK ==
  /\ tree \in Trees /\ linear \in Trees /\ index \in Trees
  /\ kind \in [Folders -> {"conventional", "root", "interior"}]
  /\ pro \in PromoteCall
  /\ touched \subseteq Folders /\ held \subseteq Folders

(* Whatever happened to the tree while __ext5_promote_subtree captured it  *)
(* and built the index, and wherever publication stops, a lookup in every  *)
(* directory finds its names, and an interior leads to a root.             *)
PromotedFindsTree ==
  \A d \in Folders : /\ Found(d) = tree[d]
                     /\ kind[d] = "interior" => kind[Top] = "root"

(* What the comment above promote_lock_and_validate says: a changed tree   *)
(* only aborts.  It is compared after every i_rwsem of c->dirs is held, so *)
(* none may be wanted twice.                                               *)
NeverWaitsForItself == pro.pc = "lock" /\ ~AllDone => NextDir \notin held
=============================================================================
