---------------------------- MODULE PromotePolicy ----------------------------
(* The promotion policy of promote.c: a lookup that misses the dentry cache*)
(* walks from its directory to the mount root, arms the highest quiet and  *)
(* large enough directory (i_li_armed = 2) and queues its promotion work;  *)
(* the work checks again, promotes or gives up, and unarms.                *)
(*                                                                         *)
(* Whether a directory is large and quiet enough is a free choice: it is   *)
(* what the counts and the operation clock say.  An armed directory hides  *)
(* every directory below it from the policy.                               *)
EXTENDS Naturals, Sequences

CONSTANTS
  Looker,  \* threads that look names up
  Depth,   \* directories on the path, the lowest first
  MaxMut   \* bound: mutations

ASSUME PolicyAssumption == Depth \in Nat \ {0} /\ MaxMut \in Nat

Path == 1..Depth
Nowhere == 0

VARIABLES
  manual,   \* ext5_li_policy_mode: 1 subtree, 2 directory
  armed,    \* i_li_armed
  form,     \* conventional, root or interior
  mut,      \* i_li_last_mut, as the number of mutations
  observed, \* promote_observed_last_mut
  policyWork, \* promote_work and promote_work_ref
  look,     \* per thread, its lookup
  shutting  \* li_shutting_down

policyVars == <<manual, armed, form, mut, observed, policyWork, look, shutting>>

NoLook == [pc |-> "none", at |-> Nowhere, target |-> Nowhere]
NoWork == [pend |-> FALSE, held |-> FALSE, run |-> "no", saw |-> 0]

PolicyInit ==
  /\ manual \in {1, 2} /\ shutting = FALSE
  /\ armed = [d \in Path |-> 0] /\ form = [d \in Path |-> "mutable"]
  /\ mut = [d \in Path |-> 0] /\ observed = mut
  /\ policyWork = [d \in Path |-> NoWork]
  /\ look = [t \in Looker |-> NoLook]

Arm(d, n) == armed' = [armed EXCEPT ![d] = n]
Look(t, new) == look' = [look EXCEPT ![t] = new]
At(t, pc) == look[t].pc = pc
PolicyStep(d, run) == policyWork' = [policyWork EXCEPT ![d].run = run]

-----------------------------------------------------------------------------
(* ext5_lookup: in a pending directory there is nothing to decide.         *)
LookupBegin(t, d) ==
  /\ At(t, "none")
  /\ form[d] # "mutable" \/ armed[d] # 2
  /\ Look(t, [pc |-> "walk", at |-> d, target |-> Nowhere])
  /\ UNCHANGED <<manual, armed, form, mut, observed, policyWork, shutting>>

(* One directory of the walk of ext5_li_maybe_promote_on_lookup.  A stable *)
(* one is passed over, a pending one supersedes the candidates below it.   *)
LookupWalk(t) ==
  LET d == look[t].at
      on(target) == Look(t, IF manual = 2 \/ d = Depth
                            THEN [look[t] EXCEPT !.pc = "chosen", !.target = target]
                            ELSE [look[t] EXCEPT !.at = d + 1, !.target = target])
  IN  /\ At(t, "walk")
      /\ \/ form[d] # "mutable" /\ on(look[t].target)
         \/ form[d] = "mutable" /\ armed[d] = 2 /\ Look(t, NoLook)
         \/ /\ form[d] = "mutable" /\ armed[d] # 2
            /\ \E qualifies \in BOOLEAN :
                 on(IF qualifies THEN d ELSE look[t].target)
      /\ UNCHANGED <<manual, armed, form, mut, observed, policyWork, shutting>>

LookupArm(t) ==
  LET d == look[t].target
  IN  /\ At(t, "chosen")
      /\ \/ d = Nowhere /\ Look(t, NoLook) /\ UNCHANGED armed
         \/ d # Nowhere /\ Arm(d, 2) /\ Look(t, [look[t] EXCEPT !.pc = "schedule"])
      /\ UNCHANGED <<manual, form, mut, observed, policyWork, shutting>>

(* ext5_li_schedule_promote.  Of the mutation position and the work the    *)
(* thread holds no lock; the reference flag it looks at afterwards may     *)
(* have been cleared by the work itself.                                   *)
ScheduleObserve(t) ==
  LET d == look[t].target
  IN  /\ At(t, "schedule")
      /\ \/ shutting /\ Arm(d, 1) /\ Look(t, NoLook) /\ UNCHANGED observed
         \/ /\ ~shutting
            /\ observed' = [observed EXCEPT ![d] = mut[d]]
            /\ Look(t, [look[t] EXCEPT !.pc = "queue"]) /\ UNCHANGED armed
      /\ UNCHANGED <<manual, form, mut, policyWork, shutting>>

ScheduleQueue(t) ==
  LET d == look[t].target
  IN  /\ At(t, "queue")
      /\ policyWork' = [policyWork EXCEPT ![d].pend = TRUE, ![d].held = TRUE]
      /\ Look(t, [look[t] EXCEPT !.pc = IF policyWork[d].pend THEN "busy" ELSE "queued"])
      /\ UNCHANGED <<manual, armed, form, mut, observed, shutting>>

ScheduleEnd(t) ==
  LET d == look[t].target
  IN  /\ look[t].pc \in {"queued", "busy"}
      /\ IF At(t, "busy") \/ ~policyWork[d].held THEN Arm(d, 1) ELSE UNCHANGED armed
      /\ Look(t, NoLook)
      /\ UNCHANGED <<manual, form, mut, observed, policyWork, shutting>>

-----------------------------------------------------------------------------
(* __ext5_auto_promote_work_fn.                                            *)
PromoteStart(d) ==
  /\ policyWork[d].pend /\ policyWork[d].run = "no"
  /\ policyWork' = [policyWork EXCEPT ![d] =
                     [pend |-> FALSE, held |-> TRUE, saw |-> observed[d],
                      run |-> IF shutting THEN "finish" ELSE "check"]]
  /\ UNCHANGED <<manual, armed, form, mut, observed, look, shutting>>

(* The directory was accessed too recently: later.                         *)
WorkIdles(d) ==
  /\ policyWork[d].run = "check" /\ ~shutting
  /\ policyWork' = [policyWork EXCEPT ![d].pend = TRUE, ![d].run = "finish"]
  /\ UNCHANGED <<manual, armed, form, mut, observed, look, shutting>>

(* Mutant: a deferred promotion keeps its mark.                            *)
KeepsMark(d) == UNCHANGED armed

(* Every way out but success unarms: 0 for a directory that is stable      *)
(* already or busy, 1 to let a later lookup try again.                     *)
Defer(d) == Arm(d, 1)

WorkChecks(d) ==
  /\ policyWork[d].run = "check"
  /\ \/ mut[d] = policyWork[d].saw /\ PolicyStep(d, "promote") /\ UNCHANGED armed
     \/ Defer(d) /\ PolicyStep(d, "finish")
  /\ UNCHANGED <<manual, form, mut, observed, look, shutting>>

(* __ext5_promote_subtree publishes the root and the conventional          *)
(* directories below it; it only unarms the root.                          *)
PromotePublishes(d) ==
  /\ policyWork[d].run = "promote" /\ form[d] = "mutable" /\ mut[d] = policyWork[d].saw
  /\ form' = [e \in Path |-> CASE e = d -> "root"
                               [] e < d /\ manual = 1 -> "interior"
                               [] OTHER -> form[e]]
  /\ Arm(d, 0) /\ PolicyStep(d, "finish")
  /\ UNCHANGED <<manual, mut, observed, look, shutting>>

PromoteFails(d) ==
  /\ policyWork[d].run = "promote"
  /\ \/ PolicyStep(d, "already")
     \/ form[d] = "mutable" /\ PolicyStep(d, "failed")
  /\ UNCHANGED <<manual, armed, form, mut, observed, look, shutting>>

WorkUnarms(d) ==
  /\ policyWork[d].run \in {"already", "failed"}
  /\ IF policyWork[d].run = "already" THEN Arm(d, 0) ELSE Defer(d)
  /\ PolicyStep(d, "finish")
  /\ UNCHANGED <<manual, form, mut, observed, look, shutting>>

(* ext5_li_work_ref_finish.                                                *)
WorkFinish(d) ==
  /\ policyWork[d].run = "finish"
  /\ policyWork' = [policyWork EXCEPT ![d].run = "no", ![d].held = policyWork[d].pend]
  /\ UNCHANGED <<manual, armed, form, mut, observed, look, shutting>>

-----------------------------------------------------------------------------
(* ext5_subtree_count_walk: every conventional ancestor is stamped; one    *)
(* whose count crosses the floor is armed.                                 *)
MutateDir(d) ==
  LET above == {e \in Path : e >= d /\ form[e] = "mutable"}
  IN  /\ above # {} /\ \A e \in above : mut[e] < MaxMut
      /\ mut' = [e \in Path |-> IF e \in above THEN mut[e] + 1 ELSE mut[e]]
      /\ \E crossed \in SUBSET above :
           armed' = [e \in Path |-> IF e \in crossed THEN 1 ELSE armed[e]]
      /\ UNCHANGED <<manual, form, observed, policyWork, look, shutting>>

(* A whole root goes back: demote_restore_policy_state arms by size.       *)
DemoteDir(d) ==
  LET tree == {d} \cup {e \in Path : /\ e < d /\ form[e] = "interior"
                                    /\ \A f \in e..d - 1 : form[f] # "root"}
  IN  /\ form[d] = "root"
      /\ form' = [e \in Path |-> IF e \in tree THEN "mutable" ELSE form[e]]
      /\ \E large \in SUBSET tree :
           armed' = [e \in Path |-> IF e \in large THEN 1
                                    ELSE IF e \in tree THEN 0 ELSE armed[e]]
      /\ UNCHANGED <<manual, mut, observed, policyWork, look, shutting>>

(* The inode leaves memory and returns: policy_save_inode and              *)
(* policy_restore_inode, which keeps no record of a stable directory and   *)
(* may find no memory for one.                                             *)
ForgetDir(d) ==
  /\ ~policyWork[d].held /\ \A t \in Looker : d \notin {look[t].target, look[t].at}
  /\ \E kept \in {0, IF armed[d] = 2 THEN 1 ELSE armed[d]} :
       Arm(d, IF form[d] = "mutable" THEN kept ELSE 0)
  /\ UNCHANGED <<manual, form, mut, observed, policyWork, look, shutting>>

Unmount ==
  /\ ~shutting
  /\ shutting' = TRUE
  /\ UNCHANGED <<manual, armed, form, mut, observed, policyWork, look>>

PolicyNext ==
  \/ \E t \in Looker : \/ \E d \in Path : LookupBegin(t, d)
                       \/ LookupWalk(t) \/ LookupArm(t)
                       \/ ScheduleObserve(t) \/ ScheduleQueue(t) \/ ScheduleEnd(t)
  \/ \E d \in Path : \/ PromoteStart(d) \/ WorkIdles(d) \/ WorkChecks(d)
                     \/ PromotePublishes(d) \/ PromoteFails(d) \/ WorkUnarms(d)
                     \/ WorkFinish(d) \/ MutateDir(d) \/ DemoteDir(d) \/ ForgetDir(d)
  \/ Unmount

PolicySpec == PolicyInit /\ [][PolicyNext]_policyVars

-----------------------------------------------------------------------------
PolicyTypeOK ==
  /\ manual \in {1, 2} /\ shutting \in BOOLEAN
  /\ armed \in [Path -> 0..2]
  /\ form \in [Path -> {"mutable", "root", "interior"}]
  /\ mut \in [Path -> 0..MaxMut] /\ observed \in [Path -> 0..MaxMut]
  /\ policyWork \in [Path -> [pend : BOOLEAN, held : BOOLEAN, saw : 0..MaxMut,
                        run : {"no", "check", "promote", "already", "failed", "finish"}]]
  /\ look \in [Looker -> [pc : {"none", "walk", "chosen", "schedule", "queue",
                                "queued", "busy"},
                          at : Path \cup {Nowhere}, target : Path \cup {Nowhere}]]

(* Somebody will still unarm d: its work is queued or under way, or a      *)
(* lookup is about to queue it.                                            *)
Resolving(d) ==
  \/ policyWork[d].pend
  \/ policyWork[d].run \in {"check", "promote", "already", "failed"}
  \/ \E t \in Looker : look[t].target = d /\ look[t].pc \in {"schedule", "queue", "busy"}

(* A pending directory that nobody resolves would hide itself and all that *)
(* is below it from the policy for the rest of the mount: whatever way     *)
(* lookups, mutations, works and conversions interleave, there is none.    *)
NeverStranded ==
  \A d \in Path : armed[d] = 2 /\ form[d] = "mutable" /\ ~shutting => Resolving(d)
===============================================================================
