------------------------ MODULE DemoteRequest_proofs ------------------------
(***************************************************************************)
(* Theorems about DemoteRequest, for any set of branches.                  *)
(***************************************************************************)
EXTENDS DemoteRequest, TLAPS

(* Who answers for the request in each of its states: exactly one of a     *)
(* claimant, a rename, the queued work and the running callback.           *)
Waiting(c) == call[c].pc \in {"idle", "seen", "kick"}

Owners ==
  /\ pending = 0 => Waiting(Churn) /\ Waiting(Renamer) /\ ~queued /\ ~Busy
  /\ pending = 1 =>
       /\ \A c \in Caller : Waiting(c) \/ call[c].pc = "claimed"
       /\ Waiting(Churn) \/ Waiting(Renamer)
       /\ ~Waiting(Churn) \/ ~Waiting(Renamer) => ~queued /\ ~Busy
       /\ queued => ~Busy
       /\ ~Waiting(Churn) \/ ~Waiting(Renamer) \/ queued \/ Busy
  /\ pending = 2 => /\ call[Renamer].pc \in {"reserved", "renaming"}
                    /\ Waiting(Churn) /\ ~queued /\ ~Busy
  /\ pending = 3 => /\ Waiting(Churn)
                    /\ Waiting(Renamer) \/ call[Renamer].pc = "started"
                    /\ call[Renamer].pc = "started" => ~queued /\ ~Busy
                    /\ queued => ~Busy
                    /\ call[Renamer].pc = "started" \/ queued \/ Busy

(* What a hand-off holds, and what it asks for: its branch or, widened by  *)
(* a merge, the whole root.                                                *)
Holds ==
  /\ target # Whole => pending \in {2, 3}
  /\ call[Renamer].pc \in {"reserved", "renaming", "started"} =>
       target = call[Renamer].plid /\ target # Whole
  /\ target # Whole => req.plid \in {target, Whole}
  /\ call[Renamer].pc = "renaming" => target \in rehome /\ target \in branches

(* A started hand-off whose branch is still routed is known to the worker  *)
(* as a rehome, and its branch is gone by the time it is released.         *)
Carried ==
  pending = 3 /\ target # Whole =>
    /\ target \in rehome \/ target \notin branches
    /\ wk.pc \in {"run", "again"} =>
         /\ wk.plid \in {target, Whole}
         /\ wk.rehome \/ target \notin branches
    /\ wk.pc = "release" => target \notin branches
    /\ wk.pc # "publish"

(* The rename holds s_vfs_rename_mutex, so no demotion takes its root; a   *)
(* demoted root routes nothing.                                            *)
Routes ==
  /\ call[Renamer].pc \in {"reserved", "renaming"} => root
  /\ call[Churn].pc \notin {"reserved", "renaming", "started"}
  /\ ~root => branches = {}

Inv == ~stray => Owners /\ Holds /\ Carried /\ WorkPinsInode

IInv == RequestTypeOK /\ Routes /\ Inv

USE DemoteRequestAssumption DEF Caller

-----------------------------------------------------------------------------
LEMMA WantedType ==
  ASSUME NEW c \in Caller, NEW w \in Wanted(c)
  PROVE  w.plid \in Plid \cup {Whole} /\ w.wait \in BOOLEAN /\ w.hint \in BOOLEAN
BY DEF Wanted

LEMMA InitInv == RequestInit => IInv
<1> SUFFICES ASSUME RequestInit PROVE IInv
  OBVIOUS
<1>1. /\ pending = 0 /\ target = Whole /\ ~queued /\ branches = Plid /\ root
      /\ ~stray /\ wk.pc = "idle" /\ \A c \in Caller : call[c].pc = "idle"
  BY DEF RequestInit, NoCall, NoRun
<1>2. RequestTypeOK
  <2>1. call \in [Caller -> Call]
    BY DEF RequestInit, Call, CallPc, NoCall
  <2>2. req \in Request /\ wk \in Worker
    BY DEF RequestInit, Request, Worker, NoRun
  <2> QED
    <3>1. /\ rehome = {} /\ ~held /\ ~merged /\ queued \in BOOLEAN
          /\ held \in BOOLEAN /\ merged \in BOOLEAN /\ stray \in BOOLEAN
          /\ root \in BOOLEAN
      BY DEF RequestInit
    <3> QED
      BY <1>1, <2>1, <2>2, <3>1 DEF RequestTypeOK
<1>3. Routes
  BY <1>1 DEF Routes
<1>4. Owners /\ Holds /\ Carried /\ WorkPinsInode
  BY <1>1 DEF Owners, Holds, Carried, WorkPinsInode, Waiting, Busy
<1> QED
  BY <1>2, <1>3, <1>4 DEF IInv, Inv

LEMMA StepType == RequestTypeOK /\ [RequestNext]_requestVars => RequestTypeOK'
<1> SUFFICES ASSUME RequestTypeOK, [RequestNext]_requestVars PROVE RequestTypeOK'
  OBVIOUS
<1> USE DEF RequestTypeOK, Request, Call, Worker, CallPc, Goto, NoRun
<1>1. ASSUME NEW c \in Caller, NEW w \in Wanted(c), Claim(c, w) PROVE RequestTypeOK'
  BY <1>1, WantedType DEF Claim
<1>2. ASSUME NEW c \in Caller, QueueClaimed(c) PROVE RequestTypeOK'
  <2>1. call' \in [Caller -> Call]
    BY <1>2 DEF QueueClaimed
  <2>2. CASE queued
    <3>1. call[c].plid \in Plid \cup {Whole}
      OBVIOUS
    <3>2. pending' = 0 /\ UNCHANGED <<queued, held>>
          /\ req' = [plid |-> call[c].plid, urgent |-> FALSE, hint |-> FALSE]
      BY <1>2, <2>2 DEF QueueClaimed
    <3>3. req' \in Request
      BY <3>1, <3>2
    <3> QED
      BY <1>2, <2>1, <3>2, <3>3 DEF QueueClaimed
  <2>3. CASE ~queued
    <3>1. /\ call[c].plid \in Plid \cup {Whole} /\ call[c].hint \in BOOLEAN
          /\ call[c].wait \in BOOLEAN
      OBVIOUS
    <3>2. UNCHANGED pending /\ queued' = TRUE /\ held' = TRUE
          /\ req' = [plid |-> call[c].plid, urgent |-> ~call[c].wait,
                     hint |-> call[c].hint]
      BY <1>2, <2>3 DEF QueueClaimed
    <3>3. req' \in Request
      BY <3>1, <3>2
    <3> QED
      BY <1>2, <2>1, <3>2, <3>3 DEF QueueClaimed
  <2> QED
    BY <2>2, <2>3
<1>3. ASSUME NEW c \in Caller, Merge(c) PROVE RequestTypeOK'
  BY <1>3 DEF Merge
<1>4. ASSUME NEW c \in Caller, Kick(c) PROVE RequestTypeOK'
  BY <1>4 DEF Kick
<1>5. ASSUME NEW c \in Caller, NEW p \in Plid, Reserve(c, p) PROVE RequestTypeOK'
  <2>1. CASE target # Whole
    BY <1>5, <2>1 DEF Reserve
  <2>2. CASE target = Whole
    <3>1. call' \in [Caller -> Call]
      <4>1. call' = [call EXCEPT ![c] = [pc |-> "reserved", plid |-> p,
                                          wait |-> FALSE, hint |-> TRUE]]
        BY <1>5, <2>2 DEF Reserve
      <4>2. [pc |-> "reserved", plid |-> p, wait |-> FALSE, hint |-> TRUE]
              \in Call
        OBVIOUS
      <4> HIDE DEF Call
      <4> QED
        BY <4>1, <4>2
    <3>2. req' \in Request
      <4>1. req' = [plid |-> p, urgent |-> TRUE, hint |-> TRUE]
        BY <1>5, <2>2 DEF Reserve
      <4> QED
        BY <4>1
    <3>3. pending' = 2 /\ target' = p
      BY <1>5, <2>2 DEF Reserve
    <3> QED
      BY <1>5, <2>2, <3>1, <3>2, <3>3 DEF Reserve
  <2> QED
    BY <2>1, <2>2
<1>6. ASSUME NEW c \in Caller, CancelReserved(c) PROVE RequestTypeOK'
  <2>1. call' \in [Caller -> Call]
    BY <1>6 DEF CancelReserved
  <2>2. CASE pending = 2
    <3>1. req' = [req EXCEPT !.urgent = FALSE, !.hint = FALSE]
          /\ pending' = 0 /\ target' = Whole /\ rehome' = rehome \ {target}
      BY <1>6, <2>2 DEF CancelReserved
    <3>2. req' \in Request
      BY <3>1
    <3> QED
      BY <1>6, <2>1, <3>1, <3>2 DEF CancelReserved
  <2>3. CASE pending # 2
    BY <1>6, <2>1, <2>3 DEF CancelReserved
  <2> QED
    BY <2>2, <2>3
<1>7. ASSUME NEW c \in Caller, RenameRecheck(c) PROVE RequestTypeOK'
  BY <1>7 DEF RenameRecheck
<1>8. ASSUME NEW c \in Caller, StartReserved(c) PROVE RequestTypeOK'
  <2>1. req' \in Request
    BY <1>8 DEF StartReserved
  <2>2. CASE pending = 2
    BY <1>8, <2>1, <2>2 DEF StartReserved
  <2>3. CASE pending # 2
    BY <1>8, <2>1, <2>3 DEF StartReserved
  <2> QED
    BY <2>2, <2>3
<1>9. ASSUME NEW c \in Caller, QueueStarted(c) PROVE RequestTypeOK'
  BY <1>9 DEF QueueStarted
<1>10. CASE WorkRun
  BY <1>10 DEF WorkRun
<1>11. CASE WorkDefer
  BY <1>11 DEF WorkDefer
<1>12. CASE WorkDemote
  BY <1>12 DEF WorkDemote, Demoted
<1>13. CASE WorkDemoteAgain
  BY <1>13 DEF WorkDemoteAgain, Demoted
<1>14. CASE WorkRetry
  BY <1>14 DEF WorkRetry
<1>15. CASE WorkFail
  BY <1>15 DEF WorkFail
<1>16. CASE WorkRelease
  BY <1>16 DEF WorkRelease
<1>17. CASE WorkPublish
  BY <1>17 DEF WorkPublish
<1>18. CASE WorkFinish
  BY <1>18 DEF WorkFinish
<1>19. CASE ForeignDemote
  <2>1. branches' \subseteq Plid /\ rehome' \subseteq Plid /\ root' \in BOOLEAN
    BY <1>19 DEF ForeignDemote, Demoted
  <2> QED
    BY <1>19, <2>1 DEF ForeignDemote
<1>20. CASE Promote
  BY <1>20 DEF Promote
<1>21. CASE UNCHANGED requestVars
  BY <1>21 DEF requestVars
<1> QED
  BY <1>1, <1>2, <1>3, <1>4, <1>5, <1>6, <1>7, <1>8, <1>9, <1>10, <1>11, <1>12,
     <1>13, <1>14, <1>15, <1>16, <1>17, <1>18, <1>19, <1>20, <1>21 DEF RequestNext

LEMMA GotoIs ==
  ASSUME RequestTypeOK, NEW c \in Caller, NEW pc \in CallPc, Goto(c, pc)
  PROVE  /\ call'[c].pc = pc
         /\ call'[c].plid = call[c].plid
         /\ \A d \in Caller : d # c => call'[d] = call[d]
BY DEF RequestTypeOK, Call, Goto

LEMMA PcIs ==
  ASSUME RequestTypeOK
  PROVE  /\ \A c \in Caller : call[c].pc \in CallPc /\ call[c].plid \in Plid \cup {Whole}
         /\ wk.pc \in {"idle", "run", "again", "release", "publish", "finish"}
         /\ req.plid \in Plid \cup {Whole} /\ wk.plid \in Plid \cup {Whole}
         /\ pending \in {0, 1, 2, 3} /\ branches \subseteq Plid
BY DEF RequestTypeOK, Call, Worker, Request

(* The rename's root stays a root, and a root that is none routes nothing. *)
LEMMA StepRoutes == RequestTypeOK /\ Routes /\ [RequestNext]_requestVars => Routes'
<1> SUFFICES ASSUME RequestTypeOK, Routes, [RequestNext]_requestVars PROVE Routes'
  OBVIOUS
<1> USE PcIs DEF Routes, CallPc
<1>1. ASSUME NEW c \in Caller, NEW w \in Wanted(c), Claim(c, w) PROVE Routes'
  <2>1. /\ call'[c].pc \in {"claimed", "seen"}
        /\ \A d \in Caller : d # c => call'[d] = call[d]
    BY <1>1 DEF Claim, RequestTypeOK
  <2> QED
    BY <1>1, <2>1 DEF Claim
<1>2. ASSUME NEW c \in Caller, QueueClaimed(c) PROVE Routes'
  BY <1>2, GotoIs DEF QueueClaimed
<1>3. ASSUME NEW c \in Caller, Merge(c) PROVE Routes'
  BY <1>3, GotoIs DEF Merge
<1>4. ASSUME NEW c \in Caller, Kick(c) PROVE Routes'
  BY <1>4, GotoIs DEF Kick
<1>5. ASSUME NEW c \in Caller, NEW p \in Plid, Reserve(c, p) PROVE Routes'
  <2>1. CASE target # Whole
    BY <1>5, <2>1 DEF Reserve
  <2>2. CASE target = Whole
    <3>1. \A d \in Caller : d # c => call'[d] = call[d]
      BY <1>5, <2>2 DEF Reserve, RequestTypeOK
    <3> QED
      BY <1>5, <3>1 DEF Reserve
  <2> QED
    BY <2>1, <2>2
<1>6. ASSUME NEW c \in Caller, CancelReserved(c) PROVE Routes'
  BY <1>6, GotoIs DEF CancelReserved
<1>7. ASSUME NEW c \in Caller, RenameRecheck(c) PROVE Routes'
  BY <1>7, GotoIs DEF RenameRecheck
<1>8. ASSUME NEW c \in Caller, StartReserved(c) PROVE Routes'
  <2>1. Goto(c, "started") \/ Goto(c, "idle")
    BY <1>8 DEF StartReserved
  <2> QED
    BY <1>8, <2>1, GotoIs DEF StartReserved
<1>9. ASSUME NEW c \in Caller, QueueStarted(c) PROVE Routes'
  BY <1>9, GotoIs DEF QueueStarted
<1>10. CASE WorkRun
  BY <1>10 DEF WorkRun
<1>11. CASE WorkDefer
  BY <1>11 DEF WorkDefer
<1>12. CASE WorkDemote
  BY <1>12 DEF WorkDemote, Demoted
<1>13. CASE WorkDemoteAgain
  BY <1>13 DEF WorkDemoteAgain, Demoted
<1>14. CASE WorkRetry
  BY <1>14 DEF WorkRetry
<1>15. CASE WorkFail
  BY <1>15 DEF WorkFail
<1>16. CASE WorkRelease
  BY <1>16 DEF WorkRelease
<1>17. CASE WorkPublish
  BY <1>17 DEF WorkPublish
<1>18. CASE WorkFinish
  BY <1>18 DEF WorkFinish
<1>19. CASE ForeignDemote
  BY <1>19 DEF ForeignDemote, Demoted
<1>20. CASE Promote
  BY <1>20 DEF Promote
<1>21. CASE UNCHANGED requestVars
  BY <1>21 DEF requestVars
<1> QED
  BY <1>1, <1>2, <1>3, <1>4, <1>5, <1>6, <1>7, <1>8, <1>9, <1>10, <1>11, <1>12,
     <1>13, <1>14, <1>15, <1>16, <1>17, <1>18, <1>19, <1>20, <1>21 DEF RequestNext

LEMMA WkIs ==
  ASSUME RequestTypeOK, NEW pc, wk' = [wk EXCEPT !.pc = pc]
  PROVE  wk'.pc = pc /\ wk'.plid = wk.plid /\ wk'.rehome = wk.rehome
BY DEF RequestTypeOK, Worker

(* Every step keeps one owner and carries the hand-off on.                 *)
LEMMA StepInv == IInv /\ [RequestNext]_requestVars /\ ~stray' => Owners' /\ Holds' /\ Carried' /\ WorkPinsInode'
<1> SUFFICES ASSUME IInv, [RequestNext]_requestVars, ~stray'
             PROVE  Owners' /\ Holds' /\ Carried' /\ WorkPinsInode'
  OBVIOUS
<1> DEFINE Kept == Owners' /\ Holds' /\ Carried' /\ WorkPinsInode'
<1> USE PcIs, GotoIs, WkIs DEF Owners, Holds, Carried, WorkPinsInode, Waiting,
      Busy, Routes, CallPc
<1>0. RequestTypeOK /\ Routes /\ RequestTypeOK' /\ Routes'
  BY StepType, StepRoutes DEF IInv
<1>i. ~stray => Owners /\ Holds /\ Carried /\ WorkPinsInode
  BY DEF IInv, Inv
<1>1. ASSUME NEW c \in Caller, NEW w \in Wanted(c), Claim(c, w) PROVE Kept
  <2>1. ~stray
    BY <1>1 DEF Claim
  <2>c. /\ call'[c].pc = (IF pending = 0 THEN "claimed" ELSE "seen")
        /\ \A d \in Caller : d # c => call'[d] = call[d]
    <3> DEFINE r == [pc |-> IF pending = 0 THEN "claimed" ELSE "seen",
                     plid |-> w.plid, wait |-> w.wait, hint |-> w.hint]
    <3>1. call' = [call EXCEPT ![c] = r]
      BY <1>1 DEF Claim
    <3>2. r.pc = (IF pending = 0 THEN "claimed" ELSE "seen")
      OBVIOUS
    <3> HIDE DEF r
    <3> QED
      BY <1>0, <3>1, <3>2 DEF RequestTypeOK
  <2>2. Owners'
    BY <1>0, <1>i, <1>1, <2>1, <2>c DEF Claim
  <2>3. Holds'
    BY <1>0, <1>i, <1>1, <2>1, <2>c DEF Claim
  <2>4. Carried'
    BY <1>0, <1>i, <1>1, <2>1, <2>c DEF Claim
  <2>5. WorkPinsInode'
    BY <1>0, <1>i, <1>1, <2>1, <2>c DEF Claim
  <2> QED
    BY <2>2, <2>3, <2>4, <2>5
<1>2. ASSUME NEW c \in Caller, QueueClaimed(c) PROVE Kept
  <2>1. ~stray
    BY <1>2 DEF QueueClaimed
  <2>2. Owners'
    BY <1>0, <1>i, <1>2, <2>1 DEF QueueClaimed
  <2>3. Holds'
    BY <1>0, <1>i, <1>2, <2>1 DEF QueueClaimed
  <2>4. Carried'
    BY <1>0, <1>i, <1>2, <2>1 DEF QueueClaimed
  <2>5. WorkPinsInode'
    BY <1>0, <1>i, <1>2, <2>1 DEF QueueClaimed
  <2> QED
    BY <2>2, <2>3, <2>4, <2>5
<1>3. ASSUME NEW c \in Caller, Merge(c) PROVE Kept
  <2>1. ~stray
    BY <1>3 DEF Merge
  <2>2. Owners'
    BY <1>0, <1>i, <1>3, <2>1 DEF Merge
  <2>3. Holds'
    BY <1>0, <1>i, <1>3, <2>1 DEF Merge
  <2>4. Carried'
    BY <1>0, <1>i, <1>3, <2>1 DEF Merge
  <2>5. WorkPinsInode'
    BY <1>0, <1>i, <1>3, <2>1 DEF Merge
  <2> QED
    BY <2>2, <2>3, <2>4, <2>5
<1>4. ASSUME NEW c \in Caller, Kick(c) PROVE Kept
  <2>1. ~stray
    BY <1>4 DEF Kick
  <2>2. Owners'
    BY <1>0, <1>i, <1>4, <2>1 DEF Kick
  <2>3. Holds'
    BY <1>0, <1>i, <1>4, <2>1 DEF Kick
  <2>4. Carried'
    BY <1>0, <1>i, <1>4, <2>1 DEF Kick
  <2>5. WorkPinsInode'
    BY <1>0, <1>i, <1>4, <2>1 DEF Kick
  <2> QED
    BY <2>2, <2>3, <2>4, <2>5
<1>5. ASSUME NEW c \in Caller, NEW p \in Plid, Reserve(c, p) PROVE Kept
  <2>1. ~stray
    BY <1>5 DEF Reserve
  <2>c. target = Whole =>
          /\ call'[c].pc = "reserved" /\ call'[c].plid = p
          /\ \A d \in Caller : d # c => call'[d] = call[d]
          /\ req'.plid = p
    <3> DEFINE r == [pc |-> "reserved", plid |-> p, wait |-> FALSE,
                     hint |-> TRUE]
    <3>1. target = Whole => call' = [call EXCEPT ![c] = r]
      BY <1>5 DEF Reserve
    <3>2. r.pc = "reserved" /\ r.plid = p
      OBVIOUS
    <3>3. target = Whole => req'.plid = p
      BY <1>5 DEF Reserve
    <3> HIDE DEF r
    <3> QED
      BY <1>0, <3>1, <3>2, <3>3 DEF RequestTypeOK
  <2>2. Owners'
    BY <1>0, <1>i, <1>5, <2>1, <2>c DEF Reserve
  <2>3. Holds'
    BY <1>0, <1>i, <1>5, <2>1, <2>c DEF Reserve
  <2>4. Carried'
    BY <1>0, <1>i, <1>5, <2>1, <2>c DEF Reserve
  <2>5. WorkPinsInode'
    BY <1>0, <1>i, <1>5, <2>1, <2>c DEF Reserve
  <2> QED
    BY <2>2, <2>3, <2>4, <2>5
<1>6. ASSUME NEW c \in Caller, CancelReserved(c) PROVE Kept
  <2>1. ~stray
    BY <1>6 DEF CancelReserved
  <2>2. Owners'
    BY <1>0, <1>i, <1>6, <2>1 DEF CancelReserved
  <2>3. Holds'
    BY <1>0, <1>i, <1>6, <2>1 DEF CancelReserved
  <2>4. Carried'
    BY <1>0, <1>i, <1>6, <2>1 DEF CancelReserved
  <2>5. WorkPinsInode'
    BY <1>0, <1>i, <1>6, <2>1 DEF CancelReserved
  <2> QED
    BY <2>2, <2>3, <2>4, <2>5
<1>7. ASSUME NEW c \in Caller, RenameRecheck(c) PROVE Kept
  <2>1. ~stray
    BY <1>7 DEF RenameRecheck
  <2>2. Owners'
    BY <1>0, <1>i, <1>7, <2>1 DEF RenameRecheck
  <2>3. Holds'
    BY <1>0, <1>i, <1>7, <2>1 DEF RenameRecheck
  <2>4. Carried'
    BY <1>0, <1>i, <1>7, <2>1 DEF RenameRecheck
  <2>5. WorkPinsInode'
    BY <1>0, <1>i, <1>7, <2>1 DEF RenameRecheck
  <2> QED
    BY <2>2, <2>3, <2>4, <2>5
<1>8. ASSUME NEW c \in Caller, StartReserved(c) PROVE Kept
  <2>1. ~stray
    BY <1>8 DEF StartReserved
  <2>2. Owners'
    BY <1>0, <1>i, <1>8, <2>1 DEF StartReserved
  <2>3. Holds'
    BY <1>0, <1>i, <1>8, <2>1 DEF StartReserved
  <2>4. Carried'
    BY <1>0, <1>i, <1>8, <2>1 DEF StartReserved
  <2>5. WorkPinsInode'
    BY <1>0, <1>i, <1>8, <2>1 DEF StartReserved
  <2> QED
    BY <2>2, <2>3, <2>4, <2>5
<1>9. ASSUME NEW c \in Caller, QueueStarted(c) PROVE Kept
  <2>1. ~stray
    BY <1>9 DEF QueueStarted
  <2>2. Owners'
    BY <1>0, <1>i, <1>9, <2>1 DEF QueueStarted
  <2>3. Holds'
    BY <1>0, <1>i, <1>9, <2>1 DEF QueueStarted
  <2>4. Carried'
    BY <1>0, <1>i, <1>9, <2>1 DEF QueueStarted
  <2>5. WorkPinsInode'
    BY <1>0, <1>i, <1>9, <2>1 DEF QueueStarted
  <2> QED
    BY <2>2, <2>3, <2>4, <2>5
<1>10. CASE WorkRun
  <2>1. Owners'
    BY <1>0, <1>i, <1>10 DEF WorkRun
  <2>2. Holds'
    BY <1>0, <1>i, <1>10 DEF WorkRun
  <2>3. Carried'
    BY <1>0, <1>i, <1>10 DEF WorkRun
  <2>4. WorkPinsInode'
    BY <1>0, <1>i, <1>10 DEF WorkRun
  <2> QED
    BY <2>1, <2>2, <2>3, <2>4
<1>11. CASE WorkDefer
  <2>1. Owners'
    BY <1>0, <1>i, <1>11 DEF WorkDefer, NoRun
  <2>2. Holds'
    BY <1>0, <1>i, <1>11 DEF WorkDefer, NoRun
  <2>3. Carried'
    BY <1>0, <1>i, <1>11 DEF WorkDefer, NoRun
  <2>4. WorkPinsInode'
    BY <1>0, <1>i, <1>11 DEF WorkDefer, NoRun
  <2> QED
    BY <2>1, <2>2, <2>3, <2>4
<1>12. CASE WorkDemote
  <2>1. Owners'
    BY <1>0, <1>i, <1>12 DEF WorkDemote, Demoted
  <2>2. Holds'
    BY <1>0, <1>i, <1>12 DEF WorkDemote, Demoted
  <2>3. Carried'
    <3>1. Demoted(wk.plid) /\ wk.pc \in {"run", "again"}
      BY <1>12 DEF WorkDemote
    <3>2. pending = 3 /\ target # Whole => target \notin branches'
      BY <1>0, <1>i, <1>12, <3>1 DEF WorkDemote, Demoted
    <3>3. UNCHANGED <<pending, target>> /\ wk'.plid = wk.plid /\ ~stray
          /\ wk'.pc \in {"again", "release"}
      BY <1>0, <1>12 DEF WorkDemote
    <3> QED
      BY <1>i, <3>1, <3>2, <3>3
  <2>4. WorkPinsInode'
    BY <1>0, <1>i, <1>12 DEF WorkDemote, Demoted
  <2> QED
    BY <2>1, <2>2, <2>3, <2>4
<1>13. CASE WorkDemoteAgain
  <2>1. Owners'
    BY <1>0, <1>i, <1>13 DEF WorkDemoteAgain, Demoted
  <2>2. Holds'
    BY <1>0, <1>i, <1>13 DEF WorkDemoteAgain, Demoted
  <2>3. Carried'
    <3>1. Demoted(Whole) /\ wk.pc \in {"run", "again"}
      BY <1>13 DEF WorkDemoteAgain
    <3>2. pending = 3 /\ target # Whole => target \notin branches'
      BY <1>0, <1>i, <1>13, <3>1 DEF WorkDemoteAgain, Demoted
    <3>3. UNCHANGED <<pending, target>> /\ wk'.plid = wk.plid /\ ~stray
          /\ wk'.pc \in {"again", "release"}
      BY <1>0, <1>13 DEF WorkDemoteAgain
    <3> QED
      BY <1>i, <3>1, <3>2, <3>3
  <2>4. WorkPinsInode'
    BY <1>0, <1>i, <1>13 DEF WorkDemoteAgain, Demoted
  <2> QED
    BY <2>1, <2>2, <2>3, <2>4
<1>14. CASE WorkRetry
  <2>1. Owners'
    BY <1>0, <1>i, <1>14 DEF WorkRetry
  <2>2. Holds'
    BY <1>0, <1>i, <1>14 DEF WorkRetry
  <2>3. Carried'
    BY <1>0, <1>i, <1>14 DEF WorkRetry
  <2>4. WorkPinsInode'
    BY <1>0, <1>i, <1>14 DEF WorkRetry
  <2> QED
    BY <2>1, <2>2, <2>3, <2>4
<1>15. CASE WorkFail
  <2>1. Owners'
    BY <1>0, <1>i, <1>15 DEF WorkFail
  <2>2. Holds'
    BY <1>0, <1>i, <1>15 DEF WorkFail
  <2>3. Carried'
    BY <1>0, <1>i, <1>15 DEF WorkFail
  <2>4. WorkPinsInode'
    BY <1>0, <1>i, <1>15 DEF WorkFail
  <2> QED
    BY <2>1, <2>2, <2>3, <2>4
<1>16. CASE WorkRelease
  <2>1. Owners'
    BY <1>0, <1>i, <1>16 DEF WorkRelease
  <2>2. Holds'
    BY <1>0, <1>i, <1>16 DEF WorkRelease
  <2>3. Carried'
    BY <1>0, <1>i, <1>16 DEF WorkRelease
  <2>4. WorkPinsInode'
    BY <1>0, <1>i, <1>16 DEF WorkRelease
  <2> QED
    BY <2>1, <2>2, <2>3, <2>4
<1>17. CASE WorkPublish
  <2>1. Owners'
    BY <1>0, <1>i, <1>17 DEF WorkPublish
  <2>2. Holds'
    BY <1>0, <1>i, <1>17 DEF WorkPublish
  <2>3. Carried'
    BY <1>0, <1>i, <1>17 DEF WorkPublish
  <2>4. WorkPinsInode'
    BY <1>0, <1>i, <1>17 DEF WorkPublish
  <2> QED
    BY <2>1, <2>2, <2>3, <2>4
<1>18. CASE WorkFinish
  <2>1. Owners'
    BY <1>0, <1>i, <1>18 DEF WorkFinish, NoRun
  <2>2. Holds'
    BY <1>0, <1>i, <1>18 DEF WorkFinish, NoRun
  <2>3. Carried'
    BY <1>0, <1>i, <1>18 DEF WorkFinish, NoRun
  <2>4. WorkPinsInode'
    BY <1>0, <1>i, <1>18 DEF WorkFinish, NoRun
  <2> QED
    BY <2>1, <2>2, <2>3, <2>4
<1>19. CASE ForeignDemote
  <2>1. Owners'
    BY <1>0, <1>i, <1>19 DEF ForeignDemote, Demoted
  <2>2. Holds'
    BY <1>0, <1>i, <1>19 DEF ForeignDemote, Demoted
  <2>3. Carried'
    BY <1>0, <1>i, <1>19 DEF ForeignDemote, Demoted
  <2>4. WorkPinsInode'
    BY <1>0, <1>i, <1>19 DEF ForeignDemote, Demoted
  <2> QED
    BY <2>1, <2>2, <2>3, <2>4
<1>20. CASE Promote
  <2>1. Owners'
    BY <1>0, <1>i, <1>20 DEF Promote
  <2>2. Holds'
    BY <1>0, <1>i, <1>20 DEF Promote
  <2>3. Carried'
    BY <1>0, <1>i, <1>20 DEF Promote
  <2>4. WorkPinsInode'
    BY <1>0, <1>i, <1>20 DEF Promote
  <2> QED
    BY <2>1, <2>2, <2>3, <2>4
<1>21. CASE UNCHANGED requestVars
  BY <1>0, <1>i, <1>21 DEF requestVars
<1> QED
  BY <1>1, <1>2, <1>3, <1>4, <1>5, <1>6, <1>7, <1>8, <1>9, <1>10, <1>11, <1>12, <1>13, <1>14, <1>15, <1>16, <1>17, <1>18, <1>19, <1>20, <1>21 DEF RequestNext

LEMMA StepIInv == IInv /\ [RequestNext]_requestVars => IInv'
BY StepType, StepRoutes, StepInv DEF IInv, Inv

LEMMA Invariant == RequestSpec => []IInv
<1>1. RequestInit => IInv
  BY InitInv
<1>2. IInv /\ [RequestNext]_requestVars => IInv'
  BY StepIInv
<1> QED
  BY <1>1, <1>2, PTL DEF RequestSpec

-----------------------------------------------------------------------------
(* Type correctness of the request, its callers and its worker.            *)
THEOREM RequestTyped == RequestSpec => []RequestTypeOK
<1>1. IInv => RequestTypeOK
  BY DEF IInv
<1> QED
  BY <1>1, Invariant, PTL

(* A request that is not idle always has somebody who will release it, so  *)
(* i_li_demote_pending never stays set behind everybody's back.            *)
THEOREM RequestIsOwned == RequestSpec => []RequestOwned
<1>1. IInv => RequestOwned
  <2> SUFFICES ASSUME IInv, ~stray PROVE RequestOwned
    BY DEF RequestOwned
  <2>1. Owners /\ RequestTypeOK
    BY DEF IInv, Inv
  <2>2. \A pc \in CallPc : At(pc) = {} <=> \A c \in Caller : call[c].pc # pc
    BY DEF At
  <2> QED
    BY <2>1, <2>2, PcIs DEF RequestOwned, Owners, Waiting, CallPc, At
<1> QED
  BY <1>1, Invariant, PTL

(* A rename's hand-off holds its own branch until the rename lets go of it *)
(* (ext5_rename, ext5_reserve_demote_branch).                              *)
THEOREM HandoffHolds == RequestSpec => []TargetHeld
<1>1. IInv => TargetHeld
  BY DEF IInv, Inv, Holds, Routes, TargetHeld
<1> QED
  BY <1>1, Invariant, PTL

(* And the branch keeps its source route for as long: no other request     *)
(* dissolves the root beneath the rename.                                  *)
THEOREM RouteIsKept == RequestSpec => []RouteKept
<1>1. IInv => RouteKept
  BY DEF IInv, Inv, Holds, Routes, RouteKept
<1> QED
  BY <1>1, Invariant, PTL

(* Queued and running work pins the root inode (ext5_li_work_queue).       *)
THEOREM WorkIsPinned == RequestSpec => []WorkPinsInode
<1>1. IInv => WorkPinsInode
  BY DEF IInv, Inv, WorkPinsInode
<1> QED
  BY <1>1, Invariant, PTL

(* A started hand-off lets go of its branch only when the branch has left  *)
(* the root: only a release drops the target of a request in state 3.      *)
THEOREM HandoffIsCarriedOut == RequestSpec => HandoffCarriedOut
<1> DEFINE Step == ~stray' /\ pending = 3 /\ target # Whole /\ target' = Whole =>
                     target \notin branches'
<1>1. IInv /\ [RequestNext]_requestVars => Step
  <2> SUFFICES ASSUME IInv, [RequestNext]_requestVars, ~stray', pending = 3, target # Whole,
                      target' = Whole
               PROVE  target \notin branches'
    OBVIOUS
  <2>1. ~stray
    BY DEF RequestNext, requestVars, Claim, QueueClaimed, Merge, Kick, Reserve,
           CancelReserved, RenameRecheck, StartReserved, QueueStarted,
           WorkRun, WorkDefer, WorkDemote, WorkDemoteAgain, WorkRetry,
           WorkFail, WorkRelease, WorkPublish, WorkFinish, ForeignDemote,
           Promote
  <2>2. Carried
    BY <2>1 DEF IInv, Inv
  <2>3. WorkRelease
    BY DEF RequestNext, requestVars, Claim, QueueClaimed, Merge, Kick, Reserve,
           CancelReserved, RenameRecheck, StartReserved, QueueStarted,
           WorkRun, WorkDefer, WorkDemote, WorkDemoteAgain, WorkRetry,
           WorkFail, WorkPublish, WorkFinish, ForeignDemote, Promote
  <2> QED
    BY <2>2, <2>3 DEF Carried, WorkRelease
<1> QED
  BY <1>1, Invariant, PTL DEF RequestSpec, HandoffCarriedOut
=============================================================================
