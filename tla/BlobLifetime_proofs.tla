------------------------- MODULE BlobLifetime_proofs -------------------------
(* Proofs about the life of a parsed generation: who uses a blob finds it  *)
(* allocated, and who reads its payload finds the blocks allocated.        *)
EXTENDS BlobLifetime, TLAPS, FiniteSetTheorems

-----------------------------------------------------------------------------
(* Who holds a reference to a blob: the threads that have parsed it or     *)
(* list it, the installed pointer, the grace period of an eviction, the    *)
(* shrinker, and a job, by its pin, by the installed pointer's reference   *)
(* that it took over when it published, and for the generation it staged.  *)
Owing == {"unlist", "rcu", "srcu"}
One(p) == IF p THEN 1 ELSE 0
Holding(b) == {t \in Thread : th[t].blob = b /\ th[t].pc \in {"parsed", "refRead"}}
JobRefs(j, b) == One(job[j].old = b) + One(job[j].old = b /\ job[j].pc \in Owing)
                   + One(job[j].new = b)
OtherRefs(b) == One(installed = b) + One(grace[b].phase # "none")
                  + One(shr.blob = b)
RefCount(b) == Cardinality(Holding(b)) + OtherRefs(b)
                 + JobRefs("compact", b) + JobRefs("demote", b)

Counted(b) == obj[b].refs = RefCount(b) /\ (obj[b].live <=> obj[b].refs > 0)

(* A blob that was never installed.                                        *)
Private(b) == /\ installed # b /\ grace[b].phase = "none"
              /\ \A j \in Job : job[j].old # b

InRcuOn(t, b) == th[t].blob = b /\ th[t].pc \in {"rcu", "rcuRead", "refLoad"}
InSrcuOn(t, b) == th[t].blob = b /\ th[t].pc = "srcuRead"

(* A reader without a reference reads the installed blob, or one whose     *)
(* installed reference some grace period still keeps for it.               *)
JobKeepsRcu(j, t) ==
  job[j].pc = "unlist" \/ (job[j].pc = "rcu" /\ t \in job[j].wait)
JobKeepsSrcu(j, t) ==
  job[j].pc \in {"unlist", "rcu"} \/ (job[j].pc = "srcu" /\ t \in job[j].wait)

RcuCovered(t, b) ==
  \/ installed = b
  \/ grace[b].phase = "rcu" /\ t \in grace[b].wait
  \/ \E j \in Job : job[j].old = b /\ JobKeepsRcu(j, t)
SrcuCovered(t, b) ==
  \/ installed = b
  \/ grace[b].phase = "rcu" \/ (grace[b].phase = "srcu" /\ t \in grace[b].wait)
  \/ \E j \in Job : job[j].old = b /\ JobKeepsSrcu(j, t)

Blobs == [live : BOOLEAN, refs : Nat, gen : Gen, listed : BOOLEAN,
          pinned : BOOLEAN]
Graces == [phase : {"none", "rcu", "srcu"}, wait : SUBSET Thread]
Shrinkers == [pc : {"idle", "have", "put"}, blob : Blob \cup {NoBlob}]

LifeTypes ==
  /\ obj \in [Blob -> Blobs]
  /\ installed \in Blob \cup {NoBlob}
  /\ newest \in Gen
  /\ alloc \subseteq Gen
  /\ gate \in BOOLEAN
  /\ th \in [Thread -> ThreadState]
  /\ grace \in [Blob -> Graces]
  /\ shr \in Shrinkers
  /\ job \in [Job -> JobState]
  /\ stale \in BOOLEAN
  /\ freedHeld \in BOOLEAN
  /\ outlived \in BOOLEAN

(* Where each actor is says what it holds.                                 *)
Control ==
  /\ \A t \in Thread : th[t].pc = "idle" <=> th[t].blob = NoBlob
  /\ shr.pc = "idle" <=> shr.blob = NoBlob
  /\ \A j \in Job : /\ job[j].pc = "idle" <=> job[j].old = NoBlob
                    /\ job[j].new # NoBlob <=> j = "compact" /\ job[j].pc = "publish"
                    /\ job[j].pc = "build" => j = "compact"
  /\ gate <=> job["compact"].pc # "idle"
  /\ job["compact"].pc = "publish" => newest < LastGen

(* References are counted, and nobody reads without one that lasts.        *)
RefsRight ==
  /\ \A b \in Blob : Counted(b)
  /\ \A b \in Blob : installed = b => grace[b].phase = "none"
  /\ \A t \in Thread : th[t].pc = "parsed" =>
       /\ Private(th[t].blob)
       /\ \A j \in Job : job[j].new # th[t].blob
       /\ \A u \in Thread \ {t} : th[u].blob # th[t].blob
  /\ \A j \in Job : job[j].new # NoBlob =>
       Private(job[j].new) /\ \A t \in Thread : th[t].blob # job[j].new
  /\ \A t \in Thread, b \in Blob : /\ InRcuOn(t, b) => RcuCovered(t, b)
                                   /\ InSrcuOn(t, b) => SrcuCovered(t, b)

(* A job that has published and not yet freed the old blocks.              *)
Retiring(j) == job[j].pc \in {"unlist", "rcu", "srcu", "drain"}
Published(j) == Retiring(j) \/ job[j].pc = "out"

GenOf(t) == obj[th[t].blob].gen

(* The readers of a retired generation are those its job still waits for.  *)
Waited(j, t) ==
  LET g == obj[job[j].old].gen
  IN  /\ th[t].pc \in {"rcu", "rcuRead", "refLoad"} /\ GenOf(t) = g
           => JobKeepsRcu(j, t)
      /\ th[t].pc = "srcuRead" /\ GenOf(t) = g => JobKeepsSrcu(j, t)

Drained ==
  /\ installed # NoBlob => newest > 0 /\ obj[installed].gen = newest
  /\ newest > 0 => newest \in alloc
  /\ job["compact"].pc = "publish" =>
       obj[job["compact"].new].gen = newest + 1 /\ newest + 1 \in alloc
  /\ newest = 0 => job["compact"].pc = "idle"
  /\ Published("demote") => newest = 0
  /\ \A j \in Job : Retiring(j) => /\ obj[job[j].old].gen # newest
                                   /\ \A t \in Thread : Waited(j, t)
  /\ \A t \in Thread : th[t].pc = "refRead" =>
       \/ installed = th[t].blob
       \/ \E j \in Job : Retiring(j) /\ job[j].old = th[t].blob
  /\ \A t \in Thread : th[t].pc \in {"rcuRead", "srcuRead", "refLoad", "refRead"}
                         => GenOf(t) \in alloc
  /\ \A t \in Thread : th[t].pc = "parsed" => GenOf(t) > 0

LifeIInv ==
  /\ LifeTypes /\ Control
  /\ ~freedHeld => RefsRight
  /\ ~freedHeld /\ ~stale /\ ~outlived => Drained

-----------------------------------------------------------------------------
LEMMA PutIs ==
  ASSUME NEW o \in [Blob -> Blobs], NEW b \in Blob
  PROVE  /\ Put(o, b) \in [Blob -> Blobs]
         /\ \A c \in Blob \ {b} : Put(o, b)[c] = o[c]
         /\ o[b].refs <= 1 => Put(o, b)[b] = Gone
         /\ o[b].refs > 1 => /\ Put(o, b)[b].refs = o[b].refs - 1
                             /\ Put(o, b)[b].live = o[b].live
                             /\ Put(o, b)[b].gen = o[b].gen
<1>1. Gone \in Blobs
  BY BlobLifetimeAssumption DEF Gone, Blobs, Gen
<1>2. CASE o[b].refs <= 1
  <2>1. Put(o, b) = [o EXCEPT ![b] = Gone]
    BY <1>2 DEF Put
  <2> QED
    BY <1>1, <1>2, <2>1 DEF Blobs
<1>3. CASE ~(o[b].refs <= 1)
  <2> DEFINE r == [o[b] EXCEPT !.refs = @ - 1]
  <2>0. Put(o, b) = [o EXCEPT ![b] = IF o[b].refs <= 1 THEN Gone ELSE r]
    BY DEF Put
  <2>1. Put(o, b) = [o EXCEPT ![b] = r]
    BY <1>3, <2>0
  <2>2. o[b].refs \in Nat /\ o[b] \in Blobs
    BY DEF Blobs
  <2>3. r \in Blobs /\ r.refs = o[b].refs - 1 /\ r.live = o[b].live /\ r.gen = o[b].gen
    BY <1>3, <2>2 DEF Blobs
  <2> HIDE DEF r
  <2> QED
    BY <1>3, <2>1, <2>2, <2>3
<1> QED
  BY <1>2, <1>3

LEMMA TakeIs ==
  ASSUME NEW o \in [Blob -> Blobs], NEW b \in Blob
  PROVE  /\ Take(o, b) \in [Blob -> Blobs]
         /\ \A c \in Blob \ {b} : Take(o, b)[c] = o[c]
         /\ Take(o, b)[b].refs = o[b].refs + 1
         /\ Take(o, b)[b].live = o[b].live
         /\ Take(o, b)[b].gen = o[b].gen
<1> DEFINE r == [o[b] EXCEPT !.refs = @ + 1]
<1>1. Take(o, b) = [o EXCEPT ![b] = r]
  BY DEF Take
<1>2. r \in Blobs /\ r.refs = o[b].refs + 1 /\ r.live = o[b].live /\ r.gen = o[b].gen
  BY DEF Blobs
<1> HIDE DEF r
<1> QED
  BY <1>1, <1>2

LEMMA UnlistIs ==
  ASSUME NEW o \in [Blob -> Blobs], NEW b \in Blob
  PROVE  /\ Unlist(o, b) \in [Blob -> Blobs]
         /\ \A c \in Blob : /\ Unlist(o, b)[c].refs = o[c].refs
                            /\ Unlist(o, b)[c].live = o[c].live
                            /\ Unlist(o, b)[c].gen = o[c].gen
<1> DEFINE r == [o[b] EXCEPT !.listed = FALSE]
<1>1. Unlist(o, b) = [o EXCEPT ![b] = r]
  BY DEF Unlist
<1>2. r \in Blobs /\ r.refs = o[b].refs /\ r.live = o[b].live /\ r.gen = o[b].gen
  BY DEF Blobs
<1> HIDE DEF r
<1> QED
  BY <1>1, <1>2

(* Counting who holds a reference among the threads.                       *)
LEMMA HoldingIs ==
  ASSUME NEW b
  PROVE  /\ IsFiniteSet(Holding(b)) /\ Cardinality(Holding(b)) \in Nat
         /\ Holding(b) = {} <=> Cardinality(Holding(b)) = 0
         /\ \A t \in Holding(b) :
              Cardinality(Holding(b) \ {t}) = Cardinality(Holding(b)) - 1
         /\ \A t : t \notin Holding(b) =>
              Cardinality(Holding(b) \cup {t}) = Cardinality(Holding(b)) + 1
<1>1. IsFiniteSet(Holding(b))
  BY BlobLifetimeAssumption, FS_Subset DEF Holding
<1>2. Cardinality(Holding(b)) \in Nat
  BY <1>1, FS_CardinalityType
<1>3. Holding(b) = {} <=> Cardinality(Holding(b)) = 0
  BY <1>1, FS_EmptySet
<1>4. \A t \in Holding(b) :
        Cardinality(Holding(b) \ {t}) = Cardinality(Holding(b)) - 1
  BY <1>1, FS_RemoveElement
<1>5. \A t : t \notin Holding(b) =>
        Cardinality(Holding(b) \cup {t}) = Cardinality(Holding(b)) + 1
  BY <1>1, FS_AddElement
<1> QED
  BY <1>1, <1>2, <1>3, <1>4, <1>5

LEMMA OneIs == \A p \in BOOLEAN : One(p) \in {0, 1} /\ (p <=> One(p) = 1)
BY DEF One

(* A blob that is not allocated has no holder, and one with a holder is    *)
(* allocated.                                                              *)
LEMMA CountIs ==
  ASSUME LifeTypes, NEW b \in Blob, Counted(b)
  PROVE  /\ RefCount(b) \in Nat /\ obj[b].refs = RefCount(b)
         /\ obj[b].live <=> RefCount(b) > 0
         /\ ~obj[b].live <=> /\ Holding(b) = {} /\ installed # b
                             /\ grace[b].phase = "none" /\ shr.blob # b
                             /\ \A j \in Job : job[j].old # b /\ job[j].new # b
<1>1. Cardinality(Holding(b)) \in Nat /\ (Holding(b) = {} <=> Cardinality(Holding(b)) = 0)
  BY HoldingIs
<1>2. /\ OtherRefs(b) \in Nat
      /\ OtherRefs(b) = 0 <=> installed # b /\ grace[b].phase = "none" /\ shr.blob # b
  BY DEF OtherRefs, One
<1>3. ASSUME NEW j \in Job
      PROVE  /\ JobRefs(j, b) \in Nat
             /\ JobRefs(j, b) = 0 <=> job[j].old # b /\ job[j].new # b
  BY DEF JobRefs, One
<1>4. /\ JobRefs("compact", b) \in Nat /\ JobRefs("demote", b) \in Nat
      /\ Job = {"compact", "demote"}
  BY <1>3 DEF Job
<1>5. RefCount(b) \in Nat /\ obj[b].refs = RefCount(b)
  BY <1>1, <1>2, <1>4 DEF RefCount, Counted
<1>6. obj[b].live <=> RefCount(b) > 0
  BY <1>5 DEF Counted
<1>7. RefCount(b) = 0 <=> /\ Cardinality(Holding(b)) = 0 /\ OtherRefs(b) = 0
                          /\ JobRefs("compact", b) = 0 /\ JobRefs("demote", b) = 0
  <2> DEFINE k == Cardinality(Holding(b))
             o == OtherRefs(b)
             c == JobRefs("compact", b)
             d == JobRefs("demote", b)
  <2>1. k \in Nat /\ o \in Nat /\ c \in Nat /\ d \in Nat /\ RefCount(b) = k + o + c + d
    BY <1>1, <1>2, <1>4 DEF RefCount
  <2> HIDE DEF k, o, c, d
  <2>2. RefCount(b) = 0 <=> k = 0 /\ o = 0 /\ c = 0 /\ d = 0
    BY <2>1
  <2> QED
    BY <2>2 DEF k, o, c, d
<1>8. RefCount(b) = 0 <=> /\ Holding(b) = {} /\ installed # b
                          /\ grace[b].phase = "none" /\ shr.blob # b
                          /\ \A j \in Job : job[j].old # b /\ job[j].new # b
  BY <1>1, <1>2, <1>3, <1>4, <1>7
<1> QED
  BY <1>5, <1>6, <1>8

-----------------------------------------------------------------------------
(* t may have left the grace periods that waited for it.                   *)
WaitsLeft(t) ==
  /\ grace' \in [Blob -> Graces] /\ job' \in [Job -> JobState]
  /\ \A b \in Blob : /\ grace'[b].phase = grace[b].phase
                     /\ \A u \in Thread \ {t} : u \in grace[b].wait => u \in grace'[b].wait
  /\ \A j \in Job : /\ job'[j].pc = job[j].pc /\ job'[j].old = job[j].old
                    /\ job'[j].new = job[j].new
                    /\ \A u \in Thread \ {t} : u \in job[j].wait => u \in job'[j].wait

LEMMA LeaveLeaves ==
  ASSUME LifeTypes, NEW t \in Thread, Leave(t) \/ UNCHANGED <<grace, job>>
  PROVE  WaitsLeft(t)
<1>1. CASE UNCHANGED <<grace, job>>
  BY <1>1 DEF LifeTypes, WaitsLeft
<1>2. CASE Leave(t)
  <2>1. grace' = [b \in Blob |-> [grace[b] EXCEPT !.wait = @ \ {t}]]
    BY <1>2 DEF Leave
  <2>2. job' = [j \in Job |-> [job[j] EXCEPT !.wait = @ \ {t}]]
    BY <1>2 DEF Leave
  <2>3. ASSUME NEW b \in Blob
        PROVE  /\ grace'[b] \in Graces /\ grace'[b].phase = grace[b].phase
               /\ grace'[b].wait = grace[b].wait \ {t}
    <3>1. grace[b] \in Graces /\ grace'[b] = [grace[b] EXCEPT !.wait = @ \ {t}]
      BY <2>1 DEF LifeTypes
    <3> QED
      BY <3>1 DEF Graces
  <2>4. ASSUME NEW j \in Job
        PROVE  /\ job'[j] \in JobState /\ job'[j].pc = job[j].pc
               /\ job'[j].old = job[j].old /\ job'[j].new = job[j].new
               /\ job'[j].wait = job[j].wait \ {t}
    <3>1. job[j] \in JobState /\ job'[j] = [job[j] EXCEPT !.wait = @ \ {t}]
      BY <2>2 DEF LifeTypes
    <3> QED
      BY <3>1 DEF JobState
  <2>5. grace' \in [Blob -> Graces]
    BY <2>1, <2>3
  <2>6. job' \in [Job -> JobState]
    BY <2>2, <2>4
  <2> QED
    BY <2>3, <2>4, <2>5, <2>6 DEF WaitsLeft
<1> QED
  BY <1>1, <1>2

(* A reader that holds no reference before and after its step, and has     *)
(* loaded nothing but the installed pointer.                               *)
LEMMA ReaderMoves ==
  ASSUME LifeIInv, NEW t \in Thread, NEW r \in ThreadState,
         th[t].pc \notin {"parsed", "refRead"}, r.pc \notin {"parsed", "refRead"},
         r.pc = "idle" <=> r.blob = NoBlob,
         r.blob # NoBlob => r.blob = installed,
         th' = [th EXCEPT ![t] = r],
         WaitsLeft(t),
         UNCHANGED <<obj, installed, newest, alloc, gate, shr, stale,
                     freedHeld, outlived>>
  PROVE  LifeIInv'
<1>1. LifeTypes /\ Control
  BY DEF LifeIInv
<1>2. /\ th'[t] = r /\ \A u \in Thread \ {t} : th'[u] = th[u]
  BY <1>1 DEF LifeTypes
<1>3. LifeTypes'
  <2>1. grace' \in [Blob -> Graces] /\ job' \in [Job -> JobState]
    BY DEF WaitsLeft
  <2>2. th' \in [Thread -> ThreadState]
    BY <1>1 DEF LifeTypes
  <2> QED
    BY <1>1, <2>1, <2>2 DEF LifeTypes
<1>4. Control'
  <2>1. \A j \in Job : job'[j].pc = job[j].pc /\ job'[j].old = job[j].old /\ job'[j].new = job[j].new
    BY DEF WaitsLeft
  <2>2. "compact" \in Job
    BY DEF Job
  <2>3. \A u \in Thread : th'[u].pc = "idle" <=> th'[u].blob = NoBlob
    BY <1>1, <1>2 DEF Control
  <2> QED
    BY <1>1, <2>1, <2>2, <2>3 DEF Control
<1>5. ASSUME RefsRight PROVE RefsRight'
  <2>1. ASSUME NEW b \in Blob PROVE Counted(b)'
    <3>1. Holding(b)' = Holding(b)
      BY <1>2 DEF Holding
    <3>2. OtherRefs(b)' = OtherRefs(b)
      BY DEF OtherRefs, One, WaitsLeft
    <3>3. \A j \in Job : JobRefs(j, b)' = JobRefs(j, b)
      BY DEF JobRefs, One, WaitsLeft
    <3>4. RefCount(b)' = RefCount(b)
      BY <3>1, <3>2, <3>3 DEF RefCount, Job
    <3> QED
      BY <1>5, <3>4 DEF Counted, RefsRight
  <2>2. \A b \in Blob : installed' = b => grace'[b].phase = "none"
    BY <1>5 DEF RefsRight, WaitsLeft
  <2>4. \A u \in Thread : th'[u].pc = "parsed" => u # t /\ th[u].pc = "parsed"
    BY <1>2
  <2>5. \A u \in Thread : th[u].pc = "parsed" => th[u].blob \in Blob
    BY <1>1 DEF LifeTypes, Control, ThreadState
  <2>6. ASSUME NEW u \in Thread, th'[u].pc = "parsed"
        PROVE  /\ Private(th[u].blob)'
               /\ \A j \in Job : job'[j].new # th'[u].blob
               /\ \A v \in Thread \ {u} : th'[v].blob # th'[u].blob
    <3>1. th'[u] = th[u] /\ th[u].pc = "parsed" /\ u # t /\ th[u].blob \in Blob
      BY <1>2, <2>4, <2>5, <2>6
    <3>2. /\ Private(th[u].blob) /\ \A j \in Job : job[j].new # th[u].blob
          /\ \A v \in Thread \ {u} : th[v].blob # th[u].blob
      BY <1>5, <3>1 DEF RefsRight
    <3>3. r.blob # th[u].blob
      BY <3>1, <3>2, BlobLifetimeAssumption DEF Private
    <3> QED
      BY <1>2, <3>1, <3>2, <3>3 DEF WaitsLeft, Private
  <2>7. ASSUME NEW j \in Job, job'[j].new # NoBlob
        PROVE  Private(job[j].new)' /\ \A u \in Thread : th'[u].blob # job'[j].new
    <3>1. job'[j].new = job[j].new /\ job[j].new \in Blob
      BY <1>1, <2>7 DEF WaitsLeft, LifeTypes, JobState
    <3>2. Private(job[j].new) /\ \A u \in Thread : th[u].blob # job[j].new
      BY <1>5, <2>7, <3>1 DEF RefsRight
    <3>3. r.blob # job[j].new
      BY <3>1, <3>2, BlobLifetimeAssumption DEF Private
    <3> QED
      BY <1>2, <3>1, <3>2, <3>3 DEF WaitsLeft, Private
  <2>8. ASSUME NEW u \in Thread, NEW b \in Blob
        PROVE  /\ InRcuOn(u, b)' => RcuCovered(u, b)'
               /\ InSrcuOn(u, b)' => SrcuCovered(u, b)'
    <3>1. CASE u = t
      BY <1>2, <3>1, BlobLifetimeAssumption DEF InRcuOn, InSrcuOn, RcuCovered, SrcuCovered
    <3>2. CASE u # t
      <4>1. /\ InRcuOn(u, b)' <=> InRcuOn(u, b)
            /\ InSrcuOn(u, b)' <=> InSrcuOn(u, b)
        BY <1>2, <3>2 DEF InRcuOn, InSrcuOn
      <4>2. \A j \in Job : /\ JobKeepsRcu(j, u) => JobKeepsRcu(j, u)'
                           /\ JobKeepsSrcu(j, u) => JobKeepsSrcu(j, u)'
        BY <3>2 DEF JobKeepsRcu, JobKeepsSrcu, WaitsLeft
      <4>3. /\ RcuCovered(u, b) => RcuCovered(u, b)'
            /\ SrcuCovered(u, b) => SrcuCovered(u, b)'
        BY <3>2, <4>2 DEF RcuCovered, SrcuCovered, WaitsLeft
      <4> QED
        BY <1>5, <4>1, <4>3 DEF RefsRight
    <3> QED
      BY <3>1, <3>2
  <2> QED
    BY <2>1, <2>2, <2>6, <2>7, <2>8 DEF RefsRight
<1>6. ASSUME Drained PROVE Drained'
  <2>1. \A j \in Job : /\ job'[j].pc = job[j].pc /\ job'[j].old = job[j].old
                       /\ job'[j].new = job[j].new
                       /\ Retiring(j)' <=> Retiring(j)
                       /\ Published(j)' <=> Published(j)
    BY DEF WaitsLeft, Retiring, Published
  <2>2. "compact" \in Job /\ "demote" \in Job
    BY DEF Job
  <2>3. r.blob # NoBlob => obj[r.blob].gen = newest /\ newest \in alloc
    BY <1>6 DEF Drained
  <2>4. ASSUME NEW j \in Job, Retiring(j), NEW u \in Thread PROVE Waited(j, u)'
    <3>1. CASE u = t
      <4>1. GenOf(u)' # obj[job[j].old].gen \/ r.pc = "idle"
        BY <1>2, <1>6, <2>3, <2>4, <3>1 DEF Drained, GenOf
      <4> QED
        BY <1>2, <2>1, <3>1, <4>1 DEF Waited
    <3>2. CASE u # t
      <4>1. /\ JobKeepsRcu(j, u) => JobKeepsRcu(j, u)'
            /\ JobKeepsSrcu(j, u) => JobKeepsSrcu(j, u)'
        BY <3>2 DEF JobKeepsRcu, JobKeepsSrcu, WaitsLeft
      <4>2. Waited(j, u)
        BY <1>6, <2>4 DEF Drained
      <4> QED
        BY <1>2, <2>1, <3>2, <4>1, <4>2 DEF Waited, GenOf
    <3> QED
      BY <3>1, <3>2
  <2>5. \A j \in Job : Retiring(j)' => /\ obj'[job'[j].old].gen # newest'
                                       /\ \A u \in Thread : Waited(j, u)'
    BY <1>6, <2>1, <2>4 DEF Drained
  <2>6. \A u \in Thread : th'[u].pc = "refRead" =>
       \/ installed' = th'[u].blob
       \/ \E j \in Job : Retiring(j)' /\ job'[j].old = th'[u].blob
    BY <1>2, <1>6, <2>1 DEF Drained
  <2>7. \A u \in Thread : th'[u].pc \in {"rcuRead", "srcuRead", "refLoad", "refRead"}
                            => GenOf(u)' \in alloc'
    BY <1>2, <1>6, <2>3 DEF Drained, GenOf
  <2>8. Drained!1' /\ Drained!2' /\ Drained!3' /\ Drained!4' /\ Drained!5'
    BY <1>6, <2>1, <2>2 DEF Drained
  <2>9. \A u \in Thread : th'[u].pc = "parsed" => GenOf(u)' > 0
    BY <1>2, <1>6 DEF Drained, GenOf
  <2> QED
    BY <2>5, <2>6, <2>7, <2>8, <2>9 DEF Drained
<1> QED
  BY <1>3, <1>4, <1>5, <1>6 DEF LifeIInv

-----------------------------------------------------------------------------
(* Whatever an actor points to is allocated.                               *)
InUse(b) == b # NoBlob => b \in Blob /\ obj[b].live
PointersLive ==
  /\ \A t \in Thread : InUse(th[t].blob)
  /\ \A j \in Job : InUse(job[j].old) /\ InUse(job[j].new)
  /\ InUse(installed) /\ InUse(shr.blob)

LEMMA UsedIsLive == LifeTypes /\ Control /\ RefsRight => PointersLive
<1> SUFFICES ASSUME LifeTypes, Control, RefsRight PROVE PointersLive
  OBVIOUS
<1>1. \A b \in Blob : ~obj[b].live =>
        /\ Holding(b) = {} /\ installed # b /\ grace[b].phase = "none"
        /\ shr.blob # b /\ \A j \in Job : job[j].old # b /\ job[j].new # b
  BY CountIs DEF RefsRight
<1>2. ASSUME NEW t \in Thread, th[t].blob # NoBlob PROVE InUse(th[t].blob)
  <2> DEFINE b == th[t].blob
  <2>1. b \in Blob /\ th[t].pc # "idle" /\ th[t] \in ThreadState
    BY <1>2 DEF LifeTypes, Control, ThreadState
  <2>2. CASE t \in Holding(b)
    BY <1>1, <2>1, <2>2 DEF InUse
  <2>3. CASE t \notin Holding(b)
    <3>1. InRcuOn(t, b) \/ InSrcuOn(t, b)
      BY <2>1, <2>3 DEF Holding, InRcuOn, InSrcuOn, ThreadState
    <3>2. RcuCovered(t, b) \/ SrcuCovered(t, b)
      BY <2>1, <3>1 DEF RefsRight
    <3>3. installed = b \/ grace[b].phase # "none" \/ \E j \in Job : job[j].old = b
      BY <3>2 DEF RcuCovered, SrcuCovered
    <3> QED
      BY <1>1, <2>1, <3>3 DEF InUse
  <2> QED
    BY <2>2, <2>3
<1>3. ASSUME NEW j \in Job PROVE InUse(job[j].old) /\ InUse(job[j].new)
  BY <1>1 DEF InUse, LifeTypes, JobState
<1>4. InUse(installed) /\ InUse(shr.blob)
  BY <1>1 DEF InUse, LifeTypes, Shrinkers
<1> QED
  BY <1>2, <1>3, <1>4 DEF PointersLive, InUse

LEMMA UsedIsLiveNext ==
  (LifeTypes' /\ Control' /\ RefsRight') => PointersLive'
BY UsedIsLive, PTL

(* A blob that stays allocated stays the generation it was parsed from.    *)
GenKept == \A b \in Blob : obj[b].live /\ obj'[b].live => obj'[b].gen = obj[b].gen

(* A step that neither publishes nor frees blocks: threads may start a     *)
(* parse or finish, and the installed pointer may be dropped, but not from *)
(* under a listing.                                                        *)
LEMMA DrainedFrame ==
  ASSUME LifeTypes, Control, RefsRight, LifeTypes', Control', RefsRight', Drained,
         GenKept, UNCHANGED <<newest, alloc>>,
         \A j \in Job : /\ job'[j].pc = job[j].pc /\ job'[j].old = job[j].old
                        /\ job'[j].new = job[j].new
                        /\ job'[j].wait = job[j].wait,
         \A t \in Thread : \/ th'[t] = th[t] \/ th'[t].pc = "idle"
                           \/ th'[t].pc = "parsed" /\ obj'[th'[t].blob].gen > 0,
         \/ installed' = installed
         \/ /\ installed' = NoBlob
            /\ \A t \in Thread : th'[t].pc = "refRead" => th[t].blob # installed
         \/ /\ installed = NoBlob /\ installed' # NoBlob
            /\ newest > 0 /\ obj'[installed'].gen = newest
  PROVE  Drained'
<1>1. PointersLive
  BY UsedIsLive
<1>2. PointersLive'
  BY UsedIsLiveNext
<1>3. \A j \in Job : /\ Retiring(j)' <=> Retiring(j)
                     /\ Published(j)' <=> Published(j)
  BY DEF Retiring, Published
<1>4. "compact" \in Job /\ "demote" \in Job
  BY DEF Job
<1>5. \A j \in Job : /\ job[j].old # NoBlob => obj'[job[j].old].gen = obj[job[j].old].gen
                     /\ job[j].new # NoBlob => obj'[job[j].new].gen = obj[job[j].new].gen
  BY <1>1, <1>2 DEF PointersLive, InUse, GenKept
<1>6. ASSUME NEW t \in Thread, th'[t].pc \notin {"idle", "parsed"}
      PROVE  th'[t] = th[t] /\ GenOf(t)' = GenOf(t)
  <2>1. th'[t] = th[t] /\ th[t].blob # NoBlob
    BY <1>6 DEF Control
  <2> QED
    BY <1>1, <1>2, <2>1 DEF PointersLive, InUse, GenKept, GenOf
<1>7. installed' # NoBlob => newest' > 0 /\ obj'[installed'].gen = newest'
  <2>1. CASE installed' = installed
    BY <1>1, <1>2, <2>1 DEF PointersLive, InUse, GenKept, Drained
  <2> QED
    BY <2>1
<1>8. newest' > 0 => newest' \in alloc'
  BY DEF Drained
<1>9. job'["compact"].pc = "publish" =>
        obj'[job'["compact"].new].gen = newest' + 1 /\ newest' + 1 \in alloc'
  BY <1>4, <1>5 DEF Drained, Control
<1>10. newest' = 0 => job'["compact"].pc = "idle"
  BY <1>4 DEF Drained
<1>11. Published("demote")' => newest' = 0
  BY <1>3, <1>4 DEF Drained
<1>12. ASSUME NEW j \in Job, Retiring(j)'
       PROVE  obj'[job'[j].old].gen # newest' /\ \A t \in Thread : Waited(j, t)'
  <2>1. job[j].old # NoBlob /\ Retiring(j)
    BY <1>3, <1>12 DEF Retiring, Control
  <2>2. obj'[job'[j].old].gen = obj[job[j].old].gen
    BY <1>5, <2>1
  <2>3. ASSUME NEW t \in Thread PROVE Waited(j, t)'
    <3>1. Waited(j, t)
      BY <2>1 DEF Drained
    <3> QED
      BY <1>6, <2>2, <3>1 DEF Waited, JobKeepsRcu, JobKeepsSrcu
  <2> QED
    BY <2>1, <2>2, <2>3 DEF Drained
<1>13. ASSUME NEW t \in Thread, th'[t].pc = "refRead"
       PROVE  \/ installed' = th'[t].blob
              \/ \E j \in Job : Retiring(j)' /\ job'[j].old = th'[t].blob
  <2>1. th'[t] = th[t]
    BY <1>6, <1>13
  <2>2. th[t].blob # NoBlob
    BY <1>13, <2>1 DEF Control
  <2>3. installed = th[t].blob \/ \E j \in Job : Retiring(j) /\ job[j].old = th[t].blob
    BY <1>13, <2>1 DEF Drained
  <2> QED
    BY <1>3, <1>13, <2>1, <2>2, <2>3
<1>14. \A t \in Thread : th'[t].pc \in {"rcuRead", "srcuRead", "refLoad", "refRead"}
                           => GenOf(t)' \in alloc'
  BY <1>6 DEF Drained
<1>15. ASSUME NEW t \in Thread, th'[t].pc = "parsed" PROVE GenOf(t)' > 0
  <2>1. CASE th'[t] = th[t]
    <3>1. th[t].pc = "parsed" /\ th[t].blob # NoBlob
      BY <1>15, <2>1 DEF Control
    <3>2. GenOf(t)' = GenOf(t)
      BY <1>1, <1>2, <2>1, <3>1 DEF PointersLive, InUse, GenKept, GenOf
    <3> QED
      BY <3>1, <3>2 DEF Drained
  <2>2. CASE th'[t] # th[t]
    BY <1>15, <2>2 DEF GenOf
  <2> QED
    BY <2>1, <2>2
<1> QED
  BY <1>7, <1>8, <1>9, <1>10, <1>11, <1>12, <1>13, <1>14, <1>15 DEF Drained

-----------------------------------------------------------------------------
LEMMA HoldingNat ==
  ASSUME NEW b
  PROVE  Cardinality(Holding(b)) \in Nat /\ Cardinality(Holding(b))' \in Nat
<1>1. IsFiniteSet(Holding(b)) /\ IsFiniteSet(Holding(b)')
  BY BlobLifetimeAssumption, FS_Subset DEF Holding
<1> QED
  BY <1>1, FS_CardinalityType

LEMMA CountNat == ASSUME NEW b PROVE RefCount(b) \in Nat /\ RefCount(b)' \in Nat
<1>1. /\ OtherRefs(b) \in Nat /\ OtherRefs(b)' \in Nat
      /\ JobRefs("compact", b) \in Nat /\ JobRefs("compact", b)' \in Nat
      /\ JobRefs("demote", b) \in Nat /\ JobRefs("demote", b)' \in Nat
  BY DEF OtherRefs, JobRefs, One
<1> QED
  BY <1>1, HoldingNat DEF RefCount

(* References taken and dropped.                                           *)
LEMMA CountPutOne ==
  ASSUME LifeTypes, NEW b \in Blob, Counted(b), NEW o \in [Blob -> Blobs], o[b] = obj[b],
         obj'[b] = Put(o, b)[b], RefCount(b)' = RefCount(b) - 1
  PROVE  /\ Counted(b)'
         /\ obj[b].live /\ obj'[b].live => obj'[b].gen = obj[b].gen
<1>1. obj[b].refs \in Nat /\ RefCount(b)' \in Nat
  BY CountNat DEF LifeTypes, Blobs
<1>2. RefCount(b) \in Nat /\ obj[b].refs = RefCount(b) /\ (obj[b].live <=> obj[b].refs > 0)
  BY <1>1 DEF Counted
<1>3. obj[b].refs >= 1
  BY <1>1, <1>2
<1>4. CASE obj[b].refs <= 1
  <2>1. obj'[b] = Gone
    BY <1>4, PutIs
  <2>2. RefCount(b)' = 0
    BY <1>1, <1>2, <1>3, <1>4
  <2>3. obj'[b].refs = 0 /\ obj'[b].live = FALSE /\ ~(obj'[b].refs > 0)
    BY <2>1 DEF Gone
  <2>4. obj'[b].refs = RefCount(b)' /\ (obj'[b].live <=> obj'[b].refs > 0)
    BY <2>2, <2>3
  <2> QED
    BY <2>3, <2>4 DEF Counted
<1>5. CASE obj[b].refs > 1
  <2>1. obj'[b].refs = obj[b].refs - 1 /\ obj'[b].live = obj[b].live /\ obj'[b].gen = obj[b].gen
    BY <1>5, PutIs
  <2>2. obj'[b].refs > 0 /\ obj[b].live
    BY <1>1, <1>2, <1>5, <2>1
  <2>3. Counted(b)'
    BY <1>2, <2>1, <2>2 DEF Counted
  <2> QED
    BY <2>1, <2>3
<1> QED
  BY <1>1, <1>4, <1>5

LEMMA CountPut ==
  ASSUME LifeTypes, NEW b \in Blob, \A c \in Blob : Counted(c), obj' = Put(obj, b),
         RefCount(b)' = RefCount(b) - 1,
         \A c \in Blob \ {b} : RefCount(c)' = RefCount(c)
  PROVE  (\A c \in Blob : Counted(c)') /\ GenKept
<1>1. obj \in [Blob -> Blobs]
  BY DEF LifeTypes
<1>2. \A c \in Blob \ {b} : obj'[c] = obj[c]
  BY <1>1, PutIs
<1>3. \A c \in Blob \ {b} : Counted(c)'
  BY <1>2 DEF Counted
<1>4. Counted(b)' /\ (obj[b].live /\ obj'[b].live => obj'[b].gen = obj[b].gen)
  BY <1>1, CountPutOne
<1> QED
  BY <1>2, <1>3, <1>4 DEF GenKept

LEMMA CountTake ==
  ASSUME LifeTypes, NEW b \in Blob, \A c \in Blob : Counted(c), obj' = Take(obj, b),
         obj[b].live, RefCount(b)' = RefCount(b) + 1,
         \A c \in Blob \ {b} : RefCount(c)' = RefCount(c)
  PROVE  (\A c \in Blob : Counted(c)') /\ GenKept
<1>1. obj \in [Blob -> Blobs] /\ obj[b].refs \in Nat
  BY DEF LifeTypes, Blobs
<1>2. obj[b].refs = RefCount(b) /\ obj[b].refs > 0
  BY <1>1 DEF Counted
<1>3. /\ \A c \in Blob \ {b} : obj'[c] = obj[c]
      /\ obj'[b].refs = obj[b].refs + 1 /\ obj'[b].live = obj[b].live
      /\ obj'[b].gen = obj[b].gen
  BY <1>1, TakeIs
<1>4. ASSUME NEW c \in Blob \ {b} PROVE Counted(c)'
  BY <1>3 DEF Counted
<1>5. obj'[b].refs > 0 /\ obj'[b].refs = RefCount(b)'
  BY <1>1, <1>2, <1>3
<1>6. Counted(b)'
  BY <1>3, <1>5 DEF Counted
<1> QED
  BY <1>3, <1>4, <1>6 DEF GenKept

LEMMA CountSame ==
  ASSUME \A c \in Blob : Counted(c),
         \A c \in Blob : /\ obj'[c].refs = obj[c].refs /\ obj'[c].live = obj[c].live
                         /\ obj'[c].gen = obj[c].gen /\ RefCount(c)' = RefCount(c)
  PROVE  (\A c \in Blob : Counted(c)') /\ GenKept
BY DEF Counted, GenKept

LEMMA FreshIs ==
  ASSUME obj \in [Blob -> Blobs], NEW b \in Blob, NEW g \in Gen, NEW listed \in BOOLEAN,
         Fresh(b, g, listed)
  PROVE  /\ obj' \in [Blob -> Blobs] /\ obj'[b].refs = 1 /\ obj'[b].live = TRUE
         /\ obj'[b].gen = g
         /\ \A c \in Blob \ {b} : obj'[c] = obj[c]
<1>1. PICK pinned \in BOOLEAN :
        obj' = [obj EXCEPT ![b] = [live |-> TRUE, refs |-> 1, gen |-> g,
                                   listed |-> listed, pinned |-> pinned]]
  BY DEF Fresh
<1> DEFINE r == [live |-> TRUE, refs |-> 1, gen |-> g, listed |-> listed,
                 pinned |-> pinned]
<1>2. r \in Blobs /\ r.live = TRUE /\ r.refs = 1 /\ r.gen = g
  BY DEF Blobs
<1>3. obj' = [obj EXCEPT ![b] = r]
  BY <1>1
<1> HIDE DEF r
<1> QED
  BY <1>2, <1>3

(* Whose part of the count a step changes.                                 *)
LEMMA CountOthers ==
  ASSUME NEW c \in Blob, UNCHANGED <<th, job>>
  PROVE  RefCount(c)' - OtherRefs(c)' = RefCount(c) - OtherRefs(c)
<1>1. /\ JobRefs("compact", c)' = JobRefs("compact", c)
      /\ JobRefs("demote", c)' = JobRefs("demote", c)
      /\ Cardinality(Holding(c))' = Cardinality(Holding(c))
  BY DEF JobRefs, Holding
<1>2. Cardinality(Holding(c)) \in Nat
  BY HoldingIs
<1>3. /\ OtherRefs(c) \in Nat /\ OtherRefs(c)' \in Nat
      /\ JobRefs("compact", c) \in Nat /\ JobRefs("demote", c) \in Nat
  BY DEF OtherRefs, JobRefs, One
<1> QED
  BY <1>1, <1>2, <1>3 DEF RefCount

LEMMA CountThreads ==
  ASSUME NEW c \in Blob, UNCHANGED <<installed, shr>>,
         \A j \in Job : /\ job'[j].pc = job[j].pc /\ job'[j].old = job[j].old
                        /\ job'[j].new = job[j].new,
         grace'[c].phase = grace[c].phase
  PROVE  RefCount(c)' - Cardinality(Holding(c))' = RefCount(c) - Cardinality(Holding(c))
<1>1. /\ JobRefs("compact", c)' = JobRefs("compact", c)
      /\ JobRefs("demote", c)' = JobRefs("demote", c)
      /\ OtherRefs(c)' = OtherRefs(c)
  BY DEF JobRefs, OtherRefs, Job
<1>2. Cardinality(Holding(c)) \in Nat /\ Cardinality(Holding(c))' \in Nat
  BY HoldingNat
<1>3. /\ OtherRefs(c) \in Nat
      /\ JobRefs("compact", c) \in Nat /\ JobRefs("demote", c) \in Nat
  BY DEF OtherRefs, JobRefs, One
<1> QED
  BY <1>1, <1>2, <1>3 DEF RefCount

LEMMA CountJob ==
  ASSUME NEW c \in Blob, NEW j \in Job, UNCHANGED <<th, shr, grace>>,
         \A i \in Job \ {j} : job'[i] = job[i]
  PROVE  RefCount(c)' - JobRefs(j, c)' - One(installed = c)'
           = RefCount(c) - JobRefs(j, c) - One(installed = c)
<1> DEFINE k == Cardinality(Holding(c))
           o == One(grace[c].phase # "none") + One(shr.blob = c)
<1>1. k' = k /\ o' = o
  BY DEF Holding
<1>2. k \in Nat /\ o \in Nat
  BY HoldingIs DEF One
<1>3. /\ One(installed = c) \in Nat /\ One(installed = c)' \in Nat
      /\ \A i \in Job : JobRefs(i, c) \in Nat /\ JobRefs(i, c)' \in Nat
  BY DEF JobRefs, One
<1>4. \A i \in Job \ {j} : JobRefs(i, c)' = JobRefs(i, c)
  BY DEF JobRefs
<1>5. /\ OtherRefs(c) = o + One(installed = c)
      /\ OtherRefs(c)' = o' + One(installed = c)'
  BY DEF OtherRefs, One
<1>6. /\ RefCount(c) = k + OtherRefs(c) + JobRefs("compact", c) + JobRefs("demote", c)
      /\ RefCount(c)' = k' + OtherRefs(c)' + JobRefs("compact", c)' + JobRefs("demote", c)'
  BY DEF RefCount
<1> HIDE DEF k, o
<1>7. "compact" \in Job /\ "demote" \in Job /\ (j = "compact" \/ j = "demote")
  BY DEF Job
<1>8. CASE j = "compact"
  <2>1. JobRefs("demote", c)' = JobRefs("demote", c)
    BY <1>4, <1>7, <1>8
  <2> QED
    BY <1>1, <1>2, <1>3, <1>5, <1>6, <1>7, <1>8, <2>1
<1>9. CASE j = "demote"
  <2>1. JobRefs("compact", c)' = JobRefs("compact", c)
    BY <1>4, <1>7, <1>9
  <2> QED
    BY <1>1, <1>2, <1>3, <1>5, <1>6, <1>7, <1>9, <2>1
<1> QED
  BY <1>7, <1>8, <1>9

(* Nothing that a reader depends on has changed.                           *)
LEMMA CoversKept ==
  ASSUME RefsRight, \A b \in Blob : Counted(b)', UNCHANGED <<installed, grace, th, job>>
  PROVE  RefsRight'
BY DEF RefsRight, Private, InRcuOn, InSrcuOn, RcuCovered, SrcuCovered, JobKeepsRcu,
       JobKeepsSrcu

-----------------------------------------------------------------------------
(* The steps of the invariant: the shrinker.                               *)
LEMMA ShrinkStep ==
  ASSUME LifeIInv, (\E b \in Blob : ShrinkPick(b)) \/ ShrinkSkip \/ ShrinkPut
  PROVE  LifeIInv'
<1>1. LifeTypes /\ Control /\ obj \in [Blob -> Blobs] /\ shr \in Shrinkers
  BY DEF LifeIInv, LifeTypes
<1>2. UNCHANGED <<installed, newest, alloc, gate, th, grace, job, stale,
                  freedHeld, outlived>>
  BY DEF ShrinkPick, ShrinkSkip, ShrinkPut
<1>3. \A c \in Blob : OtherRefs(c) - One(shr.blob = c) = OtherRefs(c)' - One(shr.blob = c)'
  BY <1>2 DEF OtherRefs, One
<1>4. \A c \in Blob : /\ RefCount(c)' - One(shr.blob = c)' = RefCount(c) - One(shr.blob = c)
                      /\ One(shr.blob = c)' \in Nat /\ One(shr.blob = c) \in Nat
                      /\ RefCount(c) \in Nat /\ RefCount(c)' \in Nat
  <2> TAKE c \in Blob
  <2>1. RefCount(c)' - OtherRefs(c)' = RefCount(c) - OtherRefs(c)
    BY <1>2, CountOthers
  <2>2. /\ OtherRefs(c) \in Nat /\ OtherRefs(c)' \in Nat
        /\ One(shr.blob = c) \in Nat /\ One(shr.blob = c)' \in Nat
    BY DEF OtherRefs, One
  <2>3. RefCount(c) \in Nat /\ RefCount(c)' \in Nat
    BY CountNat
  <2> QED
    BY <1>3, <2>1, <2>2, <2>3
<1>5. SUFFICES /\ LifeTypes' /\ Control'
               /\ RefsRight => (\A c \in Blob : Counted(c)') /\ GenKept
  <2>1. ASSUME RefsRight PROVE RefsRight'
    BY <1>2, <1>5, <2>1, CoversKept
  <2>2. ASSUME RefsRight, Drained PROVE Drained'
    BY <1>1, <1>2, <1>5, <2>1, <2>2, DrainedFrame
  <2> QED
    BY <1>2, <1>5, <2>1, <2>2 DEF LifeIInv
<1>6. ASSUME NEW b \in Blob, ShrinkPick(b)
      PROVE  /\ LifeTypes' /\ Control'
             /\ RefsRight => (\A c \in Blob : Counted(c)') /\ GenKept
  <2>1. /\ shr.pc = "idle" /\ shr' = [pc |-> "have", blob |-> b]
        /\ obj' = Take(obj, b) /\ obj[b].refs > 0
    BY <1>6 DEF ShrinkPick
  <2>2. LifeTypes'
    <3>1. obj' \in [Blob -> Blobs] /\ shr' \in Shrinkers
      BY <1>1, <2>1, TakeIs DEF Shrinkers
    <3> QED
      BY <1>1, <1>2, <3>1 DEF LifeTypes
  <2>3. Control'
    BY <1>1, <1>2, <2>1, BlobLifetimeAssumption DEF Control
  <2>4. ASSUME RefsRight PROVE (\A c \in Blob : Counted(c)') /\ GenKept
    <3>1. shr.blob = NoBlob
      BY <1>1, <2>1 DEF Control
    <3>2. \A c \in Blob : One(shr.blob = c) = 0 /\ One(shr.blob = c)' = IF c = b THEN 1 ELSE 0
      BY <2>1, <3>1, BlobLifetimeAssumption DEF One
    <3>3. /\ RefCount(b)' = RefCount(b) + 1
          /\ \A c \in Blob \ {b} : RefCount(c)' = RefCount(c)
      BY <1>4, <3>2
    <3>4. (\A c \in Blob : Counted(c)) /\ obj[b].live
      BY <2>1, <2>4 DEF RefsRight, Counted
    <3> QED
      BY <1>1, <2>1, <3>3, <3>4, CountTake
  <2> QED
    BY <2>2, <2>3, <2>4
<1>7. ASSUME ShrinkSkip
      PROVE  /\ LifeTypes' /\ Control'
             /\ RefsRight => (\A c \in Blob : Counted(c)') /\ GenKept
  <2>1. shr.pc = "have" /\ shr' = [shr EXCEPT !.pc = "put"] /\ obj' = obj
    BY <1>7 DEF ShrinkSkip
  <2>2. shr' \in Shrinkers /\ shr'.blob = shr.blob /\ shr'.pc = "put"
    BY <1>1, <2>1 DEF Shrinkers
  <2>3. LifeTypes' /\ Control'
    BY <1>1, <1>2, <2>1, <2>2 DEF LifeTypes, Control
  <2>4. \A c \in Blob : RefCount(c)' = RefCount(c)
    BY <1>4, <2>2 DEF One
  <2> QED
    BY <2>1, <2>3, <2>4, CountSame DEF RefsRight
<1>8. ASSUME ShrinkPut
      PROVE  /\ LifeTypes' /\ Control'
             /\ RefsRight => (\A c \in Blob : Counted(c)') /\ GenKept
  <2>1. shr.pc = "put" /\ shr' = AtRest /\ obj' = Put(obj, shr.blob)
    BY <1>8 DEF ShrinkPut
  <2>2. PICK b \in Blob : b = shr.blob
    BY <1>1, <2>1 DEF Control, Shrinkers
  <2>3. shr' \in Shrinkers /\ shr'.blob = NoBlob /\ shr'.pc = "idle"
    BY <2>1 DEF Shrinkers, AtRest
  <2>4. LifeTypes'
    <3>1. obj' \in [Blob -> Blobs]
      BY <1>1, <2>1, <2>2, PutIs
    <3> QED
      BY <1>1, <1>2, <2>3, <3>1 DEF LifeTypes
  <2>5. Control'
    BY <1>1, <1>2, <2>3 DEF Control
  <2>6. ASSUME RefsRight PROVE (\A c \in Blob : Counted(c)') /\ GenKept
    <3>1. \A c \in Blob : /\ One(shr.blob = c)' = 0
                          /\ One(shr.blob = c) = IF c = b THEN 1 ELSE 0
      BY <2>2, <2>3, BlobLifetimeAssumption DEF One
    <3>2. /\ RefCount(b)' = RefCount(b) - 1
          /\ \A c \in Blob \ {b} : RefCount(c)' = RefCount(c)
      BY <1>4, <3>1
    <3> QED
      BY <1>1, <2>1, <2>2, <2>6, <3>2, CountPut DEF RefsRight
  <2> QED
    BY <2>4, <2>5, <2>6
<1> QED
  BY <1>6, <1>7, <1>8

(* What is not mentioned by the invariant may change.                      *)
LEMMA LifeKept ==
  ASSUME LifeIInv, UNCHANGED <<obj, installed, newest, alloc, gate, th, grace, shr,
                               job, stale, freedHeld, outlived>>
  PROVE  LifeIInv'
<1>1. ASSUME RefsRight PROVE RefsRight'
  <2>1. \A b \in Blob : Counted(b)'
    BY <1>1 DEF RefsRight, Counted, RefCount, OtherRefs, JobRefs, Holding
  <2> QED
    BY <1>1, <2>1, CoversKept
<1>2. ASSUME Drained PROVE Drained'
  BY <1>2 DEF Drained, Retiring, Published, Waited, GenOf, JobKeepsRcu, JobKeepsSrcu
<1> QED
  BY <1>1, <1>2 DEF LifeIInv, LifeTypes, Control

(* A blob is taken out of service, and its reference is left to a grace    *)
(* period that waits for every reader inside RCU.                          *)
LEMMA Evicts ==
  ASSUME LifeIInv, NEW b \in Blob, installed = b, installed' = NoBlob,
         obj' = Unlist(obj, b),
         grace' = [grace EXCEPT ![b] = [phase |-> "rcu", wait |-> InRcu]],
         shr' \in Shrinkers, shr'.blob = shr.blob,
         shr.pc = "idle" <=> shr'.pc = "idle",
         outlived' \in BOOLEAN, ~outlived' => ~outlived /\ ~HeldByReaddir(b),
         UNCHANGED <<newest, alloc, gate, th, job, stale, freedHeld>>
  PROVE  LifeIInv'
<1>1. LifeTypes /\ Control /\ obj \in [Blob -> Blobs] /\ grace \in [Blob -> Graces]
  BY DEF LifeIInv, LifeTypes
<1>2. /\ grace'[b].phase = "rcu" /\ grace'[b].wait = InRcu
      /\ \A c \in Blob \ {b} : grace'[c] = grace[c]
  BY <1>1
<1>3. LifeTypes'
  <2>1. [phase |-> "rcu", wait |-> InRcu] \in Graces
    BY DEF Graces, InRcu
  <2>2. grace' \in [Blob -> Graces]
    BY <1>1, <2>1
  <2>3. obj' \in [Blob -> Blobs]
    BY <1>1, UnlistIs
  <2> QED
    BY <1>1, <2>2, <2>3 DEF LifeTypes
<1>4. Control'
  BY <1>1 DEF Control
<1>5. ASSUME RefsRight PROVE RefsRight' /\ GenKept
  <2>1. grace[b].phase = "none"
    BY <1>5 DEF RefsRight
  <2>2. ASSUME NEW c \in Blob PROVE RefCount(c)' = RefCount(c)
    <3>1. OtherRefs(c)' = OtherRefs(c)
      <4>1. CASE c = b
        BY <1>2, <2>1, <4>1, BlobLifetimeAssumption DEF OtherRefs, One
      <4>2. CASE c # b
        BY <1>2, <4>2, BlobLifetimeAssumption DEF OtherRefs, One
      <4> QED
        BY <4>1, <4>2
    <3>2. RefCount(c)' - OtherRefs(c)' = RefCount(c) - OtherRefs(c)
      BY CountOthers
    <3>3. OtherRefs(c) \in Nat /\ RefCount(c) \in Nat /\ RefCount(c)' \in Nat
      BY CountNat DEF OtherRefs, One
    <3> QED
      BY <3>1, <3>2, <3>3
  <2>3. (\A c \in Blob : Counted(c)') /\ GenKept
    <3>1. \A c \in Blob : /\ obj'[c].refs = obj[c].refs /\ obj'[c].live = obj[c].live
                          /\ obj'[c].gen = obj[c].gen
      BY <1>1, UnlistIs
    <3> QED
      BY <1>5, <2>2, <3>1, CountSame DEF RefsRight
  <2>4. \A c \in Blob : installed' = c => grace'[c].phase = "none"
    BY BlobLifetimeAssumption
  <2>5. \A c \in Blob : Private(c) => Private(c)'
    BY <1>2, BlobLifetimeAssumption DEF Private
  <2>6. ASSUME NEW t \in Thread, th'[t].pc = "parsed"
        PROVE  /\ Private(th[t].blob)'
               /\ \A j \in Job : job'[j].new # th'[t].blob
               /\ \A u \in Thread \ {t} : th'[u].blob # th'[t].blob
    <3>1. PICK c : c = th[t].blob
      OBVIOUS
    <3>2. c \in Blob
      BY <1>1, <2>6, <3>1 DEF LifeTypes, Control, ThreadState
    <3>3. Private(c)'
      BY <1>5, <2>5, <2>6, <3>1, <3>2 DEF RefsRight
    <3> QED
      BY <1>5, <2>6, <3>1, <3>3 DEF RefsRight, Private
  <2>7. ASSUME NEW j \in Job, job'[j].new # NoBlob
        PROVE  Private(job[j].new)' /\ \A t \in Thread : th'[t].blob # job'[j].new
    <3>1. PICK c : c = job[j].new
      OBVIOUS
    <3>2. c \in Blob
      BY <1>1, <2>7, <3>1 DEF LifeTypes, JobState
    <3>3. Private(c)'
      BY <1>5, <2>5, <2>7, <3>1, <3>2 DEF RefsRight
    <3> QED
      BY <1>5, <2>7, <3>1, <3>3 DEF RefsRight, Private
  <2>8. ASSUME NEW t \in Thread, NEW c \in Blob
        PROVE  /\ InRcuOn(t, c)' => RcuCovered(t, c)'
               /\ InSrcuOn(t, c)' => SrcuCovered(t, c)'
    <3>1. CASE c = b
      BY <1>2, <3>1 DEF InRcuOn, RcuCovered, SrcuCovered, InRcu
    <3>2. CASE c # b
      <4>1. /\ InRcuOn(t, c) => RcuCovered(t, c)
            /\ InSrcuOn(t, c) => SrcuCovered(t, c)
        BY <1>5 DEF RefsRight
      <4> QED
        BY <1>2, <3>2, <4>1 DEF InRcuOn, InSrcuOn, RcuCovered, SrcuCovered,
                                JobKeepsRcu, JobKeepsSrcu
    <3> QED
      BY <3>1, <3>2
  <2> QED
    BY <2>3, <2>4, <2>6, <2>7, <2>8 DEF RefsRight
<1>6. ASSUME RefsRight, Drained, ~outlived' PROVE Drained'
  <2>1. \A t \in Thread : th'[t].pc = "refRead" => th[t].blob # installed
    <3>1. \A t \in Thread : th[t] \in ThreadState
      BY <1>1 DEF LifeTypes
    <3>2. \A t \in Thread : th[t].pc = "refRead" /\ th[t].blob = b
                              => th[t] = [pc |-> "refRead", blob |-> b]
      BY <3>1 DEF ThreadState
    <3> QED
      BY <1>6, <3>2 DEF HeldByReaddir
  <2> QED
    BY <1>1, <1>3, <1>4, <1>5, <1>6, <2>1, DrainedFrame
<1> QED
  BY <1>3, <1>4, <1>5, <1>6 DEF LifeIInv

LEMMA EvictStep == ASSUME LifeIInv, ShrinkEvict PROVE LifeIInv'
<1>1. LifeTypes /\ Control /\ shr \in Shrinkers
  BY DEF LifeIInv, LifeTypes
<1>2. PICK b \in Blob : b = shr.blob
  BY <1>1 DEF ShrinkEvict, Control, Shrinkers
<1>3. /\ shr.pc = "have" /\ installed = b /\ installed' = NoBlob
      /\ obj' = Unlist(obj, b)
      /\ grace' = [grace EXCEPT ![b] = [phase |-> "rcu", wait |-> InRcu]]
      /\ outlived' = (outlived \/ HeldByReaddir(b)) /\ shr' = [shr EXCEPT !.pc = "put"]
      /\ UNCHANGED <<newest, alloc, gate, th, job, stale, freedHeld>>
  BY <1>2 DEF ShrinkEvict
<1>4. shr' \in Shrinkers /\ shr'.blob = shr.blob /\ shr'.pc = "put"
  BY <1>1, <1>3 DEF Shrinkers
<1>5. outlived' \in BOOLEAN /\ (~outlived' => ~outlived /\ ~HeldByReaddir(b))
  BY <1>3
<1>6. shr.pc = "idle" <=> shr'.pc = "idle"
  BY <1>3, <1>4
<1> QED
  BY <1>3, <1>4, <1>5, <1>6, Evicts

LEMMA ForgetStep == ASSUME LifeIInv, Forget PROVE LifeIInv'
<1>1. LifeTypes /\ Control
  BY DEF LifeIInv
<1>2. /\ \A t \in Thread : th[t].pc = "idle"
      /\ installed' = NoBlob
      /\ UNCHANGED <<newest, alloc, gate, th, shr, job, stale, freedHeld, outlived>>
  BY DEF Forget
<1>3. CASE installed = NoBlob
  <2>1. UNCHANGED <<obj, installed, grace>>
    BY <1>2, <1>3 DEF Forget
  <2> QED
    BY <1>2, <2>1, LifeKept
<1>4. CASE installed # NoBlob
  <2>1. PICK b \in Blob : b = installed
    BY <1>1, <1>4 DEF LifeTypes
  <2>2. /\ obj' = Unlist(obj, b)
        /\ grace' = [grace EXCEPT ![b] = [phase |-> "rcu", wait |-> InRcu]]
    BY <1>4, <2>1 DEF Forget
  <2>3. outlived' \in BOOLEAN /\ ~HeldByReaddir(b)
    BY <1>1, <1>2 DEF HeldByReaddir, LifeTypes
  <2>4. shr' \in Shrinkers
    BY <1>1, <1>2 DEF LifeTypes
  <2> QED
    BY <1>2, <2>1, <2>2, <2>3, <2>4, Evicts
<1> QED
  BY <1>3, <1>4

(* The grace period of an eviction moves on.                               *)
LEMMA GraceMoves ==
  ASSUME LifeIInv, NEW b \in Blob, NEW g \in Graces,
         grace' = [grace EXCEPT ![b] = g], grace[b].phase # "none",
         grace[b].wait = {}, g.phase # "rcu",
         grace[b].phase = "rcu" => g = [phase |-> "srcu", wait |-> InSrcu],
         obj' \in [Blob -> Blobs],
         RefsRight => (\A c \in Blob : Counted(c)') /\ GenKept,
         UNCHANGED <<installed, newest, alloc, gate, th, shr, job, stale,
                     freedHeld, outlived>>
  PROVE  LifeIInv'
<1>1. LifeTypes /\ Control /\ grace \in [Blob -> Graces]
  BY DEF LifeIInv, LifeTypes
<1>2. grace'[b] = g /\ \A c \in Blob \ {b} : grace'[c] = grace[c]
  BY <1>1
<1>3. LifeTypes'
  <2>1. grace' \in [Blob -> Graces]
    BY <1>1
  <2> QED
    BY <1>1, <2>1 DEF LifeTypes
<1>4. Control'
  BY <1>1 DEF Control
<1>5. ASSUME RefsRight PROVE RefsRight'
  <2>1. \A c \in Blob : Private(c) => Private(c)'
    BY <1>2 DEF Private
  <2>2. \A c \in Blob : installed' = c => grace'[c].phase = "none"
    BY <1>2, <1>5 DEF RefsRight
  <2>3. ASSUME NEW t \in Thread, th'[t].pc = "parsed"
        PROVE  /\ Private(th[t].blob)'
               /\ \A j \in Job : job'[j].new # th'[t].blob
               /\ \A u \in Thread \ {t} : th'[u].blob # th'[t].blob
    <3>1. PICK c : c = th[t].blob
      OBVIOUS
    <3>2. c \in Blob
      BY <1>1, <2>3, <3>1 DEF LifeTypes, Control, ThreadState
    <3>3. Private(c)'
      BY <1>5, <2>1, <2>3, <3>1, <3>2 DEF RefsRight
    <3> QED
      BY <1>5, <2>3, <3>1, <3>3 DEF RefsRight, Private
  <2>4. ASSUME NEW j \in Job, job'[j].new # NoBlob
        PROVE  Private(job[j].new)' /\ \A t \in Thread : th'[t].blob # job'[j].new
    <3>1. PICK c : c = job[j].new
      OBVIOUS
    <3>2. c \in Blob
      BY <1>1, <2>4, <3>1 DEF LifeTypes, JobState
    <3>3. Private(c)'
      BY <1>5, <2>1, <2>4, <3>1, <3>2 DEF RefsRight
    <3> QED
      BY <1>5, <2>4, <3>1, <3>3 DEF RefsRight, Private
  <2>5. ASSUME NEW t \in Thread, NEW c \in Blob
        PROVE  /\ InRcuOn(t, c)' => RcuCovered(t, c)'
               /\ InSrcuOn(t, c)' => SrcuCovered(t, c)'
    <3>1. /\ InRcuOn(t, c) => RcuCovered(t, c)
          /\ InSrcuOn(t, c) => SrcuCovered(t, c)
      BY <1>5 DEF RefsRight
    <3>2. InSrcuOn(t, c) => t \in InSrcu
      BY DEF InSrcuOn, InSrcu
    <3>3. CASE c = b
      <4>1. InRcuOn(t, c)' => RcuCovered(t, c)'
        BY <3>1, <3>3 DEF InRcuOn, RcuCovered, JobKeepsRcu
      <4>2. CASE grace[b].phase = "rcu"
        <5>1. g.phase = "srcu" /\ g.wait = InSrcu
          BY <4>2
        <5> QED
          BY <1>2, <3>2, <3>3, <4>1, <5>1 DEF InSrcuOn, SrcuCovered
      <4>3. CASE grace[b].phase # "rcu"
        BY <3>1, <3>3, <4>1, <4>3 DEF InSrcuOn, SrcuCovered, JobKeepsSrcu
      <4> QED
        BY <4>2, <4>3
    <3>4. CASE c # b
      BY <1>2, <3>1, <3>4 DEF InRcuOn, InSrcuOn, RcuCovered, SrcuCovered,
                              JobKeepsRcu, JobKeepsSrcu
    <3> QED
      BY <3>3, <3>4
  <2> QED
    BY <1>5, <2>2, <2>3, <2>4, <2>5 DEF RefsRight
<1>6. ASSUME RefsRight, Drained PROVE Drained'
  BY <1>1, <1>3, <1>4, <1>5, <1>6, DrainedFrame
<1> QED
  BY <1>3, <1>4, <1>5, <1>6 DEF LifeIInv

LEMMA GraceRcuStep ==
  ASSUME LifeIInv, NEW b \in Blob, GraceRcu(b) PROVE LifeIInv'
<1>1. LifeTypes /\ grace \in [Blob -> Graces]
  BY DEF LifeIInv, LifeTypes
<1> DEFINE g == [phase |-> "srcu", wait |-> InSrcu]
<1>2. /\ grace[b].phase = "rcu" /\ grace[b].wait = {}
      /\ grace' = [grace EXCEPT ![b] = g]
      /\ UNCHANGED <<obj, installed, newest, alloc, gate, th, shr, job, stale,
                     freedHeld, outlived>>
  BY DEF GraceRcu
<1>3. g \in Graces /\ g.phase = "srcu"
  BY DEF Graces, InSrcu
<1>4. \A c \in Blob : grace'[c].phase # "none" <=> grace[c].phase # "none"
  BY <1>1, <1>2
<1>5. \A c \in Blob : RefCount(c)' = RefCount(c)
  BY <1>2, <1>4 DEF RefCount, OtherRefs, One, JobRefs, Holding
<1>6. RefsRight => (\A c \in Blob : Counted(c)') /\ GenKept
  BY <1>2, <1>5, CountSame DEF RefsRight
<1>7. obj' \in [Blob -> Blobs]
  BY <1>1, <1>2 DEF LifeTypes
<1> HIDE DEF g
<1>8. g = [phase |-> "srcu", wait |-> InSrcu]
  BY DEF g
<1> QED
  BY <1>2, <1>3, <1>6, <1>7, <1>8, GraceMoves

LEMMA GraceSrcuStep ==
  ASSUME LifeIInv, NEW b \in Blob, GraceSrcu(b) PROVE LifeIInv'
<1>1. LifeTypes /\ grace \in [Blob -> Graces] /\ obj \in [Blob -> Blobs]
  BY DEF LifeIInv, LifeTypes
<1>2. /\ grace[b].phase = "srcu" /\ grace[b].wait = {}
      /\ grace' = [grace EXCEPT ![b] = NoGrace]
      /\ obj' = Put(obj, b)
      /\ UNCHANGED <<installed, newest, alloc, gate, th, shr, job, stale,
                     freedHeld, outlived>>
  BY DEF GraceSrcu
<1>3. NoGrace \in Graces /\ NoGrace.phase = "none"
  BY DEF Graces, NoGrace
<1>4. /\ grace'[b].phase = "none"
      /\ \A c \in Blob \ {b} : grace'[c].phase = grace[c].phase
  BY <1>1, <1>2, <1>3
<1>5. ASSUME NEW c \in Blob
      PROVE  /\ RefCount(c)' - OtherRefs(c)' = RefCount(c) - OtherRefs(c)
             /\ RefCount(c) \in Nat /\ RefCount(c)' \in Nat
             /\ OtherRefs(c) \in Nat /\ OtherRefs(c)' \in Nat
  BY <1>2, CountOthers, CountNat DEF OtherRefs, One
<1>6. /\ OtherRefs(b)' = OtherRefs(b) - 1
      /\ \A c \in Blob \ {b} : OtherRefs(c)' = OtherRefs(c)
  BY <1>2, <1>4 DEF OtherRefs, One
<1>7. /\ RefCount(b)' = RefCount(b) - 1
      /\ \A c \in Blob \ {b} : RefCount(c)' = RefCount(c)
  BY <1>5, <1>6
<1>8. RefsRight => (\A c \in Blob : Counted(c)') /\ GenKept
  BY <1>1, <1>2, <1>7, CountPut DEF RefsRight
<1>9. obj' \in [Blob -> Blobs]
  BY <1>1, <1>2, PutIs
<1> QED
  BY <1>2, <1>3, <1>8, <1>9, GraceMoves

-----------------------------------------------------------------------------
(* The steps of the invariant: lookups, listings and parses.               *)
LEMMA ReadersStep ==
  ASSUME LifeIInv, NEW t \in Thread,
         LookupRcu(t) \/ LookupSrcu(t) \/ LookupDone(t) \/ ReaddirLoad(t)
  PROVE  LifeIInv'
<1>1. LifeTypes
  BY DEF LifeIInv
<1>2. AtRest \in ThreadState /\ AtRest.pc = "idle" /\ AtRest.blob = NoBlob
  BY DEF AtRest, ThreadState
<1>3. CASE LookupRcu(t)
  <2> DEFINE r == [pc |-> IF obj[installed].pinned THEN "rcuRead" ELSE "rcu",
                   blob |-> installed]
  <2>1. /\ th[t].pc = "idle" /\ installed # NoBlob /\ th' = [th EXCEPT ![t] = r]
        /\ UNCHANGED <<obj, installed, newest, alloc, gate, grace, shr, job,
                       stale, freedHeld, outlived>>
    BY <1>3 DEF LookupRcu
  <2>2. r \in ThreadState /\ r.pc \in {"rcu", "rcuRead"} /\ r.blob = installed
    BY <1>1 DEF ThreadState, LifeTypes
  <2> HIDE DEF r
  <2>3. WaitsLeft(t)
    BY <1>1, <2>1, LeaveLeaves
  <2> QED
    BY <2>1, <2>2, <2>3, ReaderMoves
<1>4. CASE LookupSrcu(t)
  <2> DEFINE r == IF installed = NoBlob THEN AtRest
                  ELSE [pc |-> "srcuRead", blob |-> installed]
  <2>1. /\ th[t].pc = "rcu" /\ th' = [th EXCEPT ![t] = r] /\ Leave(t)
        /\ UNCHANGED <<obj, installed, newest, alloc, gate, shr, stale,
                       freedHeld, outlived>>
    BY <1>4 DEF LookupSrcu
  <2>2. /\ r \in ThreadState /\ r.pc \in {"idle", "srcuRead"} /\ r.blob = installed
        /\ r.pc = "idle" <=> r.blob = NoBlob
    BY <1>1, <1>2 DEF ThreadState, LifeTypes
  <2> HIDE DEF r
  <2>3. WaitsLeft(t)
    BY <1>1, <2>1, LeaveLeaves
  <2> QED
    BY <2>1, <2>2, <2>3, ReaderMoves
<1>5. CASE LookupDone(t)
  <2>1. /\ th[t].pc \in {"rcuRead", "srcuRead"} /\ th' = [th EXCEPT ![t] = AtRest]
        /\ Leave(t)
        /\ UNCHANGED <<obj, installed, newest, alloc, gate, shr, stale,
                       freedHeld, outlived>>
    BY <1>5 DEF LookupDone
  <2>2. WaitsLeft(t)
    BY <1>1, <2>1, LeaveLeaves
  <2> QED
    BY <1>2, <2>1, <2>2, ReaderMoves
<1>6. CASE ReaddirLoad(t)
  <2> DEFINE r == [pc |-> "refLoad", blob |-> installed]
  <2>1. /\ th[t].pc = "idle" /\ installed # NoBlob /\ th' = [th EXCEPT ![t] = r]
        /\ UNCHANGED <<obj, installed, newest, alloc, gate, grace, shr, job,
                       stale, freedHeld, outlived>>
    BY <1>6 DEF ReaddirLoad
  <2>2. r \in ThreadState /\ r.pc = "refLoad" /\ r.blob = installed
    BY <1>1 DEF ThreadState, LifeTypes
  <2> HIDE DEF r
  <2>3. WaitsLeft(t)
    BY <1>1, <2>1, LeaveLeaves
  <2> QED
    BY <2>1, <2>2, <2>3, ReaderMoves
<1> QED
  BY <1>3, <1>4, <1>5, <1>6

(* A thread that holds a reference after its step, or is done.             *)
LEMMA CoversThread ==
  ASSUME LifeTypes, Control, RefsRight, \A b \in Blob : Counted(b)', NEW t \in Thread,
         NEW r \in ThreadState, th' = [th EXCEPT ![t] = r], WaitsLeft(t),
         UNCHANGED installed,
         r.pc \in {"idle", "refRead", "parsed"},
         \/ r.blob = NoBlob /\ r.pc = "idle"
         \/ r.blob = th[t].blob /\ r.pc = "refRead" /\ th[t].pc # "parsed"
         \/ /\ r.pc = "parsed" /\ r.blob \in Blob /\ Private(r.blob)
            /\ \A j \in Job : job[j].new # r.blob
            /\ \A u \in Thread \ {t} : th[u].blob # r.blob
  PROVE  RefsRight'
<1>1. th'[t] = r /\ \A u \in Thread \ {t} : th'[u] = th[u]
  BY DEF LifeTypes
<1>2. \A b \in Blob : installed' = b => grace'[b].phase = "none"
  BY DEF RefsRight, WaitsLeft
<1>3. ASSUME NEW u \in Thread, th'[u].pc = "parsed"
      PROVE  /\ Private(th[u].blob)'
             /\ \A j \in Job : job'[j].new # th'[u].blob
             /\ \A v \in Thread \ {u} : th'[v].blob # th'[u].blob
  <2>1. CASE u = t
    <3>1. r.pc = "parsed" /\ r.blob \in Blob
      BY <1>1, <1>3, <2>1
    <3>2. /\ Private(r.blob)
          /\ \A j \in Job : job[j].new # r.blob
          /\ \A v \in Thread \ {t} : th[v].blob # r.blob
      BY <3>1
    <3>3. installed # r.blob /\ \A j \in Job : job'[j].old # r.blob /\ job'[j].new # r.blob
      BY <3>2 DEF Private, WaitsLeft
    <3>4. grace'[r.blob].phase = "none"
      BY <3>1, <3>2 DEF Private, WaitsLeft
    <3> QED
      BY <1>1, <2>1, <3>2, <3>3, <3>4 DEF Private
  <2>2. CASE u # t
    <3>1. /\ th'[u] = th[u] /\ th[u].pc = "parsed"
          /\ th[u].blob \in Blob
      BY <1>1, <1>3, <2>2 DEF LifeTypes, Control, ThreadState
    <3>2. /\ Private(th[u].blob) /\ \A j \in Job : job[j].new # th[u].blob
          /\ \A v \in Thread \ {u} : th[v].blob # th[u].blob
      BY <3>1 DEF RefsRight
    <3>3. r.blob # th[u].blob
      BY <2>2, <3>1, <3>2, BlobLifetimeAssumption
    <3> QED
      BY <1>1, <2>2, <3>1, <3>2, <3>3 DEF Private, WaitsLeft
  <2> QED
    BY <2>1, <2>2
<1>4. ASSUME NEW j \in Job, job'[j].new # NoBlob
      PROVE  Private(job[j].new)' /\ \A u \in Thread : th'[u].blob # job'[j].new
  <2>1. job'[j].new = job[j].new /\ job[j].new \in Blob
    BY <1>4 DEF WaitsLeft, LifeTypes, JobState
  <2>2. Private(job[j].new) /\ \A u \in Thread : th[u].blob # job[j].new
    BY <1>4, <2>1 DEF RefsRight
  <2>3. r.blob # job[j].new
    BY <2>1, <2>2, BlobLifetimeAssumption
  <2> QED
    BY <1>1, <2>1, <2>2, <2>3 DEF WaitsLeft, Private
<1>5. ASSUME NEW u \in Thread, NEW b \in Blob
      PROVE  /\ InRcuOn(u, b)' => RcuCovered(u, b)'
             /\ InSrcuOn(u, b)' => SrcuCovered(u, b)'
  <2>1. CASE u = t
    BY <1>1, <2>1 DEF InRcuOn, InSrcuOn
  <2>2. CASE u # t
    <3>1. /\ InRcuOn(u, b)' <=> InRcuOn(u, b)
          /\ InSrcuOn(u, b)' <=> InSrcuOn(u, b)
      BY <1>1, <2>2 DEF InRcuOn, InSrcuOn
    <3>2. \A j \in Job : /\ JobKeepsRcu(j, u) => JobKeepsRcu(j, u)'
                         /\ JobKeepsSrcu(j, u) => JobKeepsSrcu(j, u)'
      BY <2>2 DEF JobKeepsRcu, JobKeepsSrcu, WaitsLeft
    <3>3. /\ RcuCovered(u, b) => RcuCovered(u, b)'
          /\ SrcuCovered(u, b) => SrcuCovered(u, b)'
      BY <2>2, <3>2 DEF RcuCovered, SrcuCovered, WaitsLeft
    <3> QED
      BY <3>1, <3>3 DEF RefsRight
  <2> QED
    BY <2>1, <2>2
<1> QED
  BY <1>2, <1>3, <1>4, <1>5 DEF RefsRight

HoldsRef(r, c) == r.blob = c /\ r.pc \in {"parsed", "refRead"}

LEMMA HoldingThread ==
  ASSUME LifeTypes, NEW t \in Thread, NEW r \in ThreadState, NEW c \in Blob,
         th' = [th EXCEPT ![t] = r]
  PROVE  Cardinality(Holding(c))' - One(HoldsRef(r, c))
           = Cardinality(Holding(c)) - One(HoldsRef(th[t], c))
<1> DEFINE H == Holding(c)
           G == Holding(c)'
<1>1. th'[t] = r /\ \A u \in Thread \ {t} : th'[u] = th[u]
  BY DEF LifeTypes
<1>2. /\ t \in H <=> HoldsRef(th[t], c)
      /\ t \in G <=> HoldsRef(r, c)
      /\ G \ {t} = H \ {t}
  BY <1>1 DEF Holding, HoldsRef
<1>3. Cardinality(G) - One(HoldsRef(r, c)) = Cardinality(H) - One(HoldsRef(th[t], c))
  <2>1. IsFiniteSet(H) /\ Cardinality(H) \in Nat
    BY HoldingIs
  <2>2. IsFiniteSet(H \ {t}) /\ Cardinality(H \ {t}) \in Nat
    BY <2>1, FS_RemoveElement, FS_CardinalityType, FS_Subset
  <2>3. /\ t \in H => Cardinality(H) = Cardinality(H \ {t}) + 1
        /\ t \notin H => H = H \ {t}
    BY <2>1, <2>2, HoldingIs
  <2>4. /\ t \in G => Cardinality(G) = Cardinality(H \ {t}) + 1
        /\ t \notin G => G = H \ {t}
    <3>1. t \in G => G = (H \ {t}) \cup {t}
      BY <1>2
    <3>2. t \notin H \ {t}
      OBVIOUS
    <3>3. t \in G => Cardinality(G) = Cardinality(H \ {t}) + 1
      BY <2>2, <3>1, <3>2, FS_AddElement
    <3>4. t \notin G => G = H \ {t}
      BY <1>2
    <3> QED
      BY <3>3, <3>4
  <2> HIDE DEF H, G
  <2>5. /\ Cardinality(H) = Cardinality(H \ {t}) + One(t \in H)
        /\ Cardinality(G) = Cardinality(H \ {t}) + One(t \in G)
    <3> DEFINE n == Cardinality(H \ {t})
    <3>2. t \in H => Cardinality(H) = n + One(t \in H)
      BY <2>3 DEF One
    <3>3. t \notin H => Cardinality(H) = n /\ One(t \in H) = 0
      BY <2>3 DEF One
    <3>4. t \in G => Cardinality(G) = n + One(t \in G)
      BY <2>4 DEF One
    <3>5. t \notin G => Cardinality(G) = n /\ One(t \in G) = 0
      BY <2>4 DEF One
    <3>6. n \in Nat
      BY <2>2
    <3> HIDE DEF n
    <3>7. t \notin H => Cardinality(H) = n + One(t \in H)
      BY <3>3, <3>6
    <3>8. t \notin G => Cardinality(G) = n + One(t \in G)
      BY <3>5, <3>6
    <3> QED
      BY <3>2, <3>4, <3>7, <3>8 DEF n
  <2>6. One(t \in H) = One(HoldsRef(th[t], c)) /\ One(t \in G) = One(HoldsRef(r, c))
    BY <1>2 DEF One
  <2> QED
    BY <2>2, <2>5, <2>6 DEF One
<1> QED
  BY <1>3

(* A step of one thread changes what that thread holds.                    *)
LEMMA CountThread ==
  ASSUME LifeTypes, NEW t \in Thread, NEW r \in ThreadState, NEW c \in Blob,
         th' = [th EXCEPT ![t] = r], WaitsLeft(t), UNCHANGED <<installed, shr>>
  PROVE  /\ RefCount(c)' - One(HoldsRef(r, c)) = RefCount(c) - One(HoldsRef(th[t], c))
         /\ RefCount(c) \in Nat /\ RefCount(c)' \in Nat
<1>1. Cardinality(Holding(c))' - One(HoldsRef(r, c))
        = Cardinality(Holding(c)) - One(HoldsRef(th[t], c))
  BY HoldingThread
<1>2. RefCount(c)' - Cardinality(Holding(c))' = RefCount(c) - Cardinality(Holding(c))
  BY CountThreads DEF WaitsLeft
<1>3. /\ RefCount(c) \in Nat /\ RefCount(c)' \in Nat
      /\ Cardinality(Holding(c)) \in Nat /\ Cardinality(Holding(c))' \in Nat
  BY CountNat, HoldingNat
<1> QED
  BY <1>1, <1>2, <1>3 DEF One

LEMMA ReaddirTakeStep ==
  ASSUME LifeIInv, NEW t \in Thread, ReaddirTake(t) PROVE LifeIInv'
<1>1. LifeTypes /\ Control /\ obj \in [Blob -> Blobs]
  BY DEF LifeIInv, LifeTypes
<1>2. PICK b : b = th[t].blob
  OBVIOUS
<1>3. /\ th[t].pc = "refLoad" /\ Leave(t)
      /\ outlived' = (outlived \/ (obj[b].refs > 0 /\ grace[b].phase # "none"))
      /\ UNCHANGED <<installed, newest, alloc, gate, shr, stale, freedHeld>>
  BY <1>2 DEF ReaddirTake
<1>4. b \in Blob /\ th[t] \in ThreadState
  BY <1>1, <1>2, <1>3 DEF LifeTypes, Control, ThreadState
<1>5. WaitsLeft(t)
  BY <1>1, <1>3, LeaveLeaves
<1>6. CASE obj[b].refs = 0
  <2>1. th' = [th EXCEPT ![t] = AtRest] /\ obj' = obj
    BY <1>2, <1>6 DEF ReaddirTake
  <2>2. AtRest \in ThreadState /\ AtRest.pc = "idle" /\ AtRest.blob = NoBlob
    BY DEF AtRest, ThreadState
  <2>3. outlived' = outlived
    BY <1>1, <1>3, <1>6 DEF LifeTypes
  <2> QED
    BY <1>3, <1>5, <2>1, <2>2, <2>3, ReaderMoves
<1>7. CASE obj[b].refs # 0
  <2> DEFINE r == [pc |-> "refRead", blob |-> b]
  <2>1. th' = [th EXCEPT ![t] = r]
    <3>1. th' = [th EXCEPT ![t].pc = "refRead"]
      BY <1>2, <1>7 DEF ReaddirTake
    <3>2. [th[t] EXCEPT !.pc = "refRead"] = r
      BY <1>2, <1>4 DEF ThreadState
    <3> QED
      BY <3>1, <3>2
  <2>2. obj' = Take(obj, b)
    BY <1>2, <1>7 DEF ReaddirTake
  <2>3. r \in ThreadState /\ r.pc = "refRead" /\ r.blob = b
    BY <1>4 DEF ThreadState
  <2> HIDE DEF r
  <2>4. th'[t] = r /\ \A u \in Thread \ {t} : th'[u] = th[u]
    BY <1>1, <2>1 DEF LifeTypes
  <2>5. LifeTypes'
    <3>1. obj' \in [Blob -> Blobs]
      BY <1>1, <1>4, <2>2, TakeIs
    <3>2. th' \in [Thread -> ThreadState]
      BY <1>1, <2>1, <2>3 DEF LifeTypes
    <3>3. outlived' \in BOOLEAN
      BY <1>1, <1>3 DEF LifeTypes
    <3>4. grace' \in [Blob -> Graces] /\ job' \in [Job -> JobState]
      BY <1>5 DEF WaitsLeft
    <3> QED
      BY <1>1, <1>3, <3>1, <3>2, <3>3, <3>4 DEF LifeTypes
  <2>6. Control'
    <3>1. \A j \in Job : job'[j].pc = job[j].pc /\ job'[j].old = job[j].old /\ job'[j].new = job[j].new
      BY <1>5 DEF WaitsLeft
    <3>2. "compact" \in Job
      BY DEF Job
    <3>3. \A u \in Thread : th'[u].pc = "idle" <=> th'[u].blob = NoBlob
      BY <1>1, <1>4, <2>3, <2>4, BlobLifetimeAssumption DEF Control
    <3> QED
      BY <1>1, <1>3, <3>1, <3>2, <3>3 DEF Control
  <2>7. ASSUME RefsRight PROVE RefsRight' /\ GenKept
    <3>1. obj[b].live
      BY <1>1, <1>2, <1>4, <2>7, UsedIsLive, BlobLifetimeAssumption DEF PointersLive, InUse
    <3>2. \A c \in Blob : /\ One(HoldsRef(th[t], c)) = 0
                          /\ One(HoldsRef(r, c)) = IF c = b THEN 1 ELSE 0
      BY <1>3, <2>3 DEF HoldsRef, One
    <3>3. /\ RefCount(b)' = RefCount(b) + 1
          /\ \A c \in Blob \ {b} : RefCount(c)' = RefCount(c)
      <4>1. ASSUME NEW c \in Blob
            PROVE  /\ RefCount(c)' - One(HoldsRef(r, c)) = RefCount(c)
                   /\ RefCount(c) \in Nat /\ RefCount(c)' \in Nat
        <5>1. /\ RefCount(c)' - One(HoldsRef(r, c)) = RefCount(c) - One(HoldsRef(th[t], c))
              /\ RefCount(c) \in Nat /\ RefCount(c)' \in Nat
          BY <1>1, <1>3, <1>5, <2>1, <2>3, CountThread
        <5> QED
          BY <3>2, <5>1
      <4> QED
        BY <1>4, <3>2, <4>1
    <3>4. (\A c \in Blob : Counted(c)') /\ GenKept
      BY <1>1, <1>4, <2>2, <2>7, <3>1, <3>3, CountTake DEF RefsRight
    <3> QED
      BY <1>1, <1>2, <1>3, <1>5, <2>1, <2>3, <2>7, <3>4, CoversThread
  <2>8. ASSUME RefsRight, Drained, ~outlived' PROVE Drained'
    <3>1. PointersLive /\ PointersLive' /\ GenKept
      BY <1>1, <2>5, <2>6, <2>7, <2>8, UsedIsLive, UsedIsLiveNext
    <3>2. \A j \in Job : /\ job'[j].pc = job[j].pc /\ job'[j].old = job[j].old
                         /\ job'[j].new = job[j].new
                         /\ Retiring(j)' <=> Retiring(j)
                         /\ Published(j)' <=> Published(j)
      BY <1>5 DEF WaitsLeft, Retiring, Published
    <3>3. "compact" \in Job /\ "demote" \in Job
      BY DEF Job
    <3>4. \A c \in Blob : obj'[c].gen = obj[c].gen
      BY <1>1, <1>4, <2>2, TakeIs
    <3>5. \A u \in Thread : th'[u].pc # "idle" => GenOf(u)' = GenOf(u)
      <4>1. \A u \in Thread : th'[u].blob = th[u].blob
        BY <1>2, <2>3, <2>4
      <4>2. \A u \in Thread : th'[u].pc # "idle" => th'[u].blob \in Blob
        BY <2>5, <2>6 DEF LifeTypes, Control, ThreadState
      <4> QED
        BY <3>4, <4>1, <4>2 DEF GenOf
    <3>6. \A j \in Job : /\ job[j].old # NoBlob => obj'[job[j].old].gen = obj[job[j].old].gen
                         /\ job[j].new # NoBlob => obj'[job[j].new].gen = obj[job[j].new].gen
      BY <3>1, <3>4 DEF PointersLive, InUse
    <3>7. installed # NoBlob => newest' > 0 /\ obj'[installed].gen = newest'
      BY <1>3, <2>8, <3>1, <3>4 DEF PointersLive, InUse, Drained
    <3>8. ASSUME NEW j \in Job, Retiring(j), NEW u \in Thread PROVE Waited(j, u)'
      <4>1. job[j].old # NoBlob
        BY <1>1, <3>8 DEF Retiring, Control
      <4>2. CASE u = t
        BY <2>3, <2>4, <4>2 DEF Waited
      <4>3. CASE u # t
        <5>1. /\ JobKeepsRcu(j, u) => JobKeepsRcu(j, u)'
              /\ JobKeepsSrcu(j, u) => JobKeepsSrcu(j, u)'
          BY <1>5, <4>3 DEF JobKeepsRcu, JobKeepsSrcu, WaitsLeft
        <5>2. Waited(j, u)
          BY <2>8, <3>8 DEF Drained
        <5>3. obj'[job'[j].old].gen = obj[job[j].old].gen
          BY <3>2, <3>6, <4>1
        <5> QED
          BY <2>4, <3>5, <4>3, <5>1, <5>2, <5>3 DEF Waited
      <4> QED
        BY <4>2, <4>3
    <3>9. \A j \in Job : Retiring(j)' => /\ obj'[job'[j].old].gen # newest'
                                         /\ \A u \in Thread : Waited(j, u)'
      <4>1. \A j \in Job : Retiring(j) => job[j].old # NoBlob
        BY <1>1 DEF Retiring, Control
      <4> QED
        BY <1>3, <2>8, <3>2, <3>6, <3>8, <4>1 DEF Drained
    <3>10. ASSUME NEW u \in Thread, th'[u].pc = "refRead"
           PROVE  \/ installed' = th'[u].blob
                  \/ \E j \in Job : Retiring(j)' /\ job'[j].old = th'[u].blob
      <4>1. CASE u = t
        <5>1. RcuCovered(t, b)
          BY <1>2, <1>3, <1>4, <2>8 DEF RefsRight, InRcuOn
        <5>2. grace[b].phase = "none"
          <6>1. obj[b].refs > 0
            BY <1>1, <1>4, <1>7 DEF Blobs
          <6> QED
            BY <1>3, <2>8, <6>1
        <5>3. installed = b \/ \E j \in Job : job[j].old = b /\ Retiring(j)
          BY <5>1, <5>2 DEF RcuCovered, JobKeepsRcu, Retiring
        <5> QED
          BY <1>3, <2>3, <2>4, <3>2, <4>1, <5>3
      <4>2. CASE u # t
        BY <1>3, <2>4, <2>8, <3>2, <3>10, <4>2 DEF Drained
      <4> QED
        BY <4>1, <4>2
    <3>11. \A u \in Thread : th'[u].pc \in {"rcuRead", "srcuRead", "refLoad", "refRead"}
                               => GenOf(u)' \in alloc'
      <4>1. \A u \in Thread : th'[u].pc \in {"rcuRead", "srcuRead", "refLoad", "refRead"}
                                => th[u].pc \in {"rcuRead", "srcuRead", "refLoad", "refRead"}
        BY <1>3, <2>4
      <4> QED
        BY <1>3, <2>8, <3>5, <4>1 DEF Drained
    <3>12. newest' > 0 => newest' \in alloc'
      BY <1>3, <2>8 DEF Drained
    <3>13. job'["compact"].pc = "publish" =>
             obj'[job'["compact"].new].gen = newest' + 1 /\ newest' + 1 \in alloc'
      BY <1>1, <1>3, <2>8, <3>2, <3>3, <3>6 DEF Drained, Control
    <3>14. newest' = 0 => job'["compact"].pc = "idle"
      BY <1>3, <2>8, <3>2, <3>3 DEF Drained
    <3>15. Published("demote")' => newest' = 0
      BY <1>3, <2>8, <3>2, <3>3 DEF Drained
    <3>16. installed' # NoBlob => newest' > 0 /\ obj'[installed'].gen = newest'
      BY <1>3, <3>7
    <3>17. \A u \in Thread : th'[u].pc = "parsed" => GenOf(u)' > 0
      BY <2>3, <2>4, <2>8, <3>5 DEF Drained
    <3> QED
      BY <3>17, <3>9, <3>10, <3>11, <3>12, <3>13, <3>14, <3>15, <3>16 DEF Drained
  <2> QED
    BY <1>3, <2>5, <2>6, <2>7, <2>8 DEF LifeIInv
<1> QED
  BY <1>6, <1>7

LEMMA ReaddirDoneStep ==
  ASSUME LifeIInv, NEW t \in Thread, ReaddirDone(t) PROVE LifeIInv'
<1>1. LifeTypes /\ Control /\ obj \in [Blob -> Blobs]
  BY DEF LifeIInv, LifeTypes
<1>2. PICK b : b = th[t].blob
  OBVIOUS
<1>3. /\ th[t].pc = "refRead" /\ obj' = Put(obj, b) /\ th' = [th EXCEPT ![t] = AtRest]
      /\ UNCHANGED <<installed, newest, alloc, gate, grace, shr, job, stale,
                     freedHeld, outlived>>
  BY <1>2 DEF ReaddirDone
<1>4. b \in Blob /\ th[t] \in ThreadState
  BY <1>1, <1>2, <1>3 DEF LifeTypes, Control, ThreadState
<1>5. WaitsLeft(t)
  BY <1>1, <1>3, LeaveLeaves
<1>6. AtRest \in ThreadState /\ AtRest.pc = "idle" /\ AtRest.blob = NoBlob
  BY DEF AtRest, ThreadState
<1>7. th'[t] = AtRest /\ \A u \in Thread \ {t} : th'[u] = th[u]
  BY <1>1, <1>3 DEF LifeTypes
<1>8. LifeTypes'
  <2>1. obj' \in [Blob -> Blobs]
    BY <1>1, <1>3, <1>4, PutIs
  <2>2. th' \in [Thread -> ThreadState]
    BY <1>1, <1>3, <1>6 DEF LifeTypes
  <2> QED
    BY <1>1, <1>3, <2>1, <2>2 DEF LifeTypes
<1>9. Control'
  BY <1>1, <1>3, <1>6, <1>7 DEF Control
<1>10. ASSUME RefsRight PROVE RefsRight' /\ GenKept
  <2>1. \A c \in Blob : /\ One(HoldsRef(AtRest, c)) = 0
                        /\ One(HoldsRef(th[t], c)) = IF c = b THEN 1 ELSE 0
    BY <1>2, <1>3, <1>6 DEF HoldsRef, One
  <2>2. /\ RefCount(b)' = RefCount(b) - 1
        /\ \A c \in Blob \ {b} : RefCount(c)' = RefCount(c)
    <3>1. ASSUME NEW c \in Blob
          PROVE  /\ RefCount(c)' = RefCount(c) - One(HoldsRef(th[t], c))
                 /\ RefCount(c) \in Nat /\ RefCount(c)' \in Nat
      <4>1. /\ RefCount(c)' - One(HoldsRef(AtRest, c)) = RefCount(c) - One(HoldsRef(th[t], c))
            /\ RefCount(c) \in Nat /\ RefCount(c)' \in Nat
        BY <1>1, <1>3, <1>5, <1>6, CountThread
      <4> QED
        BY <2>1, <4>1
    <3> QED
      BY <1>4, <2>1, <3>1
  <2>3. (\A c \in Blob : Counted(c)') /\ GenKept
    BY <1>1, <1>3, <1>4, <1>10, <2>2, CountPut DEF RefsRight
  <2> QED
    BY <1>1, <1>3, <1>5, <1>6, <1>10, <2>3, CoversThread
<1>11. ASSUME RefsRight, Drained PROVE Drained'
  BY <1>1, <1>3, <1>6, <1>7, <1>8, <1>9, <1>10, <1>11, DrainedFrame
<1> QED
  BY <1>3, <1>8, <1>9, <1>10, <1>11 DEF LifeIInv

LEMMA EnsureParsesStep ==
  ASSUME LifeIInv, NEW t \in Thread, NEW b \in Blob, EnsureParses(t, b) PROVE LifeIInv'
<1> DEFINE r == [pc |-> "parsed", blob |-> b]
<1>1. LifeTypes /\ Control /\ obj \in [Blob -> Blobs]
  BY DEF LifeIInv, LifeTypes
<1>2. /\ newest > 0 /\ th[t].pc = "idle" /\ Unused(b) /\ Fresh(b, newest, TRUE)
      /\ th' = [th EXCEPT ![t] = r]
      /\ UNCHANGED <<installed, newest, alloc, gate, grace, shr, job, stale,
                     freedHeld, outlived>>
  BY DEF EnsureParses
<1>3. /\ obj' \in [Blob -> Blobs] /\ obj'[b].refs = 1 /\ obj'[b].live = TRUE
      /\ obj'[b].gen = newest
      /\ \A c \in Blob \ {b} : obj'[c] = obj[c]
  <2>1. newest \in Gen
    BY <1>1 DEF LifeTypes
  <2> QED
    BY <1>1, <1>2, <2>1, FreshIs
<1>4. r \in ThreadState /\ r.pc = "parsed" /\ r.blob = b
  BY DEF ThreadState
<1> HIDE DEF r
<1>5. WaitsLeft(t)
  BY <1>1, <1>2, LeaveLeaves
<1>6. th'[t] = r /\ \A u \in Thread \ {t} : th'[u] = th[u]
  BY <1>1, <1>2 DEF LifeTypes
<1>7. LifeTypes'
  <2>1. th' \in [Thread -> ThreadState]
    BY <1>1, <1>2, <1>4 DEF LifeTypes
  <2> QED
    BY <1>1, <1>2, <1>3, <2>1 DEF LifeTypes
<1>8. Control'
  BY <1>1, <1>2, <1>4, <1>6, BlobLifetimeAssumption DEF Control
<1>9. ~obj[b].live /\ GenKept
  BY <1>2, <1>3 DEF Unused, GenKept
<1>10. ASSUME RefsRight PROVE RefsRight'
  <2>1. RefCount(b) = 0 /\ installed # b /\ grace[b].phase = "none"
    BY <1>1, <1>9, <1>10, CountIs, CountNat DEF RefsRight
  <2>2. \A c \in Blob : /\ One(HoldsRef(th[t], c)) = 0
                        /\ One(HoldsRef(r, c)) = IF c = b THEN 1 ELSE 0
    BY <1>2, <1>4 DEF HoldsRef, One
  <2>3. /\ RefCount(b)' = 1
        /\ \A c \in Blob \ {b} : RefCount(c)' = RefCount(c)
    <3>1. ASSUME NEW c \in Blob
          PROVE  /\ RefCount(c)' - One(HoldsRef(r, c)) = RefCount(c)
                 /\ RefCount(c) \in Nat /\ RefCount(c)' \in Nat
      <4>1. /\ RefCount(c)' - One(HoldsRef(r, c)) = RefCount(c) - One(HoldsRef(th[t], c))
            /\ RefCount(c) \in Nat /\ RefCount(c)' \in Nat
        BY <1>1, <1>2, <1>4, <1>5, CountThread
      <4> QED
        BY <2>2, <4>1
    <3> QED
      BY <2>1, <2>2, <3>1
  <2>4. \A c \in Blob : Counted(c)'
    <3>1. Counted(b)'
      BY <1>3, <2>3 DEF Counted
    <3>2. \A c \in Blob \ {b} : Counted(c)'
      BY <1>3, <1>10, <2>3 DEF Counted, RefsRight
    <3> QED
      BY <3>1, <3>2
  <2>5. /\ Private(b) /\ \A j \in Job : job[j].new # b
        /\ \A u \in Thread \ {t} : th[u].blob # b
    BY <1>2, <2>1 DEF Unused, Private
  <2> QED
    BY <1>1, <1>2, <1>4, <1>5, <1>10, <2>4, <2>5, CoversThread
<1>11. ASSUME RefsRight, Drained PROVE Drained'
  <2>1. \A u \in Thread :
          \/ th'[u] = th[u]
          \/ th'[u].pc = "parsed" /\ obj'[th'[u].blob].gen > 0
    BY <1>2, <1>3, <1>4, <1>6
  <2> QED
    BY <1>1, <1>2, <1>7, <1>8, <1>9, <1>10, <1>11, <2>1, DrainedFrame
<1> QED
  BY <1>2, <1>7, <1>8, <1>10, <1>11 DEF LifeIInv

LEMMA EnsureInstallsStep ==
  ASSUME LifeIInv, NEW t \in Thread, EnsureInstalls(t) PROVE LifeIInv'
<1>1. LifeTypes /\ Control /\ obj \in [Blob -> Blobs]
  BY DEF LifeIInv, LifeTypes
<1>2. PICK b : b = th[t].blob
  OBVIOUS
<1>3. /\ th[t].pc = "parsed" /\ th' = [th EXCEPT ![t] = AtRest]
      /\ UNCHANGED <<newest, alloc, gate, grace, shr, job, outlived>>
  BY DEF EnsureInstalls
<1>4. b \in Blob /\ th[t] \in ThreadState
  BY <1>1, <1>2, <1>3 DEF LifeTypes, Control, ThreadState
<1>5. WaitsLeft(t)
  BY <1>1, <1>3, LeaveLeaves
<1>6. AtRest \in ThreadState /\ AtRest.pc = "idle" /\ AtRest.blob = NoBlob
  BY DEF AtRest, ThreadState
<1>7. th'[t] = AtRest /\ \A u \in Thread \ {t} : th'[u] = th[u]
  BY <1>1, <1>3 DEF LifeTypes
<1>8. \A c \in Blob : /\ One(HoldsRef(AtRest, c)) = 0
                      /\ One(HoldsRef(th[t], c)) = IF c = b THEN 1 ELSE 0
  BY <1>2, <1>3, <1>6 DEF HoldsRef, One
<1>9. th' \in [Thread -> ThreadState]
  BY <1>1, <1>3, <1>6 DEF LifeTypes
<1>10. Control'
  BY <1>1, <1>3, <1>6, <1>7 DEF Control
<1>11. CASE installed = NoBlob
  <2>1. /\ installed' = b /\ stale' = (stale \/ obj[b].gen # newest)
        /\ UNCHANGED <<obj, freedHeld>>
    BY <1>2, <1>11 DEF EnsureInstalls
  <2>2. LifeTypes'
    BY <1>1, <1>3, <1>4, <1>9, <2>1 DEF LifeTypes
  <2>3. ASSUME RefsRight PROVE RefsRight'
    <3>1. /\ Private(b) /\ \A j \in Job : job[j].new # b
          /\ \A u \in Thread \ {t} : th[u].blob # b
      BY <1>2, <1>3, <2>3 DEF RefsRight
    <3>2. ASSUME NEW c \in Blob PROVE RefCount(c)' = RefCount(c)
      <4>1. Cardinality(Holding(c))'
              = Cardinality(Holding(c)) - One(HoldsRef(th[t], c))
        <5>1. Cardinality(Holding(c))' - One(HoldsRef(AtRest, c))
                = Cardinality(Holding(c)) - One(HoldsRef(th[t], c))
          BY <1>1, <1>3, <1>6, HoldingThread
        <5> QED
          BY <1>8, <5>1, HoldingNat
      <4>2. OtherRefs(c)' = OtherRefs(c) + One(HoldsRef(th[t], c))
        <5>1. /\ One(installed = c) = 0
              /\ One(installed = c)' = One(HoldsRef(th[t], c))
          BY <1>8, <1>11, <2>1, BlobLifetimeAssumption DEF One
        <5>2. /\ One(grace[c].phase # "none")' = One(grace[c].phase # "none")
              /\ One(shr.blob = c)' = One(shr.blob = c)
              /\ One(grace[c].phase # "none") \in Nat /\ One(shr.blob = c) \in Nat
              /\ One(HoldsRef(th[t], c)) \in Nat
          BY <1>3 DEF One
        <5> QED
          BY <5>1, <5>2 DEF OtherRefs
      <4>3. /\ JobRefs("compact", c)' = JobRefs("compact", c)
            /\ JobRefs("demote", c)' = JobRefs("demote", c)
        BY <1>3 DEF JobRefs
      <4>4. /\ Cardinality(Holding(c)) \in Nat /\ OtherRefs(c) \in Nat
            /\ JobRefs("compact", c) \in Nat /\ JobRefs("demote", c) \in Nat
            /\ One(HoldsRef(th[t], c)) \in Nat
        BY HoldingNat DEF OtherRefs, JobRefs, One
      <4> QED
        BY <4>1, <4>2, <4>3, <4>4 DEF RefCount
    <3>3. \A c \in Blob : Counted(c)'
      BY <2>1, <2>3, <3>2 DEF Counted, RefsRight
    <3>4. \A c \in Blob : installed' = c => grace'[c].phase = "none"
      BY <1>3, <2>1, <3>1 DEF Private
    <3>5. ASSUME NEW u \in Thread, th'[u].pc = "parsed"
          PROVE  /\ Private(th[u].blob)'
                 /\ \A j \in Job : job'[j].new # th'[u].blob
                 /\ \A v \in Thread \ {u} : th'[v].blob # th'[u].blob
      <4>1. u # t /\ th'[u] = th[u] /\ th[u].pc = "parsed"
        BY <1>6, <1>7, <3>5
      <4>2. /\ Private(th[u].blob) /\ \A j \in Job : job[j].new # th[u].blob
            /\ \A v \in Thread \ {u} : th[v].blob # th[u].blob
            /\ th[u].blob # b /\ th[u].blob # NoBlob
        BY <1>1, <2>3, <3>1, <4>1 DEF RefsRight, Control
      <4> QED
        BY <1>3, <1>6, <1>7, <2>1, <4>1, <4>2 DEF Private
    <3>6. ASSUME NEW j \in Job, job'[j].new # NoBlob
          PROVE  Private(job[j].new)' /\ \A u \in Thread : th'[u].blob # job'[j].new
      <4>1. /\ Private(job[j].new) /\ \A u \in Thread : th[u].blob # job[j].new
            /\ job[j].new # b
        BY <1>3, <2>3, <3>1, <3>6 DEF RefsRight
      <4> QED
        BY <1>3, <1>6, <1>7, <2>1, <3>6, <4>1 DEF Private
    <3>7. ASSUME NEW u \in Thread, NEW c \in Blob
          PROVE  /\ InRcuOn(u, c)' => RcuCovered(u, c)'
                 /\ InSrcuOn(u, c)' => SrcuCovered(u, c)'
      <4>1. /\ InRcuOn(u, c)' => InRcuOn(u, c)
            /\ InSrcuOn(u, c)' => InSrcuOn(u, c)
        BY <1>6, <1>7 DEF InRcuOn, InSrcuOn
      <4>2. /\ InRcuOn(u, c) => RcuCovered(u, c)
            /\ InSrcuOn(u, c) => SrcuCovered(u, c)
        BY <2>3 DEF RefsRight
      <4> QED
        BY <1>3, <1>11, <4>1, <4>2, BlobLifetimeAssumption
           DEF RcuCovered, SrcuCovered, JobKeepsRcu, JobKeepsSrcu
    <3> QED
      BY <3>3, <3>4, <3>5, <3>6, <3>7 DEF RefsRight
  <2>4. ASSUME RefsRight, Drained, ~stale' PROVE Drained'
    <3>1. obj[b].gen = newest /\ newest > 0
      BY <1>2, <1>3, <2>1, <2>4 DEF Drained, GenOf
    <3>2. GenKept
      BY <2>1 DEF GenKept
    <3>3. installed' # NoBlob
      BY <1>4, <2>1, BlobLifetimeAssumption
    <3>4. \A u \in Thread : th'[u] = th[u] \/ th'[u].pc = "idle"
      BY <1>6, <1>7
    <3> QED
      BY <1>1, <1>3, <1>10, <1>11, <2>1, <2>2, <2>3, <2>4, <3>1, <3>2, <3>3,
         <3>4, DrainedFrame
  <2> QED
    BY <1>3, <1>10, <2>1, <2>2, <2>3, <2>4 DEF LifeIInv
<1>12. CASE installed # NoBlob
  <2>1. /\ obj' = [obj EXCEPT ![b] = Gone]
        /\ freedHeld' = (freedHeld \/ obj[b].refs > 1)
        /\ UNCHANGED <<installed, stale>>
    BY <1>2, <1>12 DEF EnsureInstalls
  <2>2. LifeTypes'
    <3>1. Gone \in Blobs
      BY BlobLifetimeAssumption DEF Gone, Blobs, Gen
    <3>2. obj' \in [Blob -> Blobs]
      BY <1>1, <2>1, <3>1
    <3>3. freedHeld' \in BOOLEAN
      BY <1>1, <2>1 DEF LifeTypes
    <3> QED
      BY <1>1, <1>3, <1>9, <2>1, <3>2, <3>3 DEF LifeTypes
  <2>3. obj'[b] = Gone /\ \A c \in Blob \ {b} : obj'[c] = obj[c]
    BY <1>1, <1>4, <2>1
  <2>4. GenKept
    BY <2>3 DEF GenKept, Gone
  <2>5. ASSUME RefsRight, ~freedHeld' PROVE RefsRight'
    <3>1. ASSUME NEW c \in Blob
          PROVE  /\ RefCount(c)' = RefCount(c) - One(HoldsRef(th[t], c))
                 /\ RefCount(c) \in Nat /\ RefCount(c)' \in Nat
      <4>1. /\ RefCount(c)' - One(HoldsRef(AtRest, c)) = RefCount(c) - One(HoldsRef(th[t], c))
            /\ RefCount(c) \in Nat /\ RefCount(c)' \in Nat
        BY <1>1, <1>3, <1>5, <1>6, <2>1, CountThread
      <4> QED
        BY <1>8, <4>1
    <3>2. ~(obj[b].refs > 1) /\ obj[b].refs = RefCount(b)
      BY <1>4, <2>1, <2>5 DEF RefsRight, Counted
    <3>3. RefCount(b)' = 0
      BY <1>4, <1>8, <3>1, <3>2
    <3>4. Counted(b)'
      <4>1. obj'[b].refs = 0 /\ obj'[b].live = FALSE /\ ~(obj'[b].refs > 0)
        BY <2>3 DEF Gone
      <4>2. obj'[b].refs = RefCount(b)' /\ (obj'[b].live <=> obj'[b].refs > 0)
        BY <3>3, <4>1
      <4> QED
        BY <4>2 DEF Counted
    <3>5. \A c \in Blob \ {b} : RefCount(c)' = RefCount(c)
      BY <1>8, <3>1
    <3>6. \A c \in Blob : Counted(c)'
      BY <2>3, <2>5, <3>4, <3>5 DEF Counted, RefsRight
    <3> QED
      BY <1>1, <1>3, <1>5, <1>6, <2>1, <2>5, <3>6, CoversThread
  <2>6. ASSUME RefsRight, Drained, ~freedHeld' PROVE Drained'
    <3>1. \A u \in Thread : th'[u] = th[u] \/ th'[u].pc = "idle"
      BY <1>6, <1>7
    <3> QED
      BY <1>1, <1>3, <1>10, <2>1, <2>2, <2>4, <2>5, <2>6, <3>1, DrainedFrame
  <2>7. freedHeld => freedHeld'
    BY <2>1
  <2> QED
    BY <1>3, <1>10, <2>1, <2>2, <2>5, <2>6, <2>7 DEF LifeIInv
<1> QED
  BY <1>11, <1>12

-----------------------------------------------------------------------------
(* The steps of the invariant: compaction and demotion.                    *)
LEMMA JobTypes ==
  ASSUME LifeTypes, Control, NEW j \in Job, NEW q \in JobState,
         job' = [job EXCEPT ![j] = q], obj' \in [Blob -> Blobs],
         installed' \in Blob \cup {NoBlob}, newest' \in Gen, alloc' \subseteq Gen,
         gate' \in BOOLEAN,
         q.pc = "idle" <=> q.old = NoBlob,
         q.new # NoBlob <=> j = "compact" /\ q.pc = "publish",
         q.pc = "build" => j = "compact",
         j = "compact" => (gate' <=> q.pc # "idle"),
         j = "demote" => (gate' <=> gate),
         j = "compact" /\ q.pc = "publish" => newest' < LastGen,
         j = "demote" => newest' = newest \/ ~gate,
         UNCHANGED <<th, grace, shr, stale, freedHeld, outlived>>
  PROVE  LifeTypes' /\ Control'
<1>1. job'[j] = q /\ \A i \in Job \ {j} : job'[i] = job[i]
  BY DEF LifeTypes
<1>2. LifeTypes'
  <2>1. job' \in [Job -> JobState]
    BY DEF LifeTypes
  <2> QED
    BY <2>1 DEF LifeTypes
<1>3. \A i \in Job : /\ job'[i].pc = "idle" <=> job'[i].old = NoBlob
                     /\ job'[i].new # NoBlob <=> i = "compact" /\ job'[i].pc = "publish"
                     /\ job'[i].pc = "build" => i = "compact"
  BY <1>1 DEF Control
<1>4. "compact" \in Job /\ j \in {"compact", "demote"}
  BY DEF Job
<1>5. gate' <=> job'["compact"].pc # "idle"
  BY <1>1, <1>4 DEF Control
<1>6. job'["compact"].pc = "publish" => newest' < LastGen
  <2>1. CASE j = "compact"
    BY <1>1, <2>1
  <2>2. CASE j = "demote"
    <3>1. job'["compact"] = job["compact"]
      BY <1>1, <1>4, <2>2
    <3>2. job["compact"].pc = "publish" => gate /\ newest < LastGen
      BY DEF Control
    <3> QED
      BY <2>2, <3>1, <3>2
  <2> QED
    BY <1>4, <2>1, <2>2
<1> QED
  BY <1>2, <1>3, <1>5, <1>6 DEF Control

(* How a job goes through its grace periods.                               *)
Reclaims(j, q) ==
  /\ q.old = job[j].old /\ q.new = job[j].new
  /\ \/ job[j].pc = "unlist" /\ q.pc = "rcu" /\ q.wait = InRcu
     \/ job[j].pc = "rcu" /\ job[j].wait = {} /\ q.pc = "srcu" /\ q.wait = InSrcu
     \/ job[j].pc = "srcu" /\ job[j].wait = {} /\ q.pc = "drain"
     \/ job[j].pc = "drain" /\ q.pc = "out"

Unpublished == {"idle", "build", "publish"}

LEMMA JobRefsRight ==
  ASSUME LifeTypes, Control, RefsRight, \A c \in Blob : Counted(c)',
         NEW j \in Job, NEW q \in JobState, job' = [job EXCEPT ![j] = q],
         UNCHANGED <<installed, th, grace>>,
         q.old \in {job[j].old, NoBlob, installed},
         \/ q.new = NoBlob \/ q.new = job[j].new
         \/ /\ q.new \in Blob /\ Private(q.new) /\ q.old # q.new
            /\ \A t \in Thread : th[t].blob # q.new,
         \/ Reclaims(j, q)
         \/ job[j].pc \in Unpublished \cup {"out"} /\ q.pc \in Unpublished
  PROVE  RefsRight'
<1>1. job'[j] = q /\ \A i \in Job \ {j} : job'[i] = job[i]
  BY DEF LifeTypes
<1>2. \A c \in Blob : installed' = c => grace'[c].phase = "none"
  BY DEF RefsRight
<1>3. \A c \in Blob : Private(c) => Private(c)'
  BY <1>1, BlobLifetimeAssumption DEF Private
<1>4. ASSUME NEW t \in Thread, th'[t].pc = "parsed"
      PROVE  /\ Private(th[t].blob)'
             /\ \A i \in Job : job'[i].new # th'[t].blob
             /\ \A u \in Thread \ {t} : th'[u].blob # th'[t].blob
  <2>1. PICK c : c = th[t].blob
    OBVIOUS
  <2>2. c \in Blob
    BY <1>4, <2>1 DEF LifeTypes, Control, ThreadState
  <2>3. /\ Private(c)' /\ \A i \in Job : job[i].new # c
        /\ \A u \in Thread \ {t} : th'[u].blob # c
    BY <1>3, <1>4, <2>1, <2>2 DEF RefsRight
  <2>4. \A i \in Job : job'[i].new # c
    BY <1>1, <2>1, <2>2, <2>3, BlobLifetimeAssumption
  <2> QED
    BY <2>1, <2>3, <2>4 DEF Private
<1>5. ASSUME NEW i \in Job, job'[i].new # NoBlob
      PROVE  Private(job[i].new)' /\ \A t \in Thread : th'[t].blob # job'[i].new
  <2>1. PICK c : c = job'[i].new
    OBVIOUS
  <2>2. c \in Blob
    BY <1>1, <1>5, <2>1 DEF LifeTypes, JobState
  <2>3. Private(c) /\ \A t \in Thread : th[t].blob # c
    <3>1. CASE c = job[i].new
      BY <1>5, <2>1, <3>1 DEF RefsRight
    <3>2. CASE c # job[i].new
      BY <1>1, <1>5, <2>1, <3>2
    <3> QED
      BY <3>1, <3>2
  <2>4. Private(c)'
    BY <1>3, <2>2, <2>3
  <2> QED
    BY <2>1, <2>3, <2>4 DEF Private
<1>6. ASSUME NEW t \in Thread, NEW c \in Blob
      PROVE  /\ InRcuOn(t, c)' => RcuCovered(t, c)'
             /\ InSrcuOn(t, c)' => SrcuCovered(t, c)'
  <2>1. /\ InRcuOn(t, c) => RcuCovered(t, c) /\ t \in InRcu
        /\ InSrcuOn(t, c) => SrcuCovered(t, c) /\ t \in InSrcu
    BY DEF RefsRight, InRcuOn, InSrcuOn, InRcu, InSrcu
  <2>2. /\ InRcuOn(t, c)' <=> InRcuOn(t, c)
        /\ InSrcuOn(t, c)' <=> InSrcuOn(t, c)
    BY DEF InRcuOn, InSrcuOn
  <2>3. \A i \in Job \ {j} : /\ JobKeepsRcu(i, t)' <=> JobKeepsRcu(i, t)
                             /\ JobKeepsSrcu(i, t)' <=> JobKeepsSrcu(i, t)
    BY <1>1 DEF JobKeepsRcu, JobKeepsSrcu
  <2>4. /\ JobKeepsRcu(j, t) /\ t \in InRcu => q.old = job[j].old /\ JobKeepsRcu(j, t)'
        /\ JobKeepsSrcu(j, t) /\ t \in InSrcu => q.old = job[j].old /\ JobKeepsSrcu(j, t)'
    BY <1>1 DEF JobKeepsRcu, JobKeepsSrcu, Reclaims, Unpublished
  <2>5. InRcuOn(t, c) => RcuCovered(t, c)'
    BY <1>1, <2>1, <2>3, <2>4 DEF RcuCovered
  <2>6. InSrcuOn(t, c) => SrcuCovered(t, c)'
    BY <1>1, <2>1, <2>3, <2>4 DEF SrcuCovered
  <2> QED
    BY <2>2, <2>5, <2>6
<1> QED
  BY <1>2, <1>4, <1>5, <1>6 DEF RefsRight

(* A job that has not published pins, stages, or gives up; or it is over.  *)
LEMMA UnpublishedMoves ==
  ASSUME LifeTypes, Control, RefsRight, LifeTypes', Control', RefsRight', Drained,
         GenKept, NEW j \in Job, NEW q \in JobState, job' = [job EXCEPT ![j] = q],
         UNCHANGED <<installed, newest, th, outlived>>,
         job[j].pc \in Unpublished \cup {"out"}, q.pc \in Unpublished,
         alloc \subseteq alloc',
         newest = 0 /\ j = "compact" => q.pc = "idle",
         j = "compact" /\ q.pc = "publish" =>
           obj'[q.new].gen = newest + 1 /\ newest + 1 \in alloc'
  PROVE  Drained'
<1>1. job'[j] = q /\ \A i \in Job \ {j} : job'[i] = job[i]
  BY DEF LifeTypes
<1>2. PointersLive /\ PointersLive'
  BY UsedIsLive, UsedIsLiveNext
<1>3. \A i \in Job \ {j} : Retiring(i)' <=> Retiring(i)
  BY <1>1 DEF Retiring
<1>4. ~Retiring(j) /\ ~Retiring(j)' /\ ~Published(j)'
  BY <1>1 DEF Retiring, Published, Unpublished
<1>5. "compact" \in Job /\ "demote" \in Job /\ j \in {"compact", "demote"}
  BY DEF Job
<1>6. \A c \in Blob : obj[c].live /\ obj'[c].live => obj'[c].gen = obj[c].gen
  BY DEF GenKept
<1>7. \A t \in Thread : th[t].blob # NoBlob => GenOf(t)' = GenOf(t)
  BY <1>2, <1>6 DEF PointersLive, InUse, GenOf
<1>8. \A i \in Job \ {j} :
        /\ job[i].old # NoBlob => obj'[job[i].old].gen = obj[job[i].old].gen
        /\ job[i].new # NoBlob => obj'[job[i].new].gen = obj[job[i].new].gen
  BY <1>1, <1>2, <1>6 DEF PointersLive, InUse
<1>9. installed' # NoBlob => newest' > 0 /\ obj'[installed'].gen = newest'
  BY <1>2, <1>6 DEF PointersLive, InUse, Drained
<1>10. newest' > 0 => newest' \in alloc'
  BY DEF Drained
<1>11. job'["compact"].pc = "publish" =>
         obj'[job'["compact"].new].gen = newest' + 1 /\ newest' + 1 \in alloc'
  <2>1. CASE j = "compact"
    BY <1>1, <2>1
  <2>2. CASE j # "compact"
    <3>1. job'["compact"] = job["compact"]
      BY <1>1, <1>5, <2>2
    <3> QED
      BY <1>5, <1>8, <2>2, <3>1 DEF Drained, Control
  <2> QED
    BY <2>1, <2>2
<1>12. newest' = 0 => job'["compact"].pc = "idle"
  BY <1>1, <1>5 DEF Drained
<1>13. Published("demote")' => newest' = 0
  BY <1>1, <1>4, <1>5 DEF Drained, Published, Retiring
<1>14. ASSUME NEW i \in Job, Retiring(i)'
       PROVE  obj'[job'[i].old].gen # newest' /\ \A t \in Thread : Waited(i, t)'
  <2>1. i # j /\ Retiring(i) /\ job'[i] = job[i]
    BY <1>1, <1>3, <1>4, <1>14
  <2>2. job[i].old # NoBlob
    BY <2>1 DEF Retiring, Control
  <2>3. obj'[job'[i].old].gen = obj[job[i].old].gen
    BY <1>8, <2>1, <2>2
  <2>4. ASSUME NEW t \in Thread PROVE Waited(i, t)'
    <3>1. Waited(i, t)
      BY <2>1 DEF Drained
    <3>2. th[t].pc # "idle" => GenOf(t)' = GenOf(t)
      BY <1>7 DEF Control
    <3> QED
      BY <2>1, <2>3, <3>1, <3>2 DEF Waited, JobKeepsRcu, JobKeepsSrcu
  <2> QED
    BY <2>1, <2>3, <2>4 DEF Drained
<1>15. \A t \in Thread : th'[t].pc = "refRead" =>
         \/ installed' = th'[t].blob
         \/ \E i \in Job : Retiring(i)' /\ job'[i].old = th'[t].blob
  BY <1>1, <1>3, <1>4 DEF Drained
<1>16. \A t \in Thread : th'[t].pc \in {"rcuRead", "srcuRead", "refLoad", "refRead"}
                           => GenOf(t)' \in alloc'
  BY <1>7 DEF Drained, Control
<1>17. \A t \in Thread : th'[t].pc = "parsed" => GenOf(t)' > 0
  BY <1>7 DEF Drained, Control
<1> QED
  BY <1>9, <1>10, <1>11, <1>12, <1>13, <1>14, <1>15, <1>16, <1>17 DEF Drained

(* A job that has published waits for the readers, and frees the blocks    *)
(* once only its own pin is left.                                          *)
LEMMA ReclaimMoves ==
  ASSUME LifeTypes, Control, RefsRight, LifeTypes', Control', RefsRight', Drained,
         GenKept, NEW j \in Job, NEW q \in JobState, job' = [job EXCEPT ![j] = q],
         UNCHANGED <<installed, newest, th, outlived>>,
         Reclaims(j, q),
         job[j].pc # "drain" => alloc' = alloc,
         job[j].pc = "drain" => /\ alloc \ {obj[job[j].old].gen} \subseteq alloc'
                                /\ \A t \in Thread : ~HoldsRef(th[t], job[j].old)
  PROVE  Drained'
<1>1. job'[j] = q /\ \A i \in Job \ {j} : job'[i] = job[i]
  BY DEF LifeTypes
<1>2. PointersLive /\ PointersLive'
  BY UsedIsLive, UsedIsLiveNext
<1>3. /\ \A i \in Job : /\ Published(i)' <=> Published(i)
                        /\ job'[i].old = job[i].old /\ job'[i].new = job[i].new
      /\ \A i \in Job : Retiring(i)' => Retiring(i)
      /\ \A i \in Job : Retiring(i) => Retiring(i)' \/ (i = j /\ job[j].pc = "drain")
  BY <1>1 DEF Retiring, Published, Reclaims
<1>4. Retiring(j) /\ job[j].pc # "publish" /\ job[j].pc # "idle" /\ q.pc # "publish"
  BY DEF Retiring, Reclaims
<1>5. "compact" \in Job /\ "demote" \in Job /\ j \in {"compact", "demote"}
  BY DEF Job
<1>6. \A c \in Blob : obj[c].live /\ obj'[c].live => obj'[c].gen = obj[c].gen
  BY DEF GenKept
<1>7. \A t \in Thread : th[t].blob # NoBlob => GenOf(t)' = GenOf(t)
  BY <1>2, <1>6 DEF PointersLive, InUse, GenOf
<1>8. \A i \in Job :
        /\ job[i].old # NoBlob => obj'[job[i].old].gen = obj[job[i].old].gen
        /\ job[i].new # NoBlob => obj'[job[i].new].gen = obj[job[i].new].gen
  BY <1>2, <1>3, <1>6 DEF PointersLive, InUse
<1>9. installed' # NoBlob => newest' > 0 /\ obj'[installed'].gen = newest'
  BY <1>2, <1>6 DEF PointersLive, InUse, Drained
(* At most one job has published: compaction keeps the gate to its end,    *)
(* and after a demotion there is nothing to compact.                       *)
<1>10. \A i \in Job \ {j} : ~Retiring(i)
  <2>1. Published("demote") => job["compact"].pc = "idle"
    BY DEF Drained
  <2> QED
    BY <1>4, <2>1 DEF Published, Retiring, Job
<1>11. obj[job[j].old].gen # newest /\ \A t \in Thread : Waited(j, t)
  BY <1>4 DEF Drained
<1>12. \A x \in {newest, newest + 1} : x \in alloc /\ x # obj[job[j].old].gen => x \in alloc'
  BY <1>4
<1>13. newest' > 0 => newest' \in alloc'
  BY <1>11, <1>12 DEF Drained
<1>14. job'["compact"].pc = "publish" =>
         obj'[job'["compact"].new].gen = newest' + 1 /\ newest' + 1 \in alloc'
  <2>1. ASSUME job'["compact"].pc = "publish" PROVE FALSE
    <3>1. j = "demote" /\ job["compact"].pc = "publish"
      BY <1>1, <1>4, <1>5, <2>1
    <3>2. newest = 0
      BY <1>4, <3>1 DEF Drained, Published
    <3> QED
      BY <3>1, <3>2 DEF Drained
  <2> QED
    BY <2>1
<1>15. newest' = 0 => job'["compact"].pc = "idle"
  <2>1. CASE j = "compact"
    BY <1>4, <2>1 DEF Drained
  <2>2. CASE j = "demote"
    BY <1>1, <1>5, <2>2 DEF Drained
  <2> QED
    BY <1>5, <2>1, <2>2
<1>16. Published("demote")' => newest' = 0
  BY <1>3, <1>5 DEF Drained
<1>17. ASSUME NEW i \in Job, Retiring(i)'
       PROVE  obj'[job'[i].old].gen # newest' /\ \A t \in Thread : Waited(i, t)'
  <2>1. i = j
    BY <1>3, <1>10, <1>17
  <2>2. job[j].old # NoBlob
    BY <1>4 DEF Control
  <2>3. obj'[job'[j].old].gen = obj[job[j].old].gen
    BY <1>3, <1>8, <2>2
  <2>4. ASSUME NEW t \in Thread PROVE Waited(j, t)'
    <3>1. th[t].pc # "idle" => GenOf(t)' = GenOf(t)
      BY <1>7 DEF Control
    <3>2. /\ th[t].pc \in {"rcu", "rcuRead", "refLoad"} => t \in InRcu
          /\ th[t].pc = "srcuRead" => t \in InSrcu
      BY DEF InRcu, InSrcu
    <3>3. /\ JobKeepsRcu(j, t) /\ t \in InRcu => JobKeepsRcu(j, t)'
          /\ JobKeepsSrcu(j, t) /\ t \in InSrcu => JobKeepsSrcu(j, t)'
      BY <1>1 DEF JobKeepsRcu, JobKeepsSrcu, Reclaims
    <3> QED
      BY <1>11, <2>3, <3>1, <3>2, <3>3 DEF Waited
  <2> QED
    BY <1>11, <2>1, <2>3, <2>4
<1>18. ASSUME NEW t \in Thread, th'[t].pc = "refRead"
       PROVE  \/ installed' = th'[t].blob
              \/ \E i \in Job : Retiring(i)' /\ job'[i].old = th'[t].blob
  <2>1. installed = th[t].blob \/ \E i \in Job : Retiring(i) /\ job[i].old = th[t].blob
    BY <1>18 DEF Drained
  <2>2. job[j].pc = "drain" => th[t].blob # job[j].old
    BY <1>18 DEF HoldsRef
  <2> QED
    BY <1>3, <2>1, <2>2
<1>19. ASSUME NEW t \in Thread, th'[t].pc \in {"rcuRead", "srcuRead", "refLoad", "refRead"}
       PROVE  GenOf(t)' \in alloc'
  <2>1. GenOf(t)' = GenOf(t) /\ GenOf(t) \in alloc
    BY <1>7, <1>19 DEF Drained, Control
  <2>2. CASE job[j].pc # "drain"
    BY <2>1, <2>2
  <2>3. CASE job[j].pc = "drain"
    <3>1. GenOf(t) # obj[job[j].old].gen
      <4>1. CASE th[t].pc = "refRead"
        <5>1. installed = th[t].blob
          BY <1>10, <2>3, <4>1 DEF Drained, HoldsRef
        <5>2. installed # NoBlob
          BY <4>1, <5>1 DEF Control
        <5> QED
          BY <1>11, <5>1, <5>2 DEF Drained, GenOf
      <4>2. CASE th[t].pc # "refRead"
        BY <1>11, <1>19, <2>3, <4>2 DEF Waited, JobKeepsRcu, JobKeepsSrcu
      <4> QED
        BY <4>1, <4>2
    <3> QED
      BY <2>1, <2>3, <3>1
  <2> QED
    BY <2>2, <2>3
<1>20. \A t \in Thread : th'[t].pc = "parsed" => GenOf(t)' > 0
  BY <1>7 DEF Drained, Control
<1> QED
  BY <1>9, <1>13, <1>14, <1>15, <1>16, <1>17, <1>18, <1>19, <1>20 DEF Drained

QRefs(q, c) == One(q.old = c) + One(q.old = c /\ q.pc \in Owing) + One(q.new = c)

LEMMA CountOneJob ==
  ASSUME LifeTypes, NEW j \in Job, NEW q \in JobState, job' = [job EXCEPT ![j] = q],
         UNCHANGED <<th, shr, grace, installed>>, NEW c \in Blob
  PROVE  /\ RefCount(c)' - QRefs(q, c) = RefCount(c) - QRefs(job[j], c)
         /\ RefCount(c) \in Nat /\ RefCount(c)' \in Nat
         /\ QRefs(q, c) \in Nat /\ QRefs(job[j], c) \in Nat
<1>1. job'[j] = q /\ \A i \in Job \ {j} : job'[i] = job[i]
  BY DEF LifeTypes
<1>2. JobRefs(j, c)' = QRefs(q, c) /\ JobRefs(j, c) = QRefs(job[j], c)
  BY <1>1 DEF JobRefs, QRefs
<1>3. RefCount(c)' - JobRefs(j, c)' - One(installed = c)'
        = RefCount(c) - JobRefs(j, c) - One(installed = c)
  BY <1>1, CountJob
<1>4. One(installed = c)' = One(installed = c) /\ One(installed = c) \in Nat
  BY DEF One
<1>5. /\ QRefs(q, c) \in Nat /\ QRefs(job[j], c) \in Nat
      /\ RefCount(c) \in Nat /\ RefCount(c)' \in Nat
  BY CountNat DEF QRefs, One
<1> QED
  BY <1>2, <1>3, <1>4, <1>5

LEMMA JobPinsStep ==
  ASSUME LifeIInv, NEW j \in Job, JobPins(j) PROVE LifeIInv'
<1> DEFINE q == [NoJob EXCEPT !.pc = IF j = "compact" THEN "build" ELSE "publish",
                              !.old = installed]
<1>1. LifeTypes /\ Control /\ obj \in [Blob -> Blobs]
  BY DEF LifeIInv, LifeTypes
<1>2. /\ job[j].pc = "idle" /\ installed # NoBlob /\ ~gate /\ gate' = (j = "compact")
      /\ obj' = Take(obj, installed)
      /\ UNCHANGED <<installed, newest, alloc, th, grace, shr, stale, freedHeld, outlived>>
  BY DEF JobPins
<1>3. job' = [job EXCEPT ![j] = q]
  BY DEF JobPins
<1>4. PICK b \in Blob : b = installed
  BY <1>1, <1>2 DEF LifeTypes
<1>5. /\ q \in JobState /\ q.pc = (IF j = "compact" THEN "build" ELSE "publish")
      /\ q.old = b /\ q.new = NoBlob
  BY <1>4 DEF JobState, NoJob
<1> HIDE DEF q
<1>6. LifeTypes' /\ Control'
  <2>1. obj' \in [Blob -> Blobs]
    BY <1>1, <1>2, <1>4, TakeIs
  <2>2. gate' \in BOOLEAN /\ (j = "compact" => gate') /\ (j = "demote" => ~gate')
    BY <1>2
  <2>3. /\ q.pc = "idle" <=> q.old = NoBlob
        /\ q.new # NoBlob <=> j = "compact" /\ q.pc = "publish"
        /\ q.pc = "build" => j = "compact"
    BY <1>5, BlobLifetimeAssumption
  <2>4. /\ installed' \in Blob \cup {NoBlob} /\ newest' \in Gen /\ alloc' \subseteq Gen
    BY <1>1, <1>2 DEF LifeTypes
  <2> QED
    BY <1>1, <1>2, <1>3, <1>5, <2>1, <2>2, <2>3, <2>4, JobTypes
<1>7. ASSUME RefsRight PROVE RefsRight' /\ GenKept
  <2>1. obj[b].live
    BY <1>1, <1>4, <1>7, UsedIsLive, BlobLifetimeAssumption DEF PointersLive, InUse
  <2>2. \A c \in Blob : /\ QRefs(job[j], c) = 0
                        /\ QRefs(q, c) = IF c = b THEN 1 ELSE 0
    <3>1. job[j].old = NoBlob /\ job[j].new = NoBlob
      BY <1>1, <1>2 DEF Control
    <3>2. q.pc \notin Owing
      BY <1>5 DEF Owing
    <3> QED
      BY <1>5, <3>1, <3>2, BlobLifetimeAssumption DEF QRefs, One
  <2>3. /\ RefCount(b)' = RefCount(b) + 1
        /\ \A c \in Blob \ {b} : RefCount(c)' = RefCount(c)
    <3>1. ASSUME NEW c \in Blob
          PROVE  /\ RefCount(c)' - QRefs(q, c) = RefCount(c)
                 /\ RefCount(c) \in Nat /\ RefCount(c)' \in Nat
      <4>1. /\ RefCount(c)' - QRefs(q, c) = RefCount(c) - QRefs(job[j], c)
            /\ RefCount(c) \in Nat /\ RefCount(c)' \in Nat
        BY <1>1, <1>2, <1>3, <1>5, CountOneJob
      <4> QED
        BY <2>2, <4>1
    <3> QED
      BY <2>2, <3>1
  <2>4. (\A c \in Blob : Counted(c)') /\ GenKept
    BY <1>1, <1>2, <1>4, <1>7, <2>1, <2>3, CountTake DEF RefsRight
  <2>5. job[j].pc \in Unpublished \cup {"out"} /\ q.pc \in Unpublished
    BY <1>2, <1>5 DEF Unpublished
  <2> QED
    BY <1>1, <1>2, <1>3, <1>4, <1>5, <1>7, <2>4, <2>5, JobRefsRight
<1>8. ASSUME RefsRight, Drained PROVE Drained'
  <2>1. job[j].pc \in Unpublished \cup {"out"} /\ q.pc \in Unpublished
    BY <1>2, <1>5 DEF Unpublished
  <2>2. newest # 0
    BY <1>2, <1>8 DEF Drained
  <2>3. ~(j = "compact" /\ q.pc = "publish")
    BY <1>5
  <2> QED
    BY <1>1, <1>2, <1>3, <1>5, <1>6, <1>7, <1>8, <2>1, <2>2, <2>3, UnpublishedMoves
<1> QED
  BY <1>2, <1>6, <1>7, <1>8 DEF LifeIInv

LEMMA CompactBuildsStep ==
  ASSUME LifeIInv, NEW b \in Blob, CompactBuilds(b) PROVE LifeIInv'
<1> DEFINE j == "compact"
           q == [job[j] EXCEPT !.pc = "publish", !.new = b]
<1>0. j \in Job /\ j = "compact"
  BY DEF Job
<1>1. LifeTypes /\ Control /\ obj \in [Blob -> Blobs] /\ job[j] \in JobState
  BY <1>0 DEF LifeIInv, LifeTypes
<1>2. /\ job[j].pc = "build" /\ newest < LastGen /\ Unused(b)
      /\ Fresh(b, newest + 1, FALSE) /\ alloc' = alloc \cup {newest + 1}
      /\ job' = [job EXCEPT ![j] = q]
      /\ UNCHANGED <<installed, newest, gate, th, grace, shr, stale, freedHeld, outlived>>
  BY DEF CompactBuilds
<1>3. q \in JobState /\ q.pc = "publish" /\ q.old = job[j].old /\ q.new = b
  BY <1>1 DEF JobState
<1> HIDE DEF j, q
<1>4. newest + 1 \in Gen
  <2>1. newest \in 0..LastGen /\ LastGen \in Nat
    BY <1>1, BlobLifetimeAssumption DEF LifeTypes, Gen
  <2> QED
    BY <1>2, <2>1 DEF Gen
<1>5. /\ obj' \in [Blob -> Blobs] /\ obj'[b].refs = 1 /\ obj'[b].live = TRUE
      /\ obj'[b].gen = newest + 1
      /\ \A c \in Blob \ {b} : obj'[c] = obj[c]
  BY <1>1, <1>2, <1>4, FreshIs
<1>6. LifeTypes' /\ Control'
  <2>1. /\ installed' \in Blob \cup {NoBlob} /\ newest' \in Gen /\ alloc' \subseteq Gen
        /\ gate' \in BOOLEAN
    BY <1>1, <1>2, <1>4 DEF LifeTypes
  <2>2. job[j].old # NoBlob /\ gate
    BY <1>0, <1>1, <1>2 DEF Control
  <2>3. newest' < LastGen
    BY <1>2
  <2>4. j # "demote" /\ (gate' <=> q.pc # "idle")
    BY <1>0, <1>2, <1>3, <2>2
  <2>5. /\ q.pc = "idle" <=> q.old = NoBlob
        /\ q.new # NoBlob <=> j = "compact" /\ q.pc = "publish"
        /\ q.pc = "build" => j = "compact"
    BY <1>0, <1>3, <2>2, BlobLifetimeAssumption
  <2> QED
    BY <1>0, <1>1, <1>2, <1>3, <1>5, <2>1, <2>3, <2>4, <2>5, JobTypes
<1>7. ~obj[b].live /\ GenKept
  BY <1>2, <1>5 DEF Unused, GenKept
<1>8. ASSUME RefsRight PROVE RefsRight'
  <2>1. RefCount(b) = 0 /\ installed # b /\ grace[b].phase = "none"
    BY <1>1, <1>7, <1>8, CountIs, CountNat DEF RefsRight
  <2>2. job[j].new = NoBlob /\ job[j].old # b
    BY <1>0, <1>1, <1>2 DEF Control, Unused
  <2>3. \A c \in Blob : QRefs(q, c) = QRefs(job[j], c) + IF c = b THEN 1 ELSE 0
    <3>1. q.pc \notin Owing /\ job[j].pc \notin Owing
      BY <1>2, <1>3 DEF Owing
    <3> QED
      BY <1>3, <2>2, <3>1, BlobLifetimeAssumption DEF QRefs, One
  <2>4. /\ RefCount(b)' = 1
        /\ \A c \in Blob \ {b} : RefCount(c)' = RefCount(c)
    <3>1. ASSUME NEW c \in Blob
          PROVE  /\ RefCount(c)' - QRefs(q, c) = RefCount(c) - QRefs(job[j], c)
                 /\ RefCount(c) \in Nat /\ RefCount(c)' \in Nat
                 /\ QRefs(q, c) \in Nat /\ QRefs(job[j], c) \in Nat
      BY <1>0, <1>1, <1>2, <1>3, CountOneJob
    <3> QED
      BY <2>1, <2>3, <3>1
  <2>5. \A c \in Blob : Counted(c)'
    <3>1. Counted(b)'
      BY <1>5, <2>4 DEF Counted
    <3>2. \A c \in Blob \ {b} : Counted(c)'
      BY <1>5, <1>8, <2>4 DEF Counted, RefsRight
    <3> QED
      BY <3>1, <3>2
  <2>6. Private(b) /\ \A t \in Thread : th[t].blob # b
    BY <1>2, <2>1 DEF Unused, Private
  <2>7. job[j].pc \in Unpublished \cup {"out"} /\ q.pc \in Unpublished
    BY <1>2, <1>3 DEF Unpublished
  <2> QED
    BY <1>0, <1>1, <1>2, <1>3, <1>8, <2>2, <2>5, <2>6, <2>7, JobRefsRight
<1>9. ASSUME RefsRight, Drained PROVE Drained'
  <2>1. job[j].pc \in Unpublished \cup {"out"} /\ q.pc \in Unpublished
    BY <1>2, <1>3 DEF Unpublished
  <2>2. newest # 0
    BY <1>0, <1>2, <1>9 DEF Drained
  <2>3. obj'[q.new].gen = newest + 1 /\ newest + 1 \in alloc'
    BY <1>2, <1>3, <1>5
  <2>4. alloc \subseteq alloc'
    BY <1>2
  <2> QED
    BY <1>0, <1>1, <1>2, <1>3, <1>6, <1>7, <1>8, <1>9, <2>1, <2>2, <2>3, <2>4,
       UnpublishedMoves
<1> QED
  BY <1>2, <1>6, <1>8, <1>9 DEF LifeIInv

LEMMA JobReclaimStep ==
  ASSUME LifeIInv, NEW j \in Job,
         JobUnlists(j) \/ JobWaitsRcu(j) \/ JobPutsInstalled(j) \/ JobDrains(j)
  PROVE  LifeIInv'
<1>1. LifeTypes /\ Control /\ obj \in [Blob -> Blobs] /\ job[j] \in JobState
  BY DEF LifeIInv, LifeTypes
<1>2. PICK b : b = job[j].old
  OBVIOUS
<1>3. UNCHANGED <<installed, newest, gate, th, grace, shr, stale, freedHeld, outlived>>
  BY DEF JobUnlists, JobWaitsRcu, JobPutsInstalled, JobDrains
<1>4. job[j].pc \in {"unlist", "rcu", "srcu", "drain"}
  BY DEF JobUnlists, JobWaitsRcu, JobPutsInstalled, JobDrains
<1>5. b \in Blob /\ job[j].new = NoBlob
  BY <1>1, <1>2, <1>4 DEF Control, JobState
(* What the four steps have in common: q is the job's next state.          *)
<1>6. SUFFICES ASSUME NEW q \in JobState, job' = [job EXCEPT ![j] = q],
                      Reclaims(j, q), obj' \in [Blob -> Blobs], alloc' \subseteq Gen,
                      RefsRight => (\A c \in Blob : Counted(c)') /\ GenKept,
                      job[j].pc # "drain" => alloc' = alloc,
                      job[j].pc = "drain" => alloc \ {obj[b].gen} \subseteq alloc',
                      RefsRight /\ job[j].pc = "drain" =>
                        \A t \in Thread : ~HoldsRef(th[t], b)
               PROVE  LifeIInv'
  <2>0. alloc \subseteq Gen
    BY <1>1 DEF LifeTypes
  <2>1. CASE JobUnlists(j)
    <3> DEFINE q == [job[j] EXCEPT !.pc = "rcu", !.wait = InRcu]
    <3>1. /\ job[j].pc = "unlist" /\ obj' = Unlist(obj, b) /\ alloc' = alloc
          /\ job' = [job EXCEPT ![j] = q]
      BY <1>2, <2>1 DEF JobUnlists
    <3>2. /\ q \in JobState /\ q.pc = "rcu" /\ q.wait = InRcu
          /\ q.old = job[j].old /\ q.new = job[j].new
      BY <1>1 DEF JobState, InRcu
    <3> HIDE DEF q
    <3>3. \A c \in Blob : /\ obj'[c].refs = obj[c].refs /\ obj'[c].live = obj[c].live
                          /\ obj'[c].gen = obj[c].gen
      BY <1>1, <1>5, <3>1, UnlistIs
    <3>4. \A c \in Blob : RefCount(c)' = RefCount(c)
      <4> TAKE c \in Blob
      <4>1. QRefs(q, c) = QRefs(job[j], c)
        BY <3>1, <3>2 DEF QRefs, Owing
      <4>2. /\ RefCount(c)' - QRefs(q, c) = RefCount(c) - QRefs(job[j], c)
            /\ RefCount(c) \in Nat /\ RefCount(c)' \in Nat
            /\ QRefs(q, c) \in Nat /\ QRefs(job[j], c) \in Nat
        BY <1>1, <1>3, <3>1, <3>2, CountOneJob
      <4> QED
        BY <4>1, <4>2
    <3>5. RefsRight => (\A c \in Blob : Counted(c)') /\ GenKept
      BY <3>3, <3>4, CountSame DEF RefsRight
    <3>6. obj' \in [Blob -> Blobs]
      BY <1>1, <1>5, <3>1, UnlistIs
    <3>7. Reclaims(j, q)
      BY <3>1, <3>2 DEF Reclaims
    <3> QED
      BY <1>6, <2>0, <3>1, <3>2, <3>5, <3>6, <3>7
  <2>2. CASE JobWaitsRcu(j)
    <3> DEFINE q == [job[j] EXCEPT !.pc = "srcu", !.wait = InSrcu]
    <3>1. /\ job[j].pc = "rcu" /\ job[j].wait = {} /\ obj' = obj /\ alloc' = alloc
          /\ job' = [job EXCEPT ![j] = q]
      BY <2>2 DEF JobWaitsRcu
    <3>2. /\ q \in JobState /\ q.pc = "srcu" /\ q.wait = InSrcu
          /\ q.old = job[j].old /\ q.new = job[j].new
      BY <1>1 DEF JobState, InSrcu
    <3> HIDE DEF q
    <3>4. \A c \in Blob : RefCount(c)' = RefCount(c)
      <4> TAKE c \in Blob
      <4>1. QRefs(q, c) = QRefs(job[j], c)
        BY <3>1, <3>2 DEF QRefs, Owing
      <4>2. /\ RefCount(c)' - QRefs(q, c) = RefCount(c) - QRefs(job[j], c)
            /\ RefCount(c) \in Nat /\ RefCount(c)' \in Nat
            /\ QRefs(q, c) \in Nat /\ QRefs(job[j], c) \in Nat
        BY <1>1, <1>3, <3>1, <3>2, CountOneJob
      <4> QED
        BY <4>1, <4>2
    <3>5. RefsRight => (\A c \in Blob : Counted(c)') /\ GenKept
      BY <3>1, <3>4, CountSame DEF RefsRight
    <3>6. obj' \in [Blob -> Blobs]
      BY <1>1, <3>1
    <3>7. Reclaims(j, q)
      BY <3>1, <3>2 DEF Reclaims
    <3> QED
      BY <1>6, <2>0, <3>1, <3>2, <3>5, <3>6, <3>7
  <2>3. CASE JobPutsInstalled(j)
    <3> DEFINE q == [job[j] EXCEPT !.pc = "drain"]
    <3>1. /\ job[j].pc = "srcu" /\ job[j].wait = {} /\ obj' = Put(obj, b) /\ alloc' = alloc
          /\ job' = [job EXCEPT ![j] = q]
      BY <1>1, <1>2, <2>3 DEF JobPutsInstalled, LifeTypes
    <3>2. /\ q \in JobState /\ q.pc = "drain"
          /\ q.old = job[j].old /\ q.new = job[j].new
      BY <1>1 DEF JobState
    <3> HIDE DEF q
    <3>3. \A c \in Blob : QRefs(job[j], c) = QRefs(q, c) + IF c = b THEN 1 ELSE 0
      BY <1>2, <3>1, <3>2 DEF QRefs, Owing, One
    <3>4. /\ RefCount(b)' = RefCount(b) - 1
          /\ \A c \in Blob \ {b} : RefCount(c)' = RefCount(c)
      <4>1. ASSUME NEW c \in Blob
            PROVE  /\ RefCount(c)' - QRefs(q, c) = RefCount(c) - QRefs(job[j], c)
                   /\ RefCount(c) \in Nat /\ RefCount(c)' \in Nat
                   /\ QRefs(q, c) \in Nat /\ QRefs(job[j], c) \in Nat
        BY <1>1, <1>3, <3>1, <3>2, CountOneJob
      <4> QED
        BY <1>5, <3>3, <4>1
    <3>5. RefsRight => (\A c \in Blob : Counted(c)') /\ GenKept
      BY <1>1, <1>5, <3>1, <3>4, CountPut DEF RefsRight
    <3>6. obj' \in [Blob -> Blobs]
      BY <1>1, <1>5, <3>1, PutIs
    <3>7. Reclaims(j, q)
      BY <3>1, <3>2 DEF Reclaims
    <3> QED
      BY <1>6, <2>0, <3>1, <3>2, <3>5, <3>6, <3>7
  <2>4. CASE JobDrains(j)
    <3> DEFINE q == [job[j] EXCEPT !.pc = "out"]
    <3>1. /\ job[j].pc = "drain" /\ obj[b].refs = 1 /\ obj' = obj
          /\ alloc' \in {alloc, alloc \ {obj[b].gen}}
          /\ job' = [job EXCEPT ![j] = q]
      BY <1>1, <1>2, <2>4 DEF JobDrains, LifeTypes
    <3>2. /\ q \in JobState /\ q.pc = "out"
          /\ q.old = job[j].old /\ q.new = job[j].new
      BY <1>1 DEF JobState
    <3> HIDE DEF q
    <3>4. \A c \in Blob : RefCount(c)' = RefCount(c)
      <4> TAKE c \in Blob
      <4>1. QRefs(q, c) = QRefs(job[j], c)
        BY <3>1, <3>2 DEF QRefs, Owing
      <4>2. /\ RefCount(c)' - QRefs(q, c) = RefCount(c) - QRefs(job[j], c)
            /\ RefCount(c) \in Nat /\ RefCount(c)' \in Nat
            /\ QRefs(q, c) \in Nat /\ QRefs(job[j], c) \in Nat
        BY <1>1, <1>3, <3>1, <3>2, CountOneJob
      <4> QED
        BY <4>1, <4>2
    <3>5. RefsRight => (\A c \in Blob : Counted(c)') /\ GenKept
      BY <3>1, <3>4, CountSame DEF RefsRight
    <3>6. obj' \in [Blob -> Blobs]
      BY <1>1, <3>1
    <3>7. Reclaims(j, q)
      BY <3>1, <3>2 DEF Reclaims
    <3>8. ASSUME RefsRight, NEW t \in Thread PROVE ~HoldsRef(th[t], b)
      <4>1. RefCount(b) = 1
        BY <1>5, <3>1, <3>8 DEF RefsRight, Counted
      <4>2. Cardinality(Holding(b)) = 0
        <5>1. /\ OtherRefs(b) \in Nat /\ JobRefs("compact", b) \in Nat
              /\ JobRefs("demote", b) \in Nat /\ Cardinality(Holding(b)) \in Nat
          BY HoldingIs DEF OtherRefs, JobRefs, One
        <5>2. JobRefs(j, b) >= 1 /\ j \in {"compact", "demote"}
          BY <1>2 DEF JobRefs, One, Job
        <5>3. RefCount(b) = Cardinality(Holding(b)) + OtherRefs(b)
                              + JobRefs("compact", b) + JobRefs("demote", b)
          BY DEF RefCount
        <5>4. CASE j = "compact"
          BY <4>1, <5>1, <5>2, <5>3, <5>4
        <5>5. CASE j = "demote"
          BY <4>1, <5>1, <5>2, <5>3, <5>5
        <5> QED
          BY <5>2, <5>4, <5>5
      <4>3. Holding(b) = {}
        BY <4>2, HoldingIs
      <4> QED
        BY <4>3 DEF Holding, HoldsRef
    <3>9. alloc' \subseteq Gen /\ alloc \ {obj[b].gen} \subseteq alloc'
      BY <2>0, <3>1
    <3> QED
      BY <1>6, <3>1, <3>2, <3>5, <3>6, <3>7, <3>8, <3>9
  <2> QED
    BY <2>1, <2>2, <2>3, <2>4
<1>7. LifeTypes' /\ Control'
  <2>1. /\ q.pc \in {"rcu", "srcu", "drain", "out"} /\ q.old = job[j].old
        /\ q.new = NoBlob
    BY <1>5, <1>6 DEF Reclaims
  <2>2. job[j].old # NoBlob /\ (j = "compact" => gate)
    BY <1>1, <1>4 DEF Control
  <2>3. /\ installed' \in Blob \cup {NoBlob} /\ newest' \in Gen /\ gate' \in BOOLEAN
    BY <1>1, <1>3 DEF LifeTypes
  <2>4. /\ q.pc = "idle" <=> q.old = NoBlob
        /\ q.new # NoBlob <=> j = "compact" /\ q.pc = "publish"
        /\ q.pc = "build" => j = "compact"
        /\ j = "compact" => (gate' <=> q.pc # "idle")
        /\ j = "demote" => (gate' <=> gate)
        /\ j = "compact" /\ q.pc = "publish" => newest' < LastGen
        /\ j = "demote" => newest' = newest \/ ~gate
    BY <1>3, <2>1, <2>2
  <2> QED
    BY <1>1, <1>3, <1>6, <2>3, <2>4, JobTypes
<1>8. ASSUME RefsRight PROVE RefsRight'
  <2>1. q.old = job[j].old /\ q.new = job[j].new
    BY <1>6 DEF Reclaims
  <2> QED
    BY <1>1, <1>3, <1>6, <1>8, <2>1, JobRefsRight
<1>9. ASSUME RefsRight, Drained PROVE Drained'
  BY <1>1, <1>2, <1>3, <1>6, <1>7, <1>8, <1>9, ReclaimMoves
<1> QED
  BY <1>3, <1>7, <1>8, <1>9 DEF LifeIInv

LEMMA JobEndsStep ==
  ASSUME LifeIInv, NEW j \in Job, JobFails(j) \/ JobEnds(j) PROVE LifeIInv'
<1>1. LifeTypes /\ Control /\ obj \in [Blob -> Blobs] /\ job[j] \in JobState
  BY DEF LifeIInv, LifeTypes
<1>2. PICK b, n : b = job[j].old /\ n = job[j].new
  OBVIOUS
<1>3. /\ job[j].pc \in {"build", "publish", "out"}
      /\ gate' = (gate /\ j # "compact") /\ job' = [job EXCEPT ![j] = NoJob]
      /\ UNCHANGED <<installed, newest, alloc, th, grace, shr, stale, freedHeld, outlived>>
  BY DEF JobFails, JobEnds
<1>4. b \in Blob /\ n \in Blob \cup {NoBlob}
  BY <1>1, <1>2, <1>3 DEF Control, JobState
<1>5. PICK o : obj' = Put(o, b) /\ o = IF n = NoBlob THEN obj ELSE Put(obj, n)
  <2>1. CASE JobFails(j)
    BY <1>2, <2>1 DEF JobFails
  <2>2. CASE JobEnds(j)
    <3>1. n = NoBlob
      BY <1>1, <1>2, <2>2 DEF JobEnds, Control
    <3> QED
      BY <1>2, <2>2, <3>1 DEF JobEnds
  <2> QED
    BY <2>1, <2>2
<1>6. o \in [Blob -> Blobs] /\ obj' \in [Blob -> Blobs]
  BY <1>1, <1>4, <1>5, PutIs
<1>7. /\ NoJob \in JobState /\ NoJob.pc = "idle" /\ NoJob.old = NoBlob
      /\ NoJob.new = NoBlob
  BY DEF NoJob, JobState
<1>8. job[j].pc \in Unpublished \cup {"out"} /\ NoJob.pc \in Unpublished
  BY <1>3, <1>7 DEF Unpublished
<1>9. LifeTypes' /\ Control'
  <2>1. /\ installed' \in Blob \cup {NoBlob} /\ newest' \in Gen /\ alloc' \subseteq Gen
        /\ gate' \in BOOLEAN
    BY <1>1, <1>3 DEF LifeTypes
  <2>2. /\ j = "compact" => (gate' <=> NoJob.pc # "idle")
        /\ j = "demote" => (gate' <=> gate)
    BY <1>3, <1>7
  <2> QED
    BY <1>1, <1>3, <1>6, <1>7, <2>1, <2>2, JobTypes
<1>10. ASSUME RefsRight PROVE RefsRight' /\ GenKept
  <2>1. n # NoBlob => n # b
    BY <1>2, <1>10 DEF RefsRight, Private
  <2>2. \A c \in Blob : /\ QRefs(NoJob, c) = 0
                        /\ QRefs(job[j], c) = IF c = b \/ c = n THEN 1 ELSE 0
    <3>1. job[j].pc \notin Owing
      BY <1>3 DEF Owing
    <3> QED
      BY <1>2, <1>4, <1>7, <2>1, <3>1, BlobLifetimeAssumption DEF QRefs, One
  <2>3. \A c \in Blob : RefCount(c)' = IF c = b \/ c = n THEN RefCount(c) - 1 ELSE RefCount(c)
    <3>1. ASSUME NEW c \in Blob
          PROVE  /\ RefCount(c)' - QRefs(NoJob, c) = RefCount(c) - QRefs(job[j], c)
                 /\ RefCount(c) \in Nat /\ RefCount(c)' \in Nat
                 /\ QRefs(NoJob, c) \in Nat /\ QRefs(job[j], c) \in Nat
      BY <1>1, <1>3, <1>7, CountOneJob
    <3> QED
      BY <2>2, <3>1
  <2>4. \A c \in Blob : Counted(c)
    BY <1>10 DEF RefsRight
  <2>5. ASSUME NEW c \in Blob
        PROVE  Counted(c)' /\ (obj[c].live /\ obj'[c].live => obj'[c].gen = obj[c].gen)
    <3>1. CASE c = b
      <4>1. o[c] = obj[c]
        BY <1>1, <1>4, <1>5, <2>1, <3>1, PutIs
      <4>2. obj'[c] = Put(o, c)[c] /\ RefCount(c)' = RefCount(c) - 1
        BY <1>5, <2>3, <3>1
      <4> QED
        BY <1>1, <1>6, <2>4, <4>1, <4>2, CountPutOne
    <3>2. CASE c # b /\ c = n
      <4>1. obj'[c] = o[c] /\ o = Put(obj, c)
        BY <1>4, <1>5, <1>6, <3>2, PutIs, BlobLifetimeAssumption
      <4>2. obj'[c] = Put(obj, c)[c] /\ RefCount(c)' = RefCount(c) - 1
        BY <2>3, <3>2, <4>1
      <4> QED
        BY <1>1, <2>4, <4>2, CountPutOne
    <3>3. CASE c # b /\ c # n
      <4>1. obj'[c] = o[c]
        BY <1>4, <1>5, <1>6, <3>3, PutIs
      <4>2. o[c] = obj[c]
        BY <1>1, <1>4, <1>5, <3>3, PutIs
      <4> QED
        BY <2>3, <2>4, <3>3, <4>1, <4>2 DEF Counted
    <3> QED
      BY <3>1, <3>2, <3>3
  <2>6. (\A c \in Blob : Counted(c)') /\ GenKept
    BY <2>5 DEF GenKept
  <2> QED
    BY <1>1, <1>3, <1>7, <1>8, <1>10, <2>6, JobRefsRight
<1>11. ASSUME RefsRight, Drained PROVE Drained'
  BY <1>1, <1>3, <1>7, <1>8, <1>9, <1>10, <1>11, UnpublishedMoves
<1> QED
  BY <1>3, <1>9, <1>10, <1>11 DEF LifeIInv

(* A publication: the job takes over the installed reference to the old    *)
(* blob, and the new one, if any, becomes the installed one.               *)
LEMMA Publishes ==
  ASSUME LifeIInv, NEW j \in Job, job[j].pc = "publish", installed = job[j].old,
         NEW q \in JobState, job' = [job EXCEPT ![j] = q], q.pc = "unlist",
         q.old = job[j].old, q.new = NoBlob, installed' = job[j].new,
         obj' \in [Blob -> Blobs],
         \A c \in Blob : /\ obj'[c].refs = obj[c].refs /\ obj'[c].live = obj[c].live
                         /\ obj'[c].gen = obj[c].gen,
         \/ j = "compact" /\ newest' = newest + 1
         \/ j = "demote" /\ newest' = 0 /\ ~gate,
         UNCHANGED <<alloc, gate, th, grace, shr, stale, freedHeld, outlived>>
  PROVE  LifeIInv'
<1>1. LifeTypes /\ Control /\ obj \in [Blob -> Blobs] /\ job[j] \in JobState
  BY DEF LifeIInv, LifeTypes
<1>2. PICK b, n : b = job[j].old /\ n = job[j].new
  OBVIOUS
<1>3. b \in Blob /\ n \in Blob \cup {NoBlob} /\ (n = NoBlob <=> j = "demote")
  BY <1>1, <1>2 DEF Control, JobState, Job
<1>4. job'[j] = q /\ \A i \in Job \ {j} : job'[i] = job[i]
  BY <1>1 DEF LifeTypes
<1>5. "compact" \in Job /\ "demote" \in Job /\ j \in {"compact", "demote"}
  BY DEF Job
<1>6. newest \in Nat /\ newest' \in Gen
  <2>1. newest \in 0..LastGen /\ LastGen \in Nat
    BY <1>1, BlobLifetimeAssumption DEF LifeTypes, Gen
  <2>2. j = "compact" => newest < LastGen
    BY <1>1 DEF Control
  <2> QED
    BY <2>1, <2>2 DEF Gen
<1>7. LifeTypes' /\ Control'
  <2>1. /\ installed' \in Blob \cup {NoBlob} /\ alloc' \subseteq Gen
        /\ gate' \in BOOLEAN
    BY <1>1, <1>2, <1>3 DEF LifeTypes
  <2>2. /\ q.pc = "idle" <=> q.old = NoBlob
        /\ q.new # NoBlob <=> j = "compact" /\ q.pc = "publish"
        /\ q.pc = "build" => j = "compact"
        /\ j = "compact" => (gate' <=> q.pc # "idle")
        /\ j = "demote" => (gate' <=> gate)
        /\ j = "compact" /\ q.pc = "publish" => newest' < LastGen
        /\ j = "demote" => newest' = newest \/ ~gate
    BY <1>1, <1>2, <1>3, BlobLifetimeAssumption DEF Control
  <2> QED
    BY <1>1, <1>6, <2>1, <2>2, JobTypes
<1>8. ASSUME RefsRight PROVE RefsRight'
  <2>1. /\ n # NoBlob => Private(n) /\ \A t \in Thread : th[t].blob # n
    BY <1>2, <1>8 DEF RefsRight
  <2>2. ASSUME NEW c \in Blob PROVE RefCount(c)' = RefCount(c)
    <3>1. RefCount(c)' - JobRefs(j, c)' - One(installed = c)'
            = RefCount(c) - JobRefs(j, c) - One(installed = c)
      BY <1>4, CountJob
    <3>2. JobRefs(j, c) = One(b = c) + One(n = c)
      BY <1>2 DEF JobRefs, One, Owing
    <3>3. JobRefs(j, c)' = One(b = c) + One(b = c)
      BY <1>2, <1>4, BlobLifetimeAssumption DEF JobRefs, One, Owing
    <3>4. One(installed = c) = One(b = c) /\ One(installed = c)' = One(n = c)
      BY <1>2 DEF One
    <3>5. /\ One(b = c) \in Nat /\ One(n = c) \in Nat
          /\ RefCount(c) \in Nat /\ RefCount(c)' \in Nat
      BY CountNat DEF One
    <3> QED
      BY <3>1, <3>2, <3>3, <3>4, <3>5
  <2>3. \A c \in Blob : Counted(c)'
    BY <1>8, <2>2 DEF Counted, RefsRight
  <2>4. \A c \in Blob : installed' = c => grace'[c].phase = "none"
    BY <1>2, <2>1, BlobLifetimeAssumption DEF Private
  <2>5. ASSUME NEW t \in Thread, th'[t].pc = "parsed"
        PROVE  /\ Private(th[t].blob)'
               /\ \A i \in Job : job'[i].new # th'[t].blob
               /\ \A u \in Thread \ {t} : th'[u].blob # th'[t].blob
    <3>1. PICK c : c = th[t].blob
      OBVIOUS
    <3>2. c \in Blob
      BY <1>1, <2>5, <3>1 DEF LifeTypes, Control, ThreadState
    <3>3. /\ Private(c) /\ \A i \in Job : job[i].new # c
          /\ \A u \in Thread \ {t} : th'[u].blob # c
      BY <1>8, <2>5, <3>1, <3>2 DEF RefsRight
    <3>4. Private(c)' /\ \A i \in Job : job'[i].new # c
      BY <1>2, <1>4, <3>2, <3>3, BlobLifetimeAssumption DEF Private
    <3> QED
      BY <3>1, <3>3, <3>4 DEF Private
  <2>6. \A i \in Job : job'[i].new = NoBlob
    BY <1>1, <1>4, <1>5 DEF Control
  <2>7. ASSUME NEW t \in Thread, NEW c \in Blob
        PROVE  /\ InRcuOn(t, c)' => RcuCovered(t, c)'
               /\ InSrcuOn(t, c)' => SrcuCovered(t, c)'
    <3>1. /\ InRcuOn(t, c)' => RcuCovered(t, c)
          /\ InSrcuOn(t, c)' => SrcuCovered(t, c)
      BY <1>8 DEF RefsRight, InRcuOn, InSrcuOn
    <3>2. /\ JobKeepsRcu(j, t)' /\ JobKeepsSrcu(j, t)'
          /\ ~JobKeepsRcu(j, t) /\ ~JobKeepsSrcu(j, t)
          /\ \A i \in Job \ {j} : /\ JobKeepsRcu(i, t)' <=> JobKeepsRcu(i, t)
                                  /\ JobKeepsSrcu(i, t)' <=> JobKeepsSrcu(i, t)
      BY <1>4 DEF JobKeepsRcu, JobKeepsSrcu
    <3>3. /\ RcuCovered(t, c) => RcuCovered(t, c)'
          /\ SrcuCovered(t, c) => SrcuCovered(t, c)'
      BY <1>4, <3>2 DEF RcuCovered, SrcuCovered
    <3> QED
      BY <3>1, <3>3
  <2> QED
    BY <2>3, <2>4, <2>5, <2>6, <2>7 DEF RefsRight
<1>9. ASSUME RefsRight, Drained PROVE Drained'
  <2>1. newest > 0 /\ obj[b].gen = newest
    BY <1>2, <1>3, <1>9, BlobLifetimeAssumption DEF Drained
  <2>2. \A i \in Job \ {j} : ~Retiring(i) /\ ~Published(i)
    <3>1. CASE j = "compact"
      BY <1>5, <1>9, <2>1, <3>1 DEF Drained, Published, Job
    <3>2. CASE j = "demote"
      <4>1. job["compact"].pc = "idle"
        BY <1>1, <3>2 DEF Control
      <4> QED
        BY <3>2, <4>1 DEF Retiring, Published, Job
    <3> QED
      BY <1>5, <3>1, <3>2
  <2>3. \A i \in Job \ {j} : ~Retiring(i)' /\ ~Published(i)'
    BY <1>4, <2>2 DEF Retiring, Published
  <2>4. Retiring(j)' /\ Published(j)'
    BY <1>4 DEF Retiring, Published
  <2>5. PointersLive
    BY <1>1, <1>9, UsedIsLive
  <2>6. \A t \in Thread : th[t].pc # "idle" => GenOf(t)' = GenOf(t)
    BY <1>1, <2>5 DEF PointersLive, InUse, GenOf, Control
  <2>7. installed' # NoBlob =>
          newest' > 0 /\ newest' \in alloc' /\ obj'[installed'].gen = newest'
    <3>1. ASSUME n # NoBlob
          PROVE  newest' > 0 /\ newest' \in alloc' /\ obj'[n].gen = newest'
      <4>1. j = "compact" /\ newest' = newest + 1 /\ n \in Blob
        BY <1>3, <1>5, <3>1
      <4>2. obj[n].gen = newest + 1 /\ newest + 1 \in alloc
        BY <1>2, <1>9, <4>1 DEF Drained
      <4> QED
        BY <1>6, <4>1, <4>2
    <3> QED
      BY <1>2, <3>1
  <2>8. newest' > 0 => newest' \in alloc'
    <3>1. newest' > 0 => n # NoBlob
      BY <1>3, <1>5
    <3> QED
      BY <1>2, <2>7, <3>1
  <2>9. job'["compact"].pc # "publish"
    <3>1. CASE j = "compact"
      BY <1>4, <3>1
    <3>2. CASE j = "demote"
      BY <1>1, <1>4, <1>5, <3>2 DEF Control
    <3> QED
      BY <1>5, <3>1, <3>2
  <2>10. newest' = 0 => job'["compact"].pc = "idle"
    <3>1. newest' = 0 => j = "demote" /\ ~gate
      BY <1>6
    <3> QED
      BY <1>1, <1>4, <1>5, <3>1 DEF Control
  <2>11. Published("demote")' => newest' = 0
    BY <1>5, <2>3
  <2>12. ASSUME NEW i \in Job, Retiring(i)'
         PROVE  obj'[job'[i].old].gen # newest' /\ \A t \in Thread : Waited(i, t)'
    <3>1. i = j
      BY <2>3, <2>12
    <3>2. obj'[b].gen = newest /\ newest # newest'
      BY <1>3, <1>6, <2>1
    <3>3. \A t \in Thread : Waited(j, t)'
      BY <1>4 DEF Waited, JobKeepsRcu, JobKeepsSrcu
    <3> QED
      BY <1>2, <1>4, <3>1, <3>2, <3>3
  <2>13. \A t \in Thread : th'[t].pc = "refRead" =>
           \/ installed' = th'[t].blob
           \/ \E i \in Job : Retiring(i)' /\ job'[i].old = th'[t].blob
    <3>1. \A t \in Thread : th[t].pc = "refRead" =>
            installed = th[t].blob \/ \E i \in Job : Retiring(i) /\ job[i].old = th[t].blob
      BY <1>9 DEF Drained
    <3>2. ~Retiring(j)
      BY DEF Retiring
    <3> QED
      BY <1>4, <2>2, <2>4, <3>1, <3>2
  <2>14. \A t \in Thread : th'[t].pc \in {"rcuRead", "srcuRead", "refLoad", "refRead"}
                             => GenOf(t)' \in alloc'
    BY <1>9, <2>6 DEF Drained
  <2>15. \A t \in Thread : th'[t].pc = "parsed" => GenOf(t)' > 0
    BY <1>9, <2>6 DEF Drained
  <2> QED
    BY <2>7, <2>8, <2>9, <2>10, <2>11, <2>12, <2>13, <2>14, <2>15 DEF Drained
<1> QED
  BY <1>7, <1>8, <1>9 DEF LifeIInv

LEMMA CompactPublishesStep == ASSUME LifeIInv, CompactPublishes PROVE LifeIInv'
<1> DEFINE j == "compact"
           q == [job[j] EXCEPT !.pc = "unlist", !.new = NoBlob]
           n == job[j].new
           r == [obj[n] EXCEPT !.listed = TRUE]
<1>1. LifeTypes /\ Control /\ obj \in [Blob -> Blobs] /\ j \in Job /\ job[j] \in JobState
  BY DEF LifeIInv, LifeTypes, Job
<1>2. /\ job[j].pc = "publish" /\ installed = job[j].old /\ installed' = n
      /\ newest' = newest + 1 /\ job' = [job EXCEPT ![j] = q]
      /\ UNCHANGED <<alloc, gate, th, grace, shr, stale, freedHeld, outlived>>
  BY DEF CompactPublishes
<1>3. n \in Blob
  BY <1>1, <1>2 DEF Control, JobState
<1>4. q \in JobState /\ q.pc = "unlist" /\ q.old = job[j].old /\ q.new = NoBlob
  BY <1>1 DEF JobState
<1>5. obj' = [obj EXCEPT ![n] = r]
  BY DEF CompactPublishes
<1>6. r \in Blobs /\ r.refs = obj[n].refs /\ r.live = obj[n].live /\ r.gen = obj[n].gen
  BY <1>1, <1>3 DEF Blobs
<1> HIDE DEF q, r
<1>7. /\ obj' \in [Blob -> Blobs]
      /\ \A c \in Blob : /\ obj'[c].refs = obj[c].refs /\ obj'[c].live = obj[c].live
                         /\ obj'[c].gen = obj[c].gen
  BY <1>1, <1>3, <1>5, <1>6
<1> HIDE DEF j, n
<1>8. j = "compact" /\ n = job[j].new
  BY DEF j, n
<1> QED
  BY <1>1, <1>2, <1>4, <1>7, <1>8, Publishes

LEMMA DemotePublishesStep == ASSUME LifeIInv, DemotePublishes PROVE LifeIInv'
<1> DEFINE j == "demote"
           q == [job[j] EXCEPT !.pc = "unlist"]
<1>1. LifeTypes /\ Control /\ obj \in [Blob -> Blobs] /\ j \in Job /\ job[j] \in JobState
  BY DEF LifeIInv, LifeTypes, Job
<1>2. /\ job[j].pc = "publish" /\ installed = job[j].old /\ installed' = NoBlob
      /\ newest' = 0 /\ ~gate /\ job' = [job EXCEPT ![j] = q]
      /\ UNCHANGED <<obj, alloc, gate, th, grace, shr, stale, freedHeld, outlived>>
  BY DEF DemotePublishes
<1>3. job[j].new = NoBlob
  BY <1>1 DEF Control
<1>4. q \in JobState /\ q.pc = "unlist" /\ q.old = job[j].old /\ q.new = NoBlob
  BY <1>1, <1>3 DEF JobState
<1> HIDE DEF q
<1>5. j = "demote"
  OBVIOUS
<1> HIDE DEF j
<1> QED
  BY <1>1, <1>2, <1>3, <1>4, <1>5, Publishes

(* At mount nothing is parsed.                                             *)
LEMMA LifeInitIInv == LifeInit => LifeIInv
<1> SUFFICES ASSUME LifeInit PROVE LifeIInv
  OBVIOUS
<1>1. /\ obj = [b \in Blob |-> Gone] /\ installed = NoBlob /\ newest = 1 /\ alloc = {1}
      /\ gate = FALSE /\ th = [t \in Thread |-> AtRest]
      /\ grace = [b \in Blob |-> NoGrace] /\ shr = AtRest /\ job = [i \in Job |-> NoJob]
      /\ stale = FALSE /\ freedHeld = FALSE /\ outlived = FALSE
  BY DEF LifeInit
<1>2. 0 \in Gen /\ 1 \in Gen /\ LastGen \in Nat
  BY BlobLifetimeAssumption DEF Gen
<1>3. /\ AtRest \in ThreadState /\ AtRest \in Shrinkers
      /\ AtRest.pc = "idle" /\ AtRest.blob = NoBlob
  BY DEF AtRest, ThreadState, Shrinkers
<1>4. /\ NoJob \in JobState /\ NoJob.pc = "idle" /\ NoJob.old = NoBlob
      /\ NoJob.new = NoBlob
  BY DEF NoJob, JobState
<1>5. NoGrace \in Graces /\ NoGrace.phase = "none"
  BY DEF NoGrace, Graces
<1>6. Gone \in Blobs /\ Gone.refs = 0 /\ Gone.live = FALSE
  BY <1>2 DEF Gone, Blobs
<1>7. /\ \A b \in Blob : obj[b] = Gone /\ grace[b] = NoGrace
      /\ \A t \in Thread : th[t] = AtRest
      /\ \A i \in Job : job[i] = NoJob
      /\ "compact" \in Job /\ "demote" \in Job
  BY <1>1 DEF Job
<1>8. LifeTypes
  BY <1>1, <1>2, <1>3, <1>4, <1>5, <1>6 DEF LifeTypes
<1>9. Control
  BY <1>1, <1>3, <1>4, <1>7 DEF Control
<1>10. RefsRight
  <2>1. ASSUME NEW b \in Blob PROVE Counted(b)
    <3>1. Holding(b) = {}
      BY <1>3, <1>7 DEF Holding
    <3>2. Cardinality(Holding(b)) = 0
      BY <3>1, HoldingIs
    <3>3. OtherRefs(b) = 0 /\ JobRefs("compact", b) = 0 /\ JobRefs("demote", b) = 0
      BY <1>1, <1>3, <1>4, <1>5, <1>7, BlobLifetimeAssumption
         DEF OtherRefs, JobRefs, One, Owing
    <3>4. RefCount(b) = 0
      BY <3>2, <3>3 DEF RefCount
    <3> QED
      BY <1>6, <1>7, <3>4 DEF Counted
  <2>2. \A t \in Thread : th[t].pc = "idle"
    BY <1>3, <1>7
  <2>3. \A t \in Thread, b \in Blob : ~InRcuOn(t, b) /\ ~InSrcuOn(t, b)
    BY <2>2 DEF InRcuOn, InSrcuOn
  <2>4. \A b \in Blob : grace[b].phase = "none"
    BY <1>5, <1>7
  <2>5. \A i \in Job : job[i].new = NoBlob
    BY <1>4, <1>7
  <2> QED
    BY <2>1, <2>2, <2>3, <2>4, <2>5 DEF RefsRight
<1>11. Drained
  BY <1>1, <1>3, <1>4, <1>7 DEF Drained, Retiring, Published
<1> QED
  BY <1>8, <1>9, <1>10, <1>11 DEF LifeIInv

LEMMA LifeStep == LifeIInv /\ [LifeNext]_lifeVars => LifeIInv'
<1> SUFFICES ASSUME LifeIInv, [LifeNext]_lifeVars PROVE LifeIInv'
  OBVIOUS
<1>1. CASE UNCHANGED lifeVars
  BY <1>1, LifeKept DEF lifeVars
<1>2. ASSUME NEW t \in Thread, Read(t) PROVE LifeIInv'
  BY <1>2, ReadersStep, ReaddirTakeStep, ReaddirDoneStep DEF Read
<1>3. ASSUME NEW t \in Thread, EnsureInstalls(t) PROVE LifeIInv'
  BY <1>3, EnsureInstallsStep
<1>4. ASSUME NEW t \in Thread, NEW b \in Blob, EnsureParses(t, b) PROVE LifeIInv'
  BY <1>4, EnsureParsesStep
<1>5. CASE Shrink
  BY <1>5, ShrinkStep, EvictStep DEF Shrink
<1>6. ASSUME NEW b \in Blob, GraceRcu(b) \/ GraceSrcu(b) \/ CompactBuilds(b)
      PROVE LifeIInv'
  BY <1>6, GraceRcuStep, GraceSrcuStep, CompactBuildsStep
<1>7. CASE Forget
  BY <1>7, ForgetStep
<1>8. CASE Reload
  BY <1>8, LifeKept DEF Reload
<1>9. CASE CompactPublishes \/ DemotePublishes
  BY <1>9, CompactPublishesStep, DemotePublishesStep
<1>10. ASSUME NEW j \in Job, JobPins(j) PROVE LifeIInv'
  BY <1>10, JobPinsStep
<1>11. ASSUME NEW j \in Job, JobFails(j) \/ Reclaim(j) PROVE LifeIInv'
  BY <1>11, JobEndsStep, JobReclaimStep DEF Reclaim
<1> QED
  BY <1>1, <1>2, <1>3, <1>4, <1>5, <1>6, <1>7, <1>8, <1>9, <1>10, <1>11 DEF LifeNext

LEMMA ReadersSafeHolds == LifeIInv => ReadersSafe
<1> SUFFICES ASSUME LifeIInv PROVE ReadersSafe
  OBVIOUS
<1>1. LifeTypes /\ Control
  BY DEF LifeIInv
<1>2. ASSUME ~freedHeld, NEW b \in Blob,
             \/ Using(b) # {} \/ installed = b \/ shr.blob = b
             \/ \E j \in Job : b \in {job[j].old, job[j].new}
      PROVE  obj[b].live
  <2>1. RefsRight
    BY <1>2 DEF LifeIInv
  <2>2. PointersLive
    BY <1>1, <2>1, UsedIsLive
  <2> QED
    BY <1>1, <1>2, <2>2, BlobLifetimeAssumption
       DEF PointersLive, InUse, Using, Control
<1>3. ASSUME ~freedHeld, ~stale, ~outlived, NEW t \in Reading
      PROVE  obj[th[t].blob].gen \in alloc
  <2>1. Drained
    BY <1>3 DEF LifeIInv
  <2> QED
    BY <2>1, <1>3 DEF Drained, Reading, GenOf
<1> QED
  BY <1>2, <1>3 DEF ReadersSafe

(* Whoever uses a parsed blob finds it allocated, and whoever reads a      *)
(* generation's payload finds its blocks allocated, for any number of      *)
(* threads, blobs and publications: the references of                      *)
(* ext5_stable_blob_get and _put, the two grace periods and the drain      *)
(* before ext5_stable_compact and __ext5_demote_subtree punch the blocks   *)
(* suffice, up to the three events that the history variables record.     *)
THEOREM ReadersAreSafe == LifeSpec => []ReadersSafe
<1>1. LifeSpec => []LifeIInv
  BY LifeInitIInv, LifeStep, PTL DEF LifeSpec
<1> QED
  BY <1>1, ReadersSafeHolds, PTL
=============================================================================
