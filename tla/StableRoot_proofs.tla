-------------------------- MODULE StableRoot_proofs --------------------------
(***************************************************************************)
(* Theorems about StableRoot, for every value of its constants, and first  *)
(* what the operators of DeltaLog return, for every log: where replay      *)
(* stops, which record of a name is the newest, and how the tree, the      *)
(* merge and the tail copy of compaction relate to one another.            *)
(***************************************************************************)
EXTENDS StableRoot, TLAPS, WellFoundedInduction

(* A strict order on the naturals is well founded; the relation is hidden  *)
(* behind a name, so that its users need not expand it.                    *)
LEMMA NatWellFounded ==
  \E R : /\ IsWellFoundedOn(R, Nat)
         /\ \A x, y \in Nat : x < y => <<x, y>> \in R
<1>1. \A x, y \in Nat : x < y => <<x, y>> \in OpToRel(<, Nat)
  BY DEF OpToRel
<1>2. QED
  BY <1>1, NatLessThanWellFounded

(* A nonempty set of naturals has a least element.                         *)
LEMMA LeastNat ==
  ASSUME NEW T \in SUBSET Nat, T # {}
  PROVE  \E x \in T : \A y \in T : x <= y
<1>1. PICK R : /\ IsWellFoundedOn(R, Nat)
               /\ \A x, y \in Nat : x < y => <<x, y>> \in R
  BY NatWellFounded
<1>2. T \subseteq Nat /\ IsWellFoundedOn(R, Nat)
  BY <1>1
<1>3. PICK x \in T : \A y \in T : ~ (<<y, x>> \in R)
  <2>1. \E x \in T : \A y \in T : ~ (<<y, x>> \in R)
    BY ONLY <1>2, T # {}, WFMin, Zenon
  <2>2. QED
    BY <2>1
<1>4. \A y \in T : ~ (y < x)
  BY <1>1, <1>3
<1>5. QED
  BY <1>3, <1>4

(* Replay accepts the cells before its length, and nothing after it.       *)
LEMMA ReplayLengthIs ==
  ASSUME NEW log \in Logs, NEW seqBase \in Nat
  PROVE  LET k == ReplayLength(log, seqBase)
         IN  /\ k \in 0..Region
             /\ \A i \in 1..k : Accepted(log, seqBase, i)
             /\ k < Region => ~Accepted(log, seqBase, k + 1)
<1> DEFINE Stops == {k \in 0..Region : k = Region \/ ~Accepted(log, seqBase, k + 1)}
<1> USE DeltaLogAssumption
<1>1. Stops \in SUBSET Nat /\ Stops # {}
  <2>1. Region \in Stops
    OBVIOUS
  <2>2. QED
    BY <2>1
<1>2. PICK k \in Stops : \A j \in Stops : k <= j
  BY <1>1, LeastNat
<1>3. \A i \in 1..k : Accepted(log, seqBase, i)
  <2>1. SUFFICES ASSUME NEW i \in 1..k PROVE Accepted(log, seqBase, i)
    OBVIOUS
  <2>2. i - 1 \in 0..Region /\ i - 1 # Region /\ ~(k <= i - 1)
    BY <1>2
  <2>3. i - 1 \notin Stops
    BY <1>2, <2>2
  <2>4. (i - 1) + 1 = i
    OBVIOUS
  <2>5. QED
    BY <2>2, <2>3, <2>4
<1>4. \E m \in 0..Region :
        /\ \A i \in 1..m : Accepted(log, seqBase, i)
        /\ m < Region => ~Accepted(log, seqBase, m + 1)
  BY <1>2, <1>3
<1>5. QED
  BY <1>4 DEF ReplayLength

(* Replay stops at k if it accepts the k cells before and not the next.    *)
LEMMA ReplayLengthUnique ==
  ASSUME NEW log \in Logs, NEW seqBase \in Nat, NEW k \in 0..Region,
         \A i \in 1..k : Accepted(log, seqBase, i),
         k < Region => ~Accepted(log, seqBase, k + 1)
  PROVE  ReplayLength(log, seqBase) = k
<1> DEFINE m == ReplayLength(log, seqBase)
<1>1. /\ m \in 0..Region
      /\ \A i \in 1..m : Accepted(log, seqBase, i)
      /\ m < Region => ~Accepted(log, seqBase, m + 1)
  BY ReplayLengthIs
<1> HIDE DEF m
<1>2. ~(m < k)
  <2>1. SUFFICES ASSUME m < k PROVE FALSE
    OBVIOUS
  <2>2. m + 1 \in 1..k /\ m < Region
    BY <2>1, <1>1, DeltaLogAssumption
  <2>3. QED
    BY <2>2, <1>1
<1>3. ~(k < m)
  <2>1. SUFFICES ASSUME k < m PROVE FALSE
    OBVIOUS
  <2>2. k + 1 \in 1..m /\ k < Region
    BY <2>1, <1>1, DeltaLogAssumption
  <2>3. QED
    BY <2>2, <1>1
<1>4. m \in Nat /\ k \in Nat
  BY <1>1, DeltaLogAssumption
<1>5. QED
  BY <1>2, <1>3, <1>4 DEF m

(* If a name is mentioned there is a newest record of it.                  *)
LEMMA NewestIs ==
  ASSUME NEW log \in Logs, NEW k \in 0..Region, NEW n, Mentions(log, k, n)
  PROVE  LET i == Newest(log, k, n)
         IN  /\ i \in 1..k
             /\ log[i].name = n
             /\ \A j \in (i + 1)..k : log[j].name # n
<1> DEFINE Dist == {k - i : i \in {j \in 1..k : log[j].name = n}}
<1>1. Dist \in SUBSET Nat /\ Dist # {}
  BY DeltaLogAssumption DEF Mentions
<1>2. PICK d \in Dist : \A e \in Dist : d <= e
  BY <1>1, LeastNat
<1>3. PICK i \in 1..k : d = k - i /\ log[i].name = n
  BY <1>2
<1>4. ASSUME NEW j \in (i + 1)..k
      PROVE  log[j].name # n
  <2>1. j \in 1..k /\ ~(k - i <= k - j)
    BY <1>3, <1>4, DeltaLogAssumption
  <2>2. k - j \notin Dist
    BY <1>2, <1>3, <2>1
  <2>3. QED
    BY <2>1, <2>2
<1>5. \E m \in 1..k : /\ log[m].name = n
                      /\ \A j \in (m + 1)..k : log[j].name # n
  BY <1>3, <1>4
<1>6. QED
  BY <1>5 DEF Newest

(* A record of a name with none after it is the newest.                    *)
LEMMA NewestUnique ==
  ASSUME NEW log \in Logs, NEW k \in 0..Region, NEW n, NEW i \in 1..k,
         log[i].name = n, \A j \in (i + 1)..k : log[j].name # n
  PROVE  Newest(log, k, n) = i
<1> DEFINE m == Newest(log, k, n)
<1>1. Mentions(log, k, n)
  BY DEF Mentions
<1>2. /\ m \in 1..k
      /\ log[m].name = n
      /\ \A j \in (m + 1)..k : log[j].name # n
  BY <1>1, NewestIs
<1> HIDE DEF m
<1>3. ~(m < i)
  BY <1>2, DeltaLogAssumption
<1>4. ~(i < m)
  BY <1>2, DeltaLogAssumption
<1>5. QED
  BY <1>2, <1>3, <1>4, DeltaLogAssumption DEF m

-----------------------------------------------------------------------------
(* The names of INSERT, DELETE and NOP differ, which only matters to the   *)
(* provers.                                                                *)
LEMMA OpsDiffer == INSERT # NOP /\ DELETE # NOP /\ INSERT # DELETE
BY DEF INSERT, DELETE, NOP

(* Writing a record, cancelling one and copying a tail keep a log a log.   *)
LEMMA WriteType ==
  ASSUME NEW log \in Logs, NEW used \in Nat, NEW rec \in Record
  PROVE  Write(log, used, rec) \in Logs
BY DEF Write, Logs

LEMMA CancelType ==
  ASSUME NEW log \in Logs, NEW k
  PROVE  Cancel(log, k) \in Logs
<1>1. ASSUME NEW i \in 1..Region, log[i] # Hole
      PROVE  [log[i] EXCEPT !.op = NOP] \in Record
  BY <1>1 DEF Logs, Record
<1>2. QED
  BY <1>1 DEF Cancel, Logs

LEMMA CopyCellsType ==
  ASSUME NEW dst \in Logs, NEW src \in Logs, NEW lo \in Nat,
         NEW hi \in 0..Region, NEW shift \in Nat
  PROVE  CopyCells(dst, src, lo, hi, shift) \in Logs
<1>1. ASSUME NEW i \in 1..Region, i > lo - shift, i <= hi - shift
      PROVE  src[i + shift] \in Record \cup {Hole}
  <2>1. i + shift \in 1..Region
    BY <1>1, DeltaLogAssumption
  <2>2. QED
    BY <2>1 DEF Logs
<1>2. QED
  BY <1>1 DEF CopyCells, Logs

(* An accepted cell holds an INSERT or a DELETE.                           *)
LEMMA AcceptedRecord ==
  ASSUME NEW log \in Logs, NEW seqBase \in Nat, NEW i \in 1..Region,
         Accepted(log, seqBase, i)
  PROVE  /\ log[i] \in Record
         /\ log[i].op \in {INSERT, DELETE}
         /\ log[i].name \in Name
         /\ log[i].ino \in Ino \cup {NoIno}
BY OpsDiffer DEF Accepted, Logs, Record

(* Replay of accepted cells builds a tree of entries without authority to  *)
(* cancel, and folding them over a base gives a map.                       *)
LEMMA ReplayTreeIs ==
  ASSUME NEW log \in Logs, NEW seqBase \in Nat, NEW k \in 0..Region,
         \A i \in 1..k : Accepted(log, seqBase, i)
  PROVE  \A n \in Name :
           IF Mentions(log, k, n)
           THEN /\ ReplayTree(log, k)[n] \in Entry
                /\ ReplayTree(log, k)[n].ino = log[Newest(log, k, n)].ino
                /\ ReplayTree(log, k)[n].op = log[Newest(log, k, n)].op
                /\ ReplayTree(log, k)[n].tail = FALSE
           ELSE ReplayTree(log, k)[n] = NoEntry
<1> USE DeltaLogAssumption
<1>1. SUFFICES ASSUME NEW n \in Name, Mentions(log, k, n)
      PROVE  /\ ReplayTree(log, k)[n] \in Entry
             /\ ReplayTree(log, k)[n].ino = log[Newest(log, k, n)].ino
             /\ ReplayTree(log, k)[n].op = log[Newest(log, k, n)].op
             /\ ReplayTree(log, k)[n].tail = FALSE
  BY DEF ReplayTree
<1> DEFINE m == Newest(log, k, n)
           r == log[m]
<1>2. m \in 1..k /\ m \in 1..Region
  BY <1>1, NewestIs
<1>3. r.op \in {INSERT, DELETE} /\ r.ino \in Ino \cup {NoIno}
  BY <1>2, AcceptedRecord
<1>4. ReplayTree(log, k)[n] = [op |-> r.op, ino |-> r.ino, seq |-> 0, tail |-> FALSE]
  BY <1>1 DEF ReplayTree
<1> HIDE DEF m
<1>5. QED
  BY <1>3, <1>4 DEF Entry, m

LEMMA ReplayTreeType ==
  ASSUME NEW log \in Logs, NEW seqBase \in Nat, NEW k \in 0..Region,
         \A i \in 1..k : Accepted(log, seqBase, i)
  PROVE  ReplayTree(log, k) \in Trees
<1>1. \A n \in Name : ReplayTree(log, k)[n] \in Entry \cup {NoEntry}
  BY ReplayTreeIs
<1>2. QED
  BY <1>1 DEF ReplayTree, Trees

(* A map overridden by a tree of entries is a map.                         *)
LEMMA OverlayType ==
  ASSUME NEW base \in Maps, NEW tree \in Trees
  PROVE  Overlay(base, tree) \in Maps
BY DeltaLogAssumption DEF Overlay, Maps, Trees, Entry

(* What lookups see after a replay is the fold of the log: the tree and    *)
(* the merge of compaction agree with applying the records one by one.     *)
LEMMA OverlayReplay ==
  ASSUME NEW base \in Maps, NEW log \in Logs, NEW seqBase \in Nat,
         NEW k \in 0..Region, \A i \in 1..k : Accepted(log, seqBase, i)
  PROVE  Overlay(base, ReplayTree(log, k)) = Fold(base, log, k)
<1>1. \A n \in Name :
        (IF ReplayTree(log, k)[n] = NoEntry THEN base[n]
                                            ELSE ReplayTree(log, k)[n].ino)
        = (IF Mentions(log, k, n) THEN log[Newest(log, k, n)].ino
                                  ELSE base[n])
  BY ReplayTreeIs, DeltaLogAssumption
<1>2. QED
  BY <1>1 DEF Overlay, Fold

-----------------------------------------------------------------------------
(* Logs that agree on their first k cells fold to the same map.            *)
LEMMA FoldAgrees ==
  ASSUME NEW base, NEW log1 \in Logs, NEW log2 \in Logs,
         NEW k \in 0..Region, \A i \in 1..k : log1[i] = log2[i]
  PROVE  Fold(base, log1, k) = Fold(base, log2, k)
<1>1. ASSUME NEW n \in Name
      PROVE  /\ Mentions(log1, k, n) <=> Mentions(log2, k, n)
             /\ Mentions(log1, k, n) =>
                  log1[Newest(log1, k, n)] = log2[Newest(log2, k, n)]
  <2>1. Mentions(log1, k, n) <=> Mentions(log2, k, n)
    BY DEF Mentions
  <2>2. ASSUME Mentions(log1, k, n)
        PROVE  log1[Newest(log1, k, n)] = log2[Newest(log2, k, n)]
    <3> DEFINE m == Newest(log1, k, n)
    <3>1. /\ m \in 1..k
          /\ log1[m].name = n
          /\ \A j \in (m + 1)..k : log1[j].name # n
      BY <2>2, NewestIs
    <3> HIDE DEF m
    <3>2. log2[m].name = n /\ \A j \in (m + 1)..k : log2[j].name # n
      BY <3>1, DeltaLogAssumption
    <3>3. Newest(log2, k, n) = m
      BY <3>1, <3>2, NewestUnique
    <3>4. QED
      BY <3>1, <3>3 DEF m
  <2>3. QED
    BY <2>1, <2>2
<1>2. QED
  BY <1>1 DEF Fold

(* The fold of no record is the base.                                      *)
LEMMA FoldNone ==
  ASSUME NEW base \in Maps, NEW log
  PROVE  Fold(base, log, 0) = base
<1>1. \A n \in Name : ~Mentions(log, 0, n)
  BY DEF Mentions
<1>2. QED
  BY <1>1 DEF Fold, Maps

(* One more record changes the binding of its name, and no other.          *)
LEMMA FoldOneMore ==
  ASSUME NEW base \in Maps, NEW log \in Logs, NEW k \in Nat, k + 1 <= Region,
         NEW n0 \in Name, log[k + 1].name = n0
  PROVE  Fold(base, log, k + 1) =
           [Fold(base, log, k) EXCEPT ![n0] = log[k + 1].ino]
<1> USE DeltaLogAssumption
<1>0. k \in 0..Region /\ k + 1 \in 0..Region /\ k + 1 \in 1..(k + 1)
  OBVIOUS
<1>1. Mentions(log, k + 1, n0) /\ Newest(log, k + 1, n0) = k + 1
  <2>1. \A j \in ((k + 1) + 1)..(k + 1) : log[j].name # n0
    BY <1>0
  <2>2. QED
    BY <1>0, <2>1, NewestUnique DEF Mentions
<1>2. ASSUME NEW n \in Name, n # n0
      PROVE  /\ Mentions(log, k + 1, n) <=> Mentions(log, k, n)
             /\ Mentions(log, k, n) =>
                  Newest(log, k + 1, n) = Newest(log, k, n)
  <2>1. \A j \in 1..(k + 1) : log[j].name = n => j \in 1..k
    BY <1>2
  <2>2. Mentions(log, k + 1, n) <=> Mentions(log, k, n)
    BY <2>1 DEF Mentions
  <2>3. ASSUME Mentions(log, k, n)
        PROVE  Newest(log, k + 1, n) = Newest(log, k, n)
    <3> DEFINE m == Newest(log, k, n)
    <3>1. /\ m \in 1..k
          /\ log[m].name = n
          /\ \A j \in (m + 1)..k : log[j].name # n
      BY <1>0, <2>3, NewestIs
    <3> HIDE DEF m
    <3>2. m \in 1..(k + 1) /\ \A j \in (m + 1)..(k + 1) : log[j].name # n
      BY <3>1, <1>2, <1>0
    <3>3. Newest(log, k + 1, n) = m
      BY <1>0, <3>1, <3>2, NewestUnique
    <3>4. QED
      BY <3>3 DEF m
  <2>4. QED
    BY <2>2, <2>3
<1>3. \A n \in Name :
        Fold(base, log, k + 1)[n] =
          [Fold(base, log, k) EXCEPT ![n0] = log[k + 1].ino][n]
  BY <1>1, <1>2 DEF Fold
<1>4. QED
  BY <1>3 DEF Fold

(* Folding a prefix and then the shifted tail is folding the whole log:    *)
(* merging the snapshot and replaying the copied tail loses nothing.       *)
LEMMA FoldSplit ==
  ASSUME NEW base \in Maps, NEW log \in Logs, NEW tail \in Logs,
         NEW s \in Nat, NEW m \in Nat, s + m <= Region,
         \A i \in 1..m : tail[i] = log[i + s]
  PROVE  Fold(Fold(base, log, s), tail, m) = Fold(base, log, s + m)
<1> USE DeltaLogAssumption
<1>0. s \in 0..Region /\ m \in 0..Region /\ s + m \in 0..Region
  OBVIOUS
<1>1. ASSUME NEW n \in Name, Mentions(tail, m, n)
      PROVE  /\ Mentions(log, s + m, n)
             /\ log[Newest(log, s + m, n)] = tail[Newest(tail, m, n)]
  <2> DEFINE t == Newest(tail, m, n)
  <2>1. /\ t \in 1..m
        /\ tail[t].name = n
        /\ \A j \in (t + 1)..m : tail[j].name # n
    BY <1>0, <1>1, NewestIs
  <2> HIDE DEF t
  <2>2. t + s \in 1..(s + m) /\ log[t + s].name = n
    BY <2>1
  <2>3. ASSUME NEW j \in ((t + s) + 1)..(s + m)
        PROVE  log[j].name # n
    <3>1. j - s \in (t + 1)..m /\ j - s \in 1..m /\ (j - s) + s = j
      BY <2>1, <2>3
    <3>2. QED
      BY <2>1, <3>1
  <2>4. Newest(log, s + m, n) = t + s
    BY <1>0, <2>2, <2>3, NewestUnique
  <2>5. QED
    BY <2>1, <2>2, <2>4 DEF Mentions, t
<1>2. ASSUME NEW n \in Name, ~Mentions(tail, m, n)
      PROVE  /\ Mentions(log, s + m, n) <=> Mentions(log, s, n)
             /\ Mentions(log, s, n) =>
                  Newest(log, s + m, n) = Newest(log, s, n)
  <2>1. ASSUME NEW j \in (s + 1)..(s + m)
        PROVE  log[j].name # n
    <3>1. j - s \in 1..m /\ (j - s) + s = j
      BY <2>1
    <3>2. QED
      BY <1>2, <3>1 DEF Mentions
  <2>2. Mentions(log, s + m, n) <=> Mentions(log, s, n)
    <3>1. \A j \in 1..(s + m) : log[j].name = n => j \in 1..s
      BY <2>1
    <3>2. QED
      BY <3>1 DEF Mentions
  <2>3. ASSUME Mentions(log, s, n)
        PROVE  Newest(log, s + m, n) = Newest(log, s, n)
    <3> DEFINE t == Newest(log, s, n)
    <3>1. /\ t \in 1..s
          /\ log[t].name = n
          /\ \A j \in (t + 1)..s : log[j].name # n
      BY <1>0, <2>3, NewestIs
    <3> HIDE DEF t
    <3>2. t \in 1..(s + m) /\ \A j \in (t + 1)..(s + m) : log[j].name # n
      BY <3>1, <2>1
    <3>3. Newest(log, s + m, n) = t
      BY <1>0, <3>1, <3>2, NewestUnique
    <3>4. QED
      BY <3>3 DEF t
  <2>4. QED
    BY <2>2, <2>3
<1>3. \A n \in Name :
        Fold(Fold(base, log, s), tail, m)[n] = Fold(base, log, s + m)[n]
  BY <1>1, <1>2 DEF Fold
<1>4. QED
  BY <1>3 DEF Fold

-----------------------------------------------------------------------------
(* A record written with the next sequence number, and the end marker      *)
(* behind it, make a log that replays the old records and this one: no     *)
(* stale cell beyond it is ever reached.                                   *)
LEMMA WriteReplays ==
  ASSUME NEW log \in Logs, NEW seqBase \in Nat, NEW rec \in Record,
         rec.op # NOP,
         ReplayLength(log, seqBase) + 1 <= Region,
         rec.seq = seqBase + ReplayLength(log, seqBase) + 1
  PROVE  LET k == ReplayLength(log, seqBase)
             new == Write(log, k, rec)
         IN  /\ new \in Logs
             /\ \A i \in 1..k : new[i] = log[i]
             /\ new[k + 1] = rec
             /\ ReplayLength(new, seqBase) = k + 1
             /\ \A base \in Maps : Fold(base, new, k + 1) =
                  [Fold(base, log, k) EXCEPT ![rec.name] = rec.ino]
<1> USE DeltaLogAssumption
<1> DEFINE k == ReplayLength(log, seqBase)
           new == Write(log, k, rec)
<1>1. k \in 0..Region /\ \A i \in 1..k : Accepted(log, seqBase, i)
  BY ReplayLengthIs
<1>2. k + 1 <= Region /\ rec.seq = seqBase + k + 1
  OBVIOUS
<1> HIDE DEF k
<1>3. /\ new \in Logs
      /\ \A i \in 1..k : new[i] = log[i]
      /\ new[k + 1] = rec
      /\ k + 1 < Region => new[(k + 1) + 1] = Hole
  <2>1. k \in Nat /\ rec.seq \in Nat
    BY <1>1 DEF Record
  <2>2. new \in Logs
    BY <2>1, WriteType
  <2>3. new = [i \in 1..Region |-> CASE i = k + 1 -> rec
                                     [] i = k + 2 -> Hole
                                     [] OTHER -> log[i]]
    BY DEF Write
  <2> HIDE DEF new
  <2>4. \A i \in 1..k : new[i] = log[i]
    <3>1. ASSUME NEW i \in 1..k PROVE new[i] = log[i]
      <4>1. i \in 1..Region /\ i # k + 1 /\ i # k + 2
        BY <1>1
      <4>2. QED
        BY <2>3, <4>1
    <3>2. QED
      BY <3>1
  <2>5. new[k + 1] = rec
    BY <1>2, <2>1, <2>3
  <2>6. k + 1 < Region => new[(k + 1) + 1] = Hole
    BY <2>1, <2>3
  <2>7. QED
    BY <2>2, <2>4, <2>5, <2>6
<1> HIDE DEF new
<1>4. \A i \in 1..(k + 1) : Accepted(new, seqBase, i)
  <2>1. ASSUME NEW i \in 1..k PROVE Accepted(new, seqBase, i)
    BY <1>1, <1>3 DEF Accepted
  <2>2. Accepted(new, seqBase, k + 1)
    BY <1>1, <1>2, <1>3 DEF Accepted
  <2>3. \A i \in 1..(k + 1) : i \in 1..k \/ i = k + 1
    BY <1>1
  <2>4. QED
    BY <2>1, <2>2, <2>3
<1>5. k + 1 < Region => ~Accepted(new, seqBase, (k + 1) + 1)
  BY <1>3 DEF Accepted
<1>6. ReplayLength(new, seqBase) = k + 1
  <2>1. k + 1 \in 0..Region
    BY <1>1, <1>2
  <2>2. QED
    BY <1>3, <1>4, <1>5, <2>1, ReplayLengthUnique
<1>7. ASSUME NEW base \in Maps
      PROVE  Fold(base, new, k + 1) =
               [Fold(base, log, k) EXCEPT ![rec.name] = rec.ino]
  <2>1. Fold(base, new, k) = Fold(base, log, k)
    BY <1>1, <1>3, FoldAgrees
  <2>2. rec.name \in Name /\ new[k + 1].name = rec.name /\ k \in Nat
    BY <1>1, <1>3 DEF Record
  <2>3. QED
    BY <1>2, <1>3, <2>1, <2>2, FoldOneMore
<1>8. QED
  BY <1>3, <1>6, <1>7 DEF k, new

(* The last record rewritten to NOP makes a log that replays the others;   *)
(* the base shows through where the record was its name's only one.        *)
LEMMA CancelReplays ==
  ASSUME NEW log \in Logs, NEW seqBase \in Nat, NEW n \in Name,
         ReplayLength(log, seqBase) >= 1,
         \A i \in 1..ReplayLength(log, seqBase) :
           log[i].name = n <=> i = ReplayLength(log, seqBase)
  PROVE  LET k == ReplayLength(log, seqBase)
             new == Cancel(log, k)
         IN  /\ new \in Logs
             /\ \A i \in 1..(k - 1) : new[i] = log[i]
             /\ ReplayLength(new, seqBase) = k - 1
             /\ \A base \in Maps : Fold(base, new, k - 1) =
                  [Fold(base, log, k) EXCEPT ![n] = base[n]]
<1> USE DeltaLogAssumption
<1> DEFINE k == ReplayLength(log, seqBase)
           new == Cancel(log, k)
<1>1. /\ k \in 0..Region /\ \A i \in 1..k : Accepted(log, seqBase, i)
      /\ k >= 1 /\ \A i \in 1..k : log[i].name = n <=> i = k
  BY ReplayLengthIs
<1> HIDE DEF k
<1>2. k \in 1..Region /\ log[k] # Hole /\ log[k] \in Record
  <2>1. k \in 1..Region /\ k \in 1..k
    BY <1>1
  <2>2. QED
    BY <1>1, <2>1 DEF Accepted, Logs
<1>3. /\ new \in Logs
      /\ \A i \in 1..(k - 1) : new[i] = log[i]
      /\ new[k].op = NOP
  <2>1. new \in Logs
    BY CancelType
  <2>2. \A i \in 1..Region :
          new[i] = IF i = k /\ log[i] # Hole THEN [log[i] EXCEPT !.op = NOP]
                                             ELSE log[i]
    BY DEF Cancel
  <2>3. new[k] = [log[k] EXCEPT !.op = NOP]
    BY <1>2, <2>2
  <2>4. new[k].op = NOP
    BY <1>2, <2>3 DEF Record
  <2> HIDE DEF new
  <2>5. \A i \in 1..(k - 1) : i \in 1..Region /\ i # k
    BY <1>2
  <2>6. QED
    BY <2>1, <2>2, <2>4, <2>5
<1> HIDE DEF new
<1>4. k - 1 \in 0..Region /\ (k - 1) + 1 = k /\ k - 1 \in Nat
  BY <1>1
<1>5. \A i \in 1..(k - 1) : Accepted(new, seqBase, i)
  <2>1. ASSUME NEW i \in 1..(k - 1) PROVE Accepted(log, seqBase, i)
    BY <1>1
  <2>2. QED
    BY <1>3, <2>1 DEF Accepted
<1>6. ~Accepted(new, seqBase, (k - 1) + 1)
  BY <1>3, <1>4 DEF Accepted
<1>7. ReplayLength(new, seqBase) = k - 1
  BY <1>3, <1>4, <1>5, <1>6, ReplayLengthUnique
<1>8. ASSUME NEW base \in Maps
      PROVE  Fold(base, new, k - 1) = [Fold(base, log, k) EXCEPT ![n] = base[n]]
  <2> DEFINE old == Fold(base, log, k - 1)
  <2>1. Fold(base, new, k - 1) = old
    BY <1>3, <1>4, FoldAgrees
  <2>2. Fold(base, log, k) = [old EXCEPT ![n] = log[k].ino]
    <3> DEFINE j == k - 1
    <3>1. j \in Nat /\ j + 1 <= Region /\ j + 1 = k /\ log[j + 1].name = n
      BY <1>1
    <3> HIDE DEF j
    <3>2. Fold(base, log, j + 1) = [Fold(base, log, j) EXCEPT ![n] = log[j + 1].ino]
      BY <3>1, FoldOneMore
    <3>3. QED
      BY <3>1, <3>2 DEF j
  <2>3. old[n] = base[n]
    <3>1. \A i \in 1..(k - 1) : i \in 1..k /\ i # k
      BY <1>1
    <3>2. ~Mentions(log, k - 1, n)
      BY <1>1, <3>1 DEF Mentions
    <3>3. QED
      BY <3>2 DEF Fold
  <2>4. old = [m \in Name |-> old[m]]
    BY DEF Fold
  <2> HIDE DEF old
  <2>5. QED
    BY <2>1, <2>2, <2>3, <2>4
<1>9. QED
  BY <1>3, <1>7, <1>8 DEF k, new

-----------------------------------------------------------------------------
(* The states of StableRoot.                                               *)

(* What the types alone do not say: a generation sits in the slot its      *)
(* parity names and one slot is in use, a blob's log position lies in its  *)
(* region, a compaction that builds has its cut, and its staged generation *)
(* is published when it reclaims the old one.                              *)
SlotsOK(slots) == /\ \E s \in {0, 1} : slots[s] # NoGen
                  /\ \A s \in {0, 1} : slots[s] # NoGen => slots[s].gen % 2 = s

BlobOK(b) == b # NoBlob => b.used <= Region /\ b.nextSeq >= 1

TypeInv == /\ TypeOK
           /\ SlotsOK(slot) /\ SlotsOK(saved.slot)
           /\ BlobOK(mem) /\ \A t \in Thread : BlobOK(parsed[t])
           /\ Building => cmp.snapSeq >= 1
           /\ cmp.pc = "reclaim" => slot[(cmp.gen + 1) % 2] # NoGen

USE DEF Building

-----------------------------------------------------------------------------
(* Mount finds a generation, the newest of the two.                        *)
LEMMA ActiveSlotIs ==
  ASSUME NEW slots \in Slots, SlotsOK(slots)
  PROVE  /\ ActiveSlot(slots) \in {0, 1}
         /\ slots[ActiveSlot(slots)] # NoGen
         /\ \A t \in {0, 1} : slots[t] # NoGen =>
              slots[t].gen <= slots[ActiveSlot(slots)].gen
         /\ ActiveGen(slots) \in Generation
         /\ ActiveGen(slots) # NoGen
         /\ ActiveGen(slots).gen % 2 = ActiveSlot(slots)
<1>1. \E s \in {0, 1} :
        /\ slots[s] # NoGen
        /\ \A t \in {0, 1} : slots[t] # NoGen => slots[t].gen <= slots[s].gen
  <2>1. \A s \in {0, 1} : slots[s] # NoGen => slots[s].gen \in Nat
    BY DEF Slots, Generation
  <2>2. CASE slots[0] = NoGen
    BY <2>1, <2>2 DEF SlotsOK
  <2>3. CASE slots[1] = NoGen
    BY <2>1, <2>3 DEF SlotsOK
  <2>4. CASE slots[0] # NoGen /\ slots[1] # NoGen
    <3>1. slots[0].gen <= slots[1].gen \/ slots[1].gen <= slots[0].gen
      BY <2>1, <2>4
    <3>2. QED
      BY <2>1, <2>4, <3>1
  <2>5. QED
    BY <2>2, <2>3, <2>4
<1>2. /\ ActiveSlot(slots) \in {0, 1}
      /\ slots[ActiveSlot(slots)] # NoGen
      /\ \A t \in {0, 1} : slots[t] # NoGen =>
           slots[t].gen <= slots[ActiveSlot(slots)].gen
  BY <1>1 DEF ActiveSlot
<1>3. QED
  BY <1>2 DEF ActiveGen, SlotsOK, Slots

(* Parsing a generation gives a blob whose position lies in its region.    *)
LEMMA ParseGenType ==
  ASSUME NEW g \in Generation
  PROVE  ParseGen(g) \in Blob /\ BlobOK(ParseGen(g))
<1> DEFINE k == ReplayLength(g.log, g.seqBase)
<1>1. g.log \in Logs /\ g.seqBase \in Nat /\ g.gen \in Nat /\ g.base \in Maps
  BY DEF Generation
<1>2. k \in 0..Region /\ \A i \in 1..k : Accepted(g.log, g.seqBase, i)
  BY <1>1, ReplayLengthIs
<1>3. ReplayTree(g.log, k) \in Trees
  BY <1>1, <1>2, ReplayTreeType
<1> HIDE DEF k
<1>4. k \in Nat /\ k <= Region
  BY <1>2, DeltaLogAssumption
<1>5. ParseGen(g) = [gen |-> g.gen, base |-> g.base, seqBase |-> g.seqBase,
                     tree |-> ReplayTree(g.log, k), used |-> k,
                     nextSeq |-> g.seqBase + k + 1, floor |-> 0]
  BY DEF ParseGen, k
<1>6. QED
  BY <1>1, <1>3, <1>4, <1>5 DEF Blob, BlobOK

LEMMA ParseBlobType ==
  ASSUME NEW slots \in Slots, SlotsOK(slots)
  PROVE  ParseBlob(slots) \in Blob /\ BlobOK(ParseBlob(slots))
BY ActiveSlotIs, ParseGenType DEF ParseBlob

LEMMA LogOfType ==
  ASSUME NEW slots \in Slots, NEW g \in Nat
  PROVE  LogOf(slots, g) \in Logs
<1>1. EmptyLog \in Logs
  BY DEF EmptyLog, Logs
<1>2. g % 2 \in {0, 1}
  OBVIOUS
<1>3. QED
  BY <1>1, <1>2 DEF LogOf, Holds, Slots, Generation

(* Rewriting the log of a generation leaves the slots in place.            *)
LEMMA SetLogType ==
  ASSUME NEW slots \in Slots, SlotsOK(slots), NEW g \in Nat, NEW log \in Logs
  PROVE  /\ SetLog(slots, g, log) \in Slots
         /\ SlotsOK(SetLog(slots, g, log))
         /\ \A s \in {0, 1} : slots[s] # NoGen <=> SetLog(slots, g, log)[s] # NoGen
<1>1. CASE ~Holds(slots, g)
  BY <1>1 DEF SetLog
<1>2. CASE Holds(slots, g)
  <2>1. g % 2 \in {0, 1} /\ slots[g % 2] \in Generation
    BY <1>2 DEF Holds, Slots
  <2> DEFINE new == [slots[g % 2] EXCEPT !.log = log]
  <2>2. new \in Generation /\ new.gen = slots[g % 2].gen /\ new # NoGen
    BY <2>1, StableRootAssumption DEF Generation
  <2>3. SetLog(slots, g, log) = [slots EXCEPT ![g % 2] = new]
    BY <1>2 DEF SetLog
  <2> HIDE DEF new
  <2>4. QED
    BY <1>2, <2>1, <2>2, <2>3 DEF Slots, SlotsOK, Holds
<1>3. QED
  BY <1>1, <1>2

-----------------------------------------------------------------------------
LEMMA InitTypeInv == Init => TypeInv
<1> SUFFICES ASSUME Init PROVE TypeInv
  OBVIOUS
<1> USE DEF Init
<1> DEFINE g == [gen |-> 1, base |-> ns, seqBase |-> 0, log |-> EmptyLog]
<1>1. g \in Generation /\ g # NoGen /\ g.gen = 1
  <2>1. g \in Generation
    BY DEF Generation, EmptyLog, Logs
  <2>2. QED
    BY <2>1, StableRootAssumption
<1>2. slot = [s \in {0, 1} |-> IF s = 1 THEN g ELSE NoGen]
  OBVIOUS
<1> HIDE DEF g
<1>3. slot \in Slots /\ SlotsOK(slot)
  BY <1>1, <1>2 DEF Slots, SlotsOK
<1>4. cmp \in Compaction /\ cmp.pc = "idle"
  BY DeltaLogAssumption DEF Idle, Compaction, EmptyLog, Logs, Maps
<1>5. QED
  BY <1>3, <1>4 DEF TypeInv, TypeOK, BlobOK

(* A record applied to a tree gives a tree.                                *)
LEMMA AppliedType ==
  ASSUME NEW tree \in Trees, NEW rec \in Record, rec.op \in {INSERT, DELETE},
         NEW tail \in BOOLEAN
  PROVE  Applied(tree, rec, tail) \in Trees
<1> DEFINE e == [op |-> rec.op, ino |-> rec.ino, seq |-> rec.seq, tail |-> tail]
<1>1. e \in Entry
  BY DEF Record, Entry
<1> HIDE DEF e
<1>2. Applied(tree, rec, tail) = [tree EXCEPT ![rec.name] = e]
  BY DEF Applied, e
<1>3. QED
  BY <1>1, <1>2 DEF Trees

LEMMA RecType ==
  ASSUME NEW seq \in Nat, NEW op \in {INSERT, DELETE}, NEW n \in Name,
         NEW i \in Ino \cup {NoIno}
  PROVE  /\ Rec(seq, op, n, i) \in Record
         /\ Rec(seq, op, n, i).seq = seq
         /\ Rec(seq, op, n, i).op = op
         /\ Rec(seq, op, n, i).name = n
         /\ Rec(seq, op, n, i).ino = i
BY DEF Rec, Record

(* The fields of an installed blob have their types.                       *)
LEMMA BlobFields ==
  ASSUME NEW b \in Blob
  PROVE  /\ b.gen \in Nat /\ b.base \in Maps /\ b.seqBase \in Nat
         /\ b.tree \in Trees /\ b.used \in Nat /\ b.nextSeq \in Nat
         /\ b.floor \in Nat
BY DEF Blob

(* Appending a record keeps the types of the log and of the blob.          *)
LEMMA AppendType ==
  ASSUME TypeInv, mem # NoBlob,
         NEW rec \in Record, rec.op \in {INSERT, DELETE}, NEW tail \in BOOLEAN,
         AppendRecord(rec, tail)
  PROVE  /\ slot' \in Slots /\ SlotsOK(slot')
         /\ \A s \in {0, 1} : slot[s] # NoGen <=> slot'[s] # NoGen
         /\ mem' \in Blob /\ BlobOK(mem')
<1> USE DeltaLogAssumption
<1>1. mem \in Blob /\ slot \in Slots /\ SlotsOK(slot)
  BY DEF TypeInv, TypeOK
<1>2. /\ mem.gen \in Nat /\ mem.base \in Maps /\ mem.seqBase \in Nat
      /\ mem.tree \in Trees /\ mem.used \in Nat /\ mem.nextSeq \in Nat
      /\ mem.floor \in Nat
  BY <1>1, BlobFields
<1>3. Write(LogOf(slot, mem.gen), mem.used, rec) \in Logs
  BY <1>1, <1>2, LogOfType, WriteType
<1>4. /\ slot' \in Slots /\ SlotsOK(slot')
      /\ \A s \in {0, 1} : slot[s] # NoGen <=> slot'[s] # NoGen
  BY <1>1, <1>2, <1>3, SetLogType DEF AppendRecord
<1>5. Applied(mem.tree, rec, tail) \in Trees /\ rec.seq \in Nat
  BY <1>2, AppliedType DEF Record
<1>6. mem' = [mem EXCEPT !.tree = Applied(mem.tree, rec, tail),
                         !.used = mem.used + 1, !.nextSeq = rec.seq + 1]
  BY DEF AppendRecord
<1>7. mem.used + 1 <= Region /\ mem.used + 1 \in Nat
      /\ rec.seq + 1 \in Nat /\ rec.seq + 1 >= 1
  BY <1>2, <1>5 DEF AppendRecord
<1>8. /\ mem' \in Blob
      /\ mem'.used = mem.used + 1 /\ mem'.nextSeq = rec.seq + 1
  <2> DEFINE T == Applied(mem.tree, rec, tail)
             U == mem.used + 1
             S == rec.seq + 1
  <2>1. T \in Trees /\ U \in Nat /\ S \in Nat
    BY <1>5, <1>7
  <2>2. mem' = [mem EXCEPT !.tree = T, !.used = U, !.nextSeq = S]
    BY <1>6
  <2> HIDE DEF T, U, S
  <2>3. mem' \in Blob /\ mem'.used = U /\ mem'.nextSeq = S
    BY <1>1, <2>1, <2>2 DEF Blob
  <2>4. QED
    BY <2>3 DEF U, S
<1>9. QED
  BY <1>4, <1>7, <1>8 DEF BlobOK

(* Cancelling the newest record keeps them too: there is one to cancel.    *)
LEMMA CancelType2 ==
  ASSUME TypeInv, mem # NoBlob, NEW n \in Name, Cancellable(n), CancelRecord(n)
  PROVE  /\ slot' \in Slots /\ SlotsOK(slot')
         /\ \A s \in {0, 1} : slot[s] # NoGen <=> slot'[s] # NoGen
         /\ mem' \in Blob /\ BlobOK(mem')
         /\ cmp' \in Compaction
         /\ cmp'.pc = cmp.pc /\ cmp'.gen = cmp.gen /\ cmp'.snapSeq = cmp.snapSeq
<1> USE DeltaLogAssumption
<1>1. mem \in Blob /\ slot \in Slots /\ SlotsOK(slot) /\ cmp \in Compaction
  BY DEF TypeInv, TypeOK
<1>2. /\ mem.gen \in Nat /\ mem.base \in Maps /\ mem.seqBase \in Nat
      /\ mem.tree \in Trees /\ mem.used \in Nat /\ mem.nextSeq \in Nat
      /\ mem.floor \in Nat /\ mem.used <= Region
  BY <1>1, BlobFields DEF TypeInv, BlobOK
<1> DEFINE e == mem.tree[n]
           k == e.seq - mem.seqBase
<1>3. e \in Entry /\ e.seq \in Nat
  BY <1>2 DEF Cancellable, Trees, Entry
<1>4. k = mem.used /\ k > mem.floor /\ e.seq >= 1
  BY <1>2, <1>3 DEF Cancellable
<1>5. /\ slot' = SetLog(slot, mem.gen, Cancel(LogOf(slot, mem.gen), k))
      /\ mem' = [mem EXCEPT !.tree[n] = NoEntry,
                            !.used = k - 1, !.nextSeq = e.seq]
      /\ cmp' = [cmp EXCEPT !.rewound = cmp.rewound \/
                              (cmp.pc \in {"copy", "final"} /\ k - 1 < cmp.copied)]
  BY DEF CancelRecord
<1> HIDE DEF e, k
<1>6. Cancel(LogOf(slot, mem.gen), k) \in Logs
  BY <1>1, <1>2, LogOfType, CancelType
<1>7. /\ slot' \in Slots /\ SlotsOK(slot')
      /\ \A s \in {0, 1} : slot[s] # NoGen <=> slot'[s] # NoGen
  BY <1>1, <1>2, <1>5, <1>6, SetLogType
<1>8. k - 1 \in Nat /\ k - 1 <= Region
  BY <1>2, <1>4
<1>9. [mem.tree EXCEPT ![n] = NoEntry] \in Trees
  BY <1>2 DEF Trees
<1>10. mem' \in Blob /\ BlobOK(mem')
  BY <1>1, <1>2, <1>3, <1>4, <1>5, <1>8, <1>9 DEF Blob, BlobOK
<1>11. /\ cmp' \in Compaction
       /\ cmp'.pc = cmp.pc /\ cmp'.gen = cmp.gen /\ cmp'.snapSeq = cmp.snapSeq
  <2>1. (cmp.rewound \/ (cmp.pc \in {"copy", "final"} /\ k - 1 < cmp.copied))
          \in BOOLEAN
    OBVIOUS
  <2>2. QED
    BY <1>1, <1>5, <2>1 DEF Compaction
<1>12. QED
  BY <1>7, <1>10, <1>11

-----------------------------------------------------------------------------
(* Each action keeps the type invariant.                                   *)
LEMMA EnsureTypeInv ==
  ASSUME TypeInv, NEW t \in Thread, EnsureParse(t) \/ EnsureInstall(t)
  PROVE  TypeInv'
<1>1. CASE EnsureParse(t)
  <2>1. ParseBlob(slot) \in Blob /\ BlobOK(ParseBlob(slot))
    BY ParseBlobType DEF TypeInv, TypeOK
  <2>2. QED
    BY <1>1, <2>1 DEF EnsureParse, TypeInv, TypeOK, BlobOK
<1>2. CASE EnsureInstall(t)
  <2>1. parsed[t] \in Blob /\ BlobOK(parsed[t])
    BY <1>2 DEF EnsureInstall, TypeInv, TypeOK
  <2>2. mem' \in Blob \cup {NoBlob} /\ BlobOK(mem') /\ tainted' \in BOOLEAN
    BY <1>2, <2>1 DEF EnsureInstall, TypeInv, TypeOK
  <2>3. QED
    BY <1>2, <2>2 DEF EnsureInstall, TypeInv, TypeOK, BlobOK
<1>3. QED
  BY <1>1, <1>2

LEMMA CreateTypeInv ==
  ASSUME TypeInv, NEW n \in Name, NEW i \in Ino, Create(n, i)
  PROVE  TypeInv'
<1>1. mem \in Blob /\ mem # NoBlob
  BY DEF Create, TypeInv, TypeOK
<1> DEFINE rec == Rec(mem.nextSeq, INSERT, n, i)
<1>2. rec \in Record /\ rec.op \in {INSERT, DELETE}
  BY <1>1, BlobFields, RecType
<1>3. AppendRecord(rec, mem.tree[n] = NoEntry)
      /\ (mem.tree[n] = NoEntry) \in BOOLEAN
  BY DEF Create
<1> HIDE DEF rec
<1>4. /\ slot' \in Slots /\ SlotsOK(slot')
      /\ \A s \in {0, 1} : slot[s] # NoGen <=> slot'[s] # NoGen
      /\ mem' \in Blob /\ BlobOK(mem')
  BY <1>1, <1>2, <1>3, AppendType
<1>5. ns' \in Maps
  BY DEF Create, TypeInv, TypeOK, Maps
<1>6. (cmp.gen + 1) % 2 \in {0, 1}
  BY DEF TypeInv, TypeOK, Compaction
<1>7. QED
  BY <1>4, <1>5, <1>6 DEF Create, TypeInv, TypeOK

LEMMA UnlinkTypeInv ==
  ASSUME TypeInv, NEW n \in Name, Unlink(n)
  PROVE  TypeInv'
<1>1. mem \in Blob /\ mem # NoBlob
  BY DEF Unlink, TypeInv, TypeOK
<1>2. /\ slot' \in Slots /\ SlotsOK(slot')
      /\ \A s \in {0, 1} : slot[s] # NoGen <=> slot'[s] # NoGen
      /\ mem' \in Blob /\ BlobOK(mem')
      /\ cmp' \in Compaction
      /\ cmp'.pc = cmp.pc /\ cmp'.gen = cmp.gen /\ cmp'.snapSeq = cmp.snapSeq
  <2>1. CASE Cancellable(n) /\ CancelRecord(n)
    BY <1>1, <2>1, CancelType2
  <2>2. CASE /\ AppendRecord(Rec(mem.nextSeq, DELETE, n, NoIno), FALSE)
             /\ UNCHANGED cmp
    <3> DEFINE rec == Rec(mem.nextSeq, DELETE, n, NoIno)
    <3>1. rec \in Record /\ rec.op \in {INSERT, DELETE}
      BY <1>1, BlobFields, RecType
    <3> HIDE DEF rec
    <3>2. AppendRecord(rec, FALSE)
      BY <2>2 DEF rec
    <3>3. QED
      BY <1>1, <2>2, <3>1, <3>2, AppendType DEF TypeInv, TypeOK
  <2>3. QED
    BY <2>1, <2>2 DEF Unlink
<1>3. ns' \in Maps
  BY DEF Unlink, TypeInv, TypeOK, Maps
<1>4. (cmp.gen + 1) % 2 \in {0, 1}
  BY DEF TypeInv, TypeOK, Compaction
<1>5. QED
  BY <1>2, <1>3, <1>4 DEF Unlink, TypeInv, TypeOK

LEMMA RenameTypeInv ==
  ASSUME TypeInv, NEW o \in Name, NEW n \in Name, Rename(o, n)
  PROVE  TypeInv'
<1> USE DeltaLogAssumption
<1>1. mem \in Blob /\ mem # NoBlob /\ slot \in Slots /\ SlotsOK(slot)
  BY DEF Rename, TypeInv, TypeOK
<1>2. /\ mem.gen \in Nat /\ mem.base \in Maps /\ mem.seqBase \in Nat
      /\ mem.tree \in Trees /\ mem.used \in Nat /\ mem.nextSeq \in Nat
      /\ mem.floor \in Nat
  BY <1>1, BlobFields
<1> DEFINE ins == Rec(mem.nextSeq, INSERT, n, ns[o])
           del == Rec(mem.nextSeq + 1, DELETE, o, NoIno)
           log == LogOf(slot, mem.gen)
           log2 == Write(Write(log, mem.used, ins), mem.used + 1, del)
           T == Applied(Applied(mem.tree, ins, FALSE), del, FALSE)
           U == mem.used + 2
           S == mem.nextSeq + 2
<1>3. ns[o] \in Ino \cup {NoIno} /\ mem.nextSeq + 1 \in Nat /\ mem.used + 1 \in Nat
  BY <1>2 DEF TypeInv, TypeOK, Maps
<1>4. /\ ins \in Record /\ ins.op \in {INSERT, DELETE}
      /\ del \in Record /\ del.op \in {INSERT, DELETE}
  BY <1>2, <1>3, RecType
<1>5. /\ slot' = SetLog(slot, mem.gen, log2)
      /\ mem' = [mem EXCEPT !.tree = T, !.used = U, !.nextSeq = S]
      /\ U <= Region
  BY DEF Rename
<1> HIDE DEF ins, del
<1>6. log2 \in Logs
  BY <1>1, <1>2, <1>3, <1>4, LogOfType, WriteType
<1>7. T \in Trees
  BY <1>2, <1>4, AppliedType
<1>8. U \in Nat /\ S \in Nat /\ S >= 1
  BY <1>2
<1> HIDE DEF log2, T, U, S
<1>9. /\ slot' \in Slots /\ SlotsOK(slot')
      /\ \A s \in {0, 1} : slot[s] # NoGen <=> slot'[s] # NoGen
  BY <1>1, <1>2, <1>5, <1>6, SetLogType
<1>10. mem' \in Blob /\ mem'.used = U /\ mem'.nextSeq = S
  BY <1>1, <1>5, <1>7, <1>8 DEF Blob
<1>11. ns' \in Maps
  BY DEF Rename, TypeInv, TypeOK, Maps
<1>12. (cmp.gen + 1) % 2 \in {0, 1}
  BY DEF TypeInv, TypeOK, Compaction
<1>13. BlobOK(mem')
  BY <1>5, <1>8, <1>10 DEF BlobOK
<1>14. QED
  BY <1>9, <1>10, <1>11, <1>12, <1>13 DEF Rename, TypeInv, TypeOK

(* What a published generation looks like.                                 *)
LEMMA StagedGenType ==
  ASSUME TypeInv, Building
  PROVE  /\ StagedGen \in Generation /\ StagedGen # NoGen
         /\ StagedGen.gen = cmp.gen + 1
         /\ ParseGen(StagedGen) \in Blob /\ BlobOK(ParseGen(StagedGen))
<1>1. /\ cmp.gen + 1 \in Nat /\ cmp.base \in Maps
      /\ cmp.snapSeq - 1 \in Nat /\ cmp.staged \in Logs
  BY DEF TypeInv, TypeOK, Compaction
<1>2. StagedGen \in Generation /\ StagedGen.gen = cmp.gen + 1
  BY <1>1 DEF StagedGen, Generation
<1>3. QED
  BY <1>2, ParseGenType, StableRootAssumption

(* A map overridden by replayed records is a map.                          *)
LEMMA MergedType ==
  ASSUME NEW base \in Maps, NEW log \in Logs, NEW seqBase \in Nat,
         NEW k \in 0..Region, \A i \in 1..k : Accepted(log, seqBase, i)
  PROVE  Overlay(base, ReplayTree(log, k)) \in Maps
BY ReplayTreeType, OverlayType

LEMMA CompactTypeInv ==
  ASSUME TypeInv, Compact
  PROVE  TypeInv'
<1> USE DeltaLogAssumption
<1>0. /\ slot \in Slots /\ SlotsOK(slot) /\ cmp \in Compaction
      /\ cmp.gen \in Nat /\ cmp.gen % 2 \in {0, 1} /\ (cmp.gen + 1) % 2 \in {0, 1}
      /\ cmp.gen % 2 # (cmp.gen + 1) % 2
  <2>1. cmp.gen \in Nat
    BY DEF TypeInv, TypeOK, Compaction
  <2>2. QED
    BY <2>1 DEF TypeInv, TypeOK
<1>1. CASE CompactCall \/ CompactSkip
  <2>1. cmp' \in Compaction /\ cmp'.pc \in {"called", "idle"}
    <3>1. Idle \in Compaction /\ Idle.pc = "idle"
      BY DEF Idle, Compaction, EmptyLog, Logs, Maps
    <3>2. cmp' = Idle \/ cmp' = [Idle EXCEPT !.pc = "called"]
      BY <1>1 DEF CompactCall, CompactSkip
    <3>3. QED
      BY <3>1, <3>2 DEF Compaction
  <2>2. UNCHANGED <<slot, mem, parsed, demotePending, ns, saved, tainted>>
    BY <1>1 DEF CompactCall, CompactSkip
  <2>3. QED
    BY <2>1, <2>2 DEF TypeInv, TypeOK
<1>2. CASE CompactNoBlob
  <2>1. cmp' \in Compaction /\ cmp'.pc = "leaked"
    BY <1>0, <1>2 DEF CompactNoBlob, Compaction
  <2>2. QED
    BY <1>2, <2>1 DEF CompactNoBlob, TypeInv, TypeOK
<1>3. CASE CompactBegin
  <2>1. mem \in Blob
    BY <1>3 DEF CompactBegin, TypeInv, TypeOK
  <2>2. /\ mem.gen \in Nat /\ mem.used \in Nat /\ mem.nextSeq \in Nat
        /\ mem.nextSeq >= 1 /\ mem.used <= Region
    BY <1>3, <2>1, BlobFields DEF CompactBegin, TypeInv, BlobOK
  <2>3. /\ cmp' \in Compaction
        /\ cmp'.pc = "merge" /\ cmp'.snapSeq = mem.nextSeq
    BY <1>3, <2>2 DEF CompactBegin, Idle, Compaction, EmptyLog, Logs, Maps
  <2>4. mem' \in Blob /\ BlobOK(mem')
    BY <1>3, <2>1, <2>2 DEF CompactBegin, Blob, BlobOK
  <2>5. QED
    BY <1>3, <2>2, <2>3, <2>4 DEF CompactBegin, TypeInv, TypeOK
<1>4. CASE CompactMerge
  <2>1. /\ mem \in Blob /\ mem # NoBlob /\ mem.base \in Maps
        /\ mem.seqBase \in Nat /\ mem.used \in Nat /\ mem.used <= Region
    BY <1>4, BlobFields DEF CompactMerge, TypeInv, TypeOK, BlobOK
  <2>2. LogOf(slot, cmp.gen) \in Logs
    BY <1>0, LogOfType
  <2>3. cmp.snapUsed \in 0..Region
    BY <1>0, <1>4, <2>1 DEF CompactMerge, Compaction
  <2>4. Overlay(mem.base, ReplayTree(LogOf(slot, cmp.gen), cmp.snapUsed)) \in Maps
    BY <1>4, <2>1, <2>2, <2>3, MergedType DEF CompactMerge, ExactCut
  <2>5. /\ cmp' \in Compaction /\ cmp'.pc = "copy"
        /\ cmp'.snapSeq = cmp.snapSeq
    BY <1>0, <1>4, <2>4 DEF CompactMerge, Compaction
  <2>6. QED
    BY <1>4, <2>5 DEF CompactMerge, TypeInv, TypeOK
<1>5. CASE CompactCopyTail
  <2>1. /\ mem.used \in Nat /\ mem.nextSeq \in Nat /\ mem.used <= Region
    BY <1>5, BlobFields DEF CompactCopyTail, TypeInv, TypeOK, BlobOK
  <2>2. /\ LogOf(slot, cmp.gen) \in Logs /\ cmp.staged \in Logs
        /\ cmp.copied \in Nat /\ cmp.snapUsed \in Nat /\ cmp.round \in Nat
    BY <1>0, LogOfType DEF Compaction
  <2> DEFINE staged == CopyCells(cmp.staged, LogOf(slot, cmp.gen),
                                 cmp.copied, mem.used, cmp.snapUsed)
  <2>3. staged \in Logs
    <3>1. mem.used \in 0..Region
      BY <2>1
    <3>2. QED
      BY <2>2, <3>1, CopyCellsType
  <2> HIDE DEF staged
  <2>4. cmp' = IF mem.used > cmp.copied
               THEN [cmp EXCEPT !.staged = staged, !.copied = mem.used,
                                !.copiedSeq = mem.nextSeq,
                                !.round = cmp.round + 1]
               ELSE [cmp EXCEPT !.pc = "final"]
    BY <1>5 DEF CompactCopyTail, staged
  <2>5. /\ cmp' \in Compaction /\ cmp'.pc \in {"copy", "final"}
        /\ cmp'.snapSeq = cmp.snapSeq
    <3>1. CASE mem.used > cmp.copied
      <4> DEFINE r == cmp.round + 1
      <4>1. r \in Nat
        BY <2>2
      <4>2. cmp' = [cmp EXCEPT !.staged = staged, !.copied = mem.used,
                               !.copiedSeq = mem.nextSeq, !.round = r]
        BY <2>4, <3>1
      <4> HIDE DEF r
      <4>3. cmp.pc = "copy"
        BY <1>5 DEF CompactCopyTail
      <4>4. QED
        BY <1>0, <2>1, <2>3, <4>1, <4>2, <4>3 DEF Compaction
    <3>2. CASE ~(mem.used > cmp.copied)
      BY <1>0, <2>4, <3>2 DEF Compaction
    <3>3. QED
      BY <3>1, <3>2
  <2>6. QED
    BY <1>5, <2>5 DEF CompactCopyTail, TypeInv, TypeOK
<1>6. CASE CompactPublish
  <2>1. /\ StagedGen \in Generation /\ StagedGen # NoGen
        /\ StagedGen.gen = cmp.gen + 1
        /\ ParseGen(StagedGen) \in Blob /\ BlobOK(ParseGen(StagedGen))
    BY <1>6, StagedGenType DEF CompactPublish
  <2>2. slot' = [slot EXCEPT ![(cmp.gen + 1) % 2] = StagedGen]
    BY <1>6 DEF CompactPublish
  <2>3. slot' \in Slots /\ SlotsOK(slot') /\ slot'[(cmp.gen + 1) % 2] # NoGen
    BY <1>0, <2>1, <2>2 DEF Slots, SlotsOK
  <2>4. /\ cmp' \in Compaction /\ cmp'.pc = "reclaim" /\ cmp'.gen = cmp.gen
        /\ cmp'.snapSeq = cmp.snapSeq
    BY <1>0, <1>6 DEF CompactPublish, Compaction
  <2>5. tainted' \in BOOLEAN
    BY <1>0, <1>6 DEF CompactPublish, TypeInv, TypeOK, Compaction
  <2>6. QED
    BY <1>6, <2>1, <2>3, <2>4, <2>5 DEF CompactPublish, TypeInv, TypeOK
<1>7. CASE CompactRetry
  <2>1. cmp.round + 1 \in Nat
    BY <1>0 DEF Compaction
  <2> DEFINE r == cmp.round + 1
  <2>2. cmp' = [cmp EXCEPT !.pc = "copy", !.round = r]
    BY <1>7 DEF CompactRetry
  <2> HIDE DEF r
  <2>3. /\ cmp' \in Compaction /\ cmp'.pc = "copy"
        /\ cmp'.snapSeq = cmp.snapSeq
    BY <1>0, <2>1, <2>2 DEF Compaction, r
  <2>4. QED
    BY <1>7, <2>3 DEF CompactRetry, TypeInv, TypeOK
<1>8. CASE CompactAbort
  <2>1. cmp' \in Compaction /\ cmp'.pc = "idle"
    BY <1>8 DEF CompactAbort, Idle, Compaction, EmptyLog, Logs, Maps
  <2>2. mem' \in Blob \cup {NoBlob} /\ BlobOK(mem')
    BY <1>8 DEF CompactAbort, TypeInv, TypeOK, Blob, BlobOK
  <2>3. QED
    BY <1>8, <2>1, <2>2 DEF CompactAbort, TypeInv, TypeOK
<1>9. CASE CompactReclaim
  <2>1. cmp' \in Compaction /\ cmp'.pc = "idle"
    BY <1>9 DEF CompactReclaim, Idle, Compaction, EmptyLog, Logs, Maps
  <2>2. slot' \in Slots /\ SlotsOK(slot')
    <3>1. slot[(cmp.gen + 1) % 2] # NoGen
      BY <1>9 DEF CompactReclaim, TypeInv
    <3>2. CASE slot' = [slot EXCEPT ![cmp.gen % 2] = NoGen]
      BY <1>0, <3>1, <3>2 DEF Slots, SlotsOK
    <3>3. CASE UNCHANGED slot
      BY <1>0, <3>3
    <3>4. QED
      BY <1>9, <3>2, <3>3 DEF CompactReclaim
  <2>3. QED
    BY <1>9, <2>1, <2>2 DEF CompactReclaim, TypeInv, TypeOK
<1>10. QED
  BY <1>1, <1>2, <1>3, <1>4, <1>5, <1>6, <1>7, <1>8,
     <1>9 DEF Compact

LEMMA OtherTypeInv ==
  ASSUME TypeInv,
         Shrink \/ ScheduleDemote \/ ReleaseDemote \/ Commit \/ Crash
  PROVE  TypeInv'
<1>1. CASE Shrink
  BY <1>1 DEF Shrink, TypeInv, TypeOK, BlobOK
<1>2. CASE ScheduleDemote
  BY <1>2 DEF ScheduleDemote, TypeInv, TypeOK
<1>3. CASE ReleaseDemote
  BY <1>3 DEF ReleaseDemote, TypeInv, TypeOK
<1>4. CASE Commit
  BY <1>4 DEF Commit, TypeInv, TypeOK
<1>5. CASE Crash
  <2>1. cmp' \in Compaction /\ cmp'.pc = "idle"
    BY <1>5, DeltaLogAssumption DEF Crash, Idle, Compaction, EmptyLog, Logs, Maps
  <2>2. QED
    BY <1>5, <2>1 DEF Crash, TypeInv, TypeOK, BlobOK
<1>6. QED
  BY <1>1, <1>2, <1>3, <1>4, <1>5

LEMMA StepTypeInv == TypeInv /\ [Next]_vars => TypeInv'
<1>1. ASSUME TypeInv, Next PROVE TypeInv'
  BY <1>1, EnsureTypeInv, CreateTypeInv, UnlinkTypeInv, RenameTypeInv,
     CompactTypeInv, OtherTypeInv DEF Next
<1>2. ASSUME TypeInv, UNCHANGED vars PROVE TypeInv'
  BY <1>2 DEF vars, TypeInv, TypeOK
<1>3. QED
  BY <1>1, <1>2

(* The state of a stable root keeps its types: among them, no interleaving *)
(* drives a log position, a sequence number or a compaction cut of         *)
(* ext5_stable_append_delta and ext5_stable_compact below zero.            *)
THEOREM TypeCorrect == Spec => []TypeOK
<1>1. TypeInv => TypeOK
  BY DEF TypeInv
<1>2. QED
  BY <1>1, InitTypeInv, StepTypeInv, PTL DEF Spec

-----------------------------------------------------------------------------
(* The namespace.  Why a parse, a lookup and a published compaction agree  *)
(* takes more than the types: what ties a blob to its generation, and a    *)
(* staged generation to its source.                                        *)

(* The next sequence number is one past the last record's.                 *)
Sequenced(b) == b # NoBlob => b.nextSeq = b.seqBase + b.used + 1

(* An entry that may be cancelled is the only record of its name, over a   *)
(* base that does not bind it.                                             *)
CancelSafe(base, seqBase, tree, used, log) ==
  \A n \in Name :
    /\ tree[n] = NoEntry => ~Mentions(log, used, n)
    /\ tree[n] # NoEntry /\ tree[n].tail =>
         /\ base[n] = NoIno
         /\ tree[n].seq <= seqBase + used
         /\ \A i \in 1..used : log[i].name = n <=> seqBase + i = tree[n].seq

(* Blob b caches generation g, and both bind names as m does.              *)
Mirrors(b, g, m) ==
  /\ b.gen = g.gen
  /\ b.base = g.base
  /\ b.seqBase = g.seqBase
  /\ b.used = ReplayLength(g.log, g.seqBase)
  /\ b.nextSeq = b.seqBase + b.used + 1
  /\ CancelSafe(b.base, b.seqBase, b.tree, b.used, g.log)
  /\ View(b) = m
  /\ Fold(g.base, g.log, b.used) = m

(* Whatever races have fired: sequence numbers follow positions, and the   *)
(* source of a compaction stays installed with the cut below its floor.    *)
SourceInv ==
  /\ Sequenced(mem)
  /\ \A t \in Thread : Sequenced(parsed[t])
  /\ cmp.pc \in {"merge", "copy", "final"} =>
       /\ mem # NoBlob
       /\ mem.gen = cmp.gen
       /\ mem.floor = cmp.snapUsed
       /\ cmp.snapUsed <= mem.used
       /\ cmp.snapSeq = mem.seqBase + cmp.snapUsed + 1
  /\ cmp.pc = "merge" => cmp.staged = EmptyLog
  /\ cmp.pc = "reclaim" => mem # NoBlob /\ mem.gen = cmp.gen + 1

(* The staged base is the source up to the cut; the staged log replays all *)
(* its copied records, and they are the source's unless it was rewound.    *)
StagedInv ==
  cmp.pc \in {"copy", "final"} =>
    LET log == LogOf(slot, cmp.gen)
        k == cmp.copied - cmp.snapUsed
    IN  /\ cmp.base = Fold(mem.base, log, cmp.snapUsed)
        /\ cmp.snapUsed <= cmp.copied
        /\ cmp.copied <= Region
        /\ \A i \in 1..k : Accepted(cmp.staged, cmp.snapSeq - 1, i)
        /\ k < Region => cmp.staged[k + 1] = Hole
        /\ ~cmp.rewound =>
             /\ cmp.copied <= mem.used
             /\ \A i \in 1..k : cmp.staged[i] = log[i + cmp.snapUsed]

NamespaceInv == /\ DiskView(slot) = ns
                /\ DiskView(saved.slot) = saved.ns
                /\ mem # NoBlob => Mirrors(mem, ActiveGen(slot), ns)
                /\ StagedInv

IInv == TypeInv /\ SourceInv /\ (~tainted => NamespaceInv)

-----------------------------------------------------------------------------
(* Only one slot holds the newest generation.                              *)
LEMMA ActiveSlotUnique ==
  ASSUME NEW slots \in Slots, SlotsOK(slots), NEW s \in {0, 1},
         slots[s] # NoGen,
         \A t \in {0, 1} : slots[t] # NoGen => slots[t].gen <= slots[s].gen
  PROVE  ActiveSlot(slots) = s /\ ActiveGen(slots) = slots[s]
<1> DEFINE a == ActiveSlot(slots)
<1>1. /\ a \in {0, 1} /\ slots[a] # NoGen
      /\ \A t \in {0, 1} : slots[t] # NoGen => slots[t].gen <= slots[a].gen
  BY ActiveSlotIs
<1> HIDE DEF a
<1>2. slots[a] \in Generation /\ slots[s] \in Generation
  BY <1>1 DEF Slots
<1>3. slots[a].gen = slots[s].gen
  BY <1>1, <1>2 DEF Generation
<1>4. a = s
  BY <1>1, <1>3 DEF SlotsOK
<1>5. QED
  BY <1>4 DEF a, ActiveGen

(* A blob of the newest generation finds its log.                          *)
LEMMA LogOfActive ==
  ASSUME NEW slots \in Slots, SlotsOK(slots)
  PROVE  /\ Holds(slots, ActiveGen(slots).gen)
         /\ LogOf(slots, ActiveGen(slots).gen) = ActiveGen(slots).log
BY ActiveSlotIs DEF ActiveGen, Holds, LogOf

(* Rewriting the newest generation's log changes that generation alone.    *)
LEMMA SetLogActive ==
  ASSUME NEW slots \in Slots, SlotsOK(slots), NEW log \in Logs
  PROVE  LET g == ActiveGen(slots)
         IN  /\ ActiveGen(SetLog(slots, g.gen, log)) = [g EXCEPT !.log = log]
             /\ LogOf(SetLog(slots, g.gen, log), g.gen) = log
<1> DEFINE s == ActiveSlot(slots)
           g == ActiveGen(slots)
           new == [g EXCEPT !.log = log]
           T == SetLog(slots, g.gen, log)
<1>1. /\ s \in {0, 1} /\ slots[s] # NoGen /\ slots[s] = g
      /\ \A t \in {0, 1} : slots[t] # NoGen => slots[t].gen <= g.gen
      /\ g \in Generation /\ g.gen % 2 = s
  BY ActiveSlotIs DEF ActiveGen
<1>2. Holds(slots, g.gen)
  BY LogOfActive
<1>3. new \in Generation /\ new.gen = g.gen /\ new.log = log /\ new # NoGen
  BY <1>1, StableRootAssumption DEF Generation
<1>4. T = [slots EXCEPT ![s] = new]
  BY <1>1, <1>2 DEF SetLog
<1>5. T \in Slots /\ SlotsOK(T)
  BY <1>1, SetLogType DEF Generation
<1> HIDE DEF s, g, new, T
<1>6. /\ T[s] = new
      /\ \A t \in {0, 1} : T[t] # NoGen => T[t].gen <= new.gen
  BY <1>1, <1>3, <1>4 DEF Slots, Generation
<1>7. ActiveGen(T) = new
  BY <1>1, <1>3, <1>5, <1>6, ActiveSlotUnique
<1>8. LogOf(T, g.gen) = log
  BY <1>1, <1>3, <1>6 DEF LogOf, Holds
<1>9. QED
  BY <1>7, <1>8 DEF g, new, T

(* Parsing a generation gives a blob that mirrors it.                      *)
LEMMA ParseGenMirrors ==
  ASSUME NEW g \in Generation
  PROVE  LET k == ReplayLength(g.log, g.seqBase)
         IN  /\ Mirrors(ParseGen(g), g, Fold(g.base, g.log, k))
             /\ ParseGen(g).floor = 0
<1> DEFINE k == ReplayLength(g.log, g.seqBase)
           b == ParseGen(g)
<1>1. g.log \in Logs /\ g.seqBase \in Nat /\ g.gen \in Nat /\ g.base \in Maps
  BY DEF Generation
<1>2. k \in 0..Region /\ \A i \in 1..k : Accepted(g.log, g.seqBase, i)
  BY <1>1, ReplayLengthIs
<1>3. /\ b.gen = g.gen /\ b.base = g.base /\ b.seqBase = g.seqBase
      /\ b.tree = ReplayTree(g.log, k) /\ b.used = k
      /\ b.nextSeq = g.seqBase + k + 1 /\ b.floor = 0
  BY DEF ParseGen
<1> HIDE DEF b, k
<1>4. \A n \in Name : /\ b.tree[n] = NoEntry => ~Mentions(g.log, k, n)
                      /\ b.tree[n] # NoEntry => b.tree[n].tail = FALSE
  <2>1. \A n \in Name :
          IF Mentions(g.log, k, n)
          THEN ReplayTree(g.log, k)[n] # NoEntry /\ ReplayTree(g.log, k)[n].tail = FALSE
          ELSE ReplayTree(g.log, k)[n] = NoEntry
    BY <1>1, <1>2, ReplayTreeIs, DeltaLogAssumption
  <2>2. QED
    BY <1>3, <2>1
<1>5. CancelSafe(b.base, b.seqBase, b.tree, b.used, g.log)
  BY <1>3, <1>4 DEF CancelSafe
<1>6. View(b) = Fold(g.base, g.log, k)
  BY <1>1, <1>2, <1>3, OverlayReplay DEF View
<1>7. QED
  BY <1>3, <1>5, <1>6 DEF Mirrors, b, k

LEMMA ParseBlobMirrors ==
  ASSUME NEW slots \in Slots, SlotsOK(slots)
  PROVE  /\ Mirrors(ParseBlob(slots), ActiveGen(slots), DiskView(slots))
         /\ ParseBlob(slots).floor = 0
BY ActiveSlotIs, ParseGenMirrors DEF ParseBlob, DiskView

(* Appending a record to both keeps them mirrors of the changed map.       *)
LEMMA MirrorsAppend ==
  ASSUME NEW b \in Blob, NEW g \in Generation, NEW m \in Maps,
         Mirrors(b, g, m),
         NEW rec \in Record, rec.op \in {INSERT, DELETE},
         rec.seq = b.nextSeq, b.used + 1 <= Region,
         NEW tail \in BOOLEAN,
         tail => b.tree[rec.name] = NoEntry /\ m[rec.name] = NoIno
  PROVE  LET b2 == [b EXCEPT !.tree = Applied(b.tree, rec, tail),
                             !.used = b.used + 1, !.nextSeq = rec.seq + 1]
             g2 == [g EXCEPT !.log = Write(g.log, b.used, rec)]
         IN  /\ b2 \in Blob
             /\ g2 \in Generation
             /\ Mirrors(b2, g2, [m EXCEPT ![rec.name] = rec.ino])
             /\ \A i \in 1..b.used : g2.log[i] = g.log[i]
<1> USE DeltaLogAssumption
<1> DEFINE log2 == Write(g.log, b.used, rec)
           T == Applied(b.tree, rec, tail)
           u == b.used + 1
           q == rec.seq + 1
           b2 == [b EXCEPT !.tree = T, !.used = u, !.nextSeq = q]
           g2 == [g EXCEPT !.log = log2]
           m2 == [m EXCEPT ![rec.name] = rec.ino]
           x == rec.name
           e == [op |-> rec.op, ino |-> rec.ino, seq |-> rec.seq, tail |-> tail]
<1>1. /\ b.gen \in Nat /\ b.base \in Maps /\ b.seqBase \in Nat
      /\ b.tree \in Trees /\ b.used \in Nat /\ b.nextSeq \in Nat
      /\ b.floor \in Nat
  BY BlobFields
<1>2. /\ g.log \in Logs /\ g.seqBase \in Nat /\ g.gen \in Nat /\ g.base \in Maps
  BY DEF Generation
<1>3. x \in Name /\ rec.ino \in Ino \cup {NoIno} /\ rec.seq \in Nat
      /\ rec.op # NOP
  BY OpsDiffer DEF Record
<1>4. /\ b.gen = g.gen /\ b.base = g.base /\ b.seqBase = g.seqBase
      /\ b.used = ReplayLength(g.log, g.seqBase)
      /\ rec.seq = b.seqBase + b.used + 1
      /\ CancelSafe(b.base, b.seqBase, b.tree, b.used, g.log)
      /\ View(b) = m
      /\ Fold(g.base, g.log, b.used) = m
  BY DEF Mirrors
<1>5. /\ log2 \in Logs
      /\ \A i \in 1..b.used : log2[i] = g.log[i]
      /\ log2[u] = rec
      /\ ReplayLength(log2, g.seqBase) = u
      /\ Fold(g.base, log2, u) = m2
  BY <1>2, <1>3, <1>4, WriteReplays
<1>6. e \in Entry /\ e # NoEntry /\ e.tail = tail /\ e.seq = rec.seq /\ e.ino = rec.ino
  BY <1>3 DEF Entry
<1>7. T \in Trees
  BY <1>1, AppliedType
<1>8. T[x] = e /\ \A n \in Name : n # x => T[n] = b.tree[n]
  BY <1>1, <1>3 DEF Applied, Trees
<1>9. u \in Nat /\ q \in Nat /\ u = b.used + 1 /\ q = b.seqBase + u + 1
  BY <1>1, <1>3, <1>4
<1> HIDE DEF log2, T, u, q, e
<1>10. /\ b2 \in Blob
       /\ b2.gen = b.gen /\ b2.base = b.base /\ b2.seqBase = b.seqBase
       /\ b2.tree = T /\ b2.used = u /\ b2.nextSeq = q
  BY <1>1, <1>7, <1>9 DEF Blob
<1>11. /\ g2 \in Generation
       /\ g2.gen = g.gen /\ g2.base = g.base /\ g2.seqBase = g.seqBase
       /\ g2.log = log2
  BY <1>5 DEF Generation
<1> HIDE DEF b2, g2
<1>12. CancelSafe(b.base, b.seqBase, T, u, log2)
  <2>1. SUFFICES ASSUME NEW n \in Name
        PROVE  /\ T[n] = NoEntry => ~Mentions(log2, u, n)
               /\ T[n] # NoEntry /\ T[n].tail =>
                    /\ b.base[n] = NoIno
                    /\ T[n].seq <= b.seqBase + u
                    /\ \A i \in 1..u :
                         log2[i].name = n <=> b.seqBase + i = T[n].seq
    BY DEF CancelSafe
  <2>2. /\ b.tree[n] = NoEntry => \A i \in 1..b.used : g.log[i].name # n
        /\ b.tree[n] # NoEntry /\ b.tree[n].tail =>
             /\ b.base[n] = NoIno
             /\ b.tree[n].seq <= b.seqBase + b.used
             /\ \A i \in 1..b.used :
                  g.log[i].name = n <=> b.seqBase + i = b.tree[n].seq
    BY <1>4 DEF CancelSafe, Mentions
  <2>3. /\ \A i \in 1..u : i \in 1..b.used \/ i = u
        /\ \A i \in 1..b.used : log2[i].name = g.log[i].name
        /\ log2[u].name = x
    BY <1>1, <1>5, <1>9
  <2>4. CASE n # x
    <3>1. T[n] = b.tree[n] /\ log2[u].name # n
      BY <1>8, <2>3, <2>4
    <3>2. T[n] = NoEntry => ~Mentions(log2, u, n)
      BY <2>2, <2>3, <3>1 DEF Mentions
    <3>3. ASSUME T[n] # NoEntry, T[n].tail
          PROVE  /\ b.base[n] = NoIno
                 /\ T[n].seq <= b.seqBase + u
                 /\ \A i \in 1..u :
                      log2[i].name = n <=> b.seqBase + i = T[n].seq
      <4>1. T[n].seq \in Nat
        BY <1>7, <3>3 DEF Trees, Entry
      <4>2. b.seqBase + u # T[n].seq /\ T[n].seq <= b.seqBase + u
        BY <1>1, <1>9, <2>2, <3>1, <3>3, <4>1
      <4>3. QED
        BY <2>2, <2>3, <3>1, <3>3, <4>2
    <3>4. QED
      BY <3>2, <3>3
  <2>5. CASE n = x
    <3>1. T[n] = e /\ T[n] # NoEntry /\ T[n].tail = tail /\ T[n].seq = rec.seq
      BY <1>6, <1>8, <2>5
    <3>2. ASSUME tail
          PROVE  /\ b.base[n] = NoIno
                 /\ rec.seq <= b.seqBase + u
                 /\ \A i \in 1..u :
                      log2[i].name = n <=> b.seqBase + i = rec.seq
      <4>1. b.tree[n] = NoEntry /\ m[n] = NoIno
        BY <2>5, <3>2
      <4>2. b.base[n] = NoIno
        BY <1>4, <4>1 DEF View, Overlay
      <4>3. \A i \in 1..b.used : log2[i].name # n /\ b.seqBase + i # rec.seq
        BY <1>1, <1>4, <2>2, <2>3, <4>1
      <4>4. rec.seq = b.seqBase + u
        BY <1>1, <1>4, <1>9
      <4>5. rec.seq <= b.seqBase + u
        BY <1>3, <4>4
      <4>6. QED
        BY <2>3, <2>5, <4>2, <4>3, <4>4, <4>5
    <3>3. QED
      BY <3>1, <3>2
  <2>6. QED
    BY <2>4, <2>5
<1>13. View(b2) = m2
  <2>1. \A n \in Name : (IF T[n] = NoEntry THEN b.base[n] ELSE T[n].ino)
                        = IF n = x THEN rec.ino ELSE m[n]
    BY <1>4, <1>6, <1>8 DEF View, Overlay
  <2>2. m2 = [n \in Name |-> IF n = x THEN rec.ino ELSE m[n]]
    BY <1>3 DEF Maps
  <2> HIDE DEF m2
  <2>3. QED
    BY <1>10, <2>1, <2>2 DEF View, Overlay
<1> HIDE DEF m2
<1>14. Mirrors(b2, g2, m2)
  BY <1>4, <1>5, <1>9, <1>10, <1>11, <1>12, <1>13 DEF Mirrors
<1>15. QED
  BY <1>5, <1>10, <1>11, <1>14 DEF b2, g2, m2, log2, T, u, q

(* Cancelling the last record, where its entry allows it, takes its name   *)
(* out of the map.                                                         *)
LEMMA MirrorsCancel ==
  ASSUME NEW b \in Blob, NEW g \in Generation, NEW m \in Maps,
         Mirrors(b, g, m), b.used <= Region,
         NEW x \in Name, b.tree[x] # NoEntry, b.tree[x].tail, b.used >= 1,
         b.tree[x].seq - b.seqBase = b.used
  PROVE  LET k == b.used - 1
             b2 == [b EXCEPT !.tree[x] = NoEntry,
                             !.used = k, !.nextSeq = b.tree[x].seq]
             g2 == [g EXCEPT !.log = Cancel(g.log, b.used)]
         IN  /\ b2 \in Blob
             /\ g2 \in Generation
             /\ Mirrors(b2, g2, [m EXCEPT ![x] = NoIno])
             /\ \A i \in 1..k : g2.log[i] = g.log[i]
<1> USE DeltaLogAssumption
<1> DEFINE log2 == Cancel(g.log, b.used)
           T == [b.tree EXCEPT ![x] = NoEntry]
           k == b.used - 1
           q == b.tree[x].seq
           b2 == [b EXCEPT !.tree[x] = NoEntry, !.used = k, !.nextSeq = q]
           g2 == [g EXCEPT !.log = log2]
           m2 == [m EXCEPT ![x] = NoIno]
<1>1. /\ b.gen \in Nat /\ b.base \in Maps /\ b.seqBase \in Nat
      /\ b.tree \in Trees /\ b.used \in Nat /\ b.nextSeq \in Nat
      /\ b.floor \in Nat
  BY BlobFields
<1>2. /\ g.log \in Logs /\ g.seqBase \in Nat /\ g.gen \in Nat /\ g.base \in Maps
  BY DEF Generation
<1>3. /\ b.gen = g.gen /\ b.base = g.base /\ b.seqBase = g.seqBase
      /\ b.used = ReplayLength(g.log, g.seqBase)
      /\ CancelSafe(b.base, b.seqBase, b.tree, b.used, g.log)
      /\ View(b) = m
      /\ Fold(g.base, g.log, b.used) = m
  BY DEF Mirrors
<1>4. q \in Nat /\ q = b.seqBase + b.used /\ k \in Nat
  BY <1>1 DEF Trees, Entry
<1>5. /\ b.base[x] = NoIno
      /\ \A i \in 1..b.used : g.log[i].name = x <=> i = b.used
  <2>1. /\ b.base[x] = NoIno
        /\ \A i \in 1..b.used : g.log[i].name = x <=> b.seqBase + i = q
    BY <1>3 DEF CancelSafe
  <2>2. QED
    BY <1>1, <1>4, <2>1
<1>6. /\ log2 \in Logs
      /\ \A i \in 1..k : log2[i] = g.log[i]
      /\ ReplayLength(log2, g.seqBase) = k
      /\ Fold(g.base, log2, k) = m2
  BY <1>2, <1>3, <1>5, CancelReplays
<1>7. T \in Trees /\ T[x] = NoEntry /\ \A n \in Name : n # x => T[n] = b.tree[n]
  BY <1>1 DEF Trees
<1>8. /\ \A i \in 1..k : i \in 1..b.used /\ i # b.used
      /\ b.used \in 1..b.used /\ k + 1 = b.used
  BY <1>1
<1>9. b2 = [b EXCEPT !.tree = T, !.used = k, !.nextSeq = q]
  OBVIOUS
<1> HIDE DEF log2, T, k, q, b2
<1>10. /\ b2 \in Blob
       /\ b2.gen = b.gen /\ b2.base = b.base /\ b2.seqBase = b.seqBase
       /\ b2.tree = T /\ b2.used = k /\ b2.nextSeq = q
  BY <1>1, <1>4, <1>7, <1>9 DEF Blob
<1>11. /\ g2 \in Generation
       /\ g2.gen = g.gen /\ g2.base = g.base /\ g2.seqBase = g.seqBase
       /\ g2.log = log2
  BY <1>6 DEF Generation
<1> HIDE DEF g2
<1>12. CancelSafe(b.base, b.seqBase, T, k, log2)
  <2>1. SUFFICES ASSUME NEW n \in Name
        PROVE  /\ T[n] = NoEntry => ~Mentions(log2, k, n)
               /\ T[n] # NoEntry /\ T[n].tail =>
                    /\ b.base[n] = NoIno
                    /\ T[n].seq <= b.seqBase + k
                    /\ \A i \in 1..k :
                         log2[i].name = n <=> b.seqBase + i = T[n].seq
    BY DEF CancelSafe
  <2>2. /\ b.tree[n] = NoEntry => \A i \in 1..b.used : g.log[i].name # n
        /\ b.tree[n] # NoEntry /\ b.tree[n].tail =>
             /\ b.base[n] = NoIno
             /\ b.tree[n].seq <= b.seqBase + b.used
             /\ \A i \in 1..b.used :
                  g.log[i].name = n <=> b.seqBase + i = b.tree[n].seq
    BY <1>3 DEF CancelSafe, Mentions
  <2>3. \A i \in 1..k : log2[i].name = g.log[i].name
    BY <1>6
  <2>4. CASE n = x
    <3>1. ~Mentions(log2, k, n)
      BY <1>5, <1>8, <2>3, <2>4 DEF Mentions
    <3>2. QED
      BY <1>7, <2>4, <3>1
  <2>5. CASE n # x
    <3>1. T[n] = b.tree[n]
      BY <1>7, <2>5
    <3>2. T[n] = NoEntry => ~Mentions(log2, k, n)
      BY <1>8, <2>2, <2>3, <3>1 DEF Mentions
    <3>3. ASSUME T[n] # NoEntry, T[n].tail
          PROVE  T[n].seq <= b.seqBase + k
      <4>1. T[n].seq \in Nat
        BY <1>7, <3>3 DEF Trees, Entry
      <4>2. g.log[b.used].name # n
        BY <1>5, <1>8, <2>5
      <4>3. b.seqBase + b.used # T[n].seq
        BY <1>8, <2>2, <3>1, <3>3, <4>2
      <4>4. T[n].seq <= b.seqBase + b.used
        BY <2>2, <3>1, <3>3
      <4>5. QED
        BY <1>1, <1>4, <1>8, <4>1, <4>3, <4>4
    <3>4. QED
      BY <1>8, <2>2, <2>3, <3>1, <3>2, <3>3
  <2>6. QED
    BY <2>4, <2>5
<1>13. View(b2) = m2
  <2>1. \A n \in Name : (IF T[n] = NoEntry THEN b.base[n] ELSE T[n].ino)
                        = IF n = x THEN NoIno ELSE m[n]
    BY <1>3, <1>5, <1>7 DEF View, Overlay
  <2>2. m2 = [n \in Name |-> IF n = x THEN NoIno ELSE m[n]]
    BY DEF Maps
  <2> HIDE DEF m2
  <2>3. QED
    BY <1>10, <2>1, <2>2 DEF View, Overlay
<1> HIDE DEF m2
<1>14. q = b.seqBase + k + 1
  BY <1>1, <1>4, <1>8
<1>15. Mirrors(b2, g2, m2)
  BY <1>3, <1>6, <1>10, <1>11, <1>12, <1>13, <1>14 DEF Mirrors
<1>16. QED
  BY <1>6, <1>10, <1>11, <1>15 DEF b2, g2, m2, log2, k, q

-----------------------------------------------------------------------------
(* How the installed blob moves: nothing but its tree and its position.    *)
LEMMA AppendMoves ==
  ASSUME mem \in Blob, NEW rec \in Record, rec.op \in {INSERT, DELETE},
         NEW tail \in BOOLEAN, AppendRecord(rec, tail)
  PROVE  /\ mem' \in Blob /\ mem' # NoBlob
         /\ mem'.gen = mem.gen /\ mem'.base = mem.base
         /\ mem'.seqBase = mem.seqBase /\ mem'.floor = mem.floor
         /\ mem'.used = mem.used + 1 /\ mem'.nextSeq = rec.seq + 1
<1> DEFINE T == Applied(mem.tree, rec, tail)
           u == mem.used + 1
           q == rec.seq + 1
<1>1. T \in Trees
  BY BlobFields, AppliedType
<1>2. u \in Nat /\ q \in Nat
  BY BlobFields DEF Record
<1>3. mem' = [mem EXCEPT !.tree = T, !.used = u, !.nextSeq = q]
  BY DEF AppendRecord
<1> HIDE DEF T, u, q
<1>4. /\ mem' \in Blob /\ mem' # NoBlob
      /\ mem'.gen = mem.gen /\ mem'.base = mem.base
      /\ mem'.seqBase = mem.seqBase /\ mem'.floor = mem.floor
      /\ mem'.used = u /\ mem'.nextSeq = q
  <2>1. mem' \in Blob
    BY <1>1, <1>2, <1>3 DEF Blob
  <2>2. QED
    BY <1>3, <2>1, StableRootAssumption DEF Blob
<1>5. QED
  BY <1>4 DEF u, q

LEMMA CancelMoves ==
  ASSUME mem \in Blob, NEW n \in Name, Cancellable(n), CancelRecord(n)
  PROVE  /\ mem' \in Blob /\ mem' # NoBlob
         /\ mem'.gen = mem.gen /\ mem'.base = mem.base
         /\ mem'.seqBase = mem.seqBase /\ mem'.floor = mem.floor
         /\ mem'.used = mem.used - 1 /\ mem'.nextSeq = mem.nextSeq - 1
         /\ mem.tree[n] # NoEntry /\ mem.tree[n].tail
         /\ mem.tree[n].seq - mem.seqBase = mem.used
         /\ mem.floor < mem.used
         /\ slot' = SetLog(slot, mem.gen,
                           Cancel(LogOf(slot, mem.gen), mem.used))
         /\ mem' = [mem EXCEPT !.tree[n] = NoEntry,
                               !.used = mem.used - 1,
                               !.nextSeq = mem.tree[n].seq]
<1> DEFINE e == mem.tree[n]
           T == [mem.tree EXCEPT ![n] = NoEntry]
           u == mem.used - 1
           q == e.seq
<1>1. /\ mem.seqBase \in Nat /\ mem.tree \in Trees /\ mem.used \in Nat
      /\ mem.nextSeq \in Nat /\ mem.floor \in Nat
  BY BlobFields
<1>2. e # NoEntry /\ q \in Nat
  BY <1>1 DEF Cancellable, Trees, Entry
<1>3. /\ e.tail /\ q - mem.seqBase = mem.used /\ mem.floor < mem.used
      /\ q = mem.nextSeq - 1
  BY <1>1, <1>2 DEF Cancellable
<1>4. /\ mem' = [mem EXCEPT !.tree[n] = NoEntry, !.used = u, !.nextSeq = q]
      /\ slot' = SetLog(slot, mem.gen, Cancel(LogOf(slot, mem.gen), mem.used))
  BY <1>3 DEF CancelRecord
<1>5. mem' = [mem EXCEPT !.tree = T, !.used = u, !.nextSeq = q]
  BY <1>4
<1>6. T \in Trees /\ u \in Nat
  BY <1>1, <1>3 DEF Trees
<1> HIDE DEF e, T, u, q
<1>7. /\ mem' \in Blob /\ mem' # NoBlob
      /\ mem'.gen = mem.gen /\ mem'.base = mem.base
      /\ mem'.seqBase = mem.seqBase /\ mem'.floor = mem.floor
      /\ mem'.used = u /\ mem'.nextSeq = q
  <2>1. mem' \in Blob
    BY <1>2, <1>5, <1>6 DEF Blob
  <2>2. QED
    BY <1>5, <2>1, StableRootAssumption DEF Blob
<1>8. QED
  BY <1>2, <1>3, <1>4, <1>7 DEF e, u, q

LEMMA RenameMoves ==
  ASSUME mem \in Blob, NEW o \in Name, NEW n \in Name, ns \in Maps, Rename(o, n)
  PROVE  /\ mem' \in Blob /\ mem' # NoBlob
         /\ mem'.gen = mem.gen /\ mem'.base = mem.base
         /\ mem'.seqBase = mem.seqBase /\ mem'.floor = mem.floor
         /\ mem'.used = mem.used + 2 /\ mem'.nextSeq = mem.nextSeq + 2
<1> DEFINE ins == Rec(mem.nextSeq, INSERT, n, ns[o])
           del == Rec(mem.nextSeq + 1, DELETE, o, NoIno)
           T == Applied(Applied(mem.tree, ins, FALSE), del, FALSE)
           u == mem.used + 2
           q == mem.nextSeq + 2
<1>1. /\ mem.tree \in Trees /\ mem.used \in Nat /\ mem.nextSeq \in Nat
      /\ ns[o] \in Ino \cup {NoIno}
  BY BlobFields DEF Maps
<1>2. /\ ins \in Record /\ ins.op \in {INSERT, DELETE}
      /\ del \in Record /\ del.op \in {INSERT, DELETE}
  BY <1>1, RecType
<1>3. mem' = [mem EXCEPT !.tree = T, !.used = u, !.nextSeq = q]
  BY DEF Rename
<1>4. T \in Trees /\ u \in Nat /\ q \in Nat
  <2> HIDE DEF ins, del
  <2>1. Applied(mem.tree, ins, FALSE) \in Trees
    BY <1>1, <1>2, AppliedType
  <2>2. T \in Trees
    BY <1>2, <2>1, AppliedType
  <2> HIDE DEF T
  <2>3. QED
    BY <1>1, <2>2
<1> HIDE DEF ins, del
<1> HIDE DEF T, u, q
<1>5. /\ mem' \in Blob /\ mem' # NoBlob
      /\ mem'.gen = mem.gen /\ mem'.base = mem.base
      /\ mem'.seqBase = mem.seqBase /\ mem'.floor = mem.floor
      /\ mem'.used = u /\ mem'.nextSeq = q
  <2>1. mem' \in Blob
    BY <1>3, <1>4 DEF Blob
  <2>2. QED
    BY <1>3, <2>1, StableRootAssumption DEF Blob
<1>6. QED
  BY <1>5 DEF u, q

-----------------------------------------------------------------------------
(* SourceInv: no step, raced or not, parts the positions from the sequence *)
(* numbers or lets the source of a compaction go.                          *)
LEMMA NamesSourceInv ==
  ASSUME TypeInv, SourceInv,
         \/ \E n \in Name, i \in Ino : Create(n, i)
         \/ \E n \in Name : Unlink(n)
         \/ \E o, n \in Name : Rename(o, n)
  PROVE  SourceInv'
<1>1. mem \in Blob /\ mem # NoBlob /\ ns \in Maps /\ cmp \in Compaction
  BY DEF Create, Unlink, Rename, TypeInv, TypeOK
<1>2. /\ mem.used \in Nat /\ mem.seqBase \in Nat /\ mem.floor \in Nat
      /\ mem.nextSeq = mem.seqBase + mem.used + 1 /\ mem.nextSeq \in Nat
  BY <1>1, BlobFields DEF SourceInv, Sequenced
<1>3. SUFFICES /\ mem' # NoBlob /\ mem'.gen = mem.gen
               /\ mem'.seqBase = mem.seqBase /\ mem'.floor = mem.floor
               /\ mem'.nextSeq = mem'.seqBase + mem'.used + 1
               /\ mem'.floor <= mem'.used \/ mem'.used >= mem.used
               /\ mem'.used \in Nat
               /\ UNCHANGED parsed
               /\ cmp'.pc = cmp.pc /\ cmp'.gen = cmp.gen
               /\ cmp'.snapUsed = cmp.snapUsed
               /\ cmp'.snapSeq = cmp.snapSeq /\ cmp'.staged = cmp.staged
  BY <1>1, <1>2 DEF SourceInv, Sequenced, Compaction
<1>4. ASSUME NEW rec \in Record, rec.op \in {INSERT, DELETE},
             NEW tail \in BOOLEAN, AppendRecord(rec, tail),
             rec.seq = mem.nextSeq, UNCHANGED <<parsed, cmp>>
      PROVE  <1>3!1
  BY <1>1, <1>2, <1>4, AppendMoves
<1>5. ASSUME NEW n \in Name, NEW i \in Ino, Create(n, i)
      PROVE  <1>3!1
  <2> DEFINE rec == Rec(mem.nextSeq, INSERT, n, i)
  <2>1. rec \in Record /\ rec.op \in {INSERT, DELETE} /\ rec.seq = mem.nextSeq
    BY <1>2, RecType
  <2>2. /\ AppendRecord(rec, mem.tree[n] = NoEntry)
        /\ (mem.tree[n] = NoEntry) \in BOOLEAN
        /\ UNCHANGED <<parsed, cmp>>
    BY <1>5 DEF Create
  <2> HIDE DEF rec
  <2>3. QED
    BY <1>4, <2>1, <2>2
<1>6. ASSUME NEW n \in Name, Unlink(n)
      PROVE  <1>3!1
  <2>1. CASE Cancellable(n) /\ CancelRecord(n)
    <3>1. UNCHANGED parsed
      BY <1>6 DEF Unlink
    <3>2. /\ cmp'.pc = cmp.pc /\ cmp'.gen = cmp.gen
          /\ cmp'.snapUsed = cmp.snapUsed
          /\ cmp'.snapSeq = cmp.snapSeq /\ cmp'.staged = cmp.staged
      <4> DEFINE r == cmp.rewound \/ (/\ cmp.pc \in {"copy", "final"}
                                      /\ mem.tree[n].seq - mem.seqBase - 1 < cmp.copied)
      <4>1. cmp' = [cmp EXCEPT !.rewound = r]
        BY <2>1 DEF CancelRecord
      <4> HIDE DEF r
      <4>2. QED
        BY <1>1, <4>1 DEF Compaction
    <3>3. /\ mem' # NoBlob /\ mem'.gen = mem.gen
          /\ mem'.seqBase = mem.seqBase /\ mem'.floor = mem.floor
          /\ mem'.used = mem.used - 1 /\ mem'.nextSeq = mem.nextSeq - 1
          /\ mem.floor < mem.used
      BY <1>1, <2>1, CancelMoves
    <3>4. QED
      BY <1>2, <3>1, <3>2, <3>3
  <2>2. CASE /\ AppendRecord(Rec(mem.nextSeq, DELETE, n, NoIno), FALSE)
             /\ UNCHANGED cmp
    <3> DEFINE rec == Rec(mem.nextSeq, DELETE, n, NoIno)
    <3>1. rec \in Record /\ rec.op \in {INSERT, DELETE} /\ rec.seq = mem.nextSeq
      BY <1>2, RecType
    <3>2. AppendRecord(rec, FALSE) /\ UNCHANGED <<parsed, cmp>>
      BY <1>6, <2>2 DEF Unlink
    <3> HIDE DEF rec
    <3>3. QED
      BY <1>4, <3>1, <3>2
  <2>3. QED
    BY <1>6, <2>1, <2>2 DEF Unlink
<1>7. ASSUME NEW o \in Name, NEW n \in Name, Rename(o, n)
      PROVE  <1>3!1
  <2>1. UNCHANGED <<parsed, cmp>>
    BY <1>7 DEF Rename
  <2>2. QED
    BY <1>1, <1>2, <1>7, <2>1, RenameMoves
<1>8. QED
  BY <1>5, <1>6, <1>7

LEMMA CompactSourceInv ==
  ASSUME TypeInv, SourceInv, Compact
  PROVE  SourceInv'
<1> USE DEF Sequenced
<1>0. /\ cmp \in Compaction
      /\ mem # NoBlob => mem \in Blob /\ mem.used \in Nat
  BY BlobFields DEF TypeInv, TypeOK
<1>1. CASE CompactCall \/ CompactSkip
  <2>1. cmp' = Idle \/ cmp' = [Idle EXCEPT !.pc = "called"]
    BY <1>1 DEF CompactCall, CompactSkip
  <2>2. cmp'.pc \in {"called", "idle"}
    BY <2>1 DEF Idle
  <2>3. QED
    BY <1>1, <2>2 DEF CompactCall, CompactSkip, SourceInv
<1>2. CASE CompactNoBlob
  <2>1. cmp'.pc = "leaked"
    BY <1>0, <1>2 DEF CompactNoBlob, Compaction
  <2>2. QED
    BY <1>2, <2>1 DEF CompactNoBlob, SourceInv
<1>3. CASE CompactBegin
  <2>1. /\ cmp'.pc = "merge" /\ cmp'.gen = mem.gen
        /\ cmp'.snapUsed = mem.used /\ cmp'.snapSeq = mem.nextSeq
        /\ cmp'.staged = EmptyLog
    BY <1>3 DEF CompactBegin, Idle
  <2>2. mem' = [mem EXCEPT !.floor = mem.used] /\ mem # NoBlob
    BY <1>3 DEF CompactBegin
  <2>3. /\ mem' \in Blob /\ mem'.floor = mem.used /\ mem'.used = mem.used
        /\ mem'.gen = mem.gen /\ mem'.seqBase = mem.seqBase
        /\ mem'.nextSeq = mem.nextSeq
    BY <1>0, <2>2 DEF Blob
  <2>4. mem' # NoBlob
    BY <2>3, StableRootAssumption
  <2>5. mem.nextSeq = mem.seqBase + mem.used + 1
    BY <2>2 DEF SourceInv
  <2>6. UNCHANGED parsed
    BY <1>3 DEF CompactBegin
  <2>7. mem.used <= mem.used
    BY <1>0, <2>2
  <2>8. QED
    BY <2>1, <2>3, <2>4, <2>5, <2>6, <2>7 DEF SourceInv
<1>4. CASE CompactMerge
  <2>1. /\ cmp'.pc = "copy" /\ cmp'.gen = cmp.gen
        /\ cmp'.snapUsed = cmp.snapUsed /\ cmp'.snapSeq = cmp.snapSeq
    BY <1>0, <1>4 DEF CompactMerge, Compaction
  <2>2. QED
    BY <1>4, <2>1 DEF CompactMerge, SourceInv
<1>5. CASE CompactCopyTail
  <2>1. /\ cmp'.pc \in {"copy", "final"} /\ cmp'.gen = cmp.gen
        /\ cmp'.snapUsed = cmp.snapUsed /\ cmp'.snapSeq = cmp.snapSeq
    BY <1>0, <1>5 DEF CompactCopyTail, Compaction
  <2>2. QED
    BY <1>5, <2>1 DEF CompactCopyTail, SourceInv
<1>6. CASE CompactPublish
  <2>1. cmp'.pc = "reclaim" /\ cmp'.gen = cmp.gen
    BY <1>0, <1>6 DEF CompactPublish, Compaction
  <2>2. mem' = ParseGen(StagedGen) /\ UNCHANGED parsed
    BY <1>6 DEF CompactPublish
  <2>3. /\ StagedGen \in Generation /\ StagedGen.gen = cmp.gen + 1
        /\ ParseGen(StagedGen) \in Blob
    BY <1>6, StagedGenType DEF CompactPublish
  <2>4. /\ ParseGen(StagedGen).gen = cmp.gen + 1
        /\ ParseGen(StagedGen).nextSeq =
             ParseGen(StagedGen).seqBase + ParseGen(StagedGen).used + 1
    BY <2>3, ParseGenMirrors DEF Mirrors
  <2>5. ParseGen(StagedGen) # NoBlob
    BY <2>3, StableRootAssumption
  <2>6. QED
    BY <2>1, <2>2, <2>4, <2>5 DEF SourceInv
<1>7. CASE CompactRetry
  <2>1. /\ cmp'.pc = "copy" /\ cmp'.gen = cmp.gen /\ cmp.pc = "final"
        /\ cmp'.snapUsed = cmp.snapUsed /\ cmp'.snapSeq = cmp.snapSeq
    BY <1>0, <1>7 DEF CompactRetry, Compaction
  <2>2. QED
    BY <1>7, <2>1 DEF CompactRetry, SourceInv
<1>8. CASE CompactAbort
  <2>1. cmp'.pc = "idle" /\ UNCHANGED parsed
    BY <1>8 DEF CompactAbort, Idle
  <2>2. mem # NoBlob => /\ mem'.nextSeq = mem.nextSeq
                        /\ mem'.seqBase = mem.seqBase /\ mem'.used = mem.used
    BY <1>0, <1>8 DEF CompactAbort, Blob
  <2>3. mem = NoBlob => mem' = NoBlob
    BY <1>8 DEF CompactAbort
  <2>4. QED
    BY <2>1, <2>2, <2>3 DEF SourceInv
<1>9. CASE CompactReclaim
  <2>1. cmp'.pc = "idle"
    BY <1>9 DEF CompactReclaim, Idle
  <2>2. QED
    BY <1>9, <2>1 DEF CompactReclaim, SourceInv
<1>10. QED
  BY <1>1, <1>2, <1>3, <1>4, <1>5, <1>6, <1>7, <1>8, <1>9 DEF Compact

LEMMA OtherSourceInv ==
  ASSUME TypeInv, SourceInv,
         \/ \E t \in Thread : EnsureParse(t) \/ EnsureInstall(t)
         \/ Shrink \/ ScheduleDemote \/ ReleaseDemote \/ Commit \/ Crash
  PROVE  SourceInv'
<1>1. ASSUME NEW t \in Thread, EnsureParse(t) PROVE SourceInv'
  <2>1. Sequenced(ParseBlob(slot))
    BY ParseBlobMirrors DEF TypeInv, TypeOK, Mirrors, Sequenced
  <2>2. /\ parsed' = [parsed EXCEPT ![t] = ParseBlob(slot)]
        /\ UNCHANGED <<mem, cmp>>
    BY <1>1 DEF EnsureParse
  <2>3. \A u \in Thread : Sequenced(parsed'[u])
    BY <2>1, <2>2 DEF TypeInv, TypeOK, SourceInv
  <2>4. QED
    BY <2>2, <2>3 DEF SourceInv
<1>2. ASSUME NEW t \in Thread, EnsureInstall(t) PROVE SourceInv'
  <2>1. Sequenced(parsed[t]) /\ Sequenced(NoBlob)
    BY DEF SourceInv, Sequenced
  <2>2. parsed' = [parsed EXCEPT ![t] = NoBlob] /\ UNCHANGED cmp
    BY <1>2 DEF EnsureInstall
  <2>3. \A u \in Thread : Sequenced(parsed'[u])
    BY <2>1, <2>2 DEF TypeInv, TypeOK, SourceInv
  <2>4. CASE mem = NoBlob
    <3>1. cmp.pc \notin {"merge", "copy", "final", "reclaim"}
      BY <2>4 DEF SourceInv
    <3>2. mem' = parsed[t]
      BY <1>2, <2>4 DEF EnsureInstall
    <3>3. QED
      BY <2>1, <2>2, <2>3, <3>1, <3>2 DEF SourceInv
  <2>5. CASE mem # NoBlob
    BY <1>2, <2>2, <2>3, <2>5 DEF EnsureInstall, SourceInv
  <2>6. QED
    BY <2>4, <2>5
<1>3. CASE Shrink
  BY <1>3 DEF Shrink, Staging, SourceInv, Sequenced
<1>4. CASE ScheduleDemote \/ ReleaseDemote \/ Commit
  BY <1>4 DEF ScheduleDemote, ReleaseDemote, Commit, SourceInv
<1>5. CASE Crash
  <2>1. cmp'.pc = "idle"
    BY <1>5 DEF Crash, Idle
  <2>2. QED
    BY <1>5, <2>1 DEF Crash, SourceInv, Sequenced
<1>6. QED
  BY <1>1, <1>2, <1>3, <1>4, <1>5

LEMMA StepSourceInv == TypeInv /\ SourceInv /\ [Next]_vars => SourceInv'
<1>1. ASSUME TypeInv, SourceInv, Next PROVE SourceInv'
  BY <1>1, NamesSourceInv, CompactSourceInv, OtherSourceInv DEF Next
<1>2. ASSUME SourceInv, UNCHANGED vars PROVE SourceInv'
  BY <1>2 DEF vars, SourceInv
<1>3. QED
  BY <1>1, <1>2

-----------------------------------------------------------------------------
(* NamespaceInv: until a race fires, memory, disk, the last commit and the *)
(* staged generation all tell one namespace.                               *)

(* The installed blob and its log move together, past the staged cut.      *)
LEMMA LogMoves ==
  ASSUME TypeInv, SourceInv, NamespaceInv, mem # NoBlob, ns' \in Maps,
         NEW log \in Logs,
         slot' = SetLog(slot, mem.gen, log),
         Mirrors(mem', [ActiveGen(slot) EXCEPT !.log = log], ns'),
         mem'.base = mem.base,
         NEW j \in 0..Region, j <= mem'.used,
         \A i \in 1..j : log[i] = ActiveGen(slot).log[i],
         cmp.pc \in {"copy", "final"} => cmp.snapUsed <= j,
         cmp.pc \in {"copy", "final"} /\ ~cmp'.rewound =>
           ~cmp.rewound /\ cmp.copied <= j,
         cmp' = [cmp EXCEPT !.rewound = cmp'.rewound],
         UNCHANGED saved
  PROVE  NamespaceInv'
<1> USE DeltaLogAssumption
<1> DEFINE g == ActiveGen(slot)
           g2 == [g EXCEPT !.log = log]
<1>1. /\ slot \in Slots /\ SlotsOK(slot) /\ mem \in Blob /\ cmp \in Compaction
      /\ slot' \in Slots
  <2>1. slot \in Slots /\ SlotsOK(slot) /\ mem \in Blob /\ cmp \in Compaction
    BY DEF TypeInv, TypeOK
  <2>2. mem.gen \in Nat
    BY <2>1, BlobFields
  <2>3. QED
    BY <2>1, <2>2, SetLogType
<1>2. g \in Generation /\ mem.gen = g.gen
  BY <1>1, ActiveSlotIs DEF NamespaceInv, Mirrors
<1>3. ActiveGen(slot') = g2 /\ LogOf(slot', mem.gen) = log
      /\ LogOf(slot, mem.gen) = g.log
  BY <1>1, <1>2, SetLogActive, LogOfActive
<1>4. /\ g2.log = log /\ g2.base = g.base /\ g2.seqBase = g.seqBase
  BY <1>2 DEF Generation
<1>5. Mirrors(mem', ActiveGen(slot'), ns')
  BY <1>3
<1>6. DiskView(slot') = ns'
  BY <1>3, <1>5 DEF DiskView, Mirrors
<1>7. g.log \in Logs /\ mem.base \in Maps
  BY <1>1, <1>2, BlobFields DEF Generation
<1> HIDE DEF g, g2
<1>8. /\ cmp'.pc = cmp.pc /\ cmp'.gen = cmp.gen /\ cmp'.base = cmp.base
      /\ cmp'.snapUsed = cmp.snapUsed /\ cmp'.snapSeq = cmp.snapSeq
      /\ cmp'.staged = cmp.staged /\ cmp'.copied = cmp.copied
  BY <1>1 DEF Compaction
<1>9. StagedInv'
  <2>1. SUFFICES ASSUME cmp.pc \in {"copy", "final"}
        PROVE  LET k == cmp.copied - cmp.snapUsed
               IN  /\ cmp.base = Fold(mem.base, log, cmp.snapUsed)
                   /\ cmp.snapUsed <= cmp.copied
                   /\ cmp.copied <= Region
                   /\ \A i \in 1..k : Accepted(cmp.staged, cmp.snapSeq - 1, i)
                   /\ k < Region => cmp.staged[k + 1] = Hole
                   /\ ~cmp'.rewound =>
                        /\ cmp.copied <= mem'.used
                        /\ \A i \in 1..k : cmp.staged[i] = log[i + cmp.snapUsed]
    <3>1. cmp.pc \in {"copy", "final"} => LogOf(slot', cmp.gen) = log
      BY <1>3 DEF SourceInv
    <3>2. QED
      BY <1>8, <3>1 DEF StagedInv
  <2>2. /\ cmp.base = Fold(mem.base, g.log, cmp.snapUsed)
        /\ cmp.snapUsed <= cmp.copied
        /\ cmp.copied <= Region
        /\ \A i \in 1..(cmp.copied - cmp.snapUsed) :
             Accepted(cmp.staged, cmp.snapSeq - 1, i)
        /\ cmp.copied - cmp.snapUsed < Region =>
             cmp.staged[cmp.copied - cmp.snapUsed + 1] = Hole
        /\ ~cmp.rewound => \A i \in 1..(cmp.copied - cmp.snapUsed) :
                             cmp.staged[i] = g.log[i + cmp.snapUsed]
    <3>1. LogOf(slot, cmp.gen) = g.log
      BY <1>3, <2>1 DEF SourceInv
    <3>2. QED
      BY <2>1, <3>1 DEF NamespaceInv, StagedInv
  <2>3. cmp.snapUsed \in Nat /\ cmp.copied \in Nat /\ cmp.snapUsed <= j
    BY <1>1, <2>1 DEF Compaction
  <2>4. Fold(mem.base, log, cmp.snapUsed) = Fold(mem.base, g.log, cmp.snapUsed)
    <3>1. cmp.snapUsed \in 0..Region
      BY <2>3
    <3>2. \A i \in 1..cmp.snapUsed : log[i] = g.log[i]
      BY <2>3 DEF g
    <3>3. QED
      BY <1>7, <3>1, <3>2, FoldAgrees
  <2>5. ASSUME ~cmp'.rewound
        PROVE  /\ cmp.copied <= mem'.used
               /\ \A i \in 1..(cmp.copied - cmp.snapUsed) :
                    cmp.staged[i] = log[i + cmp.snapUsed]
    <3>1. ~cmp.rewound /\ cmp.copied <= j
      BY <2>1, <2>5
    <3>2. cmp.copied <= mem'.used
      <4>1. mem'.used \in Nat
        BY <1>4, <1>2, ReplayLengthIs DEF Mirrors, Generation, g2, g
      <4>2. QED
        BY <2>3, <3>1, <4>1
    <3>3. \A i \in 1..(cmp.copied - cmp.snapUsed) : i + cmp.snapUsed \in 1..j
      BY <2>2, <2>3, <3>1
    <3>4. QED
      BY <2>2, <3>1, <3>2, <3>3 DEF g
  <2>6. QED
    BY <2>2, <2>4, <2>5
<1>10. saved' = saved /\ DiskView(saved.slot) = saved.ns
  BY DEF NamespaceInv
<1>11. QED
  BY <1>5, <1>6, <1>9, <1>10 DEF NamespaceInv

(* Appending one record for one changed name.                              *)
LEMMA AppendNamespaceInv ==
  ASSUME TypeInv, SourceInv, NamespaceInv, mem # NoBlob,
         NEW rec \in Record, rec.op \in {INSERT, DELETE},
         rec.seq = mem.nextSeq, NEW tail \in BOOLEAN,
         tail => mem.tree[rec.name] = NoEntry /\ ns[rec.name] = NoIno,
         AppendRecord(rec, tail), ns' = [ns EXCEPT ![rec.name] = rec.ino],
         UNCHANGED <<cmp, saved>>
  PROVE  NamespaceInv'
<1> USE DeltaLogAssumption
<1> DEFINE g == ActiveGen(slot)
           log == Write(g.log, mem.used, rec)
           b2 == [mem EXCEPT !.tree = Applied(mem.tree, rec, tail),
                             !.used = mem.used + 1, !.nextSeq = rec.seq + 1]
           g2 == [g EXCEPT !.log = log]
           m2 == [ns EXCEPT ![rec.name] = rec.ino]
<1>1. /\ slot \in Slots /\ SlotsOK(slot) /\ mem \in Blob /\ cmp \in Compaction
      /\ ns \in Maps /\ g \in Generation /\ Mirrors(mem, g, ns)
      /\ mem.gen = g.gen
  BY ActiveSlotIs DEF TypeInv, TypeOK, NamespaceInv, Mirrors
<1>2. LogOf(slot, mem.gen) = g.log
  BY <1>1, LogOfActive
<1>3. mem.used + 1 <= Region /\ mem' = b2
      /\ slot' = SetLog(slot, mem.gen, log)
  BY <1>2 DEF AppendRecord
<1>4. /\ b2 \in Blob /\ g2 \in Generation
      /\ Mirrors(b2, g2, m2)
      /\ \A i \in 1..mem.used : g2.log[i] = g.log[i]
  BY <1>1, <1>3, MirrorsAppend
<1>5. g2.log = log /\ log \in Logs
  BY <1>1, <1>4 DEF Generation
<1>6. /\ mem'.base = mem.base /\ mem'.used = mem.used + 1
      /\ mem.used \in 0..Region /\ mem.used <= mem'.used
  BY <1>1, <1>3, AppendMoves, BlobFields
<1>7. cmp.pc \in {"copy", "final"} => cmp.snapUsed <= mem.used
  BY DEF SourceInv
<1>8. cmp.pc \in {"copy", "final"} /\ ~cmp'.rewound =>
        ~cmp.rewound /\ cmp.copied <= mem.used
  BY DEF NamespaceInv, StagedInv
<1>9. cmp' = [cmp EXCEPT !.rewound = cmp'.rewound]
  BY <1>1 DEF Compaction
<1>10. ns' = m2 /\ m2 \in Maps
  BY <1>1 DEF Maps, Record
<1>11. /\ Mirrors(mem', [ActiveGen(slot) EXCEPT !.log = log], ns')
       /\ \A i \in 1..mem.used : log[i] = ActiveGen(slot).log[i]
  BY <1>3, <1>4, <1>5, <1>10
<1> HIDE DEF g, log, b2, g2, m2
<1>12. QED
  BY <1>3, <1>5, <1>6, <1>7, <1>8, <1>9, <1>10, <1>11, LogMoves

LEMMA CancelNamespaceInv ==
  ASSUME TypeInv, SourceInv, NamespaceInv, mem # NoBlob, NEW n \in Name,
         Cancellable(n), CancelRecord(n), ns' = [ns EXCEPT ![n] = NoIno],
         UNCHANGED saved
  PROVE  NamespaceInv'
<1> USE DeltaLogAssumption
<1> DEFINE g == ActiveGen(slot)
           log == Cancel(g.log, mem.used)
           b2 == [mem EXCEPT !.tree[n] = NoEntry,
                             !.used = mem.used - 1,
                             !.nextSeq = mem.tree[n].seq]
           g2 == [g EXCEPT !.log = log]
           m2 == [ns EXCEPT ![n] = NoIno]
<1>1. /\ slot \in Slots /\ SlotsOK(slot) /\ mem \in Blob /\ cmp \in Compaction
      /\ ns \in Maps /\ g \in Generation /\ Mirrors(mem, g, ns)
      /\ mem.gen = g.gen /\ mem.used <= Region
      /\ mem.used \in Nat /\ mem.floor \in Nat
  BY ActiveSlotIs, BlobFields
     DEF TypeInv, TypeOK, NamespaceInv, Mirrors, BlobOK
<1>2. LogOf(slot, mem.gen) = g.log
  BY <1>1, LogOfActive
<1>3. /\ mem' = b2
      /\ slot' = SetLog(slot, mem.gen, log)
      /\ mem.tree[n] # NoEntry /\ mem.tree[n].tail
      /\ mem.tree[n].seq - mem.seqBase = mem.used
      /\ mem.floor < mem.used
      /\ mem'.base = mem.base /\ mem'.used = mem.used - 1
  BY <1>1, <1>2, CancelMoves
<1>4. mem.used >= 1 /\ mem.used - 1 \in 0..Region
  BY <1>1, <1>3
<1>5. /\ b2 \in Blob /\ g2 \in Generation
      /\ Mirrors(b2, g2, m2)
      /\ \A i \in 1..(mem.used - 1) : g2.log[i] = g.log[i]
  BY <1>1, <1>3, <1>4, MirrorsCancel
<1>6. g2.log = log /\ log \in Logs
  BY <1>1, <1>5 DEF Generation
<1>7. mem.used - 1 <= mem'.used
  BY <1>1, <1>3
<1>8. cmp.pc \in {"copy", "final"} => cmp.snapUsed <= mem.used - 1
  BY <1>1, <1>3 DEF SourceInv
<1> DEFINE r == cmp.rewound \/ (/\ cmp.pc \in {"copy", "final"}
                                /\ mem.used - 1 < cmp.copied)
<1>9. cmp' = [cmp EXCEPT !.rewound = r] /\ r \in BOOLEAN
  BY <1>1, <1>3 DEF CancelRecord, Compaction
<1>10. cmp'.rewound = r /\ cmp' = [cmp EXCEPT !.rewound = cmp'.rewound]
  <2> HIDE DEF r
  <2>1. QED
    BY <1>1, <1>9 DEF Compaction
<1>11. cmp.pc \in {"copy", "final"} /\ ~cmp'.rewound =>
         ~cmp.rewound /\ cmp.copied <= mem.used - 1
  <2>1. cmp.copied \in Nat
    BY <1>1 DEF Compaction
  <2>2. cmp.pc \in {"copy", "final"} /\ ~r =>
          ~cmp.rewound /\ ~(mem.used - 1 < cmp.copied)
    OBVIOUS
  <2> HIDE DEF r
  <2>3. ~(mem.used - 1 < cmp.copied) => cmp.copied <= mem.used - 1
    BY <1>1, <2>1
  <2>4. QED
    BY <1>10, <2>2, <2>3
<1>12. ns' = m2 /\ m2 \in Maps
  BY <1>1 DEF Maps
<1>13. /\ Mirrors(mem', [ActiveGen(slot) EXCEPT !.log = log], ns')
       /\ \A i \in 1..(mem.used - 1) : log[i] = ActiveGen(slot).log[i]
  BY <1>3, <1>5, <1>6, <1>12
<1> HIDE DEF g, log, b2, g2, m2
<1>14. QED
  BY <1>3, <1>4, <1>6, <1>7, <1>8, <1>10, <1>11, <1>12, <1>13, LogMoves

LEMMA RenameNamespaceInv ==
  ASSUME TypeInv, SourceInv, NamespaceInv, NEW o \in Name, NEW n \in Name,
         Rename(o, n)
  PROVE  NamespaceInv'
<1> USE DeltaLogAssumption
<1> DEFINE g == ActiveGen(slot)
           ins == Rec(mem.nextSeq, INSERT, n, ns[o])
           del == Rec(mem.nextSeq + 1, DELETE, o, NoIno)
           log1 == Write(g.log, mem.used, ins)
           b1 == [mem EXCEPT !.tree = Applied(mem.tree, ins, FALSE),
                             !.used = mem.used + 1, !.nextSeq = ins.seq + 1]
           g1 == [g EXCEPT !.log = log1]
           m1 == [ns EXCEPT ![ins.name] = ins.ino]
           log2 == Write(g1.log, b1.used, del)
           b2 == [b1 EXCEPT !.tree = Applied(b1.tree, del, FALSE),
                            !.used = b1.used + 1, !.nextSeq = del.seq + 1]
           g2 == [g1 EXCEPT !.log = log2]
           m2 == [m1 EXCEPT ![del.name] = del.ino]
<1>1. /\ slot \in Slots /\ SlotsOK(slot) /\ mem \in Blob /\ cmp \in Compaction
      /\ ns \in Maps /\ mem # NoBlob
      /\ g \in Generation /\ Mirrors(mem, g, ns)
      /\ mem.gen = g.gen /\ mem.used \in Nat /\ mem.nextSeq \in Nat
      /\ ns[o] \in Ino \cup {NoIno}
  BY ActiveSlotIs, BlobFields
     DEF Rename, TypeInv, TypeOK, NamespaceInv, Mirrors, Maps
<1>2. /\ ins \in Record /\ ins.op \in {INSERT, DELETE} /\ ins.seq = mem.nextSeq
      /\ ins.name = n /\ ins.ino = ns[o]
      /\ del \in Record /\ del.op \in {INSERT, DELETE}
      /\ del.seq = mem.nextSeq + 1 /\ del.name = o /\ del.ino = NoIno
  BY <1>1, RecType
<1>3. /\ mem.used + 2 <= Region /\ o # n
      /\ slot' = SetLog(slot, mem.gen,
                        Write(Write(g.log, mem.used, ins), mem.used + 1, del))
      /\ mem' = [mem EXCEPT !.tree = Applied(Applied(mem.tree, ins, FALSE),
                                             del, FALSE),
                            !.used = mem.used + 2, !.nextSeq = mem.nextSeq + 2]
      /\ ns' = [ns EXCEPT ![n] = ns[o], ![o] = NoIno]
      /\ UNCHANGED <<cmp, saved>>
  <2>1. LogOf(slot, mem.gen) = g.log
    BY <1>1, LogOfActive
  <2>2. QED
    BY <2>1 DEF Rename
<1> HIDE DEF g, ins, del
<1>4. /\ b1 \in Blob /\ g1 \in Generation
      /\ Mirrors(b1, g1, m1)
      /\ \A i \in 1..mem.used : g1.log[i] = g.log[i]
  <2>1. mem.used + 1 <= Region
    BY <1>1, <1>3
  <2>2. QED
    BY <1>1, <1>2, <2>1, MirrorsAppend
<1>5. m1 \in Maps
  BY <1>1, <1>2 DEF Maps
<1>6. /\ b1.tree = Applied(mem.tree, ins, FALSE)
      /\ b1.used = mem.used + 1 /\ b1.nextSeq = mem.nextSeq + 1
      /\ b1.base = mem.base
  BY <1>1, <1>2 DEF Blob
<1>7. g1.log = log1 /\ log1 \in Logs
  BY <1>1, <1>4 DEF Generation
<1>8. del.seq = b1.nextSeq /\ b1.used + 1 <= Region
  BY <1>1, <1>2, <1>3, <1>6
<1>9. /\ b2 \in Blob /\ g2 \in Generation
      /\ Mirrors(b2, g2, m2)
      /\ \A i \in 1..b1.used : g2.log[i] = g1.log[i]
  <2> HIDE DEF b1, g1, m1
  <2>1. QED
    BY <1>2, <1>4, <1>5, <1>8, MirrorsAppend
<1>10. mem' = b2
  <2> DEFINE T1 == Applied(mem.tree, ins, FALSE)
             T2 == Applied(T1, del, FALSE)
             B(T, u, q) == [gen |-> mem.gen, base |-> mem.base,
                            seqBase |-> mem.seqBase, tree |-> T, used |-> u,
                            nextSeq |-> q, floor |-> mem.floor]
  <2>1. /\ b1 = [mem EXCEPT !.tree = T1, !.used = mem.used + 1,
                            !.nextSeq = ins.seq + 1]
        /\ b2 = [b1 EXCEPT !.tree = T2, !.used = b1.used + 1,
                           !.nextSeq = del.seq + 1]
        /\ mem' = [mem EXCEPT !.tree = T2, !.used = mem.used + 2,
                              !.nextSeq = mem.nextSeq + 2]
    BY <1>3, <1>6
  <2> HIDE DEF T1, T2, b1, b2
  <2>2. b1 = B(T1, mem.used + 1, ins.seq + 1)
    BY <1>1, <2>1 DEF Blob
  <2>3. b2 = B(T2, b1.used + 1, del.seq + 1)
    BY <2>1, <2>2
  <2>4. mem' = B(T2, mem.used + 2, mem.nextSeq + 2)
    BY <1>1, <2>1 DEF Blob
  <2>5. b1.used + 1 = mem.used + 2 /\ del.seq + 1 = mem.nextSeq + 2
    BY <1>1, <1>2, <1>6
  <2>6. QED
    BY <2>3, <2>4, <2>5
<1>11. ns' = m2 /\ m2 \in Maps
  <2>1. m2 = [ns EXCEPT ![n] = ns[o], ![o] = NoIno]
    BY <1>2
  <2>2. m2 \in Maps
    BY <1>2, <1>5 DEF Maps
  <2>3. QED
    BY <1>3, <2>1, <2>2
<1>12. g2 = [g EXCEPT !.log = log2] /\ g2.log = log2 /\ log2 \in Logs
  <2> HIDE DEF log1, log2
  <2>1. g2 = [g EXCEPT !.log = log2] /\ g2.log = log2
    BY <1>1 DEF Generation
  <2>2. QED
    BY <1>9, <2>1 DEF Generation
<1>13. slot' = SetLog(slot, mem.gen, log2)
  BY <1>3, <1>6, <1>7
<1>14. \A i \in 1..mem.used : log2[i] = g.log[i]
  <2>1. \A i \in 1..mem.used : i \in 1..b1.used
    BY <1>1, <1>6
  <2>2. QED
    BY <1>4, <1>9, <1>12, <2>1
<1> HIDE DEF log1, b1, g1, m1, log2, b2, g2, m2
<1>15. mem'.base = mem.base /\ mem'.used = mem.used + 2
  BY <1>1, RenameMoves
<1>16. mem.used \in 0..Region /\ mem.used <= mem'.used
  BY <1>1, <1>3, <1>15
<1>17. /\ cmp.pc \in {"copy", "final"} => cmp.snapUsed <= mem.used
       /\ cmp.pc \in {"copy", "final"} /\ ~cmp'.rewound =>
            ~cmp.rewound /\ cmp.copied <= mem.used
  BY <1>3 DEF SourceInv, NamespaceInv, StagedInv
<1>18. cmp' = [cmp EXCEPT !.rewound = cmp'.rewound]
  BY <1>1, <1>3 DEF Compaction
<1>19. Mirrors(mem', [ActiveGen(slot) EXCEPT !.log = log2], ns')
  BY <1>9, <1>10, <1>11, <1>12 DEF g
<1>20. QED
  BY <1>1, <1>3, <1>11, <1>12, <1>13, <1>14, <1>15, <1>16, <1>17, <1>18,
     <1>19, LogMoves DEF g

LEMMA NamesNamespaceInv ==
  ASSUME TypeInv, SourceInv, NamespaceInv,
         \/ \E n \in Name, i \in Ino : Create(n, i)
         \/ \E n \in Name : Unlink(n)
         \/ \E o, n \in Name : Rename(o, n)
  PROVE  NamespaceInv'
<1>1. mem \in Blob /\ mem # NoBlob /\ mem.nextSeq \in Nat
  BY BlobFields DEF Create, Unlink, Rename, TypeInv, TypeOK
<1>2. ASSUME NEW n \in Name, NEW i \in Ino, Create(n, i) PROVE NamespaceInv'
  <2> DEFINE rec == Rec(mem.nextSeq, INSERT, n, i)
             tail == mem.tree[n] = NoEntry
  <2>1. /\ rec \in Record /\ rec.op \in {INSERT, DELETE}
        /\ rec.seq = mem.nextSeq /\ rec.name = n /\ rec.ino = i
    BY <1>1, RecType
  <2>2. /\ AppendRecord(rec, tail) /\ tail \in BOOLEAN
        /\ ns[n] = NoIno /\ ns' = [ns EXCEPT ![n] = i]
        /\ UNCHANGED <<cmp, saved>>
    BY <1>2 DEF Create
  <2>3. tail => mem.tree[rec.name] = NoEntry /\ ns[rec.name] = NoIno
    BY <2>1, <2>2
  <2> HIDE DEF rec, tail
  <2>4. QED
    BY <1>1, <2>1, <2>2, <2>3, AppendNamespaceInv
<1>3. ASSUME NEW n \in Name, Unlink(n) PROVE NamespaceInv'
  <2>1. ns' = [ns EXCEPT ![n] = NoIno] /\ UNCHANGED saved
    BY <1>3 DEF Unlink
  <2>2. CASE Cancellable(n) /\ CancelRecord(n)
    BY <1>1, <2>1, <2>2, CancelNamespaceInv
  <2>3. CASE /\ AppendRecord(Rec(mem.nextSeq, DELETE, n, NoIno), FALSE)
             /\ UNCHANGED cmp
    <3> DEFINE rec == Rec(mem.nextSeq, DELETE, n, NoIno)
    <3>1. /\ rec \in Record /\ rec.op \in {INSERT, DELETE}
          /\ rec.seq = mem.nextSeq /\ rec.name = n /\ rec.ino = NoIno
      BY <1>1, RecType
    <3>2. AppendRecord(rec, FALSE)
      BY <2>3
    <3> HIDE DEF rec
    <3>3. QED
      BY <1>1, <2>1, <2>3, <3>1, <3>2, AppendNamespaceInv
  <2>4. QED
    BY <1>3, <2>2, <2>3 DEF Unlink
<1>4. QED
  BY <1>2, <1>3, RenameNamespaceInv

(* The log a blob mirrors replays in full, and has a place in the region.  *)
LEMMA SourceLog ==
  ASSUME TypeInv, SourceInv, NamespaceInv, mem # NoBlob, mem.gen = cmp.gen
  PROVE  LET log == LogOf(slot, cmp.gen)
         IN  /\ log \in Logs
             /\ mem \in Blob
             /\ mem.base \in Maps /\ mem.seqBase \in Nat
             /\ mem.used \in 0..Region
             /\ mem.nextSeq = mem.seqBase + mem.used + 1
             /\ \A i \in 1..mem.used : Accepted(log, mem.seqBase, i)
             /\ Fold(mem.base, log, mem.used) = ns
<1> DEFINE g == ActiveGen(slot)
<1>1. slot \in Slots /\ SlotsOK(slot) /\ mem \in Blob
  BY DEF TypeInv, TypeOK
<1>2. g \in Generation /\ Mirrors(mem, g, ns) /\ g.log \in Logs
  BY <1>1, ActiveSlotIs DEF NamespaceInv, Generation
<1>3. LogOf(slot, cmp.gen) = g.log
  BY <1>1, <1>2, LogOfActive DEF Mirrors
<1>4. /\ mem.used = ReplayLength(g.log, mem.seqBase)
      /\ mem.nextSeq = mem.seqBase + mem.used + 1
      /\ Fold(mem.base, g.log, mem.used) = ns
  BY <1>2 DEF Mirrors
<1>5. mem.base \in Maps /\ mem.seqBase \in Nat
  BY <1>1, BlobFields
<1>6. /\ mem.used \in 0..Region
      /\ \A i \in 1..mem.used : Accepted(g.log, mem.seqBase, i)
  BY <1>2, <1>4, <1>5, ReplayLengthIs
<1>7. QED
  BY <1>1, <1>2, <1>3, <1>4, <1>5, <1>6

(* Copying the source's tail gives a log that replays up to the source's   *)
(* end.                                                                    *)
LEMMA TailCopied ==
  ASSUME TypeInv, SourceInv, NamespaceInv, cmp.pc \in {"copy", "final"},
         cmp.copied <= mem.used
  PROVE  LET log == LogOf(slot, cmp.gen)
             t == mem.used - cmp.snapUsed
             new == CopyCells(cmp.staged, log, cmp.copied, mem.used,
                              cmp.snapUsed)
         IN  /\ new \in Logs
             /\ t \in 0..Region
             /\ cmp.snapUsed \in Nat
             /\ cmp.snapSeq - 1 = mem.seqBase + cmp.snapUsed
             /\ \A i \in 1..t : Accepted(new, cmp.snapSeq - 1, i)
             /\ t < Region => new[t + 1] = Hole
             /\ ~cmp.rewound => \A i \in 1..t : new[i] = log[i + cmp.snapUsed]
<1> USE DeltaLogAssumption
<1> DEFINE log == LogOf(slot, cmp.gen)
           t == mem.used - cmp.snapUsed
           k == cmp.copied - cmp.snapUsed
           new == CopyCells(cmp.staged, log, cmp.copied, mem.used, cmp.snapUsed)
           sb == cmp.snapSeq - 1
<1>1. /\ mem # NoBlob /\ mem.gen = cmp.gen /\ cmp.snapUsed <= mem.used
      /\ cmp.snapSeq = mem.seqBase + cmp.snapUsed + 1
  BY DEF SourceInv
<1>2. /\ log \in Logs /\ mem.seqBase \in Nat /\ mem.used \in 0..Region
      /\ \A i \in 1..mem.used : Accepted(log, mem.seqBase, i)
  BY <1>1, SourceLog
<1>3. /\ cmp.staged \in Logs /\ cmp.copied \in Nat /\ cmp.snapUsed \in Nat
  BY DEF TypeInv, TypeOK, Compaction
<1>4. /\ cmp.snapUsed <= cmp.copied
      /\ \A i \in 1..k : Accepted(cmp.staged, sb, i)
      /\ ~cmp.rewound => \A i \in 1..k : cmp.staged[i] = log[i + cmp.snapUsed]
  BY DEF NamespaceInv, StagedInv
<1> HIDE DEF log
<1>5. new \in Logs
  BY <1>2, <1>3, CopyCellsType
<1>6. sb = mem.seqBase + cmp.snapUsed /\ t \in 0..Region /\ k \in Nat /\ k <= t
  BY <1>1, <1>2, <1>3, <1>4
<1>7. new = [i \in 1..Region |->
               CASE i > k /\ i <= t -> log[i + cmp.snapUsed]
                 [] i = t + 1 -> Hole
                 [] OTHER -> cmp.staged[i]]
  BY DEF CopyCells
<1> HIDE DEF new, t, k, sb
<1>8. ASSUME NEW i \in 1..t
      PROVE  /\ Accepted(new, sb, i)
             /\ ~cmp.rewound => new[i] = log[i + cmp.snapUsed]
  <2>1. i \in 1..Region /\ i # t + 1 /\ i <= t /\ i \in Nat
    BY <1>6
  <2>2. CASE i > k
    <3>1. new[i] = log[i + cmp.snapUsed]
      BY <1>7, <2>1, <2>2
    <3>2. i + cmp.snapUsed \in 1..mem.used
      BY <1>2, <1>3, <2>1 DEF t
    <3>3. Accepted(log, mem.seqBase, i + cmp.snapUsed)
      BY <1>2, <3>2
    <3>4. mem.seqBase + (i + cmp.snapUsed) = sb + i
      BY <1>2, <1>3, <1>6, <2>1
    <3>5. QED
      BY <3>1, <3>3, <3>4 DEF Accepted
  <2>3. CASE ~(i > k)
    <3>1. new[i] = cmp.staged[i] /\ i \in 1..k
      BY <1>6, <1>7, <2>1, <2>3
    <3>2. QED
      BY <1>4, <3>1 DEF Accepted, log, k, sb
  <2>4. QED
    BY <2>2, <2>3
<1>9. t < Region => new[t + 1] = Hole
  BY <1>6, <1>7
<1>10. QED
  BY <1>3, <1>5, <1>6, <1>8, <1>9 DEF new, t, log, sb

(* Only where replay starts being able to cancel depends on the floor.     *)
LEMMA FloorMoves ==
  ASSUME NEW b \in Blob, NEW f \in Nat, NEW g, NEW m, Mirrors(b, g, m)
  PROVE  LET c == [b EXCEPT !.floor = f]
         IN  /\ Mirrors(c, g, m)
             /\ c.gen = b.gen /\ c.base = b.base /\ c.used = b.used
<1> DEFINE c == [b EXCEPT !.floor = f]
<1>1. /\ c.gen = b.gen /\ c.base = b.base /\ c.seqBase = b.seqBase
      /\ c.tree = b.tree /\ c.used = b.used /\ c.nextSeq = b.nextSeq
  BY DEF Blob
<1> HIDE DEF c
<1>2. View(c) = View(b)
  BY <1>1 DEF View
<1>3. QED
  BY <1>1, <1>2 DEF Mirrors, c

LEMMA PublishNamespaceInv ==
  ASSUME TypeInv, SourceInv, NamespaceInv, TypeInv', CompactPublish,
         ~tainted'
  PROVE  NamespaceInv'
<1> USE DeltaLogAssumption
<1> DEFINE s == (cmp.gen + 1) % 2
           G == StagedGen
           log == LogOf(slot, cmp.gen)
           k == cmp.copied - cmp.snapUsed
<1>1. /\ cmp \in Compaction /\ cmp.gen \in Nat /\ cmp.pc = "final"
      /\ cmp.copied \in Nat /\ cmp.snapUsed \in Nat /\ cmp.staged \in Logs
      /\ slot \in Slots /\ SlotsOK(slot) /\ slot' \in Slots /\ SlotsOK(slot')
  BY DEF CompactPublish, TypeInv, TypeOK, Compaction
<1>2. /\ slot' = [slot EXCEPT ![s] = G] /\ mem' = ParseGen(G)
      /\ ~cmp.rewound /\ CutHolds /\ UNCHANGED <<ns, saved>>
  BY DEF CompactPublish
<1>3. /\ mem # NoBlob /\ mem.gen = cmp.gen /\ mem.used = cmp.copied
      /\ cmp.snapSeq - 1 = mem.seqBase + cmp.snapUsed
      /\ cmp.snapUsed <= mem.used
  BY <1>1, <1>2, SourceLog DEF CutHolds, SourceInv
<1>4. /\ G \in Generation /\ G # NoGen /\ G.gen = cmp.gen + 1
      /\ G.base = cmp.base /\ G.seqBase = cmp.snapSeq - 1
      /\ G.log = cmp.staged
  BY <1>1, StagedGenType DEF StagedGen
<1>5. s \in {0, 1} /\ s # cmp.gen % 2
  BY <1>1
<1>6. ActiveGen(slot).gen = cmp.gen
  BY <1>3 DEF NamespaceInv, Mirrors
<1> HIDE DEF G, s
<1>7. ActiveGen(slot') = G
  <2>1. slot'[s] = G /\ slot'[s] # NoGen
    BY <1>1, <1>2, <1>4, <1>5 DEF Slots
  <2>2. ASSUME NEW t \in {0, 1}, slot'[t] # NoGen
        PROVE  slot'[t].gen <= slot'[s].gen
    <3>1. CASE t = s
      BY <1>1, <1>4, <2>1, <3>1
    <3>2. CASE t # s
      <4>1. slot'[t] = slot[t]
        BY <1>1, <1>2, <1>5, <3>2 DEF Slots
      <4>2. slot[t].gen <= cmp.gen /\ slot[t].gen \in Nat
        BY <1>1, <1>6, <2>2, <4>1, ActiveSlotIs DEF ActiveGen, Slots, Generation
      <4>3. QED
        BY <1>1, <1>4, <2>1, <4>1, <4>2
    <3>3. QED
      BY <3>1, <3>2
  <2>3. QED
    BY <1>1, <1>5, <2>1, <2>2, ActiveSlotUnique
<1>8. /\ cmp.base = Fold(mem.base, log, cmp.snapUsed)
      /\ \A i \in 1..k : Accepted(cmp.staged, cmp.snapSeq - 1, i)
      /\ k < Region => cmp.staged[k + 1] = Hole
      /\ \A i \in 1..k : cmp.staged[i] = log[i + cmp.snapUsed]
      /\ cmp.snapUsed <= cmp.copied /\ cmp.copied <= Region
  BY <1>1, <1>2 DEF NamespaceInv, StagedInv
<1>9. /\ log \in Logs /\ mem.base \in Maps /\ mem.seqBase \in Nat
      /\ Fold(mem.base, log, mem.used) = ns
  BY <1>3, SourceLog
<1> HIDE DEF log
<1>10. k \in 0..Region /\ k \in Nat /\ cmp.snapUsed + k = mem.used
       /\ cmp.snapSeq - 1 \in Nat
  BY <1>1, <1>3, <1>8, <1>9
<1>11. ReplayLength(cmp.staged, cmp.snapSeq - 1) = k
  <2>1. k < Region => ~Accepted(cmp.staged, cmp.snapSeq - 1, k + 1)
    BY <1>8 DEF Accepted
  <2>2. QED
    BY <1>1, <1>8, <1>10, <2>1, ReplayLengthUnique
<1>12. Fold(cmp.base, cmp.staged, k) = ns
  <2>1. cmp.snapUsed + k <= Region
    BY <1>3, <1>8, <1>10
  <2> HIDE DEF k
  <2>2. Fold(Fold(mem.base, log, cmp.snapUsed), cmp.staged, k)
          = Fold(mem.base, log, cmp.snapUsed + k)
    <3> DEFINE u == cmp.snapUsed
               staged == cmp.staged
    <3>1. /\ mem.base \in Maps /\ log \in Logs /\ staged \in Logs
          /\ u \in Nat /\ k \in Nat /\ u + k <= Region
          /\ \A i \in 1..k : staged[i] = log[i + u]
      BY <1>1, <1>8, <1>9, <1>10, <2>1
    <3> HIDE DEF u, staged
    <3>2. Fold(Fold(mem.base, log, u), staged, k) = Fold(mem.base, log, u + k)
      BY <3>1, FoldSplit
    <3>3. QED
      BY <3>2 DEF u, staged
  <2>3. QED
    BY <1>8, <1>9, <1>10, <2>2
<1>13. Mirrors(mem', ActiveGen(slot'), ns') /\ DiskView(slot') = ns'
  BY <1>2, <1>4, <1>7, <1>11, <1>12, ParseGenMirrors DEF DiskView
<1>14. cmp'.pc = "reclaim"
  BY <1>1 DEF CompactPublish, Compaction
<1>15. QED
  BY <1>2, <1>13, <1>14 DEF NamespaceInv, StagedInv

LEMMA CompactNamespaceInv ==
  ASSUME TypeInv, SourceInv, NamespaceInv, TypeInv', Compact, ~tainted'
  PROVE  NamespaceInv'
<1> USE DeltaLogAssumption
<1>0. cmp \in Compaction /\ slot \in Slots /\ SlotsOK(slot)
  BY DEF TypeInv, TypeOK
<1>1. ASSUME UNCHANGED <<slot, mem, ns, saved>>,
             cmp'.pc \notin {"copy", "final"}
      PROVE  NamespaceInv'
  BY <1>1 DEF NamespaceInv, StagedInv
<1>2. ASSUME NEW f \in Nat, mem # NoBlob, mem' = [mem EXCEPT !.floor = f],
             UNCHANGED <<slot, ns, saved>>, cmp'.pc \notin {"copy", "final"}
      PROVE  NamespaceInv'
  <2>1. Mirrors(mem', ActiveGen(slot), ns)
    BY <1>2, FloorMoves DEF TypeInv, TypeOK, NamespaceInv
  <2>2. QED
    BY <1>2, <2>1 DEF NamespaceInv, StagedInv
<1>3. CASE CompactCall \/ CompactSkip \/ CompactNoBlob
  <2>1. UNCHANGED <<slot, mem, ns, saved>>
    BY <1>3 DEF CompactCall, CompactSkip, CompactNoBlob
  <2>2. cmp'.pc \in {"called", "idle", "leaked"}
    <3>1. CASE CompactNoBlob
      BY <1>0, <3>1 DEF CompactNoBlob, Compaction
    <3>2. CASE CompactCall \/ CompactSkip
      BY <3>2 DEF CompactCall, CompactSkip, Idle
    <3>3. QED
      BY <1>3, <3>1, <3>2
  <2>3. QED
    BY <1>1, <2>1, <2>2
<1>4. CASE CompactBegin
  <2>1. mem # NoBlob /\ mem' = [mem EXCEPT !.floor = mem.used]
        /\ UNCHANGED <<slot, ns, saved>>
    BY <1>4 DEF CompactBegin
  <2>2. mem.used \in Nat
    BY <2>1, BlobFields DEF TypeInv, TypeOK
  <2>3. cmp'.pc = "merge"
    BY <1>4 DEF CompactBegin, Idle
  <2>4. QED
    BY <1>2, <2>1, <2>2, <2>3
<1>5. CASE CompactAbort
  <2>1. cmp'.pc = "idle" /\ UNCHANGED <<slot, ns, saved>>
    BY <1>5 DEF CompactAbort, Idle
  <2>2. mem' = mem \/ (mem # NoBlob /\ mem' = [mem EXCEPT !.floor = 0])
    BY <1>5 DEF CompactAbort
  <2>3. QED
    BY <1>1, <1>2, <2>1, <2>2
<1>6. CASE CompactMerge
  <2> DEFINE log == LogOf(slot, cmp.gen)
             base == Overlay(mem.base, ReplayTree(log, cmp.snapUsed))
  <2>1. /\ cmp.pc = "merge" /\ mem # NoBlob /\ mem.gen = cmp.gen
        /\ cmp.snapUsed <= mem.used
        /\ \A i \in 1..cmp.snapUsed : Accepted(log, mem.seqBase, i)
        /\ cmp' = [cmp EXCEPT !.pc = "copy", !.base = base,
                              !.copied = cmp.snapUsed,
                              !.copiedSeq = cmp.snapSeq]
        /\ UNCHANGED <<slot, mem, ns, saved>>
    BY <1>6 DEF CompactMerge, ExactCut, SourceInv
  <2>2. /\ log \in Logs /\ mem.base \in Maps /\ mem.seqBase \in Nat
        /\ mem.used \in 0..Region
    BY <2>1, SourceLog
  <2>3. cmp.snapUsed \in 0..Region /\ cmp.snapUsed - cmp.snapUsed = 0
        /\ cmp.snapUsed <= Region /\ cmp.snapUsed <= cmp.snapUsed
    BY <1>0, <2>1, <2>2 DEF Compaction
  <2>4. base = Fold(mem.base, log, cmp.snapUsed)
    BY <2>1, <2>2, <2>3, OverlayReplay
  <2>5. 0 < Region => cmp.staged[0 + 1] = Hole
    BY <2>1 DEF SourceInv, EmptyLog
  <2> HIDE DEF base, log
  <2>6. /\ cmp'.pc = "copy" /\ cmp'.gen = cmp.gen /\ cmp'.base = base
        /\ cmp'.snapUsed = cmp.snapUsed /\ cmp'.snapSeq = cmp.snapSeq
        /\ cmp'.staged = cmp.staged /\ cmp'.copied = cmp.snapUsed
    BY <1>0, <2>1 DEF Compaction
  <2>7. LogOf(slot', cmp'.gen) = log /\ mem' = mem
    BY <2>1, <2>6 DEF log
  <2>8. cmp'.copied - cmp'.snapUsed = 0
    BY <2>3, <2>6
  <2>9. StagedInv'
    BY <2>1, <2>3, <2>4, <2>5, <2>6, <2>7, <2>8 DEF StagedInv
  <2>10. QED
    BY <2>1, <2>9 DEF NamespaceInv
<1>7. CASE CompactCopyTail
  <2> DEFINE log == LogOf(slot, cmp.gen)
             t == mem.used - cmp.snapUsed
             new == CopyCells(cmp.staged, log, cmp.copied, mem.used, cmp.snapUsed)
             r == cmp.round + 1
  <2>1. /\ cmp.pc = "copy" /\ mem # NoBlob /\ mem.gen = cmp.gen
        /\ cmp.copied <= mem.used
        /\ cmp' = IF mem.used > cmp.copied
                  THEN [cmp EXCEPT !.staged = new, !.copied = mem.used,
                                   !.copiedSeq = mem.nextSeq, !.round = r]
                  ELSE [cmp EXCEPT !.pc = "final"]
        /\ UNCHANGED <<slot, mem, ns, saved>>
    <3>1. mem.used >= cmp.copied => cmp.copied <= mem.used
      <4>1. mem # NoBlob => mem.used \in Nat
        BY BlobFields DEF TypeInv, TypeOK
      <4>2. cmp.copied \in Nat
        BY <1>0 DEF Compaction
      <4>3. QED
        BY <1>7, <4>1, <4>2 DEF CompactCopyTail
    <3>2. QED
      BY <1>7, <3>1 DEF CompactCopyTail
  <2>2. StagedInv'
    <3>1. CASE mem.used > cmp.copied
      <4>1. /\ new \in Logs /\ t \in 0..Region
            /\ \A i \in 1..t : Accepted(new, cmp.snapSeq - 1, i)
            /\ t < Region => new[t + 1] = Hole
            /\ ~cmp.rewound => \A i \in 1..t : new[i] = log[i + cmp.snapUsed]
        BY <2>1, TailCopied
      <4>2. /\ cmp.base = Fold(mem.base, log, cmp.snapUsed)
            /\ cmp.snapUsed <= mem.used
        BY <2>1 DEF NamespaceInv, StagedInv, SourceInv
      <4>3. mem.used <= Region /\ mem.used <= mem.used
        BY <2>1, SourceLog
      <4> HIDE DEF new, log, r
      <4>4. /\ cmp'.pc = "copy" /\ cmp'.gen = cmp.gen /\ cmp'.base = cmp.base
            /\ cmp'.snapUsed = cmp.snapUsed /\ cmp'.snapSeq = cmp.snapSeq
            /\ cmp'.staged = new /\ cmp'.copied = mem.used
            /\ cmp'.rewound = cmp.rewound
        BY <1>0, <2>1, <3>1 DEF Compaction
      <4>5. LogOf(slot', cmp'.gen) = log /\ mem' = mem
        BY <2>1, <4>4 DEF log
      <4>6. QED
        BY <4>1, <4>2, <4>3, <4>4, <4>5 DEF StagedInv
    <3>2. CASE ~(mem.used > cmp.copied)
      <4>1. cmp' = [cmp EXCEPT !.pc = "final"]
        BY <2>1, <3>2
      <4>2. /\ cmp'.gen = cmp.gen /\ cmp'.base = cmp.base
            /\ cmp'.snapUsed = cmp.snapUsed /\ cmp'.snapSeq = cmp.snapSeq
            /\ cmp'.staged = cmp.staged /\ cmp'.copied = cmp.copied
            /\ cmp'.rewound = cmp.rewound
        BY <1>0, <4>1 DEF Compaction
      <4>3. QED
        BY <2>1, <4>2 DEF NamespaceInv, StagedInv
    <3>3. QED
      BY <3>1, <3>2
  <2>3. QED
    BY <2>1, <2>2 DEF NamespaceInv
<1>8. CASE CompactPublish
  BY <1>8, PublishNamespaceInv
<1>9. CASE CompactRetry
  <2> DEFINE r == cmp.round + 1
  <2>1. /\ cmp.pc = "final" /\ cmp' = [cmp EXCEPT !.pc = "copy", !.round = r]
        /\ UNCHANGED <<slot, mem, ns, saved>>
    BY <1>9 DEF CompactRetry
  <2> HIDE DEF r
  <2>2. /\ cmp'.gen = cmp.gen /\ cmp'.base = cmp.base
        /\ cmp'.snapUsed = cmp.snapUsed /\ cmp'.snapSeq = cmp.snapSeq
        /\ cmp'.staged = cmp.staged /\ cmp'.copied = cmp.copied
        /\ cmp'.rewound = cmp.rewound
    BY <1>0, <2>1 DEF Compaction
  <2>3. QED
    BY <2>1, <2>2 DEF NamespaceInv, StagedInv
<1>10. CASE CompactReclaim
  <2> DEFINE a == ActiveSlot(slot)
  <2>1. /\ cmp.pc = "reclaim" /\ cmp'.pc = "idle"
        /\ UNCHANGED <<mem, ns, saved>>
        /\ slot' = [slot EXCEPT ![cmp.gen % 2] = NoGen] \/ slot' = slot
    BY <1>10 DEF CompactReclaim, Idle
  <2>2. mem # NoBlob /\ mem.gen = cmp.gen + 1 /\ cmp.gen \in Nat
    BY <1>0, <2>1 DEF SourceInv, Compaction
  <2>3. ActiveGen(slot).gen = cmp.gen + 1
    BY <2>2 DEF NamespaceInv, Mirrors
  <2>4. a \in {0, 1} /\ a # cmp.gen % 2 /\ slot[a] # NoGen
        /\ \A t \in {0, 1} : slot[t] # NoGen => slot[t].gen <= slot[a].gen
    BY <1>0, <2>2, <2>3, ActiveSlotIs
  <2> HIDE DEF a
  <2>5. /\ slot'[a] = slot[a] /\ slot' \in Slots /\ SlotsOK(slot')
        /\ \A t \in {0, 1} : slot'[t] # NoGen => slot'[t] = slot[t]
    <3>1. slot' \in Slots /\ SlotsOK(slot')
      BY DEF TypeInv, TypeOK
    <3>2. QED
      BY <1>0, <2>1, <2>4, <3>1 DEF Slots
  <2>6. ActiveGen(slot') = slot'[a]
    BY <2>4, <2>5, ActiveSlotUnique
  <2>7. ActiveGen(slot') = ActiveGen(slot)
    BY <2>5, <2>6 DEF ActiveGen, a
  <2>8. DiskView(slot') = DiskView(slot)
    BY <2>7 DEF DiskView
  <2>9. QED
    BY <2>1, <2>7, <2>8 DEF NamespaceInv, StagedInv
<1>11. QED
  BY <1>3, <1>4, <1>5, <1>6, <1>7, <1>8, <1>9, <1>10 DEF Compact

LEMMA OtherNamespaceInv ==
  ASSUME TypeInv, SourceInv, NamespaceInv, ~tainted',
         \/ \E t \in Thread : EnsureParse(t) \/ EnsureInstall(t)
         \/ Shrink \/ ScheduleDemote \/ ReleaseDemote \/ Commit \/ Crash
  PROVE  NamespaceInv'
<1>1. ASSUME NEW t \in Thread, EnsureParse(t) PROVE NamespaceInv'
  BY <1>1 DEF EnsureParse, NamespaceInv, StagedInv
<1>2. ASSUME NEW t \in Thread, EnsureInstall(t) PROVE NamespaceInv'
  <2>1. UNCHANGED <<slot, ns, saved, cmp>>
    BY <1>2 DEF EnsureInstall
  <2>2. CASE mem = NoBlob
    <3>1. mem' = ParseBlob(slot)
      BY <1>2, <2>2 DEF EnsureInstall
    <3>2. Mirrors(mem', ActiveGen(slot), DiskView(slot))
      BY <3>1, ParseBlobMirrors DEF TypeInv, TypeOK
    <3>3. cmp.pc \notin {"copy", "final"}
      BY <2>2 DEF SourceInv
    <3>4. QED
      BY <2>1, <3>2, <3>3 DEF NamespaceInv, StagedInv
  <2>3. CASE mem # NoBlob
    BY <1>2, <2>1, <2>3 DEF EnsureInstall, NamespaceInv, StagedInv
  <2>4. QED
    BY <2>2, <2>3
<1>3. CASE Shrink
  BY <1>3 DEF Shrink, Staging, NamespaceInv, StagedInv
<1>4. CASE ScheduleDemote \/ ReleaseDemote \/ Commit
  <2>1. UNCHANGED <<slot, mem, cmp, ns>>
    BY <1>4 DEF ScheduleDemote, ReleaseDemote, Commit
  <2>2. saved' = saved \/ saved' = [slot |-> slot, ns |-> ns]
    BY <1>4 DEF ScheduleDemote, ReleaseDemote, Commit
  <2>3. DiskView(saved'.slot) = saved'.ns
    BY <2>2 DEF NamespaceInv
  <2>4. QED
    BY <2>1, <2>3 DEF NamespaceInv, StagedInv
<1>5. CASE Crash
  <2>1. cmp'.pc = "idle"
    BY <1>5 DEF Crash, Idle
  <2>2. QED
    BY <1>5, <2>1 DEF Crash, NamespaceInv, StagedInv
<1>6. QED
  BY <1>1, <1>2, <1>3, <1>4, <1>5

(* A race, once fired, is remembered.                                      *)
LEMMA TaintLasts == TypeInv /\ Next /\ ~tainted' => ~tainted
<1> SUFFICES ASSUME TypeInv, Next, tainted PROVE tainted'
  BY DEF TypeInv, TypeOK
<1>1. CASE Compact
  BY <1>1 DEF Compact, CompactCall, CompactSkip, CompactNoBlob, CompactBegin,
     CompactMerge, CompactCopyTail, CompactPublish, CompactRetry,
     CompactAbort, CompactReclaim
<1>2. ASSUME NEW t \in Thread, EnsureParse(t) \/ EnsureInstall(t) PROVE tainted'
  BY <1>2 DEF EnsureParse, EnsureInstall
<1>3. CASE Shrink \/ ScheduleDemote \/ ReleaseDemote \/ Commit \/ Crash
  BY <1>3 DEF Shrink, ScheduleDemote, ReleaseDemote, Commit, Crash
<1>4. ASSUME \/ \E n \in Name, i \in Ino : Create(n, i)
             \/ \E n \in Name : Unlink(n)
             \/ \E o, n \in Name : Rename(o, n)
      PROVE  tainted'
  BY <1>4 DEF Create, Unlink, Rename
<1>5. QED
  BY <1>1, <1>2, <1>3, <1>4 DEF Next

LEMMA InitIInv == Init => IInv
<1> SUFFICES ASSUME Init PROVE IInv
  OBVIOUS
<1> USE DeltaLogAssumption
<1> DEFINE g == [gen |-> 1, base |-> ns, seqBase |-> 0, log |-> EmptyLog]
<1>1. TypeInv
  BY InitTypeInv
<1>2. mem = NoBlob /\ cmp.pc = "idle" /\ \A t \in Thread : parsed[t] = NoBlob
  BY DEF Init, Idle
<1>3. SourceInv
  BY <1>2 DEF SourceInv, Sequenced
<1>4. slot = [s \in {0, 1} |-> IF s = 1 THEN g ELSE NoGen]
      /\ saved = [slot |-> slot, ns |-> ns] /\ ns \in Maps
  BY DEF Init
<1>5. slot \in Slots /\ SlotsOK(slot) /\ EmptyLog \in Logs
  BY <1>1 DEF TypeInv, TypeOK, EmptyLog, Logs
<1>6. g \in Generation /\ g # NoGen
  <2>1. g \in Generation
    BY <1>4, <1>5 DEF Generation
  <2>2. QED
    BY <2>1, StableRootAssumption
<1>7. ActiveGen(slot) = g
  <2>1. slot[1] = g /\ slot[0] = NoGen
    BY <1>4
  <2> HIDE DEF g
  <2>2. \A t \in {0, 1} : slot[t] # NoGen => slot[t].gen <= slot[1].gen
    BY <1>6, <2>1 DEF Generation
  <2>3. QED
    BY <1>5, <1>6, <2>1, <2>2, ActiveSlotUnique
<1>8. ReplayLength(EmptyLog, 0) = 0
  <2>1. 0 < Region => ~Accepted(EmptyLog, 0, 0 + 1)
    BY DEF Accepted, EmptyLog
  <2>2. 0 \in 0..Region /\ \A i \in 1..0 : Accepted(EmptyLog, 0, i)
    OBVIOUS
  <2>3. QED
    BY <1>5, <2>1, <2>2, ReplayLengthUnique
<1>9. DiskView(slot) = ns
  BY <1>4, <1>7, <1>8, FoldNone DEF DiskView
<1>10. NamespaceInv
  BY <1>2, <1>4, <1>9 DEF NamespaceInv, StagedInv
<1>11. QED
  BY <1>1, <1>3, <1>10 DEF IInv

LEMMA StepIInv == IInv /\ [Next]_vars => IInv'
<1>1. ASSUME IInv, Next PROVE IInv'
  <2>1. TypeInv' /\ SourceInv'
    BY <1>1, StepTypeInv, StepSourceInv DEF IInv
  <2>2. ASSUME ~tainted' PROVE NamespaceInv'
    <3>1. TypeInv /\ SourceInv /\ NamespaceInv
      BY <1>1, <2>2, TaintLasts DEF IInv
    <3>2. QED
      BY <1>1, <2>1, <2>2, <3>1, NamesNamespaceInv, CompactNamespaceInv,
         OtherNamespaceInv DEF Next
  <2>3. QED
    BY <2>1, <2>2 DEF IInv
<1>2. ASSUME IInv, UNCHANGED vars PROVE IInv'
  <2>1. TypeInv' /\ SourceInv'
    BY <1>2, StepTypeInv, StepSourceInv DEF IInv
  <2>2. NamespaceInv => NamespaceInv'
    BY <1>2 DEF vars, NamespaceInv, StagedInv
  <2>3. QED
    BY <1>2, <2>1, <2>2 DEF vars, IInv
<1>3. QED
  BY <1>1, <1>2

LEMMA Invariance == Spec => []IInv
BY InitIInv, StepIInv, PTL DEF Spec

-----------------------------------------------------------------------------
(* Until a race fires, a lookup through the installed blob returns what    *)
(* the VFS operations made of the namespace (ext5_stable_inode_by_name),   *)
(* after any interleaving of append, cancel, rename, eviction, reparse and *)
(* compaction.                                                             *)
THEOREM LookupsSeeNamespace == Spec => []BlobIsNamespace
<1>1. IInv => BlobIsNamespace
  BY DEF IInv, NamespaceInv, Mirrors, BlobIsNamespace
<1>2. QED
  BY <1>1, Invariance, PTL

(* Until then a parse of the disk at any moment (ext5_stable_parse_blob)   *)
(* rebuilds that namespace.                                                *)
THEOREM DiskTellsNamespace == Spec => []DiskIsNamespace
<1>1. IInv => DiskIsNamespace
  BY DEF IInv, NamespaceInv, DiskIsNamespace
<1>2. QED
  BY <1>1, Invariance, PTL

(* Until then a power loss returns the namespace of the last commit.       *)
THEOREM CrashReturnsCommit == Spec => []CrashConsistent
<1>1. IInv => CrashConsistent
  BY DEF IInv, NamespaceInv, CrashConsistent
<1>2. QED
  BY <1>1, Invariance, PTL

(* Until then the staged base, the copied tail and the rest of the source  *)
(* make up the namespace at every moment of ext5_stable_compact's catch-up *)
(* rounds, unless the source was rewound below the copied cut.             *)
THEOREM StagingLosesNothing == Spec => []StagedPlusTail
<1>1. ASSUME IInv, ~tainted, cmp.pc \in {"copy", "final"}, ~cmp.rewound
      PROVE  LET t == mem.used - cmp.snapUsed
                 new == CopyCells(cmp.staged, LogOf(slot, cmp.gen), cmp.copied,
                                  mem.used, cmp.snapUsed)
             IN  /\ ReplayLength(new, cmp.snapSeq - 1) = t
                 /\ Fold(cmp.base, new, t) = ns
  <2> USE DeltaLogAssumption
  <2> DEFINE log == LogOf(slot, cmp.gen)
             u == cmp.snapUsed
             t == mem.used - u
             new == CopyCells(cmp.staged, log, cmp.copied, mem.used, u)
  <2>1. /\ TypeInv /\ SourceInv /\ NamespaceInv
        /\ mem # NoBlob /\ mem.gen = cmp.gen /\ u <= mem.used
        /\ cmp.copied <= mem.used
        /\ cmp.base = Fold(mem.base, log, u)
    BY <1>1 DEF IInv, SourceInv, NamespaceInv, StagedInv
  <2>2. /\ log \in Logs /\ mem.base \in Maps /\ mem.seqBase \in Nat
        /\ mem.used \in 0..Region
        /\ Fold(mem.base, log, mem.used) = ns
    BY <2>1, SourceLog
  <2>3. /\ new \in Logs /\ t \in 0..Region /\ u \in Nat
        /\ cmp.snapSeq - 1 = mem.seqBase + u
        /\ \A i \in 1..t : Accepted(new, cmp.snapSeq - 1, i)
        /\ t < Region => new[t + 1] = Hole
        /\ \A i \in 1..t : new[i] = log[i + u]
    BY <1>1, <2>1, TailCopied
  <2>4. u + t = mem.used /\ u + t <= Region /\ t \in Nat
        /\ cmp.snapSeq - 1 \in Nat
    BY <2>2, <2>3
  <2> HIDE DEF log, new, t, u
  <2>5. ReplayLength(new, cmp.snapSeq - 1) = t
    <3>1. t < Region => ~Accepted(new, cmp.snapSeq - 1, t + 1)
      BY <2>3 DEF Accepted
    <3>2. QED
      BY <2>3, <2>4, <3>1, ReplayLengthUnique
  <2>6. Fold(Fold(mem.base, log, u), new, t) = Fold(mem.base, log, u + t)
    BY <2>2, <2>3, <2>4, FoldSplit
  <2>7. Fold(cmp.base, new, t) = ns
    BY <2>1, <2>2, <2>4, <2>6
  <2>8. QED
    BY <2>5, <2>7 DEF new, log, t, u
<1>2. IInv => StagedPlusTail
  BY <1>1 DEF StagedPlusTail
<1>3. QED
  BY <1>2, Invariance, PTL

-----------------------------------------------------------------------------
(* The log of a generation once it is rewritten.                           *)
LEMMA LogOfSet ==
  ASSUME NEW slots \in Slots, NEW g \in Nat, NEW log \in Logs
  PROVE  LogOf(SetLog(slots, g, log), g) =
           IF Holds(slots, g) THEN log ELSE EmptyLog
<1>1. CASE ~Holds(slots, g)
  BY <1>1 DEF SetLog, LogOf
<1>2. CASE Holds(slots, g)
  <2> DEFINE new == [slots[g % 2] EXCEPT !.log = log]
  <2>1. g % 2 \in {0, 1} /\ slots[g % 2] \in Generation /\ slots[g % 2].gen = g
    BY <1>2 DEF Holds, Slots
  <2>2. new \in Generation /\ new.gen = g /\ new.log = log /\ new # NoGen
    BY <2>1, StableRootAssumption DEF Generation
  <2>3. SetLog(slots, g, log) = [slots EXCEPT ![g % 2] = new]
    BY <1>2 DEF SetLog
  <2> HIDE DEF new
  <2>4. SetLog(slots, g, log)[g % 2] = new
    BY <2>1, <2>3 DEF Slots
  <2>5. QED
    BY <1>2, <2>2, <2>4 DEF LogOf, Holds
<1>3. QED
  BY <1>1, <1>2

(* The records below the snapshot floor never change while compaction      *)
(* merges them, whatever races fire: appends land past the end and a       *)
(* cancellation stops at the floor.                                        *)
THEOREM PrefixIsImmutable == Spec => PrefixImmutable
<1> DEFINE Step == cmp.pc = "merge" /\ cmp'.pc \in {"merge", "copy"} =>
                     \A i \in 1..cmp.snapUsed :
                       LogOf(slot', cmp.gen)[i] = LogOf(slot, cmp.gen)[i]
<1>1. IInv /\ [Next]_vars => Step
  <2> SUFFICES ASSUME IInv, [Next]_vars, cmp.pc = "merge",
                      cmp'.pc \in {"merge", "copy"},
                      NEW i \in 1..cmp.snapUsed
               PROVE  LogOf(slot', cmp.gen)[i] = LogOf(slot, cmp.gen)[i]
    OBVIOUS
  <2> USE DeltaLogAssumption
  <2> DEFINE log == LogOf(slot, cmp.gen)
  <2>1. /\ mem \in Blob /\ mem # NoBlob /\ mem.gen = cmp.gen
        /\ mem.floor = cmp.snapUsed /\ cmp.snapUsed <= mem.used
        /\ mem.used <= Region /\ mem.used \in Nat /\ mem.gen \in Nat
        /\ mem.floor \in Nat /\ mem.nextSeq \in Nat
        /\ slot \in Slots /\ ns \in Maps
    BY BlobFields DEF IInv, TypeInv, TypeOK, SourceInv, BlobOK
  <2>2. log \in Logs /\ i \in 1..Region /\ i <= mem.used
    BY <2>1, LogOfType
  <2>3. ASSUME NEW new \in Logs, slot' = SetLog(slot, mem.gen, new),
               new[i] = log[i]
        PROVE  LogOf(slot', cmp.gen)[i] = log[i]
    BY <2>1, <2>2, <2>3, LogOfSet DEF LogOf
  <2>4. ASSUME NEW rec \in Record
        PROVE  /\ Write(log, mem.used, rec) \in Logs
               /\ Write(log, mem.used, rec)[i] = log[i]
    <3>1. i # mem.used + 1 /\ i # mem.used + 2
      BY <2>1, <2>2
    <3>2. QED
      BY <2>1, <2>2, <3>1, WriteType DEF Write
  <2>5. ASSUME NEW rec \in Record, NEW tail, AppendRecord(rec, tail)
        PROVE  LogOf(slot', cmp.gen)[i] = log[i]
    BY <2>1, <2>3, <2>4, <2>5 DEF AppendRecord
  <2>6. CASE UNCHANGED slot
    BY <2>6
  <2>7. ASSUME NEW n \in Name, NEW j \in Ino, Create(n, j)
        PROVE  LogOf(slot', cmp.gen)[i] = log[i]
    <3> DEFINE rec == Rec(mem.nextSeq, INSERT, n, j)
    <3>1. rec \in Record
      BY <2>1, RecType
    <3>2. AppendRecord(rec, mem.tree[n] = NoEntry)
      BY <2>7 DEF Create
    <3> HIDE DEF rec
    <3>3. QED
      BY <2>5, <3>1, <3>2
  <2>8. ASSUME NEW n \in Name, Unlink(n)
        PROVE  LogOf(slot', cmp.gen)[i] = log[i]
    <3>1. CASE Cancellable(n) /\ CancelRecord(n)
      <4>1. /\ slot' = SetLog(slot, mem.gen, Cancel(log, mem.used))
            /\ mem.floor < mem.used
        BY <2>1, <3>1, CancelMoves
      <4>2. Cancel(log, mem.used) \in Logs /\ i # mem.used
        BY <2>1, <2>2, <4>1, CancelType
      <4>3. Cancel(log, mem.used)[i] = log[i]
        BY <2>2, <4>2 DEF Cancel
      <4>4. QED
        BY <2>3, <4>1, <4>2, <4>3
    <3>2. CASE AppendRecord(Rec(mem.nextSeq, DELETE, n, NoIno), FALSE)
      <4>1. Rec(mem.nextSeq, DELETE, n, NoIno) \in Record
        BY <2>1, RecType
      <4>2. QED
        BY <2>5, <3>2, <4>1
    <3>3. QED
      BY <2>8, <3>1, <3>2 DEF Unlink
  <2>9. ASSUME NEW o \in Name, NEW n \in Name, Rename(o, n)
        PROVE  LogOf(slot', cmp.gen)[i] = log[i]
    <3> DEFINE ins == Rec(mem.nextSeq, INSERT, n, ns[o])
               del == Rec(mem.nextSeq + 1, DELETE, o, NoIno)
               log1 == Write(log, mem.used, ins)
    <3>1. ns[o] \in Ino \cup {NoIno} /\ mem.nextSeq + 1 \in Nat
      BY <2>1 DEF Maps
    <3>2. ins \in Record /\ del \in Record
      BY <2>1, <3>1, RecType
    <3>3. slot' = SetLog(slot, mem.gen, Write(log1, mem.used + 1, del))
      BY <2>1, <2>9 DEF Rename
    <3> HIDE DEF ins, del
    <3>4. log1 \in Logs /\ log1[i] = log[i]
      BY <2>4, <3>2
    <3> HIDE DEF log1
    <3>5. Write(log1, mem.used + 1, del) \in Logs
      BY <2>1, <3>2, <3>4, WriteType
    <3>6. Write(log1, mem.used + 1, del)[i] = log1[i]
      <4>1. i # (mem.used + 1) + 1 /\ i # (mem.used + 1) + 2
        BY <2>1, <2>2
      <4>2. QED
        BY <2>2, <4>1 DEF Write
    <3>7. QED
      BY <2>3, <3>3, <3>4, <3>5, <3>6
  <2>10. CASE Compact
    BY <2>6, <2>10 DEF Compact, CompactCall, CompactSkip, CompactNoBlob,
       CompactBegin, CompactMerge, CompactCopyTail, CompactPublish,
       CompactRetry, CompactAbort, CompactReclaim
  <2>11. CASE Crash
    BY <2>11 DEF Crash, Idle
  <2>12. CASE \/ \E t \in Thread : EnsureParse(t) \/ EnsureInstall(t)
              \/ Shrink \/ ScheduleDemote \/ ReleaseDemote \/ Commit
    BY <2>6, <2>12 DEF EnsureParse, EnsureInstall, Shrink, ScheduleDemote,
       ReleaseDemote, Commit
  <2>13. CASE UNCHANGED vars
    BY <2>6, <2>13 DEF vars
  <2>14. QED
    BY <2>7, <2>8, <2>9, <2>10, <2>11, <2>12, <2>13 DEF Next
<1>2. QED
  BY <1>1, Invariance, PTL DEF Spec, PrefixImmutable

(* Until a race has fired a published generation carries the sequence on:  *)
(* the next record has the number it would have had without compaction.    *)
THEOREM SequenceIsContinued == Spec => SequenceContinues
<1> DEFINE Step == ~tainted /\ cmp.pc = "final" /\ cmp'.pc = "reclaim" =>
                     /\ mem'.nextSeq = mem.nextSeq
                     /\ mem'.nextSeq = mem'.seqBase + mem'.used + 1
<1>1. IInv /\ [Next]_vars => Step
  <2> SUFFICES ASSUME IInv, [Next]_vars, ~tainted,
                      cmp.pc = "final", cmp'.pc = "reclaim"
               PROVE  /\ mem'.nextSeq = mem.nextSeq
                      /\ mem'.nextSeq = mem'.seqBase + mem'.used + 1
    OBVIOUS
  <2> USE DeltaLogAssumption
  <2>1. TypeInv /\ SourceInv /\ NamespaceInv /\ cmp \in Compaction
    BY DEF IInv, TypeInv, TypeOK
  <2>2. CompactPublish
    <3>1. cmp' # cmp /\ cmp' # Idle
      BY DEF Idle
    <3>2. Next
      BY <3>1 DEF vars
    <3>3. CASE Compact
      <4>1. ~CompactRetry
        <5>1. SUFFICES ASSUME CompactRetry PROVE FALSE
          OBVIOUS
        <5> DEFINE r == cmp.round + 1
        <5>2. cmp' = [cmp EXCEPT !.pc = "copy", !.round = r]
          BY <5>1 DEF CompactRetry
        <5> HIDE DEF r
        <5>3. cmp'.pc = "copy"
          BY <2>1, <5>2 DEF Compaction
        <5>4. QED
          BY <5>3
      <4>2. ~CompactAbort
        BY <3>1 DEF CompactAbort
      <4>3. QED
        BY <3>3, <4>1, <4>2 DEF Compact, CompactCall, CompactSkip,
           CompactNoBlob, CompactBegin, CompactMerge, CompactCopyTail,
           CompactReclaim
    <3>4. ASSUME NEW n \in Name, Unlink(n) PROVE FALSE
      <4>1. \E r : cmp' = [cmp EXCEPT !.rewound = r]
        <5>1. CASE CancelRecord(n)
          BY <5>1 DEF CancelRecord
        <5>2. CASE UNCHANGED cmp
          BY <3>1, <5>2
        <5>3. QED
          BY <3>4, <5>1, <5>2 DEF Unlink
      <4>2. cmp'.pc = cmp.pc
        BY <2>1, <4>1 DEF Compaction
      <4>3. QED
        BY <4>2
    <3>5. CASE \/ \E t \in Thread : EnsureParse(t) \/ EnsureInstall(t)
               \/ \E n \in Name, i \in Ino : Create(n, i)
               \/ \E o, n \in Name : Rename(o, n)
               \/ Shrink \/ ScheduleDemote \/ ReleaseDemote \/ Commit \/ Crash
      BY <3>1, <3>5 DEF EnsureParse, EnsureInstall, Create, Rename, Shrink,
         ScheduleDemote, ReleaseDemote, Commit, Crash
    <3>6. QED
      BY <3>2, <3>3, <3>4, <3>5 DEF Next
  <2> DEFINE k == cmp.copied - cmp.snapUsed
  <2>3. /\ mem # NoBlob /\ mem.gen = cmp.gen /\ mem.used = cmp.copied
        /\ cmp.snapSeq - 1 = mem.seqBase + cmp.snapUsed
        /\ mem.seqBase \in Nat /\ mem.used \in 0..Region
        /\ mem.nextSeq = mem.seqBase + mem.used + 1
        /\ cmp.staged \in Logs /\ cmp.snapUsed \in Nat /\ cmp.copied \in Nat
        /\ mem' = ParseGen(StagedGen)
    <3>1. /\ mem # NoBlob /\ mem.gen = cmp.gen /\ mem.used = cmp.copied
          /\ cmp.snapSeq = mem.seqBase + cmp.snapUsed + 1
          /\ mem' = ParseGen(StagedGen)
      BY <2>1, <2>2 DEF CompactPublish, CutHolds, SourceInv
    <3>2. /\ mem.seqBase \in Nat /\ mem.used \in 0..Region
          /\ mem.nextSeq = mem.seqBase + mem.used + 1
      BY <2>1, <3>1, SourceLog
    <3>3. cmp.staged \in Logs /\ cmp.snapUsed \in Nat /\ cmp.copied \in Nat
      BY <2>1 DEF Compaction
    <3>4. QED
      BY <3>1, <3>2, <3>3
  <2>4. /\ cmp.snapUsed <= cmp.copied
        /\ \A i \in 1..k : Accepted(cmp.staged, cmp.snapSeq - 1, i)
        /\ k < Region => cmp.staged[k + 1] = Hole
    BY <2>1 DEF NamespaceInv, StagedInv
  <2>5. ReplayLength(cmp.staged, cmp.snapSeq - 1) = k
    <3>1. k \in 0..Region /\ cmp.snapSeq - 1 \in Nat
      BY <2>3, <2>4
    <3>2. k < Region => ~Accepted(cmp.staged, cmp.snapSeq - 1, k + 1)
      BY <2>4 DEF Accepted
    <3>3. QED
      BY <2>3, <2>4, <3>1, <3>2, ReplayLengthUnique
  <2>6. /\ mem'.seqBase = cmp.snapSeq - 1 /\ mem'.used = k
        /\ mem'.nextSeq = (cmp.snapSeq - 1) + k + 1
    BY <2>3, <2>5 DEF ParseGen, StagedGen
  <2>7. QED
    BY <2>3, <2>4, <2>6
<1>2. QED
  BY <1>1, Invariance, PTL DEF Spec, SequenceContinues

-----------------------------------------------------------------------------
(* The refinement.  Until a race fires the visible map is the namespace.   *)
LEMMA VisibleIs ==
  ASSUME IInv, ~tainted
  PROVE  VisibleMap = ns
BY DEF IInv, NamespaceInv, Mirrors, VisibleMap

LEMMA InitRefines == Init => Abstract!Init
<1> SUFFICES ASSUME Init PROVE Abstract!Init
  OBVIOUS
<1>1. IInv /\ ~tainted
  BY InitIInv DEF Init
<1>2. VisibleMap = ns /\ ns \in Maps /\ saved.ns = ns
  BY <1>1, VisibleIs DEF Init
<1>3. QED
  BY <1>2 DEF Abstract!Init, Abstract!Maps, Maps

(* Every step of the root is one operation of the map, or none.            *)
LEMMA StepRefines ==
  IInv /\ [Next]_vars => [tainted' \/ Abstract!Next]_<<VisibleMap, saved.ns>>
<1> SUFFICES ASSUME IInv, [Next]_vars, ~tainted'
             PROVE  \/ Abstract!Next
                    \/ VisibleMap' = VisibleMap /\ saved'.ns = saved.ns
  OBVIOUS
<1>1. CASE UNCHANGED vars
  BY <1>1 DEF vars, VisibleMap
<1>2. CASE Next
  <2>1. ~tainted
    BY <1>2, TaintLasts DEF IInv
  <2>2. IInv'
    BY StepIInv
  <2>3. VisibleMap = ns /\ VisibleMap' = ns'
    <3>1. VisibleMap = ns
      BY <2>1, VisibleIs
    <3>2. VisibleMap' = ns'
      BY <2>2 DEF IInv, NamespaceInv, Mirrors, VisibleMap
    <3>3. QED
      BY <3>1, <3>2
  <2>4. CASE \/ \E t \in Thread : EnsureParse(t) \/ EnsureInstall(t)
             \/ Shrink \/ Compact \/ ScheduleDemote \/ ReleaseDemote
    <3>1. UNCHANGED <<ns, saved>>
      BY <2>4 DEF EnsureParse, EnsureInstall, Shrink, ScheduleDemote,
         ReleaseDemote, Compact, CompactCall, CompactSkip, CompactNoBlob,
         CompactBegin, CompactMerge, CompactCopyTail, CompactPublish,
         CompactRetry, CompactAbort, CompactReclaim
    <3>2. QED
      BY <2>3, <3>1
  <2>5. ASSUME NEW n \in Name, NEW i \in Ino, Create(n, i)
        PROVE  Abstract!Create(n, i)
    BY <2>3, <2>5 DEF Create, Abstract!Create
  <2>6. ASSUME NEW n \in Name, Unlink(n)
        PROVE  Abstract!Unlink(n)
    BY <2>3, <2>6 DEF Unlink, Abstract!Unlink
  <2>7. ASSUME NEW o \in Name, NEW n \in Name, Rename(o, n)
        PROVE  Abstract!Rename(o, n)
    BY <2>3, <2>7 DEF Rename, Abstract!Rename
  <2>8. CASE Commit
    <3>1. saved'.ns = ns /\ ns' = ns
      BY <2>8 DEF Commit
    <3>2. Abstract!Commit
      BY <2>3, <3>1 DEF Abstract!Commit
    <3>3. QED
      BY <3>2 DEF Abstract!Next
  <2>9. CASE Crash
    <3>1. ns' = saved.ns /\ saved' = saved
      BY <2>9 DEF Crash
    <3>2. Abstract!Crash
      BY <2>3, <3>1 DEF Abstract!Crash
    <3>3. QED
      BY <3>2 DEF Abstract!Next
  <2>10. QED
    BY <1>2, <2>4, <2>5, <2>6, <2>7, <2>8, <2>9 DEF Next, Abstract!Next
<1>3. QED
  BY <1>1, <1>2

(* Until a race fires the whole root, with its log, caches, shrinker,      *)
(* compaction and crashes, implements the abstract directory map: every    *)
(* operation takes effect in one step, and a crash loses exactly the       *)
(* uncommitted ones.                                                       *)
THEOREM ImplementsDirMap == Spec => RefinesDirMap
<1>1. Init => Abstract!Init
  BY InitRefines
<1>2. IInv /\ [Next]_vars => [tainted' \/ Abstract!Next]_<<VisibleMap, saved.ns>>
  BY StepRefines
<1>3. QED
  BY <1>1, <1>2, Invariance, PTL DEF Spec, RefinesDirMap
=============================================================================
