---------------------------- MODULE Journal_proofs ----------------------------
(* Proofs about the journal: wherever power fails, recovery brings back     *)
(* the blocks as the last durable transaction left them (RecoversDurable),  *)
(* and what an fsync returned for, by a full or a fast commit, survives     *)
(* (FsyncedSurvives).                                                       *)
EXTENDS Journal, FastCommit, TLAPS, WellFoundedInduction, NaturalsInduction

(* The contents that a transaction's metadata has; those of data are        *)
(* negative.                                                                *)
MetaC == 0..MaxTid
(* The stages of a commit whose record is in the log.                       *)
OnDisk == {"tail", "forget"}
(* The transaction that commits has handles no more, and no record yet.     *)
InWork == stage \in {"flush", "write", "record"}

(* The last transaction whose commit record is in the log.  While recovery  *)
(* runs the next number is one past it, so that a fresh log can be told     *)
(* from the old one.                                                        *)
LastDurable ==
  IF committing # NoTid THEN (IF stage \in OnDisk THEN committing ELSE committing - 1)
  ELSE IF running # NoTid THEN running - 1
  ELSE IF mounted THEN nextTid - 1 ELSE nextTid - 2

(* The copies of b that transactions lo..hi put into the log, and which no  *)
(* revoke record of theirs withdraws: what a replay that starts at lo       *)
(* considers.                                                               *)
Copies(b, lo, hi) ==
  {t \in lo..hi : /\ b \in DOMAIN InLog(t).blocks
                  /\ \A u \in t..hi : b \notin InLog(u).revokes}

(* Such a replay leaves b with this content: the last copy holds it, or     *)
(* there is none and the device can have nothing else.                      *)
Restores(b, lo, hi, content) ==
  /\ Copies(b, lo, hi) = {} => disk[b] = {content}
  /\ \A t \in Copies(b, lo, hi) :
       (\A u \in Copies(b, lo, hi) : u <= t) => InLog(t).blocks[b] = content

(* How the numbers of the transactions lie: running is the newest,          *)
(* committing comes just before it, what is durable lies below, the log     *)
(* has room for all of them from its tail on, a transaction is              *)
(* checkpointed only after its commit, and a tail that was computed and     *)
(* not stored stays behind every transaction that still has something to    *)
(* write.                                                                   *)
Tids ==
  /\ running # NoTid => running = nextTid - 1 /\ mounted
  /\ committing # NoTid =>
       committing = (IF running # NoTid THEN nextTid - 2 ELSE nextTid - 1) /\ mounted
  /\ stage \in {"none", "locked"} <=> committing = NoTid
  /\ stage = "locked" => running # NoTid
  /\ open => running # NoTid
  /\ ~mounted => 2 <= nextTid /\ stage = "none"
  /\ tail.tid <= LastDurable + 1
  /\ LastDurable - tail.tid < LogSlots
  /\ running # NoTid \/ committing # NoTid => nextTid - 1 - tail.tid < LogSlots
  /\ checkpoints \subseteq tail.tid..LastDurable
  /\ committing # NoTid => tail.tid <= committing /\ \A t \in checkpoints : t < committing
  /\ ~mounted => checkpoints = {}
  /\ stage \in {"none", "locked", "forget"} => revoking = {}
  /\ stage \in {"record", "tail"} =>
       newTail <= committing /\ \A t \in checkpoints : newTail <= t

(* The log holds the transactions from its tail to the last durable one,    *)
(* and nothing later, so that the scan stops there.                         *)
LogHolds ==
  /\ \A t \in tail.tid..LastDurable : InLog(t).tid = t
  /\ \A s \in 0..LogSlots - 1 : slots[s].tid <= LastDurable
  /\ stage = "record" => InLog(committing).revokes = revoking

(* What the handles of transaction t can make of a block: keep it, change   *)
(* or create metadata, take a free block for data, free it.                 *)
Became(from, to, t) ==
  \/ to = from
  \/ t # NoTid /\ to = t /\ (from \in MetaC \/ from = Unused)
  \/ t # NoTid /\ to = -t /\ from = Unused
  \/ t # NoTid /\ to = Unused

(* What the block was when the running transaction found it.                *)
Base(b) == IF committing = NoTid THEN want.dur[b] ELSE want.com[b]

(* The three contents of want differ only by what the transactions between  *)
(* them did.                                                                *)
Wants(b) ==
  /\ committing = NoTid => want.com[b] = want.run[b]
  /\ Became(Base(b), want.run[b], running)
  /\ InWork => Became(want.dur[b], want.com[b], committing)
  /\ stage \in OnDisk => want.com[b] = want.dur[b]

(* A freed block is handed out only once its transaction has committed      *)
(* (freedBy), and one that held metadata is in the revoke table of the      *)
(* transaction that freed it.                                               *)
Frees(b) ==
  /\ freedBy[b] # NoTid => freedBy[b] \in {running, committing} /\ want.run[b] = Unused
  /\ freedBy[b] # NoTid /\ freedBy[b] = committing => want.com[b] = Unused
  /\ freedBy[b] = NoTid /\ want.run[b] = Unused =>
       want.com[b] = Unused /\ want.dur[b] = Unused
  /\ want.run[b] = Unused /\ Base(b) # Unused => freedBy[b] = running
  /\ InWork /\ want.com[b] = Unused /\ want.dur[b] # Unused => freedBy[b] = committing
  /\ b \in revoke => freedBy[b] = running /\ running # NoTid
  /\ b \in revoking => want.com[b] = Unused
  /\ want.run[b] = Unused /\ Base(b) \in MetaC => b \in revoke
  /\ InWork /\ want.com[b] = Unused /\ want.dur[b] \in MetaC => b \in revoking

(* A buffer of no transaction: it holds the durable content of its block,   *)
(* and what it is not dirty with has been written in place.                 *)
NoTx(b) ==
  jh[b].tx = NoTid =>
    /\ jh[b].next = NoTid /\ jh[b].list = "none" /\ ~jh[b].jbddirty /\ ~jh[b].freed
    /\ jh[b].frozen = Unfrozen
    /\ want.run[b] \in MetaC =>
         jh[b].data = want.run[b] /\ want.com[b] = want.run[b] /\ want.dur[b] = want.run[b]
    /\ jh[b].dirty => want.run[b] \in MetaC
    /\ ~jh[b].dirty /\ want.dur[b] # Unused => wrote[b] = want.dur[b]

(* A buffer of the running transaction, by its list.                        *)
InRunning(b) ==
  jh[b].tx # NoTid /\ jh[b].tx = running =>
    /\ jh[b].next = NoTid /\ jh[b].frozen = Unfrozen
    /\ jh[b].list \in {"reserved", "metadata", "forget"}
    /\ jh[b].list = "reserved" =>
         /\ want.run[b] \in MetaC /\ jh[b].data = want.run[b] /\ want.com[b] = want.run[b]
         /\ want.dur[b] = want.run[b] /\ ~jh[b].freed
         /\ jh[b].jbddirty \/ wrote[b] = want.dur[b]
    /\ jh[b].list = "metadata" =>
         want.run[b] = running /\ jh[b].data = running /\ jh[b].jbddirty /\ ~jh[b].freed
    /\ jh[b].list = "forget" =>
         want.run[b] = Unused /\ freedBy[b] = running /\ (~jh[b].freed => ~jh[b].jbddirty)

(* A buffer of the transaction that commits: the copy that commits is the   *)
(* buffer, or what was frozen of it when the running transaction took it.   *)
InCommitting(b) ==
  jh[b].tx # NoTid /\ jh[b].tx = committing =>
    /\ jh[b].next \in {NoTid, running}
    /\ jh[b].list \in {"metadata", "shadow", "forget"}
    /\ jh[b].list = "metadata" => stage \in {"flush", "write"}
    /\ jh[b].list = "shadow" => stage = "write"
    /\ jh[b].list # "forget" => want.com[b] \in MetaC
    /\ want.com[b] \in MetaC =>
         /\ jh[b].jbddirty
         /\ jh[b].list = "forget" =>
              /\ stage \in {"record", "tail", "forget"}
              /\ b \in DOMAIN InLog(committing).blocks /\ b \notin InLog(committing).revokes
         /\ jh[b].list # "forget" =>
              IF jh[b].frozen = Unfrozen
              THEN jh[b].data = want.com[b] /\ (jh[b].next # NoTid => want.run[b] = Unused)
              ELSE jh[b].frozen = want.com[b]
         /\ jh[b].next = NoTid =>
              want.run[b] = want.com[b] /\ jh[b].data = want.com[b] /\ ~jh[b].freed
    /\ want.com[b] \in MetaC \/ want.com[b] = Unused
    /\ want.com[b] = Unused =>
         jh[b].next = NoTid /\ freedBy[b] = committing /\ (~jh[b].freed => ~jh[b].jbddirty)
    /\ jh[b].next # NoTid /\ jh[b].freed =>
         want.run[b] = Unused /\ ~jh[b].modified /\ freedBy[b] = running
    /\ jh[b].next # NoTid /\ ~jh[b].freed =>
         /\ want.run[b] \in MetaC /\ jh[b].data = want.run[b]
         /\ want.run[b] = IF jh[b].modified THEN running ELSE want.com[b]

(* A buffer is where its changes need it: in the transaction that commits   *)
(* a new content of it, and on a checkpoint list that still exists.         *)
Placed(b) ==
  /\ jh[b].tx # NoTid => jh[b].tx \in {running, committing} /\ ~jh[b].dirty
  /\ InWork /\ want.com[b] # want.dur[b] /\ want.com[b] \in MetaC => jh[b].tx = committing
  /\ jh[b].cp # NoTid =>
       jh[b].cp \in checkpoints \/ (jh[b].cp = committing /\ stage = "forget")

(* Before its commit record is written, the transaction's cell has a copy   *)
(* of what it changed; what has none was freed, is as it was, or is data.   *)
Recorded(b) ==
  stage = "record" =>
    /\ b \in DOMAIN InLog(committing).blocks =>
         /\ InLog(committing).blocks[b] = want.com[b] /\ want.com[b] \in MetaC
         /\ b \notin revoking /\ jh[b].tx = committing
    /\ b \notin DOMAIN InLog(committing).blocks =>
         \/ want.com[b] = Unused
         \/ want.com[b] = want.dur[b] /\ b \notin revoking
         \/ want.com[b] = -committing

(* File data reaches the device before the metadata that points to it.      *)
DataWritten(b) ==
  /\ wrote[b] \in disk[b]
  /\ stage \in {"write", "record"} /\ want.com[b] = -committing => wrote[b] = -committing
  /\ stage = "record" /\ want.com[b] = -committing => disk[b] = {-committing}

(* Replay restores a durable block, from the tail and from the tail that a  *)
(* commit is about to store, and the log has no copy of a block that is     *)
(* not metadata any more.                                                   *)
Kept(b) ==
  /\ want.dur[b] # Unused => Restores(b, tail.tid, LastDurable, want.dur[b])
  /\ want.dur[b] # Unused /\ stage \in {"record", "tail"} /\ newTail > tail.tid =>
       Restores(b, newTail, LastDurable, want.dur[b])
  /\ want.dur[b] \notin MetaC => Copies(b, tail.tid, LastDurable) = {}

(* A durable block that was not written in place stays in the log: its      *)
(* buffer is on the checkpoint list of a transaction no newer than a copy,  *)
(* so the tail cannot pass it; or the commit that made the copy is about    *)
(* to put it there.                                                         *)
Pinned(b) ==
  want.dur[b] # Unused /\ wrote[b] # want.dur[b] =>
    \/ jh[b].cp # NoTid /\ \E t \in Copies(b, tail.tid, LastDurable) : jh[b].cp <= t
    \/ /\ stage \in OnDisk /\ jh[b].tx = committing
       /\ committing \in Copies(b, tail.tid, LastDurable)

(* All that holds of one block.                                             *)
BlockOK(b) ==
  /\ Wants(b) /\ Frees(b)
  /\ NoTx(b) /\ InRunning(b) /\ InCommitting(b) /\ Placed(b)
  /\ Recorded(b) /\ DataWritten(b) /\ Kept(b) /\ Pinned(b)

(* The inductive invariant.                                                 *)
JournalIInv == JournalTypeOK /\ Tids /\ LogHolds /\ \A b \in Block : BlockOK(b)

USE JournalAssumption

-----------------------------------------------------------------------------
(* Remainders, for the cells of the log.                                    *)

(* What % returns.                                                          *)
LEMMA Quotient ==
  ASSUME NEW x \in Int, NEW n \in Nat, n > 0
  PROVE  x % n \in 0..n - 1 /\ \E q \in Int : x = n * q + (x % n)
<1>1. x % n \in 0..n - 1
  OBVIOUS
<1>2. x = n * (x \div n) + (x % n) /\ x \div n \in Int
  OBVIOUS
<1> QED
  BY <1>1, <1>2

(* A multiple of n that is closer to 0 than n is 0.                         *)
LEMMA Multiple ==
  ASSUME NEW k \in Int, NEW n \in Nat, n > 0, n * k < n, -n < n * k
  PROVE  k = 0
<1>1. k >= 1 => n * k >= n
  OBVIOUS
<1>2. k <= -1 => n * k <= -n
  OBVIOUS
<1> QED
  BY <1>1, <1>2

(* Numbers less than n apart with the same rest are the same.               *)
LEMMA SameRest ==
  ASSUME NEW x \in Int, NEW y \in Int, NEW n \in Nat, n > 0,
         x % n = y % n, x - y < n, y - x < n
  PROVE  x = y
<1>1. PICK q \in Int : x = n * q + (x % n)
  BY Quotient
<1>2. PICK r \in Int : y = n * r + (y % n)
  BY Quotient
<1>3. q - r \in Int /\ n * (q - r) = x - y
  <2>1. n * (q - r) = n * q - n * r
    OBVIOUS
  <2>2. x % n \in Int
    BY Quotient
  <2> QED
    BY <1>1, <1>2, <2>1, <2>2
<1>4. q - r = 0
  <2>1. n * (q - r) < n /\ -n < n * (q - r)
    BY <1>3
  <2> QED
    BY <1>3, <2>1, Multiple
<1> QED
  BY <1>3, <1>4

(* A rest may be taken before a sum.                                        *)
LEMMA RestOfSum ==
  ASSUME NEW x \in Int, NEW y \in Int, NEW n \in Nat, n > 0
  PROVE  ((x % n) + y) % n = (x + y) % n
<1> DEFINE a == x % n
<1> DEFINE u == (a + y) % n
<1> DEFINE v == (x + y) % n
<1>1. a \in 0..n - 1
  BY Quotient
<1>2. PICK q \in Int : x = n * q + a
  BY Quotient
<1>3. a + y \in Int /\ x + y \in Int
  BY <1>1
<1>4. u \in 0..n - 1 /\ v \in 0..n - 1
  BY <1>3, Quotient
<1>5. PICK r \in Int : a + y = n * r + u
  BY <1>3, Quotient
<1>6. PICK s \in Int : x + y = n * s + v
  BY <1>3, Quotient
<1> HIDE DEF a, u, v
<1> DEFINE k == s - q - r
<1>7. k \in Int /\ n * k = u - v
  <2>1. n * k = n * s - n * q - n * r
    OBVIOUS
  <2> QED
    BY <1>1, <1>2, <1>4, <1>5, <1>6, <2>1
<1> HIDE DEF k
<1>8. k = 0
  <2>1. n * k < n /\ -n < n * k
    BY <1>4, <1>7
  <2> QED
    BY <1>7, <2>1, Multiple
<1>9. u = v
  BY <1>4, <1>7, <1>8
<1> QED
  BY <1>9 DEF u, v, a

-----------------------------------------------------------------------------
(* The log, seen through its tail.                                          *)

(* A transaction has a cell of the log.                                     *)
LEMMA SlotOfTyped ==
  ASSUME JournalTypeOK, NEW t \in Int
  PROVE  SlotOf(t) \in 0..LogSlots - 1 /\ InLog(t) \in LogCell
<1>1. tail.tid \in Int /\ tail.slot \in Int /\ LogSlots \in Nat /\ LogSlots > 0
  BY DEF JournalTypeOK
<1>2. SlotOf(t) \in 0..LogSlots - 1
  BY <1>1, Quotient DEF SlotOf
<1> QED
  BY <1>2 DEF InLog, JournalTypeOK

(* Transactions less than the log's length apart have cells of their own.   *)
LEMMA SlotsApart ==
  ASSUME JournalTypeOK, NEW t \in Int, NEW u \in Int, t - u < LogSlots, u - t < LogSlots,
         SlotOf(t) = SlotOf(u)
  PROVE  t = u
<1>1. tail.tid \in Int /\ tail.slot \in Int /\ LogSlots \in Nat /\ LogSlots > 0
  BY DEF JournalTypeOK
<1> DEFINE x == tail.slot + t - tail.tid
<1> DEFINE y == tail.slot + u - tail.tid
<1>2. x \in Int /\ y \in Int /\ x - y < LogSlots /\ y - x < LogSlots
  BY <1>1
<1>3. x % LogSlots = y % LogSlots
  BY DEF SlotOf
<1>4. x = y
  BY <1>1, <1>2, <1>3, SameRest
<1> QED
  BY <1>1, <1>4

(* Moving the tail moves no transaction to another cell.                    *)
LEMMA TailMoves ==
  ASSUME JournalTypeOK, NEW t \in Int, MoveTail(t), slots' = slots
  PROVE  /\ tail'.tid = t /\ tail' = [tid |-> t, slot |-> SlotOf(t)]
         /\ \A u \in Int : InLog(u)' = InLog(u)
<1>1. tail.tid \in Int /\ tail.slot \in Int /\ LogSlots \in Nat /\ LogSlots > 0
  BY DEF JournalTypeOK
<1>2. tail' = [tid |-> t, slot |-> SlotOf(t)]
  BY DEF MoveTail
<1>3. ASSUME NEW u \in Int PROVE InLog(u)' = InLog(u)
  <2> DEFINE x == tail.slot + t - tail.tid
  <2> DEFINE y == u - t
  <2>1. x \in Int /\ y \in Int /\ x + y = tail.slot + u - tail.tid
    BY <1>1
  <2>2. ((x % LogSlots) + y) % LogSlots = (x + y) % LogSlots
    <3> HIDE DEF x, y
    <3> QED
      BY <1>1, <2>1, RestOfSum
  <2>3. SlotOf(t) = x % LogSlots /\ SlotOf(t) \in Int
    BY SlotOfTyped DEF SlotOf
  <2>4. SlotOf(u)' = (SlotOf(t) + u - t) % LogSlots
    BY <1>2 DEF SlotOf
  <2>5. SlotOf(t) + u - t = (x % LogSlots) + y
    BY <2>3
  <2>6. SlotOf(u)' = SlotOf(u)
    BY <2>1, <2>2, <2>4, <2>5 DEF SlotOf
  <2> QED
    BY <2>6 DEF InLog
<1> QED
  BY <1>2, <1>3

(* Writing a cell leaves the other transactions' cells as they were.        *)
LEMMA SlotWritten ==
  ASSUME JournalTypeOK, UNCHANGED tail, NEW c \in Int, NEW cell,
         slots' = [slots EXCEPT ![SlotOf(c)] = cell]
  PROVE  /\ InLog(c)' = cell
         /\ \A u \in Int : u # c /\ u - c < LogSlots /\ c - u < LogSlots =>
              InLog(u)' = InLog(u)
         /\ \A s \in 0..LogSlots - 1 : slots'[s] = slots[s] \/ slots'[s] = cell
<1>1. \A u \in Int : SlotOf(u)' = SlotOf(u) /\ SlotOf(u) \in 0..LogSlots - 1
  BY SlotOfTyped DEF SlotOf
<1>2. slots \in [0..LogSlots - 1 -> LogCell]
  BY DEF JournalTypeOK
<1>3. InLog(c)' = cell
  BY <1>1, <1>2 DEF InLog
<1>4. ASSUME NEW u \in Int, u # c, u - c < LogSlots, c - u < LogSlots
      PROVE  InLog(u)' = InLog(u)
  <2>1. SlotOf(u) # SlotOf(c)
    BY <1>4, SlotsApart
  <2> QED
    BY <1>1, <1>2, <2>1 DEF InLog
<1> QED
  BY <1>2, <1>3, <1>4

(* The scan of recovery stops after the last durable transaction.           *)
LEMMA LogEndIs ==
  ASSUME JournalTypeOK, Tids, LogHolds
  PROVE  LogEnd = LastDurable + 1 /\ Logged = tail.tid..LastDurable
         /\ LastDurable \in -1..MaxTid
<1>1. LastDurable \in -1..MaxTid /\ tail.tid \in 1..MaxTid + 1
  BY DEF JournalTypeOK, Tids, LastDurable
<1>2. LastDurable + 1 \in tail.tid..MaxTid + 1
  BY <1>1 DEF Tids
<1>3. \A t \in tail.tid..(LastDurable + 1) - 1 : InLog(t).tid = t
  BY <1>1 DEF LogHolds
<1>4. InLog(LastDurable + 1).tid # LastDurable + 1
  <2>1. SlotOf(LastDurable + 1) \in 0..LogSlots - 1
    BY <1>1, SlotOfTyped
  <2> QED
    BY <1>1, <2>1 DEF LogHolds, InLog, JournalTypeOK, LogCell
<1>5. ASSUME NEW e \in tail.tid..MaxTid + 1,
             \A t \in tail.tid..e - 1 : InLog(t).tid = t, InLog(e).tid # e
      PROVE  e = LastDurable + 1
  <2>1. ~(e > LastDurable + 1)
    BY <1>1, <1>2, <1>4, <1>5
  <2>2. ~(e < LastDurable + 1)
    BY <1>1, <1>3, <1>5
  <2> QED
    BY <1>1, <2>1, <2>2
<1>6. LogEnd = LastDurable + 1
  BY <1>2, <1>3, <1>4, <1>5 DEF LogEnd
<1> QED
  BY <1>1, <1>6 DEF Logged

(* The values of b_jlist.                                                   *)
Lists == {"none", "reserved", "metadata", "shadow", "forget"}

-----------------------------------------------------------------------------
(* Functions on journal heads, on want and on the device.                   *)

(* What the functions on journal heads return, field by field.              *)
LEMMA FileIs ==
  ASSUME NEW r \in JournalHead, NEW t \in 0..MaxTid, NEW list \in Lists
  PROVE  /\ File(r, t, list) \in JournalHead
         /\ File(r, t, list).data = r.data /\ File(r, t, list).tx = t
         /\ File(r, t, list).next = r.next /\ File(r, t, list).list = list
         /\ File(r, t, list).modified = r.modified /\ File(r, t, list).freed = r.freed
         /\ File(r, t, list).frozen = r.frozen /\ File(r, t, list).cp = r.cp
         /\ ~File(r, t, list).dirty
         /\ File(r, t, list).jbddirty <=> (r.dirty \/ r.jbddirty)
<1> DEFINE u == r.dirty \/ r.jbddirty
<1>1. u \in BOOLEAN
  BY DEF JournalHead
<1>2. File(r, t, list) = [r EXCEPT !.tx = t, !.list = list, !.dirty = FALSE, !.jbddirty = u]
  BY DEF File
<1>3. u <=> r.dirty \/ r.jbddirty
  OBVIOUS
<1> HIDE DEF u
<1>4. File(r, t, list) \in JournalHead
  BY <1>1, <1>2 DEF JournalHead, Lists
<1>5. /\ File(r, t, list).data = r.data /\ File(r, t, list).tx = t
      /\ File(r, t, list).next = r.next /\ File(r, t, list).list = list
      /\ File(r, t, list).modified = r.modified /\ File(r, t, list).freed = r.freed
      /\ File(r, t, list).frozen = r.frozen /\ File(r, t, list).cp = r.cp
  BY <1>1, <1>2 DEF JournalHead
<1>6. (File(r, t, list).jbddirty <=> u) /\ ~File(r, t, list).dirty
  BY <1>1, <1>2 DEF JournalHead
<1> QED
  BY <1>3, <1>4, <1>5, <1>6

LEMMA NoTidTyped == NoTid \in 0..MaxTid
BY DEF NoTid

LEMMA UnfileIs ==
  ASSUME NEW r \in JournalHead
  PROVE  /\ Unfile(r) \in JournalHead
         /\ Unfile(r).data = r.data /\ Unfile(r).tx = NoTid
         /\ Unfile(r).next = r.next /\ Unfile(r).list = "none"
         /\ Unfile(r).modified = r.modified /\ Unfile(r).freed = r.freed
         /\ Unfile(r).frozen = r.frozen /\ Unfile(r).cp = r.cp
         /\ Unfile(r).dirty <=> (r.dirty \/ r.jbddirty)
         /\ ~Unfile(r).jbddirty
<1> DEFINE u == r.dirty \/ r.jbddirty
<1>1. u \in BOOLEAN
  BY DEF JournalHead
<1>2. Unfile(r) = [r EXCEPT !.tx = NoTid, !.list = "none", !.jbddirty = FALSE, !.dirty = u]
  BY DEF Unfile
<1>3. u <=> r.dirty \/ r.jbddirty
  OBVIOUS
<1> HIDE DEF u
<1>4. Unfile(r) \in JournalHead
  BY <1>1, <1>2, NoTidTyped DEF JournalHead
<1>5. /\ Unfile(r).data = r.data /\ Unfile(r).tx = NoTid
      /\ Unfile(r).next = r.next /\ Unfile(r).list = "none"
      /\ Unfile(r).modified = r.modified /\ Unfile(r).freed = r.freed
      /\ Unfile(r).frozen = r.frozen /\ Unfile(r).cp = r.cp
  BY <1>1, <1>2 DEF JournalHead
<1>6. (Unfile(r).dirty <=> u) /\ ~Unfile(r).jbddirty
  BY <1>1, <1>2 DEF JournalHead
<1> QED
  BY <1>3, <1>4, <1>5, <1>6

LEMMA RefileIs ==
  ASSUME NEW r \in JournalHead
  PROVE  /\ Refile(r) \in JournalHead
         /\ Refile(r).data = r.data /\ Refile(r).tx = r.next /\ Refile(r).next = NoTid
         /\ Refile(r).modified = r.modified /\ Refile(r).freed = r.freed
         /\ Refile(r).frozen = r.frozen /\ Refile(r).cp = r.cp
         /\ r.next = NoTid =>
              /\ Refile(r).list = "none" /\ ~Refile(r).jbddirty
              /\ Refile(r).dirty <=> (r.dirty \/ r.jbddirty)
         /\ r.next # NoTid =>
              /\ Refile(r).list = IF r.freed THEN "forget"
                                  ELSE IF r.modified THEN "metadata" ELSE "reserved"
              /\ Refile(r).dirty = r.dirty /\ Refile(r).jbddirty = r.jbddirty
<1>1. CASE r.next = NoTid
  <2>1. Refile(r) = Unfile(r)
    BY <1>1 DEF Refile
  <2> QED
    BY <1>1, <2>1, UnfileIs
<1>2. CASE r.next # NoTid
  <2> DEFINE l == IF r.freed THEN "forget" ELSE IF r.modified THEN "metadata" ELSE "reserved"
  <2>1. l \in {"none", "reserved", "metadata", "shadow", "forget"}
    OBVIOUS
  <2>2. Refile(r) = [r EXCEPT !.tx = r.next, !.next = NoTid, !.list = l]
    BY <1>2 DEF Refile
  <2> HIDE DEF l
  <2>3. Refile(r) \in JournalHead
    BY <2>1, <2>2, NoTidTyped DEF JournalHead
  <2>4. /\ Refile(r).data = r.data /\ Refile(r).tx = r.next /\ Refile(r).next = NoTid
        /\ Refile(r).modified = r.modified /\ Refile(r).freed = r.freed
        /\ Refile(r).frozen = r.frozen /\ Refile(r).cp = r.cp
        /\ Refile(r).list = l
        /\ Refile(r).dirty = r.dirty /\ Refile(r).jbddirty = r.jbddirty
    BY <2>2 DEF JournalHead
  <2> QED
    BY <1>2, <2>3, <2>4 DEF l
<1> QED
  BY <1>1, <1>2

LEMMA GrantedIs ==
  ASSUME NEW r \in JournalHead, running \in 0..MaxTid
  PROVE  /\ Granted(r) \in JournalHead
         /\ running \in {r.tx, r.next} => Granted(r) = r
         /\ Granted(r).data = r.data /\ Granted(r).freed = r.freed /\ Granted(r).cp = r.cp
         /\ running \notin {r.tx, r.next} /\ r.tx = NoTid =>
              /\ Granted(r).tx = running /\ Granted(r).next = r.next
              /\ Granted(r).list = "reserved" /\ ~Granted(r).modified
              /\ Granted(r).frozen = r.frozen /\ ~Granted(r).dirty
              /\ Granted(r).jbddirty <=> (r.dirty \/ r.jbddirty)
         /\ running \notin {r.tx, r.next} /\ r.tx # NoTid =>
              /\ Granted(r).tx = r.tx /\ Granted(r).next = running
              /\ Granted(r).list = r.list /\ ~Granted(r).modified
              /\ Granted(r).frozen = (IF r.list = "metadata" /\ r.frozen = Unfrozen
                                      THEN r.data ELSE r.frozen)
              /\ Granted(r).dirty = r.dirty /\ Granted(r).jbddirty = r.jbddirty
<1>1. CASE running \in {r.tx, r.next}
  BY <1>1 DEF Granted
<1>2. CASE running \notin {r.tx, r.next} /\ r.tx = NoTid
  <2> DEFINE s == [r EXCEPT !.modified = FALSE]
  <2>1. /\ s \in JournalHead /\ s.data = r.data /\ s.freed = r.freed /\ s.cp = r.cp
        /\ s.next = r.next /\ s.modified = FALSE /\ s.frozen = r.frozen
        /\ s.dirty = r.dirty /\ s.jbddirty = r.jbddirty
    BY DEF JournalHead
  <2>2. Granted(r) = File(s, running, "reserved")
    BY <1>2 DEF Granted
  <2> HIDE DEF s
  <2>3. "reserved" \in Lists
    BY DEF Lists
  <2>4. /\ Granted(r) \in JournalHead
        /\ Granted(r).data = r.data /\ Granted(r).freed = r.freed /\ Granted(r).cp = r.cp
    BY <2>1, <2>2, <2>3, FileIs
  <2>5. /\ Granted(r).tx = running /\ Granted(r).next = r.next
        /\ Granted(r).list = "reserved" /\ ~Granted(r).modified
        /\ Granted(r).frozen = r.frozen /\ ~Granted(r).dirty
    BY <2>1, <2>2, <2>3, FileIs
  <2>6. Granted(r).jbddirty <=> (r.dirty \/ r.jbddirty)
    BY <2>1, <2>2, <2>3, FileIs
  <2> QED
    BY <1>2, <2>4, <2>5, <2>6
<1>3. CASE running \notin {r.tx, r.next} /\ r.tx # NoTid
  BY <1>3 DEF Granted, JournalHead
<1> QED
  BY <1>1, <1>2, <1>3

LEMMA DirtiedIs ==
  ASSUME NEW r \in JournalHead, running \in 0..MaxTid
  PROVE  /\ Dirtied(r) \in JournalHead
         /\ Dirtied(r).data = running /\ Dirtied(r).modified /\ Dirtied(r).jbddirty
         /\ Dirtied(r).freed = r.freed /\ Dirtied(r).cp = r.cp
         /\ Dirtied(r).tx = r.tx /\ Dirtied(r).next = r.next /\ Dirtied(r).frozen = r.frozen
         /\ r.tx = running => Dirtied(r).list = "metadata" /\ ~Dirtied(r).dirty
         /\ r.tx # running => Dirtied(r).list = r.list /\ Dirtied(r).dirty = r.dirty
<1> DEFINE s == [r EXCEPT !.data = running, !.modified = TRUE, !.jbddirty = TRUE]
<1>1. /\ s \in JournalHead /\ s.data = running /\ s.freed = r.freed /\ s.cp = r.cp
      /\ s.next = r.next /\ s.tx = r.tx /\ s.modified = TRUE /\ s.frozen = r.frozen
      /\ s.dirty = r.dirty /\ s.jbddirty = TRUE /\ s.list = r.list
  <2>1. running \in Content
    BY DEF Content
  <2> QED
    BY <2>1 DEF JournalHead
<1>2. Dirtied(r) = IF r.tx = running THEN File(s, running, "metadata") ELSE s
  BY DEF Dirtied
<1> HIDE DEF s
<1>3. CASE r.tx = running
  <2>1. "metadata" \in Lists
    BY DEF Lists
  <2>2. Dirtied(r) = File(s, running, "metadata")
    BY <1>2, <1>3
  <2>3. /\ Dirtied(r) \in JournalHead
        /\ Dirtied(r).data = running /\ Dirtied(r).modified
        /\ Dirtied(r).freed = r.freed /\ Dirtied(r).cp = r.cp
        /\ Dirtied(r).tx = running /\ Dirtied(r).next = r.next
        /\ Dirtied(r).frozen = r.frozen
        /\ Dirtied(r).list = "metadata" /\ ~Dirtied(r).dirty
    BY <1>1, <2>1, <2>2, FileIs
  <2>4. Dirtied(r).jbddirty
    BY <1>1, <2>1, <2>2, FileIs
  <2> QED
    BY <1>3, <2>3, <2>4
<1>4. CASE r.tx # running
  BY <1>1, <1>2, <1>4
<1> QED
  BY <1>3, <1>4

LEMMA ForgottenIs ==
  ASSUME NEW r \in JournalHead, running \in 1..MaxTid
  PROVE  /\ Forgotten(r) \in JournalHead
         /\ Forgotten(r).data = r.data /\ ~Forgotten(r).modified /\ Forgotten(r).frozen = r.frozen
         /\ r.tx = running =>
              /\ Forgotten(r).next = r.next /\ Forgotten(r).freed = r.freed
              /\ ~Forgotten(r).dirty /\ ~Forgotten(r).jbddirty
              /\ Forgotten(r).cp = r.cp
              /\ Forgotten(r).tx = IF r.cp # NoTid THEN running ELSE NoTid
              /\ Forgotten(r).list = IF r.cp # NoTid THEN "forget" ELSE "none"
         /\ r.tx # running /\ r.tx # NoTid =>
              /\ Forgotten(r).tx = r.tx /\ Forgotten(r).next = running /\ Forgotten(r).freed
              /\ Forgotten(r).list = r.list /\ Forgotten(r).dirty = r.dirty
              /\ Forgotten(r).jbddirty = r.jbddirty /\ Forgotten(r).cp = r.cp
         /\ r.tx = NoTid =>
              /\ Forgotten(r).next = r.next /\ Forgotten(r).freed = r.freed
              /\ ~Forgotten(r).dirty /\ (Forgotten(r).jbddirty <=> r.jbddirty)
              /\ r.cp = NoTid => /\ Forgotten(r).tx = NoTid /\ Forgotten(r).list = r.list
                                 /\ Forgotten(r).cp = NoTid
              /\ r.cp # NoTid /\ ~r.dirty =>
                   /\ Forgotten(r).tx = NoTid /\ Forgotten(r).list = r.list
                   /\ Forgotten(r).cp = NoTid
              /\ r.cp # NoTid /\ r.dirty =>
                   /\ Forgotten(r).tx = running /\ Forgotten(r).list = "forget"
                   /\ Forgotten(r).cp = r.cp
<1> DEFINE s == [r EXCEPT !.modified = FALSE]
<1> DEFINE off == Cleared(r)
<1> DEFINE cold == [s EXCEPT !.dirty = FALSE]
<1>1. /\ s \in JournalHead /\ s.data = r.data /\ s.freed = r.freed /\ s.cp = r.cp
      /\ s.next = r.next /\ s.tx = r.tx /\ s.modified = FALSE /\ s.frozen = r.frozen
      /\ s.dirty = r.dirty /\ s.jbddirty = r.jbddirty /\ s.list = r.list
  BY DEF JournalHead
<1> HIDE DEF s
<1>2. /\ off \in JournalHead /\ off.data = r.data /\ off.freed = r.freed /\ off.cp = r.cp
      /\ off.next = r.next /\ off.tx = r.tx /\ off.modified = FALSE /\ off.frozen = r.frozen
      /\ off.dirty = FALSE /\ off.jbddirty = FALSE /\ off.list = r.list
  BY DEF JournalHead, Cleared
<1>3. /\ cold \in JournalHead /\ cold.data = r.data /\ cold.freed = r.freed /\ cold.cp = r.cp
      /\ cold.next = r.next /\ cold.tx = r.tx /\ cold.modified = FALSE
      /\ cold.frozen = r.frozen /\ cold.dirty = FALSE /\ cold.jbddirty = r.jbddirty
      /\ cold.list = r.list
  BY <1>1 DEF JournalHead
<1> HIDE DEF off, cold
<1>4. CASE r.tx = running
  <2>0. running # NoTid /\ running \in 0..MaxTid /\ "forget" \in Lists
    BY DEF NoTid, Lists
  <2>2. CASE r.cp # NoTid
    <3>1. Forgotten(r) = File(off, running, "forget")
      BY <1>4, <2>0, <2>2 DEF Forgotten, off, s
    <3>2. /\ Forgotten(r) \in JournalHead /\ Forgotten(r).tx = running
          /\ Forgotten(r).data = r.data /\ ~Forgotten(r).modified
          /\ Forgotten(r).frozen = r.frozen /\ Forgotten(r).cp = r.cp
          /\ Forgotten(r).next = r.next /\ Forgotten(r).freed = r.freed
          /\ Forgotten(r).list = "forget" /\ ~Forgotten(r).dirty
      BY <1>2, <2>0, <3>1, FileIs
    <3>3. ~Forgotten(r).jbddirty
      BY <1>2, <2>0, <3>1, FileIs
    <3> QED
      BY <1>4, <2>0, <2>2, <3>2, <3>3
  <2>3. CASE r.cp = NoTid
    <3>1. Forgotten(r) = Unfile(off)
      BY <1>4, <2>0, <2>3 DEF Forgotten, off, s
    <3>2. /\ Forgotten(r) \in JournalHead /\ Forgotten(r).tx = NoTid
          /\ Forgotten(r).data = r.data /\ ~Forgotten(r).modified
          /\ Forgotten(r).frozen = r.frozen /\ Forgotten(r).cp = r.cp
          /\ Forgotten(r).next = r.next /\ Forgotten(r).freed = r.freed
          /\ Forgotten(r).list = "none" /\ ~Forgotten(r).jbddirty
      BY <1>2, <3>1, UnfileIs
    <3>3. ~Forgotten(r).dirty
      BY <1>2, <3>1, UnfileIs
    <3> QED
      BY <1>4, <2>0, <2>3, <3>2, <3>3
  <2> QED
    BY <2>2, <2>3
<1>5. CASE r.tx # running /\ r.tx # NoTid
  <2>1. Forgotten(r) = [s EXCEPT !.freed = TRUE, !.next = running]
    BY <1>5 DEF Forgotten, s
  <2>2. running \in 0..MaxTid
    OBVIOUS
  <2>3. Forgotten(r) \in JournalHead
    BY <1>1, <2>1, <2>2 DEF JournalHead
  <2>4. /\ Forgotten(r).tx = r.tx /\ Forgotten(r).next = running /\ Forgotten(r).freed
        /\ Forgotten(r).list = r.list /\ Forgotten(r).dirty = r.dirty
        /\ Forgotten(r).jbddirty = r.jbddirty /\ Forgotten(r).cp = r.cp
        /\ Forgotten(r).data = r.data /\ ~Forgotten(r).modified
        /\ Forgotten(r).frozen = r.frozen
    BY <1>1, <2>1 DEF JournalHead
  <2> QED
    BY <1>5, <2>3, <2>4
<1>6. CASE r.tx = NoTid
  <2>0. r.tx # running
    BY <1>6 DEF NoTid
  <2>1. CASE r.cp = NoTid
    <3>1. Forgotten(r) = cold
      BY <1>6, <2>0, <2>1 DEF Forgotten, cold, s
    <3> QED
      BY <1>3, <1>6, <2>0, <2>1, <3>1
  <2>2. CASE r.cp # NoTid /\ ~r.dirty
    <3>1. Forgotten(r) = [s EXCEPT !.cp = NoTid]
      BY <1>6, <2>0, <2>2 DEF Forgotten, s
    <3> QED
      BY <1>1, <1>6, <2>0, <2>2, <3>1 DEF JournalHead, NoTid
  <2>3. CASE r.cp # NoTid /\ r.dirty
    <3>1. Forgotten(r) = File(cold, running, "forget")
      BY <1>6, <2>0, <2>3 DEF Forgotten, cold, s
    <3>2. running # NoTid /\ running \in 0..MaxTid /\ "forget" \in Lists
      BY DEF NoTid, Lists
    <3>3. /\ Forgotten(r) \in JournalHead /\ Forgotten(r).tx = running
          /\ Forgotten(r).data = r.data /\ ~Forgotten(r).modified
          /\ Forgotten(r).frozen = r.frozen /\ Forgotten(r).cp = r.cp
          /\ Forgotten(r).next = r.next /\ Forgotten(r).freed = r.freed
          /\ Forgotten(r).list = "forget" /\ ~Forgotten(r).dirty
      BY <1>3, <3>1, <3>2, FileIs
    <3>4. cold.dirty = FALSE /\ cold.jbddirty = r.jbddirty /\ r.jbddirty \in BOOLEAN
      BY <1>3 DEF JournalHead
    <3>5. Forgotten(r).jbddirty <=> r.jbddirty
      BY <1>3, <3>1, <3>2, <3>4, FileIs
    <3> QED
      BY <1>6, <2>0, <2>3, <3>2, <3>3, <3>5
  <2> QED
    BY <2>1, <2>2, <2>3
<1> QED
  BY <1>4, <1>5, <1>6

LEMMA ReleasedIs ==
  ASSUME NEW r \in JournalHead, committing \in 0..MaxTid
  PROVE  /\ Released(r) \in JournalHead
         /\ Released(r).data = r.data /\ Released(r).tx = r.next /\ Released(r).next = NoTid
         /\ Released(r).modified = r.modified /\ Released(r).frozen = Unfrozen
         /\ (Released(r).freed <=> (r.freed /\ r.next # NoTid))
         /\ Released(r).cp = IF r.jbddirty /\ ~(r.freed /\ r.next = NoTid)
                             THEN committing ELSE NoTid
         /\ r.next = NoTid =>
              /\ Released(r).list = "none" /\ ~Released(r).jbddirty
              /\ (Released(r).dirty <=> (r.dirty \/ (r.jbddirty /\ ~r.freed)))
         /\ r.next # NoTid =>
              /\ Released(r).list = IF r.freed THEN "forget"
                                    ELSE IF r.modified THEN "metadata" ELSE "reserved"
              /\ Released(r).dirty = r.dirty /\ Released(r).jbddirty = r.jbddirty
<1> DEFINE gone == r.freed /\ r.next = NoTid
<1> DEFINE s == [r EXCEPT !.frozen = Unfrozen, !.freed = r.freed /\ ~gone,
                          !.jbddirty = r.jbddirty /\ ~gone]
<1> DEFINE u == [s EXCEPT !.cp = IF s.jbddirty THEN committing ELSE NoTid]
<1>0. gone \in BOOLEAN /\ r.freed \in BOOLEAN /\ r.jbddirty \in BOOLEAN /\ r.dirty \in BOOLEAN
  BY DEF JournalHead
<1>1. gone <=> r.freed /\ r.next = NoTid
  OBVIOUS
<1> HIDE DEF gone
<1>2. /\ s \in JournalHead /\ s.data = r.data /\ s.cp = r.cp /\ s.dirty = r.dirty
      /\ s.next = r.next /\ s.tx = r.tx /\ s.modified = r.modified
      /\ s.frozen = Unfrozen /\ s.list = r.list
      /\ s.freed = (r.freed /\ ~gone) /\ s.jbddirty = (r.jbddirty /\ ~gone)
  BY <1>0 DEF JournalHead
<1> HIDE DEF s
<1>3. /\ u \in JournalHead /\ u.data = r.data /\ u.dirty = r.dirty
      /\ u.next = r.next /\ u.tx = r.tx /\ u.modified = r.modified
      /\ u.frozen = Unfrozen /\ u.list = r.list
      /\ u.freed = (r.freed /\ ~gone) /\ u.jbddirty = (r.jbddirty /\ ~gone)
      /\ u.cp = IF r.jbddirty /\ ~gone THEN committing ELSE NoTid
  BY <1>2 DEF JournalHead, NoTid
<1>4. Released(r) = Refile(u)
  BY DEF Released, u, s, gone
<1> HIDE DEF u
<1>5. CASE r.next = NoTid
  <2>1. /\ Released(r) \in JournalHead
        /\ Released(r).data = r.data /\ Released(r).tx = r.next /\ Released(r).next = NoTid
        /\ Released(r).modified = r.modified /\ Released(r).frozen = Unfrozen
        /\ Released(r).freed = u.freed /\ Released(r).cp = u.cp
        /\ Released(r).list = "none" /\ ~Released(r).jbddirty
    BY <1>3, <1>4, <1>5, RefileIs
  <2>2. Released(r).dirty <=> (u.dirty \/ u.jbddirty)
    BY <1>3, <1>4, <1>5, RefileIs
  <2> QED
    BY <1>0, <1>1, <1>3, <1>5, <2>1, <2>2
<1>6. CASE r.next # NoTid
  BY <1>0, <1>1, <1>3, <1>4, <1>6, RefileIs
<1> QED
  BY <1>5, <1>6

(* What Makes changes of want.                                              *)
LEMMA MakesIs ==
  ASSUME JournalTypeOK, NEW b \in Block, NEW content \in Content \cup {Unused},
         Makes(b, content)
  PROVE  /\ want' \in [run : Made, com : Made, dur : Made]
         /\ want'.dur = want.dur /\ want'.run[b] = content
         /\ committing = NoTid => want'.com[b] = content
         /\ committing # NoTid => want'.com[b] = want.com[b]
         /\ \A a \in Block : a # b => want'.run[a] = want.run[a] /\ want'.com[a] = want.com[a]
<1> DEFINE V == Content \cup {Unused}
<1>1. want \in [run : [Block -> V], com : [Block -> V], dur : [Block -> V]] /\ content \in V
  BY DEF JournalTypeOK, Made
<1> HIDE DEF V
<1> DEFINE f == [want.run EXCEPT ![b] = content]
<1> DEFINE g == [want.com EXCEPT ![b] = content]
<1>2. /\ f \in [Block -> V] /\ f[b] = content
      /\ \A a \in Block : a # b => f[a] = want.run[a]
  BY <1>1
<1>3. /\ g \in [Block -> V] /\ g[b] = content
      /\ \A a \in Block : a # b => g[a] = want.com[a]
  BY <1>1
<1>4. CASE committing = NoTid
  <2>1. want' = [want EXCEPT !.run = f, !.com = g]
    BY <1>4 DEF Makes
  <2> HIDE DEF f, g
  <2>2. want' \in [run : [Block -> V], com : [Block -> V], dur : [Block -> V]]
    BY <1>1, <1>2, <1>3, <2>1
  <2>3. want'.dur = want.dur /\ want'.run = f /\ want'.com = g
    BY <1>1, <2>1
  <2> QED
    BY <1>2, <1>3, <1>4, <2>2, <2>3 DEF V, Made
<1>5. CASE committing # NoTid
  <2>1. want' = [want EXCEPT !.run = f]
    BY <1>5 DEF Makes
  <2> HIDE DEF f, g
  <2>2. want' \in [run : [Block -> V], com : [Block -> V], dur : [Block -> V]]
    BY <1>1, <1>2, <2>1
  <2>3. want'.dur = want.dur /\ want'.run = f /\ want'.com = want.com
    BY <1>1, <2>1
  <2> QED
    BY <1>2, <1>5, <2>2, <2>3 DEF V, Made
<1> QED
  BY <1>4, <1>5

(* What Write changes of the device.                                        *)
LEMMA WriteIs ==
  ASSUME JournalTypeOK, NEW b \in Block, NEW content \in Content, Write(b, content)
  PROVE  /\ disk' \in [Block -> SUBSET Content] /\ wrote' \in [Block -> Content]
         /\ wrote'[b] = content /\ disk'[b] = disk[b] \cup {content}
         /\ \A a \in Block : a # b => wrote'[a] = wrote[a] /\ disk'[a] = disk[a]
BY DEF JournalTypeOK, Write

(* Only transactions without a buffer leave the checkpoint list.            *)
LEMMA StillListedIs ==
  ASSUME checkpoints' = StillListed(jh')
  PROVE  /\ checkpoints' \subseteq checkpoints
         /\ \A b \in Block : jh'[b].cp \in checkpoints => jh'[b].cp \in checkpoints'
BY DEF StillListed

-----------------------------------------------------------------------------
(* Steps that change one block and leave the transactions alone.            *)

(* A step that leaves block b alone, and the variables shared by all        *)
(* blocks.                                                                  *)
Same(b) ==
  /\ jh'[b] = jh[b] /\ freedBy'[b] = freedBy[b] /\ wrote'[b] = wrote[b] /\ disk'[b] = disk[b]
  /\ want'.run[b] = want.run[b] /\ want'.com[b] = want.com[b] /\ want'.dur[b] = want.dur[b]
  /\ (b \in revoke') <=> (b \in revoke)
  /\ jh[b].cp \in checkpoints => jh[b].cp \in checkpoints'

(* A step that moves no transaction and does not write to the log.          *)
Still ==
  /\ UNCHANGED <<running, committing, stage, nextTid, mounted, tail, slots, newTail, revoking>>
  /\ open' = open \/ open' = FALSE
  /\ checkpoints' \subseteq checkpoints

(* A step of this kind changes neither the log nor what is durable.         *)
LEMMA StillLog ==
  ASSUME Still
  PROVE  /\ LastDurable' = LastDurable /\ (InWork' <=> InWork)
         /\ \A t : InLog(t)' = InLog(t)
BY DEF Still, LastDurable, InWork, InLog, SlotOf, OnDisk

LEMMA StillTids ==
  ASSUME Still, Tids, LogHolds
  PROVE  Tids' /\ LogHolds'
<1>1. LastDurable' = LastDurable /\ \A t : InLog(t)' = InLog(t)
  BY StillLog
<1>2. /\ UNCHANGED <<running, committing, stage, nextTid, mounted, tail, slots, newTail, revoking>>
      /\ checkpoints' \subseteq checkpoints /\ (open' => open)
  BY DEF Still
<1>4. Tids'
  BY <1>1, <1>2 DEF Tids
<1>3. LogHolds'
  BY <1>1 DEF LogHolds, Still
<1> QED
  BY <1>3, <1>4

(* A block that such a step leaves alone stays in order.                    *)
LEMMA SameBlock ==
  ASSUME Still, NEW b, Same(b), BlockOK(b)
  PROVE  BlockOK(b)'
<1>1. LastDurable' = LastDurable /\ (InWork' <=> InWork) /\ \A t : InLog(t)' = InLog(t)
  BY StillLog
<1>2. Copies(b, tail.tid, LastDurable)' = Copies(b, tail.tid, LastDurable)
  BY <1>1 DEF Copies, Still
<1>3. Copies(b, newTail, LastDurable)' = Copies(b, newTail, LastDurable)
  BY <1>1 DEF Copies, Still
<1>4. Wants(b)' /\ Frees(b)'
  BY <1>1 DEF BlockOK, Wants, Frees, Base, Became, Still, Same, OnDisk
<1>5. NoTx(b)' /\ InRunning(b)' 
  BY <1>1 DEF BlockOK, NoTx, InRunning, Still, Same
<1>6. InCommitting(b)'
  BY <1>1 DEF BlockOK, InCommitting, Still, Same
<1>7. Placed(b)' /\ Recorded(b)' /\ DataWritten(b)'
  BY <1>1 DEF BlockOK, Placed, Recorded, DataWritten, Still, Same
<1>8. Kept(b)'
  BY <1>1, <1>2, <1>3 DEF BlockOK, Kept, Restores, Still, Same
<1>9. Pinned(b)'
  BY <1>1, <1>2 DEF BlockOK, Pinned, Still, Same, OnDisk
<1> QED
  BY <1>4, <1>5, <1>6, <1>7, <1>8, <1>9 DEF BlockOK

(* So it is enough to look at the one block that an action changes.         *)
LEMMA LocalStep ==
  ASSUME JournalIInv, JournalTypeOK', Still, NEW c \in Block, BlockOK(c)',
         \A b \in Block : b # c => Same(b)
  PROVE  JournalIInv'
<1>1. Tids' /\ LogHolds'
  BY StillTids DEF JournalIInv
<1>2. ASSUME NEW b \in Block PROVE BlockOK(b)'
  <2>1. CASE b = c
    BY <2>1
  <2>2. CASE b # c
    BY <2>2, SameBlock DEF JournalIInv
  <2> QED
    BY <2>1, <2>2
<1> QED
  BY <1>1, <1>2 DEF JournalIInv

LEMMA TypeStill ==
  ASSUME JournalTypeOK, Still, jh' \in [Block -> JournalHead], revoke' \subseteq Block,
         freedBy' \in [Block -> 0..MaxTid], disk' \in [Block -> SUBSET Content],
         wrote' \in [Block -> Content], want' \in [run : Made, com : Made, dur : Made]
  PROVE  JournalTypeOK'
BY DEF JournalTypeOK, Still

(* Writing the durable content in place keeps a block restorable.           *)
LEMMA KeptStill ==
  ASSUME Still, NEW b, Kept(b), want'.dur[b] = want.dur[b],
         want.dur[b] # Unused => disk'[b] = disk[b] \/ disk'[b] = disk[b] \cup {want.dur[b]}
  PROVE  Kept(b)'
<1>1. LastDurable' = LastDurable /\ \A t : InLog(t)' = InLog(t)
  BY StillLog
<1>2. Copies(b, tail.tid, LastDurable)' = Copies(b, tail.tid, LastDurable)
  BY <1>1 DEF Copies, Still
<1>3. Copies(b, newTail, LastDurable)' = Copies(b, newTail, LastDurable)
  BY <1>1 DEF Copies, Still
<1>4. disk[b] = {want.dur[b]} /\ want.dur[b] # Unused => disk'[b] = {want.dur[b]}
  OBVIOUS
<1> QED
  BY <1>1, <1>2, <1>3, <1>4 DEF Kept, Restores, Still

LEMMA PinnedStill ==
  ASSUME Still, NEW b, Pinned(b), want'.dur[b] = want.dur[b],
         want.dur[b] # Unused => wrote'[b] = want.dur[b]
           \/ /\ wrote'[b] = wrote[b]
              /\ \/ jh'[b].cp = jh[b].cp /\ jh'[b].tx = jh[b].tx
                 \/ jh'[b].cp = jh[b].cp /\ stage \notin OnDisk
  PROVE  Pinned(b)'
<1>1. LastDurable' = LastDurable /\ \A t : InLog(t)' = InLog(t)
  BY StillLog
<1>2. Copies(b, tail.tid, LastDurable)' = Copies(b, tail.tid, LastDurable)
  BY <1>1 DEF Copies, Still
<1> QED
  BY <1>1, <1>2 DEF Pinned, Still, OnDisk

LEMMA PinnedKept ==
  ASSUME Still, NEW b, Pinned(b), want'.dur[b] = want.dur[b], wrote'[b] = wrote[b],
         jh'[b].cp = jh[b].cp,
         want.dur[b] # Unused /\ wrote[b] # want.dur[b] => jh[b].tx # committing \/ stage \notin OnDisk
  PROVE  Pinned(b)'
<1>1. LastDurable' = LastDurable /\ \A t : InLog(t)' = InLog(t)
  BY StillLog
<1>2. Copies(b, tail.tid, LastDurable)' = Copies(b, tail.tid, LastDurable)
  BY <1>1 DEF Copies, Still
<1> QED
  BY <1>1, <1>2 DEF Pinned, Still, OnDisk

(* The types of what belongs to one block.                                  *)
LEMMA HeadTyped ==
  ASSUME JournalTypeOK, NEW b \in Block
  PROVE  /\ jh[b] \in JournalHead
         /\ jh[b].tx \in 0..MaxTid /\ jh[b].next \in 0..MaxTid /\ jh[b].cp \in 0..MaxTid
         /\ jh[b].data \in Content /\ wrote[b] \in Content
         /\ want.run[b] \in Content \cup {Unused} /\ want.com[b] \in Content \cup {Unused}
         /\ want.dur[b] \in Content \cup {Unused}
BY DEF JournalTypeOK, JournalHead, Made

LEMMA MetaIsNotData ==
  ASSUME JournalIInv, NEW x \in MetaC, stage \in {"flush", "write", "record", "tail", "forget"}
  PROVE  x # -committing /\ committing # NoTid
<1>1. committing # NoTid /\ committing \in 0..MaxTid
  BY DEF JournalIInv, JournalTypeOK, Tids
<1> QED
  BY <1>1 DEF MetaC, NoTid

-----------------------------------------------------------------------------
(* The actions of checkpointing, of commit and of handles that concern one  *)
(* block, each with the invariant.                                          *)

(* Writeback writes the durable content: a dirty buffer is in no            *)
(* transaction.                                                             *)
LEMMA WriteBufferHolds ==
  ASSUME JournalIInv, NEW b \in Block, WriteBuffer(b)
  PROVE  JournalIInv'
<1>0. JournalTypeOK /\ BlockOK(b)
  BY DEF JournalIInv
<1>1. jh[b].dirty /\ Write(b, jh[b].data) /\ jh' = [jh EXCEPT ![b].dirty = FALSE]
  BY DEF WriteBuffer
<1>2. UNCHANGED <<running, open, nextTid, committing, stage, revoking, newTail, revoke, freedBy,
                  checkpoints, tail, slots, want, mounted>>
  BY DEF WriteBuffer, tranVars, commitVars, logVars
<1>3. /\ disk' \in [Block -> SUBSET Content] /\ wrote' \in [Block -> Content]
      /\ wrote'[b] = jh[b].data /\ disk'[b] = disk[b] \cup {jh[b].data}
      /\ \A a \in Block : a # b => wrote'[a] = wrote[a] /\ disk'[a] = disk[a]
  BY <1>0, <1>1, HeadTyped, WriteIs
<1>4. /\ jh' \in [Block -> JournalHead] /\ \A a \in Block : a # b => jh'[a] = jh[a]
      /\ jh'[b] = [jh[b] EXCEPT !.dirty = FALSE]
  <2>1. jh \in [Block -> JournalHead]
    BY <1>0 DEF JournalTypeOK
  <2>2. [jh[b] EXCEPT !.dirty = FALSE] \in JournalHead
    BY <2>1 DEF JournalHead
  <2> QED
    BY <1>1, <2>1, <2>2
<1>5. /\ jh'[b].data = jh[b].data /\ jh'[b].tx = jh[b].tx /\ jh'[b].next = jh[b].next
      /\ jh'[b].list = jh[b].list /\ jh'[b].modified = jh[b].modified
      /\ jh'[b].jbddirty = jh[b].jbddirty /\ jh'[b].freed = jh[b].freed
      /\ jh'[b].frozen = jh[b].frozen /\ jh'[b].cp = jh[b].cp /\ ~jh'[b].dirty
  BY <1>0, <1>4, HeadTyped DEF JournalHead
<1>6. Still
  BY <1>2 DEF Still
<1>7. JournalTypeOK'
  <2>1. revoke' \subseteq Block /\ freedBy' \in [Block -> 0..MaxTid]
        /\ want' \in [run : Made, com : Made, dur : Made]
    BY <1>0, <1>2 DEF JournalTypeOK
  <2> QED
    BY <1>0, <1>3, <1>4, <1>6, <2>1, TypeStill
<1>8. \A a \in Block : a # b => Same(a)
  BY <1>2, <1>3, <1>4 DEF Same
<1>9. /\ jh[b].tx = NoTid /\ want.dur[b] = jh[b].data /\ want.run[b] = jh[b].data
      /\ want.com[b] \in MetaC
  BY <1>0, <1>1 DEF BlockOK, NoTx, Placed
<1>10. BlockOK(b)'
  <2>1. LastDurable' = LastDurable /\ (InWork' <=> InWork) /\ \A t : InLog(t)' = InLog(t)
    BY <1>6, StillLog
  <2>2. Kept(b)' /\ Pinned(b)'
    BY <1>0, <1>2, <1>3, <1>6, <1>9, KeptStill, PinnedStill DEF BlockOK
  <2>3. Wants(b)' /\ Frees(b)'
    BY <1>0, <1>2, <2>1 DEF BlockOK, Wants, Frees, Base, Became, OnDisk
  <2>4. NoTx(b)'
    BY <1>0, <1>2, <1>3, <1>5, <1>9 DEF BlockOK, NoTx
  <2>5. InRunning(b)' /\ InCommitting(b)' /\ Placed(b)'
    BY <1>0, <1>2, <1>5, <1>9, <2>1 DEF BlockOK, InRunning, InCommitting, Placed
  <2>6. stage \in {"write", "record"} => want.com[b] # -committing
    BY <1>0, <1>9, MetaIsNotData
  <2>7. DataWritten(b)'
    BY <1>0, <1>2, <1>3, <2>6 DEF BlockOK, DataWritten
  <2>8. Recorded(b)'
    BY <1>0, <1>2, <1>5, <2>1 DEF BlockOK, Recorded
  <2> QED
    BY <2>2, <2>3, <2>4, <2>5, <2>7, <2>8 DEF BlockOK
<1> QED
  BY <1>6, <1>7, <1>8, <1>10, LocalStep

(* The running and the committing transaction are two.                      *)
LEMMA Distinct ==
  ASSUME JournalIInv
  PROVE  /\ running \in 0..MaxTid /\ committing \in 0..MaxTid
         /\ running = committing => running = NoTid
         /\ open => running # NoTid /\ running \in 1..MaxTid
         /\ stage \notin {"none", "locked"} => committing # NoTid
<1>1. JournalTypeOK /\ Tids
  BY DEF JournalIInv
<1> QED
  BY <1>1 DEF JournalTypeOK, Tids, NoTid

LEMMA OneHead ==
  ASSUME JournalTypeOK, NEW b \in Block, NEW r \in JournalHead, jh' = [jh EXCEPT ![b] = r]
  PROVE  /\ jh' \in [Block -> JournalHead] /\ jh'[b] = r
         /\ \A a \in Block : a # b => jh'[a] = jh[a]
BY DEF JournalTypeOK

(* Only what was written in place leaves a checkpoint list.                 *)
LEMMA RemoveCheckpointHolds ==
  ASSUME JournalIInv, NEW b \in Block, RemoveCheckpoint(b)
  PROVE  JournalIInv'
<1>0. JournalTypeOK /\ BlockOK(b)
  BY DEF JournalIInv
<1>1. jh[b].tx = NoTid /\ ~jh[b].dirty /\ checkpoints' = StillListed(jh')
  BY DEF RemoveCheckpoint, Removable
<1>2. UNCHANGED <<running, open, nextTid, committing, stage, revoking, newTail, revoke, freedBy,
                  tail, slots, want, disk, wrote, mounted>>
  BY DEF RemoveCheckpoint, tranVars, commitVars, logVars, devVars
<1>3. checkpoints' \subseteq checkpoints
      /\ \A a \in Block : jh'[a].cp \in checkpoints => jh'[a].cp \in checkpoints'
  BY <1>1, StillListedIs
<1>4. /\ jh' \in [Block -> JournalHead] /\ \A a \in Block : a # b => jh'[a] = jh[a]
      /\ jh'[b] = [jh[b] EXCEPT !.cp = NoTid]
  <2>1. jh \in [Block -> JournalHead]
    BY <1>0 DEF JournalTypeOK
  <2>2. [jh[b] EXCEPT !.cp = NoTid] \in JournalHead
    BY <2>1, NoTidTyped DEF JournalHead
  <2> QED
    BY <2>1, <2>2 DEF RemoveCheckpoint, Dropped
<1>5. /\ jh'[b].data = jh[b].data /\ jh'[b].tx = jh[b].tx /\ jh'[b].next = jh[b].next
      /\ jh'[b].list = jh[b].list /\ jh'[b].modified = jh[b].modified
      /\ jh'[b].jbddirty = jh[b].jbddirty /\ jh'[b].freed = jh[b].freed
      /\ jh'[b].frozen = jh[b].frozen /\ jh'[b].cp = NoTid /\ jh'[b].dirty = jh[b].dirty
  BY <1>0, <1>4, HeadTyped DEF JournalHead
<1>6. Still
  BY <1>2, <1>3 DEF Still
<1>7. JournalTypeOK'
  <2>1. revoke' \subseteq Block /\ freedBy' \in [Block -> 0..MaxTid]
        /\ want' \in [run : Made, com : Made, dur : Made]
        /\ disk' \in [Block -> SUBSET Content] /\ wrote' \in [Block -> Content]
    BY <1>0, <1>2 DEF JournalTypeOK
  <2> QED
    BY <1>0, <1>4, <1>6, <2>1, TypeStill
<1>8. \A a \in Block : a # b => Same(a)
  BY <1>2, <1>3, <1>4 DEF Same
<1>9. want.dur[b] # Unused => wrote[b] = want.dur[b]
  BY <1>0, <1>1 DEF BlockOK, NoTx
<1>10. BlockOK(b)'
  <2>1. LastDurable' = LastDurable /\ (InWork' <=> InWork) /\ \A t : InLog(t)' = InLog(t)
    BY <1>6, StillLog
  <2>2. Kept(b)' /\ Pinned(b)'
    BY <1>0, <1>2, <1>6, <1>9, KeptStill, PinnedStill DEF BlockOK
  <2>3. Wants(b)' /\ Frees(b)'
    BY <1>0, <1>2, <2>1 DEF BlockOK, Wants, Frees, Base, Became, OnDisk
  <2>4. NoTx(b)'
    BY <1>0, <1>2, <1>5 DEF BlockOK, NoTx
  <2>5. InRunning(b)' /\ InCommitting(b)' /\ Placed(b)'
    BY <1>0, <1>1, <1>2, <1>5, <2>1 DEF BlockOK, InRunning, InCommitting, Placed
  <2>6. Recorded(b)' /\ DataWritten(b)'
    BY <1>0, <1>2, <1>5, <2>1 DEF BlockOK, Recorded, DataWritten
  <2> QED
    BY <2>2, <2>3, <2>4, <2>5, <2>6 DEF BlockOK
<1> QED
  BY <1>6, <1>7, <1>8, <1>10, LocalStep

LEMMA CommitWriteHolds ==
  ASSUME JournalIInv, NEW b \in Block, CommitWrite(b)
  PROVE  JournalIInv'
<1>0. JournalTypeOK /\ BlockOK(b)
  BY DEF JournalIInv
<1> DEFINE r == File(jh[b], committing, "shadow")
<1>1. stage = "write" /\ jh[b].tx = committing /\ jh[b].list = "metadata" /\ jh' = [jh EXCEPT ![b] = r]
  BY DEF CommitWrite
<1>2. UNCHANGED <<running, open, nextTid, committing, stage, revoking, newTail, revoke, freedBy,
                  checkpoints, tail, slots, want, disk, wrote, mounted>>
  BY DEF CommitWrite, tranVars, commitVars, logVars, devVars
<1>3. committing # NoTid /\ committing # running /\ committing \in 0..MaxTid
  BY <1>1, Distinct
<1>4. /\ r \in JournalHead /\ r.data = jh[b].data /\ r.tx = jh[b].tx /\ r.next = jh[b].next
      /\ r.list = "shadow" /\ r.modified = jh[b].modified /\ r.freed = jh[b].freed
      /\ r.frozen = jh[b].frozen /\ r.cp = jh[b].cp /\ ~r.dirty
      /\ (r.jbddirty <=> (jh[b].dirty \/ jh[b].jbddirty))
  <2>1. "shadow" \in Lists
    BY DEF Lists
  <2>2. jh[b] \in JournalHead
    BY <1>0, HeadTyped
  <2> QED
    BY <1>1, <1>3, <2>1, <2>2, FileIs
<1> HIDE DEF r
<1>5. /\ jh' \in [Block -> JournalHead] /\ jh'[b] = r /\ \A a \in Block : a # b => jh'[a] = jh[a]
  BY <1>0, <1>1, <1>4, OneHead
<1>6. Still
  BY <1>2 DEF Still
<1>7. JournalTypeOK'
  <2>1. revoke' \subseteq Block /\ freedBy' \in [Block -> 0..MaxTid]
        /\ want' \in [run : Made, com : Made, dur : Made]
        /\ disk' \in [Block -> SUBSET Content] /\ wrote' \in [Block -> Content]
    BY <1>0, <1>2 DEF JournalTypeOK
  <2> QED
    BY <1>0, <1>5, <1>6, <2>1, TypeStill
<1>8. \A a \in Block : a # b => Same(a)
  BY <1>2, <1>5 DEF Same
<1>10. BlockOK(b)'
  <2>1. LastDurable' = LastDurable /\ (InWork' <=> InWork) /\ \A t : InLog(t)' = InLog(t)
    BY <1>6, StillLog
  <2>2. Kept(b)' /\ Pinned(b)'
    BY <1>0, <1>2, <1>4, <1>5, <1>6, KeptStill, PinnedStill DEF BlockOK
  <2>3. Wants(b)' /\ Frees(b)'
    BY <1>0, <1>2, <2>1 DEF BlockOK, Wants, Frees, Base, Became, OnDisk
  <2>4. NoTx(b)' /\ InRunning(b)'
    BY <1>0, <1>1, <1>2, <1>3, <1>4, <1>5 DEF BlockOK, NoTx, InRunning
  <2>5. InCommitting(b)'
    BY <1>0, <1>1, <1>2, <1>3, <1>4, <1>5, <2>1 DEF BlockOK, InCommitting
  <2>6. Placed(b)' /\ Recorded(b)' /\ DataWritten(b)'
    BY <1>0, <1>1, <1>2, <1>4, <1>5, <2>1 DEF BlockOK, Placed, Recorded, DataWritten
  <2> QED
    BY <2>2, <2>3, <2>4, <2>5, <2>6 DEF BlockOK
<1> QED
  BY <1>6, <1>7, <1>8, <1>10, LocalStep

(* A free block has no content.                                             *)
LEMMA UnusedIsNoContent ==
  Unused \notin MetaC /\ Unused \notin Content
BY DEF Unused, MetaC, Content

LEMMA MinusIsNotUnused ==
  ASSUME JournalTypeOK
  PROVE  -committing # Unused /\ -running # Unused
BY DEF JournalTypeOK, Unused

(* A block that is file data now was this data, or free, all along.         *)
LEMMA DataIsOwn ==
  ASSUME JournalIInv, NEW b \in Block, want.run[b] < 0
  PROVE  /\ want.run[b] \in Content /\ want.run[b] \notin MetaC /\ want.run[b] # Unused
         /\ freedBy[b] = NoTid /\ b \notin revoke
         /\ want.dur[b] = want.run[b] \/ want.dur[b] = Unused
         /\ committing # NoTid =>
              want.com[b] = want.run[b] \/ (want.com[b] = Unused /\ want.dur[b] = Unused)
<1>0. JournalTypeOK /\ BlockOK(b) /\ Tids
  BY DEF JournalIInv
<1>1. /\ want.run[b] \in Content /\ want.run[b] \notin MetaC /\ want.run[b] # Unused
      /\ want.com[b] \in Content \cup {Unused} /\ want.dur[b] \in Content \cup {Unused}
      /\ running \in 0..MaxTid /\ committing \in 0..MaxTid
  BY <1>0, HeadTyped, Distinct DEF Content, Unused, MetaC
<1>2. freedBy[b] = NoTid /\ b \notin revoke
  BY <1>0, <1>1, Distinct DEF BlockOK, Frees
<1>3. ASSUME NEW x, NEW y, NEW t \in 0..MaxTid, y < 0, y \in Content, Became(x, y, t)
      PROVE  y = x \/ x = Unused
  BY <1>3 DEF Became, Unused
<1>4. want.run[b] = Base(b) \/ Base(b) = Unused
  BY <1>0, <1>1, <1>3 DEF BlockOK, Wants
<1>5. CASE committing = NoTid
  BY <1>1, <1>2, <1>4, <1>5 DEF Base
<1>6. CASE committing # NoTid
  <2>1. want.run[b] = want.com[b] \/ want.com[b] = Unused
    BY <1>4, <1>6 DEF Base
  <2>2. InWork \/ stage \in OnDisk
    BY <1>0, <1>6 DEF InWork, OnDisk, Tids, JournalTypeOK
  <2>3. CASE stage \in OnDisk
    BY <1>0, <1>1, <1>2, <2>1, <2>3 DEF BlockOK, Wants
  <2>4. CASE InWork
    <3>1. CASE want.com[b] = Unused
      <4>1. want.dur[b] = Unused
        BY <1>0, <1>2, <1>6, <2>4, <3>1 DEF BlockOK, Frees
      <4> QED
        BY <1>1, <1>2, <3>1, <4>1
    <3>2. CASE want.com[b] = want.run[b]
      <4>1. Became(want.dur[b], want.com[b], committing)
        BY <1>0, <2>4 DEF BlockOK, Wants
      <4>2. want.com[b] = want.dur[b] \/ want.dur[b] = Unused
        BY <1>1, <1>3, <3>2, <4>1
      <4> QED
        BY <1>1, <1>2, <3>2, <4>2
    <3> QED
      BY <2>1, <3>1, <3>2
  <2> QED
    BY <2>2, <2>3, <2>4
<1> QED
  BY <1>5, <1>6

(* A page may be written back at any time: its block is durable with this   *)
(* content or is free in what is durable.                                   *)
LEMMA WriteDataHolds ==
  ASSUME JournalIInv, NEW b \in Block, WriteData(b)
  PROVE  JournalIInv'
<1>0. JournalTypeOK /\ BlockOK(b)
  BY DEF JournalIInv
<1>1. want.run[b] < 0 /\ wrote[b] # want.run[b] /\ Write(b, want.run[b])
  BY DEF WriteData
<1>2. UNCHANGED <<jh, running, open, nextTid, committing, stage, revoking, newTail, revoke,
                  freedBy, checkpoints, tail, slots, want, mounted>>
  BY DEF WriteData, tranVars, commitVars, logVars
<1>3. /\ want.run[b] \in Content /\ want.run[b] \notin MetaC /\ want.run[b] # Unused
      /\ want.dur[b] = want.run[b] \/ want.dur[b] = Unused
      /\ committing # NoTid =>
           want.com[b] = want.run[b] \/ (want.com[b] = Unused /\ want.dur[b] = Unused)
  BY <1>1, DataIsOwn
<1>4. /\ disk' \in [Block -> SUBSET Content] /\ wrote' \in [Block -> Content]
      /\ wrote'[b] = want.run[b] /\ disk'[b] = disk[b] \cup {want.run[b]}
      /\ \A a \in Block : a # b => wrote'[a] = wrote[a] /\ disk'[a] = disk[a]
  BY <1>0, <1>1, <1>3, WriteIs
<1>6. Still
  BY <1>2 DEF Still
<1>7. JournalTypeOK'
  <2>1. jh' \in [Block -> JournalHead] /\ revoke' \subseteq Block
        /\ freedBy' \in [Block -> 0..MaxTid] /\ want' \in [run : Made, com : Made, dur : Made]
    BY <1>0, <1>2 DEF JournalTypeOK
  <2> QED
    BY <1>0, <1>4, <1>6, <2>1, TypeStill
<1>8. \A a \in Block : a # b => Same(a)
  BY <1>2, <1>4 DEF Same
<1>10. BlockOK(b)'
  <2>1. LastDurable' = LastDurable /\ (InWork' <=> InWork) /\ \A t : InLog(t)' = InLog(t)
    BY <1>6, StillLog
  <2>2. Kept(b)' /\ Pinned(b)'
    BY <1>0, <1>2, <1>3, <1>4, <1>6, KeptStill, PinnedStill DEF BlockOK
  <2>3. Wants(b)' /\ Frees(b)'
    BY <1>0, <1>2, <2>1 DEF BlockOK, Wants, Frees, Base, Became, OnDisk
  <2>4. NoTx(b)' /\ InRunning(b)'
    BY <1>0, <1>2, <1>3, <1>4 DEF BlockOK, NoTx, InRunning
  <2>5. InCommitting(b)' /\ Placed(b)' /\ Recorded(b)'
    BY <1>0, <1>2, <2>1 DEF BlockOK, InCommitting, Placed, Recorded
  <2>6. stage \in {"write", "record"} => want.com[b] # -committing
    <3>1. stage \in {"write", "record"} /\ want.com[b] = -committing =>
             wrote[b] = want.com[b] /\ committing # NoTid /\ committing \in 0..MaxTid
      BY <1>0, Distinct DEF BlockOK, DataWritten
    <3> QED
      BY <1>1, <1>3, <3>1 DEF Unused
  <2>7. DataWritten(b)'
    BY <1>0, <1>2, <1>4, <2>6 DEF BlockOK, DataWritten
  <2> QED
    BY <2>2, <2>3, <2>4, <2>5, <2>7 DEF BlockOK
<1> QED
  BY <1>6, <1>7, <1>8, <1>10, LocalStep

LEMMA FreeDataHolds ==
  ASSUME JournalIInv, NEW b \in Block, FreeData(b)
  PROVE  JournalIInv'
<1>0. JournalTypeOK /\ BlockOK(b)
  BY DEF JournalIInv
<1>1. /\ open /\ want.run[b] < 0 /\ Makes(b, Unused)
      /\ freedBy' = [freedBy EXCEPT ![b] = running]
      /\ Write(b, want.run[b]) \/ UNCHANGED <<disk, wrote>>
  BY DEF FreeData, devVars
<1>2. UNCHANGED <<jh, running, open, nextTid, committing, stage, revoking, newTail, revoke,
                  checkpoints, tail, slots, mounted>>
  BY DEF FreeData, tranVars, commitVars, logVars
<1>3. /\ want.run[b] \in Content /\ want.run[b] \notin MetaC /\ want.run[b] # Unused
      /\ freedBy[b] = NoTid /\ b \notin revoke
      /\ want.dur[b] = want.run[b] \/ want.dur[b] = Unused
      /\ committing # NoTid =>
           want.com[b] = want.run[b] \/ (want.com[b] = Unused /\ want.dur[b] = Unused)
  BY <1>1, DataIsOwn
<1>4. /\ disk' \in [Block -> SUBSET Content] /\ wrote' \in [Block -> Content]
      /\ \/ wrote'[b] = want.run[b] /\ disk'[b] = (disk[b] \cup {want.run[b]})
         \/ wrote'[b] = wrote[b] /\ disk'[b] = disk[b]
      /\ \A a \in Block : a # b => wrote'[a] = wrote[a] /\ disk'[a] = disk[a]
  <2>1. CASE Write(b, want.run[b])
    BY <1>0, <1>3, <2>1, WriteIs
  <2>2. CASE UNCHANGED <<disk, wrote>>
    BY <1>0, <2>2 DEF JournalTypeOK
  <2> QED
    BY <1>1, <2>1, <2>2
<1>5. /\ want' \in [run : Made, com : Made, dur : Made]
      /\ want'.dur = want.dur /\ want'.run[b] = Unused
      /\ committing = NoTid => want'.com[b] = Unused
      /\ committing # NoTid => want'.com[b] = want.com[b]
      /\ \A a \in Block : a # b => want'.run[a] = want.run[a] /\ want'.com[a] = want.com[a]
  BY <1>0, <1>1, MakesIs
<1>6. Still
  BY <1>2 DEF Still
<1>7. JournalTypeOK' /\ freedBy'[b] = running
      /\ \A a \in Block : a # b => freedBy'[a] = freedBy[a]
  <2>1. jh' \in [Block -> JournalHead] /\ revoke' \subseteq Block
    BY <1>0, <1>2 DEF JournalTypeOK
  <2>2. /\ freedBy' \in [Block -> 0..MaxTid] /\ freedBy'[b] = running
        /\ \A a \in Block : a # b => freedBy'[a] = freedBy[a]
    BY <1>0, <1>1 DEF JournalTypeOK
  <2> QED
    BY <1>0, <1>4, <1>5, <1>6, <2>1, <2>2, TypeStill
<1>8. \A a \in Block : a # b => Same(a)
  BY <1>2, <1>4, <1>5, <1>7 DEF Same
<1>9. running # NoTid /\ running # committing /\ running \in MetaC
  BY <1>1, Distinct DEF MetaC
<1>10. BlockOK(b)'
  <2>1. LastDurable' = LastDurable /\ (InWork' <=> InWork) /\ \A t : InLog(t)' = InLog(t)
    BY <1>6, StillLog
  <2>0. /\ InWork => committing # NoTid
        /\ stage \in OnDisk => committing # NoTid
        /\ stage \in {"write", "record"} => committing # NoTid
    BY Distinct DEF InWork, OnDisk
  <2>2. Kept(b)' /\ Pinned(b)'
    BY <1>0, <1>2, <1>3, <1>4, <1>5, <1>6, KeptStill, PinnedStill DEF BlockOK
  <2>3. Wants(b)'
    BY <1>0, <1>2, <1>5, <1>9, <2>0, <2>1 DEF BlockOK, Wants, Base, Became, OnDisk
  <2>4. Frees(b)'
    BY <1>0, <1>2, <1>3, <1>5, <1>7, <1>9, <2>0, <2>1, UnusedIsNoContent
       DEF BlockOK, Frees, Base
  <2>5. NoTx(b)'
    BY <1>0, <1>2, <1>3, <1>4, <1>5, UnusedIsNoContent DEF BlockOK, NoTx
  <2>6. InRunning(b)'
    BY <1>0, <1>2, <1>3, <1>5, <1>7, <1>9 DEF BlockOK, InRunning
  <2>7. InCommitting(b)'
    BY <1>0, <1>2, <1>3, <1>5, <1>7, <1>9, <2>0, <2>1 DEF BlockOK, InCommitting
  <2>8. Placed(b)' /\ Recorded(b)'
    BY <1>0, <1>2, <1>5, <2>0, <2>1 DEF BlockOK, Placed, Recorded
  <2>9. DataWritten(b)'
    BY <1>0, <1>2, <1>3, <1>4, <1>5, <2>0, MinusIsNotUnused DEF BlockOK, DataWritten
  <2> QED
    BY <2>2, <2>3, <2>4, <2>5, <2>6, <2>7, <2>8, <2>9 DEF BlockOK
<1> QED
  BY <1>6, <1>7, <1>8, <1>10, LocalStep

LEMMA WorkHasTid ==
  ASSUME JournalIInv
  PROVE  /\ InWork => committing # NoTid
         /\ stage \in OnDisk => committing # NoTid
         /\ stage \in {"write", "record"} => committing # NoTid
         /\ committing = NoTid => revoking = {}
<1>1. committing = NoTid => revoking = {}
  BY DEF JournalIInv, Tids
<1> QED
  BY <1>1, Distinct DEF InWork, OnDisk

(* A block that is handed out is free in every transaction, and its buffer  *)
(* belongs to none.                                                         *)
LEMMA FreeIsFree ==
  ASSUME JournalIInv, NEW b \in Block, Reusable(b)
  PROVE  /\ want.com[b] = Unused /\ want.dur[b] = Unused /\ b \notin revoke
         /\ jh[b].tx = NoTid
<1>0. JournalTypeOK /\ BlockOK(b)
  BY DEF JournalIInv
<1>1. want.run[b] = Unused /\ freedBy[b] = NoTid
  BY DEF Reusable
<1>2. want.com[b] = Unused /\ want.dur[b] = Unused /\ b \notin revoke
  BY <1>0, <1>1 DEF BlockOK, Frees
<1>3. running \in MetaC /\ committing \in MetaC
  BY Distinct DEF MetaC
<1>4. ~(jh[b].tx # NoTid /\ jh[b].tx = running)
  BY <1>0, <1>1, <1>3, UnusedIsNoContent DEF BlockOK, InRunning
<1>5. ~(jh[b].tx # NoTid /\ jh[b].tx = committing)
  BY <1>0, <1>1, <1>2, <1>3, UnusedIsNoContent DEF BlockOK, InCommitting
<1> QED
  BY <1>0, <1>2, <1>4, <1>5 DEF BlockOK, Placed

LEMMA AllocateDataHolds ==
  ASSUME JournalIInv, NEW b \in Block, AllocateData(b)
  PROVE  JournalIInv'
<1>0. JournalTypeOK /\ BlockOK(b)
  BY DEF JournalIInv
<1>1. open /\ Reusable(b) /\ Makes(b, -running) /\ want.run[b] = Unused /\ freedBy[b] = NoTid
  BY DEF AllocateData, Reusable
<1>2. UNCHANGED <<jh, running, open, nextTid, committing, stage, revoking, newTail, revoke,
                  freedBy, checkpoints, tail, slots, disk, wrote, mounted>>
  BY DEF AllocateData, tranVars, commitVars, logVars, devVars
<1>3. /\ running # NoTid /\ running # committing
      /\ -running \in Content /\ -running # Unused /\ -running \notin MetaC
  BY <1>1, Distinct DEF MetaC, Content, NoTid, Unused
<1>4. want.com[b] = Unused /\ want.dur[b] = Unused /\ b \notin revoke /\ jh[b].tx = NoTid
  BY <1>1, FreeIsFree
<1>5. /\ want' \in [run : Made, com : Made, dur : Made]
      /\ want'.dur = want.dur /\ want'.run[b] = -running
      /\ committing = NoTid => want'.com[b] = -running
      /\ committing # NoTid => want'.com[b] = want.com[b]
      /\ \A a \in Block : a # b => want'.run[a] = want.run[a] /\ want'.com[a] = want.com[a]
  BY <1>0, <1>1, <1>3, MakesIs
<1>6. Still
  BY <1>2 DEF Still
<1>7. JournalTypeOK'
  <2>1. jh' \in [Block -> JournalHead] /\ revoke' \subseteq Block
        /\ freedBy' \in [Block -> 0..MaxTid]
        /\ disk' \in [Block -> SUBSET Content] /\ wrote' \in [Block -> Content]
    BY <1>0, <1>2 DEF JournalTypeOK
  <2> QED
    BY <1>0, <1>5, <1>6, <2>1, TypeStill
<1>8. \A a \in Block : a # b => Same(a)
  BY <1>2, <1>5 DEF Same
<1>10. BlockOK(b)'
  <2>1. LastDurable' = LastDurable /\ (InWork' <=> InWork) /\ \A t : InLog(t)' = InLog(t)
    BY <1>6, StillLog
  <2>2. Kept(b)' /\ Pinned(b)'
    BY <1>0, <1>2, <1>4, <1>5, <1>6, KeptStill, PinnedStill DEF BlockOK
  <2>3. Wants(b)'
    BY <1>0, <1>1, <1>2, <1>3, <1>4, <1>5, <2>1, WorkHasTid
       DEF BlockOK, Wants, Base, Became, OnDisk
  <2>4. Frees(b)'
    BY <1>0, <1>1, <1>2, <1>3, <1>4, <1>5, <2>1, WorkHasTid, UnusedIsNoContent
       DEF BlockOK, Frees, Base
  <2>5. NoTx(b)' /\ InRunning(b)' /\ InCommitting(b)'
    BY <1>0, <1>1, <1>2, <1>3, <1>4, <1>5, UnusedIsNoContent
       DEF BlockOK, NoTx, InRunning, InCommitting
  <2>6. Placed(b)' /\ Recorded(b)'
    BY <1>0, <1>2, <1>4, <1>5, <2>1, WorkHasTid DEF BlockOK, Placed, Recorded
  <2>7. DataWritten(b)'
    BY <1>0, <1>2, <1>4, <1>5, MinusIsNotUnused, WorkHasTid DEF BlockOK, DataWritten
  <2> QED
    BY <2>2, <2>3, <2>4, <2>5, <2>6, <2>7 DEF BlockOK
<1> QED
  BY <1>6, <1>7, <1>8, <1>10, LocalStep

LEMMA CreateMetadataHolds ==
  ASSUME JournalIInv, NEW b \in Block, CreateMetadata(b)
  PROVE  JournalIInv'
<1>0. JournalTypeOK /\ BlockOK(b)
  BY DEF JournalIInv
<1>1. /\ open /\ Reusable(b) /\ Makes(b, running) /\ want.run[b] = Unused /\ freedBy[b] = NoTid
      /\ revoke' = revoke \ {b}
  BY DEF CreateMetadata, Reusable
<1>2. UNCHANGED <<running, open, nextTid, committing, stage, revoking, newTail,
                  freedBy, checkpoints, tail, slots, disk, wrote, mounted>>
  BY DEF CreateMetadata, tranVars, commitVars, logVars, devVars
<1>3. /\ running # NoTid /\ running # committing /\ running \in 0..MaxTid
      /\ running \in Content /\ running # Unused /\ running \in MetaC
  BY <1>1, Distinct DEF MetaC, Content, NoTid, Unused
<1>4. want.com[b] = Unused /\ want.dur[b] = Unused /\ b \notin revoke /\ jh[b].tx = NoTid
  BY <1>1, FreeIsFree
<1> DEFINE s == [jh[b] EXCEPT !.dirty = FALSE, !.modified = FALSE]
<1> DEFINE f == File(s, running, "reserved")
<1> DEFINE r == Dirtied(f)
<1>a. jh' = [jh EXCEPT ![b] = r]
  BY <1>4 DEF CreateMetadata
<1>b. /\ s \in JournalHead /\ s.next = jh[b].next /\ s.freed = jh[b].freed
      /\ s.frozen = jh[b].frozen /\ s.cp = jh[b].cp
  BY <1>0, HeadTyped DEF JournalHead
<1> HIDE DEF s
<1>c. /\ f \in JournalHead /\ f.next = jh[b].next /\ f.freed = jh[b].freed
      /\ f.frozen = jh[b].frozen /\ f.cp = jh[b].cp /\ f.tx = running
  <2>1. "reserved" \in Lists
    BY DEF Lists
  <2> QED
    BY <1>3, <1>b, <2>1, FileIs
<1> HIDE DEF f
<1>d. /\ r \in JournalHead /\ r.next = jh[b].next /\ r.freed = jh[b].freed
      /\ r.frozen = jh[b].frozen /\ r.cp = jh[b].cp /\ r.tx = running /\ r.data = running
      /\ r.list = "metadata" /\ r.jbddirty /\ r.modified /\ ~r.dirty
  BY <1>3, <1>c, DirtiedIs
<1> HIDE DEF r
<1>e. /\ jh' \in [Block -> JournalHead] /\ jh'[b] = r /\ \A a \in Block : a # b => jh'[a] = jh[a]
  BY <1>0, <1>a, <1>d, OneHead
<1>f. jh[b].next = NoTid /\ ~jh[b].freed /\ jh[b].frozen = Unfrozen
  BY <1>0, <1>4 DEF BlockOK, NoTx
<1>5. /\ want' \in [run : Made, com : Made, dur : Made]
      /\ want'.dur = want.dur /\ want'.run[b] = running
      /\ committing = NoTid => want'.com[b] = running
      /\ committing # NoTid => want'.com[b] = want.com[b]
      /\ \A a \in Block : a # b => want'.run[a] = want.run[a] /\ want'.com[a] = want.com[a]
  BY <1>0, <1>1, <1>3, MakesIs
<1>6. Still
  BY <1>2 DEF Still
<1>7. JournalTypeOK'
  <2>1. revoke' \subseteq Block /\ freedBy' \in [Block -> 0..MaxTid]
        /\ disk' \in [Block -> SUBSET Content] /\ wrote' \in [Block -> Content]
    BY <1>0, <1>1, <1>2 DEF JournalTypeOK
  <2> QED
    BY <1>0, <1>5, <1>6, <1>e, <2>1, TypeStill
<1>8. \A a \in Block : a # b => Same(a)
  BY <1>1, <1>2, <1>5, <1>e DEF Same
<1>10. BlockOK(b)'
  <2>1. LastDurable' = LastDurable /\ (InWork' <=> InWork) /\ \A t : InLog(t)' = InLog(t)
    BY <1>6, StillLog
  <2>2. Kept(b)' /\ Pinned(b)'
    BY <1>0, <1>2, <1>4, <1>5, <1>6, KeptStill, PinnedStill DEF BlockOK
  <2>3. Wants(b)'
    BY <1>0, <1>1, <1>2, <1>3, <1>4, <1>5, <2>1, WorkHasTid
       DEF BlockOK, Wants, Base, Became, OnDisk
  <2>4. Frees(b)'
    BY <1>0, <1>1, <1>2, <1>3, <1>4, <1>5, <2>1, WorkHasTid, UnusedIsNoContent
       DEF BlockOK, Frees, Base
  <2>5. NoTx(b)' /\ InRunning(b)' /\ InCommitting(b)'
    BY <1>2, <1>3, <1>5, <1>d, <1>e, <1>f DEF NoTx, InRunning, InCommitting
  <2>6. Placed(b)'
    BY <1>0, <1>2, <1>3, <1>4, <1>5, <1>d, <1>e, <2>1, WorkHasTid, UnusedIsNoContent
       DEF BlockOK, Placed
  <2>7. Recorded(b)'
    BY <1>0, <1>2, <1>4, <1>5, <2>1, WorkHasTid, UnusedIsNoContent DEF BlockOK, Recorded
  <2>8. DataWritten(b)'
    BY <1>0, <1>2, <1>4, <1>5, MinusIsNotUnused, WorkHasTid DEF BlockOK, DataWritten
  <2> QED
    BY <2>2, <2>3, <2>4, <2>5, <2>6, <2>7, <2>8 DEF BlockOK
<1> QED
  BY <1>6, <1>7, <1>8, <1>10, LocalStep

(* Metadata that a handle may change was not freed and not revoked.         *)
LEMMA MetaIsLive ==
  ASSUME JournalIInv, NEW b \in Block, want.run[b] \in 0..MaxTid
  PROVE  /\ want.run[b] \in MetaC /\ want.run[b] # Unused /\ freedBy[b] = NoTid /\ b \notin revoke
         /\ Base(b) \in MetaC \cup {Unused}
         /\ jh[b].tx \in {NoTid, running, committing}
         /\ jh[b].tx = committing /\ committing # NoTid => want.com[b] \in MetaC
<1>0. JournalTypeOK /\ BlockOK(b)
  BY DEF JournalIInv
<1>1. want.run[b] \in MetaC /\ want.run[b] # Unused
  BY UnusedIsNoContent DEF MetaC
<1>2. freedBy[b] = NoTid /\ b \notin revoke
  BY <1>0, <1>1, Distinct DEF BlockOK, Frees
<1>3. running \in MetaC /\ (running # NoTid => -running \notin MetaC)
  BY Distinct DEF MetaC, NoTid
<1>4. Base(b) \in MetaC \cup {Unused}
  BY <1>0, <1>1, <1>3 DEF BlockOK, Wants, Became
<1>5. jh[b].tx \in {NoTid, running, committing}
  BY <1>0 DEF BlockOK, Placed
<1>6. jh[b].tx = committing /\ committing # NoTid => want.com[b] \in MetaC
  BY <1>0, <1>2 DEF BlockOK, InCommitting
<1> QED
  BY <1>1, <1>2, <1>4, <1>5, <1>6

(* The copy that commits is frozen before the running transaction may       *)
(* change the buffer.                                                       *)
LEMMA GetWriteAccessHolds ==
  ASSUME JournalIInv, NEW b \in Block, GetWriteAccess(b)
  PROVE  JournalIInv'
<1>0. JournalTypeOK /\ BlockOK(b)
  BY DEF JournalIInv
<1> DEFINE r == Granted(jh[b])
<1>1. /\ open /\ want.run[b] \in 0..MaxTid /\ revoke' = revoke \ {b} /\ jh' = [jh EXCEPT ![b] = r]
      /\ jh[b].list = "shadow" => jh[b].frozen # Unfrozen \/ running \in {jh[b].tx, jh[b].next}
  BY DEF GetWriteAccess
<1>2. UNCHANGED <<running, open, nextTid, committing, stage, revoking, newTail,
                  freedBy, checkpoints, tail, slots, disk, wrote, want, mounted>>
  BY DEF GetWriteAccess, tranVars, commitVars, logVars, devVars
<1>3. running # NoTid /\ running # committing /\ running \in 0..MaxTid
  BY <1>1, Distinct
<1>4. /\ want.run[b] \in MetaC /\ want.run[b] # Unused /\ freedBy[b] = NoTid /\ b \notin revoke
      /\ jh[b].tx \in {NoTid, running, committing}
      /\ jh[b].tx = committing /\ committing # NoTid => want.com[b] \in MetaC
  BY <1>1, MetaIsLive
<1>5. r \in JournalHead /\ r.data = jh[b].data /\ r.cp = jh[b].cp
  BY <1>0, <1>3, HeadTyped, GrantedIs
<1>6. /\ jh' \in [Block -> JournalHead] /\ jh'[b] = r /\ \A a \in Block : a # b => jh'[a] = jh[a]
  BY <1>0, <1>1, <1>5, OneHead
<1>7. Still
  BY <1>2 DEF Still
<1>8. JournalTypeOK'
  <2>1. /\ revoke' \subseteq Block /\ freedBy' \in [Block -> 0..MaxTid]
        /\ disk' \in [Block -> SUBSET Content] /\ wrote' \in [Block -> Content]
        /\ want' \in [run : Made, com : Made, dur : Made]
    BY <1>0, <1>1, <1>2 DEF JournalTypeOK
  <2> QED
    BY <1>0, <1>6, <1>7, <2>1, TypeStill
<1>9. \A a \in Block : a # b => Same(a)
  BY <1>1, <1>2, <1>6 DEF Same
<1>10. LastDurable' = LastDurable /\ (InWork' <=> InWork) /\ \A t : InLog(t)' = InLog(t)
  BY <1>7, StillLog
<1>11. b \notin revoke'
  BY <1>1
<1>12. Wants(b)' /\ Frees(b)' /\ DataWritten(b)'
  BY <1>0, <1>2, <1>4, <1>10, <1>11
     DEF BlockOK, Wants, Frees, DataWritten, Base, Became, OnDisk
<1>13. CASE running \in {jh[b].tx, jh[b].next}
  <2>1. r = jh[b]
    BY <1>0, <1>3, <1>13, HeadTyped, GrantedIs
  <2>2. Same(b)
    BY <1>2, <1>4, <1>6, <1>11, <2>1 DEF Same
  <2> QED
    BY <1>0, <1>7, <1>8, <1>9, <2>2, SameBlock, LocalStep
<1>14. CASE running \notin {jh[b].tx, jh[b].next} /\ jh[b].tx = NoTid
  <2>1. /\ r.tx = running /\ r.next = jh[b].next /\ r.list = "reserved"
        /\ r.frozen = jh[b].frozen /\ ~r.dirty /\ r.freed = jh[b].freed
        /\ (r.jbddirty <=> (jh[b].dirty \/ jh[b].jbddirty))
    BY <1>0, <1>3, <1>14, HeadTyped, GrantedIs
  <2> HIDE DEF r
  <2>2. Kept(b)' /\ Pinned(b)'
    BY <1>0, <1>2, <1>5, <1>6, <1>7, <1>14, WorkHasTid, KeptStill, PinnedKept DEF BlockOK
  <2>3. NoTx(b)' /\ InRunning(b)' /\ InCommitting(b)'
    BY <1>0, <1>2, <1>3, <1>4, <1>5, <1>6, <1>14, <2>1
       DEF BlockOK, NoTx, InRunning, InCommitting
  <2>4. Placed(b)' /\ Recorded(b)'
    BY <1>0, <1>2, <1>3, <1>4, <1>5, <1>6, <1>10, <1>14, <2>1, WorkHasTid
       DEF BlockOK, Placed, Recorded, NoTx
  <2>5. BlockOK(b)'
    BY <1>0, <1>12, <2>2, <2>3, <2>4 DEF BlockOK
  <2> QED
    BY <1>7, <1>8, <1>9, <2>5, LocalStep
<1>15. CASE running \notin {jh[b].tx, jh[b].next} /\ jh[b].tx # NoTid
  <2>1. /\ r.tx = jh[b].tx /\ r.next = running /\ r.list = jh[b].list /\ ~r.modified
        /\ r.frozen = (IF jh[b].list = "metadata" /\ jh[b].frozen = Unfrozen
                       THEN jh[b].data ELSE jh[b].frozen)
        /\ r.dirty = jh[b].dirty /\ r.freed = jh[b].freed /\ r.jbddirty = jh[b].jbddirty
    BY <1>0, <1>3, <1>15, HeadTyped, GrantedIs
  <2> HIDE DEF r
  <2>0. jh[b].tx = committing /\ committing # NoTid /\ want.com[b] \in MetaC
    BY <1>4, <1>15
  <2>2. Kept(b)' /\ Pinned(b)'
    BY <1>0, <1>2, <1>5, <1>6, <1>7, <2>1, KeptStill, PinnedStill DEF BlockOK
  <2>3. NoTx(b)' /\ InRunning(b)'
    BY <1>2, <1>3, <1>6, <2>0, <2>1 DEF NoTx, InRunning
  <2>4. jh[b].next = NoTid /\ ~jh[b].freed /\ want.run[b] = want.com[b]
        /\ jh[b].data = want.com[b] /\ jh[b].data # Unfrozen
    <3>1. jh[b].data \in Content
      BY <1>0, HeadTyped
    <3> QED
      BY <1>0, <1>15, <2>0, <3>1, UnusedIsNoContent
         DEF BlockOK, InCommitting, Unfrozen, Unused
  <2>5. InCommitting(b)'
    BY <1>0, <1>1, <1>2, <1>3, <1>4, <1>5, <1>6, <1>10, <1>15, <2>0, <2>1, <2>4, UnusedIsNoContent
       DEF BlockOK, InCommitting
  <2>6. Placed(b)' /\ Recorded(b)'
    BY <1>0, <1>2, <1>5, <1>6, <1>10, <2>1 DEF BlockOK, Placed, Recorded
  <2>7. BlockOK(b)'
    BY <1>0, <1>12, <2>2, <2>3, <2>5, <2>6 DEF BlockOK
  <2> QED
    BY <1>7, <1>8, <1>9, <2>7, LocalStep
<1> QED
  BY <1>13, <1>14, <1>15

LEMMA DirtyMetadataHolds ==
  ASSUME JournalIInv, NEW b \in Block, DirtyMetadata(b)
  PROVE  JournalIInv'
<1>0. JournalTypeOK /\ BlockOK(b)
  BY DEF JournalIInv
<1> DEFINE r == Dirtied(jh[b])
<1>1. /\ open /\ want.run[b] \in 0..MaxTid /\ running \in {jh[b].tx, jh[b].next}
      /\ jh' = [jh EXCEPT ![b] = r] /\ Makes(b, running)
  BY DEF DirtyMetadata
<1>2. UNCHANGED <<running, open, nextTid, committing, stage, revoking, newTail, revoke,
                  freedBy, checkpoints, tail, slots, disk, wrote, mounted>>
  BY DEF DirtyMetadata, tranVars, commitVars, logVars, devVars
<1>3. /\ running # NoTid /\ running # committing /\ running \in 0..MaxTid
      /\ running \in Content /\ running # Unused /\ running \in MetaC
  BY <1>1, Distinct DEF MetaC, Content, NoTid, Unused
<1>4. /\ want.run[b] \in MetaC /\ want.run[b] # Unused /\ freedBy[b] = NoTid /\ b \notin revoke
      /\ Base(b) \in MetaC \cup {Unused} /\ jh[b].tx \in {NoTid, running, committing}
      /\ jh[b].tx = committing /\ committing # NoTid => want.com[b] \in MetaC
  BY <1>1, MetaIsLive
<1>5. /\ r \in JournalHead /\ r.next = jh[b].next /\ r.freed = jh[b].freed
      /\ r.frozen = jh[b].frozen /\ r.cp = jh[b].cp /\ r.tx = jh[b].tx /\ r.data = running
      /\ r.jbddirty /\ r.modified
      /\ jh[b].tx = running => r.list = "metadata" /\ ~r.dirty
      /\ jh[b].tx # running => r.list = jh[b].list /\ r.dirty = jh[b].dirty
  BY <1>0, <1>3, HeadTyped, DirtiedIs
<1> HIDE DEF r
<1>6. /\ jh' \in [Block -> JournalHead] /\ jh'[b] = r /\ \A a \in Block : a # b => jh'[a] = jh[a]
  BY <1>0, <1>1, <1>5, OneHead
<1>7. /\ want' \in [run : Made, com : Made, dur : Made]
      /\ want'.dur = want.dur /\ want'.run[b] = running
      /\ committing = NoTid => want'.com[b] = running
      /\ committing # NoTid => want'.com[b] = want.com[b]
      /\ \A a \in Block : a # b => want'.run[a] = want.run[a] /\ want'.com[a] = want.com[a]
  BY <1>0, <1>1, <1>3, MakesIs
<1>8. Still
  BY <1>2 DEF Still
<1>9. JournalTypeOK'
  <2>1. /\ revoke' \subseteq Block /\ freedBy' \in [Block -> 0..MaxTid]
        /\ disk' \in [Block -> SUBSET Content] /\ wrote' \in [Block -> Content]
    BY <1>0, <1>2 DEF JournalTypeOK
  <2> QED
    BY <1>0, <1>6, <1>7, <1>8, <2>1, TypeStill
<1>10. \A a \in Block : a # b => Same(a)
  BY <1>2, <1>6, <1>7 DEF Same
<1>11. LastDurable' = LastDurable /\ (InWork' <=> InWork) /\ \A t : InLog(t)' = InLog(t)
  BY <1>8, StillLog
<1>12. Kept(b)' /\ Pinned(b)'
  BY <1>0, <1>2, <1>5, <1>6, <1>7, <1>8, KeptStill, PinnedStill DEF BlockOK
<1>13. Wants(b)'
  <2>1. Base(b)' \in MetaC \cup {Unused}
    BY <1>2, <1>4, <1>7 DEF Base
  <2>2. Became(Base(b)', running, running)
    BY <1>3, <2>1 DEF Became
  <2> QED
    BY <1>0, <1>2, <1>7, <1>11, <2>2, WorkHasTid DEF BlockOK, Wants, Became, OnDisk
<1>14. Frees(b)'
  BY <1>0, <1>2, <1>3, <1>4, <1>7, <1>11, WorkHasTid, UnusedIsNoContent
     DEF BlockOK, Frees, Base
<1>15. jh[b].tx = running => jh[b].list \in {"reserved", "metadata"} /\ ~jh[b].freed
  BY <1>0, <1>3, <1>4 DEF BlockOK, InRunning
<1>16. NoTx(b)'
  <2>1. jh[b].tx # NoTid
    BY <1>0, <1>1, <1>3 DEF BlockOK, NoTx
  <2> QED
    BY <1>5, <1>6, <2>1 DEF NoTx
<1>17. InRunning(b)'
  BY <1>0, <1>2, <1>3, <1>5, <1>6, <1>7, <1>15 DEF BlockOK, InRunning
<1>18. InCommitting(b)'
  <2>1. CASE jh[b].tx = committing /\ committing # NoTid
    <3>1. jh[b].next = running /\ want.com[b] \in MetaC
      BY <1>1, <1>3, <1>4, <2>1
    <3> QED
      BY <1>0, <1>2, <1>3, <1>4, <1>5, <1>6, <1>7, <1>11, <2>1, <3>1, UnusedIsNoContent
         DEF BlockOK, InCommitting
  <2>2. CASE ~(jh[b].tx = committing /\ committing # NoTid)
    BY <1>2, <1>5, <1>6, <2>2 DEF InCommitting
  <2> QED
    BY <2>1, <2>2
<1>19. Placed(b)' /\ Recorded(b)'
  BY <1>0, <1>2, <1>5, <1>6, <1>7, <1>11, WorkHasTid DEF BlockOK, Placed, Recorded
<1>20. DataWritten(b)'
  BY <1>0, <1>2, <1>7, WorkHasTid DEF BlockOK, DataWritten
<1>21. BlockOK(b)'
  BY <1>12, <1>13, <1>14, <1>16, <1>17, <1>18, <1>19, <1>20 DEF BlockOK
<1> QED
  BY <1>8, <1>9, <1>10, <1>21, LocalStep

(* A freed buffer keeps its place on the checkpoint list until the          *)
(* transaction that frees it has committed.                                 *)
LEMMA FreeMetadataHolds ==
  ASSUME JournalIInv, NEW b \in Block, FreeMetadata(b)
  PROVE  JournalIInv'
<1>0. JournalTypeOK /\ BlockOK(b)
  BY DEF JournalIInv
<1> DEFINE r == Forgotten(jh[b])
<1>1. /\ open /\ want.run[b] \in 0..MaxTid /\ jh' = [jh EXCEPT ![b] = r]
      /\ checkpoints' = StillListed(jh') /\ revoke' = revoke \cup {b}
      /\ freedBy' = [freedBy EXCEPT ![b] = running] /\ Makes(b, Unused)
  BY DEF FreeMetadata
<1>2. UNCHANGED <<running, open, nextTid, committing, stage, revoking, newTail,
                  tail, slots, disk, wrote, mounted>>
  BY DEF FreeMetadata, tranVars, commitVars, logVars, devVars
<1>3. running # NoTid /\ running # committing /\ running \in 1..MaxTid /\ running \in MetaC
  BY <1>1, Distinct DEF MetaC
<1>4. /\ want.run[b] \in MetaC /\ want.run[b] # Unused /\ freedBy[b] = NoTid /\ b \notin revoke
      /\ jh[b].tx \in {NoTid, running, committing}
      /\ jh[b].tx = committing /\ committing # NoTid => want.com[b] \in MetaC
  BY <1>1, MetaIsLive
<1>a. jh[b] \in JournalHead
  BY <1>0, HeadTyped
<1>5. r \in JournalHead /\ ~r.modified /\ r.frozen = jh[b].frozen /\ r.data = jh[b].data
  BY <1>3, <1>a, ForgottenIs
<1>6. jh[b].tx = running =>
        /\ r.next = jh[b].next /\ r.freed = jh[b].freed /\ ~r.dirty /\ ~r.jbddirty
        /\ r.cp = jh[b].cp
        /\ r.tx = IF jh[b].cp # NoTid THEN running ELSE NoTid
        /\ r.list = IF jh[b].cp # NoTid THEN "forget" ELSE "none"
  BY <1>3, <1>a, ForgottenIs
<1>7. jh[b].tx # running /\ jh[b].tx # NoTid =>
        /\ r.tx = jh[b].tx /\ r.next = running /\ r.freed /\ r.list = jh[b].list
        /\ r.dirty = jh[b].dirty /\ r.jbddirty = jh[b].jbddirty /\ r.cp = jh[b].cp
  BY <1>3, <1>a, ForgottenIs
<1>8. jh[b].tx = NoTid =>
        /\ r.next = jh[b].next /\ r.freed = jh[b].freed
        /\ ~r.dirty /\ (r.jbddirty <=> jh[b].jbddirty)
        /\ jh[b].cp = NoTid => r.tx = NoTid /\ r.list = jh[b].list /\ r.cp = NoTid
        /\ jh[b].cp # NoTid /\ ~jh[b].dirty =>
             r.tx = NoTid /\ r.list = jh[b].list /\ r.cp = NoTid
        /\ jh[b].cp # NoTid /\ jh[b].dirty =>
             r.tx = running /\ r.list = "forget" /\ r.cp = jh[b].cp
  BY <1>3, <1>a, ForgottenIs
<1> HIDE DEF r
<1>9. /\ jh' \in [Block -> JournalHead] /\ jh'[b] = r /\ \A a \in Block : a # b => jh'[a] = jh[a]
  BY <1>0, <1>1, <1>5, OneHead
<1>10. /\ want' \in [run : Made, com : Made, dur : Made]
       /\ want'.dur = want.dur /\ want'.run[b] = Unused
       /\ committing = NoTid => want'.com[b] = Unused
       /\ committing # NoTid => want'.com[b] = want.com[b]
       /\ \A a \in Block : a # b => want'.run[a] = want.run[a] /\ want'.com[a] = want.com[a]
  BY <1>0, <1>1, MakesIs
<1>11. checkpoints' \subseteq checkpoints
       /\ \A a \in Block : jh'[a].cp \in checkpoints => jh'[a].cp \in checkpoints'
  BY <1>1, StillListedIs
<1>12. Still
  BY <1>2, <1>11 DEF Still
<1>13. JournalTypeOK' /\ freedBy'[b] = running
       /\ \A a \in Block : a # b => freedBy'[a] = freedBy[a]
  <2>1. revoke' \subseteq Block /\ disk' \in [Block -> SUBSET Content] /\ wrote' \in [Block -> Content]
    BY <1>0, <1>1, <1>2 DEF JournalTypeOK
  <2>2. /\ freedBy' \in [Block -> 0..MaxTid] /\ freedBy'[b] = running
        /\ \A a \in Block : a # b => freedBy'[a] = freedBy[a]
    BY <1>0, <1>1 DEF JournalTypeOK
  <2> QED
    BY <1>0, <1>9, <1>10, <1>12, <2>1, <2>2, TypeStill
<1>14. \A a \in Block : a # b => Same(a)
  BY <1>1, <1>2, <1>9, <1>10, <1>11, <1>13 DEF Same
<1>15. LastDurable' = LastDurable /\ (InWork' <=> InWork) /\ \A t : InLog(t)' = InLog(t)
  BY <1>12, StillLog
<1>16. jh[b].cp = NoTid /\ jh[b].tx # committing /\ want.dur[b] # Unused => wrote[b] = want.dur[b]
  BY <1>0, WorkHasTid DEF BlockOK, Pinned
<1>17. jh[b].tx = NoTid /\ ~jh[b].dirty /\ want.dur[b] # Unused => wrote[b] = want.dur[b]
  BY <1>0 DEF BlockOK, NoTx
<1>18. Kept(b)'
  BY <1>0, <1>2, <1>10, <1>12, KeptStill DEF BlockOK
<1>19. Pinned(b)'
  <2>1. CASE jh[b].tx = committing /\ committing # NoTid
    BY <1>0, <1>2, <1>3, <1>7, <1>9, <1>10, <1>12, <2>1, PinnedStill DEF BlockOK
  <2>2. CASE jh[b].tx = running
    BY <1>0, <1>2, <1>3, <1>6, <1>9, <1>10, <1>12, <2>2, PinnedKept DEF BlockOK
  <2>3. CASE jh[b].tx = NoTid
    <3>1. CASE jh[b].cp # NoTid /\ jh[b].dirty
      <4>1. jh[b].tx # committing \/ stage \notin OnDisk
        BY <2>3, WorkHasTid
      <4> QED
        BY <1>0, <1>2, <1>8, <1>9, <1>10, <1>12, <2>3, <3>1, <4>1, PinnedKept DEF BlockOK
    <3>2. CASE ~(jh[b].cp # NoTid /\ jh[b].dirty)
      <4>1. want.dur[b] # Unused => wrote[b] = want.dur[b]
        BY <1>0, <1>17, <2>3, <3>2, WorkHasTid DEF BlockOK, Pinned
      <4> QED
        BY <1>0, <1>2, <1>10, <1>12, <4>1, PinnedStill DEF BlockOK
    <3> QED
      BY <3>1, <3>2
  <2> QED
    BY <1>4, <2>1, <2>2, <2>3
<1>20. Wants(b)'
  BY <1>0, <1>2, <1>3, <1>10, <1>15, WorkHasTid DEF BlockOK, Wants, Base, Became, OnDisk
<1>21. Frees(b)'
  BY <1>0, <1>1, <1>2, <1>3, <1>4, <1>10, <1>13, <1>15, WorkHasTid, UnusedIsNoContent
     DEF BlockOK, Frees, Base
<1>22. NoTx(b)'
  <2>1. CASE jh[b].tx = committing /\ committing # NoTid
    BY <1>3, <1>7, <1>9, <2>1 DEF NoTx
  <2>2. CASE jh[b].tx = running
    <3>1. jh[b].next = NoTid /\ jh[b].frozen = Unfrozen /\ ~jh[b].freed
      BY <1>0, <1>3, <1>4, <2>2 DEF BlockOK, InRunning
    <3> QED
      BY <1>2, <1>3, <1>5, <1>6, <1>9, <1>10, <1>16, <2>2, <3>1, UnusedIsNoContent
         DEF NoTx
  <2>3. CASE jh[b].tx = NoTid
    <3>1. want.dur[b] # Unused /\ ~(jh[b].cp # NoTid /\ jh[b].dirty) => wrote[b] = want.dur[b]
      BY <1>0, <1>17, <2>3, WorkHasTid DEF BlockOK, Pinned
    <3> QED
      BY <1>0, <1>2, <1>3, <1>5, <1>8, <1>9, <1>10, <2>3, <3>1, UnusedIsNoContent
         DEF BlockOK, NoTx
  <2> QED
    BY <1>4, <2>1, <2>2, <2>3
<1>23. InRunning(b)'
  <2>1. CASE jh[b].tx = committing /\ committing # NoTid
    BY <1>2, <1>3, <1>7, <1>9, <2>1 DEF InRunning
  <2>2. CASE jh[b].tx = running
    BY <1>0, <1>2, <1>3, <1>4, <1>5, <1>6, <1>9, <1>10, <1>13, <2>2 DEF BlockOK, InRunning
  <2>3. CASE jh[b].tx = NoTid
    BY <1>0, <1>2, <1>3, <1>5, <1>8, <1>9, <1>10, <1>13, <2>3 DEF BlockOK, InRunning, NoTx
  <2> QED
    BY <1>4, <2>1, <2>2, <2>3
<1>24. InCommitting(b)'
  <2>1. CASE jh[b].tx = committing /\ committing # NoTid
    BY <1>0, <1>2, <1>3, <1>4, <1>5, <1>7, <1>9, <1>10, <1>13, <1>15, <2>1, UnusedIsNoContent
       DEF BlockOK, InCommitting
  <2>2. CASE jh[b].tx = running
    BY <1>2, <1>3, <1>6, <1>9, <2>2 DEF InCommitting
  <2>3. CASE jh[b].tx = NoTid
    BY <1>2, <1>3, <1>8, <1>9, <2>3 DEF InCommitting
  <2> QED
    BY <1>4, <2>1, <2>2, <2>3
<1>25. Placed(b)'
  <2>1. jh'[b].tx # NoTid => jh'[b].tx \in {running, committing} /\ ~jh'[b].dirty
    BY <1>0, <1>3, <1>4, <1>6, <1>7, <1>8, <1>9 DEF BlockOK, Placed
  <2>2. InWork /\ want'.com[b] # want'.dur[b] /\ want'.com[b] \in MetaC => jh'[b].tx = committing
    BY <1>0, <1>3, <1>7, <1>9, <1>10, WorkHasTid DEF BlockOK, Placed
  <2>3. jh'[b].cp # NoTid => jh'[b].cp = jh[b].cp
    BY <1>4, <1>6, <1>7, <1>8, <1>9
  <2> QED
    BY <1>0, <1>2, <1>11, <1>15, <2>1, <2>2, <2>3 DEF BlockOK, Placed
<1>26. Recorded(b)'
  BY <1>0, <1>2, <1>3, <1>7, <1>9, <1>10, <1>15, WorkHasTid DEF BlockOK, Recorded
<1>27. DataWritten(b)'
  BY <1>0, <1>2, <1>10, WorkHasTid DEF BlockOK, DataWritten
<1>28. BlockOK(b)'
  BY <1>18, <1>19, <1>20, <1>21, <1>22, <1>23, <1>24, <1>25, <1>26, <1>27 DEF BlockOK
<1> QED
  BY <1>12, <1>13, <1>14, <1>28, LocalStep

(* A committed buffer on the forget list has its copy in the log.           *)
LEMMA CopyOfCommit ==
  ASSUME JournalIInv, NEW b \in Block, stage \in OnDisk, jh[b].tx = committing,
         want.com[b] \in MetaC
  PROVE  committing \in Copies(b, tail.tid, LastDurable) /\ jh[b].jbddirty
<1>0. JournalTypeOK /\ BlockOK(b) /\ Tids
  BY DEF JournalIInv
<1>1. committing # NoTid /\ committing \in 0..MaxTid
  BY WorkHasTid, Distinct
<1>2. LastDurable = committing /\ tail.tid <= committing /\ tail.tid \in Int
  BY <1>0, <1>1 DEF LastDurable, Tids, JournalTypeOK
<1>3. /\ jh[b].jbddirty /\ b \in DOMAIN InLog(committing).blocks
      /\ b \notin InLog(committing).revokes
  BY <1>0, <1>1 DEF BlockOK, InCommitting, OnDisk
<1> QED
  BY <1>1, <1>2, <1>3 DEF Copies

(* A buffer changes its checkpoint list only once the newer copy is         *)
(* durable.                                                                 *)
LEMMA CommitForgetHolds ==
  ASSUME JournalIInv, NEW b \in Block, CommitForget(b)
  PROVE  JournalIInv'
<1>0. JournalTypeOK /\ BlockOK(b)
  BY DEF JournalIInv
<1> DEFINE r == Released(jh[b])
<1>1. /\ stage = "forget" /\ jh[b].tx = committing /\ jh' = [jh EXCEPT ![b] = r]
      /\ checkpoints' = StillListed(jh')
  BY DEF CommitForget
<1>2. UNCHANGED <<running, open, nextTid, committing, stage, revoking, newTail, revoke, freedBy,
                  tail, slots, disk, wrote, want, mounted>>
  BY DEF CommitForget, tranVars, commitVars, logVars, devVars
<1>3. /\ committing # NoTid /\ running # committing /\ committing \in 0..MaxTid
      /\ stage \in OnDisk /\ ~InWork
  BY <1>1, Distinct DEF OnDisk, InWork
<1>4. want.dur[b] = want.com[b]
  BY <1>0, <1>3 DEF BlockOK, Wants
<1>a. jh[b] \in JournalHead
  BY <1>0, HeadTyped
<1>5. /\ r \in JournalHead /\ r.data = jh[b].data /\ r.tx = jh[b].next /\ r.next = NoTid
      /\ r.modified = jh[b].modified /\ r.frozen = Unfrozen
      /\ (r.freed <=> (jh[b].freed /\ jh[b].next # NoTid))
      /\ r.cp = IF jh[b].jbddirty /\ ~(jh[b].freed /\ jh[b].next = NoTid)
                THEN committing ELSE NoTid
  BY <1>3, <1>a, ReleasedIs
<1>6. jh[b].next = NoTid =>
        /\ r.list = "none" /\ ~r.jbddirty
        /\ (r.dirty <=> (jh[b].dirty \/ (jh[b].jbddirty /\ ~jh[b].freed)))
  BY <1>3, <1>a, ReleasedIs
<1>7. jh[b].next # NoTid =>
        /\ r.list = IF jh[b].freed THEN "forget"
                    ELSE IF jh[b].modified THEN "metadata" ELSE "reserved"
        /\ r.dirty = jh[b].dirty /\ r.jbddirty = jh[b].jbddirty
  BY <1>3, <1>a, ReleasedIs
<1> HIDE DEF r
<1>9. /\ jh' \in [Block -> JournalHead] /\ jh'[b] = r /\ \A a \in Block : a # b => jh'[a] = jh[a]
  BY <1>0, <1>1, <1>5, OneHead
<1>11. checkpoints' \subseteq checkpoints
       /\ \A a \in Block : jh'[a].cp \in checkpoints => jh'[a].cp \in checkpoints'
  BY <1>1, StillListedIs
<1>12. Still
  BY <1>2, <1>11 DEF Still
<1>13. JournalTypeOK'
  <2>1. /\ revoke' \subseteq Block /\ freedBy' \in [Block -> 0..MaxTid]
        /\ disk' \in [Block -> SUBSET Content] /\ wrote' \in [Block -> Content]
        /\ want' \in [run : Made, com : Made, dur : Made]
    BY <1>0, <1>2 DEF JournalTypeOK
  <2> QED
    BY <1>0, <1>9, <1>12, <2>1, TypeStill
<1>14. \A a \in Block : a # b => Same(a)
  BY <1>2, <1>9, <1>11 DEF Same
<1>15. LastDurable' = LastDurable /\ (InWork' <=> InWork) /\ \A t : InLog(t)' = InLog(t)
  BY <1>12, StillLog
<1>16. /\ jh[b].next \in {NoTid, running} /\ jh[b].list = "forget" /\ ~jh[b].dirty
       /\ want.com[b] \in MetaC \/ want.com[b] = Unused
  BY <1>0, <1>1, <1>3 DEF BlockOK, InCommitting, Placed
<1>17. want.com[b] = Unused =>
         /\ jh[b].next = NoTid /\ (~jh[b].freed => ~jh[b].jbddirty)
         /\ want.run[b] = Unused
  BY <1>0, <1>1, <1>3 DEF BlockOK, InCommitting, Frees
<1>18. want.com[b] \in MetaC =>
         /\ jh[b].jbddirty
         /\ jh[b].next = NoTid =>
              want.run[b] = want.com[b] /\ jh[b].data = want.com[b] /\ ~jh[b].freed
  BY <1>0, <1>1, <1>3 DEF BlockOK, InCommitting
<1>19. Kept(b)'
  BY <1>0, <1>2, <1>12, KeptStill DEF BlockOK
<1>20. Pinned(b)'
  <2>1. CASE want.com[b] \in MetaC
    <3>1. r.cp = committing
      BY <1>5, <1>18, <2>1
    <3>2. committing \in Copies(b, tail.tid, LastDurable)
      BY <1>1, <1>3, <2>1, CopyOfCommit
    <3>3. Copies(b, tail.tid, LastDurable)' = Copies(b, tail.tid, LastDurable)
      BY <1>2, <1>15 DEF Copies
    <3>4. committing <= committing
      BY <1>3
    <3> QED
      BY <1>3, <1>9, <3>1, <3>2, <3>3, <3>4 DEF Pinned
  <2>2. CASE want.com[b] = Unused
    BY <1>2, <1>4, <2>2 DEF Pinned
  <2> QED
    BY <1>16, <2>1, <2>2
<1>21. Wants(b)' /\ Frees(b)' /\ Recorded(b)' /\ DataWritten(b)'
  BY <1>0, <1>1, <1>2, <1>15
     DEF BlockOK, Wants, Frees, Recorded, DataWritten, Base, Became, OnDisk
<1>22. NoTx(b)'
  <2>1. CASE jh[b].next = NoTid
    BY <1>2, <1>4, <1>5, <1>6, <1>9, <1>16, <1>17, <1>18, <2>1, UnusedIsNoContent DEF NoTx
  <2>2. CASE jh[b].next # NoTid
    BY <1>5, <1>9, <2>2 DEF NoTx
  <2> QED
    BY <2>1, <2>2
<1>23. InRunning(b)'
  <2>1. CASE jh[b].next = NoTid
    BY <1>5, <1>9, <2>1 DEF InRunning
  <2>2. CASE jh[b].next # NoTid
    <3>1. /\ want.com[b] \in MetaC /\ jh[b].next = running /\ running # NoTid
          /\ jh[b].jbddirty
      BY <1>16, <1>17, <1>18, <2>2
    <3>2. jh[b].freed => want.run[b] = Unused /\ freedBy[b] = running
      BY <1>0, <1>1, <1>3, <2>2 DEF BlockOK, InCommitting
    <3>3. ~jh[b].freed =>
            /\ want.run[b] \in MetaC /\ jh[b].data = want.run[b]
            /\ want.run[b] = IF jh[b].modified THEN running ELSE want.com[b]
      BY <1>0, <1>1, <1>3, <2>2 DEF BlockOK, InCommitting
    <3> QED
      BY <1>2, <1>4, <1>5, <1>7, <1>9, <2>2, <3>1, <3>2, <3>3 DEF InRunning
  <2> QED
    BY <2>1, <2>2
<1>24. InCommitting(b)'
  BY <1>2, <1>3, <1>5, <1>9, <1>16 DEF InCommitting
<1>25. Placed(b)'
  <2>1. jh'[b].tx # NoTid => jh'[b].tx \in {running, committing} /\ ~jh'[b].dirty
    BY <1>5, <1>7, <1>9, <1>16
  <2> QED
    BY <1>1, <1>2, <1>3, <1>5, <1>9, <1>15, <2>1 DEF Placed
<1>28. BlockOK(b)'
  BY <1>19, <1>20, <1>21, <1>22, <1>23, <1>24, <1>25 DEF BlockOK
<1> QED
  BY <1>12, <1>13, <1>14, <1>28, LocalStep

-----------------------------------------------------------------------------
(* The actions that move the transactions.                                  *)

LEMMA StopHandleHolds ==
  ASSUME JournalIInv, StopHandle
  PROVE  JournalIInv'
<1>0. JournalTypeOK /\ Tids /\ LogHolds /\ \A b \in Block : BlockOK(b)
  BY DEF JournalIInv
<1>1. open' = FALSE /\
      UNCHANGED <<jh, running, nextTid, committing, stage, revoking, newTail, revoke, freedBy,
                  checkpoints, tail, slots, disk, wrote, want, mounted>>
  BY DEF StopHandle, commitVars, logVars, devVars
<1>2. Still
  BY <1>1 DEF Still
<1>3. JournalTypeOK'
  BY <1>0, <1>1 DEF JournalTypeOK
<1>4. Tids' /\ LogHolds'
  BY <1>0, <1>2, StillTids
<1>5. ASSUME NEW b \in Block PROVE BlockOK(b)'
  <2>1. Same(b)
    BY <1>1 DEF Same
  <2> QED
    BY <1>0, <1>2, <2>1, SameBlock
<1> QED
  BY <1>3, <1>4, <1>5 DEF JournalIInv

LEMMA SameLog ==
  ASSUME UNCHANGED <<tail, slots>>
  PROVE  \A t : InLog(t)' = InLog(t)
BY DEF InLog, SlotOf

(* A transaction starts only where the log has room for it.                 *)
LEMMA StartHandleHolds ==
  ASSUME JournalIInv, StartHandle
  PROVE  JournalIInv'
<1>0. JournalTypeOK /\ Tids /\ LogHolds /\ \A b \in Block : BlockOK(b)
  BY DEF JournalIInv
<1>1. /\ mounted /\ ~open /\ stage # "locked" /\ SpaceLeft >= 1 /\ open' = TRUE
      /\ IF running # NoTid THEN UNCHANGED <<running, nextTid>>
         ELSE nextTid <= MaxTid /\ running' = nextTid /\ nextTid' = nextTid + 1
  BY DEF StartHandle
<1>2. UNCHANGED <<jh, committing, stage, revoking, newTail, revoke, freedBy,
                  checkpoints, tail, slots, disk, wrote, want, mounted>>
  BY DEF StartHandle, commitVars, logVars, devVars
<1>3. /\ nextTid \in 1..MaxTid + 1 /\ running \in 0..MaxTid /\ committing \in 0..MaxTid
      /\ tail.tid \in 1..MaxTid + 1 /\ LogSlots \in Nat /\ MaxTid \in Nat
  BY <1>0 DEF JournalTypeOK
<1>4. running # NoTid => running' = running /\ nextTid' = nextTid
  BY <1>1
<1>5. running = NoTid =>
        /\ nextTid <= MaxTid /\ running' = nextTid /\ nextTid' = nextTid + 1
        /\ nextTid - tail.tid < LogSlots
  BY <1>1, <1>3 DEF SpaceLeft
<1>6. JournalTypeOK'
  <2>1. running' \in 0..MaxTid /\ nextTid' \in 1..MaxTid + 1
    BY <1>3, <1>4, <1>5
  <2> QED
    BY <1>0, <1>1, <1>2, <2>1 DEF JournalTypeOK
<1>7. LastDurable' = LastDurable
  <2>1. CASE running # NoTid
    BY <1>2, <1>4, <2>1 DEF LastDurable, OnDisk
  <2>2. CASE running = NoTid
    BY <1>1, <1>2, <1>3, <1>5, <2>2 DEF LastDurable, OnDisk, NoTid
  <2> QED
    BY <2>1, <2>2
<1>8. \A t : InLog(t)' = InLog(t)
  BY <1>2, SameLog
<1>9. Tids'
  <2>1. CASE running # NoTid
    BY <1>0, <1>2, <1>4, <1>7, <2>1 DEF Tids
  <2>2. CASE running = NoTid
    <3>1. running' # NoTid /\ running' = nextTid' - 1 /\ nextTid' - 1 - tail.tid < LogSlots
      BY <1>3, <1>5, <2>2 DEF NoTid
    <3>2. committing # NoTid => committing = nextTid' - 2
      BY <1>0, <1>3, <1>5, <2>2 DEF Tids
    <3> QED
      BY <1>0, <1>1, <1>2, <1>7, <3>1, <3>2 DEF Tids
  <2> QED
    BY <2>1, <2>2
<1>10. LogHolds'
  BY <1>0, <1>2, <1>7, <1>8 DEF LogHolds
<1>11. ASSUME NEW b \in Block PROVE BlockOK(b)'
  <2>0. BlockOK(b)
    BY <1>0
  <2>1. InWork' <=> InWork
    BY <1>2 DEF InWork
  <2>2. /\ Copies(b, tail.tid, LastDurable)' = Copies(b, tail.tid, LastDurable)
        /\ Copies(b, newTail, LastDurable)' = Copies(b, newTail, LastDurable)
    BY <1>2, <1>7, <1>8 DEF Copies
  <2>3. Recorded(b)' /\ DataWritten(b)' /\ Kept(b)' /\ Pinned(b)'
    BY <1>2, <1>7, <1>8, <2>0, <2>2
       DEF BlockOK, Recorded, DataWritten, Kept, Restores, Pinned, OnDisk
  <2>4. CASE running # NoTid
    BY <1>2, <1>4, <1>8, <2>0, <2>1, <2>3, <2>4
       DEF BlockOK, Wants, Frees, NoTx, InRunning, InCommitting, Placed, Base, Became, OnDisk
  <2>5. CASE running = NoTid
    <3>1. running' # NoTid /\ (committing # NoTid => running' # committing)
      BY <1>0, <1>3, <1>5, <2>5 DEF Tids, NoTid
    <3>2. want.run[b] = Base(b) /\ b \notin revoke /\ freedBy[b] \in {NoTid, committing}
          /\ (jh[b].tx # NoTid => jh[b].tx = committing)
      BY <2>0, <2>5 DEF BlockOK, Wants, Frees, Placed, Became
    <3>3. Wants(b)'
      BY <1>2, <2>0, <2>1, <3>2 DEF BlockOK, Wants, Base, Became, OnDisk
    <3>4. Frees(b)'
      BY <1>2, <2>0, <2>1, <3>2 DEF BlockOK, Frees, Base
    <3>5. NoTx(b)' /\ InRunning(b)' /\ Placed(b)'
      BY <1>2, <2>0, <2>1, <3>1, <3>2 DEF BlockOK, NoTx, InRunning, Placed
    <3>6. InCommitting(b)'
      BY <1>2, <1>8, <2>0, <2>5, <3>1 DEF BlockOK, InCommitting
    <3> QED
      BY <2>3, <3>3, <3>4, <3>5, <3>6 DEF BlockOK
  <2> QED
    BY <2>4, <2>5
<1> QED
  BY <1>6, <1>9, <1>10, <1>11 DEF JournalIInv

LEMMA CommitLockHolds ==
  ASSUME JournalIInv, CommitLock
  PROVE  JournalIInv'
<1>0. JournalTypeOK /\ Tids /\ LogHolds /\ \A b \in Block : BlockOK(b)
  BY DEF JournalIInv
<1>1. running # NoTid /\ stage = "none" /\ stage' = "locked"
  BY DEF CommitLock
<1>2. UNCHANGED <<jh, running, open, nextTid, committing, revoking, newTail, revoke, freedBy,
                  checkpoints, tail, slots, disk, wrote, want, mounted>>
  BY DEF CommitLock, tranVars, logVars, devVars
<1>3. committing = NoTid
  BY <1>0, <1>1 DEF Tids
<1>4. JournalTypeOK'
  BY <1>0, <1>1, <1>2 DEF JournalTypeOK
<1>5. LastDurable' = LastDurable /\ \A t : InLog(t)' = InLog(t)
  BY <1>2, <1>3, SameLog DEF LastDurable
<1>6. Tids'
  BY <1>0, <1>1, <1>2, <1>3, <1>5 DEF Tids
<1>7. LogHolds'
  BY <1>0, <1>1, <1>2, <1>5 DEF LogHolds
<1>8. ASSUME NEW b \in Block PROVE BlockOK(b)'
  <2>0. BlockOK(b)
    BY <1>0
  <2>1. ~InWork' /\ ~InWork /\ stage \notin OnDisk /\ stage' \notin OnDisk
    BY <1>1 DEF InWork, OnDisk
  <2>2. Copies(b, tail.tid, LastDurable)' = Copies(b, tail.tid, LastDurable)
    BY <1>2, <1>5 DEF Copies
  <2>3. Recorded(b)' /\ DataWritten(b)' /\ Kept(b)'
    BY <1>1, <1>2, <1>5, <2>0, <2>2 DEF BlockOK, Recorded, DataWritten, Kept, Restores
  <2>4. Pinned(b)'
    BY <1>2, <2>0, <2>1, <2>2 DEF BlockOK, Pinned
  <2>5. Wants(b)' /\ Frees(b)'
    BY <1>2, <1>3, <2>0, <2>1 DEF BlockOK, Wants, Frees, Base, Became
  <2>6. NoTx(b)' /\ InRunning(b)' /\ InCommitting(b)' /\ Placed(b)'
    BY <1>1, <1>2, <1>3, <2>0, <2>1 DEF BlockOK, NoTx, InRunning, InCommitting, Placed
  <2> QED
    BY <2>3, <2>4, <2>5, <2>6 DEF BlockOK
<1> QED
  BY <1>4, <1>6, <1>7, <1>8 DEF JournalIInv

(* What the switch does to a buffer: a reserved one is filed back, a clean  *)
(* one may leave its checkpoint list, the others stay.                      *)
LEMMA SwitchHeads ==
  ASSUME JournalIInv, CommitSwitch
  PROVE  /\ jh' \in [Block -> JournalHead]
         /\ \A b \in Block :
              \/ /\ jh[b].list = "reserved" /\ jh[b].tx = running /\ running # NoTid
                 /\ jh'[b] = Refile(jh[b])
              \/ /\ jh[b].tx = NoTid /\ ~jh[b].dirty
                 /\ jh'[b] = [jh[b] EXCEPT !.cp = NoTid]
              \/ jh[b].list # "reserved" /\ jh'[b] = jh[b]
<1>0. JournalTypeOK /\ \A b \in Block : BlockOK(b)
  BY DEF JournalIInv
<1> DEFINE left == [b \in Block |-> IF jh[b].list = "reserved" THEN Refile(jh[b]) ELSE jh[b]]
<1>1. PICK bs \in SUBSET {b \in Block : Removable(b)} : jh' = Dropped(left, bs)
  BY DEF CommitSwitch
<1>2. committing = NoTid
  BY DEF CommitSwitch, JournalIInv, Tids
<1>3. ASSUME NEW b \in Block
      PROVE  /\ jh'[b] \in JournalHead
             /\ \/ /\ jh[b].list = "reserved" /\ jh[b].tx = running /\ running # NoTid
                   /\ jh'[b] = Refile(jh[b])
                \/ /\ jh[b].tx = NoTid /\ ~jh[b].dirty
                   /\ jh'[b] = [jh[b] EXCEPT !.cp = NoTid]
                \/ jh[b].list # "reserved" /\ jh'[b] = jh[b]
  <2>0. BlockOK(b) /\ jh[b] \in JournalHead
    BY <1>0, HeadTyped
  <2>1. left[b] = IF jh[b].list = "reserved" THEN Refile(jh[b]) ELSE jh[b]
    OBVIOUS
  <2> HIDE DEF left
  <2>2. jh'[b] = IF b \in bs THEN [left[b] EXCEPT !.cp = NoTid] ELSE left[b]
    BY <1>1 DEF Dropped
  <2>3. CASE b \in bs
    <3>1. jh[b].tx = NoTid /\ ~jh[b].dirty
      BY <1>1, <2>3 DEF Removable
    <3>2. jh[b].list # "reserved"
      BY <2>0, <3>1 DEF BlockOK, NoTx
    <3>3. jh'[b] = [jh[b] EXCEPT !.cp = NoTid]
      BY <2>1, <2>2, <2>3, <3>2
    <3>4. jh'[b] \in JournalHead
      BY <2>0, <3>3, NoTidTyped DEF JournalHead
    <3> QED
      BY <3>1, <3>3, <3>4
  <2>4. CASE b \notin bs
    <3>1. CASE jh[b].list = "reserved"
      <4>1. jh[b].tx = running /\ running # NoTid
        BY <1>2, <2>0, <3>1 DEF BlockOK, NoTx, Placed
      <4>2. jh'[b] = Refile(jh[b])
        BY <2>1, <2>2, <2>4, <3>1
      <4>3. jh'[b] \in JournalHead
        BY <2>0, <4>2, RefileIs
      <4> QED
        BY <3>1, <4>1, <4>2, <4>3
    <3>2. CASE jh[b].list # "reserved"
      BY <2>0, <2>1, <2>2, <2>4, <3>2
    <3> QED
      BY <3>1, <3>2
  <2> QED
    BY <2>3, <2>4
<1>4. jh' \in [Block -> JournalHead]
  <2>1. jh' = [b \in Block |-> jh'[b]]
    BY <1>1 DEF Dropped
  <2> QED
    BY <1>3, <2>1
<1> QED
  BY <1>3, <1>4

(* The transaction that ran becomes the one that commits.                   *)
LEMMA CommitSwitchHolds ==
  ASSUME JournalIInv, CommitSwitch
  PROVE  JournalIInv'
<1>0. JournalTypeOK /\ Tids /\ LogHolds /\ \A b \in Block : BlockOK(b)
  BY DEF JournalIInv
<1>1. /\ stage = "locked" /\ ~open /\ stage' = "flush" /\ checkpoints' = StillListed(jh')
      /\ revoking' = revoke /\ revoke' = {} /\ committing' = running /\ running' = NoTid
      /\ want' = [want EXCEPT !.com = want.run]
  BY DEF CommitSwitch
<1>2. UNCHANGED <<open, nextTid, newTail, freedBy, tail, slots, disk, wrote, mounted>>
  BY DEF CommitSwitch, logVars, devVars
<1>3. /\ committing = NoTid /\ running # NoTid /\ running \in 0..MaxTid
      /\ running = nextTid - 1 /\ nextTid \in 1..MaxTid + 1 /\ mounted
  BY <1>0, <1>1 DEF Tids, JournalTypeOK
<1>4. checkpoints' \subseteq checkpoints
      /\ \A a \in Block : jh'[a].cp \in checkpoints => jh'[a].cp \in checkpoints'
  BY <1>1, StillListedIs
<1>5. jh' \in [Block -> JournalHead]
  BY SwitchHeads
<1>6. /\ want' \in [run : Made, com : Made, dur : Made]
      /\ want'.run = want.run /\ want'.com = want.run /\ want'.dur = want.dur
  <2>1. want \in [run : Made, com : Made, dur : Made]
    BY <1>0 DEF JournalTypeOK
  <2> QED
    BY <1>1, <2>1
<1>7. JournalTypeOK'
  <2>1. committing' \in 0..MaxTid /\ running' \in 0..MaxTid /\ checkpoints' \subseteq Tid
        /\ revoke' \subseteq Block /\ revoking' \subseteq Block
    BY <1>0, <1>1, <1>3, <1>4, NoTidTyped DEF JournalTypeOK
  <2> QED
    BY <1>0, <1>1, <1>2, <1>5, <1>6, <2>1 DEF JournalTypeOK
<1>8. LastDurable' = LastDurable /\ LastDurable = running - 1 /\ \A t : InLog(t)' = InLog(t)
  <2>1. LastDurable = running - 1
    BY <1>3 DEF LastDurable
  <2>2. LastDurable' = running - 1
    BY <1>1, <1>3 DEF LastDurable, OnDisk
  <2> QED
    BY <1>2, <2>1, <2>2, SameLog
<1>9. Tids'
  <2>1. tail.tid \in Int /\ checkpoints \subseteq Tid
    BY <1>0 DEF JournalTypeOK
  <2>2. tail.tid <= running /\ \A t \in checkpoints : t < running
    BY <1>0, <1>3, <1>8, <2>1 DEF Tids, Tid
  <2>3. \A t \in checkpoints' : t < running
    BY <1>4, <2>2
  <2> QED
    BY <1>0, <1>1, <1>2, <1>3, <1>4, <1>8, <2>2, <2>3 DEF Tids
<1>10. LogHolds'
  BY <1>0, <1>1, <1>2, <1>8 DEF LogHolds
<1>11. ASSUME NEW b \in Block PROVE BlockOK(b)'
  <2>0. BlockOK(b) /\ jh[b] \in JournalHead
    BY <1>0, HeadTyped
  <2>1. /\ ~InWork /\ InWork' /\ stage \notin OnDisk /\ stage' \notin OnDisk
        /\ committing' # NoTid
    BY <1>1, <1>3 DEF InWork, OnDisk
  <2>2. Copies(b, tail.tid, LastDurable)' = Copies(b, tail.tid, LastDurable)
    BY <1>2, <1>8 DEF Copies
  <2>3. want.com[b] = want.run[b] /\ Became(want.dur[b], want.run[b], running)
    BY <1>3, <2>0 DEF BlockOK, Wants, Base
  <2>4. Wants(b)'
    BY <1>1, <1>3, <1>6, <2>1, <2>3 DEF Wants, Base, Became
  <2>5. Frees(b)'
    BY <1>1, <1>2, <1>3, <1>6, <2>0, <2>1, UnusedIsNoContent DEF BlockOK, Frees, Base
  <2>6. Recorded(b)' /\ DataWritten(b)' /\ Kept(b)'
    BY <1>1, <1>2, <1>6, <1>8, <2>0, <2>2
       DEF BlockOK, Recorded, DataWritten, Kept, Restores
  <2>7. InRunning(b)'
    BY <1>1 DEF InRunning
  <2>a. want.dur[b] # Unused /\ wrote[b] # want.dur[b] =>
          jh[b].cp # NoTid /\ \E t \in Copies(b, tail.tid, LastDurable) : jh[b].cp <= t
    BY <2>0, <2>1 DEF BlockOK, Pinned
  <2>b. jh[b].cp # NoTid => jh[b].cp \in checkpoints
    BY <1>1, <2>0 DEF BlockOK, Placed
  <2>8. CASE jh[b].list = "reserved" /\ jh[b].tx = running /\ running # NoTid
             /\ jh'[b] = Refile(jh[b])
    <3>1. /\ jh[b].next = NoTid /\ jh[b].frozen = Unfrozen /\ want.run[b] \in MetaC
          /\ jh[b].data = want.run[b] /\ want.com[b] = want.run[b]
          /\ want.dur[b] = want.run[b] /\ ~jh[b].freed
          /\ jh[b].jbddirty \/ wrote[b] = want.dur[b]
      BY <2>0, <2>8 DEF BlockOK, InRunning
    <3>2. /\ jh'[b].tx = NoTid /\ jh'[b].next = NoTid /\ jh'[b].list = "none"
          /\ jh'[b].data = jh[b].data /\ jh'[b].freed = jh[b].freed /\ jh'[b].cp = jh[b].cp
          /\ jh'[b].frozen = jh[b].frozen /\ ~jh'[b].jbddirty
          /\ (jh'[b].dirty <=> (jh[b].dirty \/ jh[b].jbddirty))
      BY <2>0, <2>8, <3>1, RefileIs
    <3>3. NoTx(b)'
      BY <1>2, <1>6, <3>1, <3>2 DEF NoTx
    <3>4. InCommitting(b)'
      BY <3>2 DEF InCommitting
    <3>5. Placed(b)'
      BY <1>4, <1>6, <2>b, <3>1, <3>2 DEF Placed
    <3>6. Pinned(b)'
      BY <1>2, <1>6, <2>2, <2>a, <3>2 DEF Pinned
    <3> QED
      BY <2>4, <2>5, <2>6, <2>7, <3>3, <3>4, <3>5, <3>6 DEF BlockOK
  <2>9. CASE jh[b].tx = NoTid /\ ~jh[b].dirty /\ jh'[b] = [jh[b] EXCEPT !.cp = NoTid]
    <3>1. /\ jh'[b].data = jh[b].data /\ jh'[b].tx = jh[b].tx /\ jh'[b].next = jh[b].next
          /\ jh'[b].list = jh[b].list /\ jh'[b].modified = jh[b].modified
          /\ jh'[b].jbddirty = jh[b].jbddirty /\ jh'[b].freed = jh[b].freed
          /\ jh'[b].frozen = jh[b].frozen /\ jh'[b].cp = NoTid /\ jh'[b].dirty = jh[b].dirty
      BY <2>0, <2>9 DEF JournalHead
    <3>3. NoTx(b)'
      BY <1>2, <1>6, <2>0, <2>9, <3>1 DEF BlockOK, NoTx
    <3>4. InCommitting(b)'
      BY <2>9, <3>1 DEF InCommitting
    <3>5. Placed(b)'
      BY <1>6, <2>0, <2>3, <2>9, <3>1 DEF BlockOK, NoTx, Placed
    <3>6. Pinned(b)'
      BY <1>2, <1>6, <2>0, <2>9 DEF BlockOK, NoTx, Pinned
    <3> QED
      BY <2>4, <2>5, <2>6, <2>7, <3>3, <3>4, <3>5, <3>6 DEF BlockOK
  <2>10. CASE jh[b].list # "reserved" /\ jh'[b] = jh[b]
    <3>1. jh[b].tx # NoTid => jh[b].tx = running /\ ~jh[b].dirty
      BY <1>3, <2>0 DEF BlockOK, Placed
    <3>3. NoTx(b)'
      BY <1>2, <1>6, <2>0, <2>10 DEF BlockOK, NoTx
    <3>2. running \in MetaC
      BY <1>3 DEF MetaC
    <3>4. InCommitting(b)'
      BY <1>1, <1>2, <1>3, <1>6, <2>0, <2>10, <3>2, UnusedIsNoContent
         DEF BlockOK, InRunning, InCommitting
    <3>5. Placed(b)'
      <4>1. want.run[b] # want.dur[b] /\ want.run[b] \in MetaC => jh[b].tx = running
        BY <2>0, <3>1 DEF BlockOK, NoTx
      <4> QED
        BY <1>1, <1>4, <1>6, <2>10, <2>b, <3>1, <4>1 DEF Placed
    <3>6. Pinned(b)'
      BY <1>2, <1>6, <2>2, <2>10, <2>a DEF Pinned
    <3> QED
      BY <2>4, <2>5, <2>6, <2>7, <3>3, <3>4, <3>5, <3>6 DEF BlockOK
  <2> QED
    BY <2>8, <2>9, <2>10, SwitchHeads
<1> QED
  BY <1>7, <1>9, <1>10, <1>11 DEF JournalIInv

LEMMA CommitDataHolds ==
  ASSUME JournalIInv, CommitData
  PROVE  JournalIInv'
<1>0. JournalTypeOK /\ Tids /\ LogHolds /\ \A b \in Block : BlockOK(b)
  BY DEF JournalIInv
<1>1. /\ stage = "flush" /\ stage' = "write"
      /\ wrote' = [b \in Block |-> IF want.com[b] = -committing THEN -committing ELSE wrote[b]]
      /\ disk' = [b \in Block |-> disk[b] \cup {wrote'[b]}]
  BY DEF CommitData
<1>2. UNCHANGED <<jh, running, open, nextTid, committing, revoking, newTail, revoke, freedBy,
                  checkpoints, tail, slots, want, mounted>>
  BY DEF CommitData, tranVars, logVars
<1>3. committing # NoTid /\ committing \in 0..MaxTid /\ -committing \in Content
  BY <1>1, Distinct DEF Content
<1>4. JournalTypeOK'
  <2>1. wrote' \in [Block -> Content]
    BY <1>0, <1>1, <1>3 DEF JournalTypeOK
  <2>2. disk' \in [Block -> SUBSET Content]
    BY <1>0, <1>1, <2>1 DEF JournalTypeOK
  <2> QED
    BY <1>0, <1>1, <1>2, <2>1, <2>2 DEF JournalTypeOK
<1>5. LastDurable' = LastDurable /\ \A t : InLog(t)' = InLog(t)
  BY <1>1, <1>2, SameLog DEF LastDurable, OnDisk
<1>6. Tids'
  BY <1>0, <1>1, <1>2, <1>5 DEF Tids
<1>7. LogHolds'
  BY <1>0, <1>1, <1>2, <1>5 DEF LogHolds
<1>8. ASSUME NEW b \in Block PROVE BlockOK(b)'
  <2>0. BlockOK(b)
    BY <1>0
  <2>1. InWork' /\ InWork /\ stage \notin OnDisk /\ stage' \notin OnDisk
    BY <1>1 DEF InWork, OnDisk
  <2>2. Copies(b, tail.tid, LastDurable)' = Copies(b, tail.tid, LastDurable)
    BY <1>2, <1>5 DEF Copies
  <2>3. /\ want.com[b] = -committing => wrote'[b] = -committing
        /\ want.com[b] # -committing => wrote'[b] = wrote[b]
        /\ disk'[b] = disk[b] \cup {wrote'[b]}
    BY <1>1
  <2>4. want.com[b] = -committing =>
          want.com[b] \notin MetaC /\ want.com[b] # Unused
          /\ (want.dur[b] = want.com[b] \/ want.dur[b] = Unused)
    <3>1. -committing \notin MetaC /\ -committing # Unused /\ -committing # committing
      BY <1>3 DEF MetaC, Unused, NoTid
    <3>2. Became(want.dur[b], want.com[b], committing)
      BY <2>0, <2>1 DEF BlockOK, Wants
    <3> QED
      BY <3>1, <3>2 DEF Became
  <2>5. want.dur[b] # Unused => wrote'[b] = want.dur[b] \/ wrote'[b] = wrote[b]
    BY <2>3, <2>4
  <2>6. wrote[b] \in disk[b] /\ disk[b] = {want.dur[b]} /\ want.dur[b] # Unused =>
          disk'[b] = {want.dur[b]}
    BY <2>3, <2>5
  <2>7. DataWritten(b)'
    BY <1>1, <1>2, <2>3 DEF DataWritten
  <2>8. Kept(b)'
    BY <1>1, <1>2, <1>5, <2>0, <2>2, <2>6 DEF BlockOK, Kept, Restores, DataWritten
  <2>9. Pinned(b)'
    BY <1>2, <2>0, <2>1, <2>2, <2>5 DEF BlockOK, Pinned
  <2>10. Wants(b)' /\ Frees(b)' /\ Recorded(b)' /\ Placed(b)'
    BY <1>1, <1>2, <2>0, <2>1 DEF BlockOK, Wants, Frees, Base, Became, Recorded, Placed
  <2>11. NoTx(b)'
    BY <1>2, <2>0, <2>5 DEF BlockOK, NoTx
  <2>12. InRunning(b)'
    BY <1>2, <2>0, <2>3, <2>4 DEF BlockOK, InRunning
  <2>13. InCommitting(b)'
    BY <1>1, <1>2, <1>5, <2>0 DEF BlockOK, InCommitting
  <2> QED
    BY <2>7, <2>8, <2>9, <2>10, <2>11, <2>12, <2>13 DEF BlockOK
<1> QED
  BY <1>4, <1>6, <1>7, <1>8 DEF JournalIInv

-----------------------------------------------------------------------------
(* The tail, and the actions that write to the log.                         *)

(* A nonempty set of naturals has a least element.                          *)
LEMMA LeastOf ==
  ASSUME NEW S \in SUBSET Nat, S # {}
  PROVE  \E x \in S : \A y \in S : x <= y
<1> DEFINE R == OpToRel(<, Nat)
<1>1. \A x, y \in Nat : x < y => <<x, y>> \in R
  BY DEF OpToRel
<1> HIDE DEF R
<1>2. S \subseteq Nat /\ IsWellFoundedOn(R, Nat)
  BY NatLessThanWellFounded DEF R
<1>3. \E x \in S : \A y \in S : ~ (<<y, x>> \in R)
  BY ONLY <1>2, S # {}, WFMin, Zenon
<1>4. PICK x \in S : \A y \in S : ~ (<<y, x>> \in R)
  BY <1>3
<1>5. \A y \in S : ~ (y < x)
  BY <1>1, <1>2, <1>4, Zenon
<1>6. \A y \in S : x <= y
  BY <1>5
<1> QED
  BY <1>6

(* And a greatest one, if it is bounded.                                    *)
LEMMA GreatestOf ==
  ASSUME NEW S \in SUBSET Nat, S # {}, NEW N \in Nat, \A x \in S : x <= N
  PROVE  \E x \in S : \A y \in S : y <= x
<1> DEFINE T == {N - x : x \in S}
<1>1. T \in SUBSET Nat /\ T # {}
  <2>1. \A x \in S : N - x \in Nat
    OBVIOUS
  <2> QED
    BY <2>1
<1>2. PICK t \in T : \A u \in T : t <= u
  BY <1>1, LeastOf
<1>3. PICK x \in S : t = N - x
  OBVIOUS
<1>4. \A y \in S : N - x <= N - y
  BY <1>2, <1>3
<1>5. \A y \in S : y <= x
  BY <1>4
<1> QED
  BY <1>5

(* The tail that jbd3_journal_get_log_tail finds lies behind every          *)
(* transaction that still has something to write.                           *)
LEMMA LogTailIs ==
  ASSUME JournalIInv
  PROVE  /\ LogTail \in 1..MaxTid + 1
         /\ \A t \in checkpoints : LogTail <= t
         /\ committing # NoTid => LogTail <= committing
         /\ mounted => LogTail <= LastDurable + 1
<1>0. JournalTypeOK /\ Tids
  BY DEF JournalIInv
<1>1. /\ checkpoints \subseteq Tid /\ committing \in 0..MaxTid /\ running \in 0..MaxTid
      /\ nextTid \in 1..MaxTid + 1 /\ tail.tid \in 1..MaxTid + 1
  BY <1>0 DEF JournalTypeOK
<1>2. CASE checkpoints # {}
  <2>1. checkpoints \in SUBSET Nat
    BY <1>1 DEF Tid
  <2>2. \E t \in checkpoints : \A u \in checkpoints : t <= u
    BY <1>2, <2>1, LeastOf
  <2>3. LogTail \in checkpoints /\ \A u \in checkpoints : LogTail <= u
    BY <1>2, <2>2 DEF LogTail
  <2>4. LogTail \in 1..MaxTid
    BY <1>1, <2>3 DEF Tid
  <2>5. committing # NoTid => LogTail <= committing
    BY <1>0, <1>1, <2>3, <2>4 DEF Tids
  <2>6. LogTail <= LastDurable + 1
    <3>1. LastDurable \in Int
      BY <1>1 DEF LastDurable
    <3>2. LogTail \in tail.tid..LastDurable
      BY <1>0, <2>3 DEF Tids
    <3> QED
      BY <1>1, <2>4, <3>1, <3>2
  <2> QED
    BY <2>3, <2>4, <2>5, <2>6
<1>3. CASE checkpoints = {}
  <2>1. CASE committing # NoTid
    <3>1. LogTail = committing
      BY <1>3, <2>1 DEF LogTail
    <3>2. LogTail <= LastDurable + 1
      BY <1>1, <2>1, <3>1 DEF LastDurable
    <3> QED
      BY <1>1, <1>3, <2>1, <3>1, <3>2 DEF NoTid
  <2>2. CASE committing = NoTid /\ running # NoTid
    <3>1. LogTail = running
      BY <1>3, <2>2 DEF LogTail
    <3>2. LogTail <= LastDurable + 1
      BY <1>1, <2>2, <3>1 DEF LastDurable
    <3> QED
      BY <1>1, <1>3, <2>2, <3>1, <3>2 DEF NoTid
  <2>3. CASE committing = NoTid /\ running = NoTid
    <3>1. LogTail = nextTid
      BY <1>3, <2>3 DEF LogTail
    <3>2. mounted => LogTail <= LastDurable + 1
      BY <1>1, <2>3, <3>1 DEF LastDurable
    <3> QED
      BY <1>1, <1>3, <2>3, <3>1, <3>2
  <2> QED
    BY <2>1, <2>2, <2>3
<1> QED
  BY <1>2, <1>3

(* A tail that passes no checkpointed transaction loses no copy that is     *)
(* needed: what is dropped is superseded in the log, or was written in      *)
(* place.                                                                   *)
LEMMA FlushedFrom ==
  ASSUME JournalIInv, NEW b \in Block, want.dur[b] # Unused, NEW lo \in Int, tail.tid <= lo,
         \A t \in checkpoints : lo <= t, committing # NoTid => lo <= committing
  PROVE  /\ Copies(b, lo, LastDurable) = {} => wrote[b] = want.dur[b]
         /\ \A t \in Copies(b, lo, LastDurable) :
              (\A u \in Copies(b, lo, LastDurable) : u <= t) => InLog(t).blocks[b] = want.dur[b]
         /\ wrote[b] # want.dur[b] =>
              \/ jh[b].cp # NoTid /\ \E t \in Copies(b, lo, LastDurable) : jh[b].cp <= t
              \/ /\ stage \in OnDisk /\ jh[b].tx = committing
                 /\ committing \in Copies(b, lo, LastDurable)
<1>0. JournalTypeOK /\ BlockOK(b) /\ tail.tid \in Int /\ LastDurable \in Int /\ jh[b].cp \in Int
      /\ committing \in Int
  BY HeadTyped DEF JournalIInv, JournalTypeOK, LastDurable
<1>1. \A t : t \in Copies(b, lo, LastDurable)
               <=> t \in Copies(b, tail.tid, LastDurable) /\ t >= lo
  BY <1>0 DEF Copies
<1>2. \A t \in Copies(b, tail.tid, LastDurable) : t \in Int
  BY <1>0 DEF Copies
<1>3. ASSUME NEW t \in Copies(b, lo, LastDurable), \A u \in Copies(b, lo, LastDurable) : u <= t
      PROVE  InLog(t).blocks[b] = want.dur[b]
  <2>1. t \in Copies(b, tail.tid, LastDurable) /\ t >= lo
    BY <1>1
  <2>2. \A u \in Copies(b, tail.tid, LastDurable) : u <= t
    BY <1>1, <1>2, <1>3, <2>1
  <2> QED
    BY <1>0, <2>1, <2>2 DEF BlockOK, Kept, Restores
<1>4. ASSUME wrote[b] # want.dur[b]
      PROVE  \/ jh[b].cp # NoTid /\ \E t \in Copies(b, lo, LastDurable) : jh[b].cp <= t
             \/ /\ stage \in OnDisk /\ jh[b].tx = committing
                /\ committing \in Copies(b, lo, LastDurable)
  <2>1. CASE jh[b].cp # NoTid /\ \E t \in Copies(b, tail.tid, LastDurable) : jh[b].cp <= t
    <3>1. PICK t \in Copies(b, tail.tid, LastDurable) : jh[b].cp <= t
      BY <2>1
    <3>2. lo <= jh[b].cp
      BY <1>0, <2>1, WorkHasTid DEF BlockOK, Placed, OnDisk
    <3>3. t \in Copies(b, lo, LastDurable)
      BY <1>0, <1>1, <1>2, <3>1, <3>2
    <3> QED
      BY <2>1, <3>1, <3>3
  <2>2. CASE /\ stage \in OnDisk /\ jh[b].tx = committing
             /\ committing \in Copies(b, tail.tid, LastDurable)
    <3>1. lo <= committing
      BY <2>2, WorkHasTid
    <3> QED
      BY <1>0, <1>1, <2>2, <3>1
  <2> QED
    BY <1>0, <1>4, <2>1, <2>2 DEF BlockOK, Pinned
<1> QED
  BY <1>3, <1>4

(* Copies read the log alone.                                               *)
LEMMA CopiesSame ==
  ASSUME NEW b, NEW lo \in Int, NEW hi \in Int, \A t \in lo..hi : InLog(t)' = InLog(t)
  PROVE  {t \in lo..hi : /\ b \in DOMAIN InLog(t)'.blocks
                         /\ \A u \in t..hi : b \notin InLog(u)'.revokes} = Copies(b, lo, hi)
<1>1. ASSUME NEW t \in lo..hi
      PROVE  (\A u \in t..hi : b \notin InLog(u)'.revokes)
               <=> (\A u \in t..hi : b \notin InLog(u).revokes)
  <2>1. \A u \in t..hi : u \in lo..hi
    OBVIOUS
  <2> QED
    BY <2>1
<1> QED
  BY <1>1 DEF Copies

(* What CommitIO does to a buffer.                                          *)
LEMMA IOHeads ==
  ASSUME JournalIInv, CommitIO, NEW b \in Block
  PROVE  /\ jh'[b] \in JournalHead
         /\ jh'[b].data = jh[b].data /\ jh'[b].tx = jh[b].tx /\ jh'[b].next = jh[b].next
         /\ jh'[b].modified = jh[b].modified /\ jh'[b].freed = jh[b].freed
         /\ jh'[b].frozen = jh[b].frozen /\ jh'[b].cp = jh[b].cp
         /\ jh[b].list = "shadow" =>
              /\ jh[b].tx = committing /\ jh'[b].list = "forget" /\ jh'[b].jbddirty
              /\ ~jh'[b].dirty
         /\ jh[b].list # "shadow" => jh'[b] = jh[b]
<1>0. JournalTypeOK /\ BlockOK(b) /\ jh[b] \in JournalHead
  BY HeadTyped DEF JournalIInv
<1>1. committing \in 0..MaxTid /\ committing # NoTid /\ stage = "write"
  BY Distinct DEF CommitIO
<1>2. jh'[b] = IF jh[b].list = "shadow" THEN File(jh[b], committing, "forget") ELSE jh[b]
  BY DEF CommitIO
<1>3. CASE jh[b].list = "shadow"
  <2>1. jh[b].tx = committing
    BY <1>0, <1>3 DEF BlockOK, NoTx, InRunning, Placed
  <2>2. jh[b].jbddirty
    BY <1>0, <1>1, <1>3, <2>1 DEF BlockOK, InCommitting
  <2>3. "forget" \in Lists
    BY DEF Lists
  <2>4. jh'[b] = File(jh[b], committing, "forget")
    BY <1>2, <1>3
  <2>5. /\ jh'[b] \in JournalHead
        /\ jh'[b].data = jh[b].data /\ jh'[b].tx = committing /\ jh'[b].next = jh[b].next
        /\ jh'[b].modified = jh[b].modified /\ jh'[b].freed = jh[b].freed
        /\ jh'[b].frozen = jh[b].frozen /\ jh'[b].cp = jh[b].cp
        /\ jh'[b].list = "forget" /\ ~jh'[b].dirty
    BY <1>0, <1>1, <2>3, <2>4, FileIs
  <2>6. jh'[b].jbddirty <=> jh[b].dirty \/ jh[b].jbddirty
    BY <1>0, <1>1, <2>3, <2>4, FileIs
  <2> QED
    BY <1>3, <2>1, <2>2, <2>5, <2>6
<1>4. CASE jh[b].list # "shadow"
  BY <1>0, <1>2, <1>4
<1> QED
  BY <1>3, <1>4

(* And to the log: the cell of the transaction, not yet valid.              *)
LEMMA IOSlot ==
  ASSUME JournalIInv, CommitIO
  PROVE  /\ slots' \in [0..LogSlots - 1 -> LogCell]
         /\ InLog(committing)'.tid = NoTid /\ InLog(committing)'.revokes = revoking
         /\ DOMAIN InLog(committing)'.blocks = {b \in Block : jh[b].list = "shadow"}
         /\ \A b \in Block : jh[b].list = "shadow" =>
              InLog(committing)'.blocks[b] = IF jh[b].frozen # Unfrozen THEN jh[b].frozen
                                             ELSE jh[b].data
         /\ \A t \in Int : t # committing /\ t - committing < LogSlots /\ committing - t < LogSlots
              => InLog(t)' = InLog(t)
         /\ \A s \in 0..LogSlots - 1 : slots'[s] = slots[s] \/ slots'[s].tid = NoTid
<1>0. JournalTypeOK
  BY DEF JournalIInv
<1> DEFINE mine == {b \in Block : jh[b].list = "shadow"}
<1> DEFINE blocks == [b \in mine |-> IF jh[b].frozen # Unfrozen THEN jh[b].frozen ELSE jh[b].data]
<1> DEFINE cell == [tid |-> NoTid, revokes |-> revoking, blocks |-> blocks]
<1>1. UNCHANGED <<tail, committing>> /\ slots' = [slots EXCEPT ![SlotOf(committing)] = cell]
  BY DEF CommitIO
<1>2. \A b \in Block : (IF jh[b].frozen # Unfrozen THEN jh[b].frozen ELSE jh[b].data) \in Content
  BY <1>0 DEF JournalTypeOK, JournalHead
<1>3. mine \in SUBSET Block /\ blocks \in [mine -> Content]
  BY <1>2
<1>4. /\ DOMAIN blocks = mine
      /\ \A b \in mine : blocks[b] = IF jh[b].frozen # Unfrozen THEN jh[b].frozen ELSE jh[b].data
  OBVIOUS
<1>5. mine = {b \in Block : jh[b].list = "shadow"}
  OBVIOUS
<1> HIDE DEF mine, blocks
<1>6. cell \in LogCell
  <2>1. revoking \in SUBSET Block
    BY <1>0 DEF JournalTypeOK
  <2>2. blocks \in UNION {[bs -> Content] : bs \in SUBSET Block}
    BY <1>3
  <2> QED
    BY <2>1, <2>2, NoTidTyped DEF LogCell
<1>7. cell.tid = NoTid /\ cell.revokes = revoking /\ cell.blocks = blocks
  OBVIOUS
<1> HIDE DEF cell
<1>8. committing \in Int /\ SlotOf(committing) \in 0..LogSlots - 1
  <2>1. committing \in Int
    BY <1>0 DEF JournalTypeOK
  <2> QED
    BY <1>0, <2>1, SlotOfTyped
<1>9. slots' \in [0..LogSlots - 1 -> LogCell]
  BY <1>0, <1>1, <1>6, <1>8 DEF JournalTypeOK
<1>10. InLog(committing)' = cell
  BY <1>0, <1>1, <1>8, SlotWritten
<1>11. \A t \in Int : t # committing /\ t - committing < LogSlots /\ committing - t < LogSlots
              => InLog(t)' = InLog(t)
  BY <1>0, <1>1, <1>8, SlotWritten
<1>12. \A s \in 0..LogSlots - 1 : slots'[s] = slots[s] \/ slots'[s] = cell
  BY <1>0, <1>1, <1>8, SlotWritten
<1> QED
  BY <1>4, <1>5, <1>7, <1>9, <1>10, <1>11, <1>12

(* The cell is written while no record makes it count; the flush makes      *)
(* what was written before it stay.                                         *)
LEMMA CommitIOHolds ==
  ASSUME JournalIInv, CommitIO
  PROVE  JournalIInv'
<1>0. JournalTypeOK /\ Tids /\ LogHolds /\ \A b \in Block : BlockOK(b)
  BY DEF JournalIInv
<1>1. /\ stage = "write" /\ stage' = "record" /\ newTail' = LogTail
      /\ ~\E b \in Block : jh[b].tx = committing /\ jh[b].list = "metadata"
      /\ \/ Flush
         \/ /\ UNCHANGED <<disk, wrote>> /\ ~(newTail' > tail.tid)
            /\ \A b \in Block : want.com[b] # -committing
  BY DEF CommitIO, devVars
<1>2. UNCHANGED <<running, open, nextTid, committing, revoking, revoke, freedBy, checkpoints,
                  tail, want, mounted>>
  BY DEF CommitIO, tranVars
<1>3. committing # NoTid /\ committing \in 0..MaxTid /\ running # committing
  BY <1>1, Distinct
<1>4. \A b \in Block :
         /\ jh'[b] \in JournalHead
         /\ jh'[b].data = jh[b].data /\ jh'[b].tx = jh[b].tx /\ jh'[b].next = jh[b].next
         /\ jh'[b].modified = jh[b].modified /\ jh'[b].freed = jh[b].freed
         /\ jh'[b].frozen = jh[b].frozen /\ jh'[b].cp = jh[b].cp
         /\ jh[b].list = "shadow" =>
              /\ jh[b].tx = committing /\ jh'[b].list = "forget" /\ jh'[b].jbddirty
              /\ ~jh'[b].dirty
         /\ jh[b].list # "shadow" => jh'[b] = jh[b]
  BY IOHeads
<1>5. /\ slots' \in [0..LogSlots - 1 -> LogCell]
      /\ InLog(committing)'.tid = NoTid /\ InLog(committing)'.revokes = revoking
      /\ DOMAIN InLog(committing)'.blocks = {b \in Block : jh[b].list = "shadow"}
      /\ \A b \in Block : jh[b].list = "shadow" =>
           InLog(committing)'.blocks[b] = IF jh[b].frozen # Unfrozen THEN jh[b].frozen
                                          ELSE jh[b].data
      /\ \A t \in Int : t # committing /\ t - committing < LogSlots /\ committing - t < LogSlots
           => InLog(t)' = InLog(t)
      /\ \A s \in 0..LogSlots - 1 : slots'[s] = slots[s] \/ slots'[s].tid = NoTid
  BY IOSlot
<1>6. /\ \A b \in Block : wrote'[b] = wrote[b] /\ (disk'[b] = disk[b] \/ disk'[b] = {wrote[b]})
      /\ wrote' \in [Block -> Content] /\ disk' \in [Block -> SUBSET Content]
      /\ \A b \in Block : want.com[b] = -committing \/ LogTail > tail.tid => disk'[b] = {wrote[b]}
  <2>1. wrote \in [Block -> Content] /\ disk \in [Block -> SUBSET Content]
    BY <1>0 DEF JournalTypeOK
  <2>2. CASE Flush
    BY <2>1, <2>2 DEF Flush
  <2>3. CASE /\ UNCHANGED <<disk, wrote>> /\ ~(newTail' > tail.tid)
             /\ \A b \in Block : want.com[b] # -committing
    BY <1>1, <2>1, <2>3
  <2> QED
    BY <1>1, <2>2, <2>3
<1>7. /\ LogTail \in 1..MaxTid + 1 /\ LogTail <= committing
      /\ \A t \in checkpoints : LogTail <= t
  BY <1>3, LogTailIs
<1>8. JournalTypeOK'
  <2>1. jh' \in [Block -> JournalHead]
    <3>1. jh' = [b \in Block |-> jh'[b]]
      BY DEF CommitIO
    <3> QED
      BY <1>4, <3>1
  <2> QED
    BY <1>0, <1>1, <1>2, <1>5, <1>6, <1>7, <2>1 DEF JournalTypeOK
<1>9. LastDurable' = LastDurable /\ LastDurable = committing - 1
  BY <1>1, <1>2, <1>3 DEF LastDurable, OnDisk
<1>10. tail.tid \in 1..MaxTid + 1 /\ tail.tid <= committing /\ committing - tail.tid < LogSlots
       /\ LogSlots \in Nat
  BY <1>0, <1>3 DEF Tids, JournalTypeOK
<1>11. \A t \in tail.tid..LastDurable : InLog(t)' = InLog(t)
  <2> SUFFICES ASSUME NEW t \in tail.tid..LastDurable PROVE InLog(t)' = InLog(t)
    OBVIOUS
  <2>1. t \in Int /\ t # committing /\ t - committing < LogSlots /\ committing - t < LogSlots
    BY <1>3, <1>9, <1>10
  <2> QED
    BY <1>5, <2>1
<1>12. Tids'
  BY <1>0, <1>1, <1>2, <1>3, <1>7, <1>9 DEF Tids
<1>13. LogHolds'
  <2>1. \A t \in tail.tid..LastDurable : InLog(t)'.tid = t
    BY <1>0, <1>11 DEF LogHolds
  <2>2. \A s \in 0..LogSlots - 1 : slots'[s].tid <= LastDurable
    BY <1>0, <1>3, <1>5, <1>9 DEF LogHolds, NoTid
  <2> QED
    BY <1>2, <1>5, <1>9, <2>1, <2>2 DEF LogHolds
<1>14. ASSUME NEW b \in Block PROVE BlockOK(b)'
  <2>0. BlockOK(b) /\ jh[b] \in JournalHead
    BY <1>0, HeadTyped
  <2>1. InWork' /\ InWork /\ stage \notin OnDisk /\ stage' \notin OnDisk
    BY <1>1 DEF InWork, OnDisk
  <2>2. Copies(b, tail.tid, LastDurable)' = Copies(b, tail.tid, LastDurable)
    <3>1. tail.tid \in Int /\ LastDurable \in Int
      BY <1>3, <1>9, <1>10
    <3>2. {t \in tail.tid..LastDurable :
             /\ b \in DOMAIN InLog(t)'.blocks
             /\ \A u \in t..LastDurable : b \notin InLog(u)'.revokes}
            = Copies(b, tail.tid, LastDurable)
      BY <1>11, <3>1, CopiesSame
    <3> QED
      BY <1>2, <1>9, <3>2 DEF Copies
  <2>3. /\ wrote'[b] = wrote[b] /\ (disk'[b] = disk[b] \/ disk'[b] = {wrote[b]})
        /\ want.com[b] = -committing \/ LogTail > tail.tid => disk'[b] = {wrote[b]}
    BY <1>6
  <2>4. /\ jh'[b].data = jh[b].data /\ jh'[b].tx = jh[b].tx /\ jh'[b].next = jh[b].next
        /\ jh'[b].modified = jh[b].modified /\ jh'[b].freed = jh[b].freed
        /\ jh'[b].frozen = jh[b].frozen /\ jh'[b].cp = jh[b].cp
    BY <1>4
  <2>5. jh[b].list = "shadow" =>
          /\ jh[b].tx = committing /\ jh'[b].list = "forget" /\ jh'[b].jbddirty /\ ~jh'[b].dirty
    BY <1>4
  <2>6. jh[b].list # "shadow" => jh'[b] = jh[b]
    BY <1>4
  <2>7. b \in DOMAIN InLog(committing)'.blocks <=> jh[b].list = "shadow"
    BY <1>5
  <2>8. Wants(b)' /\ Frees(b)'
    BY <1>2, <2>0, <2>1 DEF BlockOK, Wants, Frees, Base, Became
  <2>9. NoTx(b)' /\ InRunning(b)'
    BY <1>2, <1>3, <2>0, <2>3, <2>4, <2>5, <2>6 DEF BlockOK, NoTx, InRunning
  <2>10. jh[b].list = "shadow" =>
           /\ want.com[b] \in MetaC /\ b \notin revoking
           /\ InLog(committing)'.blocks[b] = want.com[b]
    <3>1. jh[b].list = "shadow" =>
            want.com[b] \in MetaC /\ (IF jh[b].frozen # Unfrozen THEN jh[b].frozen
                                      ELSE jh[b].data) = want.com[b]
      BY <1>3, <2>0, <2>5 DEF BlockOK, InCommitting
    <3>2. want.com[b] \in MetaC => b \notin revoking
      BY <2>0, UnusedIsNoContent DEF BlockOK, Frees
    <3> QED
      BY <1>5, <3>1, <3>2
  <2>11. InCommitting(b)'
    <3>1. CASE jh[b].list = "shadow"
      BY <1>1, <1>2, <1>3, <1>5, <2>0, <2>4, <2>5, <2>7, <2>10, <3>1
         DEF BlockOK, InCommitting
    <3>2. CASE jh[b].list # "shadow" /\ jh[b].tx = committing
      <4>1. jh[b].list = "forget" /\ want.com[b] \notin MetaC
        BY <1>1, <1>3, <2>0, <3>2 DEF BlockOK, InCommitting
      <4> QED
        BY <1>2, <1>3, <2>0, <2>6, <3>2, <4>1 DEF BlockOK, InCommitting
    <3>3. CASE jh[b].tx # committing
      BY <1>2, <2>4, <3>3 DEF InCommitting
    <3> QED
      BY <3>1, <3>2, <3>3
  <2>12. Placed(b)'
    BY <1>1, <1>2, <2>0, <2>1, <2>4, <2>5, <2>6 DEF BlockOK, Placed
  <2>13. Recorded(b)'
    <3>1. CASE jh[b].list = "shadow"
      BY <1>2, <2>4, <2>5, <2>7, <2>10, <3>1 DEF Recorded
    <3>2. CASE jh[b].list # "shadow"
      <4>1. want.com[b] = Unused \/ (want.com[b] = want.dur[b] /\ b \notin revoking)
              \/ want.com[b] = -committing
        <5>1. Became(want.dur[b], want.com[b], committing)
          BY <2>0, <2>1 DEF BlockOK, Wants
        <5>2. ~(want.com[b] # want.dur[b] /\ want.com[b] \in MetaC)
          BY <1>1, <1>3, <2>0, <2>1, <3>2 DEF BlockOK, Placed, InCommitting
        <5>3. committing \in MetaC
          BY <1>3 DEF MetaC
        <5>4. b \in revoking => want.com[b] = Unused
          BY <2>0 DEF BlockOK, Frees
        <5> QED
          BY <5>1, <5>2, <5>3, <5>4 DEF Became
      <4> QED
        BY <1>2, <2>7, <3>2, <4>1 DEF Recorded
    <3> QED
      BY <3>1, <3>2
  <2>14. DataWritten(b)'
    BY <1>1, <1>2, <2>0, <2>3 DEF BlockOK, DataWritten
  <2>15. Kept(b)'
    <3>1. want.dur[b] # Unused => Restores(b, tail.tid, LastDurable, want.dur[b])
      BY <2>0 DEF BlockOK, Kept
    <3>2. want.dur[b] # Unused => Restores(b, tail.tid, LastDurable, want.dur[b])'
      <4>1. disk[b] = {want.dur[b]} => disk'[b] = {want.dur[b]}
        BY <2>0, <2>3 DEF BlockOK, DataWritten
      <4>2. \A t \in Copies(b, tail.tid, LastDurable) : InLog(t)' = InLog(t)
        BY <1>11 DEF Copies
      <4> QED
        BY <1>2, <2>2, <3>1, <4>1, <4>2 DEF Restores
    <3>3. want.dur[b] # Unused /\ LogTail > tail.tid =>
            Restores(b, newTail, LastDurable, want.dur[b])'
      <4> SUFFICES ASSUME want.dur[b] # Unused, LogTail > tail.tid
                   PROVE  Restores(b, newTail, LastDurable, want.dur[b])'
        OBVIOUS
      <4>1. /\ Copies(b, LogTail, LastDurable) = {} => wrote[b] = want.dur[b]
            /\ \A t \in Copies(b, LogTail, LastDurable) :
                 (\A u \in Copies(b, LogTail, LastDurable) : u <= t)
                   => InLog(t).blocks[b] = want.dur[b]
        BY <1>7, <1>10, FlushedFrom
      <4>2. \A t \in LogTail..LastDurable : InLog(t)' = InLog(t)
        BY <1>7, <1>10, <1>11
      <4>3. Copies(b, newTail, LastDurable)' = Copies(b, LogTail, LastDurable)
        <5>1. LogTail \in Int /\ LastDurable \in Int
          BY <1>3, <1>7, <1>9
        <5>2. {t \in LogTail..LastDurable :
                 /\ b \in DOMAIN InLog(t)'.blocks
                 /\ \A u \in t..LastDurable : b \notin InLog(u)'.revokes}
                = Copies(b, LogTail, LastDurable)
          BY <4>2, <5>1, CopiesSame
        <5> QED
          BY <1>1, <1>9, <5>2 DEF Copies
      <4>4. \A t \in Copies(b, LogTail, LastDurable) : InLog(t)' = InLog(t)
        BY <4>2 DEF Copies
      <4>5. disk'[b] = {wrote[b]}
        BY <2>3
      <4> QED
        BY <1>2, <4>1, <4>3, <4>4, <4>5 DEF Restores
    <3>4. want.dur[b] \notin MetaC => Copies(b, tail.tid, LastDurable) = {}
      BY <2>0 DEF BlockOK, Kept
    <3> QED
      BY <1>1, <1>2, <2>2, <3>2, <3>3, <3>4 DEF Kept
  <2>16. Pinned(b)'
    BY <1>2, <2>0, <2>1, <2>2, <2>3, <2>4 DEF BlockOK, Pinned
  <2> QED
    BY <2>8, <2>9, <2>11, <2>12, <2>13, <2>14, <2>15, <2>16 DEF BlockOK
<1> QED
  BY <1>8, <1>12, <1>13, <1>14 DEF JournalIInv

(* What one more transaction adds to the copies of a block.                 *)
LEMMA OneMore ==
  ASSUME NEW b, NEW lo \in Int, NEW c \in Int, lo <= c
  PROVE  /\ b \in DOMAIN InLog(c).blocks /\ b \notin InLog(c).revokes => c \in Copies(b, lo, c)
         /\ b \notin DOMAIN InLog(c).blocks /\ b \notin InLog(c).revokes =>
              Copies(b, lo, c) = Copies(b, lo, c - 1)
         /\ b \notin DOMAIN InLog(c).blocks /\ b \in InLog(c).revokes => Copies(b, lo, c) = {}
         /\ b \notin DOMAIN InLog(c).blocks /\ Copies(b, lo, c - 1) = {} => Copies(b, lo, c) = {}
<1>1. b \in DOMAIN InLog(c).blocks /\ b \notin InLog(c).revokes => c \in Copies(b, lo, c)
  BY DEF Copies
<1>2. ASSUME b \notin DOMAIN InLog(c).blocks, NEW t \in Copies(b, lo, c)
      PROVE  t \in Copies(b, lo, c - 1) /\ b \notin InLog(c).revokes
  <2>1. /\ t \in lo..c /\ b \in DOMAIN InLog(t).blocks
        /\ \A u \in t..c : b \notin InLog(u).revokes
    BY DEF Copies
  <2>2. t # c
    BY <1>2, <2>1
  <2>3. t \in lo..c - 1 /\ c \in t..c /\ \A u \in t..c - 1 : u \in t..c
    BY <2>1, <2>2
  <2> QED
    BY <2>1, <2>3 DEF Copies
<1>3. ASSUME b \notin InLog(c).revokes, NEW t \in Copies(b, lo, c - 1)
      PROVE  t \in Copies(b, lo, c)
  <2>1. /\ t \in lo..c - 1 /\ b \in DOMAIN InLog(t).blocks
        /\ \A u \in t..c - 1 : b \notin InLog(u).revokes
    BY DEF Copies
  <2>2. \A u \in t..c : u \in t..c - 1 \/ u = c
    BY <2>1
  <2>3. t \in lo..c
    BY <2>1
  <2> QED
    BY <1>3, <2>1, <2>2, <2>3 DEF Copies
<1>4. b \notin DOMAIN InLog(c).blocks /\ b \notin InLog(c).revokes =>
        Copies(b, lo, c) = Copies(b, lo, c - 1)
  BY <1>2, <1>3
<1> QED
  BY <1>1, <1>2, <1>4

(* What the commit record does to the log.                                  *)
LEMMA RecordSlot ==
  ASSUME JournalIInv, CommitRecord
  PROVE  /\ slots' \in [0..LogSlots - 1 -> LogCell]
         /\ InLog(committing)'.tid = committing
         /\ InLog(committing)'.revokes = InLog(committing).revokes
         /\ InLog(committing)'.blocks = InLog(committing).blocks
         /\ \A t \in Int : t # committing /\ t - committing < LogSlots /\ committing - t < LogSlots
              => InLog(t)' = InLog(t)
         /\ \A s \in 0..LogSlots - 1 : slots'[s] = slots[s] \/ slots'[s].tid = committing
<1>0. JournalTypeOK
  BY DEF JournalIInv
<1>1. committing \in Int /\ committing \in 0..MaxTid
  BY <1>0 DEF JournalTypeOK
<1>2. InLog(committing) \in LogCell /\ SlotOf(committing) \in 0..LogSlots - 1
  BY <1>0, <1>1, SlotOfTyped
<1> DEFINE cell == [InLog(committing) EXCEPT !.tid = committing]
<1>3. UNCHANGED <<tail, committing>> /\ slots' = [slots EXCEPT ![SlotOf(committing)] = cell]
  BY DEF CommitRecord, InLog
<1>4. /\ cell \in LogCell /\ cell.tid = committing /\ cell.revokes = InLog(committing).revokes
      /\ cell.blocks = InLog(committing).blocks
  BY <1>1, <1>2 DEF LogCell
<1> HIDE DEF cell
<1>9. slots' \in [0..LogSlots - 1 -> LogCell]
  BY <1>0, <1>3, <1>4, <1>2 DEF JournalTypeOK
<1>10. InLog(committing)' = cell
  BY <1>0, <1>1, <1>3, SlotWritten
<1>11. \A t \in Int : t # committing /\ t - committing < LogSlots /\ committing - t < LogSlots
              => InLog(t)' = InLog(t)
  BY <1>0, <1>1, <1>3, SlotWritten
<1>12. \A s \in 0..LogSlots - 1 : slots'[s] = slots[s] \/ slots'[s] = cell
  BY <1>0, <1>1, <1>3, SlotWritten
<1> QED
  BY <1>4, <1>9, <1>10, <1>11, <1>12

(* The step that makes a transaction durable: each block it changed has     *)
(* its copy in the cell, each block it freed its revoke record, its data    *)
(* is on the device, and the rest is as the transaction before it left it.  *)
LEMMA CommitRecordHolds ==
  ASSUME JournalIInv, CommitRecord
  PROVE  JournalIInv'
<1>0. JournalTypeOK /\ Tids /\ LogHolds /\ \A b \in Block : BlockOK(b)
  BY DEF JournalIInv
<1>1. stage = "record" /\ stage' = "tail" /\ want' = [want EXCEPT !.dur = want.com]
  BY DEF CommitRecord
<1>2. UNCHANGED <<jh, running, open, nextTid, committing, revoking, newTail, revoke, freedBy,
                  checkpoints, tail, disk, wrote, mounted>>
  BY DEF CommitRecord, tranVars, devVars
<1>3. committing # NoTid /\ committing \in 0..MaxTid /\ running # committing
  BY <1>1, Distinct
<1>4. /\ want' \in [run : Made, com : Made, dur : Made]
      /\ want'.run = want.run /\ want'.com = want.com /\ want'.dur = want.com
  <2>1. want \in [run : Made, com : Made, dur : Made]
    BY <1>0 DEF JournalTypeOK
  <2> QED
    BY <1>1, <2>1
<1>5. /\ slots' \in [0..LogSlots - 1 -> LogCell]
      /\ InLog(committing)'.tid = committing
      /\ InLog(committing)'.revokes = InLog(committing).revokes
      /\ InLog(committing)'.blocks = InLog(committing).blocks
      /\ \A t \in Int : t # committing /\ t - committing < LogSlots /\ committing - t < LogSlots
           => InLog(t)' = InLog(t)
      /\ \A s \in 0..LogSlots - 1 : slots'[s] = slots[s] \/ slots'[s].tid = committing
  BY RecordSlot
<1>6. JournalTypeOK'
  BY <1>0, <1>1, <1>2, <1>4, <1>5 DEF JournalTypeOK
<1>7. LastDurable' = committing /\ LastDurable = committing - 1
  BY <1>1, <1>2, <1>3 DEF LastDurable, OnDisk
<1>8. /\ tail.tid \in 1..MaxTid + 1 /\ tail.tid <= committing /\ committing - tail.tid < LogSlots
      /\ LogSlots \in Nat /\ newTail \in 1..MaxTid + 1 /\ newTail <= committing
      /\ checkpoints \subseteq Tid
  BY <1>0, <1>1, <1>3 DEF Tids, JournalTypeOK
<1>9. \A t \in tail.tid..committing - 1 : InLog(t)' = InLog(t)
  <2> SUFFICES ASSUME NEW t \in tail.tid..committing - 1 PROVE InLog(t)' = InLog(t)
    OBVIOUS
  <2>1. t \in Int /\ t # committing /\ t - committing < LogSlots /\ committing - t < LogSlots
    BY <1>3, <1>8
  <2> QED
    BY <1>5, <2>1
<1>10. \A t \in tail.tid..committing :
         InLog(t)'.blocks = InLog(t).blocks /\ InLog(t)'.revokes = InLog(t).revokes
  <2> SUFFICES ASSUME NEW t \in tail.tid..committing
               PROVE  InLog(t)'.blocks = InLog(t).blocks /\ InLog(t)'.revokes = InLog(t).revokes
    OBVIOUS
  <2>1. CASE t = committing
    BY <1>2, <1>5, <2>1
  <2>2. CASE t # committing
    <3>1. t \in tail.tid..committing - 1
      BY <1>3, <1>8, <2>2
    <3> QED
      BY <1>9, <3>1
  <2> QED
    BY <2>1, <2>2
<1>11. Tids'
  <2>1. checkpoints \subseteq tail.tid..committing
    BY <1>0, <1>3, <1>7, <1>8 DEF Tids
  <2> QED
    BY <1>0, <1>1, <1>2, <1>3, <1>7, <1>8, <2>1 DEF Tids
<1>12. LogHolds'
  <2>1. \A t \in tail.tid..committing : InLog(t)'.tid = t
    <3> SUFFICES ASSUME NEW t \in tail.tid..committing PROVE InLog(t)'.tid = t
      OBVIOUS
    <3>1. CASE t = committing
      BY <1>2, <1>5, <3>1
    <3>2. CASE t # committing
      <4>1. t \in tail.tid..committing - 1
        BY <1>3, <1>8, <3>2
      <4> QED
        BY <1>0, <1>7, <1>9, <4>1 DEF LogHolds
    <3> QED
      BY <3>1, <3>2
  <2>2. \A s \in 0..LogSlots - 1 : slots'[s].tid <= committing
    <3>1. \A s \in 0..LogSlots - 1 : slots[s].tid <= committing - 1 /\ slots[s].tid \in Int
      <4>1. \A s \in 0..LogSlots - 1 : slots[s].tid <= committing - 1
        BY <1>0, <1>7 DEF LogHolds
      <4>2. \A s \in 0..LogSlots - 1 : slots[s] \in LogCell
        BY <1>0 DEF JournalTypeOK
      <4>3. \A s \in 0..LogSlots - 1 : slots[s].tid \in Int
        BY <4>2 DEF LogCell
      <4> QED
        BY <4>1, <4>3
    <3> QED
      BY <1>3, <1>5, <3>1
  <2> QED
    BY <1>1, <1>2, <1>7, <2>1, <2>2 DEF LogHolds
<1>13. InLog(committing).revokes = revoking
  BY <1>0, <1>1 DEF LogHolds
<1>14. ASSUME NEW b \in Block PROVE BlockOK(b)'
  <2>0. BlockOK(b) /\ jh[b] \in JournalHead
    BY <1>0, HeadTyped
  <2>1. ~InWork' /\ InWork /\ stage \notin OnDisk /\ stage' \in OnDisk
    BY <1>1 DEF InWork, OnDisk
  <2>2. ASSUME NEW lo \in tail.tid..committing
        PROVE  {t \in lo..committing :
                  /\ b \in DOMAIN InLog(t)'.blocks
                  /\ \A u \in t..committing : b \notin InLog(u)'.revokes}
                 = Copies(b, lo, committing)
    <3>1. \A t \in lo..committing :
            InLog(t)'.blocks = InLog(t).blocks /\ InLog(t)'.revokes = InLog(t).revokes
      BY <1>3, <1>8, <1>10
    <3>2. ASSUME NEW t \in lo..committing
          PROVE  (\A u \in t..committing : b \notin InLog(u)'.revokes)
                   <=> (\A u \in t..committing : b \notin InLog(u).revokes)
      <4>1. \A u \in t..committing : u \in lo..committing
        BY <1>3, <1>8
      <4> QED
        BY <3>1, <4>1
    <3> QED
      BY <3>1, <3>2 DEF Copies
  <2>3. Copies(b, tail.tid, LastDurable)' = Copies(b, tail.tid, committing)
    BY <1>2, <1>3, <1>7, <1>8, <2>2 DEF Copies
  <2>4. newTail > tail.tid =>
          Copies(b, newTail, LastDurable)' = Copies(b, newTail, committing)
    <3>1. newTail > tail.tid => newTail \in tail.tid..committing
      BY <1>3, <1>8
    <3> QED
      BY <1>2, <1>7, <2>2, <3>1 DEF Copies
  <2>5. b \in DOMAIN InLog(committing).blocks =>
          /\ InLog(committing).blocks[b] = want.com[b] /\ want.com[b] \in MetaC
          /\ b \notin revoking /\ jh[b].tx = committing
    BY <1>1, <2>0 DEF BlockOK, Recorded
  <2>6. b \notin DOMAIN InLog(committing).blocks =>
          \/ want.com[b] = Unused
          \/ want.com[b] = want.dur[b] /\ b \notin revoking
          \/ want.com[b] = -committing
    BY <1>1, <2>0 DEF BlockOK, Recorded
  <2>7. want.com[b] = -committing =>
          /\ want.com[b] \notin MetaC /\ want.com[b] # Unused
          /\ want.dur[b] = want.com[b] \/ want.dur[b] = Unused
          /\ wrote[b] = want.com[b] /\ disk[b] = {want.com[b]}
    <3>1. -committing \notin MetaC /\ -committing # Unused /\ -committing # committing
      BY <1>3 DEF MetaC, Unused, NoTid
    <3>2. Became(want.dur[b], want.com[b], committing)
      BY <2>0, <2>1 DEF BlockOK, Wants
    <3>3. want.com[b] = -committing => wrote[b] = want.com[b] /\ disk[b] = {want.com[b]}
      BY <1>1, <2>0 DEF BlockOK, DataWritten
    <3> QED
      BY <3>1, <3>2, <3>3 DEF Became
  <2>8. want'.run[b] = want.run[b] /\ want'.com[b] = want.com[b] /\ want'.dur[b] = want.com[b]
    BY <1>4
  <2>9. ASSUME want.com[b] # Unused, NEW lo \in tail.tid..committing,
               want.dur[b] # Unused => Restores(b, lo, committing - 1, want.dur[b])
        PROVE  /\ Copies(b, lo, committing) = {} => disk[b] = {want.com[b]}
               /\ \A t \in Copies(b, lo, committing) :
                    (\A u \in Copies(b, lo, committing) : u <= t)
                      => InLog(t).blocks[b] = want.com[b]
    <3>0. lo \in Int /\ committing \in Int /\ lo <= committing
      BY <1>3, <1>8
    <3>1. CASE b \in DOMAIN InLog(committing).blocks
      <4>1. committing \in Copies(b, lo, committing)
        BY <1>13, <2>5, <3>0, <3>1, OneMore
      <4>2. \A t \in Copies(b, lo, committing) : t \in Int /\ t <= committing
        BY <3>0 DEF Copies
      <4>3. \A t \in Copies(b, lo, committing) :
              (\A u \in Copies(b, lo, committing) : u <= t) => t = committing
        BY <3>0, <4>1, <4>2
      <4> QED
        BY <2>5, <3>1, <4>1, <4>3
    <3>2. CASE b \notin DOMAIN InLog(committing).blocks /\ want.com[b] = want.dur[b]
               /\ b \notin revoking
      <4>1. Copies(b, lo, committing) = Copies(b, lo, committing - 1)
        BY <1>13, <3>0, <3>2, OneMore
      <4>2. Restores(b, lo, committing - 1, want.com[b])
        BY <2>9, <3>2
      <4> QED
        BY <4>1, <4>2 DEF Restores
    <3>3. CASE b \notin DOMAIN InLog(committing).blocks /\ want.com[b] = -committing
      <4>1. Copies(b, tail.tid, committing - 1) = {}
        BY <1>7, <2>0, <2>7, <3>3, UnusedIsNoContent DEF BlockOK, Kept
      <4>2. Copies(b, lo, committing - 1) = {}
        <5>1. \A t : t \in Copies(b, lo, committing - 1) => t \in Copies(b, tail.tid, committing - 1)
          BY <1>3, <1>8 DEF Copies
        <5> QED
          BY <4>1, <5>1
      <4>3. Copies(b, lo, committing) = {}
        BY <3>0, <3>3, <4>2, OneMore
      <4> QED
        BY <2>7, <3>3, <4>3
    <3> QED
      BY <2>6, <2>9, <3>1, <3>2, <3>3
  <2>10. want.com[b] # Unused => Restores(b, tail.tid, LastDurable, want.com[b])'
    <3> SUFFICES ASSUME want.com[b] # Unused
                 PROVE  Restores(b, tail.tid, LastDurable, want.com[b])'
      OBVIOUS
    <3>1. tail.tid \in tail.tid..committing
      BY <1>3, <1>8
    <3>2. want.dur[b] # Unused => Restores(b, tail.tid, committing - 1, want.dur[b])
      BY <1>7, <2>0 DEF BlockOK, Kept
    <3>3. /\ Copies(b, tail.tid, committing) = {} => disk[b] = {want.com[b]}
          /\ \A t \in Copies(b, tail.tid, committing) :
               (\A u \in Copies(b, tail.tid, committing) : u <= t)
                 => InLog(t).blocks[b] = want.com[b]
      BY <2>9, <3>1, <3>2
    <3>4. \A t \in Copies(b, tail.tid, committing) : InLog(t)'.blocks = InLog(t).blocks
      BY <1>10 DEF Copies
    <3> QED
      BY <1>2, <2>3, <2>8, <3>3, <3>4 DEF Restores
  <2>11. want.com[b] # Unused /\ newTail > tail.tid =>
           Restores(b, newTail, LastDurable, want.com[b])'
    <3> SUFFICES ASSUME want.com[b] # Unused, newTail > tail.tid
                 PROVE  Restores(b, newTail, LastDurable, want.com[b])'
      OBVIOUS
    <3>1. newTail \in tail.tid..committing
      BY <1>3, <1>8
    <3>2. want.dur[b] # Unused => Restores(b, newTail, committing - 1, want.dur[b])
      BY <1>1, <1>7, <2>0 DEF BlockOK, Kept
    <3>3. /\ Copies(b, newTail, committing) = {} => disk[b] = {want.com[b]}
          /\ \A t \in Copies(b, newTail, committing) :
               (\A u \in Copies(b, newTail, committing) : u <= t)
                 => InLog(t).blocks[b] = want.com[b]
      BY <2>9, <3>1, <3>2
    <3>4. \A t \in Copies(b, newTail, committing) : InLog(t)'.blocks = InLog(t).blocks
      <4>1. \A t \in newTail..committing : t \in tail.tid..committing
        BY <1>3, <1>8
      <4> QED
        BY <1>10, <4>1 DEF Copies
    <3> QED
      BY <1>2, <2>4, <2>8, <3>3, <3>4 DEF Restores
  <2>12. want.com[b] \notin MetaC => Copies(b, tail.tid, committing) = {}
    <3> SUFFICES ASSUME want.com[b] \notin MetaC PROVE Copies(b, tail.tid, committing) = {}
      OBVIOUS
    <3>1. b \notin DOMAIN InLog(committing).blocks
      BY <2>5
    <3>2. tail.tid \in Int /\ committing \in Int /\ tail.tid <= committing
      BY <1>3, <1>8
    <3>3. CASE b \in revoking
      BY <1>13, <3>1, <3>2, <3>3, OneMore
    <3>4. CASE b \notin revoking
      <4>1. want.dur[b] \notin MetaC
        BY <2>0, <2>1, <2>6, <2>7, <3>1, <3>4, UnusedIsNoContent DEF BlockOK, Frees
      <4>2. Copies(b, tail.tid, committing - 1) = {}
        BY <1>7, <2>0, <4>1 DEF BlockOK, Kept
      <4> QED
        BY <3>1, <3>2, <4>2, OneMore
    <3> QED
      BY <3>3, <3>4
  <2>13. Kept(b)'
    BY <1>2, <2>3, <2>8, <2>10, <2>11, <2>12 DEF Kept
  <2>14. Pinned(b)'
    <3> SUFFICES ASSUME want.com[b] # Unused, wrote[b] # want.com[b] PROVE Pinned(b)'
      BY <1>2, <2>8 DEF Pinned
    <3>0. tail.tid \in Int /\ committing \in Int /\ tail.tid <= committing
      BY <1>3, <1>8
    <3>1. CASE b \in DOMAIN InLog(committing).blocks
      <4>1. committing \in Copies(b, tail.tid, committing)
        BY <1>13, <2>5, <3>0, <3>1, OneMore
      <4> QED
        BY <1>2, <2>1, <2>3, <2>5, <3>1, <4>1 DEF Pinned, OnDisk
    <3>2. CASE b \notin DOMAIN InLog(committing).blocks
      <4>1. want.com[b] = want.dur[b] /\ b \notin revoking
        BY <2>6, <2>7, <3>2
      <4>2. Copies(b, tail.tid, committing) = Copies(b, tail.tid, committing - 1)
        BY <1>13, <3>0, <3>2, <4>1, OneMore
      <4>3. jh[b].cp # NoTid /\ \E t \in Copies(b, tail.tid, committing - 1) : jh[b].cp <= t
        BY <1>7, <2>0, <2>1, <4>1 DEF BlockOK, Pinned
      <4> QED
        BY <1>2, <2>3, <4>2, <4>3 DEF Pinned
    <3> QED
      BY <3>1, <3>2
  <2>15. Wants(b)'
    BY <1>2, <1>3, <2>0, <2>1, <2>8 DEF BlockOK, Wants, Base, Became
  <2>16. Frees(b)'
    BY <1>2, <1>3, <2>0, <2>1, <2>8 DEF BlockOK, Frees, Base
  <2>17. NoTx(b)'
    <3>1. CASE jh[b].tx = NoTid
      <4>1. want.com[b] # Unused => want.com[b] = want.dur[b] \/ wrote[b] = want.com[b]
        BY <1>3, <2>5, <2>6, <2>7, <3>1
      <4> QED
        BY <1>2, <2>0, <2>8, <3>1, <4>1 DEF BlockOK, NoTx
    <3>2. CASE jh[b].tx # NoTid
      BY <1>2, <3>2 DEF NoTx
    <3> QED
      BY <3>1, <3>2
  <2>18. InRunning(b)'
    BY <1>2, <2>0, <2>8 DEF BlockOK, InRunning
  <2>19. InCommitting(b)'
    BY <1>1, <1>2, <1>3, <1>5, <2>0, <2>8 DEF BlockOK, InCommitting
  <2>20. Placed(b)' /\ Recorded(b)' /\ DataWritten(b)'
    BY <1>1, <1>2, <2>0, <2>1, <2>8 DEF BlockOK, Placed, Recorded, DataWritten
  <2> QED
    BY <2>13, <2>14, <2>15, <2>16, <2>17, <2>18, <2>19, <2>20 DEF BlockOK
<1> QED
  BY <1>6, <1>11, <1>12, <1>14 DEF JournalIInv

(* The tail that was computed before the flush is stored after the record.  *)
LEMMA CommitTailHolds ==
  ASSUME JournalIInv, CommitTail
  PROVE  JournalIInv'
<1>0. JournalTypeOK /\ Tids /\ LogHolds /\ \A b \in Block : BlockOK(b)
  BY DEF JournalIInv
<1>1. /\ stage = "tail" /\ stage' = "forget" /\ revoking' = {}
      /\ \/ newTail > tail.tid /\ MoveTail(newTail)
         \/ UNCHANGED tail
  BY DEF CommitTail
<1>2. UNCHANGED <<jh, running, open, nextTid, committing, newTail, revoke, freedBy, checkpoints,
                  slots, disk, wrote, want, mounted>>
  BY DEF CommitTail, tranVars, devVars
<1>3. /\ committing # NoTid /\ committing \in 0..MaxTid /\ running # committing
      /\ committing \in Int
  BY <1>1, Distinct
<1>4. newTail \in 1..MaxTid + 1 /\ tail.tid \in 1..MaxTid + 1
  BY <1>0 DEF JournalTypeOK
<1>5. LastDurable = committing /\ LastDurable' = committing /\ ~InWork /\ ~InWork'
  BY <1>1, <1>2, <1>3 DEF LastDurable, OnDisk, InWork
<1>6. /\ newTail <= committing /\ \A t \in checkpoints : newTail <= t
      /\ tail.tid <= committing /\ \A t \in checkpoints : tail.tid <= t
  BY <1>0, <1>1, <1>3, <1>4 DEF Tids
<1>7. \A t \in Int : InLog(t)' = InLog(t)
  <2>1. CASE newTail > tail.tid /\ MoveTail(newTail)
    <3>1. newTail \in Int /\ slots' = slots
      BY <1>2, <1>4
    <3> QED
      BY <1>0, <2>1, <3>1, TailMoves
  <2>2. CASE UNCHANGED tail
    BY <1>2, <2>2 DEF InLog, SlotOf
  <2> QED
    BY <1>1, <2>1, <2>2
<1>8. /\ tail' \in [tid : 1..MaxTid + 1, slot : 0..LogSlots - 1]
      /\ \/ tail'.tid = tail.tid
         \/ tail'.tid = newTail /\ newTail > tail.tid
  <2>1. CASE newTail > tail.tid /\ MoveTail(newTail)
    <3>1. SlotOf(newTail) \in 0..LogSlots - 1
      BY <1>0, <1>4, SlotOfTyped
    <3> QED
      BY <1>4, <2>1, <3>1 DEF MoveTail
  <2>2. CASE UNCHANGED tail
    BY <1>0, <2>2 DEF JournalTypeOK
  <2> QED
    BY <1>1, <2>1, <2>2
<1>9. /\ tail'.tid \in 1..MaxTid + 1 /\ tail.tid <= tail'.tid /\ tail'.tid <= committing
      /\ \A t \in checkpoints : tail'.tid <= t
  BY <1>4, <1>6, <1>8
<1>10. JournalTypeOK'
  <2>1. stage' \in {"none", "locked", "flush", "write", "record", "tail", "forget"}
    BY <1>1
  <2> QED
    BY <1>0, <1>1, <1>2, <1>8, <2>1 DEF JournalTypeOK
<1>11. Tids'
  <2>1. nextTid \in Int /\ LogSlots \in Int /\ checkpoints \subseteq Int
    BY <1>0 DEF JournalTypeOK, Tid
  <2>2. committing - tail'.tid < LogSlots /\ nextTid - 1 - tail'.tid < LogSlots
    BY <1>0, <1>3, <1>4, <1>5, <1>9, <2>1 DEF Tids
  <2>3. checkpoints \subseteq tail'.tid..committing
    BY <1>0, <1>3, <1>5, <1>9, <2>1 DEF Tids
  <2>4. tail'.tid <= committing + 1
    BY <1>3, <1>9
  <2> QED
    BY <1>0, <1>1, <1>2, <1>3, <1>5, <1>9, <2>2, <2>3, <2>4 DEF Tids
<1>12. LogHolds'
  <2>1. \A t \in tail'.tid..committing : t \in tail.tid..committing /\ t \in Int
    BY <1>3, <1>4, <1>9
  <2> QED
    BY <1>0, <1>1, <1>2, <1>5, <1>7, <2>1 DEF LogHolds
<1>13. ASSUME NEW b \in Block PROVE BlockOK(b)'
  <2>0. BlockOK(b)
    BY <1>0
  <2>1. Copies(b, tail.tid, LastDurable)' = Copies(b, tail'.tid, committing)
    BY <1>3, <1>5, <1>7, <1>9 DEF Copies
  <2>2. Copies(b, tail'.tid, committing) \subseteq Copies(b, tail.tid, committing)
    BY <1>3, <1>4, <1>9 DEF Copies
  <2>3. want.dur[b] # Unused => Restores(b, tail'.tid, committing, want.dur[b])
    BY <1>1, <1>5, <1>8, <2>0 DEF BlockOK, Kept
  <2>4. want.dur[b] # Unused => Restores(b, tail.tid, LastDurable, want.dur[b])'
    <3> SUFFICES ASSUME want.dur[b] # Unused
                 PROVE  Restores(b, tail.tid, LastDurable, want.dur[b])'
      OBVIOUS
    <3>1. \A t \in Copies(b, tail'.tid, committing) : InLog(t)' = InLog(t)
      BY <1>3, <1>7, <1>9 DEF Copies
    <3> QED
      BY <1>2, <2>1, <2>3, <3>1 DEF Restores
  <2>5. want.dur[b] \notin MetaC => Copies(b, tail'.tid, committing) = {}
    BY <1>5, <2>0, <2>2 DEF BlockOK, Kept
  <2>6. Kept(b)'
    BY <1>1, <1>2, <2>1, <2>4, <2>5 DEF Kept
  <2>7. Pinned(b)'
    <3> SUFFICES ASSUME want.dur[b] # Unused, wrote[b] # want.dur[b] PROVE Pinned(b)'
      BY <1>2 DEF Pinned
    <3>1. \/ jh[b].cp # NoTid /\ \E t \in Copies(b, tail'.tid, committing) : jh[b].cp <= t
          \/ /\ stage \in OnDisk /\ jh[b].tx = committing
             /\ committing \in Copies(b, tail'.tid, committing)
      <4>1. tail'.tid \in Int
        BY <1>9
      <4> QED
        BY <1>3, <1>5, <1>9, <4>1, FlushedFrom
    <3> QED
      BY <1>1, <1>2, <2>1, <3>1 DEF Pinned, OnDisk
  <2>8. Wants(b)' /\ Frees(b)'
    BY <1>1, <1>2, <1>5, <2>0 DEF BlockOK, Wants, Frees, Base, Became, OnDisk
  <2>9. NoTx(b)' /\ InRunning(b)'
    BY <1>2, <2>0 DEF BlockOK, NoTx, InRunning
  <2>10. InCommitting(b)'
    BY <1>1, <1>2, <1>3, <1>7, <2>0 DEF BlockOK, InCommitting
  <2>11. Placed(b)' /\ Recorded(b)' /\ DataWritten(b)'
    BY <1>1, <1>2, <1>5, <2>0 DEF BlockOK, Placed, Recorded, DataWritten
  <2> QED
    BY <2>6, <2>7, <2>8, <2>9, <2>10, <2>11 DEF BlockOK
<1> QED
  BY <1>10, <1>11, <1>12, <1>13 DEF JournalIInv

(* The blocks that the transaction freed are handed out.                    *)
LEMMA CommitFinishHolds ==
  ASSUME JournalIInv, CommitFinish
  PROVE  JournalIInv'
<1>0. JournalTypeOK /\ Tids /\ LogHolds /\ \A b \in Block : BlockOK(b)
  BY DEF JournalIInv
<1>1. /\ stage = "forget" /\ \A b \in Block : jh[b].tx # committing
      /\ checkpoints' = checkpoints \cup {t \in {committing} : \E b \in Block : jh[b].cp = t}
      /\ committing' = NoTid /\ stage' = "none" /\ want' = [want EXCEPT !.com = want.run]
  BY DEF CommitFinish
<1>2. UNCHANGED <<jh, running, open, nextTid, revoking, newTail, revoke, tail, slots, disk,
                  wrote, mounted>>
  BY DEF CommitFinish, tranVars, logVars, devVars
<1>3. /\ committing # NoTid /\ committing \in 0..MaxTid /\ running # committing
      /\ committing \in Int
  BY <1>1, Distinct
<1>4. \A b \in Block : freedBy'[b] = IF freedBy[b] = committing THEN NoTid ELSE freedBy[b]
  BY DEF CommitFinish
<1>5. /\ committing = (IF running # NoTid THEN nextTid - 2 ELSE nextTid - 1) /\ mounted
      /\ running # NoTid => running = nextTid - 1
      /\ nextTid \in Int /\ tail.tid \in Int /\ running \in Int
  BY <1>0, <1>3 DEF Tids, JournalTypeOK
<1>6. LastDurable = committing /\ LastDurable' = committing /\ ~InWork /\ ~InWork'
  BY <1>1, <1>2, <1>3, <1>5 DEF LastDurable, OnDisk, InWork
<1>7. \A t : InLog(t)' = InLog(t)
  BY <1>2 DEF InLog, SlotOf
<1>8. /\ \A b \in Block : want'.run[b] = want.run[b] /\ want'.com[b] = want.run[b]
                          /\ want'.dur[b] = want.dur[b]
      /\ want' \in [run : Made, com : Made, dur : Made]
  BY <1>0, <1>1 DEF JournalTypeOK
<1>9. JournalTypeOK'
  <2>1. freedBy' \in [Block -> 0..MaxTid]
    <3>1. freedBy' = [b \in Block |-> IF freedBy[b] = committing THEN NoTid ELSE freedBy[b]]
      BY DEF CommitFinish
    <3>2. \A b \in Block : freedBy[b] \in 0..MaxTid
      BY <1>0 DEF JournalTypeOK
    <3> QED
      BY <3>1, <3>2, NoTidTyped
  <2>2. checkpoints' \subseteq Tid
    BY <1>0, <1>1, <1>3 DEF JournalTypeOK, Tid, NoTid
  <2>3. committing' \in 0..MaxTid
        /\ stage' \in {"none", "locked", "flush", "write", "record", "tail", "forget"}
    BY <1>1, NoTidTyped
  <2> QED
    BY <1>0, <1>2, <1>8, <2>1, <2>2, <2>3 DEF JournalTypeOK
<1>10. Tids'
  <2>1. /\ tail.tid <= committing /\ committing - tail.tid < LogSlots
        /\ checkpoints \subseteq tail.tid..committing
        /\ nextTid - 1 - tail.tid < LogSlots
    BY <1>0, <1>3, <1>6 DEF Tids
  <2>2. checkpoints' \subseteq tail.tid..committing
    BY <1>1, <1>3, <1>5, <2>1
  <2>3. revoking = {}
    BY <1>0, <1>1 DEF Tids
  <2>4. tail.tid <= committing + 1
    BY <1>3, <1>5, <2>1
  <2> QED
    BY <1>0, <1>1, <1>2, <1>5, <1>6, <2>1, <2>2, <2>3, <2>4 DEF Tids
<1>11. LogHolds'
  BY <1>0, <1>1, <1>2, <1>6, <1>7 DEF LogHolds
<1>12. ASSUME NEW b \in Block PROVE BlockOK(b)'
  <2>0. BlockOK(b) /\ jh[b].tx # committing
    BY <1>0, <1>1
  <2>1. want.com[b] = want.dur[b] /\ stage \in OnDisk
    BY <1>1, <2>0 DEF BlockOK, Wants, OnDisk
  <2>2. Copies(b, tail.tid, LastDurable)' = Copies(b, tail.tid, LastDurable)
    BY <1>2, <1>6, <1>7 DEF Copies
  <2>3. Kept(b)' /\ Pinned(b)'
    BY <1>1, <1>2, <1>6, <1>7, <1>8, <2>0, <2>2 DEF BlockOK, Kept, Pinned, Restores
  <2>4. Wants(b)'
    BY <1>1, <1>2, <1>3, <1>6, <1>8, <2>0, <2>1 DEF BlockOK, Wants, Base, Became, OnDisk
  <2>5. Frees(b)'
    <3>1. want.run[b] = Unused /\ want.dur[b] # Unused => freedBy[b] = running
      BY <1>3, <2>0, <2>1 DEF BlockOK, Frees, Base
    <3>2. freedBy[b] = committing => want.com[b] = Unused
      BY <1>3, <2>0 DEF BlockOK, Frees
    <3>3. \/ freedBy'[b] = freedBy[b] /\ freedBy[b] # committing
          \/ freedBy'[b] = NoTid /\ freedBy[b] = committing
      BY <1>4
    <3>4. revoking = {}
      BY <1>0, <1>1 DEF Tids
    <3>5. /\ freedBy[b] # NoTid => freedBy[b] \in {running, committing} /\ want.run[b] = Unused
          /\ freedBy[b] = NoTid /\ want.run[b] = Unused => want.dur[b] = Unused
          /\ b \in revoke => freedBy[b] = running /\ running # NoTid
          /\ want.run[b] = Unused /\ want.dur[b] \in MetaC => b \in revoke
      BY <1>3, <2>0, <2>1 DEF BlockOK, Frees, Base
    <3>6. freedBy'[b] # NoTid => freedBy'[b] = running /\ want.run[b] = Unused
      BY <3>3, <3>5
    <3>7. freedBy'[b] = NoTid /\ want.run[b] = Unused => want.dur[b] = Unused
      BY <2>1, <3>2, <3>3, <3>5
    <3>8. want.run[b] = Unused /\ want.dur[b] # Unused => freedBy'[b] = running
      BY <1>3, <3>1, <3>3
    <3>9. b \in revoke => freedBy'[b] = running /\ running # NoTid
      BY <1>3, <3>3, <3>5
    <3> QED
      BY <1>1, <1>2, <1>6, <1>8, <3>4, <3>5, <3>6, <3>7, <3>8, <3>9 DEF Frees, Base
  <2>6. NoTx(b)'
    BY <1>2, <1>8, <2>0 DEF BlockOK, NoTx
  <2>7. InRunning(b)'
    <3> SUFFICES ASSUME jh[b].tx # NoTid, jh[b].tx = running PROVE InRunning(b)'
      BY <1>2 DEF InRunning
    <3>1. jh[b].list = "forget" => freedBy'[b] = running
      BY <1>3, <1>4, <2>0 DEF BlockOK, InRunning
    <3>2. jh[b].list = "reserved" => want.run[b] = want.run[b]
      OBVIOUS
    <3> QED
      BY <1>2, <1>8, <2>0, <3>1 DEF BlockOK, InRunning
  <2>8. InCommitting(b)'
    BY <1>1, <1>2 DEF InCommitting
  <2>9. Placed(b)'
    <3>1. jh[b].tx # NoTid => jh[b].tx = running /\ ~jh[b].dirty
      BY <2>0 DEF BlockOK, Placed
    <3>2. jh[b].cp # NoTid => jh[b].cp \in checkpoints'
      BY <1>1, <2>0 DEF BlockOK, Placed
    <3> QED
      BY <1>2, <1>6, <3>1, <3>2 DEF Placed
  <2>10. Recorded(b)' /\ DataWritten(b)'
    BY <1>1, <1>2, <2>0 DEF BlockOK, Recorded, DataWritten
  <2> QED
    BY <2>3, <2>4, <2>5, <2>6, <2>7, <2>8, <2>9, <2>10 DEF BlockOK
<1> QED
  BY <1>9, <1>10, <1>11, <1>12 DEF JournalIInv

(* The device is flushed before the tail passes what was written in place.  *)
LEMMA CleanupTailHolds ==
  ASSUME JournalIInv, CleanupTail
  PROVE  JournalIInv'
<1>0. JournalTypeOK /\ Tids /\ LogHolds /\ \A b \in Block : BlockOK(b)
  BY DEF JournalIInv
<1>1. mounted /\ LogTail > tail.tid /\ Flush /\ MoveTail(LogTail)
  BY DEF CleanupTail
<1>2. UNCHANGED <<jh, running, open, nextTid, committing, stage, revoking, newTail, revoke,
                  freedBy, checkpoints, slots, want, mounted>>
  BY DEF CleanupTail, tranVars, commitVars
<1>3. /\ LogTail \in 1..MaxTid + 1 /\ tail.tid \in 1..MaxTid + 1 /\ LogTail \in Int
      /\ \A t \in checkpoints : LogTail <= t
      /\ committing # NoTid => LogTail <= committing
      /\ LogTail <= LastDurable + 1
      /\ LastDurable \in Int /\ nextTid \in Int /\ LogSlots \in Int /\ checkpoints \subseteq Int
  <2>1. LastDurable \in Int /\ nextTid \in Int /\ LogSlots \in Int /\ checkpoints \subseteq Int
        /\ tail.tid \in 1..MaxTid + 1
    BY <1>0 DEF JournalTypeOK, LastDurable, Tid
  <2> QED
    BY <1>1, <2>1, LogTailIs
<1>4. /\ tail'.tid = LogTail /\ tail' \in [tid : 1..MaxTid + 1, slot : 0..LogSlots - 1]
      /\ \A t \in Int : InLog(t)' = InLog(t)
  <2>1. SlotOf(LogTail) \in 0..LogSlots - 1
    BY <1>0, <1>3, SlotOfTyped
  <2> QED
    BY <1>0, <1>1, <1>2, <1>3, <2>1, TailMoves
<1>5. LastDurable' = LastDurable /\ (InWork' <=> InWork)
  BY <1>2 DEF LastDurable, InWork
<1>6. /\ wrote' = wrote /\ \A b \in Block : disk'[b] = {wrote[b]}
      /\ disk' \in [Block -> SUBSET Content]
  BY <1>0, <1>1 DEF Flush, JournalTypeOK
<1> DEFINE lo == LogTail
<1>7. /\ lo \in 1..MaxTid + 1 /\ lo \in Int /\ lo > tail.tid /\ tail'.tid = lo
      /\ \A t \in checkpoints : lo <= t
      /\ committing # NoTid => lo <= committing
      /\ lo <= LastDurable + 1
  BY <1>1, <1>3, <1>4
<1> HIDE DEF lo
<1>8. JournalTypeOK'
  BY <1>0, <1>2, <1>4, <1>6 DEF JournalTypeOK
<1>9. Tids'
  <2>1. LastDurable - lo < LogSlots
    BY <1>0, <1>3, <1>7 DEF Tids
  <2>2. running # NoTid \/ committing # NoTid => nextTid - 1 - lo < LogSlots
    BY <1>0, <1>3, <1>7 DEF Tids
  <2>3. checkpoints \subseteq lo..LastDurable
    BY <1>0, <1>3, <1>7 DEF Tids
  <2> QED
    BY <1>0, <1>2, <1>5, <1>7, <2>1, <2>2, <2>3 DEF Tids
<1>10. \A t \in lo..LastDurable : t \in tail.tid..LastDurable /\ t \in Int
  BY <1>3, <1>7
<1>11. LogHolds'
  <2>1. stage = "record" => committing \in Int
    BY <1>0 DEF JournalTypeOK
  <2> QED
    BY <1>0, <1>2, <1>4, <1>5, <1>7, <1>10, <2>1 DEF LogHolds
<1>12. ASSUME NEW b \in Block PROVE BlockOK(b)'
  <2>0. BlockOK(b) /\ committing \in Int
    BY <1>0 DEF JournalTypeOK
  <2>1. Copies(b, tail.tid, LastDurable)' = Copies(b, lo, LastDurable)
    BY <1>4, <1>5, <1>7, <1>10 DEF Copies
  <2>2. Copies(b, lo, LastDurable) \subseteq Copies(b, tail.tid, LastDurable)
    BY <1>10 DEF Copies
  <2>3. want.dur[b] # Unused =>
          /\ Copies(b, lo, LastDurable) = {} => wrote[b] = want.dur[b]
          /\ \A t \in Copies(b, lo, LastDurable) :
               (\A u \in Copies(b, lo, LastDurable) : u <= t) => InLog(t).blocks[b] = want.dur[b]
          /\ wrote[b] # want.dur[b] =>
               \/ jh[b].cp # NoTid /\ \E t \in Copies(b, lo, LastDurable) : jh[b].cp <= t
               \/ /\ stage \in OnDisk /\ jh[b].tx = committing
                  /\ committing \in Copies(b, lo, LastDurable)
    <3>1. tail.tid <= lo
      BY <1>3, <1>7
    <3> QED
      BY <1>7, <3>1, FlushedFrom
  <2>4. want.dur[b] # Unused => Restores(b, tail.tid, LastDurable, want.dur[b])'
    <3>1. \A t \in Copies(b, lo, LastDurable) : InLog(t)' = InLog(t)
      BY <1>4, <1>10 DEF Copies
    <3> QED
      BY <1>2, <1>6, <2>1, <2>3, <3>1 DEF Restores
  <2>5. want.dur[b] # Unused /\ stage \in {"record", "tail"} /\ newTail > lo =>
          Restores(b, newTail, LastDurable, want.dur[b])'
    <3> SUFFICES ASSUME want.dur[b] # Unused, stage \in {"record", "tail"}, newTail > lo
                 PROVE  Restores(b, newTail, LastDurable, want.dur[b])'
      OBVIOUS
    <3>1. newTail \in Int /\ newTail > tail.tid
      BY <1>0, <1>3, <1>7 DEF JournalTypeOK
    <3>2. Restores(b, newTail, LastDurable, want.dur[b])
      BY <2>0, <3>1 DEF BlockOK, Kept
    <3>3. Copies(b, newTail, LastDurable)' = Copies(b, newTail, LastDurable)
      BY <1>2, <1>3, <1>4, <1>5, <3>1 DEF Copies
    <3>4. \A t \in Copies(b, newTail, LastDurable) : InLog(t)' = InLog(t)
      BY <1>3, <1>4, <3>1 DEF Copies
    <3>5. disk[b] = {want.dur[b]} => disk'[b] = {want.dur[b]}
      BY <1>6, <2>0 DEF BlockOK, DataWritten
    <3> QED
      BY <1>2, <3>2, <3>3, <3>4, <3>5 DEF Restores
  <2>6. want.dur[b] \notin MetaC => Copies(b, lo, LastDurable) = {}
    BY <2>0, <2>2 DEF BlockOK, Kept
  <2>7. Kept(b)'
    BY <1>2, <1>7, <2>1, <2>4, <2>5, <2>6 DEF Kept
  <2>8. Pinned(b)'
    BY <1>2, <1>6, <2>1, <2>3 DEF Pinned
  <2>9. Wants(b)' /\ Frees(b)'
    BY <1>2, <1>5, <2>0 DEF BlockOK, Wants, Frees, Base, Became
  <2>10. NoTx(b)' /\ InRunning(b)'
    BY <1>2, <1>6, <2>0 DEF BlockOK, NoTx, InRunning
  <2>11. InCommitting(b)'
    BY <1>2, <1>4, <2>0 DEF BlockOK, InCommitting
  <2>12. Placed(b)' /\ Recorded(b)'
    BY <1>2, <1>4, <1>5, <2>0 DEF BlockOK, Placed, Recorded
  <2>13. DataWritten(b)'
    BY <1>2, <1>6, <2>0 DEF BlockOK, DataWritten
  <2> QED
    BY <2>7, <2>8, <2>9, <2>10, <2>11, <2>12, <2>13 DEF BlockOK
<1> QED
  BY <1>8, <1>9, <1>11, <1>12 DEF JournalIInv

-----------------------------------------------------------------------------
(* Recovery.                                                                *)

(* What replay makes of a block, whatever the device has lost: the durable  *)
(* content, or for a free block what it had.                                *)
LEMMA ReplayIs ==
  ASSUME JournalIInv, NEW d \in Survivors, NEW b \in Block
  PROVE  /\ want.dur[b] # Unused => Replayed(d)[b] = want.dur[b]
         /\ want.dur[b] = Unused => Replayed(d)[b] = d[b]
         /\ d[b] \in Content
<1>0. JournalTypeOK /\ Tids /\ LogHolds /\ BlockOK(b)
  BY DEF JournalIInv
<1>1. Logged = tail.tid..LastDurable /\ LastDurable \in -1..MaxTid /\ tail.tid \in 1..MaxTid + 1
  BY <1>0, LogEndIs DEF JournalTypeOK
<1>2. d[b] \in disk[b] /\ disk[b] \subseteq Content
  BY <1>0 DEF Survivors, JournalTypeOK
<1> DEFINE copies == {t \in Logged : b \in DOMAIN InLog(t).blocks /\ ~Revoked(b, t)}
<1> DEFINE C == Copies(b, tail.tid, LastDurable)
<1>3. copies = C
  <2>1. ASSUME NEW t \in tail.tid..LastDurable
        PROVE  ~Revoked(b, t) <=> \A u \in t..LastDurable : b \notin InLog(u).revokes
    <3>1. \A u : u \in t..LastDurable <=> u \in tail.tid..LastDurable /\ u >= t
      BY <1>1
    <3> QED
      BY <1>1, <3>1 DEF Revoked
  <2> QED
    BY <1>1, <2>1 DEF Copies
<1>4. Replayed(d)[b] = IF copies = {} THEN d[b]
                       ELSE InLog(CHOOSE t \in copies : \A u \in copies : u <= t).blocks[b]
  BY DEF Replayed
<1>5. Replayed(d)[b] = IF C = {} THEN d[b]
                       ELSE InLog(CHOOSE t \in C : \A u \in C : u <= t).blocks[b]
  BY <1>3, <1>4
<1>6. C \in SUBSET Nat /\ \A t \in C : t <= MaxTid
  BY <1>1 DEF Copies
<1>7. C = Copies(b, tail.tid, LastDurable)
  OBVIOUS
<1> HIDE DEF C, copies
<1>8. CASE want.dur[b] = Unused
  <2>1. C = {}
    BY <1>0, <1>7, <1>8, UnusedIsNoContent DEF BlockOK, Kept
  <2> QED
    BY <1>2, <1>5, <1>8, <2>1
<1>9. CASE want.dur[b] # Unused
  <2>1. Restores(b, tail.tid, LastDurable, want.dur[b])
    BY <1>0, <1>9 DEF BlockOK, Kept
  <2>2. CASE C = {}
    BY <1>2, <1>5, <1>7, <1>9, <2>1, <2>2 DEF Restores
  <2>3. CASE C # {}
    <3>1. \E t \in C : \A u \in C : u <= t
      BY <1>6, <2>3, GreatestOf
    <3> DEFINE t == CHOOSE t \in C : \A u \in C : u <= t
    <3>2. t \in C /\ \A u \in C : u <= t
      BY <3>1
    <3>3. Replayed(d)[b] = InLog(t).blocks[b]
      BY <1>5, <2>3
    <3> HIDE DEF t
    <3> QED
      BY <1>2, <1>7, <1>9, <2>1, <3>2, <3>3 DEF Restores
  <2> QED
    BY <2>2, <2>3
<1> QED
  BY <1>8, <1>9

LEMMA JournalIInvRecovers ==
  ASSUME JournalIInv
  PROVE  RecoversDurable
BY ReplayIs DEF RecoversDurable

LEMMA CleanTyped ==
  ASSUME NEW content \in Content
  PROVE  Clean(content) \in JournalHead
<1>1. NoTid \in 0..MaxTid
  BY NoTidTyped
<1> QED
  BY <1>1 DEF Clean, JournalHead

(* After a crash, also one during recovery, the invariant holds of the      *)
(* durable contents alone: a block that is free in them can have any        *)
(* content.                                                                 *)
LEMMA CrashHolds ==
  ASSUME JournalIInv, Crash
  PROVE  JournalIInv'
<1>0. JournalTypeOK /\ Tids /\ LogHolds /\ \A b \in Block : BlockOK(b)
  BY DEF JournalIInv
<1>1. PICK d \in Survivors :
         wrote' = Replayed(d) /\ disk' = [b \in Block |-> {d[b], wrote'[b]}]
  BY DEF Crash
<1>2. /\ LogEnd < MaxTid /\ jh' = [b \in Block |-> Clean(wrote'[b])]
      /\ running' = NoTid /\ open' = FALSE /\ nextTid' = LogEnd + 1
      /\ committing' = NoTid /\ stage' = "none" /\ revoking' = {} /\ newTail' = tail.tid
      /\ revoke' = {} /\ checkpoints' = {}
      /\ freedBy' = [b \in Block |-> NoTid]
      /\ want' = [want EXCEPT !.run = want.dur, !.com = want.dur]
      /\ mounted' = FALSE /\ UNCHANGED <<tail, slots>>
  BY DEF Crash, logVars
<1>3. /\ LogEnd = LastDurable + 1 /\ LastDurable \in -1..MaxTid /\ tail.tid \in 1..MaxTid + 1
      /\ tail.tid <= LastDurable + 1 /\ LastDurable - tail.tid < LogSlots
  BY <1>0, LogEndIs DEF JournalTypeOK, Tids
<1>4. LastDurable' = LastDurable /\ ~InWork'
  BY <1>2, <1>3 DEF LastDurable, InWork
<1>5. \A t : InLog(t)' = InLog(t)
  BY <1>2 DEF InLog, SlotOf
<1>6. nextTid' \in 2..MaxTid
  BY <1>2, <1>3
<1>7. \A b \in Block : /\ want.dur[b] # Unused => wrote'[b] = want.dur[b]
                       /\ want.dur[b] = Unused => wrote'[b] = d[b]
                       /\ d[b] \in Content /\ wrote'[b] \in Content
  <2> SUFFICES ASSUME NEW b \in Block
               PROVE  /\ want.dur[b] # Unused => wrote'[b] = want.dur[b]
                      /\ want.dur[b] = Unused => wrote'[b] = d[b]
                      /\ d[b] \in Content /\ wrote'[b] \in Content
    OBVIOUS
  <2>1. /\ want.dur[b] # Unused => Replayed(d)[b] = want.dur[b]
        /\ want.dur[b] = Unused => Replayed(d)[b] = d[b]
        /\ d[b] \in Content
    BY ReplayIs
  <2>2. want.dur[b] \in Content \cup {Unused}
    BY <1>0, HeadTyped
  <2> QED
    BY <1>1, <2>1, <2>2
<1>8. /\ want' \in [run : Made, com : Made, dur : Made]
      /\ want'.run = want.dur /\ want'.com = want.dur /\ want'.dur = want.dur
  BY <1>0, <1>2 DEF JournalTypeOK
<1>9. JournalTypeOK'
  <2>1. jh' \in [Block -> JournalHead]
    BY <1>2, <1>7, CleanTyped
  <2>2. wrote' \in [Block -> Content]
    <3>1. wrote' = [b \in Block |-> wrote'[b]]
      BY <1>1 DEF Replayed
    <3> QED
      BY <1>7, <3>1
  <2>3. disk' \in [Block -> SUBSET Content]
    BY <1>1, <1>7
  <2>4. freedBy' \in [Block -> 0..MaxTid]
    BY <1>2, NoTidTyped
  <2>5. nextTid' \in 1..MaxTid + 1 /\ newTail' \in 1..MaxTid + 1
    BY <1>2, <1>3, <1>6
  <2>6. /\ running' \in 0..MaxTid /\ committing' \in 0..MaxTid /\ open' \in BOOLEAN
        /\ stage' \in {"none", "locked", "flush", "write", "record", "tail", "forget"}
        /\ revoke' \subseteq Block /\ revoking' \subseteq Block /\ checkpoints' \subseteq Tid
        /\ mounted' \in BOOLEAN
    BY <1>2, NoTidTyped
  <2>7. tail' \in [tid : 1..MaxTid + 1, slot : 0..LogSlots - 1]
        /\ slots' \in [0..LogSlots - 1 -> LogCell]
    BY <1>0, <1>2 DEF JournalTypeOK
  <2> QED
    BY <1>8, <2>1, <2>2, <2>3, <2>4, <2>5, <2>6, <2>7 DEF JournalTypeOK
<1>10. Tids'
  BY <1>2, <1>3, <1>4, <1>6 DEF Tids
<1>11. LogHolds'
  BY <1>0, <1>2, <1>4, <1>5 DEF LogHolds
<1>12. ASSUME NEW b \in Block PROVE BlockOK(b)'
  <2>0. BlockOK(b)
    BY <1>0
  <2>1. /\ jh'[b] = Clean(wrote'[b]) /\ disk'[b] = {d[b], wrote'[b]} /\ freedBy'[b] = NoTid
        /\ want'.run[b] = want.dur[b] /\ want'.com[b] = want.dur[b]
        /\ want'.dur[b] = want.dur[b]
    BY <1>1, <1>2, <1>8
  <2>2. /\ jh'[b].data = wrote'[b] /\ ~jh'[b].dirty /\ jh'[b].tx = NoTid /\ jh'[b].next = NoTid
        /\ jh'[b].list = "none" /\ ~jh'[b].jbddirty /\ ~jh'[b].freed
        /\ jh'[b].frozen = Unfrozen /\ jh'[b].cp = NoTid
    BY <2>1 DEF Clean
  <2>3. Copies(b, tail.tid, LastDurable)' = Copies(b, tail.tid, LastDurable)
    BY <1>2, <1>4, <1>5 DEF Copies
  <2>a. Base(b)' = want.dur[b]
    BY <1>2, <2>1 DEF Base
  <2>b. Wants(b)'
    BY <1>2, <1>4, <2>1, <2>a DEF Wants, Became, OnDisk
  <2>c. Frees(b)'
    BY <1>2, <1>4, <2>1, <2>a, UnusedIsNoContent DEF Frees
  <2>4. Wants(b)' /\ Frees(b)'
    BY <2>b, <2>c
  <2>5. NoTx(b)'
    BY <1>7, <2>1, <2>2, UnusedIsNoContent DEF NoTx
  <2>6. InRunning(b)' /\ InCommitting(b)' /\ Placed(b)'
    BY <1>4, <2>2 DEF InRunning, InCommitting, Placed
  <2>7. Recorded(b)' /\ DataWritten(b)'
    BY <1>2, <2>1 DEF Recorded, DataWritten
  <2>8. Kept(b)'
    <3>1. want.dur[b] # Unused => Restores(b, tail.tid, LastDurable, want.dur[b])
      BY <2>0 DEF BlockOK, Kept
    <3>2. d[b] \in disk[b]
      BY DEF Survivors
    <3>3. disk[b] = {want.dur[b]} /\ want.dur[b] # Unused => disk'[b] = {want.dur[b]}
      BY <1>7, <2>1, <3>2
    <3>4. want.dur[b] # Unused => Restores(b, tail.tid, LastDurable, want.dur[b])'
      BY <1>2, <1>5, <2>1, <2>3, <3>1, <3>3 DEF Restores
    <3>5. want.dur[b] \notin MetaC => Copies(b, tail.tid, LastDurable) = {}
      BY <2>0 DEF BlockOK, Kept
    <3> QED
      BY <1>2, <2>1, <2>3, <3>4, <3>5 DEF Kept
  <2>9. Pinned(b)'
    BY <1>7, <2>1 DEF Pinned
  <2> QED
    BY <2>4, <2>5, <2>6, <2>7, <2>8, <2>9 DEF BlockOK
<1> QED
  BY <1>9, <1>10, <1>11, <1>12 DEF JournalIInv

(* The log is emptied only when all of it has been replayed and flushed.    *)
LEMMA ResetHolds ==
  ASSUME JournalIInv, Reset
  PROVE  JournalIInv'
<1>0. JournalTypeOK /\ Tids /\ LogHolds /\ \A b \in Block : BlockOK(b)
  BY DEF JournalIInv
<1>1. ~mounted /\ mounted' = TRUE /\ Flush /\ tail' = [tid |-> nextTid, slot |-> 0]
  BY DEF Reset
<1>2. UNCHANGED <<jh, running, open, nextTid, committing, stage, revoking, newTail, revoke,
                  freedBy, checkpoints, slots, want>>
  BY DEF Reset, tranVars, commitVars
<1>3. running = NoTid /\ committing = NoTid /\ stage = "none" /\ checkpoints = {}
  BY <1>0, <1>1 DEF Tids
<1>4. /\ LastDurable = nextTid - 2 /\ LastDurable' = nextTid - 1 /\ ~InWork /\ ~InWork'
      /\ nextTid \in 1..MaxTid + 1 /\ tail'.tid = nextTid
  BY <1>0, <1>1, <1>2, <1>3 DEF LastDurable, InWork, JournalTypeOK
<1>5. /\ wrote' = wrote /\ \A b \in Block : disk'[b] = {wrote[b]}
      /\ disk' \in [Block -> SUBSET Content]
  BY <1>0, <1>1 DEF Flush, JournalTypeOK
<1>6. JournalTypeOK'
  BY <1>0, <1>1, <1>2, <1>4, <1>5 DEF JournalTypeOK
<1>7. Tids'
  <2>1. (nextTid - 1) - nextTid < LogSlots /\ nextTid <= (nextTid - 1) + 1
    BY <1>4
  <2> QED
    BY <1>0, <1>1, <1>2, <1>3, <1>4, <2>1 DEF Tids
<1>8. LogHolds'
  <2>1. \A s \in 0..LogSlots - 1 : slots[s].tid \in Int /\ slots[s].tid <= nextTid - 2
    BY <1>0, <1>4 DEF LogHolds, JournalTypeOK, LogCell
  <2>2. nextTid..nextTid - 1 = {}
    BY <1>4
  <2>3. \A s \in 0..LogSlots - 1 : slots[s].tid <= nextTid - 1
    BY <1>4, <2>1
  <2> QED
    BY <1>2, <1>3, <1>4, <2>2, <2>3 DEF LogHolds
<1>9. ASSUME NEW b \in Block PROVE BlockOK(b)'
  <2>0. BlockOK(b)
    BY <1>0
  <2>1. want.dur[b] # Unused => wrote[b] = want.dur[b]
    BY <1>3, <2>0 DEF BlockOK, Placed, Pinned, OnDisk
  <2>2. Copies(b, tail.tid, LastDurable)' = {}
    BY <1>4 DEF Copies
  <2>3. Kept(b)' /\ Pinned(b)'
    BY <1>2, <1>3, <1>5, <2>1, <2>2 DEF Kept, Pinned, Restores
  <2>4. Wants(b)' /\ Frees(b)'
    BY <1>2, <1>3, <1>4, <2>0 DEF BlockOK, Wants, Frees, Base, Became
  <2>5. NoTx(b)' /\ InRunning(b)' /\ InCommitting(b)'
    BY <1>2, <1>3, <1>5, <2>0 DEF BlockOK, NoTx, InRunning, InCommitting
  <2>6. Placed(b)' /\ Recorded(b)' /\ DataWritten(b)'
    BY <1>2, <1>3, <1>4, <1>5, <2>0 DEF BlockOK, Placed, Recorded, DataWritten
  <2> QED
    BY <2>3, <2>4, <2>5, <2>6 DEF BlockOK
<1> QED
  BY <1>6, <1>7, <1>8, <1>9 DEF JournalIInv

-----------------------------------------------------------------------------
(* The invariant holds of every state.                                      *)

LEMMA InitHolds ==
  ASSUME JournalInit
  PROVE  JournalIInv
<1>1. /\ jh = [b \in Block |-> Clean(0)]
      /\ running = NoTid /\ open = FALSE /\ nextTid = 1
      /\ committing = NoTid /\ stage = "none"
      /\ revoke = {} /\ revoking = {} /\ checkpoints = {}
      /\ freedBy = [b \in Block |-> NoTid]
      /\ tail = [tid |-> 1, slot |-> 0] /\ newTail = 1
      /\ slots = [s \in 0..LogSlots - 1 |->
                    [tid |-> NoTid, blocks |-> [b \in {} |-> 0], revokes |-> {}]]
      /\ wrote = [b \in Block |-> 0] /\ disk = [b \in Block |-> {0}]
      /\ want = [run |-> wrote, com |-> wrote, dur |-> wrote]
      /\ mounted = TRUE
  BY DEF JournalInit
<1>2. 0 \in Content /\ NoTid \in 0..MaxTid
  BY NoTidTyped DEF Content
<1>3. JournalTypeOK
  <2>1. jh \in [Block -> JournalHead]
    BY <1>1, <1>2, CleanTyped
  <2>2. slots \in [0..LogSlots - 1 -> LogCell]
    <3> DEFINE none == [b \in {} |-> 0]
    <3>1. none \in [{} -> Content] /\ {} \in SUBSET Block
      BY <1>2
    <3>2. none \in UNION {[bs -> Content] : bs \in SUBSET Block}
      BY <3>1
    <3> HIDE DEF none
    <3>3. [tid |-> NoTid, blocks |-> none, revokes |-> {}] \in LogCell
      BY <1>2, <3>1, <3>2 DEF LogCell
    <3> QED
      BY <1>1, <3>3 DEF none
  <2>3. want \in [run : Made, com : Made, dur : Made]
    <3>1. wrote \in Made
      BY <1>1, <1>2 DEF Made
    <3> QED
      BY <1>1, <3>1
  <2>4. tail \in [tid : 1..MaxTid + 1, slot : 0..LogSlots - 1]
    BY <1>1
  <2>5. wrote \in [Block -> Content] /\ disk \in [Block -> SUBSET Content]
        /\ freedBy \in [Block -> 0..MaxTid]
    BY <1>1, <1>2
  <2>6. nextTid \in 1..MaxTid + 1 /\ newTail \in 1..MaxTid + 1
    BY <1>1
  <2>7. /\ running \in 0..MaxTid /\ committing \in 0..MaxTid /\ open \in BOOLEAN
        /\ stage \in {"none", "locked", "flush", "write", "record", "tail", "forget"}
        /\ revoke \subseteq Block /\ revoking \subseteq Block /\ checkpoints \subseteq Tid
        /\ mounted \in BOOLEAN
    BY <1>1, <1>2
  <2> QED
    BY <2>1, <2>2, <2>3, <2>4, <2>5, <2>6, <2>7 DEF JournalTypeOK
<1>4. LastDurable = 0 /\ ~InWork /\ tail.tid = 1 /\ 1..0 = {}
  BY <1>1 DEF LastDurable, InWork
<1>5. Tids
  BY <1>1, <1>4 DEF Tids
<1>6. LogHolds
  BY <1>1, <1>4 DEF LogHolds, NoTid
<1>7. ASSUME NEW b \in Block PROVE BlockOK(b)
  <2>1. /\ jh[b].data = 0 /\ ~jh[b].dirty /\ jh[b].tx = NoTid /\ jh[b].next = NoTid
        /\ jh[b].list = "none" /\ ~jh[b].jbddirty /\ ~jh[b].freed
        /\ jh[b].frozen = Unfrozen /\ jh[b].cp = NoTid
    BY <1>1 DEF Clean
  <2>2. /\ want.run[b] = 0 /\ want.com[b] = 0 /\ want.dur[b] = 0 /\ wrote[b] = 0 /\ disk[b] = {0}
        /\ freedBy[b] = NoTid /\ 0 # Unused
    BY <1>1 DEF Unused
  <2>3. Copies(b, tail.tid, LastDurable) = {}
    BY <1>4 DEF Copies
  <2>4. Wants(b) /\ Frees(b)
    BY <1>1, <1>4, <2>2 DEF Wants, Frees, Base, Became, OnDisk
  <2>5. NoTx(b) /\ InRunning(b) /\ InCommitting(b) /\ Placed(b)
    BY <1>4, <2>1, <2>2 DEF NoTx, InRunning, InCommitting, Placed
  <2>6. Recorded(b) /\ DataWritten(b)
    BY <1>1, <2>2 DEF Recorded, DataWritten
  <2>7. Kept(b) /\ Pinned(b)
    BY <1>1, <2>2, <2>3 DEF Kept, Pinned, Restores
  <2> QED
    BY <2>4, <2>5, <2>6, <2>7 DEF BlockOK
<1> QED
  BY <1>3, <1>5, <1>6, <1>7 DEF JournalIInv

LEMMA JournalStutters ==
  ASSUME JournalIInv, UNCHANGED jnlVars
  PROVE  JournalIInv'
<1>1. UNCHANGED <<jh, running, open, nextTid, committing, stage, revoking, newTail, revoke, freedBy,
                  checkpoints, tail, slots, disk, wrote, want, mounted>>
  BY DEF jnlVars
<1>2. Still
  BY <1>1 DEF Still
<1>3. JournalTypeOK'
  BY <1>1 DEF JournalIInv, JournalTypeOK
<1>4. \A b \in Block : Same(b)
  BY <1>1 DEF Same
<1>5. Tids' /\ LogHolds'
  BY <1>2, StillTids DEF JournalIInv
<1>6. \A b \in Block : BlockOK(b)'
  BY <1>2, <1>4, SameBlock DEF JournalIInv
<1> QED
  BY <1>3, <1>5, <1>6 DEF JournalIInv

LEMMA JournalStepHolds ==
  ASSUME JournalIInv, [JournalNext]_jnlVars
  PROVE  JournalIInv'
<1>1. CASE StartHandle
  BY <1>1, StartHandleHolds
<1>2. CASE StopHandle
  BY <1>2, StopHandleHolds
<1>3. ASSUME NEW b \in Block, GetWriteAccess(b) PROVE JournalIInv'
  BY <1>3, GetWriteAccessHolds
<1>4. ASSUME NEW b \in Block, DirtyMetadata(b) PROVE JournalIInv'
  BY <1>4, DirtyMetadataHolds
<1>5. ASSUME NEW b \in Block, CreateMetadata(b) PROVE JournalIInv'
  BY <1>5, CreateMetadataHolds
<1>6. ASSUME NEW b \in Block, FreeMetadata(b) PROVE JournalIInv'
  BY <1>6, FreeMetadataHolds
<1>7. ASSUME NEW b \in Block, AllocateData(b) PROVE JournalIInv'
  BY <1>7, AllocateDataHolds
<1>8. ASSUME NEW b \in Block, WriteData(b) PROVE JournalIInv'
  BY <1>8, WriteDataHolds
<1>9. ASSUME NEW b \in Block, FreeData(b) PROVE JournalIInv'
  BY <1>9, FreeDataHolds
<1>10. ASSUME NEW b \in Block, CommitWrite(b) PROVE JournalIInv'
  BY <1>10, CommitWriteHolds
<1>11. ASSUME NEW b \in Block, CommitForget(b) PROVE JournalIInv'
  BY <1>11, CommitForgetHolds
<1>12. ASSUME NEW b \in Block, WriteBuffer(b) PROVE JournalIInv'
  BY <1>12, WriteBufferHolds
<1>13. ASSUME NEW b \in Block, RemoveCheckpoint(b) PROVE JournalIInv'
  BY <1>13, RemoveCheckpointHolds
<1>14. CASE CommitLock
  BY <1>14, CommitLockHolds
<1>15. CASE CommitSwitch
  BY <1>15, CommitSwitchHolds
<1>16. CASE CommitData
  BY <1>16, CommitDataHolds
<1>17. CASE CommitIO
  BY <1>17, CommitIOHolds
<1>18. CASE CommitRecord
  BY <1>18, CommitRecordHolds
<1>19. CASE CommitTail
  BY <1>19, CommitTailHolds
<1>20. CASE CommitFinish
  BY <1>20, CommitFinishHolds
<1>21. CASE CleanupTail
  BY <1>21, CleanupTailHolds
<1>22. CASE Crash
  BY <1>22, CrashHolds
<1>23. CASE Reset
  BY <1>23, ResetHolds
<1>24. CASE UNCHANGED jnlVars
  BY <1>24, JournalStutters
<1> QED
  BY <1>1, <1>2, <1>3, <1>4, <1>5, <1>6, <1>7, <1>8, <1>9, <1>10, <1>11, <1>12, <1>13, <1>14,
     <1>15, <1>16, <1>17, <1>18, <1>19, <1>20, <1>21, <1>22, <1>23, <1>24 DEF JournalNext

(* Whatever number of blocks, slots and transactions, and wherever power    *)
(* fails: recovery (do_one_pass) brings back what the last durable          *)
(* transaction made of the blocks.                                          *)
THEOREM JournalRecovers == JournalSpec => []RecoversDurable
<1>1. JournalInit => JournalIInv
  BY InitHolds
<1>2. JournalIInv /\ [JournalNext]_jnlVars => JournalIInv'
  BY JournalStepHolds
<1>3. JournalIInv => RecoversDurable
  BY JournalIInvRecovers
<1> QED
  BY <1>1, <1>2, <1>3, PTL DEF JournalSpec

-----------------------------------------------------------------------------
(* Fast commits.                                                            *)
USE FastCommitAssumption

(* What inodes, or their directory entries, contain; what a fast commit has *)
(* of some of them; a fast commit; a thread's fsync.                        *)
FcContents == [Inode -> Nat]

FcParts == UNION {[S -> Nat] : S \in SUBSET Inode}

FcCommits == [tid : Nat, ino : FcParts, entry : FcParts]

FcStages == {"idle", "begin", "wait", "woken", "check", "lock", "mark", "write", "io",
             "end", "failed", "fallback", "complete"}

FcSyncRecords ==
  [pc : FcStages, on : Inode \cup {NoInode}, tid : Nat, must : Nat, subtid : Nat]

(* The types that the proofs need: numbers without bounds, the shape of     *)
(* every record.                                                            *)
FcTyped ==
  /\ tran \in [running : Nat, committed : Nat, next : Nat,
               full : {"none", "wait", "locked", "write", "callback", "cleaned"},
               ctid : Nat]
  /\ flags \subseteq {"full", "fast"}
  /\ handle \in [Inode -> [tid : Nat, step : {"none", "open", "tracked"}, n : Nat]]
  /\ ino \in [Inode -> [data : Nat, sync : Nat, list : {"none"} \cup Queue,
                        committing : BOOLEAN]]
  /\ entry \in FcContents /\ promised \in FcContents /\ handles \in Nat
  /\ updates \in [Queue -> SUBSET (Inode \X Nat)]
  /\ inel \in [on : BOOLEAN, tid : Nat]
  /\ sync \in [Syncer -> FcSyncRecords]
  /\ subtid \in Nat
  /\ area \in [seq : Seq(FcCommits), off : Nat, written : BOOLEAN]
  /\ log \in [ino : FcContents, entry : FcContents, start : BOOLEAN, stats : BOOLEAN,
              com : [ino : FcContents, entry : FcContents]]

(* The stages of the one thread that makes a fast commit.                   *)
Fasting == {"check", "lock", "mark", "write", "io", "end", "failed", "fallback"}

(* The last transaction that commits or has committed.                      *)
FcLast == IF tran.full = "write" THEN tran.committed + 1 ELSE tran.committed

(* What replay makes of i if all of the area reached the device.            *)
Recovers(i) == FcReplayed(area.seq).ino[i]

(* The handle of i tracked its inode and not yet its entry.                 *)
Ends(i) == handle[i].step = "tracked"

(* The commit of thread t may return to it: what it syncs is recovered.     *)
Enough(i, t) == sync[t].on = i => sync[t].must <= Recovers(i)

(* Queue q has an entry of i; it has the one that i's last change made.     *)
Named(q, i) == \E n \in Nat : <<i, n>> \in updates[q]

Newest(q, i) == <<i, ino[i].data>> \in updates[q]

(* The staging queues are empty.                                            *)
NoneStaged == updates["staging"] = {} /\ \A i \in Inode : ino[i].list # "staging"

(* How the numbers of the transactions lie, and what the flags say of the   *)
(* journal thread: a fast commit and the writing of a full one exclude each *)
(* other.                                                                   *)
FcNumbers ==
  /\ tran.ctid = IF tran.full = "write" THEN tran.committed + 1 ELSE NoTran
  /\ tran.running \in {NoTran, FcLast + 1}
  /\ tran.next = IF tran.running = NoTran THEN FcLast + 1 ELSE FcLast + 2
  /\ tran.full \in {"wait", "locked"} => tran.running # NoTran
  /\ tran.full # "none" => "full" \in flags
  /\ "full" \in flags /\ tran.full = "none" => tran.running # NoTran
  /\ tran.full \notin {"none", "wait"} => "fast" \notin flags

(* One thread at most makes a fast commit, under the flag and with a        *)
(* running transaction; past its check nothing made the file system         *)
(* ineligible.                                                              *)
FcThreads ==
  /\ "fast" \in flags => \E t \in Syncer : sync[t].pc \in Fasting
  /\ \A t \in Syncer : sync[t].pc \in Fasting => "fast" \in flags /\ tran.running # NoTran
  /\ \A t, u \in Syncer : sync[t].pc \in Fasting /\ sync[u].pc \in Fasting => t = u
  /\ \A t \in Syncer : sync[t].pc \in {"lock", "mark", "write", "io", "end"} => ~inel.on

(* A handle belongs to the running transaction, so that no full commit and  *)
(* no fast one cuts it in two; queues name nothing newer than memory.       *)
FcHandles ==
  \A i \in Inode :
    /\ handle[i].step # "none" => handle[i].tid = tran.running /\ tran.running # NoTran
    /\ handle[i].step = "open" => ino[i].data < handle[i].n
    /\ Ends(i) => ino[i].sync = tran.running /\ handle[i].n = ino[i].data
    /\ handle[i].n <= handles /\ ino[i].data <= handles /\ ino[i].sync < tran.next
    /\ entry[i] = ino[i].data
    /\ \A q \in Queue : \A n \in Nat : <<i, n>> \in updates[q] => n <= ino[i].data

(* An inode whose i_sync_tid has committed is on disk as it is in memory.   *)
FcLog ==
  \A i \in Inode :
    /\ log.ino[i] = log.entry[i]
    /\ ino[i].sync <= tran.committed => log.ino[i] = ino[i].data
    /\ tran.full = "write" =>
         /\ log.com.ino[i] = log.com.entry[i]
         /\ log.ino[i] <= log.com.ino[i] /\ log.com.ino[i] <= ino[i].data
         /\ promised[i] <= log.com.ino[i]
         /\ ino[i].sync <= tran.ctid => log.com.ino[i] = ino[i].data

(* What an fsync relies on: when the transaction it names has committed,    *)
(* the change it is called for is on disk.                                  *)
Asks(s) ==
  /\ s.on \in Inode /\ s.must <= ino[s.on].data /\ s.tid < tran.next
  /\ s.tid <= tran.committed => s.must <= log.ino[s.on]
  /\ tran.full = "write" /\ s.tid <= tran.ctid => s.must <= log.com.ino[s.on]

FcSyncs == \A t \in Syncer : sync[t].pc # "idle" => Asks(sync[t])

(* Fast commits count for the running transaction alone: the next one       *)
(* follows those of this transaction, and those of an earlier one are dead  *)
(* by their tid.                                                            *)
FcArea ==
  /\ area.off = 0 \/ area.off = Len(area.seq)
  /\ area.off # 0 =>
       /\ tran.full \in {"none", "wait"} /\ tran.running # NoTran
       /\ \A k \in 1..Len(area.seq) : area.seq[k].tid = tran.committed + 1
  /\ area.off = 0 =>
       \A k \in 1..Len(area.seq) :
         area.seq[k].tid <= IF tran.full \in {"locked", "write"} THEN tran.committed + 1
                            ELSE tran.committed
  /\ ~area.written => area.off # 0 /\ \E t \in Syncer : sync[t].pc = "io"

(* What replay of seq makes of each inode: whole, with its entry; not older *)
(* than an fsync promised, or than the last full commit, nor newer than     *)
(* memory.                                                                  *)
FcSound(seq) ==
  \A i \in Inode :
    /\ FcReplayed(seq).ino[i] \in Nat
    /\ FcReplayed(seq).ino[i] = FcReplayed(seq).entry[i]
    /\ promised[i] <= FcReplayed(seq).ino[i]
    /\ log.ino[i] <= FcReplayed(seq).ino[i]
    /\ FcReplayed(seq).ino[i] <= ino[i].data

FcGood == \A seq \in FcSurvivors : FcSound(seq)

(* An inode while no commit goes on: it waits in the main queue with its    *)
(* newest entry, or it is recovered already, unless the next commit is a    *)
(* full one anyway.                                                         *)
InQuiet(i) ==
  \/ inel.on
  \/ ino[i].list = "main" /\ (Ends(i) \/ Newest("main", i))
  \/ Recovers(i) = ino[i].data /\ ~Ends(i) /\ (Named("main", i) => Newest("main", i))

(* The transaction that a full commit makes, or made, durable.              *)
Target == IF tran.full = "write" THEN tran.ctid
          ELSE IF tran.full = "callback" THEN tran.committed ELSE tran.running

(* An inode during a full commit: it is covered by the commit, or it        *)
(* changed since and waits in the queues that the commit leaves.            *)
InFull(i) ==
  \/ ino[i].sync <= Target /\ (Ends(i) \/ (Named("staging", i) => Newest("staging", i)))
  \/ ino[i].sync > Target /\ ino[i].list # "none" /\ (Ends(i) \/ Newest("staging", i))
  \/ ino[i].sync > Target /\ inel.on /\ inel.tid > Target

(* An inode during a fast commit, before its blocks are written: still as   *)
(* it will be written; changed since, so that it waits in the staging       *)
(* queue, and what it is written with is what is recovered; or recovered    *)
(* already.                                                                 *)
InFast(i, t) ==
  \/ ino[i].list = "main" /\ ~Named("staging", i) /\ (Ends(i) \/ Newest("main", i))
  \/ /\ ino[i].list = "staging" /\ (Ends(i) \/ Newest("staging", i))
     /\ \A n \in Nat : <<i, n>> \in updates["main"] => n <= Recovers(i)
     /\ Named("main", i) => <<i, Recovers(i)>> \in updates["main"]
     /\ Enough(i, t)
  \/ /\ Recovers(i) = ino[i].data /\ ~Ends(i) /\ ino[i].list # "staging"
     /\ ~Named("staging", i) /\ (Named("main", i) => Newest("main", i))

(* And after: recovered, or staged.                                         *)
InIo(i) ==
  \/ /\ ino[i].list # "staging" /\ Recovers(i) = ino[i].data /\ ~Ends(i)
     /\ ~Named("staging", i)
  \/ ino[i].list = "staging" /\ (Ends(i) \/ Newest("staging", i))

(* The phases.  After every commit the queues hold what it does not cover.  *)
FcQuiet ==
  flags = {} \/ tran.full = "cleaned" \/ (\E t \in Syncer : sync[t].pc = "end") =>
    NoneStaged /\ \A i \in Inode : InQuiet(i)

FcFull ==
  flags = {"full"} /\ tran.full # "cleaned" => \A i \in Inode : InFull(i)

FcFast ==
  \A t \in Syncer :
    /\ sync[t].pc \in {"check", "lock", "mark", "write"} /\ ~inel.on =>
         \A i \in Inode : InFast(i, t)
    /\ sync[t].pc \in {"write", "io"} =>
         \A i \in Inode : ino[i].list = "main" => ino[i].committing /\ ~Ends(i)
    /\ sync[t].pc = "io" /\ log.start => \A i \in Inode : InIo(i) /\ Enough(i, t)
    /\ sync[t].pc = "end" => \A i \in Inode : Enough(i, t)
    /\ sync[t].pc = "fallback" => NoneStaged

(* All of this.                                                             *)
FcOrder ==
  /\ FcTyped /\ FcNumbers /\ FcThreads /\ FcHandles /\ FcLog /\ FcSyncs /\ FcArea /\ FcGood
  /\ FcQuiet /\ FcFull /\ FcFast

(* The inductive invariant: it holds until an update escapes the queues.    *)
FcIInv == windows = {} => FcOrder

(* Replay in steps: the commits that the scan accepts, those of them that   *)
(* hold i, and the last of them.                                            *)
FcValid(seq) == {k \in 1..Len(seq) : \A j \in 1..k : seq[j].tid = tran.committed + 1}

FcHas(seq, i, part) == {k \in FcValid(seq) : i \in DOMAIN seq[k][part]}

FcFinal(S) == CHOOSE k \in S : \A j \in S : j <= k

LEMMA FcReplayIs ==
  ASSUME NEW seq, NEW i \in Inode, NEW part \in {"ino", "entry"}
  PROVE  FcReplayed(seq)[part][i] =
           IF ~log.start \/ FcHas(seq, i, part) = {} THEN log[part][i]
           ELSE seq[FcFinal(FcHas(seq, i, part))][part][i]
  BY DEF FcReplayed, FcHas, FcValid, FcFinal

LEMMA ReplayInoIs ==
  ASSUME NEW seq, NEW i \in Inode
  PROVE  /\ FcReplayed(seq).ino[i] =
              IF ~log.start \/ FcHas(seq, i, "ino") = {} THEN log.ino[i]
              ELSE seq[FcFinal(FcHas(seq, i, "ino"))].ino[i]
         /\ FcReplayed(seq).entry[i] =
              IF ~log.start \/ FcHas(seq, i, "entry") = {} THEN log.entry[i]
              ELSE seq[FcFinal(FcHas(seq, i, "entry"))].entry[i]
  BY FcReplayIs

LEMMA FinalIs ==
  ASSUME NEW n \in Nat, NEW S \in SUBSET (1..n), S # {}
  PROVE  FcFinal(S) \in S /\ \A j \in S : j <= FcFinal(S)
<1>1. S \in SUBSET Nat /\ \A j \in S : j <= n
  OBVIOUS
<1>2. \E k \in S : \A j \in S : j <= k
  BY ONLY <1>1, S # {}, n \in Nat, GreatestOf
<1> QED
  BY <1>2 DEF FcFinal

(* Without a commit of the next transaction replay finds what the log       *)
(* holds.                                                                   *)
LEMMA ReplaysLog ==
  ASSUME FcTyped, NEW seq \in Seq(FcCommits), NEW i \in Inode,
         ~log.start \/ Len(seq) = 0 \/ seq[1].tid # tran.committed + 1
  PROVE  FcReplayed(seq).ino[i] = log.ino[i] /\ FcReplayed(seq).entry[i] = log.entry[i]
<1>1. log.start => FcValid(seq) = {}
  BY DEF FcValid
<1>2. log.start => FcHas(seq, i, "ino") = {} /\ FcHas(seq, i, "entry") = {}
  BY <1>1 DEF FcHas
<1> QED
  BY <1>2, ReplayInoIs

(* One more commit replaces what it holds.                                  *)
LEMMA ReplaysMore ==
  ASSUME FcTyped, log.start, NEW seq \in Seq(FcCommits), NEW c \in FcCommits,
         NEW i \in Inode,
         c.tid = tran.committed + 1, \A k \in 1..Len(seq) : seq[k].tid = tran.committed + 1
  PROVE  /\ FcReplayed(Append(seq, c)).ino[i] =
              IF i \in DOMAIN c.ino THEN c.ino[i] ELSE FcReplayed(seq).ino[i]
         /\ FcReplayed(Append(seq, c)).entry[i] =
              IF i \in DOMAIN c.entry THEN c.entry[i] ELSE FcReplayed(seq).entry[i]
<1> DEFINE all == Append(seq, c)
<1> DEFINE n == Len(seq)
<1>1. n \in Nat /\ Len(all) = n + 1 /\ all[n + 1] = c /\ \A k \in 1..n : all[k] = seq[k]
  OBVIOUS
<1> HIDE DEF all, n
<1>2. FcValid(all) = 1..(n + 1)
  BY <1>1 DEF FcValid, n
<1>3. FcValid(seq) = 1..n
  BY <1>1 DEF FcValid, n
<1>4. ASSUME NEW part \in {"ino", "entry"}
      PROVE  FcReplayed(all)[part][i] =
               IF i \in DOMAIN c[part] THEN c[part][i] ELSE FcReplayed(seq)[part][i]
  <2>1. CASE i \in DOMAIN c[part]
    <3>1. n + 1 \in FcHas(all, i, part)
      BY <1>1, <1>2, <2>1 DEF FcHas
    <3>2. FcHas(all, i, part) \subseteq 1..(n + 1)
      BY <1>2 DEF FcHas
    <3>3. FcFinal(FcHas(all, i, part)) = n + 1
      <4> DEFINE H == FcHas(all, i, part)
      <4> HIDE DEF H
      <4>1. n + 1 \in Nat /\ n + 1 \in H /\ H \in SUBSET (1..(n + 1)) /\ H # {}
        BY <1>1, <3>1, <3>2 DEF H
      <4>2. FcFinal(H) \in H /\ \A j \in H : j <= FcFinal(H)
        BY <4>1, FinalIs
      <4>3. FcFinal(H) \in 1..(n + 1) /\ n + 1 <= FcFinal(H)
        BY <4>1, <4>2
      <4>4. FcFinal(H) = n + 1
        BY <1>1, <4>3
      <4> QED
        BY <4>4 DEF H
    <3> QED
      BY <1>1, <2>1, <3>1, <3>3, FcReplayIs
  <2>2. CASE i \notin DOMAIN c[part]
    <3>1. FcHas(all, i, part) = FcHas(seq, i, part)
      <4>1. \A k \in 1..n : all[k][part] = seq[k][part]
        BY <1>1
      <4>2. \A k \in 1..(n + 1) : k \in 1..n \/ k = n + 1
        BY <1>1
      <4>3. 1..n \subseteq 1..(n + 1)
        BY <1>1
      <4> QED
        BY <1>1, <1>2, <1>3, <2>2, <4>1, <4>2, <4>3 DEF FcHas
    <3>2. CASE FcHas(seq, i, part) = {}
      BY <2>2, <3>1, <3>2, FcReplayIs
    <3>3. CASE FcHas(seq, i, part) # {}
      <4>1. FcHas(seq, i, part) \in SUBSET (1..n)
        BY <1>3 DEF FcHas
      <4>2. FcFinal(FcHas(seq, i, part)) \in 1..n
        BY <1>1, <3>3, <4>1, FinalIs
      <4> QED
        BY <1>1, <2>2, <3>1, <3>3, <4>2, FcReplayIs
    <3> QED
      BY <3>2, <3>3
  <2> QED
    BY <2>1, <2>2
<1> QED
  BY <1>4 DEF all

(* Replay gives every inode a content.                                      *)
LEMMA ReplayShape ==
  ASSUME NEW seq
  PROVE  /\ FcReplayed(seq).ino = [i \in Inode |-> FcReplayed(seq).ino[i]]
         /\ FcReplayed(seq).entry = [i \in Inode |-> FcReplayed(seq).entry[i]]
<1>1. ASSUME NEW part \in {"ino", "entry"}
      PROVE  FcReplayed(seq)[part] = [i \in Inode |-> FcReplayed(seq)[part][i]]
  BY SMTT(30) DEF FcReplayed
<1> QED
  BY <1>1

(* Replay reads the log and the last committed number alone.                *)
LEMMA ReplayStill ==
  ASSUME NEW seq, tran'.committed = tran.committed,
         log'.ino = log.ino, log'.entry = log.entry, log'.start = log.start
  PROVE  FcReplayed(seq)' = FcReplayed(seq)
<1>1. log'["ino"] = log["ino"] /\ log'["entry"] = log["entry"]
  OBVIOUS
<1> QED
  BY <1>1, SMTT(30) DEF FcReplayed

(* The same of the next state.                                              *)
LEMMA ReplaysLogNext ==
  ASSUME FcTyped', NEW seq \in Seq(FcCommits), NEW i \in Inode,
         ~log'.start \/ Len(seq) = 0 \/ seq[1].tid # tran'.committed + 1
  PROVE  FcReplayed(seq)'.ino[i] = log'.ino[i] /\ FcReplayed(seq)'.entry[i] = log'.entry[i]
<1>1. log'.start => FcValid(seq)' = {}
  BY DEF FcValid
<1>2. log'.start => FcHas(seq, i, "ino")' = {} /\ FcHas(seq, i, "entry")' = {}
  BY <1>1 DEF FcHas
<1>3. ASSUME NEW part \in {"ino", "entry"}, ~log'.start \/ FcHas(seq, i, part)' = {}
      PROVE  FcReplayed(seq)'[part][i] = log'[part][i]
  BY <1>3 DEF FcReplayed, FcHas, FcValid
<1> QED
  BY <1>2, <1>3

(* What the numbers say, one by one.                                        *)
LEMMA NumbersAre ==
  ASSUME FcTyped, FcNumbers
  PROVE  /\ FcLast \in Nat /\ tran.committed <= FcLast
         /\ tran.committed \in Nat /\ tran.running \in Nat /\ tran.next \in Nat
         /\ tran.running # NoTran =>
                tran.running = FcLast + 1 /\ tran.next = tran.running + 1
         /\ tran.running = NoTran => tran.next = FcLast + 1
         /\ tran.full = "write" => tran.ctid = FcLast
         /\ FcLast < tran.next
<1>1. tran.committed \in Nat /\ tran.running \in Nat /\ tran.next \in Nat
  BY DEF FcTyped
<1>2. FcLast \in Nat /\ tran.committed <= FcLast
  BY <1>1 DEF FcLast
<1>3. tran.running \in {NoTran, FcLast + 1}
  BY DEF FcNumbers
<1>4. tran.next = IF tran.running = NoTran THEN FcLast + 1 ELSE FcLast + 2
  BY DEF FcNumbers
<1>5. tran.running # NoTran => tran.running = FcLast + 1 /\ tran.next = tran.running + 1
  BY <1>2, <1>3, <1>4
<1>6. FcLast < tran.next
  BY <1>2, <1>4
<1>7. tran.full = "write" => tran.ctid = FcLast
  BY DEF FcNumbers, FcLast
<1> QED
  BY <1>1, <1>2, <1>4, <1>5, <1>6, <1>7

LEMMA SameData ==
  ASSUME FcTyped, \A i \in Inode : ino'[i].data = ino[i].data
  PROVE  \A i \in Inode : ino[i].data <= ino'[i].data
<1>1. \A i \in Inode : ino[i].data \in Nat
  BY DEF FcTyped
<1> QED
  BY ONLY <1>1, \A i \in Inode : ino'[i].data = ino[i].data

(* A step that leaves log and area alone, and only moves memory forward,    *)
(* leaves what is recovered sound.                                          *)
LEMMA FcGoodStill ==
  ASSUME FcTyped, FcGood, log'.ino = log.ino, log'.entry = log.entry,
         log'.start = log.start, tran'.committed = tran.committed,
         FcSurvivors' \subseteq FcSurvivors, promised' = promised, FcTyped',
         \A i \in Inode : ino[i].data <= ino'[i].data
  PROVE  FcGood'
<1>1. ASSUME NEW seq \in FcSurvivors
      PROVE  FcSound(seq)'
  <2>1. FcReplayed(seq)' = FcReplayed(seq)
    BY ReplayStill
  <2>2. FcSound(seq)
    BY DEF FcGood
  <2>3. ASSUME NEW i \in Inode
        PROVE  FcReplayed(seq).ino[i] <= ino'[i].data
    <3>1. FcReplayed(seq).ino[i] \in Nat /\ FcReplayed(seq).ino[i] <= ino[i].data
      BY <2>2 DEF FcSound
    <3>2. ino[i].data \in Nat /\ ino'[i].data \in Nat /\ ino[i].data <= ino'[i].data
      BY DEF FcTyped
    <3> QED
      BY <3>1, <3>2
  <2> QED
    BY <2>1, <2>2, <2>3 DEF FcSound
<1>2. ASSUME NEW seq \in FcSurvivors'
      PROVE  FcSound(seq)'
  <2>1. seq \in FcSurvivors
    BY <1>2
  <2> QED
    BY <1>1, <2>1
<1> QED
  BY <1>2 DEF FcGood

LEMMA SurvivorsStill ==
  ASSUME area' = area
  PROVE  FcSurvivors' \subseteq FcSurvivors
  BY DEF FcSurvivors

LEMMA RecoversStill ==
  ASSUME log'.ino = log.ino, log'.entry = log.entry, log'.start = log.start,
         tran'.committed = tran.committed, area'.seq = area.seq
  PROVE  \A i \in Inode : Recovers(i)' = Recovers(i)
<1>1. PICK seq : seq = area.seq
  OBVIOUS
<1>2. FcReplayed(seq)' = FcReplayed(seq)
  BY ReplayStill
<1> QED
  BY <1>1, <1>2 DEF Recovers

(* What the area gives is a content between what is promised and memory.    *)
LEMMA RecoversTyped ==
  ASSUME FcGood, NEW i \in Inode
  PROVE  /\ Recovers(i) \in Nat /\ promised[i] <= Recovers(i) /\ log.ino[i] <= Recovers(i)
         /\ Recovers(i) <= ino[i].data /\ FcReplayed(area.seq).entry[i] = Recovers(i)
<1>1. FcSound(area.seq)
  BY DEF FcGood, FcSurvivors
<1> QED
  BY <1>1 DEF FcSound, Recovers

(* A handle starts in the running transaction, or starts one.               *)
LEMMA FcStartHolds ==
  ASSUME FcOrder, NEW i \in Inode, FcStart(i)
  PROVE  FcOrder'
<1>1. /\ FcTyped /\ FcNumbers /\ FcThreads /\ FcHandles /\ FcLog /\ FcSyncs
      /\ FcArea /\ FcGood /\ FcQuiet /\ FcFull /\ FcFast
  BY DEF FcOrder
<1>2. /\ tran' \in [running : Nat, committed : Nat, next : Nat, ctid : Nat,
               full : {"none", "wait", "locked", "write", "callback", "cleaned"}]
      /\ tran'.committed = tran.committed /\ tran'.full = tran.full
      /\ tran'.ctid = tran.ctid
      /\ tran.running # NoTran => tran'.running = tran.running /\ tran'.next = tran.next
      /\ tran.running = NoTran => tran'.running = tran.next /\ tran'.next = tran.next + 1
  <2>1. /\ tran \in [running : Nat, committed : Nat, next : Nat, ctid : Nat,
               full : {"none", "wait", "locked", "write", "callback", "cleaned"}]
    BY <1>1 DEF FcTyped
  <2>2. CASE tran.running # NoTran
    BY <2>1, <2>2 DEF FcStart
  <2>3. CASE tran.running = NoTran
    <3>1. tran' = [tran EXCEPT !.running = tran.next, !.next = tran.next + 1]
      BY <2>3 DEF FcStart
    <3>2. PICK r \in Nat, n \in Nat : r = tran.next /\ n = tran.next + 1
      BY <2>1
    <3>3. tran' = [tran EXCEPT !.running = r, !.next = n]
      BY <3>1, <3>2
    <3> QED
      BY <2>1, <2>3, <3>2, <3>3
  <2> QED
    BY <2>2, <2>3
<1>3. /\ tran'.running # NoTran /\ tran.next <= tran'.next
      /\ tran'.running = FcLast + 1 /\ tran'.next = FcLast + 2 /\ FcLast \in Nat
  <2>1. FcLast \in Nat /\ FcLast + 1 # NoTran
    BY <1>1, NumbersAre DEF NoTran
  <2>2. CASE tran.running = NoTran
    BY <1>1, <1>2, <2>1, <2>2, NumbersAre
  <2>3. CASE tran.running # NoTran
    BY <1>1, <1>2, <2>1, <2>3, NumbersAre
  <2> QED
    BY <2>2, <2>3
<1>4. /\ handle[i].step = "none" /\ handles' = handles + 1
      /\ handle' \in [Inode -> [tid : Nat, step : {"none", "open", "tracked"}, n : Nat]]
      /\ handle'[i].step = "open" /\ handle'[i].n = handles + 1
      /\ handle'[i].tid = tran'.running
      /\ \A j \in Inode : j # i => handle'[j] = handle[j]
      /\ UNCHANGED <<flags, ino, entry, inel, sync, subtid, area, log, promised, updates>>
  <2>1. handle \in [Inode -> [tid : Nat, step : {"none", "open", "tracked"}, n : Nat]]
    BY <1>1 DEF FcTyped
  <2>2. PICK h : h = [tid |-> tran'.running, step |-> "open", n |-> handles + 1]
    OBVIOUS
  <2>3. handle' = [handle EXCEPT ![i] = h]
    BY <2>2 DEF FcStart
  <2>4. handles \in Nat /\ tran'.running \in Nat
    BY <1>1, <1>2 DEF FcTyped
  <2>5. /\ h \in [tid : Nat, step : {"none", "open", "tracked"}, n : Nat] /\ h.step = "open"
        /\ h.n = handles + 1 /\ h.tid = tran'.running
    BY <2>2, <2>4
  <2> QED
    BY <2>1, <2>3, <2>5 DEF FcStart
<1>5. FcTyped'
  <2>1. handles' \in Nat
    BY <1>1, <1>4 DEF FcTyped
  <2>2. tran' \in [running : Nat, committed : Nat, next : Nat,
                   full : {"none", "wait", "locked", "write", "callback", "cleaned"},
                   ctid : Nat]
    BY <1>2
  <2> QED
    BY <1>1, <1>4, <2>1, <2>2 DEF FcTyped
<1>6. FcNumbers'
  BY <1>1, <1>2, <1>3, <1>4 DEF FcNumbers, FcLast, FcTyped
<1>7. FcThreads'
  BY <1>1, <1>3, <1>4 DEF FcThreads
<1>8. \A j \in Inode : Ends(j)' = Ends(j)
  BY <1>4 DEF Ends
<1>9. FcHandles'
  <2> SUFFICES ASSUME NEW j \in Inode
               PROVE  /\ handle'[j].step # "none" => handle'[j].tid = tran'.running
                      /\ handle'[j].step = "open" => ino[j].data < handle'[j].n
                      /\ Ends(j) =>
                             ino[j].sync = tran'.running /\ handle'[j].n = ino[j].data
                      /\ handle'[j].n <= handles' /\ ino[j].data <= handles'
                      /\ ino[j].sync < tran'.next /\ entry[j] = ino[j].data
                      /\ \A q \in Queue : \A n \in Nat : <<j, n>> \in updates[q] =>
                             n <= ino[j].data
    BY <1>3, <1>4, <1>8 DEF FcHandles
  <2>1. /\ handles \in Nat /\ ino[j].data \in Nat /\ ino[j].sync \in Nat
        /\ handle[j].n \in Nat
        /\ tran.next \in Nat /\ tran'.next \in Nat
    BY <1>1, <1>2 DEF FcTyped
  <2>2. CASE j = i
    BY <1>1, <1>3, <1>4, <2>1, <2>2 DEF FcHandles, Ends
  <2>3. CASE j # i
    BY <1>1, <1>2, <1>3, <1>4, <2>1, <2>3 DEF FcHandles, Ends
  <2> QED
    BY <2>2, <2>3
<1>10. FcLog'
  BY <1>1, <1>2, <1>4 DEF FcLog
<1>11. FcSyncs'
  <2>1. \A t \in Syncer : sync[t].tid \in Nat
    BY <1>1 DEF FcTyped, FcSyncRecords
  <2>2. tran.next \in Nat /\ tran'.next \in Nat
    BY <1>1, <1>2 DEF FcTyped
  <2> QED
    BY <1>1, <1>2, <1>3, <1>4, <2>1, <2>2 DEF FcSyncs, Asks
<1>12. FcArea'
  BY <1>1, <1>2, <1>3, <1>4 DEF FcArea
<1>13. FcGood'
  <2>1. \A j \in Inode : ino[j].data <= ino'[j].data
    BY <1>1, <1>4, SameData
  <2> QED
    BY <1>1, <1>2, <1>4, <1>5, <2>1, FcGoodStill, SurvivorsStill
<1>14. \A j \in Inode : Recovers(j)' = Recovers(j)
  BY <1>2, <1>4, RecoversStill
<1>15. FcQuiet'
  BY <1>1, <1>2, <1>4, <1>8, <1>14 DEF FcQuiet, InQuiet, NoneStaged, Named, Newest
<1>16. FcFull'
  <2>1. flags = {"full"} /\ tran.full # "cleaned" => Target' = Target
    BY <1>1, <1>2, <1>4 DEF Target, FcNumbers
  <2> QED
    BY <1>1, <1>2, <1>4, <1>8, <1>14, <2>1 DEF FcFull, InFull, Named, Newest
<1>17. FcFast'
  <2>1. \A j \in Inode, t \in Syncer : InFast(j, t)' <=> InFast(j, t)
    BY <1>1, <1>2, <1>4, <1>8, <1>14 DEF InFast, Named, Newest, Enough
  <2>2. \A j \in Inode : InIo(j)' <=> InIo(j)
    BY <1>1, <1>2, <1>4, <1>8, <1>14 DEF InIo, Named, Newest
  <2>3. NoneStaged' <=> NoneStaged
    BY <1>4 DEF NoneStaged
  <2>4. \A j \in Inode, t \in Syncer : Enough(j, t)' <=> Enough(j, t)
    BY <1>4, <1>14 DEF Enough
  <2> QED
    BY <1>1, <1>2, <1>4, <1>8, <1>14, <2>1, <2>2, <2>3, <2>4 DEF FcFast
<1> QED
  BY <1>5, <1>6, <1>7, <1>9, <1>10, <1>11, <1>12, <1>13, <1>15, <1>16, <1>17 DEF FcOrder

(* The inode goes to the queue of the moment before its content changes; it *)
(* is not written to the area meanwhile, for then its writer would have     *)
(* waited.                                                                  *)
LEMMA TrackInodeHolds ==
  ASSUME FcOrder, NEW i \in Inode, TrackInode(i), windows = {}, windows' = {}
  PROVE  FcOrder'
<1>1. /\ FcTyped /\ FcNumbers /\ FcThreads /\ FcHandles /\ FcLog /\ FcSyncs
      /\ FcArea /\ FcGood /\ FcQuiet /\ FcFull /\ FcFast
  BY DEF FcOrder
<1>2. /\ inel.on => ~ (handle[i].tid > inel.tid)
      /\ ~ino[i].committing
      /\ ~inel.on /\ ino[i].list = "none" => ~Stray
  <2>1. windows' = windows \cup
           (IF inel.on /\ handle[i].tid > inel.tid THEN {"skipped"} ELSE {}) \cup
           (IF ino[i].committing THEN {"written"} ELSE {}) \cup
           (IF ~inel.on /\ ino[i].list = "none" /\ Stray THEN {"stray"} ELSE {})
    BY DEF TrackInode
  <2> HIDE DEF Stray
  <2>2. /\ "skipped" \notin windows' /\ "written" \notin windows' /\ "stray" \notin windows'
    OBVIOUS
  <2> QED
    BY <2>1, <2>2, Zenon
<1>3. /\ handle[i].step = "open" /\ handle[i].tid = tran.running /\ tran.running # NoTran
      /\ ino[i].data < handle[i].n /\ handle[i].n <= handles
      /\ ino[i].data \in Nat /\ handle[i].n \in Nat
  BY <1>1 DEF TrackInode, FcHandles, FcTyped
<1>4. /\ UNCHANGED <<tran, flags, updates, inel, sync, subtid, area, log, promised,
                     handles>>
      /\ handle' \in [Inode -> [tid : Nat, step : {"none", "open", "tracked"}, n : Nat]]
      /\ handle'[i].step = "tracked" /\ handle'[i].tid = handle[i].tid
      /\ handle'[i].n = handle[i].n
      /\ \A j \in Inode : j # i => handle'[j] = handle[j]
  <2>1. /\ handle \in [Inode -> [tid : Nat, step : {"none", "open", "tracked"}, n : Nat]]
        /\ handle' = [handle EXCEPT ![i].step = "tracked"]
    BY <1>1 DEF TrackInode, FcTyped
  <2> QED
    BY <2>1 DEF TrackInode
<1> DEFINE kept == IF inel.on \/ ino[i].list # "none" THEN ino[i].list ELSE QueueNow
<1>5. /\ ino' \in [Inode -> [data : Nat, sync : Nat, list : {"none"} \cup Queue,
                        committing : BOOLEAN]]
      /\ ino'[i].data = handle[i].n /\ ino'[i].sync = tran.running /\ ino'[i].list = kept
      /\ ino'[i].committing = ino[i].committing
      /\ \A j \in Inode : j # i => ino'[j] = ino[j]
  <2>1. ino \in [Inode -> [data : Nat, sync : Nat, list : {"none"} \cup Queue,
                        committing : BOOLEAN]]
    BY <1>1 DEF FcTyped
  <2>2. ino' = [ino EXCEPT ![i].data = handle[i].n, ![i].sync = handle[i].tid,
                ![i].list = kept]
    BY DEF TrackInode
  <2>3. kept \in {"none"} \cup Queue
    BY <2>1 DEF QueueNow, Queue
  <2> HIDE DEF kept
  <2>4. PICK d \in Nat, s \in Nat, k \in {"none"} \cup Queue :
          d = handle[i].n /\ s = handle[i].tid /\ k = kept
    BY <1>1, <2>3 DEF FcTyped
  <2>5. ino' = [ino EXCEPT ![i].data = d, ![i].sync = s, ![i].list = k]
    BY <2>2, <2>4
  <2>6. ino' \in [Inode -> [data : Nat, sync : Nat, list : {"none"} \cup Queue,
                        committing : BOOLEAN]]
    BY <2>1, <2>5
  <2>7. /\ ino'[i].data = d /\ ino'[i].sync = s /\ ino'[i].list = k
        /\ ino'[i].committing = ino[i].committing
    BY <2>1, <2>5
  <2>8. \A j \in Inode : j # i => ino'[j] = ino[j]
    BY <2>1, <2>5
  <2> QED
    BY <1>3, <2>4, <2>6, <2>7, <2>8
<1>6. entry' \in FcContents /\ entry'[i] = handle[i].n
      /\ \A j \in Inode : j # i => entry'[j] = entry[j]
  BY <1>1, <1>3 DEF TrackInode, FcTyped, FcContents
<1>7. FcTyped'
  BY <1>1, <1>4, <1>5, <1>6 DEF FcTyped
<1>8. FcNumbers' /\ FcThreads' /\ FcArea'
  BY <1>1, <1>4 DEF FcNumbers, FcLast, FcThreads, FcArea
<1>9. \A j \in Inode : ino[j].data <= ino'[j].data
  <2>1. \A j \in Inode : ino[j].data \in Nat
    BY <1>1 DEF FcTyped
  <2> QED
    BY <1>3, <1>5, <2>1
<1>10. FcHandles'
  <2> SUFFICES ASSUME NEW j \in Inode
               PROVE  /\ handle'[j].step # "none" =>
                             handle'[j].tid = tran.running /\ tran.running # NoTran
                      /\ handle'[j].step = "open" => ino'[j].data < handle'[j].n
                      /\ handle'[j].step = "tracked" =>
                           ino'[j].sync = tran.running /\ handle'[j].n = ino'[j].data
                      /\ handle'[j].n <= handles /\ ino'[j].data <= handles
                      /\ ino'[j].sync < tran.next /\ entry'[j] = ino'[j].data
                      /\ \A q \in Queue : \A n \in Nat : <<j, n>> \in updates[q] =>
                             n <= ino'[j].data
    BY <1>4 DEF FcHandles, Ends
  <2>1. CASE j = i
    <3>1. tran.running < tran.next
      BY <1>1, <1>3, NumbersAre
    <3>2. \A q \in Queue : \A n \in Nat : <<i, n>> \in updates[q] => n <= ino[i].data
      BY <1>1 DEF FcHandles
    <3>3. \A q \in Queue : \A n \in Nat : <<i, n>> \in updates[q] => n <= handle[i].n
      BY <1>3, <3>2
    <3> QED
      BY <1>3, <1>4, <1>5, <1>6, <2>1, <3>1, <3>3
  <2>2. CASE j # i
    BY <1>1, <1>4, <1>5, <1>6, <2>2 DEF FcHandles, Ends
  <2> QED
    BY <2>1, <2>2
<1>11. FcLog'
  <2>1. /\ tran.committed < tran.running
        /\ (tran.full = "write" => tran.ctid < tran.running)
    BY <1>1, <1>3, NumbersAre
  <2>2. /\ tran.committed \in Nat /\ tran.ctid \in Nat /\ tran.running \in Nat
        /\ \A j \in Inode : log.com.ino[j] \in Nat
    BY <1>1 DEF FcTyped, FcContents
  <2> SUFFICES ASSUME NEW j \in Inode
      PROVE /\ log.ino[j] = log.entry[j]
            /\ ino'[j].sync <= tran.committed => log.ino[j] = ino'[j].data
            /\ tran.full = "write" =>
               /\ log.com.ino[j] = log.com.entry[j]
               /\ log.ino[j] <= log.com.ino[j] /\ log.com.ino[j] <= ino'[j].data
               /\ promised[j] <= log.com.ino[j]
               /\ ino'[j].sync <= tran.ctid => log.com.ino[j] = ino'[j].data
    BY <1>4 DEF FcLog
  <2>3. CASE j = i
    BY <1>1, <1>3, <1>5, <2>1, <2>2, <2>3 DEF FcLog
  <2>4. CASE j # i
    BY <1>1, <1>5, <2>4 DEF FcLog
  <2> QED
    BY <2>3, <2>4
<1>12. FcSyncs'
  <2>1. \A t \in Syncer : sync[t].must \in Nat
    BY <1>1 DEF FcTyped, FcSyncRecords
  <2>2. \A j \in Inode : ino[j].data \in Nat /\ ino'[j].data \in Nat
    BY <1>1, <1>7 DEF FcTyped
  <2> SUFFICES ASSUME NEW t \in Syncer, sync[t].pc # "idle"
               PROVE  sync[t].must <= ino'[sync[t].on].data
    BY <1>1, <1>4 DEF FcSyncs, Asks
  <2>3. sync[t].on \in Inode /\ sync[t].must <= ino[sync[t].on].data
    BY <1>1 DEF FcSyncs, Asks
  <2> QED
    BY <1>9, <2>1, <2>2, <2>3
<1>13. FcGood'
  BY <1>1, <1>4, <1>7, <1>9, FcGoodStill, SurvivorsStill
<1>14. \A j \in Inode : Recovers(j)' = Recovers(j)
  BY <1>4, RecoversStill
<1>15. /\ \A j \in Inode : j # i =>
              (Ends(j)' <=> Ends(j)) /\ (\A q : Newest(q, j)' <=> Newest(q, j))
       /\ Ends(i)' /\ \A j, q : Named(q, j)' <=> Named(q, j)
  BY <1>4, <1>5 DEF Ends, Newest, Named
<1> HIDE DEF kept
<1>16. FcQuiet'
  <2> SUFFICES ASSUME flags = {} \/ tran.full = "cleaned"
                        \/ \E t \in Syncer : sync[t].pc = "end"
               PROVE  NoneStaged' /\ \A j \in Inode : InQuiet(j)'
    BY <1>4 DEF FcQuiet
  <2>1. NoneStaged /\ \A j \in Inode : InQuiet(j)
    BY <1>1 DEF FcQuiet
  <2>2. ~inel.on => ino'[i].list = "main"
    <3>1. flags # {} => Stray
      BY DEF Stray
    <3>2. ino[i].list \in {"none", "main"}
      BY <1>1, <2>1 DEF NoneStaged, FcTyped, Queue
    <3> QED
      BY <1>2, <1>5, <3>1, <3>2 DEF kept, QueueNow
  <2>3. inel.on => ino'[i].list = ino[i].list
    BY <1>5 DEF kept
  <2>4. NoneStaged'
    BY <1>4, <1>5, <2>1, <2>2, <2>3 DEF NoneStaged
  <2>5. InQuiet(i)'
    BY <1>4, <1>15, <2>2 DEF InQuiet
  <2>6. \A j \in Inode : j # i => InQuiet(j)'
    BY <1>4, <1>5, <1>14, <1>15, <2>1 DEF InQuiet
  <2> QED
    BY <2>4, <2>5, <2>6
<1>17. FcFull'
  <2> SUFFICES ASSUME flags = {"full"}, tran.full # "cleaned"
               PROVE  \A j \in Inode : InFull(j)'
    BY <1>4 DEF FcFull
  <2>1. \A j \in Inode : InFull(j)
    BY <1>1 DEF FcFull
  <2>2. Target' = Target /\ Target \in Nat
    BY <1>1, <1>4 DEF Target, FcTyped
  <2>3. ASSUME NEW j \in Inode, j # i
        PROVE  InFull(j)'
    BY <1>4, <1>5, <1>15, <2>1, <2>2, <2>3 DEF InFull
  <2>4. InFull(i)'
    <3>1. ~inel.on => ino'[i].list # "none"
      BY <1>5 DEF kept, QueueNow
    <3>2. inel.on /\ tran.running > Target => inel.tid > Target
      <4>1. inel.tid \in Nat /\ tran.running \in Nat
        BY <1>1 DEF FcTyped
      <4> QED
        BY <1>2, <1>3, <2>2, <4>1
    <3>3. tran.running \in Nat
      BY <1>1 DEF FcTyped
    <3> QED
      BY <1>4, <1>5, <1>15, <2>2, <3>1, <3>2, <3>3 DEF InFull
  <2> QED
    BY <2>3, <2>4
<1>18. FcFast'
  <2> SUFFICES ASSUME NEW t \in Syncer
      PROVE  /\ sync[t].pc \in {"check", "lock", "mark", "write"} /\ ~inel.on =>
                  \A j \in Inode : InFast(j, t)'
             /\ sync[t].pc \in {"write", "io"} =>
                  \A j \in Inode : ino'[j].list = "main" => ino'[j].committing /\ ~Ends(j)'
             /\ sync[t].pc = "io" /\ log.start =>
                  \A j \in Inode : InIo(j)' /\ Enough(j, t)'
             /\ sync[t].pc = "end" => \A j \in Inode : Enough(j, t)'
             /\ sync[t].pc = "fallback" => NoneStaged'
    BY <1>4 DEF FcFast
  <2>0. \A j \in Inode : Enough(j, t)' <=> Enough(j, t)
    BY <1>4, <1>14 DEF Enough
  <2>1. sync[t].pc \in Fasting => flags # {} /\ sync[t].on \in Inode
    BY <1>1 DEF FcThreads, FcSyncs, Asks, Fasting
  <2>2. flags # {} /\ ~inel.on /\ ino[i].list = "none" => ino'[i].list = "staging"
    BY <1>5 DEF kept, QueueNow
  <2>3. ino[i].list # "none" \/ inel.on => ino'[i].list = ino[i].list
    BY <1>5 DEF kept
  <2>4. ASSUME sync[t].pc \in {"check", "lock", "mark", "write"}, ~inel.on
        PROVE  \A j \in Inode : InFast(j, t)'
    <3>1. \A j \in Inode : InFast(j, t)
      BY <1>1, <2>4 DEF FcFast
    <3>2. \A j \in Inode : j # i => InFast(j, t)'
      BY <1>4, <1>5, <1>14, <1>15, <2>0, <3>1 DEF InFast
    <3>3. CASE ino[i].list = "main"
      <4>1. ~Named("staging", i)
        BY <3>1, <3>3 DEF InFast
      <4> QED
        BY <1>15, <2>3, <3>2, <3>3, <4>1 DEF InFast
    <3>4. CASE ino[i].list = "staging"
      BY <1>4, <1>14, <1>15, <2>0, <2>3, <3>1, <3>2, <3>4 DEF InFast
    <3>5. CASE ino[i].list = "none"
      <4>1. Recovers(i) = ino[i].data /\ (Named("main", i) => Newest("main", i))
        BY <3>1, <3>5 DEF InFast
      <4>2. \A n \in Nat : <<i, n>> \in updates["main"] => n <= Recovers(i)
        BY <1>1, <4>1 DEF FcHandles, Queue
      <4>3. Enough(i, t)
        BY <1>1, <2>4, <4>1 DEF FcSyncs, Asks, Enough
      <4>4. Named("main", i) => <<i, Recovers(i)>> \in updates["main"]
        BY <4>1 DEF Newest
      <4>5. ino'[i].list = "staging"
        BY <2>1, <2>2, <2>4, <3>5 DEF Fasting
      <4> QED
        BY <1>4, <1>14, <1>15, <2>0, <3>2, <4>2, <4>3, <4>4, <4>5 DEF InFast
    <3> QED
      BY <1>1, <3>3, <3>4, <3>5 DEF FcTyped, Queue
  <2>5. ASSUME sync[t].pc \in {"write", "io"}
        PROVE  \A j \in Inode : ino'[j].list = "main" => ino'[j].committing /\ ~Ends(j)'
    <3>1. \A j \in Inode : ino[j].list = "main" => ino[j].committing /\ ~Ends(j)
      BY <1>1, <2>5 DEF FcFast
    <3>2. flags # {} /\ ~inel.on
      BY <1>1, <2>1, <2>5 DEF FcThreads, Fasting
    <3>3. ino'[i].list # "main"
      BY <1>2, <1>1, <2>2, <2>3, <3>1, <3>2
    <3> QED
      BY <1>5, <1>15, <3>1, <3>3
  <2>6. ASSUME sync[t].pc = "io", log.start
        PROVE  \A j \in Inode : InIo(j)' /\ Enough(j, t)'
    <3>1. \A j \in Inode : InIo(j) /\ Enough(j, t)
      BY <1>1, <2>6 DEF FcFast
    <3>2. \A j \in Inode : j # i => InIo(j)'
      BY <1>4, <1>5, <1>14, <1>15, <3>1 DEF InIo
    <3>3. flags # {} /\ ~inel.on /\ sync[t].on \in Inode
      BY <1>1, <2>1, <2>6 DEF FcThreads, Fasting
    <3>4. ino[i].list # "main"
      BY <1>1, <1>2, <2>6 DEF FcFast
    <3>5. ino'[i].list = "staging"
      BY <1>1, <2>2, <2>3, <3>3, <3>4 DEF FcTyped, Queue
    <3>6. InIo(i)'
      BY <1>15, <3>5 DEF InIo
    <3> QED
      BY <2>0, <3>1, <3>2, <3>6
  <2>7. sync[t].pc = "end" => \A j \in Inode : Enough(j, t)'
    BY <1>1, <2>0 DEF FcFast
  <2>8. ASSUME sync[t].pc = "fallback"
        PROVE  NoneStaged'
    <3>1. NoneStaged /\ flags # {}
      BY <1>1, <2>1, <2>8 DEF FcFast, Fasting
    <3>2. Stray
      BY <2>8, <3>1 DEF Stray
    <3>3. ino'[i].list = ino[i].list
      BY <1>2, <2>3, <3>2
    <3> QED
      BY <1>4, <1>5, <3>1, <3>3 DEF NoneStaged
  <2> QED
    BY <2>4, <2>5, <2>6, <2>7, <2>8
<1> QED
  BY <1>7, <1>8, <1>10, <1>11, <1>12, <1>13, <1>16, <1>17, <1>18 DEF FcOrder

(* The entry goes to the queue of the moment: where its inode is, or the    *)
(* inode is staged too.                                                     *)
LEMMA TrackEntryHolds ==
  ASSUME FcOrder, NEW i \in Inode, TrackEntry(i), windows = {}, windows' = {}
  PROVE  FcOrder'
<1>1. /\ FcTyped /\ FcNumbers /\ FcThreads /\ FcHandles /\ FcLog /\ FcSyncs
      /\ FcArea /\ FcGood /\ FcQuiet /\ FcFull /\ FcFast
  BY DEF FcOrder
<1>2. /\ inel.on => ~ (handle[i].tid > inel.tid) /\ ~Named("staging", i)
      /\ ~inel.on => ~Stray
      /\ ~inel.on /\ "fast" \in flags => ino[i].list # "main"
  <2> DEFINE stale == \E u \in updates["staging"] : u[1] = i
  <2>1. windows' = windows \cup
           (IF inel.on /\ handle[i].tid > inel.tid THEN {"skipped"} ELSE {}) \cup
           (IF inel.on /\ stale THEN {"stale"} ELSE {}) \cup
           (IF ~inel.on /\ Stray THEN {"stray"} ELSE {}) \cup
           (IF ~inel.on /\ "fast" \in flags /\ ino[i].list = "main" THEN {"split"} ELSE {})
    BY DEF TrackEntry
  <2>2. Named("staging", i) => stale
    BY DEF Named
  <2> HIDE DEF Stray, stale
  <2>3. /\ "skipped" \notin windows' /\ "stale" \notin windows' /\ "stray" \notin windows'
        /\ "split" \notin windows'
    OBVIOUS
  <2>4. /\ ~ (inel.on /\ handle[i].tid > inel.tid) /\ ~ (inel.on /\ stale)
        /\ ~ (~inel.on /\ Stray) /\ ~ (~inel.on /\ "fast" \in flags /\ ino[i].list = "main")
    BY <2>1, <2>3, Zenon
  <2> QED
    BY <2>2, <2>4, Zenon
<1>3. /\ handle[i].step = "tracked" /\ handle[i].tid = tran.running /\ tran.running # NoTran
      /\ ino[i].sync = tran.running /\ handle[i].n = ino[i].data /\ ino[i].data \in Nat
      /\ Ends(i)
  BY <1>1 DEF TrackEntry, FcHandles, FcTyped, Ends
<1>4. /\ UNCHANGED <<tran, flags, ino, entry, inel, sync, subtid, area, log, promised,
                     handles>>
      /\ handle' \in [Inode -> [tid : Nat, step : {"none", "open", "tracked"}, n : Nat]]
      /\ handle'[i].step = "none" /\ handle'[i].n = handle[i].n
      /\ \A j \in Inode : j # i => handle'[j] = handle[j]
  <2>1. /\ handle \in [Inode -> [tid : Nat, step : {"none", "open", "tracked"}, n : Nat]]
        /\ handle' = [handle EXCEPT ![i].step = "none"]
    BY <1>1 DEF TrackEntry, FcTyped
  <2> QED
    BY <2>1 DEF TrackEntry
<1>5. /\ updates' \in [Queue -> SUBSET (Inode \X Nat)]
      /\ inel.on => updates' = updates
      /\ ~inel.on => /\ updates'[QueueNow] = updates[QueueNow] \cup {<<i, ino[i].data>>}
                     /\ \A q \in Queue : q # QueueNow => updates'[q] = updates[q]
  <2>1. updates \in [Queue -> SUBSET (Inode \X Nat)] /\ QueueNow \in Queue
    BY <1>1 DEF FcTyped, QueueNow, Queue
  <2>2. <<i, ino[i].data>> \in Inode \X Nat
    BY <1>3
  <2>3. updates' = IF inel.on THEN updates
                   ELSE [updates EXCEPT ![QueueNow] = @ \cup {<<i, ino[i].data>>}]
    BY <1>3 DEF TrackEntry
  <2> QED
    BY <2>1, <2>2, <2>3
<1>6. FcTyped'
  BY <1>1, <1>4, <1>5 DEF FcTyped
<1>7. FcNumbers' /\ FcThreads' /\ FcArea' /\ FcLog' /\ FcSyncs'
  BY <1>1, <1>4 DEF FcNumbers, FcLast, FcThreads, FcArea, FcLog, FcSyncs, Asks
<1>8. \A q \in Queue : \A j \in Inode : \A n \in Nat :
        <<j, n>> \in updates'[q] => <<j, n>> \in updates[q] \/ (j = i /\ n = ino[i].data)
  <2>1. ASSUME NEW q \in Queue, NEW j \in Inode, NEW n \in Nat, <<j, n>> \in updates'[q]
        PROVE  <<j, n>> \in updates[q] \/ (j = i /\ n = ino[i].data)
    BY <1>5, <2>1
  <2> QED
    BY <2>1
<1>9. FcHandles'
  <2> SUFFICES ASSUME NEW j \in Inode
               PROVE  /\ handle'[j].step # "none" =>
                             handle'[j].tid = tran.running /\ tran.running # NoTran
                      /\ handle'[j].step = "open" => ino[j].data < handle'[j].n
                      /\ handle'[j].step = "tracked" =>
                           ino[j].sync = tran.running /\ handle'[j].n = ino[j].data
                      /\ handle'[j].n <= handles /\ ino[j].data <= handles
                      /\ ino[j].sync < tran.next /\ entry[j] = ino[j].data
                      /\ \A q \in Queue : \A n \in Nat : <<j, n>> \in updates'[q] =>
                             n <= ino[j].data
    BY <1>4 DEF FcHandles, Ends
  <2>1. \A q \in Queue : \A n \in Nat : <<j, n>> \in updates'[q] => n <= ino[j].data
    BY <1>1, <1>3, <1>8 DEF FcHandles
  <2>2. CASE j = i
    BY <1>1, <1>4, <2>1, <2>2 DEF FcHandles
  <2>3. CASE j # i
    BY <1>1, <1>4, <2>1, <2>3 DEF FcHandles, Ends
  <2> QED
    BY <2>2, <2>3
<1>10. FcGood'
  <2>1. \A j \in Inode : ino[j].data <= ino'[j].data
    BY <1>1, <1>4, SameData
  <2> QED
    BY <1>1, <1>4, <1>6, <2>1, FcGoodStill, SurvivorsStill
<1>11. \A j \in Inode : Recovers(j)' = Recovers(j)
  BY <1>4, RecoversStill
<1>12. /\ \A j \in Inode : j # i => (Ends(j)' <=> Ends(j))
       /\ ~Ends(i)'
       /\ \A q \in Queue : \A j \in Inode : j # i \/ inel.on \/ q # QueueNow =>
            (Newest(q, j)' <=> Newest(q, j)) /\ (Named(q, j)' <=> Named(q, j))
       /\ ~inel.on /\ flags = {} => Newest("main", i)'
       /\ ~inel.on /\ flags # {} => Newest("staging", i)'
       /\ \A j \in Inode, t \in Syncer : Enough(j, t)' <=> Enough(j, t)
  <2>1. /\ \A j \in Inode : j # i => (Ends(j)' <=> Ends(j))
        /\ ~Ends(i)'
        /\ \A j \in Inode, t \in Syncer : Enough(j, t)' <=> Enough(j, t)
    BY <1>4, <1>11 DEF Ends, Enough
  <2>2. \A q \in Queue : \A j \in Inode : j # i \/ inel.on \/ q # QueueNow =>
            (Newest(q, j)' <=> Newest(q, j))
    BY <1>4, <1>5 DEF Newest
  <2>3. \A q \in Queue : \A j \in Inode : j # i \/ inel.on \/ q # QueueNow =>
            (Named(q, j)' <=> Named(q, j))
    BY <1>4, <1>5 DEF Named
  <2>4. /\ ~inel.on /\ flags = {} => Newest("main", i)'
        /\ ~inel.on /\ flags # {} => Newest("staging", i)'
    <3>1. ~inel.on => <<i, ino[i].data>> \in updates'[QueueNow]
      BY <1>5
    <3> QED
      BY <1>4, <3>1 DEF Newest, QueueNow
  <2> QED
    BY <2>1, <2>2, <2>3, <2>4
<1>13. (flags = {} => QueueNow = "main") /\ (flags # {} => QueueNow = "staging")
       /\ "main" \in Queue /\ "staging" \in Queue
  BY DEF QueueNow, Queue
<1> HIDE DEF QueueNow
<1>14. FcQuiet'
  <2> SUFFICES ASSUME flags = {} \/ tran.full = "cleaned"
                        \/ \E t \in Syncer : sync[t].pc = "end"
               PROVE  NoneStaged' /\ \A j \in Inode : InQuiet(j)'
    BY <1>4 DEF FcQuiet
  <2>1. NoneStaged /\ \A j \in Inode : InQuiet(j)
    BY <1>1 DEF FcQuiet
  <2>2. CASE inel.on
    BY <1>4, <1>5, <2>1, <2>2 DEF NoneStaged, InQuiet
  <2>3. CASE ~inel.on
    <3>1. flags = {} /\ QueueNow = "main"
      BY <1>2, <1>13, <2>3 DEF Stray
    <3>2. NoneStaged'
      BY <1>4, <1>5, <1>13, <2>1, <2>3, <3>1 DEF NoneStaged
    <3>3. \A j \in Inode : j # i => InQuiet(j)'
      BY <1>4, <1>11, <1>12, <1>13, <2>1 DEF InQuiet
    <3>4. InQuiet(i)'
      BY <1>3, <1>4, <1>12, <2>1, <2>3, <3>1 DEF InQuiet
    <3> QED
      BY <3>2, <3>3, <3>4
  <2> QED
    BY <2>2, <2>3
<1>15. FcFull'
  <2> SUFFICES ASSUME flags = {"full"}, tran.full # "cleaned"
               PROVE  \A j \in Inode : InFull(j)'
    BY <1>4 DEF FcFull
  <2>1. \A j \in Inode : InFull(j)
    BY <1>1 DEF FcFull
  <2>2. Target' = Target /\ Target \in Nat
    BY <1>1, <1>4 DEF Target, FcTyped
  <2>3. QueueNow = "staging"
    BY <1>13
  <2>4. ASSUME NEW j \in Inode, j # i
        PROVE  InFull(j)'
    BY <1>4, <1>12, <1>13, <2>1, <2>2, <2>4 DEF InFull
  <2>5. InFull(i)'
    <3>1. ino[i].sync \in Nat /\ inel.tid \in Nat
      BY <1>1 DEF FcTyped
    <3>2. CASE inel.on
      BY <1>2, <1>3, <1>4, <1>12, <1>13, <2>2, <3>1, <3>2 DEF InFull
    <3>3. CASE ~inel.on
      <4>1. Newest("staging", i)'
        BY <1>12, <3>3
      <4>2. ino[i].sync > Target => ino[i].list # "none"
        BY <2>1, <2>2, <3>1, <3>3 DEF InFull
      <4> QED
        BY <1>4, <2>2, <3>1, <4>1, <4>2 DEF InFull
    <3> QED
      BY <3>2, <3>3
  <2> QED
    BY <2>4, <2>5
<1>16. FcFast'
  <2> SUFFICES ASSUME NEW t \in Syncer
      PROVE  /\ sync[t].pc \in {"check", "lock", "mark", "write"} /\ ~inel.on =>
                  \A j \in Inode : InFast(j, t)'
             /\ sync[t].pc \in {"write", "io"} =>
                  \A j \in Inode : ino[j].list = "main" => ino[j].committing /\ ~Ends(j)'
             /\ sync[t].pc = "io" /\ log.start => \A j \in Inode : InIo(j)' /\ Enough(j, t)'
             /\ sync[t].pc = "end" => \A j \in Inode : Enough(j, t)'
             /\ sync[t].pc = "fallback" => NoneStaged'
    BY <1>4 DEF FcFast
  <2>1. sync[t].pc \in Fasting => "fast" \in flags /\ flags # {} /\ QueueNow = "staging"
    BY <1>1, <1>13 DEF FcThreads
  <2>3. ASSUME sync[t].pc \in {"check", "lock", "mark", "write"}, ~inel.on
        PROVE  \A j \in Inode : InFast(j, t)'
    <3>1. \A j \in Inode : InFast(j, t)
      BY <1>1, <2>3 DEF FcFast
    <3>2. updates'["main"] = updates["main"] /\ QueueNow = "staging" /\ "fast" \in flags
          /\ flags # {}
      BY <1>5, <1>13, <2>1, <2>3 DEF Fasting
    <3>3. \A j \in Inode : j # i => InFast(j, t)'
      BY <1>4, <1>11, <1>12, <1>13, <3>1, <3>2 DEF InFast
    <3>4. ino[i].list # "main"
      BY <1>2, <2>3, <3>2
    <3>5. ino[i].list = "staging" /\ Newest("staging", i)'
      BY <1>3, <1>12, <2>3, <3>1, <3>2, <3>4 DEF InFast
    <3>6. Named("main", i)' <=> Named("main", i)
      BY <3>2 DEF Named
    <3>7. InFast(i, t)'
      BY <1>4, <1>11, <1>12, <3>1, <3>2, <3>5, <3>6 DEF InFast
    <3> QED
      BY <3>3, <3>7
  <2>4. sync[t].pc \in {"write", "io"} =>
                  \A j \in Inode : ino[j].list = "main" => ino[j].committing /\ ~Ends(j)'
    BY <1>1, <1>12 DEF FcFast
  <2>5. ASSUME sync[t].pc = "io", log.start
        PROVE  \A j \in Inode : InIo(j)' /\ Enough(j, t)'
    <3>1. \A j \in Inode : InIo(j) /\ Enough(j, t)
      BY <1>1, <2>5 DEF FcFast
    <3>2. ~inel.on /\ QueueNow = "staging" /\ flags # {}
      BY <1>1, <2>1, <2>5 DEF FcThreads, Fasting
    <3>3. \A j \in Inode : j # i => InIo(j)'
      BY <1>4, <1>11, <1>12, <1>13, <3>1 DEF InIo
    <3>4. InIo(i)'
      BY <1>3, <1>4, <1>12, <3>1, <3>2 DEF InIo
    <3> QED
      BY <1>12, <3>1, <3>3, <3>4
  <2>6. sync[t].pc = "end" => \A j \in Inode : Enough(j, t)'
    BY <1>1, <1>12 DEF FcFast
  <2>7. ASSUME sync[t].pc = "fallback"
        PROVE  NoneStaged'
    <3>1. NoneStaged /\ flags # {}
      BY <1>1, <2>1, <2>7 DEF FcFast, Fasting
    <3>2. Stray
      BY <2>7, <3>1 DEF Stray
    <3> QED
      BY <1>2, <1>4, <1>5, <3>1, <3>2 DEF NoneStaged
  <2> QED
    BY <2>3, <2>4, <2>5, <2>6, <2>7
<1> QED
  BY <1>6, <1>7, <1>9, <1>10, <1>14, <1>15, <1>16 DEF FcOrder

LEMMA NobodyFasting ==
  ASSUME FcThreads, "fast" \notin flags
  PROVE  \A t \in Syncer : sync[t].pc \notin Fasting
  BY DEF FcThreads

LEMMA MarkIneligibleHolds ==
  ASSUME FcOrder, NEW i \in Inode, MarkIneligible(i), windows = {}, windows' = {}
  PROVE  FcOrder'
<1>1. /\ FcTyped /\ FcNumbers /\ FcThreads /\ FcHandles /\ FcLog /\ FcSyncs
      /\ FcArea /\ FcGood /\ FcQuiet /\ FcFull /\ FcFast
  BY DEF FcOrder
<1>2. "fast" \notin flags
  <2>1. windows' = windows \cup (IF "fast" \in flags THEN {"unchecked"} ELSE {})
    BY DEF MarkIneligible
  <2> QED
    BY <2>1
<1>3. UNCHANGED <<tran, flags, handle, ino, entry, updates, sync, subtid, area, log,
                  promised, handles>>
  BY DEF MarkIneligible
<1>4. /\ inel' \in [on : BOOLEAN, tid : Nat] /\ inel'.on
      /\ inel.on => inel'.tid >= inel.tid
  <2>1. handle[i].tid \in Nat
    BY <1>1 DEF FcTyped
  <2>2. inel' = Ineligible(TRUE, handle[i].tid)
    BY DEF MarkIneligible
  <2> QED
    BY <1>1, <2>1, <2>2 DEF FcTyped, Ineligible
<1>5. \A t \in Syncer : sync[t].pc \notin Fasting
  BY <1>1, <1>2, NobodyFasting
<1>6. FcTyped' /\ FcNumbers' /\ FcHandles' /\ FcLog' /\ FcSyncs' /\ FcArea'
  <2>1. FcTyped'
    BY <1>1, <1>3, <1>4 DEF FcTyped
  <2>2. FcNumbers' /\ FcHandles' /\ FcArea'
    BY <1>1, <1>3 DEF FcNumbers, FcLast, FcHandles, Ends, FcArea
  <2>3. FcLog' /\ FcSyncs'
    BY <1>1, <1>3 DEF FcLog, FcSyncs, Asks
  <2> QED
    BY <2>1, <2>2, <2>3
<1>7. FcThreads' /\ FcFast'
  BY <1>2, <1>3, <1>5 DEF FcThreads, FcFast, Fasting
<1>8. FcGood'
  <2>1. \A j \in Inode : ino[j].data <= ino'[j].data
    BY <1>1, <1>3, SameData
  <2> QED
    BY <1>1, <1>3, <1>6, <2>1, FcGoodStill, SurvivorsStill
<1>9. FcQuiet'
  BY <1>1, <1>3, <1>4 DEF FcQuiet, InQuiet, NoneStaged
<1>10. FcFull'
  <2>1. \A j \in Inode : Ends(j)' = Ends(j) /\ Newest("staging", j)' = Newest("staging", j)
                         /\ Named("staging", j)' = Named("staging", j)
    BY <1>3 DEF Ends, Newest, Named
  <2>2. Target' = Target /\ Target \in Nat
    BY <1>1, <1>3 DEF Target, FcTyped
  <2>3. inel.on /\ inel.tid > Target => inel'.tid > Target
    BY <1>1, <1>4, <2>2 DEF FcTyped
  <2> QED
    BY <1>1, <1>3, <1>4, <2>1, <2>2, <2>3 DEF FcFull, InFull
<1> QED
  BY <1>6, <1>7, <1>8, <1>9, <1>10 DEF FcOrder

(* An inode that leaves memory leaves the queues, and the file system is    *)
(* ineligible for as long as its last transaction runs.                     *)
LEMMA EvictHolds ==
  ASSUME FcOrder, NEW i \in Inode, Evict(i), windows = {}, windows' = {}
  PROVE  FcOrder'
<1>1. /\ FcTyped /\ FcNumbers /\ FcThreads /\ FcHandles /\ FcLog /\ FcSyncs
      /\ FcArea /\ FcGood /\ FcQuiet /\ FcFull /\ FcFast
  BY DEF FcOrder
<1>2. "fast" \notin flags
  <2>1. windows' = windows \cup (IF "fast" \in flags THEN {"evicted"} ELSE {})
    BY DEF Evict
  <2> QED
    BY <2>1
<1>3. /\ UNCHANGED <<tran, flags, handle, entry, updates, sync, subtid, area, log, promised,
                     handles>>
      /\ handle[i].step = "none"
  BY DEF Evict
<1> DEFINE newest == IF tran.running # NoTran THEN tran.running
                     ELSE IF tran.ctid # NoTran THEN tran.ctid ELSE tran.committed
<1>4. /\ inel' \in [on : BOOLEAN, tid : Nat] /\ inel'.on
      /\ inel.on => inel'.tid >= inel.tid
      /\ tran.running # NoTran => inel'.tid >= tran.running
  <2>1. tran.running \in Nat
    BY <1>1 DEF FcTyped
  <2>2. inel' = Ineligible(tran.running # NoTran, tran.running)
    BY DEF Evict
  <2> QED
    BY <1>1, <2>1, <2>2 DEF FcTyped, Ineligible
<1>5. /\ ino' \in [Inode -> [data : Nat, sync : Nat, list : {"none"} \cup Queue,
                        committing : BOOLEAN]]
      /\ ino'[i].data = ino[i].data /\ ino'[i].sync = newest /\ ino'[i].list = "none"
      /\ \A j \in Inode : j # i => ino'[j] = ino[j]
  <2>1. ino \in [Inode -> [data : Nat, sync : Nat, list : {"none"} \cup Queue,
                        committing : BOOLEAN]]
    BY <1>1 DEF FcTyped
  <2>2. newest \in Nat
    BY <1>1 DEF FcTyped
  <2>3. ino' = [ino EXCEPT ![i] = [ino[i] EXCEPT !.list = "none", !.committing = FALSE,
                                                 !.sync = newest]]
    BY DEF Evict
  <2> HIDE DEF newest
  <2>4. PICK s \in Nat, k \in {"none"} \cup Queue, c \in BOOLEAN :
          s = newest /\ k = "none" /\ c = FALSE
    BY <2>2
  <2>5. PICK r : r = [ino[i] EXCEPT !.list = k, !.committing = c, !.sync = s]
    OBVIOUS
  <2>6. /\ r \in [data : Nat, sync : Nat, list : {"none"} \cup Queue, committing : BOOLEAN]
        /\ r.data = ino[i].data /\ r.sync = s /\ r.list = k
    BY <2>1, <2>5
  <2>7. ino' = [ino EXCEPT ![i] = r]
    BY <2>3, <2>4, <2>5
  <2> QED
    BY <2>1, <2>4, <2>6, <2>7
<1>6. \A t \in Syncer : sync[t].pc \notin Fasting
  BY <1>1, <1>2, NobodyFasting
<1>7. \A j \in Inode : ino'[j].data = ino[j].data
  BY <1>5
<1>8. FcTyped' /\ FcNumbers' /\ FcSyncs' /\ FcArea'
  <2>1. FcTyped' /\ FcNumbers' /\ FcArea'
    BY <1>1, <1>3, <1>4, <1>5 DEF FcTyped, FcNumbers, FcLast, FcArea
  <2>2. FcSyncs'
    BY <1>1, <1>3, <1>7 DEF FcSyncs, Asks
  <2> QED
    BY <2>1, <2>2
<1>9. /\ newest < tran.next /\ newest \in Nat
      /\ newest <= tran.committed => ino[i].sync <= tran.committed
      /\ tran.full = "write" /\ newest <= tran.ctid => ino[i].sync <= tran.ctid
      /\ tran.running = NoTran => ino[i].sync <= FcLast /\ newest <= FcLast
  <2>1. ino[i].sync < tran.next /\ ino[i].sync \in Nat
    BY <1>1 DEF FcHandles, FcTyped
  <2>2. /\ FcLast \in Nat /\ tran.committed \in Nat /\ tran.committed <= FcLast
        /\ tran.running \in Nat /\ tran.next \in Nat
        /\ tran.running # NoTran =>
               tran.running = FcLast + 1 /\ tran.next = tran.running + 1
        /\ tran.running = NoTran => tran.next = FcLast + 1
        /\ tran.full = "write" => tran.ctid = FcLast
    BY <1>1, NumbersAre
  <2>3. CASE tran.running # NoTran
    BY <2>1, <2>2, <2>3
  <2>4. CASE tran.running = NoTran
    <3>1. newest = FcLast
      <4>1. CASE tran.full = "write"
        BY <2>2, <2>4, <4>1 DEF NoTran, FcNumbers
      <4>2. CASE tran.full # "write"
        BY <1>1, <2>4, <4>2 DEF FcNumbers, FcLast
      <4> QED
        BY <4>1, <4>2
    <3> QED
      BY <2>1, <2>2, <2>4, <3>1
  <2> QED
    BY <2>3, <2>4
<1>10. FcThreads' /\ FcFast'
  BY <1>2, <1>3, <1>6 DEF FcThreads, FcFast, Fasting
<1>11. FcHandles'
  <2> SUFFICES ASSUME NEW j \in Inode
               PROVE  /\ handle[j].step # "none" =>
                             handle[j].tid = tran.running /\ tran.running # NoTran
                      /\ handle[j].step = "open" => ino'[j].data < handle[j].n
                      /\ handle[j].step = "tracked" =>
                           ino'[j].sync = tran.running /\ handle[j].n = ino'[j].data
                      /\ handle[j].n <= handles /\ ino'[j].data <= handles
                      /\ ino'[j].sync < tran.next /\ entry[j] = ino'[j].data
                      /\ \A q \in Queue : \A n \in Nat : <<j, n>> \in updates[q] =>
                             n <= ino'[j].data
    BY <1>3 DEF FcHandles, Ends
  <2>1. CASE j = i
    BY <1>1, <1>3, <1>5, <1>9, <2>1 DEF FcHandles
  <2>2. CASE j # i
    BY <1>1, <1>5, <2>2 DEF FcHandles, Ends
  <2> QED
    BY <2>1, <2>2
<1>12. FcLog'
  <2> SUFFICES ASSUME NEW j \in Inode
      PROVE /\ log.ino[j] = log.entry[j]
            /\ ino'[j].sync <= tran.committed => log.ino[j] = ino'[j].data
            /\ tran.full = "write" =>
               /\ log.com.ino[j] = log.com.entry[j]
               /\ log.ino[j] <= log.com.ino[j] /\ log.com.ino[j] <= ino'[j].data
               /\ promised[j] <= log.com.ino[j]
               /\ ino'[j].sync <= tran.ctid => log.com.ino[j] = ino'[j].data
    BY <1>3 DEF FcLog
  <2>1. CASE j = i
    BY <1>1, <1>5, <1>9, <2>1 DEF FcLog
  <2>2. CASE j # i
    BY <1>1, <1>5, <2>2 DEF FcLog
  <2> QED
    BY <2>1, <2>2
<1>13. FcGood'
  <2>1. \A j \in Inode : ino[j].data <= ino'[j].data
    BY <1>1, <1>7, SameData
  <2> QED
    BY <1>1, <1>3, <1>8, <2>1, FcGoodStill, SurvivorsStill
<1>14. FcQuiet'
  BY <1>1, <1>3, <1>4, <1>5 DEF FcQuiet, InQuiet, NoneStaged
<1>15. FcFull'
  <2> SUFFICES ASSUME flags = {"full"}, tran.full # "cleaned"
               PROVE  \A j \in Inode : InFull(j)'
    BY <1>3 DEF FcFull
  <2>1. \A j \in Inode : InFull(j)
    BY <1>1 DEF FcFull
  <2>2. Target' = Target /\ Target \in Nat
    BY <1>1, <1>3 DEF Target, FcTyped
  <2>3. inel.on /\ inel.tid > Target => inel'.tid > Target
    BY <1>1, <1>4, <2>2 DEF FcTyped
  <2>4. \A j \in Inode : Ends(j)' = Ends(j) /\ Newest("staging", j)' = Newest("staging", j)
                         /\ Named("staging", j)' = Named("staging", j)
    BY <1>3, <1>7 DEF Ends, Newest, Named
  <2>5. ASSUME NEW j \in Inode, j # i
        PROVE  InFull(j)'
    BY <1>4, <1>5, <2>1, <2>2, <2>3, <2>4, <2>5 DEF InFull
  <2>6. /\ newest > Target => tran.running # NoTran /\ tran.running > Target
        /\ newest <= Target => ino[i].sync <= Target
    <3>1. /\ FcLast \in Nat /\ tran.running \in Nat /\ tran.next \in Nat
          /\ tran.running # NoTran =>
                 tran.running = FcLast + 1 /\ tran.next = tran.running + 1
          /\ tran.full = "write" => tran.ctid = FcLast
      BY <1>1, NumbersAre
    <3>2. ino[i].sync < tran.next /\ ino[i].sync \in Nat
      BY <1>1 DEF FcHandles, FcTyped
    <3>3. tran.full \in {"write", "callback"} => Target = FcLast
      BY <3>1 DEF Target, FcLast
    <3>4. tran.full \in {"none", "wait", "locked"} => Target = tran.running
      BY DEF Target
    <3>5. tran.full \in {"none", "wait", "locked", "write", "callback"}
      BY <1>1 DEF FcTyped
    <3>6. CASE tran.running # NoTran
      BY <3>1, <3>2, <3>3, <3>4, <3>5, <3>6 DEF newest
    <3>7. CASE tran.running = NoTran
      <4>1. tran.full \in {"write", "callback"}
        BY <1>1, <3>5, <3>7 DEF FcNumbers
      <4> QED
        BY <1>9, <3>1, <3>2, <3>3, <3>7, <4>1
    <3> QED
      BY <3>6, <3>7
  <2>7. InFull(i)'
    <3>1. CASE newest > Target
      <4>1. tran.running # NoTran /\ tran.running > Target
        BY <2>6, <3>1
      <4>2. inel'.tid > Target
        BY <1>1, <1>4, <2>2, <4>1 DEF FcTyped
      <4> QED
        BY <1>4, <1>5, <2>2, <3>1, <4>2 DEF InFull
    <3>2. CASE newest <= Target
      <4>1. ino[i].sync <= Target
        BY <2>6, <3>2
      <4> QED
        <5>1. ino[i].sync \in Nat
          BY <1>1 DEF FcTyped
        <5>2. Ends(i) \/ (Named("staging", i) => Newest("staging", i))
          BY <2>1, <2>2, <4>1, <5>1 DEF InFull
        <5> QED
          BY <1>5, <2>2, <2>4, <3>2, <5>2 DEF InFull
    <3> QED
      BY <1>9, <2>2, <3>1, <3>2
  <2> QED
    BY <2>5, <2>7
<1> QED
  BY <1>8, <1>10, <1>11, <1>12, <1>13, <1>14, <1>15 DEF FcOrder

(* Steps of a thread that calls fsync.                                      *)
LEMMA GotoIs ==
  ASSUME FcTyped, NEW t \in Syncer, NEW pc \in FcStages, FcGoto(t, pc)
  PROVE  /\ sync' \in [Syncer -> FcSyncRecords]
         /\ sync'[t].pc = pc /\ sync'[t].on = sync[t].on /\ sync'[t].tid = sync[t].tid
         /\ sync'[t].must = sync[t].must
         /\ \A u \in Syncer : u # t => sync'[u] = sync[u]
<1>1. sync \in [Syncer -> FcSyncRecords] /\ sync' = [sync EXCEPT ![t].pc = pc]
  BY DEF FcTyped, FcGoto
<1> QED
  BY <1>1 DEF FcSyncRecords

LEMMA ReturnsIs ==
  ASSUME FcTyped, FcSyncs, NEW t \in Syncer, Returns(t), sync[t].pc # "idle"
  PROVE  /\ promised' \in FcContents
         /\ \A i \in Inode : promised'[i] # promised[i] =>
                i = sync[t].on /\ promised'[i] = sync[t].must
<1>1. sync[t].must \in Nat
  BY DEF FcTyped, FcSyncRecords
<1>2. sync[t].on \in Inode
  BY DEF FcSyncs, Asks
<1> QED
  BY <1>1, <1>2 DEF Returns, FcTyped, FcContents

(* A thread that makes no commit: it may ask for what memory has, and       *)
(* return when what it asked for is on disk.                                *)
LEMMA AskingStep ==
  ASSUME FcOrder, NEW t \in Syncer, NEW s \in FcSyncRecords, sync' = [sync EXCEPT ![t] = s],
         UNCHANGED <<tran, flags, handle, ino, entry, updates, inel, subtid, area, log,
                     handles>>,
         sync[t].pc \notin Fasting, s.pc \notin Fasting, s.pc # "idle" => Asks(s),
         promised' \in FcContents,
         \A i \in Inode : promised'[i] # promised[i] => promised'[i] <= log.ino[i]
  PROVE  FcOrder'
<1>1. /\ FcTyped /\ FcNumbers /\ FcThreads /\ FcHandles /\ FcLog /\ FcSyncs
      /\ FcArea /\ FcGood /\ FcQuiet /\ FcFull /\ FcFast
  BY DEF FcOrder
<1>2. /\ sync' \in [Syncer -> FcSyncRecords] /\ sync'[t] = s
      /\ \A u \in Syncer : u # t => sync'[u] = sync[u]
  BY <1>1 DEF FcTyped
<1>3. FcTyped' /\ FcNumbers' /\ FcHandles'
  BY <1>1, <1>2 DEF FcTyped, FcNumbers, FcLast, FcHandles, Ends
<1>4. \A u \in Syncer : sync'[u].pc \in Fasting => u # t /\ sync'[u] = sync[u]
  BY <1>2
<1>5. \A u \in Syncer : sync[u].pc \in Fasting => u # t /\ sync'[u] = sync[u]
  BY <1>2
<1>6. FcThreads'
  BY <1>1, <1>4, <1>5 DEF FcThreads, Fasting
<1>7. FcArea'
  <2>1. (\E u \in Syncer : sync[u].pc = "io") => \E u \in Syncer : sync'[u].pc = "io"
    BY <1>5 DEF Fasting
  <2> QED
    BY <1>1, <2>1 DEF FcArea
<1>8. FcSyncs'
  <2>1. \A u \in Syncer : u # t /\ sync'[u].pc # "idle" => Asks(sync[u])
    BY <1>1, <1>2 DEF FcSyncs
  <2> SUFFICES ASSUME NEW u \in Syncer, sync'[u].pc # "idle"
               PROVE  Asks(sync[u])'
    BY DEF FcSyncs
  <2>2. PICK r : r = sync'[u]
    OBVIOUS
  <2>3. Asks(r)
    BY <1>2, <2>1, <2>2
  <2> QED
    BY <2>2, <2>3 DEF Asks
<1>9. FcLog'
  <2> SUFFICES ASSUME NEW i \in Inode, tran.full = "write"
               PROVE  promised'[i] <= log.com.ino[i]
    BY <1>1 DEF FcLog
  <2>1. promised[i] <= log.com.ino[i] /\ log.ino[i] <= log.com.ino[i]
    BY <1>1 DEF FcLog
  <2>2. promised'[i] \in Nat /\ log.ino[i] \in Nat /\ log.com.ino[i] \in Nat
    BY <1>1, <1>3 DEF FcTyped, FcContents
  <2> QED
    BY <2>1, <2>2
<1>10. FcGood'
  <2>1. FcSurvivors' = FcSurvivors
    BY DEF FcSurvivors
  <2>2. ASSUME NEW seq \in FcSurvivors
        PROVE  FcSound(seq)'
    <3>1. FcReplayed(seq)' = FcReplayed(seq)
      BY ReplayStill
    <3>2. FcSound(seq)
      BY <1>1 DEF FcGood
    <3>3. ASSUME NEW i \in Inode
          PROVE  promised'[i] <= FcReplayed(seq).ino[i]
      <4>1. /\ promised[i] <= FcReplayed(seq).ino[i] /\ log.ino[i] <= FcReplayed(seq).ino[i]
            /\ FcReplayed(seq).ino[i] \in Nat
        BY <3>2 DEF FcSound
      <4>2. promised'[i] \in Nat /\ log.ino[i] \in Nat
        BY <1>1 DEF FcTyped, FcContents
      <4> QED
        BY <4>1, <4>2
    <3> QED
      BY <3>1, <3>2, <3>3 DEF FcSound
  <2> QED
    BY <2>1, <2>2 DEF FcGood
<1>11. \A i \in Inode : Recovers(i)' = Recovers(i)
  BY RecoversStill
<1>12. /\ \A i \in Inode : Ends(i)' = Ends(i)
       /\ \A i \in Inode, q \in Queue : Newest(q, i)' = Newest(q, i)
            /\ Named(q, i)' = Named(q, i)
       /\ NoneStaged' = NoneStaged /\ Target' = Target
       /\ "main" \in Queue /\ "staging" \in Queue
  BY DEF Ends, Newest, Named, NoneStaged, Target, Queue
<1>13. FcQuiet'
  <2>1. (\E u \in Syncer : sync'[u].pc = "end") => \E u \in Syncer : sync[u].pc = "end"
    BY <1>4 DEF Fasting
  <2>2. \A i \in Inode : InQuiet(i) => InQuiet(i)'
    BY <1>11, <1>12 DEF InQuiet
  <2> QED
    BY <1>1, <1>12, <2>1, <2>2 DEF FcQuiet
<1>14. FcFull'
  <2>1. \A i \in Inode : InFull(i) => InFull(i)'
    BY <1>12 DEF InFull
  <2> QED
    BY <1>1, <2>1 DEF FcFull
<1>15. FcFast'
  <2> SUFFICES ASSUME NEW u \in Syncer, sync'[u].pc \in Fasting
      PROVE  /\ sync[u].pc \in {"check", "lock", "mark", "write"} /\ ~inel.on =>
                  \A j \in Inode : InFast(j, u)'
             /\ sync[u].pc \in {"write", "io"} =>
                  \A j \in Inode : ino[j].list = "main" => ino[j].committing /\ ~Ends(j)'
             /\ sync[u].pc = "io" /\ log.start => \A j \in Inode : InIo(j)' /\ Enough(j, u)'
             /\ sync[u].pc = "end" => \A j \in Inode : Enough(j, u)'
             /\ sync[u].pc = "fallback" => NoneStaged'
    BY <1>4 DEF FcFast, Fasting
  <2>1. sync'[u] = sync[u]
    BY <1>4
  <2>2. \A j \in Inode : Enough(j, u)' = Enough(j, u)
    BY <1>11, <2>1 DEF Enough
  <2>3. \A j \in Inode : InFast(j, u) => InFast(j, u)'
    BY <1>11, <1>12, <2>2 DEF InFast
  <2>4. \A j \in Inode : InIo(j) => InIo(j)'
    BY <1>11, <1>12 DEF InIo
  <2> QED
    BY <1>1, <1>12, <2>2, <2>3, <2>4 DEF FcFast
<1> QED
  BY <1>3, <1>6, <1>7, <1>8, <1>9, <1>10, <1>13, <1>14, <1>15 DEF FcOrder

LEMMA IdleTyped == Idle \in FcSyncRecords /\ Idle.pc = "idle"
  BY DEF Idle, FcSyncRecords, FcStages, NoTran

LEMMA FsyncHolds ==
  ASSUME FcOrder, NEW t \in Syncer, NEW i \in Inode, Fsync(t, i)
  PROVE  FcOrder'
<1>1. FcTyped /\ FcHandles /\ FcLog /\ FcNumbers
  BY DEF FcOrder
<1>2. PICK s : s = [pc |-> "begin", on |-> i, tid |-> ino[i].sync, must |-> ino[i].data,
                    subtid |-> subtid]
  OBVIOUS
<1>3. sync' = [sync EXCEPT ![t] = s] /\ sync[t].pc = "idle" /\ promised' = promised
  BY <1>2 DEF Fsync, FcAt
<1>4. s \in FcSyncRecords /\ s.pc = "begin"
  BY <1>1, <1>2 DEF FcTyped, FcSyncRecords, FcStages
<1>5. Asks(s)
  <2>1. s.on = i /\ s.must = ino[i].data /\ s.tid = ino[i].sync
    BY <1>2
  <2>2. ino[i].data \in Nat
    BY <1>1 DEF FcTyped
  <2> QED
    BY <1>1, <2>1, <2>2 DEF Asks, FcHandles, FcLog
<1>6. promised' \in FcContents
  BY <1>1, <1>3 DEF FcTyped
<1>7. UNCHANGED <<tran, flags, handle, ino, entry, updates, inel, subtid, area, log,
                  handles>>
  BY DEF Fsync
<1> QED
  BY <1>3, <1>4, <1>5, <1>6, <1>7, AskingStep DEF Fasting

(* It returns because its transaction has committed; or it goes on to wait. *)
LEMMA ReturnStep ==
  ASSUME FcOrder, NEW t \in Syncer, sync[t].pc \notin Fasting, sync[t].pc # "idle",
         tran.committed >= sync[t].tid, Returns(t), sync' = [sync EXCEPT ![t] = Idle],
         UNCHANGED <<tran, flags, handle, ino, entry, updates, inel, subtid, area, log,
                     handles>>
  PROVE  FcOrder'
<1>1. FcTyped /\ FcSyncs
  BY DEF FcOrder
<1>2. /\ promised' \in FcContents
      /\ \A i \in Inode : promised'[i] # promised[i] =>
             i = sync[t].on /\ promised'[i] = sync[t].must
  BY <1>1, ReturnsIs
<1>3. sync[t].must <= log.ino[sync[t].on]
  <2>1. sync[t].tid \in Nat /\ tran.committed \in Nat
    BY <1>1 DEF FcTyped, FcSyncRecords
  <2> QED
    BY <1>1, <2>1 DEF FcSyncs, Asks
<1>4. Idle \in FcSyncRecords /\ Idle.pc \notin Fasting /\ Idle.pc = "idle"
  BY IdleTyped DEF Fasting
<1>5. PICK s : s = Idle
  OBVIOUS
<1> QED
  BY <1>2, <1>3, <1>4, <1>5, AskingStep

LEMMA GotoStep ==
  ASSUME FcOrder, NEW t \in Syncer, sync[t].pc \notin Fasting, sync[t].pc # "idle",
         NEW pc \in FcStages, pc \notin Fasting, FcGoto(t, pc), promised' = promised,
         UNCHANGED <<tran, flags, handle, ino, entry, updates, inel, subtid, area, log,
                     handles>>
  PROVE  FcOrder'
<1>1. FcTyped /\ FcSyncs
  BY DEF FcOrder
<1>2. PICK s : s = [sync[t] EXCEPT !.pc = pc]
  OBVIOUS
<1>3. /\ s \in FcSyncRecords /\ s.pc = pc /\ s.on = sync[t].on /\ s.must = sync[t].must
      /\ s.tid = sync[t].tid
  <2>1. sync[t] \in FcSyncRecords
    BY <1>1 DEF FcTyped
  <2> QED
    BY <1>2, <2>1 DEF FcSyncRecords
<1>4. sync' = [sync EXCEPT ![t] = s]
  BY <1>2 DEF FcGoto
<1>5. Asks(s)
  BY <1>1, <1>3 DEF FcSyncs, Asks
<1>6. promised' \in FcContents
  BY <1>1 DEF FcTyped
<1> QED
  BY <1>3, <1>4, <1>5, <1>6, AskingStep

LEMMA CompleteHolds ==
  ASSUME FcOrder, NEW t \in Syncer, Complete(t)
  PROVE  FcOrder'
<1>1. sync[t].pc = "complete" /\ tran.committed >= sync[t].tid /\ Returns(t)
      /\ sync' = [sync EXCEPT ![t] = Idle]
  BY DEF Complete, FcAt
<1>2. UNCHANGED <<tran, flags, handle, ino, entry, updates, inel, subtid, area, log,
                  handles>>
  BY DEF Complete
<1> QED
  BY <1>1, <1>2, ReturnStep DEF Fasting

LEMMA WokenHolds ==
  ASSUME FcOrder, NEW t \in Syncer, Woken(t), windows = {}, windows' = {}
  PROVE  FcOrder'
<1>1. sync[t].pc = "woken"
  BY DEF Woken, FcAt
<1>2. UNCHANGED <<tran, flags, handle, ino, entry, updates, inel, subtid, area, log,
                  handles>>
  BY DEF Woken
<1>3. CASE FcGoto(t, "begin") /\ UNCHANGED <<promised, windows>>
  BY <1>1, <1>2, <1>3, GotoStep DEF Fasting, FcStages
<1>4. CASE /\ Returns(t) /\ sync' = [sync EXCEPT ![t] = Idle]
           /\ windows' = windows \cup (IF sync[t].tid > tran.committed THEN {"joined"}
                                       ELSE {})
  <2>1. ~ (sync[t].tid > tran.committed)
    BY <1>4
  <2>2. sync[t].tid \in Nat /\ tran.committed \in Nat
    BY DEF FcOrder, FcTyped, FcSyncRecords
  <2>3. tran.committed >= sync[t].tid
    BY <2>1, <2>2
  <2> QED
    BY <1>1, <1>2, <1>4, <2>3, ReturnStep DEF Fasting
<1> QED
  BY <1>3, <1>4 DEF Woken

(* The thread that takes the flag finds the queues in order.                *)
LEMMA BeginHolds ==
  ASSUME FcOrder, NEW t \in Syncer, Begin(t)
  PROVE  FcOrder'
<1>1. sync[t].pc = "begin"
  BY DEF Begin, FcAt
<1>2. UNCHANGED <<tran, handle, ino, entry, updates, inel, subtid, area, log, handles>>
  BY DEF Begin
<1>3. CASE FcGoto(t, "complete") /\ UNCHANGED <<flags, promised>>
  BY <1>1, <1>2, <1>3, GotoStep DEF Fasting, FcStages
<1>4. CASE /\ tran.committed >= sync[t].tid /\ Returns(t)
           /\ sync' = [sync EXCEPT ![t] = Idle] /\ UNCHANGED flags
  BY <1>1, <1>2, <1>4, ReturnStep DEF Fasting
<1>5. CASE FcGoto(t, "wait") /\ UNCHANGED <<flags, promised>>
  BY <1>1, <1>2, <1>5, GotoStep DEF Fasting, FcStages
<1>6. CASE /\ tran.committed < sync[t].tid /\ flags = {}
           /\ flags' = {"fast"} /\ FcGoto(t, "check") /\ UNCHANGED promised
  <2>1. /\ FcTyped /\ FcNumbers /\ FcThreads /\ FcHandles /\ FcLog /\ FcSyncs /\ FcArea
        /\ FcGood
        /\ FcQuiet /\ FcFull /\ FcFast
    BY DEF FcOrder
  <2>2. /\ sync' \in [Syncer -> FcSyncRecords]
        /\ sync'[t].pc = "check" /\ sync'[t].on = sync[t].on /\ sync'[t].tid = sync[t].tid
        /\ sync'[t].must = sync[t].must
        /\ \A u \in Syncer : u # t => sync'[u] = sync[u]
    BY <1>6, <2>1, GotoIs DEF FcStages
  <2>3. tran.full = "none" /\ tran.running # NoTran
    <3>1. sync[t].tid \in Nat /\ sync[t].tid < tran.next
      BY <1>1, <2>1 DEF FcSyncs, Asks, FcTyped, FcSyncRecords
    <3>2. tran.full = "none"
      BY <1>6, <2>1 DEF FcNumbers, FcTyped
    <3> QED
      BY <1>6, <2>1, <3>1, <3>2 DEF FcNumbers, FcTyped, FcLast, NoTran
  <2>4. \A u \in Syncer : sync[u].pc \notin Fasting
    BY <1>6, <2>1 DEF FcThreads
  <2>5. \A u \in Syncer : u # t => sync'[u].pc \notin Fasting
    BY <2>2, <2>4
  <2>6. FcTyped' /\ FcHandles' /\ FcLog'
    BY <1>2, <1>6, <2>1, <2>2 DEF FcTyped, FcHandles, Ends, FcLog
  <2>7. FcNumbers'
    BY <1>2, <1>6, <2>1, <2>3 DEF FcNumbers, FcLast
  <2>8. FcThreads'
    BY <1>2, <1>6, <2>2, <2>3, <2>5 DEF FcThreads, Fasting
  <2>9. FcSyncs'
    <3> SUFFICES ASSUME NEW u \in Syncer, sync'[u].pc # "idle"
                 PROVE  Asks(sync[u])'
      BY DEF FcSyncs
    <3>1. Asks(sync[u]) /\ sync'[u].on = sync[u].on /\ sync'[u].tid = sync[u].tid
          /\ sync'[u].must = sync[u].must
      BY <1>1, <2>1, <2>2 DEF FcSyncs
    <3> QED
      BY <1>2, <3>1 DEF Asks
  <2>10. FcArea'
    <3>1. area.written
      BY <2>1, <2>4 DEF FcArea, Fasting
    <3> QED
      BY <1>2, <2>1, <3>1 DEF FcArea
  <2>11. FcGood'
    <3>1. \A j \in Inode : ino[j].data <= ino'[j].data
      BY <1>2, <2>1, SameData
    <3> QED
      BY <1>2, <1>6, <2>1, <2>6, <3>1, FcGoodStill, SurvivorsStill
  <2>12. \A i \in Inode : Recovers(i)' = Recovers(i)
    BY <1>2, RecoversStill
  <2>13. FcQuiet'
    BY <1>2, <1>6, <2>2, <2>3, <2>5 DEF FcQuiet, Fasting
  <2>14. FcFull'
    BY <1>6 DEF FcFull
  <2>15. FcFast'
    <3>1. NoneStaged /\ \A i \in Inode : InQuiet(i)
      BY <1>6, <2>1 DEF FcQuiet
    <3>2. ASSUME ~inel.on, NEW i \in Inode
          PROVE  InFast(i, t)'
      <4>1. InQuiet(i) /\ ~Named("staging", i) /\ ino[i].list # "staging"
        BY <3>1 DEF NoneStaged, Named
      <4>2. /\ Ends(i)' = Ends(i) /\ Newest("main", i)' = Newest("main", i)
            /\ Named("main", i)' = Named("main", i)
            /\ Named("staging", i)' = Named("staging", i)
        BY <1>2 DEF Ends, Newest, Named
      <4> QED
        BY <1>2, <2>12, <3>2, <4>1, <4>2 DEF InQuiet, InFast
    <3> QED
      BY <1>2, <2>2, <2>5, <3>2 DEF FcFast, Fasting
  <2> QED
    BY <2>6, <2>7, <2>8, <2>9, <2>10, <2>11, <2>13, <2>14, <2>15 DEF FcOrder
<1> QED
  BY <1>3, <1>4, <1>5, <1>6 DEF Begin

(* A step of the thread that commits, to another stage before the write.    *)
LEMMA FastingStep ==
  ASSUME FcOrder, NEW t \in Syncer, NEW pc \in Fasting, sync[t].pc \in Fasting,
         sync[t].pc \notin {"io", "end"}, pc \notin {"io", "end"}, FcGoto(t, pc),
         pc \in {"lock", "mark", "write"} => ~inel.on,
         UNCHANGED <<tran, flags, handle, entry, updates, inel, subtid, area, log, promised,
                     handles>>,
         ino' \in [Inode -> [data : Nat, sync : Nat, list : {"none"} \cup Queue,
                             committing : BOOLEAN]],
         \A i \in Inode : ino'[i].data = ino[i].data /\ ino'[i].sync = ino[i].sync
                          /\ ino'[i].list = ino[i].list,
         pc \in {"lock", "mark", "write"} => sync[t].pc \in {"check", "lock", "mark"},
         pc = "write" => \A i \in Inode : ino[i].list = "main" =>
             ino'[i].committing /\ ~Ends(i),
         pc \notin {"check", "fallback"}
  PROVE  FcOrder'
<1>1. /\ FcTyped /\ FcNumbers /\ FcThreads /\ FcHandles /\ FcLog /\ FcSyncs
      /\ FcArea /\ FcGood /\ FcQuiet /\ FcFull /\ FcFast
  BY DEF FcOrder
<1>2. /\ sync' \in [Syncer -> FcSyncRecords]
      /\ sync'[t].pc = pc /\ sync'[t].on = sync[t].on /\ sync'[t].tid = sync[t].tid
      /\ sync'[t].must = sync[t].must
      /\ \A u \in Syncer : u # t => sync'[u] = sync[u]
  BY <1>1, GotoIs DEF FcStages, Fasting
<1>3. "fast" \in flags /\ \A u \in Syncer : u # t => sync[u].pc \notin Fasting
  BY <1>1 DEF FcThreads
<1>4. \A u \in Syncer : u # t => sync'[u].pc \notin Fasting
  BY <1>2, <1>3
<1>5. FcTyped'
  BY <1>1, <1>2 DEF FcTyped
<1>6. FcNumbers'
  BY <1>1 DEF FcNumbers, FcLast
<1>7. FcThreads'
  BY <1>1, <1>2, <1>3, <1>4 DEF FcThreads
<1>8. FcHandles'
  BY <1>1 DEF FcHandles, Ends
<1>9. FcLog'
  BY <1>1 DEF FcLog
<1>10. FcSyncs'
  <2> SUFFICES ASSUME NEW u \in Syncer, sync'[u].pc # "idle"
               PROVE  Asks(sync[u])'
    BY DEF FcSyncs
  <2>1. Asks(sync[u]) /\ sync'[u].on = sync[u].on /\ sync'[u].tid = sync[u].tid
        /\ sync'[u].must = sync[u].must
    BY <1>1, <1>2 DEF FcSyncs, Fasting
  <2> QED
    BY <2>1 DEF Asks
<1>11. FcArea'
  <2>1. area.written
    BY <1>1, <1>3 DEF FcArea, Fasting
  <2> QED
    BY <1>1, <2>1 DEF FcArea
<1>12. FcGood'
  <2>1. \A j \in Inode : ino[j].data <= ino'[j].data
    BY <1>1, SameData
  <2> QED
    BY <1>1, <1>5, <2>1, FcGoodStill, SurvivorsStill
<1>13. \A i \in Inode : Recovers(i)' = Recovers(i)
  BY RecoversStill
<1>14. FcQuiet'
  BY <1>1, <1>2, <1>3, <1>4 DEF FcQuiet, FcNumbers, Fasting
<1>15. FcFull'
  BY <1>3 DEF FcFull
<1>16. FcFast'
  <2>1. ASSUME pc \in {"lock", "mark", "write"}, NEW i \in Inode
        PROVE  InFast(i, t)'
    <3>1. InFast(i, t)
      BY <1>1, <2>1 DEF FcFast
    <3>2. /\ Ends(i)' = Ends(i) /\ Newest("main", i)' = Newest("main", i)
          /\ Named("main", i)' = Named("main", i)
          /\ Named("staging", i)' = Named("staging", i)
          /\ Newest("staging", i)' = Newest("staging", i)
          /\ Enough(i, t)' = Enough(i, t)
      BY <1>2, <1>13 DEF Ends, Newest, Named, Enough
    <3> QED
      BY <1>13, <3>1, <3>2 DEF InFast
  <2>2. \A i \in Inode : Ends(i)' = Ends(i)
    BY DEF Ends
  <2> QED
    BY <1>2, <1>4, <2>1, <2>2 DEF FcFast, Fasting
<1> QED
  BY <1>5, <1>6, <1>7, <1>8, <1>9, <1>10, <1>11, <1>12, <1>14, <1>15, <1>16 DEF FcOrder

LEMMA CheckHolds ==
  ASSUME FcOrder, NEW t \in Syncer, Check(t)
  PROVE  FcOrder'
<1>1. /\ sync[t].pc = "check" /\ FcGoto(t, IF inel.on THEN "failed" ELSE "lock")
      /\ UNCHANGED <<tran, flags, handle, ino, entry, updates, inel, subtid, area, log,
                     promised, handles>>
  BY DEF Check, FcAt
<1>2. PICK pc \in {"failed", "lock"} : pc = IF inel.on THEN "failed" ELSE "lock"
  OBVIOUS
<1>3. ino' \in [Inode -> [data : Nat, sync : Nat, list : {"none"} \cup Queue,
                          committing : BOOLEAN]]
  BY <1>1 DEF FcOrder, FcTyped
<1>4. /\ pc \in Fasting /\ sync[t].pc \in Fasting /\ sync[t].pc \notin {"io", "end"}
      /\ pc \notin {"io", "end"} /\ pc # "write" /\ pc \notin {"check", "fallback"}
      /\ pc \in {"lock", "mark", "write"} => ~inel.on
      /\ pc \in {"lock", "mark", "write"} => sync[t].pc \in {"check", "lock", "mark"}
      /\ FcGoto(t, pc)
  BY <1>1, <1>2 DEF Fasting
<1> QED
  BY <1>1, <1>3, <1>4, FastingStep

LEMMA LockUpdatesHolds ==
  ASSUME FcOrder, NEW t \in Syncer, LockUpdates(t)
  PROVE  FcOrder'
<1>1. /\ sync[t].pc = "lock" /\ FcGoto(t, "mark")
      /\ UNCHANGED <<tran, flags, handle, ino, entry, updates, inel, subtid, area, log,
                     promised, handles>>
  BY DEF LockUpdates, FcAt
<1>2. ~inel.on
  BY <1>1 DEF FcOrder, FcThreads
<1>3. ino' \in [Inode -> [data : Nat, sync : Nat, list : {"none"} \cup Queue,
                          committing : BOOLEAN]]
  BY <1>1 DEF FcOrder, FcTyped
<1> QED
  BY <1>1, <1>2, <1>3, FastingStep DEF Fasting

(* The barrier has let every handle end, so that what is marked is whole.   *)
LEMMA MarkInodesHolds ==
  ASSUME FcOrder, NEW t \in Syncer, MarkInodes(t)
  PROVE  FcOrder'
<1>1. /\ sync[t].pc = "mark" /\ FcGoto(t, "write")
           /\ \A i \in Inode : handle[i].step = "none"
      /\ UNCHANGED <<tran, flags, handle, entry, updates, inel, subtid, area, log, promised,
                     handles>>
      /\ ino' = [i \in Inode |-> [ino[i] EXCEPT !.committing = @ \/ ino[i].list = "main"]]
  BY DEF MarkInodes, FcAt
<1>2. ~inel.on
  BY <1>1 DEF FcOrder, FcThreads
<1>3. ASSUME NEW i \in Inode
      PROVE  /\ ino'[i] \in [data : Nat, sync : Nat, list : {"none"} \cup Queue,
                             committing : BOOLEAN]
             /\ ino'[i].data = ino[i].data /\ ino'[i].sync = ino[i].sync
             /\ ino'[i].list = ino[i].list /\ (ino[i].list = "main" => ino'[i].committing)
  <2>1. ino[i] \in [data : Nat, sync : Nat, list : {"none"} \cup Queue,
                    committing : BOOLEAN]
    BY DEF FcOrder, FcTyped
  <2>2. PICK c \in BOOLEAN : c <=> (ino[i].committing \/ ino[i].list = "main")
    OBVIOUS
  <2>3. (ino[i].committing \/ ino[i].list = "main") \in BOOLEAN
    OBVIOUS
  <2>4. ino'[i] = [ino[i] EXCEPT !.committing = @ \/ ino[i].list = "main"]
    BY <1>1
  <2> QED
    BY <2>1, <2>3, <2>4
<1>4. ino' \in [Inode -> [data : Nat, sync : Nat, list : {"none"} \cup Queue,
                          committing : BOOLEAN]]
  BY <1>1, <1>3
<1>5. \A i \in Inode : ino[i].list = "main" => ino'[i].committing /\ ~Ends(i)
  BY <1>1, <1>3 DEF Ends
<1> QED
  BY <1>1, <1>2, <1>3, <1>4, <1>5, FastingStep DEF Fasting

FcNewest(i) ==
  CHOOSE n \in {u[2] : u \in {v \in updates["main"] : v[1] = i}} :
    \A u \in updates["main"] : u[1] = i => u[2] <= n

(* Of the entries in the main queue the newest is written.                  *)
LEMMA NewestIs ==
  ASSUME FcTyped, NEW i \in Inode, NEW m \in Nat, <<i, m>> \in updates["main"],
         \A n \in Nat : <<i, n>> \in updates["main"] => n <= m
  PROVE  FcNewest(i) = m
<1> DEFINE S == {u[2] : u \in {v \in updates["main"] : v[1] = i}}
<1>1. updates["main"] \subseteq Inode \X Nat
  BY DEF FcTyped, Queue
<1>2. \A n : n \in S <=> n \in Nat /\ <<i, n>> \in updates["main"]
  BY <1>1
<1>3. \A u \in updates["main"] : u[1] = i => u[2] \in Nat /\ u[2] <= m
  <2> SUFFICES ASSUME NEW u \in updates["main"], u[1] = i
               PROVE  u[2] \in Nat /\ u[2] <= m
    OBVIOUS
  <2>1. u = <<i, u[2]>> /\ u[2] \in Nat
    BY <1>1
  <2> QED
    BY <2>1
<1>4. m \in S
  BY <1>2
<1> HIDE DEF S
<1>5. \A n \in S : (\A u \in updates["main"] : u[1] = i => u[2] <= n) => n = m
  <2> SUFFICES ASSUME NEW n \in S, \A u \in updates["main"] : u[1] = i => u[2] <= n
               PROVE  n = m
    OBVIOUS
  <2>1. n \in Nat /\ n <= m
    BY <1>2
  <2>2. PICK w : w = <<i, m>>
    OBVIOUS
  <2>3. w \in updates["main"] /\ w[1] = i /\ w[2] = m
    BY <2>2
  <2>4. m <= n
    BY <2>3
  <2> QED
    BY <2>1, <2>4
<1>6. FcNewest(i) = CHOOSE n \in S : \A u \in updates["main"] : u[1] = i => u[2] <= n
  BY DEF FcNewest, S
<1> QED
  BY <1>3, <1>4, <1>5, <1>6

(* The next fast commit follows those that replay accepts now.              *)
LEMMA BaseIs ==
  ASSUME FcTyped, FcArea, FcGood, tran.full \in {"none", "wait"},
         NEW base, base = SubSeq(area.seq, 1, area.off)
  PROVE  /\ base \in Seq(FcCommits) /\ Len(base) = area.off
         /\ \A k \in 1..Len(base) : base[k].tid = tran.committed + 1
         /\ \A i \in Inode : /\ FcReplayed(base).ino[i] = Recovers(i)
                             /\ FcReplayed(base).entry[i] = Recovers(i)
<1>1. area.seq \in Seq(FcCommits) /\ area.off \in Nat
  BY DEF FcTyped
<1>2. CASE area.off # 0
  <2>1. area.off = Len(area.seq)
    BY <1>2 DEF FcArea
  <2>2. base = area.seq
    BY <1>1, <2>1
  <2> QED
    BY <1>1, <1>2, <2>1, <2>2, RecoversTyped DEF FcArea, Recovers
<1>3. CASE area.off = 0
  <2>1. base = <<>> /\ Len(base) = 0 /\ base \in Seq(FcCommits)
    BY <1>1, <1>3
  <2>2. Len(area.seq) # 0 => area.seq[1].tid # tran.committed + 1
    <3>1. \A k \in 1..Len(area.seq) : area.seq[k].tid <= tran.committed
      BY <1>3 DEF FcArea
    <3>2. Len(area.seq) \in Nat /\ tran.committed \in Nat
      BY <1>1 DEF FcTyped
    <3>3. Len(area.seq) # 0 => 1 \in 1..Len(area.seq)
      BY <3>2
    <3> QED
      BY <3>1, <3>2, <3>3
  <2>3. ASSUME NEW i \in Inode
        PROVE  /\ FcReplayed(base).ino[i] = Recovers(i)
               /\ FcReplayed(base).entry[i] = Recovers(i)
    <3>1. FcReplayed(base).ino[i] = log.ino[i] /\ FcReplayed(base).entry[i] = log.entry[i]
      BY <2>1, ReplaysLog
    <3>2. /\ FcReplayed(area.seq).ino[i] = log.ino[i]
          /\ FcReplayed(area.seq).entry[i] = log.entry[i]
      BY <1>1, <2>2, ReplaysLog
    <3>3. FcReplayed(area.seq).entry[i] = Recovers(i)
      BY RecoversTyped
    <3> QED
      BY <3>1, <3>2, <3>3 DEF Recovers
  <2> QED
    BY <1>3, <2>1, <2>3
<1> QED
  BY <1>2, <1>3

(* The step that writes a fast commit: replay of all of it recovers what    *)
(* was in the main queue, replay without it what was recovered before.      *)
LEMMA WriteCommitHolds ==
  ASSUME FcOrder, NEW t \in Syncer, WriteCommit(t)
  PROVE  FcOrder'
<1>1. /\ FcTyped /\ FcNumbers /\ FcThreads /\ FcHandles /\ FcLog /\ FcSyncs
      /\ FcArea /\ FcGood /\ FcQuiet /\ FcFull /\ FcFast
  BY DEF FcOrder
<1>2. /\ sync[t].pc = "write"
      /\ UNCHANGED <<tran, flags, handle, ino, entry, updates, inel, subtid, log, promised,
                     handles>>
  BY DEF WriteCommit, FcAt
<1>3. /\ ~inel.on /\ "fast" \in flags /\ tran.full \in {"none", "wait"}
      /\ tran.running # NoTran
      /\ tran.running = tran.committed + 1
      /\ \A u \in Syncer : u # t => sync[u].pc \notin Fasting
  BY <1>1, <1>2 DEF FcThreads, FcNumbers, FcLast, Fasting
<1>4. \A i \in Inode : InFast(i, t)
        /\ (ino[i].list = "main" => ino[i].committing /\ ~Ends(i))
  BY <1>1, <1>2, <1>3 DEF FcFast
<1>5. CASE FcGoto(t, "failed") /\ UNCHANGED area
  <2>1. ino' \in [Inode -> [data : Nat, sync : Nat, list : {"none"} \cup Queue,
                            committing : BOOLEAN]]
    BY <1>1, <1>2 DEF FcTyped
  <2> QED
    BY <1>2, <1>5, <2>1, FastingStep DEF Fasting
<1> DEFINE files == {i \in Inode : ino[i].list = "main" /\ ino[i].committing}
<1> DEFINE named == {u[1] : u \in updates["main"]}
<1> DEFINE commit == [tid |-> tran.running, ino |-> [i \in files |-> ino[i].data],
                      entry |-> [i \in named |-> FcNewest(i)]]
<1>6. CASE /\ area' = [seq |-> SubSeq(area.seq, 1, area.off) \o <<commit>>,
                       off |-> area.off + 1, written |-> FALSE]
           /\ FcGoto(t, "io")
  <2>1. /\ sync' \in [Syncer -> FcSyncRecords]
        /\ sync'[t].pc = "io" /\ sync'[t].on = sync[t].on /\ sync'[t].tid = sync[t].tid
        /\ sync'[t].must = sync[t].must
        /\ \A u \in Syncer : u # t => sync'[u] = sync[u]
    BY <1>1, <1>6, GotoIs DEF FcStages
  <2>2. \A u \in Syncer : u # t => sync'[u].pc \notin Fasting
    BY <1>3, <2>1
  <2>3. /\ named \in SUBSET Inode /\ files \in SUBSET Inode
        /\ \A i \in Inode : i \in named <=> Named("main", i)
    <3>1. updates["main"] \subseteq Inode \X Nat
      BY <1>1 DEF FcTyped, Queue
    <3>2. named \in SUBSET Inode /\ files \in SUBSET Inode
      BY <3>1
    <3>3. ASSUME NEW i \in Inode
          PROVE  i \in named <=> Named("main", i)
      <4>1. i \in named => Named("main", i)
        <5>1. ASSUME NEW u \in updates["main"], i = u[1]
              PROVE  Named("main", i)
          <6>1. u = <<i, u[2]>> /\ u[2] \in Nat
            BY <3>1, <5>1
          <6> QED
            BY <6>1 DEF Named
        <5> QED
          BY <5>1
      <4>2. Named("main", i) => i \in named
        <5>1. ASSUME NEW n \in Nat, <<i, n>> \in updates["main"]
              PROVE  i \in named
          <6>1. PICK u : u = <<i, n>>
            OBVIOUS
          <6>2. u \in updates["main"] /\ u[1] = i
            BY <5>1, <6>1
          <6> QED
            BY <6>2
        <5> QED
          BY <5>1 DEF Named
      <4> QED
        BY <4>1, <4>2
    <3> QED
      BY <3>2, <3>3
  <2>4. ASSUME NEW i \in named
        PROVE  FcNewest(i) = IF ino[i].list = "staging" THEN Recovers(i) ELSE ino[i].data
    <3>1. i \in Inode /\ Named("main", i)
      BY <2>3
    <3>2. CASE ino[i].list = "staging"
      <4>1. /\ <<i, Recovers(i)>> \in updates["main"]
            /\ \A n \in Nat : <<i, n>> \in updates["main"] => n <= Recovers(i)
        BY <1>4, <3>1, <3>2 DEF InFast
      <4>2. Recovers(i) \in Nat
        BY <1>1, <3>1, RecoversTyped
      <4> QED
        BY <1>1, <3>1, <3>2, <4>1, <4>2, NewestIs
    <3>3. CASE ino[i].list # "staging"
      <4>1. <<i, ino[i].data>> \in updates["main"]
        BY <1>4, <3>1, <3>3 DEF InFast, Newest
      <4>2. \A n \in Nat : <<i, n>> \in updates["main"] => n <= ino[i].data
        BY <1>1, <3>1 DEF FcHandles, Queue
      <4>3. ino[i].data \in Nat
        BY <1>1, <3>1 DEF FcTyped
      <4> QED
        BY <1>1, <3>1, <3>3, <4>1, <4>2, <4>3, NewestIs
    <3> QED
      BY <3>2, <3>3
  <2>5. PICK c : c = commit
    OBVIOUS
  <2>6. /\ c \in FcCommits /\ c.tid = tran.committed + 1
        /\ DOMAIN c.ino = files /\ \A i \in files : c.ino[i] = ino[i].data
        /\ DOMAIN c.entry = named /\ \A i \in named : c.entry[i] = FcNewest(i)
    <3>1. ASSUME NEW i \in named
          PROVE  FcNewest(i) \in Nat
      <4>1. Recovers(i) \in Nat
        BY <1>1, <2>3, RecoversTyped
      <4>2. ino[i].data \in Nat
        BY <1>1, <2>3 DEF FcTyped
      <4> QED
        BY <2>4, <4>1, <4>2
    <3>2. \A i \in files : ino[i].data \in Nat
      BY <1>1 DEF FcTyped
    <3> HIDE DEF files, named
    <3>3. [i \in files |-> ino[i].data] \in [files -> Nat]
      BY <3>2
    <3>4. [i \in named |-> FcNewest(i)] \in [named -> Nat]
      BY <3>1
    <3>5. /\ [i \in files |-> ino[i].data] \in FcParts
          /\ [i \in named |-> FcNewest(i)] \in FcParts
      BY <2>3, <3>3, <3>4 DEF FcParts
    <3>6. tran.running \in Nat
      BY <1>1 DEF FcTyped
    <3> QED
      BY <1>3, <2>5, <3>5, <3>6 DEF FcCommits
  <2> HIDE DEF commit
  <2>7. PICK base : base = SubSeq(area.seq, 1, area.off)
    OBVIOUS
  <2>8. /\ base \in Seq(FcCommits) /\ Len(base) = area.off
        /\ \A k \in 1..Len(base) : base[k].tid = tran.committed + 1
        /\ \A i \in Inode : /\ FcReplayed(base).ino[i] = Recovers(i)
                            /\ FcReplayed(base).entry[i] = Recovers(i)
    BY <1>1, <1>3, <2>7, BaseIs
  <2>9. PICK all : all = Append(base, c)
    OBVIOUS
  <2>10. /\ area'.seq = all /\ area'.off = area.off + 1 /\ ~area'.written
         /\ area' \in [seq : Seq(FcCommits), off : Nat, written : BOOLEAN]
         /\ Len(all) = area.off + 1
              /\ \A k \in 1..Len(all) : all[k].tid = tran.committed + 1
         /\ SubSeq(all, 1, Len(all) - 1) = base
    <3>1. base \o <<c>> = all
      BY <2>6, <2>8, <2>9
    <3>2. area' = [seq |-> all, off |-> area.off + 1, written |-> FALSE]
      BY <1>6, <2>5, <2>7, <3>1
    <3>3. area.off \in Nat /\ all \in Seq(FcCommits)
      BY <1>1, <2>6, <2>8, <2>9 DEF FcTyped
    <3>4. Len(all) = area.off + 1
      BY <2>6, <2>8, <2>9, <3>3
    <3>5. \A k \in 1..Len(all) : all[k] = IF k <= area.off THEN base[k] ELSE c
      BY <2>6, <2>8, <2>9, <3>3, <3>4
    <3>6. \A k \in 1..Len(all) : all[k].tid = tran.committed + 1
      <4>1. ASSUME NEW k \in 1..Len(all)
            PROVE  all[k].tid = tran.committed + 1
        <5>1. k <= area.off => k \in 1..Len(base)
          BY <2>8, <3>3
        <5> QED
          BY <2>6, <2>8, <3>5, <5>1
      <4> QED
        BY <4>1
    <3>7. SubSeq(all, 1, Len(all) - 1) = base
      BY <2>6, <2>8, <2>9, <3>3, <3>4
    <3> QED
      BY <3>2, <3>3, <3>4, <3>6, <3>7
  <2>11. ASSUME NEW i \in Inode
         PROVE  /\ FcReplayed(all).ino[i] =
                     IF log.start /\ ino[i].list = "main" THEN ino[i].data ELSE Recovers(i)
                /\ FcReplayed(all).entry[i] = FcReplayed(all).ino[i]
    <3>1. i \in files <=> ino[i].list = "main"
      BY <1>4
    <3>2. CASE log.start
      <4>1. /\ FcReplayed(all).ino[i] = IF i \in files THEN ino[i].data ELSE Recovers(i)
            /\ FcReplayed(all).entry[i] = IF i \in named THEN FcNewest(i) ELSE Recovers(i)
        BY <1>1, <2>6, <2>8, <2>9, <3>2, ReplaysMore
      <4>2. CASE i \in named
        BY <1>4, <2>4, <3>1, <3>2, <4>1, <4>2, <1>1, RecoversTyped DEF InFast
      <4>3. CASE i \notin named
        <5>1. ~Named("main", i)
          BY <2>3, <4>3
        <5>2. ~Newest("main", i)
          BY <1>1, <5>1 DEF Named, Newest, FcTyped
        <5>3. ino[i].list = "main" => Recovers(i) = ino[i].data
          BY <1>4, <5>2 DEF InFast
        <5> QED
          BY <3>1, <3>2, <4>1, <4>3, <5>3
      <4> QED
        BY <4>2, <4>3
    <3>3. CASE ~log.start
      <4>1. FcReplayed(all).ino[i] = log.ino[i] /\ FcReplayed(all).entry[i] = log.entry[i]
        BY <1>1, <2>10, <3>3, ReplaysLog
      <4>2. /\ FcReplayed(area.seq).ino[i] = log.ino[i]
            /\ FcReplayed(area.seq).entry[i] = log.entry[i]
        BY <1>1, <3>3, ReplaysLog DEF FcTyped
      <4>3. log.ino[i] = log.entry[i]
        BY <1>1 DEF FcLog
      <4> QED
        BY <3>3, <4>1, <4>2, <4>3 DEF Recovers
    <3> QED
      BY <3>2, <3>3
  <2> HIDE DEF files, named
  <2>12. FcReplayed(all)' = FcReplayed(all) /\ FcReplayed(base)' = FcReplayed(base)
    BY <1>2, ReplayStill
  <2>13. ASSUME NEW i \in Inode
         PROVE Recovers(i)' = IF log.start /\ ino[i].list = "main" THEN ino[i].data
                 ELSE Recovers(i)
    BY <2>10, <2>11, <2>12 DEF Recovers
  <2>14. FcTyped'
    BY <1>1, <1>2, <2>1, <2>10 DEF FcTyped
  <2>15. FcNumbers' /\ FcHandles' /\ FcLog'
    BY <1>1, <1>2 DEF FcNumbers, FcLast, FcHandles, Ends, FcLog
  <2>16. FcThreads'
    BY <1>2, <1>3, <2>1, <2>2 DEF FcThreads, Fasting
  <2>17. FcSyncs'
    <3> SUFFICES ASSUME NEW u \in Syncer, sync'[u].pc # "idle"
                 PROVE  Asks(sync[u])'
      BY DEF FcSyncs
    <3>1. Asks(sync[u]) /\ sync'[u].on = sync[u].on /\ sync'[u].tid = sync[u].tid
          /\ sync'[u].must = sync[u].must
      BY <1>1, <1>2, <2>1 DEF FcSyncs
    <3> QED
      BY <1>2, <3>1 DEF Asks
  <2>18. FcArea'
    <3>1. area.off \in Nat
      BY <1>1 DEF FcTyped
    <3> QED
      BY <1>2, <1>3, <2>1, <2>10, <3>1 DEF FcArea
  <2>19. FcGood'
    <3>1. FcSurvivors' = {all, base}
      BY <2>10 DEF FcSurvivors
    <3>2. ASSUME NEW i \in Inode
          PROVE  /\ Recovers(i) \in Nat /\ promised[i] <= Recovers(i)
                 /\ log.ino[i] <= Recovers(i)
                 /\ Recovers(i) <= ino[i].data /\ ino[i].data \in Nat
                 /\ promised[i] \in Nat /\ log.ino[i] \in Nat
      BY <1>1, RecoversTyped DEF FcTyped, FcContents
    <3>3. FcSound(base)'
      BY <1>2, <2>8, <2>12, <3>2 DEF FcSound
    <3>4. FcSound(all)'
      BY <1>2, <2>11, <2>12, <3>2 DEF FcSound
    <3> QED
      BY <3>1, <3>3, <3>4 DEF FcGood
  <2>20. FcQuiet' /\ FcFull'
    BY <1>2, <1>3, <2>1, <2>2 DEF FcQuiet, FcFull, Fasting
  <2>21. FcFast'
    <3>1. ASSUME NEW i \in Inode, log.start
          PROVE  InIo(i)' /\ Enough(i, t)'
      <4>1. /\ Ends(i)' = Ends(i) /\ Newest("staging", i)' = Newest("staging", i)
            /\ Named("staging", i)' = Named("staging", i)
        BY <1>2 DEF Ends, Newest, Named
      <4>2. InIo(i)'
        BY <1>2, <1>4, <2>13, <3>1, <4>1 DEF InFast, InIo
      <4>3. sync[t].on = i => sync[t].must <= ino[i].data
        BY <1>1, <1>2 DEF FcSyncs, Asks
      <4>4. ino[i].list # "main" => Enough(i, t)
        BY <1>4, <4>3 DEF InFast, Enough
      <4>5. Enough(i, t)'
        BY <2>1, <2>13, <3>1, <4>3, <4>4 DEF Enough
      <4> QED
        BY <4>2, <4>5
    <3>2. \A i \in Inode : ino'[i].list = "main" => ino'[i].committing /\ ~Ends(i)'
      BY <1>2, <1>4 DEF Ends
    <3> QED
      BY <1>2, <2>1, <2>2, <3>1, <3>2 DEF FcFast, Fasting
  <2> QED
    BY <2>14, <2>15, <2>16, <2>17, <2>18, <2>19, <2>20, <2>21 DEF FcOrder
<1>7. \/ /\ area' = [seq |-> SubSeq(area.seq, 1, area.off) \o <<commit>>,
                     off |-> area.off + 1, written |-> FALSE]
         /\ FcGoto(t, "io")
      \/ FcGoto(t, "failed") /\ UNCHANGED area
  BY DEF WriteCommit, FcNewest
<1> QED
  BY <1>5, <1>6, <1>7

(* What Cleanup makes of the queues.                                        *)
LEMMA CleanupIs ==
  ASSUME FcTyped, NEW full \in BOOLEAN, NEW tid \in Nat, Cleanup(full, tid)
  PROVE  /\ ino' \in [Inode -> [data : Nat, sync : Nat, list : {"none"} \cup Queue,
                                committing : BOOLEAN]]
         /\ \A i \in Inode :
              /\ ino'[i].data = ino[i].data /\ ino'[i].sync = ino[i].sync
              /\ ino[i].list = "main" =>
                     ino'[i].list = IF full /\ ino[i].sync > tid THEN "main" ELSE "none"
              /\ ino[i].list = "staging" => ino'[i].list = "main"
              /\ ino[i].list = "none" => ino'[i].list = "none"
         /\ updates' \in [Queue -> SUBSET (Inode \X Nat)]
         /\ updates'["main"] = updates["staging"] /\ updates'["staging"] = {}
         /\ inel' \in [on : BOOLEAN, tid : Nat]
         /\ ~inel.on => ~inel'.on
         /\ inel.on /\ inel.tid > tid => inel' = inel
<1>1. ASSUME NEW i \in Inode
      PROVE  /\ ino'[i] \in [data : Nat, sync : Nat, list : {"none"} \cup Queue,
                             committing : BOOLEAN]
             /\ ino'[i].data = ino[i].data /\ ino'[i].sync = ino[i].sync
             /\ ino[i].list = "main" =>
                    ino'[i].list = IF full /\ ino[i].sync > tid THEN "main" ELSE "none"
             /\ ino[i].list = "staging" => ino'[i].list = "main"
             /\ ino[i].list = "none" => ino'[i].list = "none"
  <2>1. ino[i] \in [data : Nat, sync : Nat, list : {"none"} \cup Queue,
                    committing : BOOLEAN]
    BY DEF FcTyped
  <2>2. CASE ino[i].list = "main"
    <3>1. PICK k \in {"main", "none"}, c \in BOOLEAN :
            k = (IF full /\ ino[i].sync > tid THEN "main" ELSE "none") /\ c = FALSE
      OBVIOUS
    <3>2. ino'[i] = [ino[i] EXCEPT !.committing = FALSE,
                       !.list = IF full /\ ino[i].sync > tid THEN "main" ELSE "none"]
      BY <2>2 DEF Cleanup, Requeued
    <3>3. ino'[i] = [ino[i] EXCEPT !.committing = c, !.list = k]
      BY <3>1, <3>2
    <3>4. ino'[i] \in [data : Nat, sync : Nat, list : {"none"} \cup Queue,
                       committing : BOOLEAN]
      BY <2>1, <3>3 DEF Queue
    <3> QED
      BY <2>1, <2>2, <3>1, <3>3, <3>4
  <2>3. CASE ino[i].list # "main"
    <3>1. PICK k \in {"none"} \cup Queue :
            k = IF ino[i].list = "staging" THEN "main" ELSE ino[i].list
      BY <2>1 DEF Queue
    <3>2. ino'[i] = [ino[i] EXCEPT !.list = k]
      BY <2>3, <3>1 DEF Cleanup
    <3> QED
      BY <2>1, <2>3, <3>1, <3>2
  <2> QED
    BY <2>2, <2>3
<1>2. ino' \in [Inode -> [data : Nat, sync : Nat, list : {"none"} \cup Queue,
                          committing : BOOLEAN]]
  <2>1. DOMAIN ino' = Inode /\ ino' = [i \in Inode |-> ino'[i]]
    BY DEF Cleanup
  <2> QED
    BY <1>1, <2>1
<1>3. /\ updates' \in [Queue -> SUBSET (Inode \X Nat)]
      /\ updates'["main"] = updates["staging"] /\ updates'["staging"] = {}
  <2>1. updates["staging"] \in SUBSET (Inode \X Nat)
    BY DEF FcTyped, Queue
  <2>2. PICK A \in SUBSET (Inode \X Nat) : A = updates["staging"]
    BY <2>1
  <2>3. updates' = [main |-> A, staging |-> {}]
    BY <2>2 DEF Cleanup
  <2>4. updates'["main"] = A /\ updates'["staging"] = {}
    BY <2>3
  <2>5. DOMAIN updates' = Queue /\ updates' = [q \in Queue |-> updates'[q]]
    BY <2>3 DEF Queue
  <2>6. \A q \in Queue : updates'[q] \in SUBSET (Inode \X Nat)
    BY <2>4 DEF Queue
  <2> QED
    BY <2>2, <2>4, <2>5, <2>6
<1>4. /\ inel' \in [on : BOOLEAN, tid : Nat]
      /\ ~inel.on => ~inel'.on
      /\ inel.on /\ inel.tid > tid => inel' = inel
  <2>1. inel \in [on : BOOLEAN, tid : Nat]
    BY DEF FcTyped
  <2>2. PICK off \in BOOLEAN, z \in Nat : off = FALSE /\ z = NoTran
    BY DEF NoTran
  <2>3. inel' = IF tid >= inel.tid THEN [on |-> off, tid |-> z] ELSE inel
    BY <2>2 DEF Cleanup
  <2>4. CASE tid >= inel.tid
    BY <2>1, <2>2, <2>3, <2>4
  <2>5. CASE ~ (tid >= inel.tid)
    BY <2>1, <2>3, <2>5
  <2> QED
    BY <2>4, <2>5
<1> QED
  BY <1>1, <1>2, <1>3, <1>4

LEMMA CleanupHandles ==
  ASSUME FcTyped, FcHandles, NEW full \in BOOLEAN, NEW tid \in Nat, Cleanup(full, tid),
         UNCHANGED <<handle, entry, handles>>, tran'.running = tran.running,
         tran'.next = tran.next
  PROVE  FcHandles'
<1>1. /\ \A i \in Inode : ino'[i].data = ino[i].data /\ ino'[i].sync = ino[i].sync
      /\ updates'["main"] = updates["staging"] /\ updates'["staging"] = {}
  BY CleanupIs
<1>2. \A i \in Inode : \A q \in Queue : \A n \in Nat : <<i, n>> \in updates'[q] =>
          n <= ino'[i].data
  BY <1>1 DEF FcHandles, Queue
<1> QED
  BY <1>1, <1>2 DEF FcHandles, Ends

(* The blocks are on the device, the main queue is dropped, the staged      *)
(* inodes and entries take its place.                                       *)
LEMMA WaitBuffersHolds ==
  ASSUME FcOrder, NEW t \in Syncer, WaitBuffers(t), windows = {}, windows' = {}
  PROVE  FcOrder'
<1>1. /\ FcTyped /\ FcNumbers /\ FcThreads /\ FcHandles /\ FcLog /\ FcSyncs
      /\ FcArea /\ FcGood /\ FcQuiet /\ FcFull /\ FcFast
  BY DEF FcOrder
<1>2. /\ sync[t].pc = "io" /\ area' = [area EXCEPT !.written = TRUE] /\ subtid' = subtid + 1
      /\ Cleanup(FALSE, NoTran) /\ FcGoto(t, "end")
      /\ UNCHANGED <<tran, flags, handle, entry, log, promised, handles>>
  BY DEF WaitBuffers, FcAt
<1>3. log.start
  <2>1. windows' = windows \cup (IF log.start THEN {} ELSE {"flushed"})
    BY DEF WaitBuffers
  <2> QED
    BY <2>1
<1>4. /\ ino' \in [Inode -> [data : Nat, sync : Nat, list : {"none"} \cup Queue,
                             committing : BOOLEAN]]
      /\ \A i \in Inode :
           /\ ino'[i].data = ino[i].data /\ ino'[i].sync = ino[i].sync
           /\ ino[i].list = "main" => ino'[i].list = "none"
           /\ ino[i].list = "staging" => ino'[i].list = "main"
           /\ ino[i].list = "none" => ino'[i].list = "none"
      /\ updates' \in [Queue -> SUBSET (Inode \X Nat)]
      /\ updates'["main"] = updates["staging"] /\ updates'["staging"] = {}
      /\ inel' \in [on : BOOLEAN, tid : Nat] /\ (~inel.on => ~inel'.on)
  <2>1. NoTran \in Nat
    BY DEF NoTran
  <2>2. PICK full \in BOOLEAN : full = FALSE
    OBVIOUS
  <2>3. Cleanup(full, NoTran)
    BY <1>2, <2>2
  <2> QED
    BY <1>1, <2>1, <2>2, <2>3, CleanupIs
<1>5. /\ sync' \in [Syncer -> FcSyncRecords]
      /\ sync'[t].pc = "end" /\ sync'[t].on = sync[t].on /\ sync'[t].tid = sync[t].tid
      /\ sync'[t].must = sync[t].must
      /\ \A u \in Syncer : u # t => sync'[u] = sync[u]
  BY <1>1, <1>2, GotoIs DEF FcStages
<1>6. /\ ~inel.on /\ "fast" \in flags /\ tran.full \in {"none", "wait"}
      /\ tran.running # NoTran
      /\ \A u \in Syncer : u # t => sync[u].pc \notin Fasting
  BY <1>1, <1>2 DEF FcThreads, FcNumbers, Fasting
<1>7. \A u \in Syncer : u # t => sync'[u].pc \notin Fasting
  BY <1>5, <1>6
<1>8. /\ area' \in [seq : Seq(FcCommits), off : Nat, written : BOOLEAN]
      /\ area'.seq = area.seq /\ area'.off = area.off /\ area'.written
  <2>1. area \in [seq : Seq(FcCommits), off : Nat, written : BOOLEAN]
    BY <1>1 DEF FcTyped
  <2>2. PICK w \in BOOLEAN : w = TRUE
    OBVIOUS
  <2>3. area' = [area EXCEPT !.written = w]
    BY <1>2, <2>2
  <2> QED
    BY <2>1, <2>2, <2>3
<1>9. FcTyped'
  <2>1. subtid' \in Nat
    BY <1>1, <1>2 DEF FcTyped
  <2> QED
    BY <1>1, <1>2, <1>4, <1>5, <1>8, <2>1 DEF FcTyped
<1>10. FcNumbers'
  BY <1>1, <1>2 DEF FcNumbers, FcLast
<1>11. FcLog'
  BY <1>1, <1>2, <1>4 DEF FcLog
<1>12. FcThreads'
  BY <1>2, <1>4, <1>5, <1>6, <1>7 DEF FcThreads, Fasting
<1>13. FcHandles'
  <2>1. NoTran \in Nat
    BY DEF NoTran
  <2>2. PICK full \in BOOLEAN : full = FALSE
    OBVIOUS
  <2>3. Cleanup(full, NoTran)
    BY <1>2, <2>2
  <2> QED
    BY <1>1, <1>2, <2>1, <2>3, CleanupHandles
<1>14. FcSyncs'
  <2> SUFFICES ASSUME NEW u \in Syncer, sync'[u].pc # "idle"
               PROVE  Asks(sync[u])'
    BY DEF FcSyncs
  <2>1. Asks(sync[u]) /\ sync'[u].on = sync[u].on /\ sync'[u].tid = sync[u].tid
        /\ sync'[u].must = sync[u].must
    BY <1>1, <1>2, <1>5 DEF FcSyncs
  <2> QED
    BY <1>2, <1>4, <2>1 DEF Asks
<1>15. FcArea'
  BY <1>1, <1>2, <1>8 DEF FcArea
<1>16. FcGood'
  <2>1. FcSurvivors' \subseteq FcSurvivors
    BY <1>8 DEF FcSurvivors
  <2>2. \A i \in Inode : ino[i].data <= ino'[i].data
    BY <1>1, <1>4, SameData
  <2> QED
    BY <1>1, <1>2, <1>9, <2>1, <2>2, FcGoodStill
<1>17. \A i \in Inode : Recovers(i)' = Recovers(i)
  BY <1>2, <1>8, RecoversStill
<1>18. FcQuiet'
  <2>1. ASSUME NEW i \in Inode
        PROVE  InQuiet(i)' /\ ino'[i].list # "staging"
    <3>1. InIo(i)
      BY <1>1, <1>2, <1>3 DEF FcFast
    <3>2. Ends(i)' = Ends(i) /\ Newest("main", i)' = Newest("staging", i)
          /\ Named("main", i)' = Named("staging", i)
      BY <1>2, <1>4 DEF Ends, Newest, Named
    <3>3. ino[i].list \in {"none", "main", "staging"}
      BY <1>1 DEF FcTyped, Queue
    <3> QED
      BY <1>4, <1>17, <3>1, <3>2, <3>3 DEF InIo, InQuiet
  <2> QED
    BY <1>4, <2>1 DEF FcQuiet, NoneStaged
<1>19. FcFull'
  BY <1>2, <1>6 DEF FcFull
<1>20. FcFast'
  <2>1. \A i \in Inode : Enough(i, t)'
    BY <1>1, <1>2, <1>3, <1>5, <1>17 DEF FcFast, Enough
  <2> QED
    BY <1>5, <1>7, <2>1 DEF FcFast, Fasting
<1> QED
  BY <1>9, <1>10, <1>11, <1>12, <1>13, <1>14, <1>15, <1>16, <1>18, <1>19, <1>20 DEF FcOrder

(* A commit that failed drops what it was to write: the full commit of the  *)
(* running transaction covers it.                                           *)
LEMMA FallbackHolds ==
  ASSUME FcOrder, NEW t \in Syncer, Fallback(t)
  PROVE  FcOrder'
<1>1. /\ FcTyped /\ FcNumbers /\ FcThreads /\ FcHandles /\ FcLog /\ FcSyncs
      /\ FcArea /\ FcGood /\ FcQuiet /\ FcFull /\ FcFast
  BY DEF FcOrder
<1>2. /\ sync[t].pc = "failed" /\ area' = [area EXCEPT !.written = TRUE]
      /\ Cleanup(FALSE, tran.running)
      /\ sync' = [sync EXCEPT ![t].pc = "fallback", ![t].tid = tran.running]
      /\ UNCHANGED <<tran, flags, handle, entry, subtid, log, promised, handles>>
  BY DEF Fallback, FcAt
<1>3. tran.running \in Nat
  BY <1>1 DEF FcTyped
<1>4. /\ ino' \in [Inode -> [data : Nat, sync : Nat, list : {"none"} \cup Queue,
                             committing : BOOLEAN]]
      /\ \A i \in Inode :
           /\ ino'[i].data = ino[i].data /\ ino'[i].sync = ino[i].sync
           /\ ino[i].list = "main" => ino'[i].list = "none"
           /\ ino[i].list = "staging" => ino'[i].list = "main"
           /\ ino[i].list = "none" => ino'[i].list = "none"
      /\ updates' \in [Queue -> SUBSET (Inode \X Nat)]
      /\ updates'["main"] = updates["staging"] /\ updates'["staging"] = {}
      /\ inel' \in [on : BOOLEAN, tid : Nat] /\ FcHandles'
  <2>1. PICK full \in BOOLEAN : full = FALSE
    OBVIOUS
  <2>2. Cleanup(full, tran.running)
    BY <1>2, <2>1
  <2>3. FcHandles'
    BY <1>1, <1>2, <1>3, <2>2, CleanupHandles
  <2> QED
    BY <1>1, <1>3, <2>1, <2>2, <2>3, CleanupIs
<1>5. /\ sync' \in [Syncer -> FcSyncRecords]
      /\ sync'[t].pc = "fallback" /\ sync'[t].on = sync[t].on /\ sync'[t].tid = tran.running
      /\ sync'[t].must = sync[t].must
      /\ \A u \in Syncer : u # t => sync'[u] = sync[u]
  <2>1. sync \in [Syncer -> FcSyncRecords]
    BY <1>1 DEF FcTyped
  <2>2. PICK pc \in FcStages, n \in Nat : pc = "fallback" /\ n = tran.running
    BY <1>3 DEF FcStages
  <2>3. sync' = [sync EXCEPT ![t].pc = pc, ![t].tid = n]
    BY <1>2, <2>2
  <2>4. sync' \in [Syncer -> FcSyncRecords]
    BY <2>1, <2>3 DEF FcSyncRecords
  <2>5. /\ sync'[t].pc = pc /\ sync'[t].on = sync[t].on /\ sync'[t].tid = n
        /\ sync'[t].must = sync[t].must
    BY <2>1, <2>3 DEF FcSyncRecords
  <2>6. \A u \in Syncer : u # t => sync'[u] = sync[u]
    BY <2>1, <2>3
  <2> QED
    BY <2>2, <2>4, <2>5, <2>6
<1>6. /\ "fast" \in flags /\ tran.full \in {"none", "wait"} /\ tran.running # NoTran
      /\ tran.running = tran.committed + 1 /\ tran.running < tran.next
      /\ \A u \in Syncer : u # t => sync[u].pc \notin Fasting
  <2>1. /\ "fast" \in flags /\ tran.running # NoTran
        /\ \A u \in Syncer : u # t => sync[u].pc \notin Fasting
    BY <1>1, <1>2 DEF FcThreads, Fasting
  <2>2. tran.full \in {"none", "wait"}
    BY <1>1, <2>1 DEF FcNumbers
  <2>3. FcLast = tran.committed
    BY <2>2 DEF FcLast
  <2>4. tran.running = tran.committed + 1 /\ tran.running < tran.next
    BY <1>1, <2>1, <2>3, NumbersAre
  <2> QED
    BY <2>1, <2>2, <2>4
<1>7. \A u \in Syncer : u # t => sync'[u].pc \notin Fasting
  BY <1>5, <1>6
<1>8. /\ area' \in [seq : Seq(FcCommits), off : Nat, written : BOOLEAN]
      /\ area'.seq = area.seq /\ area'.off = area.off /\ area'.written
  <2>1. area \in [seq : Seq(FcCommits), off : Nat, written : BOOLEAN]
    BY <1>1 DEF FcTyped
  <2>2. PICK w \in BOOLEAN : w = TRUE
    OBVIOUS
  <2>3. area' = [area EXCEPT !.written = w]
    BY <1>2, <2>2
  <2> QED
    BY <2>1, <2>2, <2>3
<1>9. FcTyped'
  BY <1>1, <1>2, <1>4, <1>5, <1>8 DEF FcTyped
<1>10. FcNumbers'
  BY <1>1, <1>2 DEF FcNumbers, FcLast
<1>11. FcLog'
  BY <1>1, <1>2, <1>4 DEF FcLog
<1>12. FcThreads'
  BY <1>2, <1>5, <1>6, <1>7 DEF FcThreads, Fasting
<1>13. FcSyncs'
  <2> SUFFICES ASSUME NEW u \in Syncer, sync'[u].pc # "idle"
               PROVE  Asks(sync[u])'
    BY DEF FcSyncs
  <2>1. Asks(sync[u]) /\ sync'[u].on = sync[u].on /\ sync'[u].must = sync[u].must
        /\ (u # t => sync'[u].tid = sync[u].tid)
    BY <1>1, <1>2, <1>5 DEF FcSyncs
  <2>2. tran.committed \in Nat
    BY <1>1 DEF FcTyped
  <2>3. u = t => sync'[u].tid = tran.running /\ ~ (tran.running <= tran.committed)
    BY <1>5, <1>6, <2>2
  <2> QED
    BY <1>2, <1>4, <1>6, <2>1, <2>3 DEF Asks
<1>14. FcArea'
  BY <1>1, <1>2, <1>8 DEF FcArea
<1>15. FcGood'
  <2>1. FcSurvivors' \subseteq FcSurvivors
    BY <1>8 DEF FcSurvivors
  <2>2. \A i \in Inode : ino[i].data <= ino'[i].data
    BY <1>1, <1>4, SameData
  <2> QED
    BY <1>1, <1>2, <1>9, <2>1, <2>2, FcGoodStill
<1>16. FcQuiet' /\ FcFull'
  BY <1>2, <1>5, <1>6, <1>7 DEF FcQuiet, FcFull, Fasting
<1>17. FcFast'
  <2>1. NoneStaged'
    <3>1. \A i \in Inode : ino[i].list \in {"none", "main", "staging"}
      BY <1>1 DEF FcTyped, Queue
    <3>2. \A i \in Inode : ino'[i].list # "staging"
      BY <1>4, <3>1
    <3> QED
      BY <1>4, <3>2 DEF NoneStaged
  <2> QED
    BY <1>5, <1>7, <2>1 DEF FcFast, Fasting
<1> QED
  BY <1>4, <1>9, <1>10, <1>11, <1>12, <1>13, <1>14, <1>15, <1>16, <1>17 DEF FcOrder

(* Those that wait wake up.                                                 *)
LEMMA WakeIs ==
  ASSUME FcTyped
  PROVE  /\ Wake(sync) \in [Syncer -> FcSyncRecords]
         /\ \A u \in Syncer :
              /\ Wake(sync)[u].on = sync[u].on /\ Wake(sync)[u].tid = sync[u].tid
              /\ Wake(sync)[u].must = sync[u].must
              /\ sync[u].pc = "wait" => Wake(sync)[u].pc = "woken"
              /\ sync[u].pc # "wait" => Wake(sync)[u] = sync[u]
<1>1. ASSUME NEW u \in Syncer
      PROVE  /\ Wake(sync)[u] \in FcSyncRecords
             /\ Wake(sync)[u].on = sync[u].on /\ Wake(sync)[u].tid = sync[u].tid
             /\ Wake(sync)[u].must = sync[u].must
             /\ sync[u].pc = "wait" => Wake(sync)[u].pc = "woken"
             /\ sync[u].pc # "wait" => Wake(sync)[u] = sync[u]
  <2>1. sync[u] \in FcSyncRecords
    BY DEF FcTyped
  <2>2. CASE sync[u].pc = "wait"
    <3>1. PICK pc \in FcStages : pc = "woken"
      BY DEF FcStages
    <3>2. Wake(sync)[u] = [sync[u] EXCEPT !.pc = pc]
      BY <2>2, <3>1 DEF Wake
    <3> QED
      BY <2>1, <2>2, <3>1, <3>2 DEF FcSyncRecords
  <2>3. CASE sync[u].pc # "wait"
    BY <2>1, <2>3 DEF Wake
  <2> QED
    BY <2>2, <2>3
<1>2. Wake(sync) = [u \in Syncer |-> Wake(sync)[u]]
  BY DEF Wake
<1> QED
  BY <1>1, <1>2

(* The thread that commits leaves its flag, those that wait wake up.        *)
LEMMA LeaveIs ==
  ASSUME FcTyped, FcThreads, FcSyncs, NEW t \in Syncer, sync[t].pc \in Fasting,
         NEW s \in FcSyncRecords, s.pc \notin Fasting, sync' = [Wake(sync) EXCEPT ![t] = s],
         UNCHANGED <<tran, ino, log>>, s.pc # "idle" => Asks(s)
  PROVE  /\ sync' \in [Syncer -> FcSyncRecords]
         /\ \A u \in Syncer : sync'[u].pc \notin Fasting
         /\ FcSyncs'
<1>1. /\ Wake(sync) \in [Syncer -> FcSyncRecords]
      /\ \A u \in Syncer :
           /\ Wake(sync)[u].on = sync[u].on /\ Wake(sync)[u].tid = sync[u].tid
           /\ Wake(sync)[u].must = sync[u].must
           /\ sync[u].pc = "wait" => Wake(sync)[u].pc = "woken"
           /\ sync[u].pc # "wait" => Wake(sync)[u] = sync[u]
  BY WakeIs
<1> DEFINE W == Wake(sync)
<1> HIDE DEF W
<1>2. /\ sync' \in [Syncer -> FcSyncRecords] /\ sync'[t] = s
      /\ \A u \in Syncer : u # t => sync'[u] = W[u]
  BY <1>1 DEF W
<1>3. \A u \in Syncer : sync'[u].pc \notin Fasting
  <2> SUFFICES ASSUME NEW u \in Syncer, u # t
               PROVE  W[u].pc \notin Fasting
    BY <1>2
  <2>1. sync[u].pc \notin Fasting
    BY DEF FcThreads
  <2> QED
    BY <1>1, <2>1 DEF Fasting, W
<1>4. FcSyncs'
  <2> SUFFICES ASSUME NEW u \in Syncer, sync'[u].pc # "idle"
               PROVE  Asks(sync[u])'
    BY DEF FcSyncs
  <2>1. PICK r : r = sync'[u]
    OBVIOUS
  <2>2. Asks(r)
    <3>1. CASE u = t
      BY <1>2, <2>1, <3>1
    <3>2. CASE u # t
      <4>1. sync[u].pc # "idle"
        BY <1>1, <1>2, <3>2 DEF W
      <4>2. Asks(sync[u]) /\ r.on = sync[u].on /\ r.tid = sync[u].tid
              /\ r.must = sync[u].must
        BY <1>1, <1>2, <2>1, <3>2, <4>1 DEF FcSyncs, W
      <4> QED
        BY <4>2 DEF Asks
    <3> QED
      BY <3>1, <3>2
  <2> QED
    BY <2>1, <2>2 DEF Asks
<1> QED
  BY <1>2, <1>3, <1>4

(* With nothing in the staging queues a full commit leaves nothing out.     *)
LEMMA NoneStagedIsFull ==
  ASSUME FcTyped, FcNumbers, FcHandles, NoneStaged,
         tran.full \in {"none", "wait", "locked"},
         tran.running # NoTran, NEW i \in Inode
  PROVE  InFull(i)
<1>1. Target = tran.running
  BY DEF Target
<1>2. ino[i].sync < tran.next /\ tran.next = tran.running + 1 /\ tran.running \in Nat
      /\ ino[i].sync \in Nat
  <2>1. ino[i].sync \in Nat
    BY DEF FcTyped
  <2> QED
    BY <2>1, NumbersAre DEF FcHandles
<1>3. ~Named("staging", i)
  BY DEF NoneStaged, Named
<1> QED
  BY <1>1, <1>2, <1>3 DEF InFull

(* A fast commit returns: what the thread asked for is recovered.           *)
LEMMA EndCommitHolds ==
  ASSUME FcOrder, NEW t \in Syncer, EndCommit(t)
  PROVE  FcOrder'
<1>1. /\ FcTyped /\ FcNumbers /\ FcThreads /\ FcHandles /\ FcLog /\ FcSyncs
      /\ FcArea /\ FcGood /\ FcQuiet /\ FcFull /\ FcFast
  BY DEF FcOrder
<1>2. /\ sync[t].pc = "end" /\ flags' = flags \ {"fast"} /\ Returns(t)
      /\ sync' = [Wake(sync) EXCEPT ![t] = Idle]
      /\ UNCHANGED <<tran, handle, ino, entry, updates, inel, subtid, area, log, handles>>
  BY DEF EndCommit, FcAt
<1>3. /\ "fast" \in flags /\ tran.full \in {"none", "wait"} /\ tran.running # NoTran
      /\ \A u \in Syncer : u # t => sync[u].pc \notin Fasting
  BY <1>1, <1>2 DEF FcThreads, FcNumbers, Fasting
<1>4. /\ sync' \in [Syncer -> FcSyncRecords] /\ FcSyncs'
      /\ \A u \in Syncer : sync'[u].pc \notin Fasting
  <2>1. PICK s : s = Idle
    OBVIOUS
  <2>2. s \in FcSyncRecords /\ s.pc = "idle" /\ s.pc \notin Fasting
    BY <2>1, IdleTyped DEF Fasting
  <2>3. sync' = [Wake(sync) EXCEPT ![t] = s] /\ sync[t].pc \in Fasting
    BY <1>2, <2>1 DEF Fasting
  <2> QED
    BY <1>1, <1>2, <2>2, <2>3, LeaveIs
<1>5. /\ promised' \in FcContents
      /\ \A i \in Inode : promised'[i] # promised[i] =>
             i = sync[t].on /\ promised'[i] = sync[t].must
  BY <1>1, <1>2, ReturnsIs
<1>6. FcTyped'
  BY <1>1, <1>2, <1>4, <1>5 DEF FcTyped
<1>7. FcNumbers' /\ FcHandles'
  BY <1>1, <1>2 DEF FcNumbers, FcLast, FcHandles, Ends
<1>8. FcThreads'
  BY <1>2, <1>4 DEF FcThreads, Fasting
<1>9. FcLog'
  BY <1>1, <1>2, <1>3 DEF FcLog
<1>10. area.written
  BY <1>1, <1>2, <1>3 DEF FcArea, Fasting
<1>11. FcArea'
  BY <1>1, <1>2, <1>10 DEF FcArea
<1>12. \A i \in Inode : Recovers(i)' = Recovers(i)
  BY <1>2, RecoversStill
<1>13. FcGood'
  <2>1. PICK seq : seq = area.seq
    OBVIOUS
  <2>2. FcSurvivors' = {seq}
    BY <1>2, <1>10, <2>1 DEF FcSurvivors
  <2>3. FcSound(seq)
    BY <1>1, <2>1 DEF FcGood, FcSurvivors
  <2>4. FcReplayed(seq)' = FcReplayed(seq)
    BY <1>2, ReplayStill
  <2>5. \A i \in Inode : promised'[i] <= FcReplayed(seq).ino[i]
    <3>1. \A i \in Inode : Enough(i, t)
      BY <1>1, <1>2 DEF FcFast
    <3> QED
      BY <1>5, <2>1, <2>3, <3>1 DEF FcSound, Enough, Recovers
  <2>6. FcSound(seq)'
    BY <1>2, <2>3, <2>4, <2>5 DEF FcSound
  <2> QED
    BY <2>2, <2>6 DEF FcGood
<1>14. NoneStaged /\ \A i \in Inode : InQuiet(i)
  BY <1>1, <1>2 DEF FcQuiet
<1>15. FcQuiet'
  <2>1. NoneStaged'
    BY <1>2, <1>14 DEF NoneStaged
  <2>2. \A i \in Inode : InQuiet(i)'
    BY <1>2, <1>12, <1>14 DEF InQuiet, Ends, Newest, Named
  <2> QED
    BY <2>1, <2>2 DEF FcQuiet
<1>16. FcFull'
  <2>1. ASSUME NEW i \in Inode
        PROVE  InFull(i)'
    <3>1. InFull(i)
      BY <1>1, <1>3, <1>14, NoneStagedIsFull
    <3> QED
      BY <1>2, <3>1 DEF InFull, Target, Ends, Named, Newest
  <2> QED
    BY <2>1 DEF FcFull
<1>17. FcFast'
  BY <1>4 DEF FcFast, Fasting
<1> QED
  BY <1>4, <1>6, <1>7, <1>8, <1>9, <1>11, <1>13, <1>15, <1>16, <1>17 DEF FcOrder

LEMMA EndFallbackHolds ==
  ASSUME FcOrder, NEW t \in Syncer, EndFallback(t)
  PROVE  FcOrder'
<1>1. /\ FcTyped /\ FcNumbers /\ FcThreads /\ FcHandles /\ FcLog /\ FcSyncs
      /\ FcArea /\ FcGood /\ FcQuiet /\ FcFull /\ FcFast
  BY DEF FcOrder
<1>2. /\ sync[t].pc = "fallback" /\ flags' = {"full"}
      /\ sync' = [Wake(sync) EXCEPT ![t].pc = "complete"]
      /\ UNCHANGED <<tran, handle, ino, entry, updates, inel, subtid, area, log, promised,
                     handles>>
  BY DEF EndFallback, FcAt
<1>3. /\ "fast" \in flags /\ tran.full \in {"none", "wait"} /\ tran.running # NoTran
      /\ \A u \in Syncer : u # t => sync[u].pc \notin Fasting
  BY <1>1, <1>2 DEF FcThreads, FcNumbers, Fasting
<1>4. /\ sync' \in [Syncer -> FcSyncRecords] /\ FcSyncs'
      /\ \A u \in Syncer : sync'[u].pc \notin Fasting
  <2>1. Wake(sync)[t] = sync[t] /\ Wake(sync) \in [Syncer -> FcSyncRecords]
    BY <1>1, <1>2, WakeIs
  <2>2. PICK pc \in FcStages : pc = "complete"
    BY DEF FcStages
  <2>3. PICK s : s = [sync[t] EXCEPT !.pc = pc]
    OBVIOUS
  <2>4. sync[t] \in FcSyncRecords
    BY <1>1 DEF FcTyped
  <2>5. /\ s \in FcSyncRecords /\ s.pc = pc /\ s.on = sync[t].on /\ s.tid = sync[t].tid
        /\ s.must = sync[t].must
    BY <2>3, <2>4 DEF FcSyncRecords
  <2>6. Asks(s)
    BY <1>1, <1>2, <2>5 DEF FcSyncs, Asks
  <2>7. sync' = [Wake(sync) EXCEPT ![t] = s]
    BY <1>2, <2>1, <2>2, <2>3
  <2>8. sync[t].pc \in Fasting /\ s.pc \notin Fasting
    BY <1>2, <2>2, <2>5 DEF Fasting
  <2> QED
    BY <1>1, <1>2, <2>5, <2>6, <2>7, <2>8, LeaveIs
<1>5. FcTyped'
  BY <1>1, <1>2, <1>4 DEF FcTyped
<1>6. FcNumbers'
  BY <1>1, <1>2, <1>3 DEF FcNumbers, FcLast
<1>7. FcHandles' /\ FcLog'
  BY <1>1, <1>2 DEF FcHandles, Ends, FcLog
<1>8. FcThreads'
  BY <1>2, <1>4 DEF FcThreads, Fasting
<1>9. FcArea'
  <2>1. area.written
    BY <1>1, <1>2, <1>3 DEF FcArea, Fasting
  <2> QED
    BY <1>1, <1>2, <2>1 DEF FcArea
<1>10. FcGood'
  <2>1. \A i \in Inode : ino[i].data <= ino'[i].data
    BY <1>1, <1>2, SameData
  <2> QED
    BY <1>1, <1>2, <1>5, <2>1, FcGoodStill, SurvivorsStill
<1>11. FcQuiet'
  BY <1>2, <1>3, <1>4 DEF FcQuiet, Fasting
<1>12. FcFull'
  <2>1. ASSUME NEW i \in Inode
        PROVE  InFull(i)'
    <3>1. NoneStaged
      BY <1>1, <1>2 DEF FcFast
    <3>2. InFull(i)
      BY <1>1, <1>3, <3>1, NoneStagedIsFull
    <3> QED
      BY <1>2, <3>2 DEF InFull, Target, Ends, Named, Newest
  <2> QED
    BY <2>1 DEF FcFull
<1>13. FcFast'
  BY <1>4 DEF FcFast, Fasting
<1> QED
  BY <1>4, <1>5, <1>6, <1>7, <1>8, <1>9, <1>10, <1>11, <1>12, <1>13 DEF FcOrder

(* The type of tran.                                                        *)
FcTrans == [running : Nat, committed : Nat, next : Nat, ctid : Nat,
            full : {"none", "wait", "locked", "write", "callback", "cleaned"}]

(* The journal thread may begin while a fast commit goes on; it waits for   *)
(* it.                                                                      *)
LEMMA FullBeginHolds ==
  ASSUME FcOrder, FullBegin
  PROVE  FcOrder'
<1>1. /\ FcTyped /\ FcNumbers /\ FcThreads /\ FcHandles /\ FcLog /\ FcSyncs
      /\ FcArea /\ FcGood /\ FcQuiet /\ FcFull /\ FcFast
  BY DEF FcOrder
<1>2. /\ tran.full = "none" /\ tran.running # NoTran /\ flags' = flags \cup {"full"}
      /\ UNCHANGED <<handle, ino, entry, updates, inel, sync, subtid, area, log, promised,
                     handles>>
  BY DEF FullBegin
<1>3. /\ tran' \in FcTrans /\ tran'.full = "wait" /\ tran'.running = tran.running
      /\ tran'.committed = tran.committed /\ tran'.next = tran.next
      /\ tran'.ctid = tran.ctid
  <2>1. tran \in FcTrans /\ tran' = [tran EXCEPT !.full = "wait"]
    BY <1>1 DEF FullBegin, FcTyped, FcTrans
  <2> QED
    BY <2>1 DEF FcTrans
<1>4. FcTyped'
  BY <1>1, <1>2, <1>3 DEF FcTyped, FcTrans
<1>5. FcNumbers'
  BY <1>1, <1>2, <1>3 DEF FcNumbers, FcLast
<1>6. FcThreads' /\ FcHandles' /\ FcLog'
  BY <1>1, <1>2, <1>3 DEF FcThreads, FcHandles, Ends, FcLog
<1>7. FcSyncs' /\ FcArea'
  BY <1>1, <1>2, <1>3 DEF FcSyncs, Asks, FcArea
<1>8. FcGood'
  <2>1. \A i \in Inode : ino[i].data <= ino'[i].data
    BY <1>1, <1>2, SameData
  <2> QED
    BY <1>1, <1>2, <1>3, <1>4, <2>1, FcGoodStill, SurvivorsStill
<1>9. \A i \in Inode : Recovers(i)' = Recovers(i)
  BY <1>2, <1>3, RecoversStill
<1>10. /\ \A i \in Inode : Ends(i)' = Ends(i)
       /\ \A i \in Inode, q \in Queue : Newest(q, i)' = Newest(q, i)
            /\ Named(q, i)' = Named(q, i)
       /\ \A i \in Inode, t \in Syncer : Enough(i, t)' = Enough(i, t)
       /\ NoneStaged' = NoneStaged /\ Target' = Target
       /\ "main" \in Queue /\ "staging" \in Queue
  BY <1>2, <1>3, <1>9 DEF Ends, Newest, Named, NoneStaged, Target, Queue, Enough
<1>11. FcQuiet'
  <2>1. \A i \in Inode : InQuiet(i) => InQuiet(i)'
    BY <1>2, <1>9, <1>10 DEF InQuiet
  <2> QED
    BY <1>1, <1>2, <1>3, <1>10, <2>1 DEF FcQuiet
<1>12. FcFull'
  <2>1. ASSUME NEW i \in Inode, flags' = {"full"}
        PROVE  InFull(i)'
    <3>1. flags = {} \/ flags = {"full"}
      BY <1>1, <1>2, <2>1 DEF FcTyped
    <3>2. InFull(i)
      <4>1. CASE flags = {}
        BY <1>1, <1>2, <4>1, NoneStagedIsFull DEF FcQuiet
      <4>2. CASE flags = {"full"}
        BY <1>1, <1>2, <4>2 DEF FcFull
      <4> QED
        BY <3>1, <4>1, <4>2
    <3> QED
      BY <1>2, <1>10, <3>2 DEF InFull
  <2> QED
    BY <2>1 DEF FcFull
<1>13. FcFast'
  <2>1. \A i \in Inode, t \in Syncer : InFast(i, t) => InFast(i, t)'
    BY <1>2, <1>9, <1>10 DEF InFast
  <2>2. \A i \in Inode : InIo(i) => InIo(i)'
    BY <1>2, <1>9, <1>10 DEF InIo
  <2> QED
    BY <1>1, <1>2, <1>10, <2>1, <2>2 DEF FcFast
<1> QED
  BY <1>4, <1>5, <1>6, <1>7, <1>8, <1>11, <1>12, <1>13 DEF FcOrder

(* A full commit alone: no fsync commits, all of the area is written.       *)
LEMMA FullAlone ==
  ASSUME FcTyped, FcNumbers, FcThreads, FcArea, tran.full # "none", "fast" \notin flags
  PROVE  /\ flags = {"full"} /\ area.written /\ FcSurvivors = {area.seq}
         /\ \A t \in Syncer : sync[t].pc \notin Fasting
<1>1. flags = {"full"}
  BY DEF FcTyped, FcNumbers
<1>2. \A t \in Syncer : sync[t].pc \notin Fasting
  BY NobodyFasting
<1>3. area.written
  BY <1>2 DEF FcArea, Fasting
<1> QED
  BY <1>1, <1>2, <1>3 DEF FcSurvivors

(* From here on the area starts anew.                                       *)
LEMMA FullLockHolds ==
  ASSUME FcOrder, FullLock
  PROVE  FcOrder'
<1>1. /\ FcTyped /\ FcNumbers /\ FcThreads /\ FcHandles /\ FcLog /\ FcSyncs
      /\ FcArea /\ FcGood /\ FcQuiet /\ FcFull /\ FcFast
  BY DEF FcOrder
<1>2. /\ tran.full = "wait" /\ "fast" \notin flags
      /\ UNCHANGED <<flags, handle, ino, entry, updates, inel, sync, subtid, log, promised,
                     handles>>
  BY DEF FullLock
<1>3. /\ tran' \in FcTrans /\ tran'.full = "locked" /\ tran'.running = tran.running
      /\ tran'.committed = tran.committed /\ tran'.next = tran.next
      /\ tran'.ctid = tran.ctid
  <2>1. tran \in FcTrans /\ tran' = [tran EXCEPT !.full = "locked"]
    BY <1>1 DEF FullLock, FcTyped, FcTrans
  <2> QED
    BY <2>1 DEF FcTrans
<1>4. /\ area' \in [seq : Seq(FcCommits), off : Nat, written : BOOLEAN]
      /\ area'.seq = area.seq /\ area'.off = 0 /\ area'.written = area.written
  <2>1. area \in [seq : Seq(FcCommits), off : Nat, written : BOOLEAN]
    BY <1>1 DEF FcTyped
  <2>2. PICK z \in Nat : z = 0
    OBVIOUS
  <2>3. area' = [area EXCEPT !.off = z]
    BY <2>2 DEF FullLock
  <2> QED
    BY <2>1, <2>2, <2>3
<1>5. /\ flags = {"full"} /\ area.written /\ FcSurvivors = {area.seq}
      /\ \A t \in Syncer : sync[t].pc \notin Fasting
  BY <1>1, <1>2, FullAlone
<1>6. FcTyped'
  BY <1>1, <1>2, <1>3, <1>4 DEF FcTyped, FcTrans
<1>7. FcNumbers'
  BY <1>1, <1>2, <1>3 DEF FcNumbers, FcLast
<1>8. FcThreads' /\ FcHandles' /\ FcLog'
  BY <1>1, <1>2, <1>3 DEF FcThreads, FcHandles, Ends, FcLog
<1>9. FcSyncs'
  BY <1>1, <1>2, <1>3 DEF FcSyncs, Asks
<1>10. FcArea'
  <2>1. ASSUME NEW k \in 1..Len(area.seq)
        PROVE  area.seq[k].tid <= tran.committed + 1
    <3>1. area.seq[k].tid \in Nat /\ tran.committed \in Nat
      <4>1. area.seq \in Seq(FcCommits) /\ tran.committed \in Nat
        BY <1>1 DEF FcTyped
      <4>2. area.seq[k] \in FcCommits
        BY <4>1
      <4> QED
        BY <4>1, <4>2 DEF FcCommits
    <3>2. area.seq[k].tid = tran.committed + 1 \/ area.seq[k].tid <= tran.committed
      BY <1>1, <1>2 DEF FcArea
    <3> QED
      BY <3>1, <3>2
  <2> QED
    BY <1>3, <1>4, <1>5, <2>1 DEF FcArea
<1>11. FcGood'
  <2>1. \A i \in Inode : ino[i].data <= ino'[i].data
    BY <1>1, <1>2, SameData
  <2>2. FcSurvivors' \subseteq FcSurvivors
    BY <1>4 DEF FcSurvivors
  <2> QED
    BY <1>1, <1>2, <1>3, <1>6, <2>1, <2>2, FcGoodStill
<1>12. FcQuiet' /\ FcFast'
  BY <1>2, <1>3, <1>5 DEF FcQuiet, FcFast, Fasting
<1>13. FcFull'
  <2>1. Target' = Target
    BY <1>2, <1>3 DEF Target
  <2>2. \A i \in Inode : InFull(i)
    BY <1>1, <1>2, <1>5 DEF FcFull
  <2> QED
    BY <1>2, <2>1, <2>2 DEF FcFull, InFull, Ends, Named, Newest
<1> QED
  BY <1>6, <1>7, <1>8, <1>9, <1>10, <1>11, <1>12, <1>13 DEF FcOrder

(* No handle is open: what memory holds is what the transaction commits.    *)
LEMMA FullSwitchHolds ==
  ASSUME FcOrder, FullSwitch
  PROVE  FcOrder'
<1>1. /\ FcTyped /\ FcNumbers /\ FcThreads /\ FcHandles /\ FcLog /\ FcSyncs
      /\ FcArea /\ FcGood /\ FcQuiet /\ FcFull /\ FcFast
  BY DEF FcOrder
<1>2. /\ tran.full = "locked" /\ \A i \in Inode : handle[i].step = "none"
      /\ UNCHANGED <<flags, handle, ino, entry, updates, inel, sync, subtid, area, promised,
                     handles>>
  BY DEF FullSwitch
<1>3. /\ "fast" \notin flags /\ tran.running = tran.committed + 1
      /\ tran.next = tran.committed + 2 /\ tran.committed \in Nat /\ tran.running # NoTran
  BY <1>1, <1>2 DEF FcNumbers, FcLast, FcTyped, NoTran
<1>4. /\ tran' \in FcTrans /\ tran'.full = "write" /\ tran'.running = NoTran
      /\ tran'.committed = tran.committed /\ tran'.next = tran.next
      /\ tran'.ctid = tran.running
  <2>1. tran \in FcTrans
    BY <1>1 DEF FcTyped, FcTrans
  <2>2. PICK f \in {"write"}, r \in Nat, z \in Nat :
          f = "write" /\ r = tran.running /\ z = NoTran
    BY <2>1 DEF FcTrans, NoTran
  <2>3. tran' = [tran EXCEPT !.full = f, !.ctid = r, !.running = z]
    BY <2>2 DEF FullSwitch
  <2>4. tran' \in FcTrans
    BY <2>1, <2>3 DEF FcTrans
  <2>5. /\ tran'.full = f /\ tran'.running = z /\ tran'.committed = tran.committed
        /\ tran'.next = tran.next /\ tran'.ctid = r
    BY <2>1, <2>3 DEF FcTrans
  <2> QED
    BY <2>2, <2>4, <2>5
<1>5. /\ log' \in [ino : FcContents, entry : FcContents, start : BOOLEAN, stats : BOOLEAN,
                   com : [ino : FcContents, entry : FcContents]]
      /\ log'.ino = log.ino /\ log'.entry = log.entry /\ log'.start = log.start
      /\ \A i \in Inode : log'.com.ino[i] = ino[i].data /\ log'.com.entry[i] = entry[i]
  <2>1. /\ log \in [ino : FcContents, entry : FcContents, start : BOOLEAN, stats : BOOLEAN,
                    com : [ino : FcContents, entry : FcContents]]
        /\ entry \in FcContents
    BY <1>1 DEF FcTyped
  <2>2. PICK d : d = [i \in Inode |-> ino[i].data]
    OBVIOUS
  <2>3. d \in FcContents /\ \A i \in Inode : d[i] = ino[i].data
    BY <1>1, <2>2 DEF FcTyped, FcContents
  <2>4. PICK com \in [ino : FcContents, entry : FcContents] :
          com = [ino |-> d, entry |-> entry]
    BY <2>1, <2>3
  <2>5. log' = [log EXCEPT !.com = com]
    BY <2>2, <2>4 DEF FullSwitch
  <2> QED
    BY <2>1, <2>3, <2>4, <2>5
<1>6. /\ flags = {"full"} /\ area.written /\ FcSurvivors = {area.seq}
      /\ \A t \in Syncer : sync[t].pc \notin Fasting
  BY <1>1, <1>2, <1>3, FullAlone
<1>7. FcTyped'
  BY <1>1, <1>2, <1>4, <1>5 DEF FcTyped, FcTrans
<1>8. FcNumbers'
  BY <1>1, <1>2, <1>3, <1>4, <1>6 DEF FcNumbers, FcLast
<1>9. FcThreads'
  BY <1>1, <1>2, <1>3, <1>6 DEF FcThreads, Fasting
<1>10. FcHandles'
  BY <1>1, <1>2, <1>4 DEF FcHandles, Ends
<1>11. ASSUME NEW i \in Inode
       PROVE  /\ promised[i] <= ino[i].data /\ log.ino[i] <= ino[i].data
              /\ entry[i] = ino[i].data /\ ino[i].data \in Nat
  <2>1. promised[i] \in Nat /\ log.ino[i] \in Nat /\ ino[i].data \in Nat
    BY <1>1 DEF FcTyped, FcContents
  <2> QED
    BY <1>1, <2>1, RecoversTyped DEF FcHandles
<1>12. FcLog'
  BY <1>1, <1>2, <1>4, <1>5, <1>11 DEF FcLog
<1>13. FcSyncs'
  <2> SUFFICES ASSUME NEW t \in Syncer, sync[t].pc # "idle"
               PROVE  Asks(sync[t])'
    BY <1>2 DEF FcSyncs
  <2>1. Asks(sync[t])
    BY <1>1 DEF FcSyncs
  <2> QED
    BY <1>2, <1>4, <1>5, <2>1 DEF Asks
<1>14. FcArea'
  BY <1>1, <1>2, <1>4, <1>6 DEF FcArea
<1>15. FcGood'
  <2>1. \A i \in Inode : ino[i].data <= ino'[i].data
    BY <1>1, <1>2, SameData
  <2> QED
    BY <1>1, <1>2, <1>4, <1>5, <1>7, <2>1, FcGoodStill, SurvivorsStill
<1>16. FcQuiet' /\ FcFast'
  BY <1>2, <1>4, <1>6 DEF FcQuiet, FcFast, Fasting
<1>17. FcFull'
  <2>1. Target' = Target
    BY <1>2, <1>4 DEF Target
  <2>2. \A i \in Inode : InFull(i)
    BY <1>1, <1>2, <1>6 DEF FcFull
  <2> QED
    BY <1>2, <2>1, <2>2 DEF FcFull, InFull, Ends, Named, Newest
<1> QED
  BY <1>7, <1>8, <1>9, <1>10, <1>12, <1>13, <1>14, <1>15, <1>16, <1>17 DEF FcOrder

(* The step that makes a full commit durable: every fast commit of its      *)
(* transaction dies, and all that they held is in it.                       *)
LEMMA FullRecordHolds ==
  ASSUME FcOrder, FullRecord
  PROVE  FcOrder'
<1>1. /\ FcTyped /\ FcNumbers /\ FcThreads /\ FcHandles /\ FcLog /\ FcSyncs
      /\ FcArea /\ FcGood /\ FcQuiet /\ FcFull /\ FcFast
  BY DEF FcOrder
<1>2. /\ tran.full = "write"
      /\ UNCHANGED <<flags, handle, ino, entry, updates, inel, sync, subtid, area, promised,
                     handles>>
  BY DEF FullRecord
<1>3. "fast" \notin flags /\ tran.ctid = tran.committed + 1 /\ tran.committed \in Nat
  BY <1>1, <1>2 DEF FcNumbers, FcTyped
<1>4. /\ tran' \in FcTrans /\ tran'.full = "callback" /\ tran'.running = tran.running
      /\ tran'.committed = tran.ctid /\ tran'.next = tran.next /\ tran'.ctid = NoTran
  <2>1. tran \in FcTrans
    BY <1>1 DEF FcTyped, FcTrans
  <2>2. PICK f \in {"callback"}, r \in Nat, z \in Nat :
          f = "callback" /\ r = tran.ctid /\ z = NoTran
    BY <2>1 DEF FcTrans, NoTran
  <2>3. tran' = [tran EXCEPT !.full = f, !.committed = r, !.ctid = z]
    BY <2>2 DEF FullRecord
  <2>4. tran' \in FcTrans
    BY <2>1, <2>3 DEF FcTrans
  <2>5. /\ tran'.full = f /\ tran'.running = tran.running /\ tran'.committed = r
        /\ tran'.next = tran.next /\ tran'.ctid = z
    BY <2>1, <2>3 DEF FcTrans
  <2> QED
    BY <2>2, <2>4, <2>5
<1>5. /\ log' \in [ino : FcContents, entry : FcContents, start : BOOLEAN, stats : BOOLEAN,
                   com : [ino : FcContents, entry : FcContents]]
      /\ log'.ino = log.com.ino /\ log'.entry = log.com.entry
  <2>1. /\ log \in [ino : FcContents, entry : FcContents, start : BOOLEAN, stats : BOOLEAN,
                    com : [ino : FcContents, entry : FcContents]]
    BY <1>1 DEF FcTyped
  <2>2. PICK a \in FcContents, e \in FcContents, s \in BOOLEAN :
          a = log.com.ino /\ e = log.com.entry /\ s = TRUE
    BY <2>1
  <2>3. log' = [log EXCEPT !.ino = a, !.entry = e, !.start = s]
    BY <2>2 DEF FullRecord
  <2>4. log' \in [ino : FcContents, entry : FcContents, start : BOOLEAN, stats : BOOLEAN,
                  com : [ino : FcContents, entry : FcContents]]
    BY <2>1, <2>3
  <2>5. log'.ino = a /\ log'.entry = e
    BY <2>1, <2>3
  <2> QED
    BY <2>2, <2>4, <2>5
<1>6. /\ flags = {"full"} /\ area.written /\ FcSurvivors = {area.seq}
      /\ \A t \in Syncer : sync[t].pc \notin Fasting
  BY <1>1, <1>2, <1>3, FullAlone
<1>7. FcTyped'
  BY <1>1, <1>2, <1>4, <1>5 DEF FcTyped, FcTrans
<1>8. FcNumbers'
  BY <1>1, <1>2, <1>3, <1>4, <1>6 DEF FcNumbers, FcLast
<1>9. FcThreads'
  BY <1>2, <1>3, <1>6 DEF FcThreads, Fasting
<1>10. FcHandles'
  BY <1>1, <1>2, <1>4 DEF FcHandles, Ends
<1>11. FcLog'
  BY <1>1, <1>2, <1>4, <1>5 DEF FcLog
<1>12. FcSyncs'
  <2> SUFFICES ASSUME NEW t \in Syncer, sync[t].pc # "idle"
               PROVE  Asks(sync[t])'
    BY <1>2 DEF FcSyncs
  <2>1. Asks(sync[t])
    BY <1>1 DEF FcSyncs
  <2> QED
    BY <1>2, <1>4, <1>5, <2>1 DEF Asks
<1>13. \A k \in 1..Len(area.seq) : area.seq[k].tid <= tran'.committed
  BY <1>1, <1>2, <1>3, <1>4 DEF FcArea
<1>14. FcArea'
  BY <1>1, <1>2, <1>4, <1>6, <1>13 DEF FcArea
<1>15. FcGood'
  <2>1. PICK seq : seq = area.seq
    OBVIOUS
  <2>2. FcSurvivors' = {seq}
    BY <1>2, <1>6, <2>1 DEF FcSurvivors
  <2>3. seq \in Seq(FcCommits)
    BY <1>1, <2>1 DEF FcTyped
  <2>4. Len(seq) = 0 \/ seq[1].tid # tran'.committed + 1
    <3>1. Len(seq) \in Nat /\ tran'.committed \in Nat
      BY <1>4, <2>3 DEF FcTrans
    <3>2. Len(seq) # 0 => 1 \in 1..Len(seq)
      BY <3>1
    <3> QED
      BY <1>13, <2>1, <3>1, <3>2
  <2>5. ASSUME NEW i \in Inode
        PROVE  /\ FcReplayed(seq)'.ino[i] = log.com.ino[i]
               /\ FcReplayed(seq)'.entry[i] = log.com.entry[i]
    BY <1>5, <1>7, <2>3, <2>4, ReplaysLogNext
  <2>6. \A i \in Inode : /\ log.com.ino[i] \in Nat /\ log.com.ino[i] = log.com.entry[i]
                         /\ promised[i] <= log.com.ino[i] /\ log.com.ino[i] <= ino[i].data
    BY <1>1, <1>2 DEF FcLog, FcTyped, FcContents
  <2>7. FcSound(seq)'
    BY <1>2, <1>5, <2>5, <2>6 DEF FcSound
  <2> QED
    BY <2>2, <2>7 DEF FcGood
<1>16. FcQuiet' /\ FcFast'
  BY <1>2, <1>4, <1>6 DEF FcQuiet, FcFast, Fasting
<1>17. FcFull'
  <2>1. Target' = Target
    BY <1>2, <1>4 DEF Target
  <2>2. \A i \in Inode : InFull(i)
    BY <1>1, <1>2, <1>6 DEF FcFull
  <2> QED
    BY <1>2, <2>1, <2>2 DEF FcFull, InFull, Ends, Named, Newest
<1> QED
  BY <1>7, <1>8, <1>9, <1>10, <1>11, <1>12, <1>14, <1>15, <1>16, <1>17 DEF FcOrder

(* Fast commits of transactions that have committed are not replayed.       *)
LEMMA OldArea ==
  ASSUME FcTyped, FcArea, FcNumbers, area.off = 0,
         tran.full \in {"none", "callback", "cleaned"}
  PROVE  \A i \in Inode : Recovers(i) = log.ino[i]
<1>1. area.seq \in Seq(FcCommits) /\ tran.committed \in Nat
  BY DEF FcTyped
<1>2. Len(area.seq) = 0 \/ area.seq[1].tid # tran.committed + 1
  <2>1. \A k \in 1..Len(area.seq) : area.seq[k].tid <= tran.committed
    BY DEF FcArea
  <2> QED
    BY <1>1, <2>1
<1> QED
  BY <1>1, <1>2, ReplaysLog DEF Recovers

(* What the full commit covered leaves the main queue; an inode that        *)
(* changed since stays, or comes from the staging queue.                    *)
LEMMA FullCleanupHolds ==
  ASSUME FcOrder, FullCleanup
  PROVE  FcOrder'
<1>1. /\ FcTyped /\ FcNumbers /\ FcThreads /\ FcHandles /\ FcLog /\ FcSyncs
      /\ FcArea /\ FcGood /\ FcQuiet /\ FcFull /\ FcFast
  BY DEF FcOrder
<1>2. /\ tran.full = "callback" /\ Cleanup(TRUE, tran.committed)
      /\ UNCHANGED <<flags, handle, entry, sync, subtid, area, log, promised, handles>>
  BY DEF FullCleanup
<1>3. /\ "fast" \notin flags /\ tran.committed \in Nat
      /\ tran.running # NoTran => tran.running = tran.committed + 1
  BY <1>1, <1>2 DEF FcNumbers, FcLast, FcTyped, NoTran
<1>4. /\ tran' \in FcTrans /\ tran'.full = "cleaned" /\ tran'.running = tran.running
      /\ tran'.committed = tran.committed /\ tran'.next = tran.next
      /\ tran'.ctid = tran.ctid
  <2>1. tran \in FcTrans /\ tran' = [tran EXCEPT !.full = "cleaned"]
    BY <1>1 DEF FullCleanup, FcTyped, FcTrans
  <2> QED
    BY <2>1 DEF FcTrans
<1>5. PICK full \in BOOLEAN : full = TRUE
  OBVIOUS
<1>6. Cleanup(full, tran.committed)
  BY <1>2, <1>5
<1>7. /\ ino' \in [Inode -> [data : Nat, sync : Nat, list : {"none"} \cup Queue,
                             committing : BOOLEAN]]
      /\ \A i \in Inode :
           /\ ino'[i].data = ino[i].data /\ ino'[i].sync = ino[i].sync
           /\ ino[i].list = "main" /\ ino[i].sync > tran.committed => ino'[i].list = "main"
           /\ ino[i].list = "staging" => ino'[i].list = "main"
           /\ ino'[i].list # "staging"
      /\ updates' \in [Queue -> SUBSET (Inode \X Nat)]
      /\ updates'["main"] = updates["staging"] /\ updates'["staging"] = {}
      /\ inel' \in [on : BOOLEAN, tid : Nat] /\ (~inel.on => ~inel'.on)
      /\ inel.on /\ inel.tid > tran.committed => inel' = inel
  <2>1. \A i \in Inode : ino[i].list \in {"none", "main", "staging"}
    BY <1>1 DEF FcTyped, Queue
  <2> QED
    BY <1>1, <1>3, <1>5, <1>6, <2>1, CleanupIs
<1>8. FcHandles'
  BY <1>1, <1>2, <1>3, <1>4, <1>6, CleanupHandles
<1>9. /\ flags = {"full"} /\ area.written /\ FcSurvivors = {area.seq}
      /\ \A t \in Syncer : sync[t].pc \notin Fasting
  BY <1>1, <1>2, <1>3, FullAlone
<1>10. FcTyped'
  BY <1>1, <1>2, <1>4, <1>7 DEF FcTyped, FcTrans
<1>11. FcNumbers'
  BY <1>1, <1>2, <1>4, <1>9 DEF FcNumbers, FcLast
<1>12. FcThreads'
  BY <1>2, <1>3, <1>9 DEF FcThreads, Fasting
<1>13. FcLog'
  BY <1>1, <1>2, <1>4, <1>7 DEF FcLog
<1>14. FcSyncs'
  <2> SUFFICES ASSUME NEW t \in Syncer, sync[t].pc # "idle"
               PROVE  Asks(sync[t])'
    BY <1>2 DEF FcSyncs
  <2>1. Asks(sync[t])
    BY <1>1 DEF FcSyncs
  <2> QED
    BY <1>2, <1>4, <1>7, <2>1 DEF Asks
<1>15. area.off = 0 /\ FcArea'
  BY <1>1, <1>2, <1>4, <1>9 DEF FcArea
<1>16. FcGood'
  <2>1. \A i \in Inode : ino[i].data <= ino'[i].data
    BY <1>1, <1>7, SameData
  <2> QED
    BY <1>1, <1>2, <1>4, <1>10, <2>1, FcGoodStill, SurvivorsStill
<1>17. \A i \in Inode : Recovers(i) = log.ino[i] /\ Recovers(i)' = Recovers(i)
  BY <1>1, <1>2, <1>4, <1>15, OldArea, RecoversStill
<1>18. FcQuiet'
  <2>1. ASSUME NEW i \in Inode
        PROVE  InQuiet(i)'
    <3>1. InFull(i) /\ Target = tran.committed
      BY <1>1, <1>2, <1>9 DEF FcFull, Target
    <3>2. Ends(i)' = Ends(i) /\ Newest("main", i)' = Newest("staging", i)
          /\ Named("main", i)' = Named("staging", i)
      BY <1>2, <1>7 DEF Ends, Newest, Named
    <3>3. CASE ino[i].sync <= tran.committed
                 /\ (Ends(i) \/ (Named("staging", i) => Newest("staging", i)))
      <4>1. log.ino[i] = ino[i].data
        BY <1>1, <3>3 DEF FcLog
      <4>2. ~Ends(i)
        <5>1. Ends(i) => ino[i].sync = tran.running /\ tran.running # NoTran
          BY <1>1 DEF FcHandles, Ends
        <5> QED
          BY <1>3, <3>3, <5>1
      <4>3. Recovers(i)' = ino'[i].data
        BY <1>7, <1>17, <4>1
      <4> QED
        BY <3>2, <3>3, <4>2, <4>3 DEF InQuiet
    <3>4. CASE ino[i].sync > tran.committed /\ ino[i].list # "none"
                 /\ (Ends(i) \/ Newest("staging", i))
      <4>1. ino[i].list \in {"none", "main", "staging"}
        BY <1>1 DEF FcTyped, Queue
      <4>2. ino'[i].list = "main"
        BY <1>7, <3>4, <4>1
      <4> QED
        BY <3>2, <3>4, <4>2 DEF InQuiet
    <3>5. CASE ino[i].sync > tran.committed /\ inel.on /\ inel.tid > tran.committed
      BY <1>7, <3>5 DEF InQuiet
    <3> QED
      BY <3>1, <3>3, <3>4, <3>5 DEF InFull
  <2> QED
    BY <1>7, <2>1 DEF FcQuiet, NoneStaged
<1>19. FcFull' /\ FcFast'
  BY <1>2, <1>4, <1>9 DEF FcFull, FcFast, Fasting
<1> QED
  BY <1>8, <1>10, <1>11, <1>12, <1>13, <1>14, <1>15, <1>16, <1>18, <1>19 DEF FcOrder

LEMMA FullEndHolds ==
  ASSUME FcOrder, FullEnd
  PROVE  FcOrder'
<1>1. /\ FcTyped /\ FcNumbers /\ FcThreads /\ FcHandles /\ FcLog /\ FcSyncs
      /\ FcArea /\ FcGood /\ FcQuiet /\ FcFull /\ FcFast
  BY DEF FcOrder
<1>2. /\ tran.full = "cleaned" /\ flags' = {} /\ sync' = Wake(sync)
      /\ UNCHANGED <<handle, ino, entry, updates, inel, subtid, area, promised, handles>>
  BY DEF FullEnd
<1>3. "fast" \notin flags
  BY <1>1, <1>2 DEF FcNumbers
<1>4. /\ tran' \in FcTrans /\ tran'.full = "none" /\ tran'.running = tran.running
      /\ tran'.committed = tran.committed /\ tran'.next = tran.next
      /\ tran'.ctid = tran.ctid
  <2>1. tran \in FcTrans /\ tran' = [tran EXCEPT !.full = "none"]
    BY <1>1 DEF FullEnd, FcTyped, FcTrans
  <2> QED
    BY <2>1 DEF FcTrans
<1>5. /\ log' \in [ino : FcContents, entry : FcContents, start : BOOLEAN, stats : BOOLEAN,
                   com : [ino : FcContents, entry : FcContents]]
      /\ log'.ino = log.ino /\ log'.entry = log.entry /\ log'.start = log.start
      /\ log'.com = log.com
  <2>1. log \in [ino : FcContents, entry : FcContents, start : BOOLEAN, stats : BOOLEAN,
                 com : [ino : FcContents, entry : FcContents]]
    BY <1>1 DEF FcTyped
  <2>2. PICK s \in BOOLEAN : s = TRUE
    OBVIOUS
  <2>3. log' = [log EXCEPT !.stats = s]
    BY <2>2 DEF FullEnd
  <2> QED
    BY <2>1, <2>3
<1>6. /\ flags = {"full"} /\ area.written /\ FcSurvivors = {area.seq}
      /\ \A t \in Syncer : sync[t].pc \notin Fasting
  BY <1>1, <1>2, <1>3, FullAlone
<1>7. /\ sync' \in [Syncer -> FcSyncRecords]
      /\ \A u \in Syncer :
           /\ sync'[u].on = sync[u].on /\ sync'[u].tid = sync[u].tid
           /\ sync'[u].must = sync[u].must
           /\ sync[u].pc = "wait" => sync'[u].pc = "woken"
           /\ sync[u].pc # "wait" => sync'[u] = sync[u]
  BY <1>1, <1>2, WakeIs
<1>8. \A u \in Syncer : sync'[u].pc \notin Fasting
  BY <1>6, <1>7 DEF Fasting
<1>9. FcTyped'
  BY <1>1, <1>2, <1>4, <1>5, <1>7 DEF FcTyped, FcTrans
<1>10. FcNumbers'
  BY <1>1, <1>2, <1>4 DEF FcNumbers, FcLast
<1>11. FcThreads'
  BY <1>2, <1>8 DEF FcThreads, Fasting
<1>12. FcHandles' /\ FcLog'
  BY <1>1, <1>2, <1>4, <1>5 DEF FcHandles, Ends, FcLog
<1>13. FcSyncs'
  <2> SUFFICES ASSUME NEW t \in Syncer, sync'[t].pc # "idle"
               PROVE  Asks(sync[t])'
    BY DEF FcSyncs
  <2>1. Asks(sync[t])
    BY <1>1, <1>7 DEF FcSyncs
  <2> QED
    BY <1>2, <1>4, <1>5, <1>7, <2>1 DEF Asks
<1>14. FcArea'
  BY <1>1, <1>2, <1>4, <1>6 DEF FcArea
<1>15. FcGood'
  <2>1. \A i \in Inode : ino[i].data <= ino'[i].data
    BY <1>1, <1>2, SameData
  <2> QED
    BY <1>1, <1>2, <1>4, <1>5, <1>9, <2>1, FcGoodStill, SurvivorsStill
<1>16. \A i \in Inode : Recovers(i)' = Recovers(i)
  BY <1>2, <1>4, <1>5, RecoversStill
<1>17. FcQuiet'
  <2>1. NoneStaged /\ \A i \in Inode : InQuiet(i)
    BY <1>1, <1>2 DEF FcQuiet
  <2>2. \A i \in Inode : InQuiet(i) => InQuiet(i)'
    BY <1>2, <1>16 DEF InQuiet, Ends, Named, Newest
  <2> QED
    BY <1>2, <2>1, <2>2 DEF FcQuiet, NoneStaged
<1>18. FcFull' /\ FcFast'
  BY <1>2, <1>8 DEF FcFull, FcFast, Fasting
<1> QED
  BY <1>9, <1>10, <1>11, <1>12, <1>13, <1>14, <1>15, <1>17, <1>18 DEF FcOrder

(* An empty log is not recovered at all: then nothing runs, so all is in    *)
(* place.                                                                   *)
LEMMA FlushLogHolds ==
  ASSUME FcOrder, FlushLog
  PROVE  FcOrder'
<1>1. /\ FcTyped /\ FcNumbers /\ FcThreads /\ FcHandles /\ FcLog /\ FcSyncs
      /\ FcArea /\ FcGood /\ FcQuiet /\ FcFull /\ FcFast
  BY DEF FcOrder
<1>2. /\ tran.running = NoTran /\ tran.full = "none"
      /\ UNCHANGED <<tran, flags, handle, ino, entry, updates, inel, sync, subtid, area,
                     promised, handles>>
  BY DEF FlushLog
<1>3. /\ log' \in [ino : FcContents, entry : FcContents, start : BOOLEAN, stats : BOOLEAN,
                   com : [ino : FcContents, entry : FcContents]]
      /\ log'.ino = log.ino /\ log'.entry = log.entry /\ ~log'.start /\ log'.com = log.com
  <2>1. log \in [ino : FcContents, entry : FcContents, start : BOOLEAN, stats : BOOLEAN,
                 com : [ino : FcContents, entry : FcContents]]
    BY <1>1 DEF FcTyped
  <2>2. PICK s \in BOOLEAN : s = FALSE
    OBVIOUS
  <2>3. log' = [log EXCEPT !.start = s]
    BY <2>2 DEF FlushLog
  <2> QED
    BY <2>1, <2>2, <2>3
<1>4. flags = {} /\ \A t \in Syncer : sync[t].pc \notin Fasting
  <2>1. "full" \notin flags
    BY <1>1, <1>2 DEF FcNumbers
  <2>2. "fast" \notin flags /\ \A t \in Syncer : sync[t].pc \notin Fasting
    BY <1>1, <1>2 DEF FcThreads
  <2>3. flags \subseteq {"full", "fast"}
    BY <1>1 DEF FcTyped
  <2> QED
    BY ONLY <2>1, <2>2, <2>3
<1>5. area.written /\ area.off = 0 /\ FcSurvivors = {area.seq} /\ FcSurvivors' = {area.seq}
  BY <1>1, <1>2, <1>4 DEF FcArea, Fasting, FcSurvivors
<1>6. FcTyped'
  BY <1>1, <1>2, <1>3 DEF FcTyped
<1>7. FcNumbers' /\ FcThreads' /\ FcHandles' /\ FcArea'
  BY <1>1, <1>2 DEF FcNumbers, FcLast, FcThreads, FcHandles, Ends, FcArea
<1>8. FcLog' /\ FcSyncs'
  BY <1>1, <1>2, <1>3 DEF FcLog, FcSyncs, Asks
<1>9. PICK seq \in Seq(FcCommits) : seq = area.seq
  BY <1>1 DEF FcTyped
<1>10. ASSUME NEW i \in Inode
       PROVE  FcReplayed(seq)'.ino[i] = log.ino[i]
                /\ FcReplayed(seq)'.entry[i] = log.entry[i]
  BY <1>3, <1>6, ReplaysLogNext
<1>11. FcGood'
  <2>1. \A i \in Inode : /\ Recovers(i) = log.ino[i] /\ Recovers(i) \in Nat
                         /\ promised[i] <= Recovers(i) /\ Recovers(i) <= ino[i].data
                         /\ log.ino[i] = log.entry[i]
    BY <1>1, <1>2, <1>5, OldArea, RecoversTyped DEF FcLog
  <2>2. FcSound(seq)'
    BY <1>2, <1>3, <1>10, <2>1 DEF FcSound
  <2> QED
    BY <1>5, <1>9, <2>2 DEF FcGood
<1>12. \A i \in Inode : Recovers(i)' = Recovers(i)
  <2>1. \A i \in Inode : Recovers(i) = log.ino[i]
    BY <1>1, <1>2, <1>5, OldArea
  <2> QED
    BY <1>2, <1>9, <1>10, <2>1 DEF Recovers
<1>13. FcQuiet'
  <2>1. NoneStaged /\ \A i \in Inode : InQuiet(i)
    BY <1>1, <1>4 DEF FcQuiet
  <2>2. \A i \in Inode : InQuiet(i) => InQuiet(i)'
    BY <1>2, <1>12 DEF InQuiet, Ends, Named, Newest
  <2> QED
    BY <1>2, <2>1, <2>2 DEF FcQuiet, NoneStaged
<1>14. FcFull' /\ FcFast'
  BY <1>2, <1>4 DEF FcFull, FcFast, Fasting
<1> QED
  BY <1>6, <1>7, <1>8, <1>11, <1>13, <1>14 DEF FcOrder

(* Whatever a crash leaves of the area, its commits are not newer than the  *)
(* transaction that runs.                                                   *)
LEMMA SurvivorTyped ==
  ASSUME FcTyped, FcArea, NEW seq \in FcSurvivors
  PROVE  seq \in Seq(FcCommits) /\ \A k \in 1..Len(seq) : seq[k].tid <= tran.committed + 1
<1>1. area.seq \in Seq(FcCommits) /\ tran.committed \in Nat /\ area.off \in Nat
  BY DEF FcTyped
<1>2. \A k \in 1..Len(area.seq) : area.seq[k].tid <= tran.committed + 1
  <2> SUFFICES ASSUME NEW k \in 1..Len(area.seq)
               PROVE  area.seq[k].tid <= tran.committed + 1
    OBVIOUS
  <2>1. area.seq[k] \in FcCommits
    BY <1>1
  <2>2. area.seq[k].tid \in Nat
    BY <2>1 DEF FcCommits
  <2>3. area.seq[k].tid = tran.committed + 1 \/ area.seq[k].tid <= tran.committed + 1
        \/ area.seq[k].tid <= tran.committed
    BY DEF FcArea
  <2> QED
    BY <1>1, <2>2, <2>3
<1>3. CASE seq = area.seq
  BY <1>1, <1>2, <1>3
<1>4. CASE seq # area.seq
  <2>1. ~area.written /\ seq = SubSeq(area.seq, 1, Len(area.seq) - 1)
    BY <1>4 DEF FcSurvivors
  <2>2. area.off = Len(area.seq) /\ area.off # 0
    BY <2>1 DEF FcArea
  <2>3. PICK n \in Nat : Len(area.seq) = n + 1
    <3>1. Len(area.seq) \in Nat /\ Len(area.seq) # 0
      BY <1>1, <2>2
    <3>2. Len(area.seq) - 1 \in Nat /\ Len(area.seq) = Len(area.seq) - 1 + 1
      BY <3>1
    <3> QED
      BY <3>2
  <2>4. seq = SubSeq(area.seq, 1, n)
    BY <2>1, <2>3
  <2>5. /\ seq \in Seq(FcCommits) /\ Len(seq) = n
        /\ \A k \in 1..n : k \in 1..Len(area.seq) /\ seq[k] = area.seq[k]
    BY <1>1, <2>3, <2>4
  <2> QED
    BY <1>2, <2>5
<1> QED
  BY <1>3, <1>4

(* After a crash memory and log are what replay found, and the numbers go   *)
(* on past those of the area.                                               *)
LEMMA FcCrashHolds ==
  ASSUME FcOrder, FcCrash
  PROVE  FcOrder'
<1>1. /\ FcTyped /\ FcNumbers /\ FcThreads /\ FcHandles /\ FcLog /\ FcSyncs
      /\ FcArea /\ FcGood /\ FcQuiet /\ FcFull /\ FcFast
  BY DEF FcOrder
<1>2. /\ tran' = [running |-> NoTran, committed |-> tran.committed + 1,
                  next |-> tran.committed + 2, full |-> "none", ctid |-> NoTran]
      /\ flags' = {}
      /\ handle' = [i \in Inode |-> [tid |-> NoTran, step |-> "none", n |-> 0]]
      /\ updates' = [q \in Queue |-> {}] /\ inel' = [on |-> FALSE, tid |-> NoTran]
      /\ sync' = [t \in Syncer |-> Idle]
      /\ UNCHANGED <<subtid, promised, handles>>
  BY DEF FcCrash
<1>3. PICK seq \in FcSurvivors :
        LET now == FcReplayed(seq)
        IN  /\ ino' = [i \in Inode |-> [data |-> now.ino[i], sync |-> tran.committed + 1,
                                        list |-> "none", committing |-> FALSE]]
            /\ entry' = now.entry
            /\ log' = [ino |-> now.ino, entry |-> now.entry, com |-> log.com,
                       start |-> FALSE, stats |-> FALSE]
            /\ area' = [seq |-> seq, off |-> 0, written |-> TRUE]
  BY DEF FcCrash
<1>4. PICK files, names : files = FcReplayed(seq).ino /\ names = FcReplayed(seq).entry
  OBVIOUS
<1>5. /\ files = [i \in Inode |-> files[i]] /\ names = [i \in Inode |-> names[i]]
  BY <1>4, ReplayShape
<1>6. FcSound(seq)
  BY <1>1, <1>3 DEF FcGood
<1>7. \A i \in Inode : files[i] \in Nat /\ files[i] = names[i] /\ promised[i] <= files[i]
                       /\ files[i] <= ino[i].data
  BY <1>4, <1>6 DEF FcSound
<1>8. files \in FcContents /\ names \in FcContents
  BY <1>5, <1>7 DEF FcContents
<1>9. /\ seq \in Seq(FcCommits) /\ tran.committed \in Nat
      /\ \A k \in 1..Len(seq) : seq[k].tid <= tran.committed + 1
  BY <1>1, <1>3, SurvivorTyped DEF FcTyped
<1>10. PICK c \in Nat, n \in Nat, z \in Nat, no \in BOOLEAN, yes \in BOOLEAN :
         c = tran.committed + 1 /\ n = tran.committed + 2 /\ z = 0 /\ no = FALSE
           /\ yes = TRUE
  <2>1. tran.committed + 1 \in Nat /\ tran.committed + 2 \in Nat
    BY <1>9
  <2>2. \E z \in Nat, no \in BOOLEAN, yes \in BOOLEAN : z = 0 /\ no = FALSE /\ yes = TRUE
    OBVIOUS
  <2> QED
    BY <2>1, <2>2
<1>11. /\ tran' \in FcTrans /\ tran'.running = NoTran /\ tran'.committed = c
       /\ tran'.next = n
       /\ tran'.full = "none" /\ tran'.ctid = NoTran
  <2>1. tran' = [running |-> z, committed |-> c, next |-> n, full |-> "none", ctid |-> z]
    BY <1>2, <1>10 DEF NoTran
  <2> QED
    BY <1>10, <2>1 DEF FcTrans, NoTran
<1>12. /\ ino' \in [Inode -> [data : Nat, sync : Nat, list : {"none"} \cup Queue,
                              committing : BOOLEAN]]
       /\ \A i \in Inode : ino'[i].data = files[i] /\ ino'[i].sync = c
            /\ ino'[i].list = "none"
  <2>1. ino' = [i \in Inode |-> [data |-> files[i], sync |-> c, list |-> "none",
                                 committing |-> no]]
    BY <1>3, <1>4, <1>10
  <2> QED
    BY <1>7, <2>1
<1>13. /\ log' \in [ino : FcContents, entry : FcContents, start : BOOLEAN, stats : BOOLEAN,
                    com : [ino : FcContents, entry : FcContents]]
       /\ log'.ino = files /\ log'.entry = names /\ ~log'.start
  <2>1. PICK com \in [ino : FcContents, entry : FcContents] : com = log.com
    BY <1>1 DEF FcTyped
  <2>2. log' = [ino |-> files, entry |-> names, com |-> com, start |-> no, stats |-> no]
    BY <1>3, <1>4, <1>10, <2>1
  <2> QED
    BY <1>8, <1>10, <2>2
<1>14. /\ area' \in [seq : Seq(FcCommits), off : Nat, written : BOOLEAN]
       /\ area'.seq = seq /\ area'.off = 0 /\ area'.written
  <2>1. area' = [seq |-> seq, off |-> z, written |-> yes]
    BY <1>3, <1>10
  <2> QED
    BY <1>9, <1>10, <2>1
<1>15. /\ sync' \in [Syncer -> FcSyncRecords]
       /\ \A t \in Syncer : sync'[t].pc = "idle" /\ sync'[t].pc \notin Fasting
  <2>1. Idle \in FcSyncRecords /\ Idle.pc = "idle" /\ "idle" \notin Fasting
    BY IdleTyped DEF Fasting
  <2> QED
    BY <1>2, <2>1
<1>16. /\ handle' \in [Inode -> [tid : Nat, step : {"none", "open", "tracked"}, n : Nat]]
       /\ \A i \in Inode : handle'[i].step = "none" /\ handle'[i].n = 0
  <2>1. handle' = [i \in Inode |-> [tid |-> z, step |-> "none", n |-> z]]
    BY <1>2, <1>10 DEF NoTran
  <2> QED
    BY <1>10, <2>1
<1>17. /\ updates' \in [Queue -> SUBSET (Inode \X Nat)] /\ \A q \in Queue : updates'[q] = {}
  BY <1>2
<1>18. /\ inel' \in [on : BOOLEAN, tid : Nat] /\ ~inel'.on
  <2>1. inel' = [on |-> no, tid |-> z]
    BY <1>2, <1>10 DEF NoTran
  <2> QED
    BY <1>10, <2>1
<1>19. entry' = names
  BY <1>3, <1>4
<1>20. FcTyped'
  BY <1>1, <1>2, <1>8, <1>11, <1>12, <1>13, <1>14, <1>15, <1>16, <1>17, <1>18, <1>19
     DEF FcTyped, FcTrans
<1>21. FcNumbers' /\ FcThreads'
  BY <1>2, <1>9, <1>10, <1>11, <1>15, <1>18 DEF FcNumbers, FcLast, FcThreads, Fasting,
     NoTran
<1>22. FcHandles'
  <2>1. ASSUME NEW i \in Inode
        PROVE  files[i] <= handles /\ 0 <= handles /\ c < n
    <3>1. ino[i].data \in Nat /\ handles \in Nat /\ ino[i].data <= handles
      BY <1>1 DEF FcTyped, FcHandles
    <3> QED
      BY <1>7, <1>9, <1>10, <3>1
  <2> QED
    BY <1>2, <1>7, <1>11, <1>12, <1>16, <1>17, <1>19, <2>1 DEF FcHandles, Ends
<1>23. FcLog' /\ FcSyncs'
  BY <1>7, <1>11, <1>12, <1>13, <1>15 DEF FcLog, FcSyncs
<1>24. FcArea'
  BY <1>9, <1>10, <1>11, <1>14 DEF FcArea
<1>25. ASSUME NEW i \in Inode
       PROVE  FcReplayed(seq)'.ino[i] = files[i] /\ FcReplayed(seq)'.entry[i] = names[i]
  BY <1>9, <1>13, <1>20, ReplaysLogNext
<1>26. FcGood'
  <2>1. FcSurvivors' = {seq}
    BY <1>14 DEF FcSurvivors
  <2>2. FcSound(seq)'
    <3>1. \A i \in Inode : files[i] <= files[i]
      BY <1>7
    <3> QED
      BY <1>2, <1>7, <1>12, <1>13, <1>25, <3>1 DEF FcSound
  <2> QED
    BY <2>1, <2>2 DEF FcGood
<1>27. \A i \in Inode : Recovers(i)' = files[i]
  BY <1>14, <1>25 DEF Recovers
<1>28. FcQuiet'
  <2>1. "staging" \in Queue /\ "main" \in Queue
    BY DEF Queue
  <2>2. \A i \in Inode : ~Ends(i)' /\ ~Named("main", i)'
    BY <1>16, <1>17, <2>1 DEF Ends, Named
  <2>3. \A i \in Inode : InQuiet(i)'
    BY <1>12, <1>27, <2>2 DEF InQuiet
  <2> QED
    BY <1>12, <1>17, <2>1, <2>3 DEF FcQuiet, NoneStaged
<1>29. FcFull' /\ FcFast'
  BY <1>2, <1>15 DEF FcFull, FcFast, Fasting
<1> QED
  BY <1>20, <1>21, <1>22, <1>23, <1>24, <1>26, <1>28, <1>29 DEF FcOrder

LEMMA FastInitHolds ==
  ASSUME FastInit
  PROVE  FcIInv
<1>1. PICK z \in Nat, one \in Nat, no \in BOOLEAN, yes \in BOOLEAN :
        z = 0 /\ one = 1 /\ no = FALSE /\ yes = TRUE
  OBVIOUS
<1>2. /\ tran = [running |-> z, committed |-> z, next |-> one, full |-> "none", ctid |-> z]
      /\ flags = {} /\ subtid = z /\ handles = z
      /\ handle = [i \in Inode |-> [tid |-> z, step |-> "none", n |-> z]]
      /\ ino = [i \in Inode |-> [data |-> z, sync |-> z, list |-> "none",
                                 committing |-> no]]
      /\ entry = [i \in Inode |-> z]
      /\ updates = [q \in Queue |-> {}]
      /\ inel = [on |-> no, tid |-> z]
      /\ sync = [t \in Syncer |-> Idle]
      /\ area = [seq |-> <<>>, off |-> z, written |-> yes]
      /\ log = [ino |-> entry, entry |-> entry, com |-> [ino |-> entry, entry |-> entry],
                start |-> no, stats |-> no]
      /\ promised = entry
  BY <1>1 DEF FastInit, NoTran
<1>3. /\ tran \in FcTrans /\ tran.running = 0 /\ tran.committed = 0 /\ tran.next = 1
      /\ tran.full = "none" /\ tran.ctid = 0
  BY <1>1, <1>2 DEF FcTrans
<1>4. /\ handle \in [Inode -> [tid : Nat, step : {"none", "open", "tracked"}, n : Nat]]
      /\ \A i \in Inode : handle[i].step = "none" /\ handle[i].n = 0
  BY <1>1, <1>2
<1>5. /\ ino \in [Inode -> [data : Nat, sync : Nat, list : {"none"} \cup Queue,
                            committing : BOOLEAN]]
      /\ \A i \in Inode : ino[i].data = 0 /\ ino[i].sync = 0 /\ ino[i].list = "none"
  BY <1>1, <1>2
<1>6. entry \in FcContents /\ \A i \in Inode : entry[i] = 0
  BY <1>1, <1>2 DEF FcContents
<1>7. updates \in [Queue -> SUBSET (Inode \X Nat)] /\ \A q \in Queue : updates[q] = {}
  BY <1>2
<1>8. inel \in [on : BOOLEAN, tid : Nat] /\ ~inel.on
  BY <1>1, <1>2
<1>9. /\ sync \in [Syncer -> FcSyncRecords]
      /\ \A t \in Syncer : sync[t].pc = "idle" /\ sync[t].pc \notin Fasting
  <2>1. Idle \in FcSyncRecords /\ Idle.pc = "idle" /\ "idle" \notin Fasting
    BY IdleTyped DEF Fasting
  <2> QED
    BY <1>2, <2>1
<1>10. /\ area \in [seq : Seq(FcCommits), off : Nat, written : BOOLEAN]
       /\ area.seq = <<>> /\ area.off = 0 /\ area.written
  <2>1. PICK seq \in Seq(FcCommits) : seq = <<>>
    <3>1. <<>> \in Seq(FcCommits)
      OBVIOUS
    <3> QED
      BY <3>1
  <2>2. area = [seq |-> seq, off |-> z, written |-> yes]
    BY <1>2, <2>1
  <2> QED
    BY <1>1, <2>1, <2>2
<1>11. /\ log \in [ino : FcContents, entry : FcContents, start : BOOLEAN, stats : BOOLEAN,
                   com : [ino : FcContents, entry : FcContents]]
       /\ log.ino = entry /\ log.entry = entry /\ ~log.start
  BY <1>1, <1>2, <1>6
<1>12. FcTyped
  BY <1>1, <1>2, <1>3, <1>4, <1>5, <1>6, <1>7, <1>8, <1>9, <1>10, <1>11 DEF FcTyped, FcTrans
<1>13. FcNumbers /\ FcThreads
  BY <1>2, <1>3, <1>8, <1>9 DEF FcNumbers, FcLast, FcThreads, Fasting, NoTran
<1>14. FcHandles
  BY <1>1, <1>2, <1>3, <1>4, <1>5, <1>6, <1>7 DEF FcHandles, Ends
<1>15. FcLog /\ FcSyncs
  BY <1>3, <1>5, <1>6, <1>9, <1>11 DEF FcLog, FcSyncs
<1>16. FcArea
  BY <1>3, <1>10 DEF FcArea
<1>17. ASSUME NEW i \in Inode
       PROVE  Recovers(i) = 0 /\ FcReplayed(area.seq).entry[i] = 0
  BY <1>6, <1>10, <1>11, <1>12, ReplaysLog DEF Recovers
<1>18. FcGood
  <2>1. FcSurvivors = {area.seq}
    BY <1>10 DEF FcSurvivors
  <2>2. FcSound(area.seq)
    BY <1>2, <1>5, <1>6, <1>11, <1>17 DEF FcSound, Recovers
  <2> QED
    BY <2>1, <2>2 DEF FcGood
<1>19. FcQuiet
  <2>1. "staging" \in Queue /\ "main" \in Queue
    BY DEF Queue
  <2>2. \A i \in Inode : InQuiet(i)
    BY <1>4, <1>5, <1>7, <1>17, <2>1 DEF InQuiet, Ends, Named
  <2> QED
    BY <1>5, <1>7, <2>1, <2>2 DEF FcQuiet, NoneStaged
<1>20. FcFull /\ FcFast
  BY <1>2, <1>9 DEF FcFull, FcFast, Fasting
<1> QED
  BY <1>12, <1>13, <1>14, <1>15, <1>16, <1>18, <1>19, <1>20 DEF FcIInv, FcOrder

LEMMA FcStutters ==
  ASSUME FcOrder, UNCHANGED fcVars
  PROVE  FcOrder'
<1>1. /\ FcTyped /\ FcNumbers /\ FcThreads /\ FcHandles /\ FcLog /\ FcSyncs
      /\ FcArea /\ FcGood /\ FcQuiet /\ FcFull /\ FcFast
  BY DEF FcOrder
<1>2. UNCHANGED <<tran, flags, handle, ino, entry, updates, inel, sync, subtid, area, log,
                  promised, handles>>
  BY DEF fcVars
<1>3. FcTyped' /\ FcNumbers' /\ FcThreads' /\ FcHandles'
  <2>1. FcTyped'
    BY <1>1, <1>2 DEF FcTyped
  <2>2. FcNumbers' /\ FcThreads'
    BY <1>1, <1>2 DEF FcNumbers, FcLast, FcThreads
  <2>3. FcHandles'
    BY <1>1, <1>2 DEF FcHandles, Ends
  <2> QED
    BY <2>1, <2>2, <2>3
<1>4. FcLog' /\ FcSyncs' /\ FcArea'
  BY <1>1, <1>2 DEF FcLog, FcSyncs, Asks, FcArea
<1>5. FcGood'
  <2>1. \A i \in Inode : ino[i].data <= ino'[i].data
    BY <1>1, <1>2, SameData
  <2> QED
    BY <1>1, <1>2, <1>3, <2>1, FcGoodStill, SurvivorsStill
<1>6. \A i \in Inode : Recovers(i)' = Recovers(i)
  BY <1>2, RecoversStill
<1>7. FcQuiet'
  <2>1. \A i \in Inode : InQuiet(i) => InQuiet(i)'
    BY <1>2, <1>6 DEF InQuiet, Ends, Named, Newest
  <2> QED
    BY <1>1, <1>2, <2>1 DEF FcQuiet, NoneStaged
<1>8. FcFull'
  BY <1>1, <1>2 DEF FcFull, InFull, Target, Ends, Named, Newest
<1>9. FcFast'
  <2>1. \A i \in Inode, t \in Syncer : InFast(i, t) => InFast(i, t)'
    BY <1>2, <1>6 DEF InFast, Ends, Named, Newest, Enough
  <2>2. \A i \in Inode : InIo(i) => InIo(i)'
    BY <1>2, <1>6 DEF InIo, Ends, Named, Newest
  <2>3. \A i \in Inode, t \in Syncer : Enough(i, t) => Enough(i, t)'
    BY <1>2, <1>6 DEF Enough
  <2>4. NoneStaged => NoneStaged'
    BY <1>2 DEF NoneStaged
  <2> QED
    BY <1>1, <1>2, <2>1, <2>2, <2>3, <2>4 DEF FcFast, Ends
<1> QED
  BY <1>3, <1>4, <1>5, <1>7, <1>8, <1>9 DEF FcOrder

(* An update that escaped stays escaped.                                    *)
LEMMA WindowsKept ==
  ASSUME [FastNext]_fcVars, windows' = {}
  PROVE  windows = {}
<1>1. windows \subseteq windows'
  <2>1. CASE UNCHANGED fcVars
    BY <2>1 DEF fcVars
  <2>2. ASSUME NEW i \in Inode,
               FcStart(i) \/ TrackInode(i) \/ TrackEntry(i) \/ MarkIneligible(i) \/ Evict(i)
        PROVE  windows \subseteq windows'
    <3>1. CASE FcStart(i)
      BY <3>1 DEF FcStart
    <3>2. CASE TrackInode(i)
      BY <3>2 DEF TrackInode
    <3>3. CASE TrackEntry(i)
      BY <3>3 DEF TrackEntry
    <3>4. CASE MarkIneligible(i)
      BY <3>4 DEF MarkIneligible
    <3>5. CASE Evict(i)
      BY <3>5 DEF Evict
    <3> QED
      BY <2>2, <3>1, <3>2, <3>3, <3>4, <3>5
  <2>3. ASSUME NEW t \in Syncer, NEW i \in Inode, Fsync(t, i)
        PROVE  windows \subseteq windows'
    BY <2>3 DEF Fsync
  <2>4. ASSUME NEW t \in Syncer, Begin(t) \/ Woken(t) \/ Check(t) \/ LockUpdates(t)
        PROVE  windows \subseteq windows'
    BY <2>4 DEF Begin, Woken, Check, LockUpdates
  <2>5. ASSUME NEW t \in Syncer, MarkInodes(t) \/ WriteCommit(t) \/ WaitBuffers(t)
                 \/ EndCommit(t)
        PROVE  windows \subseteq windows'
    BY <2>5 DEF MarkInodes, WriteCommit, WaitBuffers, EndCommit
  <2>6. ASSUME NEW t \in Syncer, Fallback(t) \/ EndFallback(t) \/ Complete(t)
        PROVE  windows \subseteq windows'
    BY <2>6 DEF Fallback, EndFallback, Complete
  <2>7. CASE FullBegin \/ FullLock \/ FullSwitch \/ FullRecord \/ FullCleanup \/ FullEnd
    BY <2>7 DEF FullBegin, FullLock, FullSwitch, FullRecord, FullCleanup, FullEnd
  <2>8. CASE FlushLog \/ FcCrash
    BY <2>8 DEF FlushLog, FcCrash
  <2> QED
    BY <2>1, <2>2, <2>3, <2>4, <2>5, <2>6, <2>7, <2>8 DEF FastNext
<1> QED
  BY <1>1

LEMMA FcOrderKept ==
  ASSUME FcIInv, [FastNext]_fcVars
  PROVE  FcIInv'
<1> SUFFICES ASSUME windows' = {}
             PROVE  FcOrder'
  BY DEF FcIInv
<1>1. windows = {} /\ FcOrder
  BY WindowsKept DEF FcIInv
<1>2. CASE UNCHANGED fcVars
  BY <1>1, <1>2, FcStutters
<1>3. ASSUME NEW i \in Inode, FcStart(i)
      PROVE  FcOrder'
  BY <1>1, <1>3, FcStartHolds
<1>4. ASSUME NEW i \in Inode, TrackInode(i)
      PROVE  FcOrder'
  BY <1>1, <1>4, TrackInodeHolds
<1>5. ASSUME NEW i \in Inode, TrackEntry(i)
      PROVE  FcOrder'
  BY <1>1, <1>5, TrackEntryHolds
<1>6. ASSUME NEW i \in Inode, MarkIneligible(i)
      PROVE  FcOrder'
  BY <1>1, <1>6, MarkIneligibleHolds
<1>7. ASSUME NEW i \in Inode, Evict(i)
      PROVE  FcOrder'
  BY <1>1, <1>7, EvictHolds
<1>8. ASSUME NEW t \in Syncer, NEW i \in Inode, Fsync(t, i)
      PROVE  FcOrder'
  BY <1>1, <1>8, FsyncHolds
<1>9. ASSUME NEW t \in Syncer, Begin(t)
      PROVE  FcOrder'
  BY <1>1, <1>9, BeginHolds
<1>10. ASSUME NEW t \in Syncer, Woken(t)
       PROVE  FcOrder'
  BY <1>1, <1>10, WokenHolds
<1>11. ASSUME NEW t \in Syncer, Check(t)
       PROVE  FcOrder'
  BY <1>1, <1>11, CheckHolds
<1>12. ASSUME NEW t \in Syncer, LockUpdates(t)
       PROVE  FcOrder'
  BY <1>1, <1>12, LockUpdatesHolds
<1>13. ASSUME NEW t \in Syncer, MarkInodes(t)
       PROVE  FcOrder'
  BY <1>1, <1>13, MarkInodesHolds
<1>14. ASSUME NEW t \in Syncer, WriteCommit(t)
       PROVE  FcOrder'
  BY <1>1, <1>14, WriteCommitHolds
<1>15. ASSUME NEW t \in Syncer, WaitBuffers(t)
       PROVE  FcOrder'
  BY <1>1, <1>15, WaitBuffersHolds
<1>16. ASSUME NEW t \in Syncer, EndCommit(t)
       PROVE  FcOrder'
  BY <1>1, <1>16, EndCommitHolds
<1>17. ASSUME NEW t \in Syncer, Fallback(t)
       PROVE  FcOrder'
  BY <1>1, <1>17, FallbackHolds
<1>18. ASSUME NEW t \in Syncer, EndFallback(t)
       PROVE  FcOrder'
  BY <1>1, <1>18, EndFallbackHolds
<1>19. ASSUME NEW t \in Syncer, Complete(t)
       PROVE  FcOrder'
  BY <1>1, <1>19, CompleteHolds
<1>20. CASE FullBegin
  BY <1>1, <1>20, FullBeginHolds
<1>21. CASE FullLock
  BY <1>1, <1>21, FullLockHolds
<1>22. CASE FullSwitch
  BY <1>1, <1>22, FullSwitchHolds
<1>23. CASE FullRecord
  BY <1>1, <1>23, FullRecordHolds
<1>24. CASE FullCleanup
  BY <1>1, <1>24, FullCleanupHolds
<1>25. CASE FullEnd
  BY <1>1, <1>25, FullEndHolds
<1>26. CASE FlushLog
  BY <1>1, <1>26, FlushLogHolds
<1>27. CASE FcCrash
  BY <1>1, <1>27, FcCrashHolds
<1> QED
  BY <1>2, <1>3, <1>4, <1>5, <1>6, <1>7, <1>8, <1>9, <1>10, <1>11, <1>12, <1>13, <1>14,
     <1>15, <1>16, <1>17, <1>18, <1>19, <1>20, <1>21, <1>22, <1>23, <1>24, <1>25, <1>26,
     <1>27 DEF FastNext

LEMMA OrderRecovers ==
  ASSUME FcIInv
  PROVE  FsyncedSurvives
<1> SUFFICES ASSUME windows = {}, NEW seq \in FcSurvivors, NEW i \in Inode
             PROVE  /\ FcReplayed(seq).ino[i] >= promised[i]
                    /\ FcReplayed(seq).ino[i] = FcReplayed(seq).entry[i]
  BY DEF FsyncedSurvives
<1>1. FcTyped /\ FcSound(seq)
  BY DEF FcIInv, FcOrder, FcGood
<1>2. promised[i] \in Nat
  BY <1>1 DEF FcTyped, FcContents
<1> QED
  BY <1>1, <1>2 DEF FcSound

(* Whatever number of inodes, threads, transactions and handles, and        *)
(* wherever power fails: replay (ext5_fc_replay_scan, ext5_fc_replay)       *)
(* recovers every change that an fsync returned for, each inode with its    *)
(* directory entry, as long as no update has escaped the queues in one of   *)
(* the ways that the model names.                                           *)
THEOREM FsyncedIsRecovered == FastSpec => []FsyncedSurvives
<1>1. FastInit => FcIInv
  BY FastInitHolds
<1>2. FcIInv /\ [FastNext]_fcVars => FcIInv'
  BY FcOrderKept
<1>3. FcIInv => FsyncedSurvives
  BY OrderRecovers
<1> QED
  BY <1>1, <1>2, <1>3, PTL DEF FastSpec
===============================================================================
