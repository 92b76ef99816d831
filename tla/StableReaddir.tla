---------------------------- MODULE StableReaddir ----------------------------
(***************************************************************************)
(* Listing a directory of a stable root over several getdents calls:       *)
(* ext5_stable_readdir.  A call pins the installed blob, copies the part   *)
(* of its delta behind the cursor, and merges it with the base slots; the  *)
(* cursor it leaves is made from the hashes of a name, so the next call    *)
(* may find names created, removed, or compacted into another generation.  *)
(***************************************************************************)
EXTENDS Naturals, FiniteSets, Sequences, Functions

CONSTANTS DirName,    \* names, as numbers: memcmp orders them as <= does
          HashKey,    \* values of (hash32, high half of the tiebreak)
          LastCursor, \* S64_MAX - EXT5_COOKIE_FIRST_REAL - 1
          Collide,    \* whether two names may agree in all 64 hashed bits
          Room,       \* entries a caller's buffer may take
          MaxChanges  \* bound: creations and removals

ASSUME ReaddirAssumption ==
  /\ DirName \subseteq Nat /\ IsFiniteSet(DirName)
  /\ HashKey \subseteq Nat /\ LastCursor \in Nat
  /\ Collide \in BOOLEAN /\ Room \subseteq Nat \ {0} /\ MaxChanges \in Nat

VARIABLES
  hashOf,   \* the hash key of each name
  isRoot,   \* the directory is the root, whose i_rwsem a compaction takes
  listed,   \* per installed generation: its slots and delta of this directory
  snapshot, \* the running compaction: [on, slots, since]
  call,     \* the getdents call of the one reader
  got,      \* history: the names emitted so far, with repetitions
  stayed,   \* history: names present since the reader opened the directory
  changes,  \* history: creations and removals so far
  wrong     \* history: a name was emitted that the directory did not hold

readdirVars == <<hashOf, isRoot, listed, snapshot, call, got, stayed,
                 changes, wrong>>

NoSnapshot == [on |-> FALSE, slots |-> <<>>, since |-> {}]
Ops == {"insert", "delete"}
NewBlob(s) == [slots |-> s, ops |-> [n \in {} |-> "insert"]]
Installed == listed[Len(listed)]
Holds(blob) ==
  {n \in DirName : IF n \in DOMAIN blob.ops THEN blob.ops[n] = "insert"
                   ELSE \E i \in DOMAIN blob.slots : blob.slots[i] = n}
Listing == Holds(Installed)

Before(m, n) == hashOf[m] < hashOf[n] \/ (hashOf[m] = hashOf[n] /\ m < n)

(* The orders in which the names of S can be slots.                        *)
Arrangements(S) == {q \in [1..Cardinality(S) -> S] : Range(q) = S}

ReaddirInit ==
  /\ hashOf \in [DirName -> HashKey]
  /\ Collide \/ \A m, n \in DirName : hashOf[m] = hashOf[n] => m = n
  /\ isRoot \in BOOLEAN
  /\ stayed \in SUBSET DirName
  /\ \E q \in Arrangements(stayed) :
       /\ \A i, j \in DOMAIN q : i < j => Before(q[i], q[j])
       /\ listed = <<NewBlob(q)>>
  /\ snapshot = NoSnapshot
  /\ call = [pc |-> "idle", gen |-> 1, b |-> 1, delta |-> {}, room |-> 0,
             pos |-> 0, any |-> FALSE]
  /\ got = <<>>
  /\ changes = 0
  /\ wrong = FALSE

-----------------------------------------------------------------------------
(* ext5_create and ext5_unlink hold i_rwsem, which a getdents call shares. *)
DirFree == call.pc \in {"idle", "end"}

Change(ops, since, now) ==
  /\ changes < MaxChanges
  /\ changes' = changes + 1
  /\ listed' = [listed EXCEPT ![Len(listed)].ops = ops]
  /\ snapshot' = [snapshot EXCEPT !.since = since]
  /\ stayed' = stayed \cap now
  /\ UNCHANGED <<hashOf, isRoot, call, got, wrong>>

With(f, n, op) == [m \in DOMAIN f \cup {n} |-> IF m = n THEN op ELSE f[m]]
Without(f, n) == [m \in DOMAIN f \ {n} |-> f[m]]
Noted(n) == IF snapshot.on THEN snapshot.since \cup {n} ELSE {}

(* ext5_stable_append_delta of an INSERT or a DELETE: the record replaces  *)
(* the one of the same name in delta.by_key.                               *)
CreateEntry(n) ==
  /\ DirFree
  /\ n \notin Listing
  /\ Change(With(Installed.ops, n, "insert"), Noted(n), Listing \cup {n})

RemoveEntry(n) ==
  /\ DirFree
  /\ n \in Listing
  /\ Change(With(Installed.ops, n, "delete"), Noted(n), Listing \ {n})

(* A DELETE of the newest record, an INSERT of a name the base has not and *)
(* no running compaction has captured, takes the record back.              *)
CancelEntry(n) ==
  /\ DirFree
  /\ n \in Listing /\ n \in DOMAIN Installed.ops
  /\ n \notin Range(Installed.slots)
  /\ snapshot.on => n \in snapshot.since \ Range(snapshot.slots)
  /\ Change(Without(Installed.ops, n), snapshot.since \ {n}, Listing \ {n})

-----------------------------------------------------------------------------
(* What __ext5_compact_subtree collects: the base slots that no DELETE      *)
(* removes, and the INSERTs of names the base has not.                     *)
Collected(blob) ==
  {n \in Range(blob.slots) : n \in DOMAIN blob.ops => blob.ops[n] = "insert"}
  \cup {n \in DOMAIN blob.ops : blob.ops[n] = "insert"}

(* The two runs are merged on the hashes alone; names that agree in them    *)
(* come base first, the base in its order and the INSERTs in the tree's.    *)
MergedBefore(base, m, n) ==
  \/ hashOf[m] < hashOf[n]
  \/ /\ hashOf[m] = hashOf[n]
     /\ \/ m \in Range(base) /\ n \notin Range(base)
        \/ \E i, j \in DOMAIN base : i < j /\ base[i] = m /\ base[j] = n
        \/ m \notin Range(base) /\ n \notin Range(base) /\ m < n

CompactCapture ==
  /\ ~snapshot.on
  /\ Len(listed) < 2
  /\ \E q \in Arrangements(Collected(Installed)) :
       /\ \A i, j \in DOMAIN q :
            i < j => MergedBefore(Installed.slots, q[i], q[j])
       /\ snapshot' = [on |-> TRUE, slots |-> q, since |-> {}]
  /\ UNCHANGED <<hashOf, isRoot, listed, call, got, stayed, changes, wrong>>

(* Mutant: the records appended meanwhile are not copied.                  *)
CompactInstallNoTail ==
  /\ snapshot.on
  /\ isRoot => DirFree
  /\ listed' = Append(listed, NewBlob(snapshot.slots))
  /\ snapshot' = NoSnapshot
  /\ UNCHANGED <<hashOf, isRoot, call, got, stayed, changes, wrong>>

(* Publication takes the i_rwsem of the root, not of its interiors.        *)
CompactInstall ==
  /\ snapshot.on
  /\ isRoot => DirFree
  /\ listed' = Append(listed,
       [slots |-> snapshot.slots,
        ops |-> [n \in snapshot.since |-> Installed.ops[n]]])
  /\ snapshot' = NoSnapshot
  /\ UNCHANGED <<hashOf, isRoot, call, got, stayed, changes, wrong>>

-----------------------------------------------------------------------------
SmallerOf(x, y) == IF x <= y THEN x ELSE y

(* ext5_cookie_encode; 0 and 1 stand for "." and "..", emitted before.     *)
Encode(key) == SmallerOf(key \div 2, LastCursor) + 2

(* ext5_cookie_decode: the dropped bit comes back as 0.                    *)
Decode(pos) == IF pos < 2 THEN 0 ELSE 2 * (pos - 2)

UnchangedByReader == UNCHANGED <<hashOf, isRoot, listed, snapshot, stayed,
                                 changes>>

(* ext5_stable_base_lower_bound finds the b that parts the slots so.       *)
IsLowerBound(b, s, pos) ==
  \A i \in DOMAIN s : i < b <=> hashOf[s[i]] < Decode(pos)

(* A call takes a reference to the installed blob and seeks to its cursor. *)
CallPins(room) ==
  /\ call.pc = "idle"
  /\ \E b \in 1..Len(Installed.slots) + 1 :
       /\ IsLowerBound(b, Installed.slots, call.pos)
       /\ call' = [call EXCEPT !.pc = "pinned", !.gen = Len(listed),
                               !.room = room, !.b = b, !.any = FALSE]
  /\ UnchangedByReader
  /\ UNCHANGED <<got, wrong>>

(* Mutant: the copy is taken from whatever blob is installed by now.       *)
CallCopiesNewest ==
  /\ call.pc = "pinned"
  /\ call' = [call EXCEPT !.pc = "merge", !.delta =
       {n \in DOMAIN Installed.ops : hashOf[n] >= Decode(call.pos)}]
  /\ UnchangedByReader
  /\ UNCHANGED <<got, wrong>>

(* Then it copies the delta entries behind the cursor, under i_li_lock.    *)
CallCopies ==
  /\ call.pc = "pinned"
  /\ call' = [call EXCEPT !.pc = "merge", !.delta =
       {n \in DOMAIN listed[call.gen].ops : hashOf[n] >= Decode(call.pos)}]
  /\ UnchangedByReader
  /\ UNCHANGED <<got, wrong>>

BaseLeft == call.b \in DOMAIN listed[call.gen].slots
BaseNext == listed[call.gen].slots[call.b]
DeltaLeft == call.delta # {}
DeltaNext == CHOOSE n \in call.delta : \A m \in call.delta : ~Before(m, n)

(* The two-pointer merge: whether the base entry, the delta entry or both  *)
(* are consumed next.                                                      *)
TakeBase == BaseLeft /\ (DeltaLeft => ~Before(DeltaNext, BaseNext))
TakeDelta == DeltaLeft /\ (BaseLeft => ~Before(BaseNext, DeltaNext))

Advanced(c) == [c EXCEPT !.b = IF TakeBase THEN @ + 1 ELSE @,
                         !.delta = IF TakeDelta THEN @ \ {DeltaNext} ELSE @]

(* A deleted name is passed over ...                                       *)
CallSkips ==
  /\ call.pc = "merge"
  /\ TakeDelta /\ listed[call.gen].ops[DeltaNext] = "delete"
  /\ call' = Advanced(call)
  /\ UnchangedByReader
  /\ UNCHANGED <<got, wrong>>

MergeEmits == /\ call.pc = "merge"
              /\ TakeBase \/ TakeDelta
              /\ TakeDelta => listed[call.gen].ops[DeltaNext] = "insert"
Emitted == IF TakeDelta THEN DeltaNext ELSE BaseNext

(* ... the others go to the caller, and the cursor moves behind them.      *)
CallEmits ==
  /\ MergeEmits
  /\ call.room > 0
  /\ call' = [Advanced(call) EXCEPT !.room = @ - 1, !.any = TRUE,
                                    !.pos = Encode(hashOf[Emitted]) + 1]
  /\ got' = Append(got, Emitted)
  /\ wrong' = (wrong \/ Emitted \notin Listing)
  /\ UnchangedByReader

(* Mutant: a full buffer leaves the cursor behind the name it refused.     *)
CallFullsPast ==
  /\ MergeEmits
  /\ call.room = 0
  /\ call' = [call EXCEPT !.pc = "idle", !.pos = Encode(hashOf[Emitted]) + 1,
                          !.delta = {}]
  /\ UnchangedByReader
  /\ UNCHANGED <<got, wrong>>

(* dir_emit refuses: the cursor stays at this name.                        *)
CallFulls ==
  /\ MergeEmits
  /\ call.room = 0
  /\ call' = [call EXCEPT !.pc = "idle", !.pos = Encode(hashOf[Emitted]),
                          !.delta = {}]
  /\ UnchangedByReader
  /\ UNCHANGED <<got, wrong>>

(* Nothing is left: a call that emitted nothing ends the listing.          *)
CallEnds ==
  /\ call.pc = "merge"
  /\ ~TakeBase /\ ~TakeDelta
  /\ call' = [call EXCEPT !.pc = IF call.any THEN "idle" ELSE "end"]
  /\ UnchangedByReader
  /\ UNCHANGED <<got, wrong>>

ReaddirNext ==
  \/ \E n \in DirName : CreateEntry(n) \/ RemoveEntry(n) \/ CancelEntry(n)
  \/ CompactCapture \/ CompactInstall
  \/ \E r \in Room : CallPins(r)
  \/ CallCopies \/ CallSkips \/ CallEmits \/ CallFulls \/ CallEnds

ReaddirSpec == ReaddirInit /\ [][ReaddirNext]_readdirVars

-----------------------------------------------------------------------------
(* The types of the variables.                                             *)
ReaddirTypeOK ==
  /\ hashOf \in [DirName -> HashKey]
  /\ isRoot \in BOOLEAN
  /\ \A g \in DOMAIN listed :
       /\ listed[g].slots \in Seq(DirName)
       /\ DOMAIN listed[g].ops \subseteq DirName
       /\ Range(listed[g].ops) \subseteq Ops
  /\ snapshot.on \in BOOLEAN /\ snapshot.slots \in Seq(DirName)
  /\ snapshot.since \subseteq DirName
  /\ call.pc \in {"idle", "pinned", "merge", "end"}
  /\ call.gen \in DOMAIN listed /\ call.b \in Nat /\ call.room \in Nat
  /\ call.delta \subseteq DirName /\ call.pos \in Nat /\ call.any \in BOOLEAN
  /\ got \in Seq(DirName)
  /\ stayed \subseteq DirName
  /\ changes \in 0..MaxChanges
  /\ wrong \in BOOLEAN

(* A listing that has come to its end gave every name that was there all   *)
(* the while, whatever was created, removed or compacted between and       *)
(* during its calls: cookies mean the same in every generation, and a      *)
(* cursor that two names share never hides the second one.  And a name      *)
(* given to the caller is in the directory while the call gives it: the     *)
(* slots and the delta copy are of one generation, and a removal wins over *)
(* the slot it removes.                                                    *)
ListingFaithful ==
  /\ call.pc = "end" => stayed \subseteq Range(got)
  /\ ~wrong
=============================================================================
