------------------------------ MODULE Demotion ------------------------------
(***************************************************************************)
(* Taking a stable root, or one branch of it, back to conventional         *)
(* directories while it is in use: __ext5_demote_subtree.  A pinned        *)
(* generation and a clone of its delta are captured and rebuilt as shadow  *)
(* directories without a lock; publication locks the captured tree and     *)
(* compares the blob and its next sequence number with the clone's, swaps  *)
(* one directory per journal handle, the root last, and may stop anywhere. *)
(***************************************************************************)
EXTENDS Naturals, Sequences

CONSTANTS Root,      \* the stable root
          Interior,  \* its interior directories
          File,      \* names of everything else
          MaxDelta,  \* bound: records in the delta
          MaxBlob    \* bound: blobs installed one after another

ASSUME DemotionAssumption ==
  /\ Root \notin Interior /\ Interior \cap File = {}
  /\ MaxDelta \in Nat /\ MaxBlob \in Nat

VARIABLES
  ns,       \* history: the namespace, as the callers were told
  mode,     \* per directory: "stable" while its route or root flag is set
  dirent,   \* per directory: its conventional entries
  base,     \* the payload of the newest generation
  delta,    \* its live records; next_seq is seq_base + Len(delta) + 1
  blobId,   \* which ext5_stable_blob is installed
  staging,  \* i_li_compact_staging
  dem,      \* the demotion
  frozen,   \* directories whose i_rwsem the demotion holds
  stranded, \* history: one stopped between a directory and its child
  slipped   \* history: a check passed although the delta had changed

demVars == <<ns, mode, dirent, base, delta, blobId, staging, dem, frozen,
             stranded, slipped>>

Dirs == {Root} \cup Interior
Entries == Interior \cup File
Contents == [Dirs -> SUBSET Entries]
Change == [op : {"insert", "delete"}, dir : Dirs, name : Entries]

DemoteCall == [pc : {"idle", "pinned", "cloned", "built", "rooted", "locked",
                     "valid", "final"},
               target : Dirs, blob : Nat, seq : Nat, old : Contents,
               walk : SUBSET Dirs]
NoDemotion == [pc |-> "idle", target |-> Root, blob |-> 0, seq |-> 0,
               old |-> [d \in Dirs |-> {}], walk |-> {}]

(* Every interior lies below the root at first.                            *)
DemotionInit ==
  /\ ns = [d \in Dirs |-> IF d = Root THEN Interior ELSE {}]
  /\ mode = [d \in Dirs |-> "stable"]
  /\ dirent = [d \in Dirs |-> {}]
  /\ base = ns
  /\ delta = <<>>
  /\ blobId = 0
  /\ staging = FALSE
  /\ dem = NoDemotion
  /\ frozen = {}
  /\ stranded = FALSE
  /\ slipped = FALSE

-----------------------------------------------------------------------------
Binds(r, d, e) == r.dir = d /\ r.name = e

(* demote_capture_plid: an entry of the base that no record of the delta   *)
(* overrides, or one whose newest record inserts it, per directory.        *)
Merge(b, log) ==
  [d \in Dirs |-> {e \in Entries :
     \/ e \in b[d] /\ \A i \in 1..Len(log) : ~Binds(log[i], d, e)
     \/ \E i \in 1..Len(log) :
          /\ Binds(log[i], d, e) /\ log[i].op = "insert"
          /\ \A j \in i + 1..Len(log) : ~Binds(log[j], d, e)}]

Merged == Merge(base, delta)

(* What a lookup in d finds.                                               *)
Visible(d) == IF mode[d] = "stable" THEN Merged[d] ELSE dirent[d]

(* x and what its children lead to: in every set that has x and, with a    *)
(* directory, the children of it.                                          *)
ClosedUnder(kids, S) == \A d \in S : kids[d] \subseteq S

Reach(kids, x) ==
  {y \in Dirs : \A S \in SUBSET Dirs : x \in S /\ ClosedUnder(kids, S) => y \in S}

(* The directories below x, x included.                                    *)
Children(c) == [d \in Dirs |-> c[d] \cap Interior]
Below(c, x) == Reach(Children(c), x)

(* demote_resolve_interior_inodes and demote_discover_direct_children      *)
(* follow the captured entries to children still routed to this root.      *)
Routed(c) == [d \in Dirs |-> {y \in c[d] \cap Interior : mode[y] = "stable"}]
Resolve(c, x) == Reach(Routed(c), x)

(* demote_create_shadow: the entries captured for d, as directory blocks.  *)
Shadow(d) == dem.old[d]

-----------------------------------------------------------------------------
Record(op, d, e) == [op |-> op, dir |-> d, name |-> e]

(* ext5_stable_append_delta: a DELETE of the newest INSERT, of a name that *)
(* was absent, takes the record back and rewinds next_seq.                 *)
Cancels(d, e) ==
  /\ delta # <<>>
  /\ delta[Len(delta)] = Record("insert", d, e)
  /\ \A i \in 1..(Len(delta) - 1) : ~Binds(delta[i], d, e)

Unlog(d, e) ==
  IF Cancels(d, e) THEN SubSeq(delta, 1, Len(delta) - 1)
  ELSE Append(delta, Record("delete", d, e))

UnchangedByNames == UNCHANGED <<mode, base, blobId, staging, dem, frozen,
                                stranded, slipped>>

(* ext5_create, ext5_unlink and their kin, in either kind of directory,    *)
(* with its i_rwsem held.                                                  *)
AddName(d, f) ==
  /\ d \notin frozen
  /\ f \notin ns[d]
  /\ ns' = [ns EXCEPT ![d] = @ \cup {f}]
  /\ IF mode[d] = "stable"
     THEN /\ Len(delta) < MaxDelta
          /\ delta' = Append(delta, Record("insert", d, f))
          /\ UNCHANGED dirent
     ELSE dirent' = [dirent EXCEPT ![d] = @ \cup {f}] /\ UNCHANGED delta
  /\ UnchangedByNames

DropName(d, f) ==
  /\ d \notin frozen
  /\ f \in ns[d]
  /\ ns' = [ns EXCEPT ![d] = @ \ {f}]
  /\ IF mode[d] = "stable"
     THEN /\ Len(Unlog(d, f)) <= MaxDelta
          /\ delta' = Unlog(d, f)
          /\ UNCHANGED dirent
     ELSE dirent' = [dirent EXCEPT ![d] = @ \ {f}] /\ UNCHANGED delta
  /\ UnchangedByNames

(* ext5_stable_rename_links: a directory moves inside its root; the VFS    *)
(* refuses to move it below itself.                                        *)
MoveDir(x, a, b) ==
  /\ a # b
  /\ {a, b} \cap frozen = {}
  /\ mode[a] = "stable" /\ mode[b] = "stable"
  /\ x \in ns[a]
  /\ b \notin Below(ns, x)
  /\ Len(delta) + 2 <= MaxDelta
  /\ ns' = [ns EXCEPT ![a] = @ \ {x}, ![b] = @ \cup {x}]
  /\ delta' = delta \o <<Record("insert", b, x), Record("delete", a, x)>>
  /\ UNCHANGED dirent
  /\ UnchangedByNames

-----------------------------------------------------------------------------
(* Eviction and a new parse: the same generation, another blob.            *)
Reparse ==
  /\ mode[Root] = "stable"
  /\ ~staging
  /\ blobId < MaxBlob
  /\ blobId' = blobId + 1
  /\ UNCHANGED <<ns, mode, dirent, base, delta, staging, dem, frozen, stranded,
                 slipped>>

CompactStages ==
  /\ mode[Root] = "stable"
  /\ ~staging
  /\ delta # <<>>
  /\ staging' = TRUE
  /\ UNCHANGED <<ns, mode, dirent, base, delta, blobId, dem, frozen, stranded,
                 slipped>>

(* ext5_stable_compact publishes under the root's i_rwsem.                 *)
CompactSwaps ==
  /\ staging
  /\ Root \notin frozen
  /\ mode[Root] = "stable"
  /\ blobId < MaxBlob
  /\ base' = Merged
  /\ delta' = <<>>
  /\ blobId' = blobId + 1
  /\ staging' = FALSE
  /\ UNCHANGED <<ns, mode, dirent, dem, frozen, stranded, slipped>>

CompactGivesUp ==
  /\ staging
  /\ staging' = FALSE
  /\ UNCHANGED <<ns, mode, dirent, base, delta, blobId, dem, frozen, stranded,
                 slipped>>

-----------------------------------------------------------------------------
Rest == UNCHANGED <<ns, base, delta, blobId, staging, stranded>>

(* The whole root, or a branch that is still routed to it: pin the blob.   *)
DemotePins(x) ==
  /\ dem.pc = "idle"
  /\ mode[Root] = "stable" /\ mode[x] = "stable"
  /\ ~staging
  /\ dem' = [NoDemotion EXCEPT !.pc = "pinned", !.target = x,
                               !.blob = blobId]
  /\ UNCHANGED <<mode, dirent, frozen, slipped>> /\ Rest

(* compact_clone_delta, if the pinned blob is still installed.             *)
DemoteClones ==
  /\ dem.pc = "pinned"
  /\ dem.blob = blobId
  /\ dem' = [dem EXCEPT !.pc = "cloned", !.seq = Len(delta), !.old = Merged]
  /\ UNCHANGED <<mode, dirent, frozen, slipped>> /\ Rest

(* Capture, resolve, and build and flush the shadows.                      *)
DemoteBuilds ==
  /\ dem.pc = "cloned"
  /\ dem' = [dem EXCEPT !.pc = "built", !.walk = Resolve(dem.old, dem.target)]
  /\ UNCHANGED <<mode, dirent, frozen, slipped>> /\ Rest

(* Mutant: only the blob is compared.                                      *)
SourceSameBlob == dem.blob = blobId /\ ~staging

(* The validation, made three times.                                       *)
SourceSame ==
  /\ dem.blob = blobId
  /\ ~staging
  /\ Len(delta) = dem.seq

(* History: the delta is another one of the same length.                   *)
Slips ==
  slipped' = (slipped \/ (Len(delta) = dem.seq /\ Merged # dem.old))

(* s_vfs_rename_mutex and the root's i_rwsem, then the first check.        *)
DemoteLocksRoot ==
  /\ dem.pc = "built"
  /\ SourceSame
  /\ frozen' = {Root}
  /\ dem' = [dem EXCEPT !.pc = "rooted"]
  /\ Slips
  /\ UNCHANGED <<mode, dirent>> /\ Rest

(* demote_lock_interiors in captured order, waiting for their holders.     *)
DemoteLocksInteriors ==
  /\ dem.pc = "rooted"
  /\ frozen' = frozen \cup dem.walk
  /\ dem' = [dem EXCEPT !.pc = "locked"]
  /\ UNCHANGED <<mode, dirent, slipped>> /\ Rest

DemoteValidates ==
  /\ dem.pc = "locked"
  /\ SourceSame
  /\ dem' = [dem EXCEPT !.pc = "valid"]
  /\ Slips
  /\ UNCHANGED <<mode, dirent, frozen>> /\ Rest

(* demote_publish_interior_shadow, one journal handle each.                *)
DemotePublishesInterior(d) ==
  /\ dem.pc = "valid"
  /\ d \in dem.walk \ {Root}
  /\ mode[d] = "stable"
  /\ mode' = [mode EXCEPT ![d] = "conventional"]
  /\ dirent' = [dirent EXCEPT ![d] = Shadow(d)]
  /\ UNCHANGED <<dem, frozen, slipped>> /\ Rest

(* Mutant: the last check may run before the interiors are published.      *)
DemoteFinalEarly ==
  /\ dem.pc = "valid"
  /\ SourceSame
  /\ IF dem.target = Root
     THEN dem' = [dem EXCEPT !.pc = "final"] /\ UNCHANGED frozen
     ELSE dem' = NoDemotion /\ frozen' = {}
  /\ Slips
  /\ UNCHANGED <<mode, dirent>> /\ Rest

(* The last check; a branch is done then.                                  *)
DemoteFinal ==
  /\ dem.pc = "valid"
  /\ \A d \in dem.walk \ {Root} : mode[d] = "conventional"
  /\ SourceSame
  /\ IF dem.target = Root
     THEN dem' = [dem EXCEPT !.pc = "final"] /\ UNCHANGED frozen
     ELSE dem' = NoDemotion /\ frozen' = {}
  /\ Slips
  /\ UNCHANGED <<mode, dirent>> /\ Rest

(* demote_publish_root_shadow, the blob detached.                          *)
DemotePublishesRoot ==
  /\ dem.pc = "final"
  /\ mode' = [mode EXCEPT ![Root] = "conventional"]
  /\ dirent' = [dirent EXCEPT ![Root] = Shadow(Root)]
  /\ dem' = NoDemotion
  /\ frozen' = {}
  /\ UNCHANGED slipped /\ Rest

(* A check, an allocation or a journal handle fails: what is published     *)
(* stays, the rest remains stable.                                         *)
DemoteGivesUp ==
  /\ dem.pc # "idle"
  /\ dem' = NoDemotion
  /\ frozen' = {}
  /\ stranded' = (stranded \/ \E d \in Interior :
                     /\ mode[d] = "conventional"
                     /\ \E x \in dirent[d] \cap Interior : mode[x] = "stable")
  /\ UNCHANGED <<ns, base, delta, blobId, staging, mode, dirent, slipped>>

-----------------------------------------------------------------------------
DemotionNext ==
  \/ \E d \in Dirs, f \in File : AddName(d, f) \/ DropName(d, f)
  \/ \E x \in Interior, a, b \in Dirs : MoveDir(x, a, b)
  \/ Reparse \/ CompactStages \/ CompactSwaps \/ CompactGivesUp
  \/ \E x \in Dirs : DemotePins(x) \/ DemotePublishesInterior(x)
  \/ DemoteClones \/ DemoteBuilds \/ DemoteLocksRoot \/ DemoteLocksInteriors
  \/ DemoteValidates \/ DemoteFinal \/ DemotePublishesRoot \/ DemoteGivesUp

DemotionSpec == DemotionInit /\ [][DemotionNext]_demVars

-----------------------------------------------------------------------------
(* Every variable has its type.                                            *)
DemotionTypeOK ==
  /\ ns \in Contents /\ dirent \in Contents /\ base \in Contents
  /\ mode \in [Dirs -> {"stable", "conventional"}]
  /\ delta \in Seq(Change) /\ Len(delta) <= MaxDelta
  /\ blobId \in 0..MaxBlob
  /\ {staging, slipped, stranded} \subseteq BOOLEAN
  /\ dem \in DemoteCall
  /\ frozen \subseteq Dirs

Unharmed == ~slipped /\ ~stranded

(* While directories convert one by one, names change around them and a    *)
(* demotion stops half way, a lookup in any directory finds the namespace, *)
(* but for a delta that a cancelled record and a new one of its sequence   *)
(* number changed under a check that passed (demote_publish_*_shadow).     *)
(* And a directory routed to the root never outlives it:                   *)
(* __ext5_demote_subtree converts every interior that is left before the   *)
(* root, unless an earlier one stopped between a directory and its child.  *)
LookupsFindNamespace ==
  Unharmed =>
    /\ \A d \in Dirs : Visible(d) = ns[d]
    /\ mode[Root] = "conventional"
         => \A d \in Interior : mode[d] = "conventional"

(* What the comment above __ext5_demote_subtree says of the validation: it *)
(* never lets a changed delta pass.                                        *)
ValidationExact == ~slipped
=============================================================================
