------------------------------- MODULE HashTree -------------------------------
(* One mutable directory: its single block, or the leaves of its htree,    *)
(* built in one go by a demotion and then changed name by name (namei.c),  *)
(* while a file open on it lists the names in hash order over many calls   *)
(* (dir.c).  i_rwsem makes every operation and every call a step.  Names   *)
(* are of one length, so a leaf is a set of names; "." and ".." and the    *)
(* directories without an index are left out.                              *)
EXTENDS Integers, Sequences, SequencesExt, FiniteSets, FiniteSetsExt

CONSTANTS
  Entry,      \* names
  Hash,       \* name -> its major hash, even
  Minor,      \* name -> its minor hash
  LeafSpace,  \* names a block has room for
  RootSpace,  \* entries of the root
  NodeSpace,  \* entries of an index block below it
  EndOfHash,  \* ~0, greater than every hash
  MaxEdits    \* names added and deleted

ASSUME HashTreeAssumption ==
  /\ \A n \in Entry : Hash[n] \in 0..15 /\ Hash[n] % 2 = 0
  /\ EndOfHash > 16
  /\ LeafSpace > 1 /\ RootSpace > 1 /\ NodeSpace >= RootSpace

VARIABLES
  htree,    \* [indexed, depth, nodes]: a node has a hash, from which it is
            \* responsible, and leaves, which have a hash and names
  present,  \* the names that were added and not deleted
  file,     \* dir_private_info of the open file, and what it has emitted
  edits     \* how many names were added and deleted

hashTreeVars == <<htree, present, file, edits>>

Leaf(hash, names) == [hash |-> hash, names |-> names]
OneBlock(names) ==
  [indexed |-> FALSE, depth |-> 0,
   nodes |-> <<[hash |-> 0, leaves |-> <<Leaf(0, names)>>]>>]

Names(t, p) == t.nodes[p[1]].leaves[p[2]].names
WithNames(t, p, names) == [t EXCEPT !.nodes[p[1]].leaves[p[2]].names = names]

-----------------------------------------------------------------------------
(* dx_probe: in each block the last entry not above the hash; the first    *)
(* one has none of its own.                                                *)
LastNotAbove(entries, h) ==
  Max({1} \cup {k \in DOMAIN entries : k > 1 /\ entries[k].hash <= h})

Probe(t, h) ==
  LET i == LastNotAbove(t.nodes, h)
  IN <<i, LastNotAbove(t.nodes[i].leaves, h)>>

(* ext5_htree_next_block: the leaf behind p, and the hash that leads to it.*)
AtEnd(t, p) == p = <<Len(t.nodes), Len(Last(t.nodes).leaves)>>
NextBlock(t, p) ==
  IF p[2] < Len(t.nodes[p[1]].leaves) THEN <<p[1], p[2] + 1>>
  ELSE <<p[1] + 1, 1>>
Boundary(t, p) ==
  IF p[2] > 1 THEN t.nodes[p[1]].leaves[p[2]].hash ELSE t.nodes[p[1]].hash
Continued(hash) == hash % 2 = 1

(* ext5_dx_find_entry: on while the next leaf continues the same hash.     *)
RECURSIVE FindFrom(_, _, _)
FindFrom(t, p, n) ==
  IF n \in Names(t, p) THEN {p}
  ELSE IF AtEnd(t, p) THEN {}
  ELSE LET next == NextBlock(t, p)
       IN IF Boundary(t, next) \in {Hash[n], Hash[n] + 1}
          THEN FindFrom(t, next, n) ELSE {}

FindEntry(t, n) == FindFrom(t, Probe(t, Hash[n]), n)

(* ext5_htree_mark_live_leaf_blocks: what a promotion reads.               *)
LiveLeaves(t) ==
  UNION {{<<i, j>> : j \in DOMAIN t.nodes[i].leaves} : i \in DOMAIN t.nodes}

-----------------------------------------------------------------------------
(* do_split: the upper part of the sorted names moves to a new leaf, and if*)
(* a hash is in both its boundary says so.  Names with one hash come in any*)
(* order.                                                                  *)
Moved(count) ==
  LET half == (LeafSpace + 1) \div 2
  IN IF count > half THEN half ELSE count - count \div 2

UpperParts(names) ==
  {up \in kSubset(Moved(Cardinality(names)), names) :
     \A m \in up, n \in names \ up : Hash[m] >= Hash[n]}

(* Mutant: a hash that is in both leaves is not marked as continued.       *)
BoundaryPlain(low, hash) == hash

BoundaryOf(low, hash) ==
  IF \E n \in low : Hash[n] = hash THEN hash + 1 ELSE hash

Split(t, p, n) ==
  {LET low == Names(t, p) \ up
       hash2 == Min({Hash[m] : m \in up})
       moves == Hash[n] >= hash2
       new == Leaf(BoundaryOf(low, hash2), IF moves THEN up \cup {n} ELSE up)
   IN [t EXCEPT !.nodes[p[1]].leaves =
         InsertAt([@ EXCEPT ![p[2]].names = IF moves THEN low ELSE low \cup {n}],
                  p[2] + 1, new)]
     : up \in UpperParts(Names(t, p))}

(* make_indexed_dir: the block's names become a leaf, which is split.      *)
MadeIndexed(t) == [t EXCEPT !.indexed = TRUE]

(* ext5_dx_add_entry: a full root gets a level below it, a full block below*)
(* the root is divided.                                                    *)
Deepened(t) == [t EXCEPT !.depth = 1]

NodeSplit(t, i) ==
  LET leaves == t.nodes[i].leaves
      first == Len(leaves) \div 2
  IN [t EXCEPT !.nodes =
        InsertAt([@ EXCEPT ![i].leaves = SubSeq(leaves, 1, first)], i + 1,
                 [hash |-> leaves[first + 1].hash,
                  leaves |-> SubSeq(leaves, first + 1, Len(leaves))])]

PathAfter(p, first) ==
  IF p[2] <= first THEN p ELSE <<p[1] + 1, p[2] - first>>

IndexSpace(t) == IF t.depth = 0 THEN RootSpace ELSE NodeSpace

RECURSIVE Added(_, _)
Added(t, n) ==
  LET p == Probe(t, Hash[n])
      count == Len(t.nodes[p[1]].leaves)
  IN CASE Cardinality(Names(t, p)) < LeafSpace ->
            {WithNames(t, p, Names(t, p) \cup {n})}
       [] Cardinality(Names(t, p)) = LeafSpace /\ ~t.indexed ->
            Split(MadeIndexed(t), p, n)
       [] Cardinality(Names(t, p)) = LeafSpace /\ t.indexed
            /\ count < IndexSpace(t) -> Split(t, p, n)
       [] Cardinality(Names(t, p)) = LeafSpace /\ t.indexed
            /\ count = IndexSpace(t) /\ t.depth = 0 -> Added(Deepened(t), n)
       [] Cardinality(Names(t, p)) = LeafSpace /\ t.indexed
            /\ count = IndexSpace(t) /\ t.depth = 1
            /\ Len(t.nodes) < RootSpace ->
            Split(NodeSplit(t, p[1]), PathAfter(p, count \div 2), n)
       [] OTHER -> {}   \* the index is full

-----------------------------------------------------------------------------
(* ext5_bulk_radix_sort: two stable passes, by the low and the high half of*)
(* the hash.                                                               *)
Digits(n) == <<Hash[n] % 4, Hash[n] \div 4>>
Pass(work, d) ==
  FlattenSeq([digit \in 1..4 |->
    SelectSeq(work, LAMBDA n : Digits(n)[d] = digit - 1)])
RadixSorted(work) == Pass(Pass(work, 1), 2)

(* ext5_dir_rebuild_bulk: leaves filled to three quarters ...              *)
LeafTarget == LeafSpace - LeafSpace \div 4
Chunks(seq, size) ==
  [k \in 1..((Len(seq) + size - 1) \div size) |->
     SubSeq(seq, (k - 1) * size + 1,
            IF k * size < Len(seq) THEN k * size ELSE Len(seq))]

BulkLeaves(work) ==
  LET chunks == Chunks(work, LeafTarget)
      low(k) == IF k = 1 THEN {} ELSE {Last(chunks[k - 1])}
  IN [k \in DOMAIN chunks |->
        Leaf(BoundaryOf(low(k), Hash[chunks[k][1]]), ToSet(chunks[k]))]

(* ... below the root, or below blocks that are; few names need none.      *)
BulkNodes(leaves) ==
  LET groups == IF Len(leaves) <= RootSpace THEN <<leaves>>
                ELSE Chunks(leaves, NodeSpace)
  IN [i \in DOMAIN groups |-> [hash |-> groups[i][1].hash, leaves |-> groups[i]]]

Rebuilt(work) ==
  LET leaves == BulkLeaves(RadixSorted(work))
  IN IF Len(work) <= LeafSpace THEN OneBlock(ToSet(work))
     ELSE [indexed |-> TRUE, depth |-> IF Len(leaves) > RootSpace THEN 1 ELSE 0,
           nodes |-> BulkNodes(leaves)]

RebuiltDirs == {t \in {Rebuilt(work) : work \in
                         UNION {SetToSeqs(names) : names \in SUBSET Entry}} :
                  Len(t.nodes) <= RootSpace}

-----------------------------------------------------------------------------
(* dir_private_info: the place to read from (curr_hash, curr_minor_hash),  *)
(* the chain that did not fit (extra_fname; without one the next call reads*)
(* anew), the rest of the names read, next_hash, whether the directory has *)
(* changed since; and of the listing, the names emitted, those emitted     *)
(* twice, those that were there all the time and those that ever were.     *)
KeyOf(n) == <<Hash[n], Minor[n]>>
KeyBefore(a, b) == a[1] < b[1] \/ (a[1] = b[1] /\ a[2] < b[2])
From(names, key) == {n \in names : ~KeyBefore(KeyOf(n), key)}

Opened(names) ==
  [curr |-> <<0, 0>>, extra |-> {}, rest |-> {}, next |-> 0, stale |-> FALSE,
   eof |-> FALSE, reopened |-> FALSE,
   got |-> {}, twice |-> {}, stayed |-> names, ever |-> names]

(* Mutant: a continued hash does not keep the scan going.                  *)
StopsEarly(names, hash) == names # {}

Stops(names, hash) == names # {} /\ ~Continued(hash)

(* ext5_htree_fill_tree: leaf by leaf, until one has names and the next is *)
(* no continuation.                                                        *)
RECURSIVE FillFrom(_, _, _, _)
FillFrom(t, p, key, names) ==
  LET all == names \cup From(Names(t, p), key)
      hash == Boundary(t, NextBlock(t, p))
  IN IF AtEnd(t, p) THEN [names |-> all, next |-> EndOfHash]
     ELSE IF Stops(all, hash) THEN [names |-> all, next |-> hash]
     ELSE FillFrom(t, NextBlock(t, p), key, all)

FillTree(t, key) == FillFrom(t, Probe(t, key[1]), key, {})

(* rb_first: the names with the least hashes, a chain.                     *)
Chain(names) == {n \in names : \A m \in names : ~KeyBefore(KeyOf(m), KeyOf(n))}

AtChain(f, names) ==
  [f EXCEPT !.extra = Chain(names), !.rest = names \ Chain(names),
            !.curr = KeyOf(CHOOSE n \in Chain(names) : TRUE)]

Refilled(f, key) ==
  LET fill == FillTree(htree, key)
  IN IF fill.names = {} THEN [f EXCEPT !.eof = TRUE]
     ELSE AtChain([f EXCEPT !.next = fill.next, !.stale = FALSE], fill.names)

(* The loop of ext5_dx_readdir behind a chain.                             *)
NextNode(f) ==
  CASE f.rest # {} /\ ~f.stale -> AtChain(f, f.rest)
    [] f.rest # {} /\ f.stale -> Refilled(f, AtChain(f, f.rest).curr)
    [] f.rest = {} /\ f.next = EndOfHash -> [f EXCEPT !.eof = TRUE]
    [] OTHER -> Refilled(f, <<f.next, 0>>)

DirEmit(f, n) ==
  [f EXCEPT !.extra = @ \ {n}, !.got = @ \cup {n},
            !.twice = IF n \in f.got THEN @ \cup {n} ELSE @]

(* ext5_dx_readdir with room for one name: it ends when the next does not  *)
(* fit.  A call with more room goes on as if it had been called again.     *)
Readdir ==
  /\ ~file.eof
  /\ LET f == IF file.extra = {} THEN Refilled(file, file.curr) ELSE file
     IN IF f.eof THEN file' = f
        ELSE \E n \in f.extra :
          LET g == DirEmit(f, n)
          IN file' = IF g.extra # {} THEN g ELSE NextNode(g)
  /\ UNCHANGED <<htree, present, edits>>

(* The file is opened anew and positioned (ext5_dir_llseek, or an NFS      *)
(* server's next call): all that is kept is f_pos, the key of the chain.   *)
Reopen ==
  /\ ~file.eof /\ file.extra # {}
  /\ file' = [file EXCEPT !.extra = {}, !.rest = {}, !.next = 0,
                          !.stale = FALSE, !.reopened = TRUE]
  /\ UNCHANGED <<htree, present, edits>>

-----------------------------------------------------------------------------
Edit == edits < MaxEdits /\ edits' = edits + 1

(* ext5_add_entry_qstr, of a name a lookup did not find.                   *)
AddEntry(n) ==
  /\ Edit
  /\ FindEntry(htree, n) = {}
  /\ htree' \in Added(htree, n)
  /\ present' = present \cup {n}
  /\ file' = [file EXCEPT !.stale = TRUE, !.ever = @ \cup {n}]

(* ext5_find_entry and ext5_delete_entry.  A leaf stays when it is empty.  *)
DeleteEntry(n) ==
  /\ Edit
  /\ \E p \in FindEntry(htree, n) :
       htree' = WithNames(htree, p, Names(htree, p) \ {n})
  /\ present' = present \ {n}
  /\ file' = [file EXCEPT !.stale = TRUE, !.stayed = @ \ {n}]

(* A demotion has rebuilt the directory.                                   *)
Rebuild ==
  /\ edits = 0 /\ present = {} /\ file = Opened({})
  /\ \E t \in RebuiltDirs :
       LET names == UNION {Names(t, p) : p \in LiveLeaves(t)}
       IN /\ htree' = t /\ present' = names /\ file' = Opened(names)
  /\ UNCHANGED edits

HashTreeInit ==
  /\ htree = OneBlock({}) /\ present = {} /\ file = Opened({}) /\ edits = 0

HashTreeNext ==
  \/ Rebuild \/ Readdir \/ Reopen
  \/ \E n \in Entry : AddEntry(n) \/ DeleteEntry(n)

HashTreeSpec == HashTreeInit /\ [][HashTreeNext]_hashTreeVars

-----------------------------------------------------------------------------
HashTreeTypeOK ==
  /\ htree.depth \in 0..1 /\ htree.indexed \in BOOLEAN
  /\ {present, file.extra, file.rest, file.got} \subseteq SUBSET Entry
  /\ file.next \in 0..EndOfHash /\ file.eof \in BOOLEAN

(* Whatever is built, split and emptied: a name is found exactly while it  *)
(* is in the directory, in the only leaf that has it, which is also among  *)
(* those a promotion reads; no block is overfull.                          *)
Indexes(t, names) ==
  /\ \A n \in Entry :
       /\ FindEntry(t, n) # {} <=> n \in names
       /\ {p \in LiveLeaves(t) : n \in Names(t, p)} = FindEntry(t, n)
  /\ \A p \in LiveLeaves(t) : Cardinality(Names(t, p)) <= LeafSpace
  /\ \A i \in DOMAIN t.nodes : Len(t.nodes[i].leaves) <= IndexSpace(t)
  /\ Len(t.nodes) <= RootSpace

NamesFound == [][htree' # htree => Indexes(htree', present')]_hashTreeVars

(* A listing that reaches the end has every name that was there all the    *)
(* time, though leaves were split behind, at or before its place; no name  *)
(* twice, but names with one hash when the file was opened anew among them;*)
(* none that never was there.                                              *)
HashListing ==
  /\ file.eof => file.stayed \subseteq file.got
  /\ file.got \subseteq file.ever
  /\ \A n \in file.twice :
       file.reopened /\ \E m \in Entry \ {n} : KeyOf(m) = KeyOf(n)
=============================================================================
