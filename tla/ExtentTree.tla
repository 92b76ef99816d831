------------------------------ MODULE ExtentTree ------------------------------
(* The extent tree of one file: extents in the inode or in leaves below one*)
(* level of indexes, found, inserted, merged, split, converted between     *)
(* written and unwritten and removed (extents.c), while direct and delayed *)
(* writes submit I/O for unwritten extents and convert them when it ends.  *)
(* i_data_sem makes each call of ext5_map_blocks one step.  A tree is a    *)
(* record of its depth, the first blocks its indexes promise and its leaves; *)
(* with depth 0 the only leaf is the inode's and has no index.             *)
EXTENDS Integers, Sequences, SequencesExt, FiniteSets, FiniteSetsExt

CONSTANTS
  FileBlocks,  \* logical blocks of the file
  Region,      \* places on disk the file's blocks can go to, far apart
  NoRegion,
  RootSpace,   \* extents, or indexes, the inode has room for
  LeafSpace,   \* extents a leaf has room for
  MaxZeroout,  \* s_extent_max_zeroout_kb, in blocks
  MaxFlying    \* writes in flight

ASSUME ExtentAssumption ==
  /\ {FileBlocks, RootSpace, LeafSpace, MaxZeroout, MaxFlying} \subseteq Nat
  /\ RootSpace < LeafSpace /\ NoRegion \notin Region

VARIABLES
  tree,    \* [depth, keys, leaves]
  home,    \* per logical block, the block on disk it was given, or NoHome
  data,    \* what that block holds: "stale", "zeros" or "data"
  flying,  \* writes to unwritten blocks that have not ended
  exposed  \* what a split that found no space has marked written wrongly

extVars == <<tree, home, data, flying, exposed>>

FileBlock == 0..(FileBlocks - 1)
(* The block on disk l gets in a region; n blocks further.                 *)
Place(region, l) == [region |-> region, block |-> l]
NoHome == Place(NoRegion, 0)
Plus(place, n) == [place EXCEPT !.block = @ + n]
Extent(l, n, p, un) == [lblk |-> l, len |-> n, pblk |-> p, unwritten |-> un]
End(ex) == ex.lblk + ex.len
Covers(ex, l) == l \in ex.lblk..(End(ex) - 1)
Stretch(l, n) == l..(l + n - 1)

NoExtents == [depth |-> 0, keys |-> <<0>>, leaves |-> <<<<>>>>]

ExtentInit ==
  /\ tree = NoExtents
  /\ home = [l \in FileBlock |-> NoHome]
  /\ data = [l \in FileBlock |-> "stale"]
  /\ flying = {} /\ exposed = {}

-----------------------------------------------------------------------------
(* ext5_find_extent: the leaf of the last index not above l, and its last  *)
(* extent not above l, or the first one; 0 in an empty leaf.               *)
Find(t, l) ==
  LET i == Max({1} \cup {k \in DOMAIN t.keys : t.keys[k] <= l})
      below == {k \in DOMAIN t.leaves[i] : t.leaves[i][k].lblk <= l}
  IN [i |-> i, j |-> IF t.leaves[i] = <<>> THEN 0 ELSE Max({1} \cup below)]

At(t, p) == t.leaves[p.i][p.j]
Capacity(t) == IF t.depth = 0 THEN RootSpace ELSE LeafSpace
WithLeaf(t, i, leaf) == [t EXCEPT !.leaves[i] = leaf]
WithExtent(t, p, ex) == [t EXCEPT !.leaves[p.i][p.j] = ex]
Holds(t, p, l) == p.j > 0 /\ Covers(At(t, p), l)

(* ext5_can_extents_be_merged, but for the longest length.                 *)
Mergeable(a, b) ==
  /\ a.unwritten = b.unwritten
  /\ End(a) = b.lblk
  /\ Plus(a.pblk, a.len) = b.pblk

Joined(leaf, j) ==
  RemoveAt([leaf EXCEPT ![j].len = @ + leaf[j + 1].len], j + 1)

RECURSIVE MergeRight(_, _)
MergeRight(leaf, j) ==
  IF j < Len(leaf) /\ Mergeable(leaf[j], leaf[j + 1])
  THEN MergeRight(Joined(leaf, j), j) ELSE leaf

(* ext5_ext_try_to_merge: with the left neighbour and on, else to the right. *)
Merged(leaf, j) ==
  IF j > 1 /\ Mergeable(leaf[j - 1], leaf[j]) THEN MergeRight(leaf, j - 1)
  ELSE MergeRight(leaf, j)

(* ext5_ext_try_to_merge_up: a single leaf that fits moves into the inode, *)
(* if the handle can be extended (up).                                     *)
MergedUp(t, up) ==
  IF up /\ t.depth = 1 /\ Len(t.leaves) = 1 /\ Len(t.leaves[1]) <= RootSpace
  THEN [t EXCEPT !.depth = 0, !.keys = <<0>>] ELSE t

TryToMerge(t, p, up) ==
  MergedUp(WithLeaf(t, p.i, Merged(t.leaves[p.i], p.j)), up)

(* Mutant: a new first extent leaves the index as it is.                   *)
KeysKept(t, p) == t

(* ext5_ext_correct_indexes.                                               *)
CorrectIndexes(t, p) ==
  IF t.depth = 1 /\ p.j = 1
  THEN [t EXCEPT !.keys[p.i] = t.leaves[p.i][1].lblk] ELSE t

-----------------------------------------------------------------------------
(* ext5_ext_insert_extent.  io says EXT5_GET_BLOCKS_PRE_IO, which keeps    *)
(* extents apart; room that a tree block can be allocated.                 *)
Neighbour(leaf, j, new) ==
  CASE j < Len(leaf) /\ End(leaf[j]) < new.lblk -> j + 1
    [] j > 1 /\ End(new) < leaf[j].lblk -> j - 1
    [] OTHER -> j

InsertAt2(t, p, new) ==
  LET after == p.j > 0 /\ new.lblk > At(t, p).lblk
      j == IF p.j = 0 THEN 1 ELSE IF after THEN p.j + 1 ELSE p.j
  IN [tree |-> WithLeaf(t, p.i, InsertAt(t.leaves[p.i], j, new)),
      at |-> [p EXCEPT !.j = j]]

(* ext5_ext_create_new_leaf: the inode's extents move to a leaf, or a full *)
(* leaf is split behind the extent found.                                  *)
GrownIndepth(t) == [t EXCEPT !.depth = 1, !.keys = <<t.leaves[1][1].lblk>>]

SplitLeaf(t, p, new) ==
  LET leaf == t.leaves[p.i]
      border == IF p.j < Len(leaf) THEN leaf[p.j + 1].lblk ELSE new.lblk
  IN [t EXCEPT
        !.keys = InsertAt(@, p.i + 1, border),
        !.leaves = InsertAt([@ EXCEPT ![p.i] = SubSeq(leaf, 1, p.j)], p.i + 1,
                            SubSeq(leaf, p.j + 1, Len(leaf)))]

(* Where there is space for new, or none.  A tree of more than one level of*)
(* indexes counts as no space.                                             *)
Spacious(t, p, new, room) ==
  LET leaf == t.leaves[p.i]
      next == p.i + 1
      grown == IF t.depth = 0 THEN GrownIndepth(t) ELSE SplitLeaf(t, p, new)
  IN CASE Len(leaf) < Capacity(t) -> [ok |-> TRUE, tree |-> t, at |-> p]
       [] Len(leaf) = Capacity(t) /\ new.lblk > Last(leaf).lblk
            /\ next <= Len(t.leaves) /\ Len(t.leaves[next]) < LeafSpace ->
            [ok |-> TRUE, tree |-> t, at |-> Find(t, t.keys[next])]
       [] OTHER ->
            [ok |-> room /\ (t.depth = 0 \/ Len(t.leaves) < RootSpace),
             tree |-> grown, at |-> Find(grown, new.lblk)]

Placed(put, io, up) ==
  CorrectIndexes(IF io THEN put.tree ELSE TryToMerge(put.tree, put.at, up),
                 put.at)

InsertedIn(t, space, new, io, up) ==
  [ok |-> space.ok,
   tree |-> IF space.ok
            THEN Placed(InsertAt2(space.tree, space.at, new), io, up) ELSE t]

Joins(t, p, k, new) ==
  /\ p.j > 0
  /\ Mergeable(t.leaves[p.i][k], new) \/ Mergeable(new, t.leaves[p.i][k])

JoinedTo(ex, new) ==
  IF End(ex) = new.lblk THEN [ex EXCEPT !.len = @ + new.len]
  ELSE [ex EXCEPT !.lblk = new.lblk, !.pblk = new.pblk, !.len = @ + new.len]

InsertExtent(t, p, new, io, room, up) ==
  LET k == Neighbour(t.leaves[p.i], p.j, new) IN
  IF ~io /\ Joins(t, p, k, new)
  THEN [ok |-> TRUE,
        tree |-> CorrectIndexes(
                   TryToMerge([t EXCEPT !.leaves[p.i][k] = JoinedTo(@, new)],
                              [p EXCEPT !.j = k], up), p)]
  ELSE InsertedIn(t, Spacious(t, p, new, room), new, io, up)

-----------------------------------------------------------------------------
(* Mutant: the half that holds data is zeroed, the other one exposed.      *)
OtherPart(ex, l, flags) ==
  CASE "valid2" \in flags -> Stretch(l, End(ex) - l)
    [] "valid1" \in flags -> Stretch(ex.lblk, l - ex.lblk)
    [] OTHER -> Stretch(ex.lblk, ex.len)

(* ext5_split_extent_at: the extent at p in two at block l.  flags are the *)
(* EXT5_EXT_ ones.  The second half may find no space; then the half       *)
(* without data, or all of it, is filled with zeros and the extent counts  *)
(* as written, or it gets its length back.                                 *)
ZeroedPart(ex, l, flags) ==
  CASE "valid1" \in flags -> Stretch(l, End(ex) - l)
    [] "valid2" \in flags -> Stretch(ex.lblk, l - ex.lblk)
    [] OTHER -> Stretch(ex.lblk, ex.len)

(* The outcome of a call: the tree, the blocks it filled with zeros, and   *)
(* whether it marked blocks written that hold neither data nor zeros.      *)
Done(t, zeroed) == [ok |-> TRUE, tree |-> t, zeroed |-> zeroed, wrong |-> FALSE]

Half2(ex, l, flags) ==
  Extent(l, End(ex) - l, Plus(ex.pblk, l - ex.lblk), "unwritten2" \in flags)
Shortened(ex, l, flags) ==
  [ex EXCEPT !.len = l - ex.lblk, !.unwritten = "unwritten1" \in flags]
Marked(t, p, unwritten) == [t EXCEPT !.leaves[p.i][p.j].unwritten = unwritten]

NoSpaceIn(t, p, l, flags, up) ==
  IF "zeroout" \in flags
  THEN Done(TryToMerge(Marked(t, p, FALSE), p, up),
            ZeroedPart(At(t, p), l, flags))
  ELSE [Done(t, {}) EXCEPT !.ok = FALSE]

SplitOr(put, t, p, l, flags, up) ==
  IF put.ok THEN Done(put.tree, {})
  ELSE NoSpaceIn(t, p, l, flags, up)

AtStart(t, p, io, up) == Done(IF io THEN t ELSE TryToMerge(t, p, up), {})

SplitAt(t, p, l, flags, io, room, up) ==
  IF l = At(t, p).lblk
  THEN AtStart(Marked(t, p, "unwritten2" \in flags), p, io, up)
  ELSE SplitOr(InsertExtent(WithExtent(t, p, Shortened(At(t, p), l, flags)), p,
                            Half2(At(t, p), l, flags), io, room, up),
               t, p, l, flags, up)

(* ext5_split_extent: at the end of n blocks from l, then at l.  room has a*)
(* choice for each.  The first split takes what precedes l + n for data,   *)
(* so without space it marks what precedes l written as it is; and the     *)
(* blocks the call is for, even if the second split then fails.            *)
Wrong(result, early) == [result EXCEPT !.wrong = early /\ result.zeroed # {}]

SplitEnd(t, p, l, n, flags, room, up) ==
  IF l + n < End(At(t, p))
  THEN Wrong(SplitAt(t, p, l + n,
                     (flags \cap {"zeroout"})
                       \cup (IF At(t, p).unwritten
                             THEN {"unwritten1", "unwritten2"} ELSE {})
                       \cup (IF "valid2" \in flags THEN {"valid1"} ELSE {}),
                     TRUE, room, up),
             "valid2" \in flags /\ At(t, p).lblk < l)
  ELSE Done(t, {})

After(before, result) ==
  [result EXCEPT !.zeroed = @ \cup before.zeroed,
                 !.wrong = before.wrong \/ (before.zeroed # {} /\ ~result.ok)]

SplitStart(right, p, l, flags, io, room, up) ==
  IF ~right.ok THEN right
  ELSE After(right,
         SplitAt(right.tree, p, l,
           (flags \cap {"valid2"}) \cup
           (IF At(right.tree, p).unwritten
            THEN {"unwritten1"} \cup (flags \cap {"zeroout", "unwritten2"})
            ELSE {}),
           io, room, up))

SplitRest(right, l, flags, io, room, up) ==
  SplitStart(right, Find(right.tree, l), l, flags, io, room, up)

SplitExtent(t, l, n, flags, io, room, up) ==
  SplitRest(SplitEnd(t, Find(t, l), l, n, flags, room[1], up),
            l, flags, io, room[2], up)

(* ext5_ext_convert_to_initialized, its short cut: the blocks move to a    *)
(* written neighbour in the same leaf.                                     *)
ToLeft(t, p, l, n) ==
  LET ex == At(t, p)  left == t.leaves[p.i][p.j - 1]
  IN /\ l = ex.lblk /\ n < ex.len /\ p.j > 1
     /\ ~left.unwritten /\ End(left) = l /\ Plus(left.pblk, left.len) = ex.pblk

ToRight(t, p, l, n) ==
  LET ex == At(t, p)  right == t.leaves[p.i][p.j + 1]
  IN /\ ~(l = ex.lblk /\ n < ex.len /\ p.j > 1)
     /\ l + n = End(ex) /\ n < ex.len /\ p.j < Len(t.leaves[p.i])
     /\ ~right.unwritten /\ End(ex) = right.lblk
     /\ Plus(ex.pblk, ex.len) = right.pblk

MovedLeft(t, p, n) ==
  [t EXCEPT !.leaves[p.i] = [@ EXCEPT
     ![p.j - 1].len = @ + n,
     ![p.j].len = @ - n, ![p.j].lblk = @ + n, ![p.j].pblk = Plus(@, n)]]
MovedRight(t, p, n) ==
  [t EXCEPT !.leaves[p.i] = [@ EXCEPT
     ![p.j + 1].len = @ + n, ![p.j].len = @ - n,
     ![p.j + 1].lblk = @ - n, ![p.j + 1].pblk = Plus(@, -n)]]

(* ... or a little more is filled with zeros, and the rest split off.      *)
Initialized(t, l, n, inside, room, up) ==
  LET p == Find(t, l)
      ex == At(t, p)
      limit == IF inside THEN MaxZeroout ELSE 0
      rest == End(ex) - l
      more == rest > n /\ rest <= limit          \* zeros behind
      n1 == IF more THEN rest ELSE n
      less == rest > n /\ l - ex.lblk + n1 < limit   \* zeros before
      split == SplitExtent(t, IF less THEN ex.lblk ELSE l,
                           IF less THEN n1 + (l - ex.lblk) ELSE n1,
                           {"valid2"} \cup (IF inside THEN {"zeroout"} ELSE {}),
                           FALSE, room, up)
      zeros == (IF more THEN Stretch(l + n, rest - n) ELSE {})
                 \cup (IF less THEN Stretch(ex.lblk, l - ex.lblk) ELSE {})
  IN CASE ToLeft(t, p, l, n) -> Done(MovedLeft(t, p, n), {})
       [] ToRight(t, p, l, n) -> Done(MovedRight(t, p, n), {})
       [] OTHER -> [split EXCEPT !.zeroed = @ \cup zeros]

(* ext5_convert_unwritten_extents_endio, convert_initialized_extent: what  *)
(* is larger is split, then the extent is marked and merged.               *)
ConvertedFrom(split, p, unwritten, up) ==
  IF split.ok
  THEN [split EXCEPT !.tree = TryToMerge(Marked(@, p, unwritten), p, up)]
  ELSE split

Conversion(split, l, unwritten, up) ==
  ConvertedFrom(split, Find(split.tree, l), unwritten, up)

Converted(t, ex, l, n, flags, room, up) ==
  Conversion(IF ex.lblk # l \/ ex.len > n
             THEN SplitExtent(t, l, n, flags, TRUE, room, up)
             ELSE Done(t, {}),
             l, "valid1" \in flags, up)

-----------------------------------------------------------------------------
(* ext5_ext_rm_leaf and the walk of ext5_ext_remove_space from right to    *)
(* left: it ends at a leaf that keeps an extent, except (index levels      *)
(* compare a count that was not saved) the one a punch starts from.        *)
Touched(ex, from, to) == ex.lblk <= to /\ End(ex) > from
Cut(leaf, from, to) ==
  LET tailless(ex) == [ex EXCEPT !.len = Max({0, from - ex.lblk})]
      cut == [k \in DOMAIN leaf |->
                IF Touched(leaf[k], from, to) THEN tailless(leaf[k])
                ELSE leaf[k]]
  IN SelectSeq(cut, LAMBDA ex : ex.len > 0)

RECURSIVE RemoveFrom(_, _, _, _, _)
RemoveFrom(t, i, from, to, started) ==
  LET leaf == Cut(t.leaves[i], from, to)
      kept == WithLeaf(t, i, leaf)
      gone == [t EXCEPT !.keys = RemoveAt(@, i), !.leaves = RemoveAt(@, i)]
      left == CASE t.depth = 0 -> kept
                [] t.depth = 1 /\ leaf = <<>> -> gone
                [] OTHER -> IF Touched(t.leaves[i][1], from, to)
                            THEN CorrectIndexes(kept, [i |-> i, j |-> 1])
                            ELSE kept
  IN IF i = 1 \/ (leaf # <<>> /\ ~started) THEN left
     ELSE RemoveFrom(left, i - 1, from, to, FALSE)

Emptied(t) == IF t.leaves = <<>> THEN NoExtents ELSE t

(* ext5_ext_remove_space.  A punch that ends inside an extent splits it    *)
(* there first.                                                            *)
RangeRemovedFrom(split, from, to, punch) ==
  IF ~split.ok THEN split
  ELSE [split EXCEPT !.tree = Emptied(
          RemoveFrom(@, IF punch THEN Find(@, to).i ELSE Len(@.leaves),
                     from, to, punch))]

RangeRemoved(t, p, from, to, punch, room) ==
  RangeRemovedFrom(
    IF punch /\ Holds(t, p, to) /\ to < End(At(t, p)) - 1
    THEN SplitAt(t, p, to + 1,
                 IF At(t, p).unwritten THEN {"unwritten1", "unwritten2"}
                 ELSE {},
                 TRUE, room, FALSE)
    ELSE Done(t, {}),
    from, to, punch)

-----------------------------------------------------------------------------
Flown == UNION {Stretch(w.lblk, w.len) : w \in flying}

(* What the tree says of block l.                                          *)
Looked(t, l) ==
  LET p == Find(t, l) IN
  IF Holds(t, p, l)
  THEN [pblk |-> Plus(At(t, p).pblk, l - At(t, p).lblk),
        written |-> ~At(t, p).unwritten]
  ELSE [pblk |-> NoHome, written |-> FALSE]

(* A call has filled blocks with data and forgotten others.  Zeros over a  *)
(* write in flight may come after its data.                                *)
Becomes(result, homes, filled, forgotten) ==
  LET content == [l \in FileBlock |->
        CASE l \in forgotten -> "stale"
          [] l \in filled \ forgotten -> "data"
          [] l \in result.zeroed \ (filled \cup forgotten) -> "zeros"
          [] OTHER -> data[l]]
  IN /\ tree' = result.tree
     /\ home' = homes
     /\ data' = content
     /\ exposed' = exposed
          \cup {"zeroed" : l \in result.zeroed \cap Flown}
          \cup (IF result.wrong THEN {"stale"} ELSE {})

(* What a call depends on besides the tree: whether tree blocks can be     *)
(* allocated, for either split, and whether the handle can be extended,    *)
(* which only matters below an index.                                      *)
Rooms == [1..2 -> BOOLEAN]
Ups == IF tree.depth = 1 THEN BOOLEAN ELSE {FALSE}

(* ext5_ext_map_blocks on a hole: up to the next extent, or the next index,*)
(* and as many blocks as the allocator gives.  how says what it is for:    *)
(* fallocate, a write, or a write that converts when its I/O ends.         *)
NextAllocated(t, p) ==
  CASE p.j < Len(t.leaves[p.i]) -> t.leaves[p.i][p.j + 1].lblk
    [] p.j = Len(t.leaves[p.i]) /\ p.i < Len(t.leaves) -> t.keys[p.i + 1]
    [] OTHER -> FileBlocks

HoleEnd(t, p, l) ==
  CASE p.j = 0 -> FileBlocks
    [] p.j > 0 /\ At(t, p).lblk >= l -> At(t, p).lblk
    [] OTHER -> NextAllocated(t, p)

MapIn(how, p, l, n, region) ==
  \E result \in {InsertExtent(tree, p,
                              Extent(l, n, Place(region, l), how # "write"),
                              how = "submit", room, up) :
                   room \in BOOLEAN, up \in Ups} :
    LET given == IF result.ok THEN Stretch(l, n) ELSE {}
    IN /\ flying' = IF how = "submit" /\ result.ok
                    THEN flying \cup {[lblk |-> l, len |-> n]} ELSE flying
       /\ Becomes(Done(result.tree, {}),
                  [m \in FileBlock |->
                     IF m \in given THEN Place(region, m) ELSE home[m]],
                  IF how = "write" THEN given ELSE {}, {})

MapHole(how) ==
  /\ how = "submit" => Cardinality(flying) < MaxFlying
  /\ \E l \in FileBlock : \E p \in {Find(tree, l)} :
       /\ ~Holds(tree, p, l)
       /\ \E n \in 1..(HoleEnd(tree, p, l) - l), region \in Region :
            MapIn(how, p, l, n, region)

(* n blocks from l in one unwritten, or written, extent without a write.   *)
Parts(unwritten) ==
  {r \in FileBlock \X (1..FileBlocks) :
     LET p == Find(tree, r[1]) IN
     /\ Holds(tree, p, r[1]) /\ At(tree, p).unwritten = unwritten
     /\ r[1] + r[2] <= End(At(tree, p)) /\ Stretch(r[1], r[2]) \cap Flown = {}}

(* A write to unwritten blocks, mapped for writing ...                     *)
WriteUnwritten ==
  \E <<l, n>> \in Parts(TRUE) :
    /\ \E result \in {Initialized(tree, l, n, inside, room, up) :
                        inside \in BOOLEAN, room \in Rooms, up \in Ups} :
         Becomes(result, home, IF result.ok THEN Stretch(l, n) ELSE {}, {})
    /\ UNCHANGED flying

(* ... or submitted: ext5_split_convert_extents splits the range off first.*)
ForIo(inside) ==
  {"unwritten2", "valid2"} \cup (IF inside THEN {"zeroout"} ELSE {})

SubmitUnwritten ==
  \E <<l, n>> \in Parts(TRUE) :
    /\ Cardinality(flying) < MaxFlying
    /\ \E result \in {SplitExtent(tree, l, n, ForIo(inside), TRUE, room, up) :
                        inside \in BOOLEAN, room \in Rooms, up \in Ups} :
         /\ Becomes([result EXCEPT !.wrong = result.zeroed # {}], home, {}, {})
         /\ flying' = IF result.ok
                      THEN flying \cup {[lblk |-> l, len |-> n]} ELSE flying

(* The I/O has ended: ext5_convert_unwritten_extents takes what one extent *)
(* holds of the range, and the next call the rest.                         *)
EndIo ==
  \E w \in flying :
    LET ex == At(tree, Find(tree, w.lblk))
        n == Min({w.len, End(ex) - w.lblk})
        results == IF ex.unwritten
                   THEN {Converted(tree, ex, w.lblk, n, ForIo(inside), room,
                                   up) :
                           inside \in BOOLEAN, room \in Rooms, up \in Ups}
                   ELSE {Done(tree, {})}
    IN \E result \in results :
         /\ flying' = (flying \ {w}) \cup
              (IF result.ok /\ n < w.len
               THEN {[lblk |-> w.lblk + n, len |-> w.len - n]} ELSE {})
         /\ Becomes(result, home,
                    IF result.ok THEN Stretch(w.lblk, n) ELSE {}, {})

(* fallocate's zero range makes written blocks unwritten, once no I/O is   *)
(* under way there.                                                        *)
ZeroRange ==
  \E <<l, n>> \in Parts(FALSE) :
    /\ \E result \in {Converted(tree, At(tree, Find(tree, l)), l, n,
                                {"valid1"}, room, up) :
                        room \in Rooms, up \in Ups} :
         Becomes(result, home, {}, IF result.ok THEN Stretch(l, n) ELSE {})
    /\ UNCHANGED flying

(* ext5_punch_hole, and ext5_ext_truncate.                                 *)
RemoveSpace ==
  \E from, to \in FileBlock, punch \in BOOLEAN :
    /\ from <= to /\ (punch \/ to = FileBlocks - 1)
    /\ (from..to) \cap Flown = {} /\ \E l \in from..to : home[l] # NoHome
    /\ \E result \in {RangeRemoved(tree, Find(tree, to), from, to, punch, room) :
                        room \in BOOLEAN} :
         LET gone == IF result.ok THEN from..to ELSE {}
         IN Becomes(result,
                    [l \in FileBlock |->
                       IF l \in gone THEN NoHome ELSE home[l]],
                    {}, gone)
    /\ UNCHANGED flying

ExtentNext ==
  \/ \E how \in {"fallocate", "write", "submit"} : MapHole(how)
  \/ WriteUnwritten \/ SubmitUnwritten \/ EndIo \/ ZeroRange \/ RemoveSpace

ExtentSpec == ExtentInit /\ [][ExtentNext]_extVars

-----------------------------------------------------------------------------
ExtentTypeOK ==
  /\ tree.depth \in 0..1 /\ Len(tree.keys) = Len(tree.leaves)
  /\ home \in [FileBlock ->
               {NoHome} \cup {Place(r, l) : r \in Region, l \in FileBlock}]
  /\ data \in [FileBlock -> {"stale", "zeros", "data"}]
  /\ exposed \subseteq {"stale", "zeroed"}

(* After any sequence of allocations, splits, conversions, merges and      *)
(* removals, with or without space for tree blocks, the tree finds every   *)
(* block of the file where it was put and nothing else; its extents follow *)
(* each other without overlap, under the index that leads to them, and no  *)
(* leaf is overfull, or empty below an index.                              *)
TreeMapsFile ==
  LET extents == FlattenSeq(tree.leaves)
  IN /\ \A l \in FileBlock : Looked(tree, l).pblk = home[l]
     /\ \A k \in 1..(Len(extents) - 1) : End(extents[k]) <= extents[k + 1].lblk
     /\ \A i \in DOMAIN tree.leaves : Len(tree.leaves[i]) <= Capacity(tree)
     /\ tree.depth = 1 =>
          /\ Len(tree.leaves) <= RootSpace
          /\ \A i \in DOMAIN tree.leaves :
               /\ tree.leaves[i] # <<>>
               /\ tree.keys[i] <= tree.leaves[i][1].lblk
               /\ i > 1 => End(Last(tree.leaves[i - 1])) <= tree.keys[i]

(* A block reads as what was last written to it, or zeros, never as what   *)
(* the disk held before, and a write that ended stays; but for the two     *)
(* ways a split without space goes wrong, which exposed records.           *)
ReadsWhatWasWritten ==
  exposed = {} =>
    \A l \in FileBlock :
      /\ Looked(tree, l).written => data[l] # "stale"
      /\ data[l] = "data" => Looked(tree, l).written
=============================================================================
