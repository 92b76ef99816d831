-------------------------------- MODULE Buddy --------------------------------
(* The buddy of one block group: beside the bitmap, for every order above  *)
(* zero the aligned runs of 2^order blocks that are free as a whole and are*)
(* part of no larger one, and the counters the allocator searches by       *)
(* (mballoc.c).                                                            *)
EXTENDS Integers, FiniteSets, FiniteSetsExt

CONSTANTS
  MaxOrder, \* the highest order, s_blocksize_bits + 1
  Tops      \* chunks of that order in a group

ASSUME BuddyAssumption == MaxOrder \in Nat \ {0} /\ Tops \in Nat /\ Tops % 2 = 0

VARIABLE group  \* one group: bitmap, buddy and ext5_group_info, under its lock

buddyVars == <<group>>

Size == Tops * 2^MaxOrder
Bit == 0..(Size - 1)
Order == 0..MaxOrder
Span(first, len) == first..(first + len - 1)

(* group.chunks holds <<order, index>> where the bit of that order is clear. *)
IsFree(g, block) == block \notin g.busy
Added(g, order, index) ==
  [g EXCEPT !.chunks = IF order = 0 THEN @ ELSE @ \cup {<<order, index>>},
            !.counters[order] = @ + 1]
Removed(g, order, index) ==
  [g EXCEPT !.chunks = @ \ {<<order, index>>}, !.counters[order] = @ - 1]

-----------------------------------------------------------------------------
(* ext5_mb_mark_free_simple: the largest aligned chunk first.  Its order is*)
(* bounded by the alignment of first and by len.                           *)
ChunkOrder(first, len) ==
  Max({o \in Order : first % 2^o = 0 /\ 2^o <= len})

RECURSIVE MarkFreeSimple(_, _, _)
MarkFreeSimple(g, first, len) ==
  IF len = 0 THEN g
  ELSE LET o == ChunkOrder(first, len)
       IN MarkFreeSimple(Added(g, o, first \div 2^o), first + 2^o, len - 2^o)

(* ext5_mb_generate_buddy, on a bitmap with nothing known of it: every     *)
(* maximal free run is divided.                                            *)
FreeRuns(busy) ==
  {r \in Bit \X (1..Size) :
     /\ r[1] + r[2] <= Size /\ Span(r[1], r[2]) \cap busy = {}
     /\ r[1] - 1 \in busy \cup {-1} /\ r[1] + r[2] \in busy \cup {Size}}

Generated(busy) ==
  FoldSet(LAMBDA run, g : MarkFreeSimple(g, run[1], run[2]),
          [busy |-> busy, chunks |-> {}, counters |-> [o \in Order |-> 0],
           fragments |-> Cardinality(FreeRuns(busy)),
           free |-> Size - Cardinality(busy),
           firstFree |-> IF busy = Bit THEN Size ELSE Min(Bit \ busy)],
          FreeRuns(busy))

BuddyInit == \E busy \in SUBSET Bit : group = Generated(busy)

-----------------------------------------------------------------------------
(* mb_find_order_for_block.                                                *)
OrderOf(g, block) ==
  LET above == {o \in Order \ {0} : <<o, block \div 2^o>> \in g.chunks}
  IN IF above = {} THEN 0 ELSE Min(above)

(* mb_find_extent: the rest of the chunk that block is in, and the chunks  *)
(* behind it while more is needed.                                         *)
RECURSIVE Extended(_, _, _, _)
Extended(g, next, len, needed) ==
  IF needed <= len \/ next >= Size \/ ~IsFree(g, next) THEN len
  ELSE LET size == 2^OrderOf(g, next)
       IN Extended(g, (next \div size + 1) * size, len + size, needed)

FindExtent(g, block, needed) ==
  LET size == 2^OrderOf(g, block)
      len == size - (block % size)
  IN Extended(g, block + len, len, needed)

(* The buddy's part of mb_mark_used.                                       *)
RECURSIVE TakeChunks(_, _, _)
TakeChunks(g, start, len) ==
  LET order == OrderOf(g, start)
      size == 2^order
      from == (start \div size) * size
      end == from + size
      taken == Removed(g, order, start \div size)
      front == MarkFreeSimple(taken, from, start - from)
  IN CASE len = 0 -> g
       [] len > 0 /\ from = start /\ len >= size ->
            TakeChunks(taken, start + size, len - size)
       [] len > 0 /\ ~(from = start /\ len >= size) /\ start + len < end ->
            MarkFreeSimple(front, start + len, end - (start + len))
       [] OTHER -> TakeChunks(front, end, start + len - end)

(* How the number of fragments changes when a run between a free or used   *)
(* left and right neighbour becomes used; freeing it is the opposite.      *)
Fragments(left, right) ==
  CASE left /\ right -> 1
    [] ~left /\ ~right -> -1
    [] OTHER -> 0

LeftFree(g, first) == first # 0 /\ IsFree(g, first - 1)
RightFree(g, last) == last + 1 < Size /\ IsFree(g, last + 1)

(* mb_mark_used.                                                           *)
MarkUsed(g, start, len) ==
  LET left == LeftFree(g, start)
      right == RightFree(g, start + len - 1)
      counted == [g EXCEPT !.free = @ - len,
                           !.firstFree = IF @ = start THEN @ + len ELSE @,
                           !.fragments = @ + Fragments(left, right)]
  IN [TakeChunks(counted, start, len) EXCEPT !.busy = @ \cup Span(start, len)]

-----------------------------------------------------------------------------
(* mb_buddy_adjust_border: a chunk at the border of the freed range either *)
(* stays alone, or its free neighbour joins the range.                     *)
Border(g, order, bit, side) ==
  IF <<order, bit + side>> \notin g.chunks
  THEN [group |-> Added(g, order, bit), bit |-> bit - side]
  ELSE [group |-> Removed(g, order, bit + side), bit |-> bit + side]

(* Mutant: the right border takes the left one's side.                     *)
LastBorderLeft(g, order, last) ==
  IF last % 2 = 1 THEN [group |-> g, bit |-> last] ELSE Border(g, order, last, -1)

FirstBorder(g, order, first) ==
  IF first % 2 = 0 THEN [group |-> g, bit |-> first] ELSE Border(g, order, first, -1)
LastBorder(g, order, last) ==
  IF last % 2 = 1 THEN [group |-> g, bit |-> last] ELSE Border(g, order, last, 1)

(* mb_buddy_mark_free, from one order up.                                  *)
RECURSIVE MarkFree(_, _, _, _)
MarkFree(g, order, first, last) ==
  LET left == FirstBorder(g, order, first)
      right == LastBorder(left.group, order, last)
      rest == left.bit..right.bit
  IN CASE rest = {} -> right.group
       [] rest # {} /\ order = MaxOrder ->
            FoldSet(LAMBDA bit, h : Added(h, order, bit), right.group, rest)
       [] OTHER -> MarkFree(right.group, order + 1, left.bit \div 2, right.bit \div 2)

(* mb_free_blocks.  Order zero is the bitmap itself, so its borders are    *)
(* only counted.                                                           *)
FreeBlocks(g, start, count) ==
  LET end == start + count - 1
      left == LeftFree(g, start)
      right == RightFree(g, end)
      first == IF start % 2 = 1 /\ ~left THEN start + 1 ELSE start
      last == IF end % 2 = 0 /\ ~right THEN end - 1 ELSE end
      alone == (IF start % 2 = 0 THEN 0 ELSE IF left THEN -1 ELSE 1)
             + (IF end % 2 = 1 THEN 0 ELSE IF right THEN -1 ELSE 1)
      counted == [g EXCEPT !.busy = @ \ Span(start, count), !.free = @ + count,
                           !.firstFree = IF start < @ THEN start ELSE @,
                           !.fragments = @ - Fragments(left, right),
                           !.counters[0] = @ + alone]
  IN IF first <= last THEN MarkFree(counted, 1, first \div 2, last \div 2)
     ELSE counted

-----------------------------------------------------------------------------
(* ext5_mb_use_best_found, with what a search found, at most the goal.     *)
Use ==
  \E block \in Bit, goal \in 1..Size :
    /\ IsFree(group, block)
    /\ LET len == FindExtent(group, block, goal)
       IN group' = MarkUsed(group, block, Min({len, goal}))

Free ==
  \E first \in Bit, count \in 1..Size :
    /\ first + count <= Size /\ Span(first, count) \subseteq group.busy
    /\ group' = FreeBlocks(group, first, count)

BuddyNext == Use \/ Free
BuddySpec == BuddyInit /\ [][BuddyNext]_buddyVars

-----------------------------------------------------------------------------
BuddyTypeOK ==
  /\ group.busy \subseteq Bit
  /\ group.chunks \subseteq (Order \ {0}) \X (0..(Size \div 2))
  /\ group.counters \in [Order -> Int]
  /\ {group.fragments, group.free, group.firstFree} \subseteq Int

(* Every allocation and every free leaves what __mb_check_buddy asserts and*)
(* more: the buddy, its counters and its fragments are what generating     *)
(* them from the bitmap would give, no free block lies below               *)
(* bb_first_free, and mb_find_extent finds free blocks only, as many as    *)
(* are needed or as there are.                                             *)
IsBitmap(g) ==
  LET fresh == Generated(g.busy)
  IN /\ g.chunks = fresh.chunks
     /\ g.counters = fresh.counters
     /\ g.fragments = fresh.fragments /\ g.free = fresh.free
     /\ g.firstFree <= fresh.firstFree
     /\ \A block \in Bit \ g.busy, needed \in 1..Size :
          LET len == FindExtent(g, block, needed)
          IN /\ Span(block, len) \cap g.busy = {}
             /\ len < needed => block + len \in g.busy \cup {Size}

BuddyIsBitmap == [][group' # group => IsBitmap(group')]_buddyVars
=============================================================================
