---------------------------- MODULE RadixSpline ----------------------------
(***************************************************************************)
(* The learned index of a base generation: the greedy spline over the      *)
(* sorted slot keys with its radix table (sfs_rs_build), and the lookup    *)
(* that searches the slots only inside the window the spline predicts.     *)
(*                                                                         *)
(* A key is the parent's PLID and the hash of the name; names with equal   *)
(* hashes give equal keys.  Ranks and slots count from 0 as in the code.   *)
(***************************************************************************)
EXTENDS Integers, Sequences, FiniteSets

CONSTANTS Parents,    \* PLIDs are 0..Parents-1
          Hashes,     \* hashes are 0..Hashes-1 (2^32)
          MaxKeys,    \* bound: slots of the base
          ErrorBounds,\* values of li_spline_epsilon
          RadixBits   \* values sfs_rs_auto_radix_bits may take

ASSUME RadixSplineAssumption ==
  /\ Parents \in Nat \ {0}
  /\ Hashes \in Nat \ {0}
  /\ MaxKeys \in Nat \ {0}
  /\ ErrorBounds \subseteq Nat \ {0}
  /\ RadixBits \subseteq Nat \ {0}

VARIABLES
  keys,       \* keys[i]: key of slot i, nondecreasing
  maxError,   \* total_error
  corridor,   \* corridor_error, what is left after the longest run
  shift,      \* shift_bits
  pc,         \* "add" keys, "finish", "validate", "done" or "failed"
  next,       \* the next slot to add
  points,     \* spline points, 1-based here
  radix,      \* radix[p]: first point (0-based) to look at for prefix p
  prefix,     \* previous_prefix
  upper,      \* upper_limit
  lower,      \* lower_limit
  previous    \* previous_point

splineVars ==
  <<keys, maxError, corridor, shift, pc, next, points, radix, prefix,
    upper, lower, previous>>

Key == 0..Parents * Hashes - 1
Plid(key) == key \div Hashes

Least(S) == CHOOSE x \in S : \A y \in S : x <= y
Most(S) == CHOOSE x \in S : \A y \in S : x >= y
Lesser(a, b) == IF a <= b THEN a ELSE b
Greater(a, b) == IF a >= b THEN a ELSE b

NumKeys == Cardinality(DOMAIN keys)
MinKey == keys[0]
MaxKey == keys[NumKeys - 1]

Coord(x, y) == [x |-> x, y |-> y]

-----------------------------------------------------------------------------
(* The longest run of equal keys, which the callers of sfs_rs_build count. *)
CollisionRun(ks) ==
  Most({Cardinality({i \in DOMAIN ks : ks[i] = k}) : k \in {ks[i] : i \in DOMAIN ks}})

(* sfs_rs_bit_width.                                                       *)
BitWidth(v) == Least({w \in 0..v : v < 2^w})

(* The shift that leaves a prefix of so many bits of the largest delta.    *)
ShiftFor(bits) == LET width == BitWidth(MaxKey - MinKey)
                  IN  IF width > bits THEN width - bits ELSE 0

RadixCount == ((MaxKey - MinKey) \div 2^shift) + 2

(* sfs_rs_prefix.                                                          *)
Prefix(key) == IF key <= MinKey THEN 0
               ELSE Lesser((key - MinKey) \div 2^shift, RadixCount - 2)

(* Mutant: the run's first slot is forgotten.                              *)
CorridorWide(error, run) == error

(* What is left of the error bound for distinct keys.                      *)
Corridor(error, run) == error - (run - 1)

(* sfs_rs_build's checks, for the nondecreasing keys of a sorted base.     *)
SplineInit ==
  /\ \E n \in 1..MaxKeys :
       keys \in {ks \in [0..n - 1 -> Key] :
                   \A i \in 1..n - 1 : ks[i - 1] <= ks[i]}
  /\ maxError \in {e \in ErrorBounds : CollisionRun(keys) <= e}
  /\ corridor = Corridor(maxError, CollisionRun(keys))
  /\ \E bits \in RadixBits : shift = ShiftFor(bits)
  /\ pc = "add"
  /\ next = 0
  /\ points = <<>>
  /\ radix = [p \in 0..RadixCount - 1 |-> 0]
  /\ prefix = 0
  /\ upper = Coord(0, 0)
  /\ lower = Coord(0, 0)
  /\ previous = Coord(0, 0)

-----------------------------------------------------------------------------
(* sfs_rs_add_point with sfs_rs_add_radix: the prefixes up to the point's  *)
(* start at the point.                                                     *)
AddPoint(point) ==
  LET p == Prefix(point.x)
  IN  /\ points' = Append(points, point)
      /\ radix' = [q \in DOMAIN radix |->
                     IF prefix < q /\ q <= p THEN Len(points) ELSE radix[q]]
      /\ prefix' = p

Full == Len(points) >= NumKeys

(* sfs_rs_orientation by exact cross products: which way (dx2, dy2) lies   *)
(* from (dx1, dy1).                                                        *)
Clockwise(dx1, dy1, dx2, dy2) == dy1 * dx2 > dy2 * dx1
CounterClockwise(dx1, dy1, dx2, dy2) == dy1 * dx2 < dy2 * dx1

Newest == points[Len(points)]

(* Seen from the last point, does a lie above b (below b)?                 *)
Above(a, b) == Clockwise(a.x - Newest.x, a.y - Newest.y, b.x - Newest.x, b.y - Newest.y)
Below(a, b) == CounterClockwise(a.x - Newest.x, a.y - Newest.y,
                                b.x - Newest.x, b.y - Newest.y)

High(point) == Coord(point.x, point.y + corridor)

Low(point) == Coord(point.x, IF point.y < corridor THEN 0
                             ELSE point.y - corridor)

AddedKeys == {keys[i] : i \in 0..next - 1}

(* A slot whose key is the one before it adds nothing.                     *)
SkipDuplicate ==
  /\ pc = "add"
  /\ next \in DOMAIN keys
  /\ keys[next] \in AddedKeys
  /\ next' = next + 1
  /\ UNCHANGED <<keys, maxError, corridor, shift, pc, points, radix, prefix,
                 upper, lower, previous>>

(* sfs_rs_add_distinct: the first key is a point, the second opens the     *)
(* corridor ...                                                            *)
AddFirst ==
  /\ pc = "add"
  /\ next = 0
  /\ AddPoint(Coord(keys[0], 0))
  /\ previous' = Coord(keys[0], 0)
  /\ next' = 1
  /\ UNCHANGED <<keys, maxError, corridor, shift, pc, upper, lower>>

NewKey == pc = "add" /\ next \in DOMAIN keys /\ keys[next] \notin AddedKeys

AddSecond ==
  LET here == Coord(keys[next], next)
  IN  /\ NewKey
      /\ Cardinality(AddedKeys) = 1
      /\ upper' = High(here)
      /\ lower' = Low(here)
      /\ previous' = here
      /\ next' = next + 1
      /\ UNCHANGED <<keys, maxError, corridor, shift, pc, points, radix,
                     prefix>>

(* ... a key outside the corridor makes its predecessor a point ...        *)
AddOutside ==
  LET here == Coord(keys[next], next)
  IN  /\ NewKey
      /\ Cardinality(AddedKeys) >= 2
      /\ ~Above(upper, here) \/ ~Below(lower, here)
      /\ IF Full THEN pc' = "failed" /\ UNCHANGED <<points, radix, prefix>>
                 ELSE UNCHANGED pc /\ AddPoint(previous)
      /\ upper' = High(here)
      /\ lower' = Low(here)
      /\ previous' = here
      /\ next' = next + 1
      /\ UNCHANGED <<keys, maxError, corridor, shift>>

(* Mutant: the corridor is not narrowed.                                   *)
AddInsideWide ==
  LET here == Coord(keys[next], next)
  IN  /\ NewKey
      /\ Cardinality(AddedKeys) >= 2
      /\ Above(upper, here) /\ Below(lower, here)
      /\ previous' = here
      /\ next' = next + 1
      /\ UNCHANGED <<keys, maxError, corridor, shift, pc, points, radix,
                     prefix, upper, lower>>

(* ... and a key inside narrows it.                                        *)
AddInside ==
  LET here == Coord(keys[next], next)
  IN  /\ NewKey
      /\ Cardinality(AddedKeys) >= 2
      /\ Above(upper, here) /\ Below(lower, here)
      /\ upper' = IF Above(upper, High(here)) THEN High(here) ELSE upper
      /\ lower' = IF Below(lower, Low(here)) THEN Low(here) ELSE lower
      /\ previous' = here
      /\ next' = next + 1
      /\ UNCHANGED <<keys, maxError, corridor, shift, pc, points, radix,
                     prefix>>

(* The last slot, not the last distinct key, ends the spline.              *)
AddEnd ==
  LET end == Coord(MaxKey, NumKeys - 1)
  IN  /\ pc = "add"
      /\ next = NumKeys
      /\ IF Newest = end THEN pc' = "finish" /\ UNCHANGED <<points, radix, prefix>>
         ELSE IF Full THEN pc' = "failed" /\ UNCHANGED <<points, radix, prefix>>
         ELSE pc' = "finish" /\ AddPoint(end)
      /\ UNCHANGED <<keys, maxError, corridor, shift, next, upper, lower,
                     previous>>

-----------------------------------------------------------------------------
(* sfs_rs_segment: the first point not below the key, between those the    *)
(* radix table gives for its prefix and the next; never the first.  The    *)
(* code scans short ranges and bisects long ones.                          *)
Segment(key) ==
  LET count == Len(points)
      p == Prefix(key)
      begin == Lesser(radix[p], count - 1)
      end == Greater(Lesser(radix[p + 1], count), begin + 1)
      found == Least({q \in begin..end - 1 : points[q + 1].x >= key} \cup {end})
  IN  Greater(1, Lesser(found, count - 1))

(* sfs_rs_estimate and ext5_stable_rs_estimate: interpolate and round down.*)
Estimate(key) ==
  IF key <= MinKey THEN 0
  ELSE IF key >= MaxKey THEN NumKeys - 1
  ELSE IF Len(points) = 1 THEN points[1].y
  ELSE LET s == Segment(key)
           down == points[s]
           up == points[s + 1]
       IN  IF up.x <= down.x THEN down.y
           ELSE Lesser(down.y + ((key - down.x) * (up.y - down.y))
                                  \div (up.x - down.x),
                       NumKeys - 1)

(* sfs_rs_get_bound.                                                       *)
Window(key) ==
  LET e == Estimate(key)
  IN  Greater(0, e - maxError)..Lesser(NumKeys, e + maxError + 2) - 1

(* sfs_rs_finish_radix: the remaining prefixes start behind the points.    *)
Finish ==
  /\ pc = "finish"
  /\ radix' = [q \in DOMAIN radix |->
                 IF q > prefix THEN Len(points) ELSE radix[q]]
  /\ pc' = "validate"
  /\ UNCHANGED <<keys, maxError, corridor, shift, next, points, prefix, upper,
                 lower, previous>>

(* sfs_rs_validate tries every slot.                                       *)
Validate ==
  /\ pc = "validate"
  /\ pc' = IF \A i \in DOMAIN keys : i \in Window(keys[i])
           THEN "done" ELSE "failed"
  /\ UNCHANGED <<keys, maxError, corridor, shift, next, points, radix, prefix,
                 upper, lower, previous>>

SplineNext ==
  \/ SkipDuplicate
  \/ AddFirst
  \/ AddSecond
  \/ AddOutside
  \/ AddInside
  \/ AddEnd
  \/ Finish
  \/ Validate

SplineSpec == SplineInit /\ [][SplineNext]_splineVars
-----------------------------------------------------------------------------
(* Mutant: a parent's slots begin one parent late.                         *)
ParentIndexLate(plid) ==
  Least({i \in DOMAIN keys : Plid(keys[i]) > plid} \cup {NumKeys})

(* parent_index: where the slots of a parent begin.                        *)
ParentIndex(plid) ==
  Least({i \in DOMAIN keys : Plid(keys[i]) >= plid} \cup {NumKeys})

(* ext5_stable_lookup_range and the search in it: the window cut to the    *)
(* parent's slots, its lower bound, and from there the slots that hold     *)
(* the key, each of which is compared with the name.                       *)
Compared(key) ==
  LET range == Window(key) \cap
                 (ParentIndex(Plid(key))..ParentIndex(Plid(key) + 1) - 1)
      low == {i \in range : keys[i] >= key}
  IN  {i \in low : \A j \in Least(low)..i : keys[j] = key}

-----------------------------------------------------------------------------
SplineTypeOK ==
  /\ corridor \in 1..maxError
  /\ pc \in {"add", "finish", "validate", "done", "failed"}
  /\ next \in 0..NumKeys
  /\ points \in Seq([x : Key, y : 0..MaxKeys - 1])
  /\ Len(points) <= NumKeys
  /\ radix \in [0..RadixCount - 1 -> 0..NumKeys]
  /\ prefix \in 0..RadixCount - 2
  /\ upper \in [x : Key, y : Nat]
  /\ lower \in [x : Key, y : Nat]
  /\ previous \in [x : Key, y : 0..MaxKeys - 1]

(* While keys are added (sfs_rs_add_distinct), the line from the last      *)
(* spline point to the newest key passes every key in between within the   *)
(* corridor error, so that the next point may always be the newest key.    *)
CorridorHolds ==
  pc = "add" /\ next > 0 =>
    \A i \in 0..next - 1 :
      keys[i] > Newest.x /\ (\A j \in 0..i - 1 : keys[j] < keys[i]) =>
        LET width == previous.x - Newest.x
            error == (previous.y - Newest.y) * (keys[i] - Newest.x)
                       - (i - Newest.y) * width
        IN  -corridor * width <= error /\ error <= corridor * width

(* Every key set whose longest run of equal keys fits the error bound gets *)
(* an index: no spline outgrows its array and the final check of every     *)
(* slot (sfs_rs_validate), equal keys and the forced end point included,   *)
(* never fails, so no promotion or compaction is refused for its keys.     *)
(* And every name of the base is compared when it is looked up: its slot   *)
(* is in the window, in its parent's slots and behind the lower bound      *)
(* found there (ext5_stable_lookup_rs).                                    *)
EveryNameCompared ==
  /\ pc # "failed"
  /\ pc = "done" => \A i \in DOMAIN keys : i \in Compared(keys[i])
=============================================================================
