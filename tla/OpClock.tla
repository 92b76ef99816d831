------------------------------ MODULE OpClock ------------------------------
(***************************************************************************)
(* The namespace-operation clock of a mount: a shared counter fed by       *)
(* per-CPU batches, the switch between batched and precise ticks, and the  *)
(* readers that add the counters up without a lock or a barrier.           *)
(***************************************************************************)
EXTENDS Integers, FiniteSets

CONSTANTS Cpu,       \* CPUs that tick
          Reader,    \* callers of the two read functions
          Clock,     \* names li_op_clock among the counters a reader adds up
          Batch,     \* EXT5_LI_OPCLOCK_BATCH (64)
          MaxTicks   \* bound: operations counted

ASSUME OpClockAssumption ==
  /\ IsFiniteSet(Cpu) /\ Clock \notin Cpu
  /\ Batch \in Nat \ {0} /\ MaxTicks \in Nat

VARIABLES
  clock,    \* li_op_clock
  local,    \* per CPU: li_op_pending
  publish,  \* per CPU: where it is in publishing a batch, preemption off
  precise,  \* the quiet threshold is at most a batch per CPU
  ticks,    \* history: operations counted
  read      \* per reader: counters left to add, the sum so far, whether
            \* the mode is to be asked for; history: ticks at its start

clockVars ==
  <<clock, local, publish, precise, ticks, read>>

Reading == [left : SUBSET (Cpu \cup {Clock}), sum : Nat,
            ask : BOOLEAN, since : Nat]

ClockInit ==
  /\ clock = 0
  /\ local = [c \in Cpu |-> 0]
  /\ publish = [c \in Cpu |-> "no"]
  /\ precise \in BOOLEAN
  /\ ticks = 0
  /\ read = [r \in Reader |-> [left |-> {}, sum |-> 0, ask |-> FALSE,
                               since |-> 0]]

-----------------------------------------------------------------------------
(* ext5_li_op_tick: without batches ...                                    *)
TickPrecise(c) ==
  /\ precise
  /\ publish[c] = "no"
  /\ ticks < MaxTicks
  /\ clock' = clock + 1
  /\ ticks' = ticks + 1
  /\ UNCHANGED <<local, publish, precise, read>>

(* Mutant: a batch is full one tick late.                                  *)
TickLate(c) ==
  /\ ~precise
  /\ publish[c] = "no"
  /\ ticks < MaxTicks
  /\ local' = [local EXCEPT ![c] = @ + 1]
  /\ publish' = [publish EXCEPT ![c] = IF local[c] + 1 > Batch
                                       THEN "add" ELSE "no"]
  /\ ticks' = ticks + 1
  /\ UNCHANGED <<clock, precise, read>>

(* ... with them: count on this CPU, and publish a full batch.             *)
Tick(c) ==
  /\ ~precise
  /\ publish[c] = "no"
  /\ ticks < MaxTicks
  /\ local' = [local EXCEPT ![c] = @ + 1]
  /\ publish' = [publish EXCEPT ![c] = IF local[c] + 1 >= Batch
                                       THEN "add" ELSE "no"]
  /\ ticks' = ticks + 1
  /\ UNCHANGED <<clock, precise, read>>

(* Publish before clearing.                                                *)
Add(c) ==
  /\ publish[c] = "add"
  /\ clock' = clock + Batch
  /\ publish' = [publish EXCEPT ![c] = "clear"]
  /\ UNCHANGED <<local, precise, ticks, read>>

(* Mutant: the CPU's counter is not reset.                                 *)
ClearNothing(c) ==
  /\ publish[c] = "clear"
  /\ publish' = [publish EXCEPT ![c] = "no"]
  /\ UNCHANGED <<clock, local, precise, ticks, read>>

Clear(c) ==
  /\ publish[c] = "clear"
  /\ local' = [local EXCEPT ![c] = 0]
  /\ publish' = [publish EXCEPT ![c] = "no"]
  /\ UNCHANGED <<clock, precise, ticks, read>>

(* ext5_li_recompute_quiet_threshold, sysfs: the threshold crosses a batch *)
(* per CPU.                                                                *)
Retune ==
  /\ precise' = ~precise
  /\ UNCHANGED <<clock, local, publish, ticks, read>>

-----------------------------------------------------------------------------
Done(r) == read[r].left = {} /\ ~read[r].ask

(* ext5_li_op_clock_now_exact adds up every counter ...                    *)
ReadExact(r) ==
  /\ Done(r)
  /\ read' = [read EXCEPT
       ![r] = [left |-> Cpu \cup {Clock}, sum |-> 0, ask |-> FALSE,
               since |-> ticks]]
  /\ UNCHANGED <<clock, local, publish, precise, ticks>>

(* ... ext5_li_op_now the shared one ...                                   *)
ReadNow(r) ==
  /\ Done(r)
  /\ read' = [read EXCEPT
       ![r] = [left |-> {Clock}, sum |-> 0, ask |-> TRUE, since |-> ticks]]
  /\ UNCHANGED <<clock, local, publish, precise, ticks>>

(* ... and, unless ticks are precise by now, the CPUs' own.                *)
ReadMode(r) ==
  /\ read[r].ask
  /\ read' = [read EXCEPT
       ![r].ask = FALSE,
       ![r].left = IF precise THEN @ ELSE @ \cup Cpu]
  /\ UNCHANGED <<clock, local, publish, precise, ticks>>

(* One load; nothing orders it before or after the others.                 *)
ReadNext(r, x) ==
  /\ x \in read[r].left
  /\ read' = [read EXCEPT ![r].left = @ \ {x},
                          ![r].sum = @ + (IF x = Clock THEN clock
                                          ELSE local[x])]
  /\ UNCHANGED <<clock, local, publish, precise, ticks>>

ClockNext ==
  \/ \E c \in Cpu : TickPrecise(c) \/ Tick(c) \/ Add(c) \/ Clear(c)
  \/ Retune
  \/ \E r \in Reader :
       ReadExact(r) \/ ReadNow(r) \/ ReadMode(r)
         \/ \E x \in Cpu \cup {Clock} : ReadNext(r, x)

ClockSpec == ClockInit /\ [][ClockNext]_clockVars
-----------------------------------------------------------------------------
ClockTypeOK ==
  /\ clock \in Nat
  /\ local \in [Cpu -> 0..Batch]
  /\ publish \in [Cpu -> {"no", "add", "clear"}]
  /\ precise \in BOOLEAN
  /\ ticks \in 0..MaxTicks
  /\ read \in [Reader -> Reading]

(* No operation is lost or counted twice in the counters themselves, but   *)
(* for the batches that are published and not yet cleared, whatever the    *)
(* mode was when it ticked: the shared counter and, one element for each   *)
(* tick of a CPU, the unpublished ones make up all of them.                *)
Pending(c) == IF publish[c] = "clear" THEN 0 ELSE local[c]
Unpublished == {t \in Cpu \X (1..Batch) : t[2] <= Pending(t[1])}
EveryTickCounted == clock + Cardinality(Unpublished) = ticks

(* A finished read is off by at most a batch per CPU in either direction,  *)
(* although batches are published under it, its loads are unordered and    *)
(* the mode may change: that is the error the policy's comparisons of the  *)
(* clock with a directory's last change (ext5_li_op_distance) must stand.  *)
Slack == Batch * Cardinality(Cpu)
ReadWithinBatches ==
  \A r \in Reader :
    Done(r) => /\ read[r].since <= read[r].sum + Slack
               /\ read[r].sum <= ticks + Slack

(* The counters count every operation, and a read of them is off by the    *)
(* batches in flight and no more.                                          *)
ClockWithinBatches == EveryTickCounted /\ ReadWithinBatches
=============================================================================
