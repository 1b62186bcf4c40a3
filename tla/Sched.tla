------------------------------- MODULE Sched -------------------------------
(***************************************************************************)
(* The multi-level ready queue (src/queue.c and src/sched.c as they are    *)
(* built, with MLQ_SCHED).                                                 *)
(*                                                                         *)
(* sched.c keeps one queue per priority and one lock, queue_lock, around   *)
(* every operation, so each operation is one action.  The actions here     *)
(* change only the scheduler's own variables; the modules that use them    *)
(* say who calls them and what the caller does with the result.            *)
(*                                                                         *)
(* A queue is the sequence of its processes (the size field is its         *)
(* length).  The ready_queue and run_queue of sched.c are not used in an   *)
(* MLQ build.                                                              *)
(***************************************************************************)
EXTENDS Integers, SequencesExt

CONSTANTS Proc,             \* the processes (pcb_t)
          NoProc,           \* the NULL process pointer
          MAX_PRIO,         \* number of priority levels, 0 being the highest
          MAX_QUEUE_SIZE    \* capacity of each queue

ASSUME NoProcAssumption == NoProc \notin Proc
ASSUME MaxPrioAssumption == MAX_PRIO \in Nat \ {0}
ASSUME MaxQueueSizeAssumption == MAX_QUEUE_SIZE \in Nat

Prio == 0 .. MAX_PRIO - 1

VARIABLES prio,             \* the prio field of each process
          mlq_ready_queue,  \* the queue of each level
          slot              \* the dispatches each level has left

schedVars == <<mlq_ready_queue, slot>>

-----------------------------------------------------------------------------
(* queue.c                                                                 *)

Empty(q) == Len(q) = 0

(* Variant: the capacity off by one.                                       *)
EnqueueOneLess(q, p) == IF Len(q) < MAX_QUEUE_SIZE - 1 THEN Append(q, p) ELSE q

(* A full queue ignores the process.                                       *)
Enqueue(q, p) == IF Len(q) < MAX_QUEUE_SIZE THEN Append(q, p) ELSE q

(* The first of the processes with the least prio.                         *)
HighestPrioIndex(q) ==
  CHOOSE i \in DOMAIN q :
    /\ \A j \in 1 .. i - 1 : prio[q[i]] < prio[q[j]]
    /\ \A j \in DOMAIN q : prio[q[i]] <= prio[q[j]]

-----------------------------------------------------------------------------
(* sched.c                                                                 *)

FullSlot == [l \in Prio |-> MAX_PRIO - l]

InitScheduler ==
  /\ mlq_ready_queue = [l \in Prio |-> <<>>]
  /\ slot = FullSlot

(* Variant: the slots are not consulted.                                   *)
EligibleWithoutSlots(s) == {l \in Prio : ~Empty(mlq_ready_queue[l])}

(* The levels from which a process may be taken when the slots are s.      *)
Eligible(s) == {l \in Prio : s[l] > 0 /\ ~Empty(mlq_ready_queue[l])}

(* Variant: the levels are scanned from the lowest priority.               *)
IsLowest(l, levels) == l \in levels /\ \A m \in levels : m <= l

IsHighest(l, levels) == l \in levels /\ \A m \in levels : l <= m

(* Variants: the process stays in the queue; its slot is not counted.      *)
TakeWithoutRemoval(s, l, p) ==
  /\ p = mlq_ready_queue[l][HighestPrioIndex(mlq_ready_queue[l])]
  /\ slot' = [s EXCEPT ![l] = @ - 1]
  /\ UNCHANGED mlq_ready_queue
TakeUncounted(s, l, p) ==
  LET q == mlq_ready_queue[l]
      i == HighestPrioIndex(q)
  IN /\ p = q[i]
     /\ mlq_ready_queue' = [mlq_ready_queue EXCEPT ![l] = RemoveAt(q, i)]
     /\ slot' = s

(* Variant: the last process of the queue is moved into the gap.           *)
TakeAndFillGap(s, l, p) ==
  LET q == mlq_ready_queue[l]
      i == HighestPrioIndex(q)
  IN /\ p = q[i]
     /\ mlq_ready_queue' = [mlq_ready_queue EXCEPT
          ![l] = [k \in 1 .. Len(q) - 1 |-> IF k = i THEN Last(q) ELSE q[k]]]
     /\ slot' = [s EXCEPT ![l] = @ - 1]

(* Take the process p from level l, the slots having been s.               *)
Take(s, l, p) ==
  LET q == mlq_ready_queue[l]
      i == HighestPrioIndex(q)
  IN /\ p = q[i]
     /\ mlq_ready_queue' = [mlq_ready_queue EXCEPT ![l] = RemoveAt(q, i)]
     /\ slot' = [s EXCEPT ![l] = @ - 1]

(* One scan of the levels with the slots s.                                *)
TakeHighest(s, p) == \E l \in Prio : IsHighest(l, Eligible(s)) /\ Take(s, l, p)

(* Variant: the slots are given back, but the levels not scanned again.    *)
GetProcNoRetry(p) ==
  \/ TakeHighest(slot, p)
  \/ /\ Eligible(slot) = {}
     /\ p = NoProc
     /\ slot' = FullSlot
     /\ UNCHANGED mlq_ready_queue

(* get_proc: when no level is eligible, all slots are given back and the   *)
(* levels are scanned once more.                                           *)
GetProc(p) ==
  \/ TakeHighest(slot, p)
  \/ Eligible(slot) = {} /\ TakeHighest(FullSlot, p)
  \/ /\ Eligible(slot) = {} /\ Eligible(FullSlot) = {}
     /\ p = NoProc
     /\ slot' = FullSlot
     /\ UNCHANGED mlq_ready_queue

(* put_proc and add_proc.                                                  *)
PutProc(p) ==
  /\ mlq_ready_queue' = [mlq_ready_queue EXCEPT ![prio[p]] = Enqueue(@, p)]
  /\ UNCHANGED slot

AddProc(p) ==
  /\ mlq_ready_queue' = [mlq_ready_queue EXCEPT ![prio[p]] = Enqueue(@, p)]
  /\ UNCHANGED slot
=============================================================================
