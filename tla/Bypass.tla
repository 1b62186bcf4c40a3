------------------------------- MODULE Bypass -------------------------------
(***************************************************************************)
(* Who is served before whom: Dispatcher with two history variables.       *)
(* Between levels, how long the policy of src/sched.c can make one wait:   *)
(* bypass counts the dispatches from other levels since the level became   *)
(* non-empty or was last served.  Within a level, whether the array of     *)
(* src/queue.c keeps the order of arrival: ahead has the processes that    *)
(* were in the queue of a process when it came and have not left since.    *)
(***************************************************************************)
EXTENDS Dispatcher

VARIABLES bypass, ahead

bypassVars == <<vars, bypass, ahead>>

(* The levels a process is taken from in this step (at most one).          *)
Served == {prio[on'[c]] : c \in {d \in CPU : on[d] = NoProc /\ on'[d] # NoProc}}

(* The processes that CPUs get in this step, and those that come to be in  *)
(* a queue (of both at most one).                                          *)
Taken == {on'[c] : c \in {d \in CPU : on[d] = NoProc /\ on'[d] # NoProc}}
Arrived == {p \in Proc : ~Queued(p) /\ Queued(p)'}

(* For each level the slots of the higher ones, and those of all levels at *)
(* MAX_PRIO.                                                               *)
Above(slots) ==
  LET sum[l \in 0 .. MAX_PRIO] ==
        IF l = 0 THEN 0 ELSE sum[l - 1] + slots[l - 1]
  IN sum
AllOf(slots) == Above(slots)[MAX_PRIO]

MostBypasses(l) == AllOf(FullSlot) - FullSlot[l] + Above(FullSlot)[l]

(* Bound: the count stops one past the most that BoundedBypass allows.     *)
CountBypass ==
  bypass' = [l \in Prio |->
               IF l \in Served \/ Empty(mlq_ready_queue[l]) THEN 0
               ELSE Min({bypass[l] + Cardinality(Served), MostBypasses(l) + 1})]

RecordOrder ==
  ahead' = [p \in Proc |->
              IF p \in Arrived THEN {r \in Proc : Queued(r) /\ prio[r] = prio[p]}
              ELSE ahead[p] \ Taken]

BypassInit ==
  /\ Init
  /\ bypass = [l \in Prio |-> 0] /\ ahead = [p \in Proc |-> {}]
BypassNext == Next /\ CountBypass /\ RecordOrder
BypassSafeSpec == BypassInit /\ [][BypassNext]_bypassVars
BypassSpec == BypassSafeSpec /\ Fairness

-----------------------------------------------------------------------------
(* Properties                                                              *)

(* No starvation, with its exact price.  While level l is waiting, the     *)
(* other levels are served at most once per slot they have left in this    *)
(* round and, when l has none left, once per slot of the higher levels in  *)
(* the next one.  So the bypasses already suffered and those that remain   *)
(* never exceed the slots of all other levels plus those of the higher.    *)
Remaining(l) == IF slot[l] > 0 THEN Above(slot)[l]
                ELSE AllOf(slot) + Above(FullSlot)[l]
BoundedBypass ==
  \A l \in Prio :
    ~Empty(mlq_ready_queue[l]) =>
      bypass[l] + Remaining(l) <= MostBypasses(l)

(* No process overtakes another of its priority: whoever was in the queue  *)
(* when it was put there, by add_proc or by put_proc, is dispatched before *)
(* it, wherever enqueue writes and however dequeue closes its gap.         *)
FIFOWithinLevel == [][\A p \in Taken : ahead[p] = {}]_bypassVars
=============================================================================
