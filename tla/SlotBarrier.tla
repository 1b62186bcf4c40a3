---------------------------- MODULE SlotBarrier ----------------------------
(***************************************************************************)
(* What the timer of the simulator promises to the threads that use it.    *)
(*                                                                         *)
(* timer.c implements a clock shared by a set of devices (the CPUs and the *)
(* loader).  A device works in the current slot, then either says that it  *)
(* has finished the slot (next_slot) or leaves for good (detach_event).    *)
(* The clock advances only when no device is working, and the advance puts *)
(* every device that is still attached to work in the next slot.           *)
(*                                                                         *)
(* Readers of the clock only compare it with start times, so it saturates  *)
(* at Horizon, a bound no start time exceeds: that keeps the states of a   *)
(* simulation that never stops finite.                                     *)
(***************************************************************************)
EXTENDS Integers

CONSTANTS Device,   \* the devices attached to the timer
          Horizon   \* in Nat: the clock is not distinguished beyond it

VARIABLES clock,    \* the current slot, saturating at Horizon
          st        \* what each device is doing in that slot

barrierVars == <<clock, st>>

Ticked(t) == IF t < Horizon THEN t + 1 ELSE t

Init ==
  /\ clock = 0
  /\ st = [d \in Device |-> "working"]

(* next_slot: the device has done its job in the current slot.             *)
Finish(d) ==
  /\ st[d] = "working"
  /\ st' = [st EXCEPT ![d] = "finished"]
  /\ UNCHANGED clock

(* detach_event: the device will not take part in any further slot.        *)
Leave(d) ==
  /\ st[d] = "working"
  /\ st' = [st EXCEPT ![d] = "left"]
  /\ UNCHANGED clock

(* One round of timer_routine, seen from the devices.                      *)
Advance ==
  /\ \A d \in Device : st[d] # "working"
  /\ clock' = Ticked(clock)
  /\ st' = [d \in Device |-> IF st[d] = "finished" THEN "working" ELSE st[d]]

Next ==
  \/ \E d \in Device : Finish(d) \/ Leave(d)
  \/ Advance

(* The timer serves the devices that wait for it, and nothing more: when   *)
(* all of them have left, the clock may stop.                              *)
Fairness ==
  WF_barrierVars(Advance /\ \E d \in Device : st[d] = "finished")

SafeSpec == Init /\ [][Next]_barrierVars
Spec == SafeSpec /\ Fairness
=============================================================================
