------------------------------- MODULE Timer -------------------------------
(***************************************************************************)
(* The slot timer of the simulator (src/timer.c) with the threads that use *)
(* it: the timer thread, the device threads (num_cpus CPUs and the loader) *)
(* and main, which attaches the devices, starts the timer, creates and     *)
(* joins the device threads and stops the timer.                           *)
(*                                                                         *)
(* Granularity.  The two mutexes of a device (event_lock, timer_lock) only *)
(* ever protect one short critical section at a time, so a critical        *)
(* section is one step; blocking in pthread_cond_wait releases the mutex   *)
(* and ends the step, and a woken thread starts again with the test of its *)
(* loop.  A signal wakes a thread that is blocked and is lost otherwise.   *)
(*                                                                         *)
(* Container k is the k-th one attach_event made.  A new container goes to *)
(* the head of dev_list, so the successor of container k is k - 1 and 0 is *)
(* the end of the list.                                                    *)
(***************************************************************************)
EXTENDS Integers

CONSTANTS N,         \* number of attached devices: num_cpus + 1
          MaxSlots   \* bound: slots a device works in before it detaches

ASSUME NAssumption == N \in Nat \ {0}
ASSUME MaxSlotsAssumption == MaxSlots \in Nat

Device == 1 .. N
NULL == 0

VARIABLES
  dev_list,       \* head of the list of containers
  timer_stop,     \* set by stop_timer
  time,           \* _time
  done, fsh,      \* the flags of each device
  tpc, temp,      \* the timer thread: where it is, and its list cursor
  nfsh, nevent,   \* its locals fsh and event
  dpc,            \* where each device thread is
  mpc,            \* where main is
  slots           \* history: slots each device has declared finished

timerVars == <<tpc, temp, nfsh, nevent>>
vars == <<dev_list, timer_stop, time, done, fsh, timerVars, dpc, mpc, slots>>

DeviceState == {"unborn", "run", "arrived", "parked", "gone"}

Init ==
  /\ dev_list = NULL /\ timer_stop = FALSE /\ time = 0
  /\ done = [d \in Device |-> FALSE]
  /\ fsh = [d \in Device |-> FALSE]
  /\ tpc = "off" /\ temp = NULL /\ nfsh = 0 /\ nevent = 0
  /\ dpc = [d \in Device |-> "unborn"]
  /\ mpc = "attach"
  /\ slots = [d \in Device |-> 0]

-----------------------------------------------------------------------------
(* main                                                                    *)

(* Variant: one container more than there are threads.                     *)
AttachEventOneMore ==
  /\ mpc = "attach" /\ dev_list <= N
  /\ dev_list' = dev_list + 1
  /\ UNCHANGED <<timer_stop, time, done, fsh, timerVars, dpc, mpc, slots>>

(* attach_event, before the timer is started.                              *)
AttachEvent ==
  /\ mpc = "attach" /\ dev_list < N
  /\ dev_list' = dev_list + 1
  /\ UNCHANGED <<timer_stop, time, done, fsh, timerVars, dpc, mpc, slots>>

(* start_timer: the timer thread runs before any device thread exists.     *)
StartTimer ==
  /\ mpc = "attach" /\ dev_list = N
  /\ mpc' = "create" /\ tpc' = "check"
  /\ UNCHANGED <<dev_list, timer_stop, time, done, fsh, temp, nfsh, nevent,
                 dpc, slots>>

(* pthread_create of the loader or of a CPU (the order is irrelevant).     *)
CreateThread(d) ==
  /\ mpc = "create" /\ dpc[d] = "unborn"
  /\ dpc' = [dpc EXCEPT ![d] = "run"]
  /\ UNCHANGED <<dev_list, timer_stop, time, done, fsh, timerVars, mpc, slots>>

(* All device threads joined, main enters stop_timer.                      *)
StopTimer ==
  /\ mpc = "create" /\ \A d \in Device : dpc[d] = "gone"
  /\ mpc' = "join" /\ timer_stop' = TRUE
  /\ UNCHANGED <<dev_list, time, done, fsh, timerVars, dpc, slots>>

(* The timer thread joined, the containers are freed.                      *)
FreeDevices ==
  /\ mpc = "join" /\ tpc = "exited"
  /\ mpc' = "end" /\ dev_list' = NULL
  /\ UNCHANGED <<timer_stop, time, done, fsh, timerVars, dpc, slots>>

-----------------------------------------------------------------------------
(* timer_routine                                                           *)

(* while (!timer_stop): start a round at the head of the list.             *)
TimerCheck ==
  /\ tpc = "check"
  /\ \/ /\ timer_stop
        /\ tpc' = "exited"
        /\ UNCHANGED <<temp, nfsh, nevent>>
     \/ /\ ~timer_stop
        /\ tpc' = "scan" /\ temp' = dev_list /\ nfsh' = 0 /\ nevent' = 0
  /\ UNCHANGED <<dev_list, timer_stop, time, done, fsh, dpc, mpc, slots>>

Arrived(d) == done[d] \/ fsh[d]

(* Variant: the loop counts the devices without waiting for them.          *)
TimerScanNoWait ==
  /\ tpc = "scan" /\ temp # NULL
  /\ nfsh' = IF fsh[temp] THEN nfsh + 1 ELSE nfsh
  /\ nevent' = nevent + 1
  /\ temp' = temp - 1
  /\ UNCHANGED <<dev_list, timer_stop, time, done, fsh, tpc, dpc, mpc, slots>>

(* The section under event_lock: block, or count the device and go on.     *)
TimerScan ==
  /\ tpc = "scan" /\ temp # NULL
  /\ \/ /\ ~Arrived(temp)
        /\ tpc' = "sleep"
        /\ UNCHANGED <<temp, nfsh, nevent>>
     \/ /\ Arrived(temp)
        /\ nfsh' = IF fsh[temp] THEN nfsh + 1 ELSE nfsh
        /\ nevent' = nevent + 1
        /\ temp' = temp - 1
        /\ UNCHANGED tpc
  /\ UNCHANGED <<dev_list, timer_stop, time, done, fsh, dpc, mpc, slots>>

(* A spurious wake-up of pthread_cond_wait on event_cond.                  *)
TimerSpurious ==
  /\ tpc = "sleep"
  /\ tpc' = "scan"
  /\ UNCHANGED <<dev_list, timer_stop, time, done, fsh, temp, nfsh, nevent,
                 dpc, mpc, slots>>

(* _time++, and back to the head of the list.                              *)
TimerTick ==
  /\ tpc = "scan" /\ temp = NULL
  /\ time' = time + 1
  /\ tpc' = "release" /\ temp' = dev_list
  /\ UNCHANGED <<dev_list, timer_stop, done, fsh, nfsh, nevent, dpc, mpc,
                 slots>>

(* Variant: done is cleared and nobody is signalled.                       *)
TimerReleaseNoSignal ==
  /\ tpc = "release" /\ temp # NULL
  /\ done' = [done EXCEPT ![temp] = FALSE]
  /\ temp' = temp - 1
  /\ UNCHANGED <<dev_list, timer_stop, time, fsh, tpc, nfsh, nevent, dpc, mpc,
                 slots>>

(* The section under timer_lock: clear done and signal timer_cond.         *)
TimerRelease ==
  /\ tpc = "release" /\ temp # NULL
  /\ done' = [done EXCEPT ![temp] = FALSE]
  /\ dpc' = [dpc EXCEPT ![temp] = IF @ = "parked" THEN "arrived" ELSE @]
  /\ temp' = temp - 1
  /\ UNCHANGED <<dev_list, timer_stop, time, fsh, tpc, nfsh, nevent, mpc,
                 slots>>

(* Variant: the first device that has detached ends the loop.              *)
TimerEndRoundEarly ==
  /\ tpc = "release" /\ temp = NULL
  /\ tpc' = IF nfsh > 0 THEN "exited" ELSE "check"
  /\ UNCHANGED <<dev_list, timer_stop, time, done, fsh, temp, nfsh, nevent,
                 dpc, mpc, slots>>

(* if (fsh == event) break.                                                *)
TimerEndRound ==
  /\ tpc = "release" /\ temp = NULL
  /\ tpc' = IF nfsh = nevent THEN "exited" ELSE "check"
  /\ UNCHANGED <<dev_list, timer_stop, time, done, fsh, temp, nfsh, nevent,
                 dpc, mpc, slots>>

-----------------------------------------------------------------------------
(* The device threads                                                      *)

(* Variant: the signal is forgotten.                                       *)
SignalTimerNever(d) == UNCHANGED tpc

(* pthread_cond_signal on the event_cond of device d.                      *)
SignalTimer(d) == tpc' = IF tpc = "sleep" /\ temp = d THEN "scan" ELSE tpc

(* next_slot, the section under event_lock.                                *)
NextSlot(d) ==
  /\ dpc[d] = "run" /\ slots[d] < MaxSlots
  /\ done' = [done EXCEPT ![d] = TRUE]
  /\ SignalTimer(d)
  /\ dpc' = [dpc EXCEPT ![d] = "arrived"]
  /\ slots' = [slots EXCEPT ![d] = @ + 1]
  /\ UNCHANGED <<dev_list, timer_stop, time, fsh, temp, nfsh, nevent, mpc>>

(* Variant: next_slot returns without waiting for the slot to end.         *)
AwaitSlotNoWait(d) ==
  /\ dpc[d] = "arrived"
  /\ dpc' = [dpc EXCEPT ![d] = "run"]
  /\ UNCHANGED <<dev_list, timer_stop, time, done, fsh, timerVars, mpc, slots>>

(* next_slot, the section under timer_lock: block while done is set.       *)
AwaitSlot(d) ==
  /\ dpc[d] = "arrived"
  /\ dpc' = [dpc EXCEPT ![d] = IF done[d] THEN "parked" ELSE "run"]
  /\ UNCHANGED <<dev_list, timer_stop, time, done, fsh, timerVars, mpc, slots>>

(* A spurious wake-up of pthread_cond_wait on timer_cond.                  *)
DeviceSpurious(d) ==
  /\ dpc[d] = "parked"
  /\ dpc' = [dpc EXCEPT ![d] = "arrived"]
  /\ UNCHANGED <<dev_list, timer_stop, time, done, fsh, timerVars, mpc, slots>>

(* Variant: detach_event does not signal the timer.                        *)
DetachEventNoSignal(d) ==
  /\ dpc[d] = "run"
  /\ fsh' = [fsh EXCEPT ![d] = TRUE]
  /\ dpc' = [dpc EXCEPT ![d] = "gone"]
  /\ UNCHANGED <<dev_list, timer_stop, time, done, timerVars, mpc, slots>>

(* detach_event, after which the thread exits.                             *)
DetachEvent(d) ==
  /\ dpc[d] = "run"
  /\ fsh' = [fsh EXCEPT ![d] = TRUE]
  /\ SignalTimer(d)
  /\ dpc' = [dpc EXCEPT ![d] = "gone"]
  /\ UNCHANGED <<dev_list, timer_stop, time, done, temp, nfsh, nevent, mpc,
                 slots>>

-----------------------------------------------------------------------------
(* The process has exited: the only state without a successor of its own.  *)
Exited == mpc = "end" /\ UNCHANGED vars

MainStep == AttachEvent \/ StartTimer \/ StopTimer \/ FreeDevices
TimerStep ==
  TimerCheck \/ TimerScan \/ TimerTick \/ TimerRelease \/ TimerEndRound
DeviceStep(d) == NextSlot(d) \/ AwaitSlot(d) \/ DetachEvent(d)

Next ==
  \/ MainStep
  \/ \E d \in Device : CreateThread(d)
  \/ TimerStep
  \/ TimerSpurious
  \/ \E d \in Device : DeviceStep(d) \/ DeviceSpurious(d)
  \/ Exited

(* Every thread that can take a step eventually does.  Nothing is assumed  *)
(* of spurious wake-ups.  A device thread works for a finite time in each  *)
(* slot: in "run" it eventually calls next_slot or detach_event.           *)
Fairness ==
  /\ WF_vars(MainStep)
  /\ WF_vars(TimerStep)
  /\ \A d \in Device : WF_vars(CreateThread(d)) /\ WF_vars(DeviceStep(d))

Spec == Init /\ [][Next]_vars /\ Fairness

-----------------------------------------------------------------------------
(* Properties                                                              *)

TypeOK ==
  /\ dev_list \in 0 .. N
  /\ timer_stop \in BOOLEAN
  /\ time \in Nat
  /\ done \in [Device -> BOOLEAN]
  /\ fsh \in [Device -> BOOLEAN]
  /\ tpc \in {"off", "check", "scan", "sleep", "release", "exited"}
  /\ temp \in 0 .. N
  /\ nfsh \in Nat /\ nevent \in Nat
  /\ dpc \in [Device -> DeviceState]
  /\ mpc \in {"attach", "create", "join", "end"}
  /\ slots \in [Device -> Nat]

(* A device works in a slot only when every device that is still attached  *)
(* has finished all earlier slots, threads not yet created included: the   *)
(* devices are never more than one next_slot call apart.                   *)
Lockstep ==
  \A d, e \in Device :
    dpc[d] = "run" /\ dpc[e] # "gone" => slots[e] >= slots[d]

(* No wake-up is lost: a device blocks only while the timer still has to   *)
(* clear its done flag (and to signal it), and the timer blocks only on a  *)
(* device that still has to call next_slot or detach_event.                *)
NoLostWakeup ==
  /\ \A d \in Device : dpc[d] = "parked" => done[d]
  /\ tpc = "sleep" => temp \in Device /\ ~Arrived(temp)

(* The timer thread leaves its loop, and the containers are freed, only    *)
(* when no device can use them any more.                                   *)
TimerExitsLast ==
  tpc = "exited" \/ mpc = "end" => \A d \in Device : dpc[d] = "gone"

(* The clock never moves while a device works in its slot, which is what   *)
(* lets ld_routine read it (current_time) without a lock.                  *)
ClockStable ==
  [][time' # time => \A d \in Device : dpc[d] \notin {"unborn", "run"}]_vars

(* Every device that waits at the end of a slot gets its next slot.        *)
EverySlotEnds ==
  \A d \in Device : dpc[d] \in {"arrived", "parked"} ~> dpc[d] = "run"

(* When the devices stop asking for slots, the program exits.              *)
Shutdown == <>(mpc = "end")

(* The abstract barrier: a device is working while it has finished exactly *)
(* the slots before the current one.  A device that has been counted out   *)
(* of the slot stays "finished" until the tick, and works again from the   *)
(* tick on, whether or not its release has reached it.                     *)
AbstractState(d) ==
  IF dpc[d] = "gone" THEN "left"
  ELSE IF slots[d] = time THEN "working" ELSE "finished"

Barrier == INSTANCE SlotBarrier
  WITH Horizon <- MaxSlots,
       clock <- IF time < MaxSlots THEN time ELSE MaxSlots,
       st <- [d \in Device |-> AbstractState(d)]

(* timer.c implements the slot barrier, its service guarantee included.    *)
ImplementsBarrier == Barrier!Spec
=============================================================================
