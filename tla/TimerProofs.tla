---------------------------- MODULE TimerProofs ----------------------------
(***************************************************************************)
(* Proofs about Timer for every number of devices and of slots.            *)
(*                                                                         *)
(* The safety properties of Timer are not inductive: they follow from IInv *)
(* which also says where main is when the others run (MainInv), what the   *)
(* flags say of the threads (FlagInv), what the timer has established of   *)
(* the devices its cursor has passed (ScanInv), and how far each device is *)
(* ahead of the clock (SlotInv).                                           *)
(***************************************************************************)
EXTENDS Timer, TLAPS

AllGone == \A d \in Device : dpc[d] = "gone"

MainInv ==
  /\ mpc = "attach" <=> tpc = "off"
  /\ mpc = "attach" => \A d \in Device : dpc[d] = "unborn"
  /\ mpc = "create" => dev_list = N
  /\ mpc = "join" => dev_list = N
  /\ timer_stop <=> mpc \in {"join", "end"}
  /\ mpc \in {"join", "end"} => AllGone
  /\ mpc = "end" => tpc = "exited"

FlagInv ==
  \A d \in Device :
    /\ fsh[d] <=> dpc[d] = "gone"
    /\ done[d] => dpc[d] \in {"arrived", "parked"}
    /\ dpc[d] = "parked" => done[d]

(* nfsh = nevent says that every device counted so far had detached.       *)
ScanInv ==
  /\ tpc \in {"scan", "sleep"} =>
       /\ \A d \in Device : d > temp => Arrived(d)
       /\ nfsh = nevent => \A d \in Device : d > temp => fsh[d]
  /\ tpc = "sleep" => temp \in Device /\ ~Arrived(temp)
  /\ tpc \in {"scan", "sleep", "release"} => nfsh <= nevent
  /\ tpc = "release" /\ nfsh = nevent => \A d \in Device : fsh[d]
  /\ tpc = "exited" => AllGone

(* A device has finished the slots before the current one, and also the    *)
(* current one when its done flag is set; in the release loop the cursor   *)
(* separates the devices that have not been released from those that have. *)
SlotInv ==
  \A d \in Device : dpc[d] # "gone" =>
    IF tpc = "release" /\ d <= temp
      THEN done[d] /\ slots[d] = time
      ELSE slots[d] = time + (IF done[d] THEN 1 ELSE 0)

IInv == TypeOK /\ MainInv /\ FlagInv /\ ScanInv /\ SlotInv

USE DEF Device, NULL, DeviceState

-----------------------------------------------------------------------------
(* IInv is inductive.                                                      *)

(* The invariant holds initially.                                          *)
LEMMA InitIInv == Init => IInv
<1> SUFFICES ASSUME Init PROVE IInv
  OBVIOUS
<1>1. TypeOK
  <2>1. /\ timer_stop \in BOOLEAN
        /\ done \in [Device -> BOOLEAN] /\ fsh \in [Device -> BOOLEAN]
    BY Zenon DEF Init
  <2>2. dpc \in [Device -> DeviceState] /\ slots \in [Device -> Nat]
    BY DEF Init
  <2>3. /\ dev_list \in 0 .. N /\ time \in Nat
        /\ tpc = "off" /\ temp \in 0 .. N /\ nfsh \in Nat /\ nevent \in Nat
        /\ mpc = "attach"
    BY NAssumption DEF Init
  <2> QED BY <2>1, <2>2, <2>3 DEF TypeOK
<1>2. MainInv
  BY DEF MainInv, Init
<1>3. FlagInv
  BY DEF FlagInv, Init
<1>4. ScanInv
  BY DEF ScanInv, Init
<1>5. SlotInv
  BY DEF SlotInv, Init
<1> QED BY <1>1, <1>2, <1>3, <1>4, <1>5 DEF IInv

(* The steps of main.                                                      *)
LEMMA MainStepIInv ==
  ASSUME IInv, MainStep \/ \E d \in Device : CreateThread(d)
  PROVE  IInv'
<1> USE NAssumption, MaxSlotsAssumption
    DEF IInv, TypeOK, MainInv, FlagInv, ScanInv, SlotInv, Arrived, AllGone,
        timerVars
<1>1. CASE AttachEvent
  BY <1>1 DEF AttachEvent
<1>2. CASE StartTimer
  BY <1>2 DEF StartTimer
<1>3. CASE StopTimer
  BY <1>3 DEF StopTimer
<1>4. CASE FreeDevices
  BY <1>4 DEF FreeDevices
<1>5. CASE \E d \in Device : CreateThread(d)
  BY <1>5 DEF CreateThread
<1> QED BY <1>1, <1>2, <1>3, <1>4, <1>5 DEF MainStep

(* The steps of the timer thread.                                          *)
LEMMA TimerStepIInv ==
  ASSUME IInv, TimerStep \/ TimerSpurious
  PROVE  IInv'
<1> USE NAssumption, MaxSlotsAssumption
    DEF IInv, TypeOK, MainInv, FlagInv, ScanInv, SlotInv, Arrived, AllGone,
        timerVars
<1>1. CASE TimerCheck
  BY <1>1 DEF TimerCheck
<1>2. CASE TimerScan
  BY <1>2 DEF TimerScan
<1>3. CASE TimerTick
  BY <1>3 DEF TimerTick
<1>4. CASE TimerRelease
  BY <1>4 DEF TimerRelease
<1>5. CASE TimerEndRound
  BY <1>5 DEF TimerEndRound
<1>6. CASE TimerSpurious
  BY <1>6 DEF TimerSpurious
<1> QED BY <1>1, <1>2, <1>3, <1>4, <1>5, <1>6 DEF TimerStep

(* The steps of the devices.                                               *)
LEMMA DeviceStepIInv ==
  ASSUME IInv, NEW d \in Device, DeviceStep(d) \/ DeviceSpurious(d)
  PROVE  IInv'
<1> USE NAssumption, MaxSlotsAssumption
    DEF IInv, TypeOK, MainInv, FlagInv, ScanInv, SlotInv, Arrived, AllGone,
        timerVars
<1>1. CASE NextSlot(d)
  BY <1>1 DEF NextSlot, SignalTimer
<1>2. CASE AwaitSlot(d)
  BY <1>2 DEF AwaitSlot
<1>3. CASE DetachEvent(d)
  BY <1>3 DEF DetachEvent, SignalTimer
<1>4. CASE DeviceSpurious(d)
  BY <1>4 DEF DeviceSpurious
<1> QED BY <1>1, <1>2, <1>3, <1>4 DEF DeviceStep

(* A stutter preserves the invariant.                                      *)
LEMMA StutterIInv == IInv /\ UNCHANGED vars => IInv'
BY DEF IInv, TypeOK, MainInv, FlagInv, ScanInv, SlotInv, Arrived, AllGone,
       vars, timerVars

(* Every step preserves the invariant.                                     *)
LEMMA NextIInv == IInv /\ [Next]_vars => IInv'
<1> SUFFICES ASSUME IInv, [Next]_vars PROVE IInv'
  OBVIOUS
<1>1. CASE MainStep \/ \E d \in Device : CreateThread(d)
  BY <1>1, MainStepIInv
<1>2. CASE TimerStep \/ TimerSpurious
  BY <1>2, TimerStepIInv
<1>3. CASE \E d \in Device : DeviceStep(d) \/ DeviceSpurious(d)
  BY <1>3, DeviceStepIInv
<1>4. CASE Exited
  BY <1>4, StutterIInv DEF Exited
<1>5. CASE UNCHANGED vars
  BY <1>5, StutterIInv
<1> QED BY <1>1, <1>2, <1>3, <1>4, <1>5 DEF Next

(* The invariant holds in every state of the program.                      *)
THEOREM Invariance == Spec => []IInv
<1> QED BY InitIInv, NextIInv, PTL DEF Spec

-----------------------------------------------------------------------------
(* The safety properties.                                                  *)

(* The variables of Timer keep their types.                                *)
THEOREM TypeCorrect == Spec => []TypeOK
<1>1. IInv => TypeOK
  BY DEF IInv
<1> QED BY <1>1, Invariance, PTL

(* The devices are never more than one next_slot call apart.               *)
THEOREM LockstepCorrect == Spec => []Lockstep
<1>1. IInv => Lockstep
  <2> SUFFICES ASSUME IInv, NEW d \in Device, NEW e \in Device,
                      dpc[d] = "run", dpc[e] # "gone"
               PROVE  slots[e] >= slots[d]
    BY DEF Lockstep
  <2>1. slots[d] = time
    BY DEF IInv, TypeOK, FlagInv, SlotInv
  <2>2. slots[e] = time \/ slots[e] = time + 1
    BY DEF IInv, TypeOK, SlotInv
  <2> QED BY <2>1, <2>2 DEF IInv, TypeOK
<1> QED BY <1>1, Invariance, PTL

(* A blocked device and a blocked timer still have their wake-up to come.  *)
THEOREM WakeupsCorrect == Spec => []NoLostWakeup
<1>1. IInv => NoLostWakeup
  BY DEF IInv, FlagInv, ScanInv, NoLostWakeup
<1> QED BY <1>1, Invariance, PTL

(* The timer thread ends, and its devices are freed, after all devices.    *)
THEOREM ExitCorrect == Spec => []TimerExitsLast
<1>1. IInv => TimerExitsLast
  BY DEF IInv, MainInv, ScanInv, AllGone, TimerExitsLast
<1> QED BY <1>1, Invariance, PTL

-----------------------------------------------------------------------------
(* The clock moves only in TimerTick, and then no device works.            *)

(* Only TimerTick moves the clock.                                         *)
LEMMA TickStep ==
  ASSUME [Next]_vars
  PROVE  TimerTick \/ time' = time
<1>1. CASE MainStep
  BY <1>1 DEF MainStep, AttachEvent, StartTimer, StopTimer, FreeDevices
<1>2. CASE \E d \in Device : CreateThread(d)
  BY <1>2 DEF CreateThread
<1>3. CASE TimerStep \/ TimerSpurious
  BY <1>3 DEF TimerStep, TimerCheck, TimerScan, TimerRelease, TimerEndRound,
              TimerSpurious
<1>4. CASE \E d \in Device : DeviceStep(d) \/ DeviceSpurious(d)
  BY <1>4 DEF DeviceStep, NextSlot, AwaitSlot, DetachEvent, DeviceSpurious
<1>5. CASE Exited \/ UNCHANGED vars
  BY <1>5 DEF Exited, vars
<1> QED BY <1>1, <1>2, <1>3, <1>4, <1>5 DEF Next

(* When it does, every device has finished its slot or is gone.            *)
LEMMA NobodyWorksAtTick ==
  ASSUME IInv, TimerTick, NEW d \in Device
  PROVE  dpc[d] = "gone" \/ (done[d] /\ dpc[d] \in {"arrived", "parked"})
<1>1. Arrived(d)
  BY DEF IInv, TypeOK, ScanInv, TimerTick
<1>2. /\ fsh[d] <=> dpc[d] = "gone"
      /\ done[d] => dpc[d] \in {"arrived", "parked"}
  BY DEF IInv, FlagInv
<1> QED BY <1>1, <1>2, Zenon DEF Arrived

(* current_time never changes while a device works in its slot.            *)
THEOREM ClockStableCorrect == Spec => ClockStable
<1>1. IInv /\ [Next]_vars =>
        [time' # time => \A d \in Device : dpc[d] \notin {"unborn", "run"}]_vars
  <2> SUFFICES ASSUME IInv, [Next]_vars, time' # time, NEW d \in Device
               PROVE  dpc[d] \notin {"unborn", "run"}
    OBVIOUS
  <2>1. dpc[d] = "gone" \/ (done[d] /\ dpc[d] \in {"arrived", "parked"})
    BY TickStep, NobodyWorksAtTick
  <2> QED BY <2>1
<1> QED BY <1>1, Invariance, PTL DEF Spec, ClockStable

-----------------------------------------------------------------------------
(* timer.c implements the slot barrier (its safety part).                  *)

(* Initial states map to initial states.                                   *)
LEMMA InitBarrier == Init => Barrier!Init
BY MaxSlotsAssumption DEF Init, Barrier!Init, AbstractState

(* The tick advances the barrier.                                          *)
LEMMA TickBarrier ==
  ASSUME IInv, TimerTick
  PROVE  Barrier!Advance
<1>1. \A d \in Device : AbstractState(d) \in {"finished", "left"}
  <2> TAKE d \in Device
  <2>1. dpc[d] # "gone" => slots[d] = time + 1
    BY NobodyWorksAtTick DEF IInv, SlotInv, TimerTick
  <2> QED BY <2>1 DEF AbstractState, IInv, TypeOK
<1>2. \A d \in Device :
        AbstractState(d)' = IF AbstractState(d) = "finished" THEN "working"
                            ELSE AbstractState(d)
  <2> TAKE d \in Device
  <2>1. dpc[d] # "gone" => slots[d] = time + 1
    BY NobodyWorksAtTick DEF IInv, SlotInv, TimerTick
  <2> QED BY <2>1 DEF AbstractState, IInv, TypeOK, TimerTick
<1>3. time \in Nat /\ time' = time + 1
  BY DEF IInv, TypeOK, TimerTick
<1> QED BY <1>1, <1>2, <1>3, MaxSlotsAssumption DEF Barrier!Advance, Barrier!Ticked

(* The two steps in which a device leaves the current slot.                *)
LEMMA FinishBarrier ==
  ASSUME IInv, NEW d \in Device, NextSlot(d)
  PROVE  Barrier!Finish(d)
<1>1. slots[d] = time /\ time \in Nat
  BY DEF IInv, TypeOK, FlagInv, SlotInv, NextSlot
<1>2. AbstractState(d) = "working" /\ AbstractState(d)' = "finished"
  BY <1>1 DEF AbstractState, NextSlot, IInv, TypeOK
<1>3. \A e \in Device \ {d} : AbstractState(e)' = AbstractState(e)
  BY DEF AbstractState, NextSlot, IInv, TypeOK
<1>4. UNCHANGED time
  BY DEF NextSlot
<1> QED BY <1>2, <1>3, <1>4 DEF Barrier!Finish

(* A device that detaches leaves the barrier.                              *)
LEMMA LeaveBarrier ==
  ASSUME IInv, NEW d \in Device, DetachEvent(d)
  PROVE  Barrier!Leave(d)
<1>1. slots[d] = time /\ time \in Nat
  BY DEF IInv, TypeOK, FlagInv, SlotInv, DetachEvent
<1>2. AbstractState(d) = "working" /\ AbstractState(d)' = "left"
  BY <1>1 DEF AbstractState, DetachEvent, IInv, TypeOK
<1>3. \A e \in Device \ {d} : AbstractState(e)' = AbstractState(e)
  BY DEF AbstractState, DetachEvent, IInv, TypeOK
<1>4. UNCHANGED time
  BY DEF DetachEvent
<1> QED BY <1>2, <1>3, <1>4 DEF Barrier!Leave

(* Every other step is invisible to the users of the barrier.              *)
Invisible ==
  /\ UNCHANGED <<time, slots>>
  /\ \A d \in Device : dpc'[d] = "gone" <=> dpc[d] = "gone"

(* The other steps change nothing that the barrier sees.                   *)
LEMMA InvisibleSteps ==
  ASSUME IInv, [Next]_vars
  PROVE  \/ TimerTick
         \/ \E d \in Device : NextSlot(d) \/ DetachEvent(d)
         \/ Invisible
<1> USE DEF IInv, TypeOK, Invisible, timerVars
<1>1. CASE MainStep
  BY <1>1 DEF MainStep, AttachEvent, StartTimer, StopTimer, FreeDevices
<1>2. CASE \E d \in Device : CreateThread(d)
  BY <1>2 DEF CreateThread
<1>3. CASE TimerStep \/ TimerSpurious
  BY <1>3 DEF TimerStep, TimerCheck, TimerScan, TimerRelease, TimerEndRound,
              TimerSpurious
<1>4. CASE \E d \in Device : DeviceStep(d) \/ DeviceSpurious(d)
  BY <1>4 DEF DeviceStep, AwaitSlot, DeviceSpurious
<1>5. CASE Exited \/ UNCHANGED vars
  BY <1>5 DEF Exited, vars
<1> QED BY <1>1, <1>2, <1>3, <1>4, <1>5 DEF Next

(* Every step is one of the barrier or a stutter.                          *)
LEMMA StepBarrier ==
  ASSUME IInv, [Next]_vars
  PROVE  [Barrier!Next]_(Barrier!barrierVars)
<1>1. CASE TimerTick
  BY <1>1, TickBarrier DEF Barrier!Next
<1>2. CASE \E d \in Device : NextSlot(d) \/ DetachEvent(d)
  BY <1>2, FinishBarrier, LeaveBarrier DEF Barrier!Next
<1>3. CASE Invisible
  <2>1. \A d \in Device : AbstractState(d)' = AbstractState(d)
    BY <1>3 DEF AbstractState, Invisible
  <2> QED BY <1>3, <2>1 DEF Barrier!barrierVars, Invisible
<1> QED BY <1>1, <1>2, <1>3, InvisibleSteps

(* The threads of timer.c behave as the abstract barrier allows: no device *)
(* overtakes another, the clock moves once per round and never while a     *)
(* device works, a device that has left never comes back.                  *)
THEOREM BarrierSafety == Spec => Barrier!SafeSpec
<1> QED BY InitBarrier, Invariance, StepBarrier, PTL DEF Spec, Barrier!SafeSpec
=============================================================================
