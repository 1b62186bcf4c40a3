------------------------------ MODULE OSProofs ------------------------------
(***************************************************************************)
(* Proofs about OS for every configuration, number of CPUs, of processes,  *)
(* of levels and capacity of the queues.                                   *)
(*                                                                         *)
(* Nothing OS promises is inductive by itself.  IInv adds, part by part,   *)
(* where the threads can be relative to each other (Control), who may use  *)
(* which pcb (Holders), what is left of each slice (Slices), why a process *)
(* has run in this slot (Ran), what the loader's clock has to do with the  *)
(* start times (OnTime), and that nobody gives up while there is work      *)
(* (Over).  QueueInv is SchedProofs's.                                     *)
(***************************************************************************)
EXTENDS OS, SchedProofs

(* Where the threads can be.                                               *)
Loading == lpc \in {"create", "join"}
Control ==
  /\ \A d \in Device \ created : st[d] = "working"
  /\ \A c \in CPU : /\ st[c] = "finished" => cpc[c] = "top"
                    /\ st[c] = "left" <=> cpc[c] = "stopped"
                    /\ cpc[c] = "stopped" => done /\ proc[c] = NoProc
  /\ st[Loader] = "finished" => lpc = "wait"
  /\ st[Loader] = "left" <=> lpc = "exited"
  /\ done <=> lpc \in {"detach", "exited"}
  /\ lpc \in {"create", "join", "added"} => i <= num_processes
  /\ done => i = num_processes + 1
  /\ Loading => clock = 0
  /\ clock > 0 => created = Device
Loaded ==
  \A p \in Proc : ~Loading \/ (lpc = "join" /\ p < i) => load_threads[p] = "exited"

(* Who may use which pcb: the queues, or one CPU, until it is freed.       *)
Holders ==
  /\ freed \subseteq Added
  /\ InQueues \subseteq Added \ freed
  /\ \A c \in CPU : Holds(c) # NoProc => Holds(c) \in (Added \ freed) \ InQueues
  /\ \A c, d \in CPU : Holds(c) = Holds(d) /\ Holds(c) # NoProc => c = d

(* What is left of the slice of each CPU.                                  *)
Fresh(c) == used[c] = 0 /\ time_left[c] = 0
Started(c) == used[c] > 0 /\ used[c] + time_left[c] = time_slot
Slices ==
  \A c \in CPU :
    /\ proc[c] = NoProc => used[c] = 0 /\ time_left[c] = 0
    /\ cpc[c] = "get" => time_left[c] = 0
    /\ cpc[c] = "recheck" => Fresh(c) \/ (Started(c) /\ time_left[c] # 0)
    /\ cpc[c] \in {"top", "skip"} /\ proc[c] # NoProc => Started(c)

(* A process that has run in this slot is on a CPU that is past its run.   *)
PastRun(c) == cpc[c] = "skip" \/ (cpc[c] = "top" /\ st[c] = "finished")
Ran == \A p \in ran : \E c \in CPU : proc[c] = p /\ PastRun(c)

(* The slot t is the one in which process p is due.                        *)
NotBefore(p, q, t) == start_time[q] + (p - q) <= t
Due(p, t) ==
  /\ \A q \in 1 .. p : NotBefore(p, q, t)
  /\ \E q \in 1 .. p : start_time[q] + (p - q) = t
(* The slot in which the loader can next look at its process.              *)
NextLook == IF st[Loader] = "finished" THEN clock + 1 ELSE clock
OnTime ==
  /\ lpc = "added" => Due(i, clock)
  /\ lpc = "wait" /\ More =>
       /\ \A q \in 1 .. i - 1 : NotBefore(i, q, NextLook)
       /\ \E q \in 1 .. i : NextLook <= start_time[q] + (i - q)

(* Once the loader has no more to add, CPUs that found no process and have *)
(* not gone to the next slot since are right: there is none.               *)
NoMoreToAdd == done \/ (lpc = "wait" /\ ~More /\ st[Loader] = "working")
Idle(c) == cpc[c] = "stopped" \/ (cpc[c] = "recheck" /\ proc[c] = NoProc)
Over == NoMoreToAdd /\ (\A c \in CPU : Idle(c)) => InQueues = {}

IInv ==
  TypeOK /\ QueueInv /\ Control /\ Loaded /\ Holders /\ Slices /\ Ran /\ OnTime /\ Over

-----------------------------------------------------------------------------
(* Constants.                                                              *)

(* There is a process, and they are numbered from 1.                       *)
LEMMA NumType == num_processes \in Nat \ {0} /\ Proc = 1 .. num_processes
<1>1. Cardinality(Proc) \in Nat
  BY ProcAssumption, FS_CardinalityType
<1>2. Cardinality(Proc) # 0
  BY ProcAssumption, FS_EmptySet
<1> QED BY <1>1, <1>2, ProcAssumption DEF num_processes

(* The maximum of a set of integers that has one.                          *)
LEMMA MaxIs ==
  ASSUME NEW S \in SUBSET Int, NEW m \in S, \A y \in S : y <= m
  PROVE  Max(S) = m
<1>1. m \in S /\ \A y \in S : m >= y
  OBVIOUS
<1>2. \A x \in S : (\A y \in S : x >= y) => x = m
  OBVIOUS
<1> QED BY <1>1, <1>2 DEF Max

(* All processes are due before the horizon of the clock.                  *)
LEMMA HorizonType ==
  /\ Horizon \in Nat
  /\ \A t \in StartTimes : t \in Nat /\ t + num_processes - 1 <= Horizon
<1>1. PICK last \in StartTimes : \A t \in StartTimes : t <= last
  BY ConfigAssumption
<1>2. StartTimes \subseteq Nat
  BY ConfigAssumption
<1>3. Max(StartTimes) = last
  BY <1>1, <1>2, MaxIs
<1> QED BY <1>1, <1>2, <1>3, NumType DEF Horizon

(* Where the loader is says which processes it has added.                  *)
LEMMA AddedIs ==
  /\ Loading => Added = {}
  /\ lpc = "added" => Added = 1 .. i
  /\ lpc \in {"wait", "detach", "exited"} => Added = 1 .. i - 1
BY DEF Loading, Added

(* Only processes are added.                                               *)
LEMMA AddedInProc == IInv => Added \subseteq Proc
<1> SUFFICES ASSUME IInv PROVE Added \subseteq Proc
  OBVIOUS
<1>1. i \in 1 .. num_processes + 1 /\ (lpc = "added" => i <= num_processes)
  BY DEF IInv, TypeOK, Control
<1>2. lpc \in {"create", "join", "wait", "added", "detach", "exited"}
  BY DEF IInv, TypeOK
<1> QED BY <1>1, <1>2, AddedIs, NumType DEF Loading

-----------------------------------------------------------------------------
(* The scheduler's variables.                                              *)

(* What a CPU gets.                                                        *)
LEMMA GetStep ==
  ASSUME IInv, NEW c \in CPU, Get(c), prio' = prio
  PROVE  \E p \in Proc \cup {NoProc} :
           /\ proc' = [proc EXCEPT ![c] = p]
           /\ used' = [used EXCEPT ![c] = 0]
           /\ cpc' = [cpc EXCEPT ![c] =
                        IF cpc[c] = "top" /\ p = NoProc THEN "skip" ELSE "recheck"]
           /\ QueueInv'
           /\ \/ p \in InQueues /\ InQueues' = InQueues \ {p}
              \/ p = NoProc /\ InQueues = {} /\ InQueues' = {}
<1>1. PICK p \in Proc \cup {NoProc} :
        /\ GetProc(p)
        /\ proc' = [proc EXCEPT ![c] = p]
        /\ used' = [used EXCEPT ![c] = 0]
        /\ cpc' = [cpc EXCEPT ![c] =
                     IF cpc[c] = "top" /\ p = NoProc THEN "skip" ELSE "recheck"]
  BY DEF Get, Goto
<1>2. /\ QueueInv'
      /\ \/ p \in InQueues /\ InQueues' = InQueues \ {p}
         \/ p = NoProc /\ InQueues = {} /\ InQueues' = {}
  BY <1>1, GetEffect DEF IInv
<1> QED BY <1>1, <1>2

(* A preempted process goes to its queue, or is dropped.                   *)
LEMMA PreemptStep ==
  ASSUME IInv, NEW c \in CPU, Preempt(c)
  PROVE  QueueInv' /\ (InQueues' = InQueues \/ InQueues' = InQueues \cup {proc[c]})
<1>1. PICK p \in Proc : p = proc[c]
  BY DEF Preempt, IInv, TypeOK
<1>2. PutProc(p) /\ prio' = prio
  BY <1>1 DEF Preempt, setupVars, configVars
<1>3. NotQueued(p)
  BY <1>1, NoProcAssumption DEF Preempt, At, IInv, Holders, Holds, InQueues
<1> QED BY <1>1, <1>2, <1>3, PutEffect DEF IInv

(* The process that the loader adds is a new one.                          *)
LEMMA AddProcessStep ==
  ASSUME IInv, AddProcess
  PROVE  /\ QueueInv' /\ (InQueues' = InQueues \/ InQueues' = InQueues \cup {i})
         /\ i \in Proc /\ i \notin Added
<1>1. i \in Proc /\ i \notin Added
  BY NumType, AddedIs DEF AddProcess, LoaderAt, More, IInv, TypeOK
<1>2. PutProc(i) /\ prio' = prio
  BY DEF AddProcess, AddProc, PutProc, setupVars, configVars
<1>3. NotQueued(i)
  BY <1>1 DEF IInv, Holders, InQueues
<1>4. QueueInv
  BY DEF IInv
<1>5. PICK p \in Proc : p = i
  BY <1>1
<1>6. PutProc(p) /\ NotQueued(p)
  BY <1>2, <1>3, <1>5
<1>7. QueueInv' /\ (InQueues' = InQueues \/ InQueues' = InQueues \cup {p})
  BY <1>2, <1>4, <1>6, PutEffect
<1> QED BY <1>1, <1>5, <1>7

(* What does not touch the scheduler leaves its invariant.                 *)
LEMMA SameQueues ==
  ASSUME QueueInv, UNCHANGED schedVars, UNCHANGED prio
  PROVE  QueueInv' /\ InQueues' = InQueues
BY DEF QueueInv, OncePerQueues, InQueues, NotQueued, schedVars

-----------------------------------------------------------------------------
(* What the steps of the threads leave alone.                              *)

(* A step of a CPU leaves the other CPUs and the loader alone.             *)
LEMMA CPUFrame ==
  ASSUME IInv, NEW c \in CPU, CPUStep(c)
  PROVE  /\ UNCHANGED <<clock, setupVars, loaderVars>>
         /\ \A d \in CPU \ {c} :
              /\ proc'[d] = proc[d] /\ time_left'[d] = time_left[d]
              /\ cpc'[d] = cpc[d] /\ used'[d] = used[d] /\ st'[d] = st[d]
         /\ st'[Loader] = st[Loader]
         /\ c \in created /\ st[c] = "working"
<1>1. /\ proc \in [CPU -> Proc \cup {NoProc}]
      /\ DOMAIN time_left = CPU /\ DOMAIN cpc = CPU /\ DOMAIN used = CPU
      /\ DOMAIN st = Device /\ c \in Device /\ Loader \in Device /\ c # Loader
  BY DeviceAssumption DEF IInv, TypeOK, Device
<1>2. CASE Load(c) \/ GetNext(c)
  BY <1>1, <1>2 DEF Load, GetNext, Get, Goto, At, timerVars
<1>3. CASE Free(c)
  BY <1>1, <1>3 DEF Free, Goto, At, timerVars
<1>4. CASE Preempt(c) \/ Keep(c) \/ Skip(c)
  BY <1>1, <1>4 DEF Preempt, Keep, Skip, Goto, At, timerVars
<1>5. CASE Stop(c)
  BY <1>1, <1>5 DEF Stop, Goto, At, Timer!Leave
<1>6. CASE NextSlot(c)
  BY <1>1, <1>6 DEF NextSlot, Goto, At, Timer!Finish
<1>7. CASE Run(c)
  BY <1>1, <1>7 DEF Run, Goto, At, timerVars
<1> QED BY <1>2, <1>3, <1>4, <1>5, <1>6, <1>7 DEF CPUStep

(* A step of the loader leaves the CPUs alone.                             *)
LEMMA LoaderFrame ==
  ASSUME IInv, LoaderStep
  PROVE  /\ UNCHANGED <<clock, setupVars, cpuVars, pcbVars>>
         /\ \A d \in CPU : st'[d] = st[d]
         /\ Loader \in created /\ st[Loader] = "working"
<1>1. DOMAIN st = Device /\ \A d \in CPU : d \in Device /\ d # Loader
  BY DeviceAssumption DEF IInv, TypeOK, Device
<1>2. CASE CreateLoadThread \/ JoinLoadThread \/ AddProcess \/ SetDone
  BY <1>1, <1>2 DEF CreateLoadThread, JoinLoadThread, AddProcess, SetDone,
                    LoaderAt, timerVars
<1>3. CASE AwaitStart \/ AfterAdd \/ LoaderExit
  BY <1>1, <1>3 DEF AwaitStart, AfterAdd, LoaderExit, LoaderAt, Timer!Finish,
                    Timer!Leave
<1> QED BY <1>2, <1>3 DEF LoaderStep

(* A tick of the clock puts all devices to work again and changes nothing  *)
(* else.                                                                   *)
LEMMA TickFrame ==
  ASSUME IInv, Tick
  PROVE  /\ UNCHANGED <<setupVars, schedVars, cpuVars, loaderVars, pc, freed>>
         /\ clock' = (IF clock < Horizon THEN clock + 1 ELSE clock)
         /\ \A d \in Device :
              /\ st[d] # "working"
              /\ st'[d] = IF st[d] = "finished" THEN "working" ELSE st[d]
         /\ st' \in [Device -> {"working", "finished", "left"}]
         /\ ran' = {} /\ created = Device
BY DEF Tick, Timer!Advance, Timer!Ticked, IInv, TypeOK, Control

(* main and the load threads.                                              *)
LEMMA OtherFrame ==
  ASSUME IInv, MainStep \/ (\E p \in Proc : ExitLoadThread(p)) \/ UNCHANGED vars
  PROVE  /\ UNCHANGED <<timerVars, configVars, schedVars, cpuVars, done, i, lpc,
                        pcbVars>>
         /\ created \subseteq created' /\ created' \subseteq Device
         /\ load_threads' \in [Proc -> {"unborn", "running", "exited"}]
         /\ mpc' \in {"running", "returned"}
         /\ \A p \in Proc :
              load_threads[p] = "exited" => load_threads'[p] = "exited"
<1>1. /\ load_threads \in [Proc -> {"unborn", "running", "exited"}]
      /\ mpc \in {"running", "returned"} /\ created \subseteq Device
  BY DEF IInv, TypeOK
<1>2. CASE \E d \in Device : CreateThread(d)
  BY <1>1, <1>2 DEF CreateThread, otherVars, loaderVars
<1>3. CASE Return
  BY <1>1, <1>3 DEF Return, otherVars, loaderVars
<1>4. CASE \E p \in Proc : ExitLoadThread(p)
  BY <1>1, <1>4 DEF ExitLoadThread, setupVars, mainVars
<1>5. CASE UNCHANGED vars
  BY <1>1, <1>5 DEF vars, mainVars, loaderVars
<1> QED BY <1>2, <1>3, <1>4, <1>5 DEF MainStep

(* QueueInv is preserved.                                                  *)
LEMMA QueueStep == IInv /\ [Next]_vars => QueueInv'
<1> SUFFICES ASSUME IInv, [Next]_vars PROVE QueueInv'
  OBVIOUS
<1>1. ASSUME UNCHANGED schedVars, UNCHANGED prio
      PROVE  QueueInv'
  BY <1>1, SameQueues DEF IInv
<1>2. ASSUME NEW c \in CPU, CPUStep(c)
      PROVE  QueueInv'
  <2>1. prio' = prio
    BY <1>2, CPUFrame DEF setupVars, configVars
  <2>2. CASE Load(c) \/ GetNext(c)
    BY <2>1, <2>2, GetStep DEF Load, GetNext
  <2>3. CASE Preempt(c)
    BY <2>3, PreemptStep
  <2>4. CASE Free(c) \/ Keep(c) \/ Stop(c) \/ Skip(c) \/ Run(c) \/ NextSlot(c)
    BY <1>1, <2>1, <2>4 DEF Free, Keep, Stop, Skip, Run, NextSlot
  <2> QED BY <1>2, <2>2, <2>3, <2>4 DEF CPUStep
<1>3. CASE LoaderStep
  <2>1. CASE AddProcess
    BY <2>1, AddProcessStep
  <2>2. prio' = prio
    BY <1>3, LoaderFrame DEF setupVars, configVars
  <2>3. CASE LoaderStep /\ ~AddProcess
    BY <1>1, <2>2, <2>3 DEF LoaderStep, CreateLoadThread, JoinLoadThread,
         AwaitStart, AfterAdd, SetDone, LoaderExit
  <2> QED BY <1>3, <2>1, <2>3
<1>4. CASE MainStep \/ (\E p \in Proc : ExitLoadThread(p)) \/ UNCHANGED vars
  BY <1>1, <1>4, OtherFrame DEF configVars
<1>5. CASE Tick
  BY <1>1, <1>5, TickFrame DEF setupVars, configVars
<1> QED BY <1>2, <1>3, <1>4, <1>5 DEF Next

(* The types of what the CPUs keep.                                        *)
CPUTypes ==
  /\ proc \in [CPU -> Proc \cup {NoProc}]
  /\ time_left \in [CPU -> IF time_slot = 0 THEN Int ELSE 0 .. time_slot]
  /\ cpc \in [CPU -> {"top", "get", "recheck", "skip", "stopped"}]
  /\ used \in [CPU -> Nat]
  /\ st \in [Device -> {"working", "finished", "left"}]
  /\ pc \in [Proc -> Nat] /\ freed \subseteq Proc /\ ran \subseteq Proc

(* A step of a CPU keeps the types.                                        *)
LEMMA CPUTypesStep ==
  ASSUME IInv, NEW c \in CPU, CPUStep(c)
  PROVE  CPUTypes'
<1> DEFINE TL == IF time_slot = 0 THEN Int ELSE 0 .. time_slot
<1>1. CPUTypes /\ c \in Device
  BY DEF IInv, TypeOK, CPUTypes, Device
<1>2. time_slot \in Nat /\ time_slot' = time_slot /\ 0 \in TL
  BY CPUFrame, TimeSlotsAssumption DEF IInv, TypeOK, setupVars, configVars
<1>3. proc[c] \in Proc \cup {NoProc}
  BY <1>1 DEF CPUTypes
<1>4. CASE Load(c) \/ GetNext(c)
  <2>1. prio' = prio /\ Get(c)
    BY <1>4 DEF Load, GetNext, setupVars, configVars
  <2>2. PICK p \in Proc \cup {NoProc} :
           /\ proc' = [proc EXCEPT ![c] = p]
           /\ used' = [used EXCEPT ![c] = 0]
           /\ cpc' = [cpc EXCEPT ![c] =
                        IF cpc[c] = "top" /\ p = NoProc THEN "skip" ELSE "recheck"]
    BY <2>1, GetStep
  <2>3. UNCHANGED <<st, time_left, pc, freed, ran>>
    BY <1>4 DEF Load, GetNext, timerVars, pcbVars
  <2> QED BY <1>1, <1>2, <2>2, <2>3 DEF CPUTypes
<1>5. CASE Free(c)
  BY <1>1, <1>2, <1>3, <1>5 DEF Free, Goto, timerVars, CPUTypes
<1>6. CASE Preempt(c) \/ Keep(c) \/ Skip(c)
  BY <1>1, <1>2, <1>6 DEF Preempt, Keep, Skip, Goto, timerVars, pcbVars, CPUTypes
<1>7. CASE Stop(c)
  BY <1>1, <1>2, <1>7 DEF Stop, Goto, Timer!Leave, pcbVars, CPUTypes
<1>8. CASE NextSlot(c)
  BY <1>1, <1>2, <1>8 DEF NextSlot, Goto, Timer!Finish, pcbVars, CPUTypes
<1>9. CASE Run(c)
  <2>1. UNCHANGED <<st, proc, freed>>
    BY <1>9 DEF Run, timerVars
  <2>2. proc[c] \in Proc
    BY <1>3, <1>9 DEF Run
  <2>3. pc' \in [Proc -> Nat] /\ ran' \subseteq Proc
    BY <1>1, <1>9, <2>2 DEF Run, CPUTypes
  <2>4. used' \in [CPU -> Nat]
    BY <1>1, <1>9 DEF Run, CPUTypes
  <2>5. cpc' \in [CPU -> {"top", "get", "recheck", "skip", "stopped"}]
    BY <1>1, <1>9 DEF Run, Goto, CPUTypes
  <2>6. (IF time_left[c] = 0 THEN time_slot ELSE time_left[c]) - 1 \in TL
    BY <1>1, <1>2 DEF CPUTypes
  <2>7. time_left' \in [CPU -> TL]
    BY <1>1, <1>9, <2>6 DEF Run, CPUTypes
  <2> QED BY <1>1, <1>2, <2>1, <2>3, <2>4, <2>5, <2>7 DEF CPUTypes
<1> QED BY <1>4, <1>5, <1>6, <1>7, <1>8, <1>9 DEF CPUStep

(* The types of what the loader keeps.                                     *)
LoaderTypes ==
  /\ load_threads \in [Proc -> {"unborn", "running", "exited"}]
  /\ done \in BOOLEAN
  /\ i \in 1 .. num_processes + 1
  /\ lpc \in {"create", "join", "wait", "added", "detach", "exited"}
  /\ st \in [Device -> {"working", "finished", "left"}]

(* A step of the loader keeps the types.                                   *)
LEMMA LoaderTypesStep ==
  ASSUME IInv, LoaderStep
  PROVE  LoaderTypes'
<1>1. LoaderTypes /\ Loader \in Device
  BY DEF IInv, TypeOK, LoaderTypes, Device
<1>2. i \in Nat /\ num_processes \in Nat \ {0} /\ num_processes' = num_processes
  BY <1>1, NumType DEF LoaderTypes, num_processes
<1>3. CASE CreateLoadThread
  <2>1. load_threads' \in [Proc -> {"unborn", "running", "exited"}]
    BY <1>1, <1>3 DEF CreateLoadThread, LoaderTypes
  <2>2. i' \in 1 .. num_processes + 1
    BY <1>1, <1>2, <1>3 DEF CreateLoadThread, LoaderTypes
  <2> QED BY <1>1, <1>2, <1>3, <2>1, <2>2 DEF CreateLoadThread, timerVars, LoaderTypes
<1>4. CASE JoinLoadThread
  BY <1>1, <1>2, <1>4 DEF JoinLoadThread, timerVars, LoaderTypes
<1>5. CASE AwaitStart
  BY <1>1, <1>2, <1>5 DEF AwaitStart, Timer!Finish, loaderVars, LoaderTypes
<1>6. CASE AddProcess
  BY <1>1, <1>2, <1>6 DEF AddProcess, timerVars, LoaderTypes
<1>7. CASE AfterAdd
  <2>1. i <= num_processes
    BY <1>7 DEF AfterAdd, LoaderAt, IInv, Control
  <2> QED BY <1>1, <1>2, <1>7, <2>1 DEF AfterAdd, Timer!Finish, LoaderTypes
<1>8. CASE SetDone
  BY <1>1, <1>2, <1>8 DEF SetDone, timerVars, LoaderTypes
<1>9. CASE LoaderExit
  BY <1>1, <1>2, <1>9 DEF LoaderExit, Timer!Leave, LoaderTypes
<1> QED BY <1>3, <1>4, <1>5, <1>6, <1>7, <1>8, <1>9 DEF LoaderStep

(* TypeOK is preserved.                                                    *)
LEMMA TypeStep == IInv /\ [Next]_vars => TypeOK'
<1> SUFFICES ASSUME IInv, [Next]_vars PROVE TypeOK'
  OBVIOUS
<1> USE DEF TypeOK
<1>1. /\ mlq_ready_queue' \in [Prio -> Seq(Proc)] /\ prio' \in [Proc -> Prio]
      /\ slot' \in [Prio -> 0 .. MAX_PRIO]
  <2>1. QueueInv'
    BY QueueStep
  <2> QED BY <2>1, MaxPrioAssumption DEF QueueInv, Prio
<1>2. TypeOK
  BY DEF IInv
<1>3. CASE \E c \in CPU : CPUStep(c)
  <2>1. CPUTypes'
    BY <1>3, CPUTypesStep
  <2>2. UNCHANGED <<clock, setupVars, loaderVars>>
    BY <1>3, CPUFrame
  <2> QED BY <1>1, <1>2, <2>1, <2>2 DEF CPUTypes, setupVars, configVars, mainVars,
             loaderVars
<1>4. CASE LoaderStep
  <2>1. LoaderTypes'
    BY <1>4, LoaderTypesStep
  <2>2. UNCHANGED <<clock, setupVars, cpuVars, pcbVars>>
    BY <1>4, LoaderFrame
  <2> QED BY <1>1, <1>2, <2>1, <2>2 DEF LoaderTypes, setupVars, configVars,
             mainVars, cpuVars, pcbVars
<1>5. CASE MainStep \/ (\E p \in Proc : ExitLoadThread(p)) \/ UNCHANGED vars
  <2>1. /\ UNCHANGED <<timerVars, configVars, cpuVars, done, i, lpc, pcbVars>>
        /\ created' \subseteq Device
        /\ load_threads' \in [Proc -> {"unborn", "running", "exited"}]
        /\ mpc' \in {"running", "returned"}
    BY <1>5, OtherFrame
  <2> QED BY <1>1, <1>2, <2>1 DEF timerVars, configVars, cpuVars, pcbVars
<1>6. CASE Tick
  <2>1. UNCHANGED <<setupVars, cpuVars, loaderVars, pc, freed>>
    BY <1>6, TickFrame
  <2>2. /\ clock' = (IF clock < Horizon THEN clock + 1 ELSE clock)
        /\ st' \in [Device -> {"working", "finished", "left"}]
        /\ ran' = {}
    BY <1>6, TickFrame
  <2>3. clock' \in 0 .. Horizon
    BY <1>2, <2>2, HorizonType
  <2> QED BY <1>1, <1>2, <2>1, <2>2, <2>3 DEF setupVars, configVars, mainVars,
             cpuVars, loaderVars
<1> QED BY <1>3, <1>4, <1>5, <1>6 DEF Next

-----------------------------------------------------------------------------
(* Where the threads can be.                                               *)

(* Control is preserved.                                                   *)
LEMMA ControlStep == IInv /\ [Next]_vars => Control'
<1> SUFFICES ASSUME IInv, [Next]_vars PROVE Control'
  OBVIOUS
<1> USE DEF Control, Loading
<1>1. Control /\ TypeOK
  BY DEF IInv
<1>2. /\ num_processes' = num_processes /\ Loader \in Device
      /\ \A c \in CPU : c \in Device /\ c # Loader
  BY DeviceAssumption DEF num_processes, Device
<1>3. ASSUME NEW c \in CPU, CPUStep(c)
      PROVE  Control'
  <2>1. /\ UNCHANGED <<clock, setupVars, loaderVars>>
        /\ \A d \in CPU \ {c} : /\ proc'[d] = proc[d] /\ cpc'[d] = cpc[d]
                                /\ st'[d] = st[d]
        /\ st'[Loader] = st[Loader] /\ c \in created /\ st[c] = "working"
    BY <1>3, CPUFrame
  <2>2. /\ st'[c] = "finished" => cpc'[c] = "top"
        /\ st'[c] = "left" <=> cpc'[c] = "stopped"
        /\ cpc'[c] = "stopped" => done /\ proc'[c] = NoProc
    <3>1. cpc[c] # "stopped"
      BY <1>1, <2>1
    <3>2. c \in DOMAIN st /\ c \in DOMAIN cpc
      BY <1>1, <1>2 DEF TypeOK
    <3>3. CASE Load(c) \/ GetNext(c)
      BY <2>1, <3>2, <3>3 DEF Load, GetNext, Get, Goto, timerVars
    <3>4. CASE Free(c) \/ Preempt(c) \/ Keep(c) \/ Skip(c) \/ Run(c)
      BY <2>1, <3>2, <3>4 DEF Free, Preempt, Keep, Skip, Run, Goto, timerVars
    <3>5. CASE Stop(c)
      BY <3>2, <3>5 DEF Stop, Goto, Timer!Leave
    <3>6. CASE NextSlot(c)
      BY <3>2, <3>6 DEF NextSlot, Goto, Timer!Finish
    <3> QED BY <1>3, <3>3, <3>4, <3>5, <3>6 DEF CPUStep
  <2>3. created' = created /\ done' = done /\ i' = i /\ lpc' = lpc
    BY <2>1 DEF setupVars, mainVars, loaderVars
  <2> QED BY <1>1, <1>2, <2>1, <2>2, <2>3 DEF Device
<1>4. CASE LoaderStep
  <2>1. /\ UNCHANGED <<clock, created, cpuVars>>
        /\ \A d \in CPU : st'[d] = st[d]
        /\ Loader \in created /\ st[Loader] = "working"
    BY <1>4, LoaderFrame DEF setupVars, mainVars
  <2>2. \A d \in Device \ created' : st'[d] = "working"
    BY <1>1, <2>1 DEF Device
  <2>3. proc' = proc /\ cpc' = cpc
    BY <2>1 DEF cpuVars
  <2>4. Loader \in DOMAIN st /\ i \in Nat /\ num_processes \in Nat
    BY <1>1, <1>2, NumType DEF TypeOK
  <2>5. CASE CreateLoadThread \/ JoinLoadThread \/ AddProcess
    BY <1>1, <1>2, <2>1, <2>2, <2>3, <2>4, <2>5, NumType
       DEF CreateLoadThread, JoinLoadThread, AddProcess, LoaderAt, More, timerVars
  <2>6. CASE AwaitStart \/ AfterAdd
    <3>1. st'[Loader] = "finished" /\ lpc' = "wait" /\ done' = done
      BY <2>4, <2>6 DEF AwaitStart, AfterAdd, LoaderAt, Timer!Finish, loaderVars
    <3>2. ~done
      BY <1>1, <2>6 DEF AwaitStart, AfterAdd, LoaderAt
    <3> QED BY <1>1, <2>1, <2>2, <2>3, <3>1, <3>2
  <2>7. CASE SetDone
    <3>1. i = num_processes + 1
      BY <1>1, <2>4, <2>7 DEF SetDone, More, TypeOK
    <3> QED BY <1>1, <1>2, <2>1, <2>2, <2>3, <2>7, <3>1 DEF SetDone, timerVars
  <2>8. CASE LoaderExit
    BY <1>1, <1>2, <2>1, <2>2, <2>3, <2>4, <2>8
       DEF LoaderExit, LoaderAt, Timer!Leave
  <2> QED BY <1>4, <2>5, <2>6, <2>7, <2>8 DEF LoaderStep
<1>5. CASE MainStep \/ (\E p \in Proc : ExitLoadThread(p)) \/ UNCHANGED vars
  <2>1. /\ UNCHANGED <<clock, st, proc, cpc, done, i, lpc>>
        /\ created \subseteq created' /\ created' \subseteq Device
    BY <1>5, OtherFrame DEF timerVars, cpuVars
  <2> QED BY <1>1, <1>2, <2>1
<1>6. CASE Tick
  <2>1. /\ UNCHANGED <<created, proc, cpc, done, i, lpc>>
        /\ \A d \in Device :
             /\ st[d] # "working"
             /\ st'[d] = IF st[d] = "finished" THEN "working" ELSE st[d]
        /\ created = Device
    BY <1>6, TickFrame DEF setupVars, mainVars, cpuVars, loaderVars
  <2>2. st[Loader] \in {"finished", "left"} /\ \A c \in CPU : st[c] \in {"finished", "left"}
    BY <1>1, <1>2, <2>1 DEF TypeOK
  <2> QED BY <1>1, <1>2, <2>1, <2>2
<1> QED BY <1>3, <1>4, <1>5, <1>6 DEF Next

(* Loaded is preserved.                                                    *)
LEMMA LoadedStep == IInv /\ [Next]_vars => Loaded'
<1> SUFFICES ASSUME IInv, [Next]_vars PROVE Loaded'
  OBVIOUS
<1> USE DEF Loaded, Loading
<1>1. Loaded /\ Control /\ TypeOK
  BY DEF IInv
<1>2. CASE \E c \in CPU : CPUStep(c)
  BY <1>1, <1>2, CPUFrame DEF loaderVars
<1>3. CASE LoaderStep
  <2>1. i \in Nat /\ num_processes \in Nat \ {0} /\ Proc = 1 .. num_processes
    BY <1>1, NumType DEF TypeOK
  <2>2. CASE CreateLoadThread
    BY <1>1, <2>1, <2>2 DEF CreateLoadThread, LoaderAt
  <2>3. CASE JoinLoadThread
    BY <1>1, <2>1, <2>3 DEF JoinLoadThread, LoaderAt, Control
  <2>4. CASE AwaitStart \/ AddProcess \/ AfterAdd \/ SetDone \/ LoaderExit
    BY <1>1, <2>4 DEF AwaitStart, AddProcess, AfterAdd, SetDone, LoaderExit,
                      LoaderAt, loaderVars
  <2> QED BY <1>3, <2>2, <2>3, <2>4 DEF LoaderStep
<1>4. CASE MainStep \/ (\E p \in Proc : ExitLoadThread(p)) \/ UNCHANGED vars
  BY <1>1, <1>4, OtherFrame
<1>5. CASE Tick
  BY <1>1, <1>5, TickFrame DEF loaderVars
<1> QED BY <1>2, <1>3, <1>4, <1>5 DEF Next

-----------------------------------------------------------------------------
(* The slices.                                                             *)

(* Slices is preserved.                                                    *)
LEMMA SlicesStep == IInv /\ [Next]_vars => Slices'
<1> SUFFICES ASSUME IInv, [Next]_vars PROVE Slices'
  OBVIOUS
<1>1. Slices /\ CPUTypes /\ time_slot \in Nat
  BY TimeSlotsAssumption DEF IInv, TypeOK, CPUTypes
<1>2. ASSUME NEW c \in CPU, CPUStep(c)
      PROVE  Slices'
  <2>1. /\ time_slot' = time_slot
        /\ \A d \in CPU \ {c} :
             /\ proc'[d] = proc[d] /\ time_left'[d] = time_left[d]
             /\ cpc'[d] = cpc[d] /\ used'[d] = used[d]
    BY <1>2, CPUFrame DEF setupVars, configVars
  <2>2. /\ c \in DOMAIN cpc /\ c \in DOMAIN used /\ c \in DOMAIN time_left
        /\ c \in DOMAIN proc /\ used[c] \in Nat /\ time_left[c] \in Int
    BY <1>1 DEF CPUTypes
  <2>3. /\ proc[c] = NoProc => used[c] = 0 /\ time_left[c] = 0
        /\ cpc[c] = "get" => time_left[c] = 0
        /\ cpc[c] = "recheck" => Fresh(c) \/ (Started(c) /\ time_left[c] # 0)
        /\ cpc[c] \in {"top", "skip"} /\ proc[c] # NoProc => Started(c)
    BY <1>1 DEF Slices
  <2>4. /\ proc'[c] = NoProc => used'[c] = 0 /\ time_left'[c] = 0
        /\ cpc'[c] = "get" => time_left'[c] = 0
        /\ cpc'[c] = "recheck" => Fresh(c)' \/ (Started(c)' /\ time_left'[c] # 0)
        /\ cpc'[c] \in {"top", "skip"} /\ proc'[c] # NoProc => Started(c)'
    <3> USE DEF Fresh, Started
    <3>1. CASE Load(c) \/ GetNext(c)
      BY <2>1, <2>2, <2>3, <3>1 DEF Load, GetNext, Get, Goto, At
    <3>2. CASE Free(c)
      BY <2>1, <2>2, <2>3, <3>2 DEF Free, Goto, At
    <3>3. CASE Preempt(c) \/ Keep(c)
      BY <2>1, <2>2, <2>3, <3>3 DEF Preempt, Keep, Goto, At
    <3>4. CASE Stop(c) \/ Skip(c)
      BY <2>1, <2>2, <2>3, <3>4 DEF Stop, Skip, Goto, At
    <3>5. CASE Run(c)
      BY <1>1, <2>1, <2>2, <2>3, <3>5 DEF Run, Goto, At
    <3>6. CASE NextSlot(c)
      BY <2>1, <2>2, <2>3, <3>6 DEF NextSlot, Goto, At
    <3> QED BY <1>2, <3>1, <3>2, <3>3, <3>4, <3>5, <3>6 DEF CPUStep
  <2> QED BY <1>1, <2>1, <2>4 DEF Slices, Fresh, Started
<1>3. CASE UNCHANGED <<configVars, cpuVars>>
  BY <1>1, <1>3 DEF Slices, Fresh, Started, configVars, cpuVars
<1> QED BY <1>2, <1>3, LoaderFrame, OtherFrame, TickFrame DEF Next, setupVars

(* Ran is preserved.                                                       *)
LEMMA RanStep == IInv /\ [Next]_vars => Ran'
<1> SUFFICES ASSUME IInv, [Next]_vars PROVE Ran'
  OBVIOUS
<1>1. Ran /\ CPUTypes
  BY DEF IInv, TypeOK, CPUTypes
<1>2. ASSUME NEW c \in CPU, CPUStep(c)
      PROVE  Ran'
  <2>1. /\ st[c] = "working"
        /\ \A d \in CPU \ {c} : /\ proc'[d] = proc[d] /\ cpc'[d] = cpc[d]
                                /\ st'[d] = st[d]
    BY <1>2, CPUFrame
  <2>2. /\ c \in DOMAIN cpc /\ c \in DOMAIN proc /\ c \in DOMAIN st
    BY <1>1 DEF CPUTypes, Device
  <2>3. \A d \in CPU \ {c} : PastRun(d) => PastRun(d)'
    BY <2>1 DEF PastRun
  <2>4. CASE Run(c)
    <3>1. ran' = ran \cup {proc[c]} /\ proc' = proc /\ cpc'[c] = "skip"
      BY <2>2, <2>4 DEF Run, Goto
    <3>2. ~PastRun(c)
      BY <2>1, <2>4 DEF PastRun, Run, At
    <3> QED BY <1>1, <2>3, <3>1, <3>2 DEF Ran, PastRun
  <2>5. CASE NextSlot(c)
    <3>1. ran' = ran /\ proc' = proc /\ cpc'[c] = "top" /\ st'[c] = "finished"
      BY <2>2, <2>5 DEF NextSlot, Goto, Timer!Finish, pcbVars
    <3> QED BY <1>1, <2>3, <3>1 DEF Ran, PastRun
  <2>6. CASE ~Run(c) /\ ~NextSlot(c)
    <3>1. ran' = ran /\ ~PastRun(c)
      BY <1>2, <2>1, <2>6 DEF CPUStep, Load, Free, Preempt, Keep, GetNext, Stop,
                              Skip, At, PastRun, pcbVars
    <3> QED BY <1>1, <2>1, <2>3, <3>1 DEF Ran
  <2> QED BY <2>4, <2>5, <2>6
<1>3. CASE Tick
  BY <1>3, TickFrame DEF Ran
<1>4. CASE UNCHANGED <<cpuVars, ran>> /\ \A d \in CPU : st'[d] = st[d]
  BY <1>1, <1>4 DEF Ran, PastRun, cpuVars
<1>5. CASE LoaderStep
  BY <1>4, <1>5, LoaderFrame DEF pcbVars
<1>6. CASE MainStep \/ (\E p \in Proc : ExitLoadThread(p)) \/ UNCHANGED vars
  BY <1>4, <1>6, OtherFrame DEF pcbVars, timerVars
<1> QED BY <1>2, <1>3, <1>5, <1>6 DEF Next

-----------------------------------------------------------------------------
(* Who may use which pcb.                                                  *)

(* Of the steps of the loader only AddProcess adds a process.              *)
LEMMA LoaderAdds ==
  ASSUME IInv, LoaderStep
  PROVE  Added' = IF AddProcess THEN Added \cup {i} ELSE Added
<1>1. i \in Nat \ {0}
  BY NumType DEF IInv, TypeOK
<1>2. CASE AddProcess
  <2>1. lpc = "wait" /\ lpc' = "added" /\ i' = i
    BY <1>2 DEF AddProcess, LoaderAt
  <2>2. Added = 1 .. i - 1 /\ Added' = 1 .. i
    BY <2>1 DEF Added
  <2> QED BY <1>1, <1>2, <2>2
<1>3. CASE CreateLoadThread \/ JoinLoadThread
  <2>1. \/ lpc \in {"create", "join"} /\ lpc' \in {"create", "join"}
        \/ lpc = "join" /\ lpc' = "wait" /\ i' = 1
    BY <1>3 DEF CreateLoadThread, JoinLoadThread, LoaderAt
  <2>2. Added = {} /\ Added' = {} /\ ~AddProcess
    BY <2>1 DEF Added, AddProcess, LoaderAt
  <2> QED BY <2>2
<1>4. CASE AwaitStart
  <2>1. lpc = "wait" /\ lpc' = "wait" /\ i' = i
    BY <1>4 DEF AwaitStart, LoaderAt, loaderVars
  <2> QED BY <2>1 DEF Added, AddProcess
<1>5. CASE AfterAdd
  <2>1. lpc = "added" /\ lpc' = "wait" /\ i' = i + 1
    BY <1>5 DEF AfterAdd, LoaderAt
  <2>2. Added = 1 .. i
    BY <2>1 DEF Added
  <2>3. Added' = 1 .. i' - 1
    BY <2>1 DEF Added
  <2>4. i' - 1 = i
    BY <1>1, <2>1
  <2> QED BY <2>1, <2>2, <2>3, <2>4 DEF AddProcess, LoaderAt
<1>6. CASE SetDone \/ LoaderExit
  <2>1. lpc \in {"wait", "detach"} /\ lpc' \in {"detach", "exited"} /\ i' = i
    BY <1>6 DEF SetDone, LoaderExit, LoaderAt
  <2> QED BY <2>1 DEF Added, AddProcess
<1> QED BY <1>2, <1>3, <1>4, <1>5, <1>6 DEF LoaderStep

(* Holders is preserved.                                                   *)
LEMMA HoldersStep == IInv /\ [Next]_vars => Holders'
<1> SUFFICES ASSUME IInv, [Next]_vars PROVE Holders'
  OBVIOUS
<1>1. Holders /\ CPUTypes
  BY DEF IInv, TypeOK, CPUTypes
<1>2. ASSUME NEW c \in CPU, CPUStep(c)
      PROVE  Holders'
  <2>1. \A d \in CPU \ {c} : Holds(d)' = Holds(d)
    BY <1>2, CPUFrame DEF Holds
  <2>2. Added' = Added
    BY <1>2, CPUFrame DEF Added, loaderVars
  <2>3. c \in DOMAIN cpc /\ c \in DOMAIN proc
    BY <1>1 DEF CPUTypes
  <2>4. prio' = prio
    BY <1>2, CPUFrame DEF setupVars, configVars
  <2>5. CASE Load(c) \/ GetNext(c)
    <3>1. Get(c) /\ freed' = freed /\ Holds(c) = NoProc
      BY <2>5 DEF Load, GetNext, At, Holds, pcbVars
    <3>2. PICK p \in Proc \cup {NoProc} :
            /\ proc' = [proc EXCEPT ![c] = p]
            /\ cpc' = [cpc EXCEPT ![c] =
                  IF cpc[c] = "top" /\ p = NoProc THEN "skip" ELSE "recheck"]
            /\ \/ p \in InQueues /\ InQueues' = InQueues \ {p}
               \/ p = NoProc /\ InQueues = {} /\ InQueues' = {}
      BY <2>4, <3>1, GetStep
    <3>3. Holds(c)' = p
      BY <2>3, <3>2 DEF Holds
    <3> QED BY <1>1, <2>1, <2>2, <3>1, <3>2, <3>3 DEF Holders
  <2>6. CASE Free(c)
    <3>1. /\ Holds(c)' = NoProc /\ Holds(c) = proc[c] /\ proc[c] # NoProc
          /\ freed' = freed \cup {proc[c]}
      BY <2>3, <2>6 DEF Free, At, Goto, Holds
    <3>2. InQueues' = InQueues
      BY <2>4, <2>6, SameQueues DEF Free, IInv
    <3> QED BY <1>1, <2>1, <2>2, <3>1, <3>2 DEF Holders
  <2>7. CASE Preempt(c)
    <3>1. /\ Holds(c)' = NoProc /\ Holds(c) = proc[c] /\ proc[c] # NoProc
          /\ freed' = freed
      BY <2>3, <2>7 DEF Preempt, At, Goto, Holds, pcbVars
    <3>2. InQueues' = InQueues \/ InQueues' = InQueues \cup {proc[c]}
      BY <2>7, PreemptStep
    <3> QED BY <1>1, <2>1, <2>2, <3>1, <3>2 DEF Holders
  <2>8. CASE Keep(c) \/ Stop(c) \/ Skip(c) \/ Run(c) \/ NextSlot(c)
    <3>1. freed' = freed /\ schedVars' = schedVars
      BY <2>8 DEF Keep, Stop, Skip, Run, NextSlot, pcbVars
    <3>2. InQueues' = InQueues
      BY <2>4, <3>1, SameQueues DEF IInv
    <3>3. Holds(c)' = Holds(c)
      BY <2>3, <2>8 DEF Keep, Stop, Skip, Run, NextSlot, At, Goto, Holds
    <3> QED BY <1>1, <2>1, <2>2, <3>1, <3>2, <3>3 DEF Holders
  <2> QED BY <1>2, <2>5, <2>6, <2>7, <2>8 DEF CPUStep
<1>3. CASE LoaderStep
  <2>1. UNCHANGED <<prio, cpuVars, freed>>
    BY <1>3, LoaderFrame DEF setupVars, configVars, pcbVars
  <2>2. \A c \in CPU : Holds(c)' = Holds(c)
    BY <2>1 DEF Holds, cpuVars
  <2>3. CASE AddProcess
    <3>1. Added' = Added \cup {i} /\ i \notin Added
      BY <1>3, <2>3, LoaderAdds, AddProcessStep
    <3>2. InQueues' = InQueues \/ InQueues' = InQueues \cup {i}
      BY <2>3, AddProcessStep
    <3> QED BY <1>1, <2>1, <2>2, <3>1, <3>2 DEF Holders
  <2>4. CASE ~AddProcess
    <3>1. Added' = Added
      BY <1>3, <2>4, LoaderAdds
    <3>2. schedVars' = schedVars
      BY <1>3, <2>4 DEF LoaderStep, CreateLoadThread, JoinLoadThread,
         AwaitStart, AfterAdd, SetDone, LoaderExit
    <3>3. InQueues' = InQueues
      BY <2>1, <3>2, SameQueues DEF IInv
    <3> QED BY <1>1, <2>1, <2>2, <3>1, <3>3 DEF Holders
  <2> QED BY <2>3, <2>4
<1>4. CASE MainStep \/ (\E p \in Proc : ExitLoadThread(p)) \/ UNCHANGED vars
           \/ Tick
  <2>1. UNCHANGED <<prio, schedVars, cpuVars, freed, i, lpc>>
    BY <1>4, OtherFrame, TickFrame DEF setupVars, configVars, pcbVars, loaderVars
  <2>2. InQueues' = InQueues
    BY <2>1, SameQueues DEF IInv
  <2>3. Added' = Added /\ \A c \in CPU : Holds(c)' = Holds(c)
    BY <2>1 DEF Added, Holds, cpuVars
  <2> QED BY <1>1, <2>1, <2>2, <2>3 DEF Holders
<1> QED BY <1>2, <1>3, <1>4 DEF Next

-----------------------------------------------------------------------------
(* Nobody gives up while there is work.                                    *)

(* Over is preserved: what is put in a queue belongs to a CPU that is not  *)
(* idle.                                                                   *)
LEMMA OverStep == IInv /\ [Next]_vars => Over'
<1> SUFFICES ASSUME IInv, [Next]_vars PROVE Over'
  OBVIOUS
<1>1. Over /\ Control /\ CPUTypes
  BY DEF IInv, TypeOK, CPUTypes
<1>2. ASSUME NEW c \in CPU, CPUStep(c)
      PROVE  Over'
  <2>1. /\ UNCHANGED <<prio, done, i, lpc>> /\ st'[Loader] = st[Loader]
        /\ \A d \in CPU \ {c} : Idle(d)' = Idle(d)
    BY <1>2, CPUFrame DEF setupVars, configVars, loaderVars, Idle
  <2>2. NoMoreToAdd' = NoMoreToAdd
    BY <2>1 DEF NoMoreToAdd, More, num_processes
  <2>3. c \in DOMAIN cpc /\ c \in DOMAIN proc
    BY <1>1 DEF CPUTypes
  <2>4. CASE GetNext(c)
    <3>1. Get(c)
      BY <2>4 DEF GetNext
    <3>2. PICK p \in Proc \cup {NoProc} :
            /\ proc' = [proc EXCEPT ![c] = p]
            /\ \/ p \in InQueues /\ InQueues' = InQueues \ {p}
               \/ p = NoProc /\ InQueues = {} /\ InQueues' = {}
      BY <2>1, <3>1, GetStep
    <3>3. cpc'[c] = "recheck" /\ proc'[c] = p
      BY <2>3, <2>4, <3>2 DEF GetNext, Get, Goto, At
    <3>4. p \in InQueues => ~Idle(c)'
      BY <3>3, NoProcAssumption DEF Idle, InQueues
    <3> QED BY <3>2, <3>4 DEF Over
  <2>5. CASE Load(c)
    <3>1. Get(c)
      BY <2>5 DEF Load
    <3>2. PICK p \in Proc \cup {NoProc} :
            /\ proc' = [proc EXCEPT ![c] = p]
            /\ \/ p \in InQueues /\ InQueues' = InQueues \ {p}
               \/ p = NoProc /\ InQueues = {} /\ InQueues' = {}
      BY <2>1, <3>1, GetStep
    <3>3. cpc'[c] \in {"skip", "recheck"} /\ proc'[c] = p
      BY <2>3, <2>5, <3>2 DEF Load, Get, Goto
    <3>4. p \in InQueues => ~Idle(c)'
      BY <3>3, NoProcAssumption DEF Idle, InQueues
    <3> QED BY <3>2, <3>4 DEF Over
  <2>6. CASE Free(c) \/ Preempt(c) \/ Keep(c) \/ Skip(c) \/ Run(c) \/ NextSlot(c)
    <3>1. ~Idle(c)'
      BY <2>3, <2>6 DEF Free, Preempt, Keep, Skip, Run, NextSlot, Goto, At, Idle
    <3> QED BY <3>1 DEF Over
  <2>7. CASE Stop(c)
    <3>1. Idle(c) /\ schedVars' = schedVars
      BY <2>7 DEF Stop, At, Idle
    <3>2. InQueues' = InQueues
      BY <2>1, <3>1, SameQueues DEF IInv
    <3> QED BY <1>1, <2>1, <2>2, <3>1, <3>2 DEF Over
  <2> QED BY <1>2, <2>4, <2>5, <2>6, <2>7 DEF CPUStep
<1>3. CASE LoaderStep
  <2>1. UNCHANGED <<prio, cpuVars>>
    BY <1>3, LoaderFrame DEF setupVars, configVars
  <2>2. \A c \in CPU : Idle(c)' = Idle(c)
    BY <2>1 DEF Idle, cpuVars
  <2>3. CASE SetDone \/ LoaderExit
    <3>1. NoMoreToAdd /\ schedVars' = schedVars
      BY <1>1, <2>3 DEF SetDone, LoaderExit, LoaderAt, NoMoreToAdd, Control
    <3>2. InQueues' = InQueues
      BY <2>1, <3>1, SameQueues DEF IInv
    <3> QED BY <1>1, <2>2, <3>1, <3>2 DEF Over
  <2>4. CASE ~SetDone /\ ~LoaderExit
    <3>1. ~done /\ done' = done
      BY <1>1, <1>3, <2>4 DEF LoaderStep, CreateLoadThread, JoinLoadThread,
         AwaitStart, AddProcess, AfterAdd, LoaderAt, loaderVars, Control
    <3>2. CASE CreateLoadThread \/ JoinLoadThread
      <4>1. lpc' = "wait" => i' = 1
        BY <3>2 DEF CreateLoadThread, JoinLoadThread, LoaderAt
      <4> QED BY <3>1, <4>1, NumType DEF Over, NoMoreToAdd, More, num_processes
    <3>3. CASE AwaitStart \/ AfterAdd
      <4>1. st'[Loader] = "finished"
        BY <3>3 DEF AwaitStart, AfterAdd, Timer!Finish, IInv, TypeOK, Device
      <4> QED BY <3>1, <4>1 DEF Over, NoMoreToAdd
    <3>4. CASE AddProcess
      BY <3>1, <3>4 DEF AddProcess, Over, NoMoreToAdd
    <3> QED BY <1>3, <2>4, <3>2, <3>3, <3>4 DEF LoaderStep
  <2> QED BY <2>3, <2>4
<1>4. CASE MainStep \/ (\E p \in Proc : ExitLoadThread(p)) \/ UNCHANGED vars
  <2>1. UNCHANGED <<st, prio, schedVars, cpuVars, done, i, lpc>>
    BY <1>4, OtherFrame DEF configVars, timerVars
  <2>2. InQueues' = InQueues
    BY <2>1, SameQueues DEF IInv
  <2> QED BY <1>1, <2>1, <2>2 DEF Over, NoMoreToAdd, More, Idle, cpuVars,
             num_processes
<1>5. CASE Tick
  <2>1. UNCHANGED <<prio, schedVars, cpuVars, done>>
    BY <1>5, TickFrame DEF setupVars, configVars, loaderVars
  <2>2. CASE done
    <3>1. InQueues' = InQueues
      BY <2>1, SameQueues DEF IInv
    <3> QED BY <1>1, <2>1, <2>2, <3>1 DEF Over, NoMoreToAdd, Idle, cpuVars
  <2>3. CASE ~done
    <3>1. PICK c \in CPU : TRUE
      BY DeviceAssumption
    <3>2. st[c] # "working" /\ st[c] \in {"working", "finished", "left"}
      BY <1>5, TickFrame DEF IInv, TypeOK, Device
    <3>3. cpc[c] = "top"
      BY <1>1, <2>3, <3>2 DEF Control
    <3>4. ~Idle(c)'
      BY <2>1, <3>3 DEF Idle, cpuVars
    <3> QED BY <3>4 DEF Over
  <2> QED BY <2>2, <2>3
<1> QED BY <1>2, <1>3, <1>4, <1>5 DEF Next

-----------------------------------------------------------------------------
(* The loader's clock.                                                     *)

(* OnTime is preserved: the loader looks at its next process once a slot.  *)
LEMMA OnTimeStep == IInv /\ [Next]_vars => OnTime'
<1> SUFFICES ASSUME IInv, [Next]_vars PROVE OnTime'
  OBVIOUS
<1> DEFINE S(q) == start_time[q]
<1>1. /\ OnTime /\ Control
      /\ clock \in Nat /\ i \in Nat \ {0} /\ num_processes \in Nat \ {0}
      /\ Proc = 1 .. num_processes /\ Loader \in Device
  BY NumType, HorizonType DEF IInv, TypeOK, Device
<1>2. \A q \in Proc : S(q) \in Nat /\ S(q) + num_processes - 1 <= Horizon
  BY HorizonType DEF IInv, TypeOK
<1>3. CASE UNCHANGED <<clock, start_time, i, lpc>> /\ st'[Loader] = st[Loader]
  BY <1>1, <1>3 DEF OnTime, Due, NotBefore, NextLook, More, num_processes
<1>4. CASE \E c \in CPU : CPUStep(c)
  BY <1>3, <1>4, CPUFrame DEF setupVars, configVars, loaderVars
<1>5. CASE MainStep \/ (\E p \in Proc : ExitLoadThread(p)) \/ UNCHANGED vars
  BY <1>3, <1>5, OtherFrame DEF timerVars, configVars
<1>6. CASE LoaderStep
  <2>1. clock' = clock /\ start_time' = start_time /\ st[Loader] = "working"
    BY <1>6, LoaderFrame DEF setupVars, configVars
  <2>2. num_processes' = num_processes
    BY DEF num_processes
  <2>3. CASE CreateLoadThread \/ JoinLoadThread
    <3>1. /\ lpc' # "added" /\ (lpc' = "wait" => i' = 1) /\ clock = 0
          /\ st' = st
      BY <1>1, <2>3 DEF CreateLoadThread, JoinLoadThread, LoaderAt, Control,
                        Loading, timerVars
    <3>2. CASE lpc' = "wait"
      <4>1. i' = 1 /\ NextLook' = 0
        BY <2>1, <3>1, <3>2 DEF NextLook
      <4>2. S(1) \in Nat
        BY <1>1, <1>2
      <4>3. 1 \in 1 .. i' /\ NextLook' <= S(1) + (i' - 1)
        BY <4>1, <4>2
      <4>4. 1 .. i' - 1 = {}
        BY <4>1
      <4> QED BY <2>1, <3>1, <4>3, <4>4 DEF OnTime
    <3> QED BY <3>1, <3>2 DEF OnTime
  <2>4. CASE AwaitStart
    <3>1. /\ lpc = "wait" /\ lpc' = "wait" /\ i' = i /\ More /\ clock < S(i)
          /\ st'[Loader] = "finished"
      BY <1>1, <2>4 DEF AwaitStart, LoaderAt, Timer!Finish, loaderVars, IInv, TypeOK
    <3>2. NextLook = clock /\ NextLook' = clock + 1
      BY <2>1, <3>1 DEF NextLook
    <3>3. \A q \in 1 .. i - 1 : S(q) + (i - q) <= clock
      BY <1>1, <3>1, <3>2 DEF OnTime, NotBefore
    <3>4. \A q \in 1 .. i - 1 : S(q) + (i - q) <= clock + 1
      <4> SUFFICES ASSUME NEW q \in 1 .. i - 1
                   PROVE  S(q) + (i - q) <= clock + 1
        OBVIOUS
      <4>1. q \in Proc /\ S(q) \in Nat /\ S(q) + (i - q) <= clock
        BY <1>1, <1>2, <3>1, <3>3 DEF More
      <4> QED BY <1>1, <4>1
    <3>5. i \in 1 .. i /\ clock + 1 <= S(i) + (i - i)
      <4>1. i \in Proc
        BY <1>1, <3>1 DEF More
      <4>2. S(i) \in Nat
        BY <1>2, <4>1
      <4> QED BY <1>1, <3>1, <4>2
    <3> QED BY <2>1, <3>1, <3>2, <3>4, <3>5 DEF OnTime, NotBefore
  <2>5. CASE AddProcess
    <3>1. /\ lpc = "wait" /\ lpc' = "added" /\ i' = i /\ More /\ ~(clock < S(i))
      BY <2>5 DEF AddProcess, LoaderAt
    <3>2. i \in Proc /\ S(i) \in Nat
      BY <1>1, <1>2, <3>1 DEF More
    <3>3. NextLook = clock
      BY <2>1 DEF NextLook
    <3>4. \A q \in 1 .. i : S(q) + (i - q) <= clock
      <4>1. \A q \in 1 .. i - 1 : S(q) + (i - q) <= clock
        BY <1>1, <3>1, <3>3 DEF OnTime, NotBefore
      <4>2. S(i) + (i - i) <= clock
        BY <1>1, <3>1, <3>2
      <4>3. \A q \in 1 .. i : q \in 1 .. i - 1 \/ q = i
        BY <1>1
      <4> QED BY <4>1, <4>2, <4>3
    <3>5. PICK q \in 1 .. i : clock <= S(q) + (i - q)
      BY <1>1, <3>1, <3>3 DEF OnTime
    <3>6. q \in Proc /\ S(q) \in Nat
      BY <1>1, <1>2, <3>1, <3>5 DEF More
    <3>7. S(q) + (i - q) = clock
      BY <1>1, <3>4, <3>5, <3>6
    <3>8. Due(i, clock)
      BY <3>4, <3>7 DEF Due, NotBefore
    <3> QED BY <2>1, <3>1, <3>8 DEF OnTime, Due, NotBefore
  <2>6. CASE AfterAdd
    <3>1. /\ lpc = "added" /\ lpc' = "wait" /\ i' = i + 1 /\ i <= num_processes
          /\ st'[Loader] = "finished"
      BY <1>1, <2>6 DEF AfterAdd, LoaderAt, Timer!Finish, IInv, TypeOK, Control
    <3>2. NextLook' = clock + 1
      BY <2>1, <3>1 DEF NextLook
    <3>3. Due(i, clock)
      BY <1>1, <3>1 DEF OnTime
    <3>4. ASSUME NEW q \in 1 .. i
          PROVE  q \in Proc /\ S(q) \in Nat /\ S(q) + (i - q) <= clock
      BY <1>1, <1>2, <3>1, <3>3 DEF Due, NotBefore
    <3>5. \A q \in 1 .. i' - 1 : S(q) + (i' - q) <= clock + 1
      <4> SUFFICES ASSUME NEW q \in 1 .. i' - 1
                   PROVE  S(q) + (i' - q) <= clock + 1
        OBVIOUS
      <4>1. q \in 1 .. i
        BY <1>1, <3>1
      <4> QED BY <1>1, <3>1, <3>4, <4>1
    <3>6. PICK q \in 1 .. i : S(q) + (i - q) = clock
      BY <3>3 DEF Due
    <3>7. q \in 1 .. i' /\ clock + 1 <= S(q) + (i' - q)
      BY <1>1, <3>1, <3>4, <3>6
    <3> QED BY <2>1, <3>1, <3>2, <3>5, <3>7 DEF OnTime, NotBefore
  <2>7. CASE SetDone \/ LoaderExit
    BY <2>7 DEF SetDone, LoaderExit, OnTime
  <2> QED BY <1>6, <2>3, <2>4, <2>5, <2>6, <2>7 DEF LoaderStep
<1>7. CASE Tick
  <2>1. /\ UNCHANGED <<start_time, i, lpc>>
        /\ clock' = (IF clock < Horizon THEN clock + 1 ELSE clock)
        /\ st[Loader] # "working"
        /\ st'[Loader] = IF st[Loader] = "finished" THEN "working" ELSE st[Loader]
    BY <1>1, <1>7, TickFrame DEF setupVars, configVars, loaderVars
  <2>2. CASE lpc = "wait" /\ More
    <3>1. st[Loader] = "finished"
      BY <1>1, <2>1, <2>2 DEF Control, IInv, TypeOK
    <3>2. NextLook = clock + 1
      BY <3>1 DEF NextLook
    <3>3. PICK q \in 1 .. i : clock + 1 <= S(q) + (i - q)
      BY <1>1, <2>2, <3>2 DEF OnTime
    <3>4. q \in Proc /\ S(q) \in Nat /\ S(q) + num_processes - 1 <= Horizon
      BY <1>1, <1>2, <2>2, <3>3 DEF More
    <3>5. clock < Horizon
      BY <1>1, <2>2, <3>3, <3>4, HorizonType DEF More
    <3>6. NextLook' = NextLook
      BY <2>1, <3>1, <3>2, <3>5 DEF NextLook
    <3> QED BY <1>1, <2>1, <2>2, <3>6 DEF OnTime, NotBefore
  <2>3. lpc # "added"
    BY <1>1, <2>1 DEF Control, IInv, TypeOK
  <2>4. CASE ~(lpc = "wait" /\ More)
    BY <2>1, <2>3, <2>4 DEF OnTime, More, num_processes
  <2> QED BY <2>2, <2>4
<1> QED BY <1>4, <1>5, <1>6, <1>7 DEF Next

-----------------------------------------------------------------------------
(* The invariant.                                                          *)

(* The invariant holds initially.                                          *)
LEMMA InitIInv == Init => IInv
<1> SUFFICES ASSUME Init PROVE IInv
  OBVIOUS
<1>1. QueueInv /\ InQueues = {}
  BY InitEffect DEF Init
<1>2. clock = 0 /\ st = [d \in Device |-> "working"]
  BY DEF Init, Timer!Init
<1>3. /\ lpc = "create" /\ done = FALSE /\ i = 1 /\ freed = {} /\ ran = {}
      /\ proc = [c \in CPU |-> NoProc] /\ cpc = [c \in CPU |-> "top"]
      /\ used = [c \in CPU |-> 0] /\ time_left = [c \in CPU |-> 0]
      /\ time_slot \in TimeSlots
  BY DEF Init
<1>4. Added = {} /\ \A c \in CPU : Holds(c) = NoProc
  BY <1>3 DEF Added, Holds
<1>5. TypeOK
  <2>1. clock \in 0 .. Horizon /\ i \in 1 .. num_processes + 1
    BY <1>2, <1>3, HorizonType, NumType
  <2>2. slot \in [Prio -> 0 .. MAX_PRIO] /\ mlq_ready_queue \in [Prio -> Seq(Proc)]
    BY <1>1, MaxPrioAssumption DEF QueueInv, Prio
  <2>3. time_left \in [CPU -> IF time_slot = 0 THEN Int ELSE 0 .. time_slot]
    BY <1>3, TimeSlotsAssumption
  <2>4. /\ start_time \in [Proc -> StartTimes] /\ size \in [Proc -> CodeSizes]
        /\ prio \in [Proc -> Prio] /\ mpc = "running" /\ created = {}
        /\ load_threads = [p \in Proc |-> "unborn"] /\ pc = [p \in Proc |-> 0]
    BY DEF Init
  <2>5. /\ st \in [Device -> {"working", "finished", "left"}]
        /\ proc \in [CPU -> Proc \cup {NoProc}] /\ used \in [CPU -> Nat]
        /\ cpc \in [CPU -> {"top", "get", "recheck", "skip", "stopped"}]
    BY <1>2, <1>3
  <2>6. /\ load_threads \in [Proc -> {"unborn", "running", "exited"}]
        /\ pc \in [Proc -> Nat] /\ mpc \in {"running", "returned"}
        /\ created \subseteq Device
    BY <2>4
  <2>7. /\ done \in BOOLEAN /\ freed \subseteq Proc /\ ran \subseteq Proc
        /\ lpc \in {"create", "join", "wait", "added", "detach", "exited"}
    BY <1>3
  <2> QED BY <1>3, <2>1, <2>2, <2>3, <2>4, <2>5, <2>6, <2>7 DEF TypeOK
<1>6. Control
  BY <1>2, <1>3, NumType DEF Control, Loading, Device
<1>7. Loaded /\ Ran /\ OnTime
  BY <1>3, NumType DEF Loaded, Loading, Ran, OnTime
<1>8. Holders /\ Slices /\ Over
  BY <1>1, <1>3, <1>4 DEF Holders, Slices, Over
<1> QED BY <1>1, <1>5, <1>6, <1>7, <1>8 DEF IInv

(* Every step preserves the invariant.                                     *)
LEMMA NextIInv == IInv /\ [Next]_vars => IInv'
BY QueueStep, TypeStep, ControlStep, LoadedStep, HoldersStep, SlicesStep, RanStep,
   OnTimeStep, OverStep DEF IInv

(* IInv is an invariant of the simulator.                                  *)
THEOREM Invariance == Spec => []IInv
<1> QED BY InitIInv, NextIInv, PTL DEF Spec

(* The variables of OS keep their types; in particular the clock and the   *)
(* loader's i stay in range, and a slice never becomes negative unless the *)
(* configured time slice is 0.                                             *)
THEOREM TypeCorrect == Spec => []TypeOK
<1>1. IInv => TypeOK
  BY DEF IInv
<1> QED BY <1>1, Invariance, PTL

(* What a CPU has run of its process and what it may still run make up     *)
(* exactly one time slice.                                                 *)
THEOREM SliceExactCorrect == Spec => []SliceExact
<1>1. ASSUME IInv, NEW c \in CPU
      PROVE  Fresh(c) \/ Started(c) \/ (cpc[c] = "get" /\ time_left[c] = 0)
  <2>1. cpc[c] \in {"top", "get", "recheck", "skip", "stopped"}
    BY <1>1 DEF IInv, TypeOK
  <2> QED BY <1>1, <2>1 DEF IInv, Control, Slices, Fresh
<1>2. IInv => SliceExact
  BY <1>1 DEF SliceExact, Fresh, Started
<1> QED BY <1>2, Invariance, PTL

(* No slot passes before all threads exist and all processes are loaded.   *)
THEOREM SlotZeroWaitsCorrect == Spec => []SlotZeroWaits
<1>1. IInv => SlotZeroWaits
  BY DEF IInv, TypeOK, Control, Loaded, SlotZeroWaits
<1> QED BY <1>1, Invariance, PTL

(* The last CPU to stop leaves nothing in the queues, and stops after the  *)
(* loader has added everything.                                            *)
THEOREM NoAbandonedWorkCorrect == Spec => []NoAbandonedWork
<1>1. ASSUME IInv, \A c \in CPU : cpc[c] = "stopped"
      PROVE  lpc \in {"detach", "exited"} /\ \A p \in Proc : ~Queued(p)
  <2>1. done
    BY <1>1, DeviceAssumption DEF IInv, Control
  <2>2. InQueues = {}
    BY <1>1, <2>1 DEF IInv, Over, NoMoreToAdd, Idle
  <2>3. \A p \in Proc : Queued(p) => p \in InQueues
    BY DEF Queued, ToSet, InQueues, NotQueued
  <2> QED BY <1>1, <2>1, <2>2, <2>3 DEF IInv, Control
<1>2. IInv => NoAbandonedWork
  BY <1>1 DEF NoAbandonedWork
<1> QED BY <1>2, Invariance, PTL

-----------------------------------------------------------------------------
(* Action properties.                                                      *)

(* A process is put back after exactly time_slot slots, and freed exactly  *)
(* when all of its code has run.                                           *)
THEOREM FullSliceCorrect == Spec => FullSliceBeforePreemption
<1>1. ASSUME IInv, Next, NEW c \in CPU, cpc[c] = "top", cpc'[c] = "get"
      PROVE  IF proc[c] \in freed' THEN Completed(proc[c])
                                   ELSE used[c] = time_slot
  <2>1. ~UNCHANGED cpuVars
    BY <1>1 DEF cpuVars
  <2>2. PICK d \in CPU : CPUStep(d)
    BY <1>1, <2>1, LoaderFrame, OtherFrame, TickFrame DEF Next
  <2>3. d = c
    BY <1>1, <2>2, CPUFrame
  <2>4. c \in DOMAIN cpc
    BY <1>1 DEF IInv, TypeOK
  <2>5. Free(c) \/ Preempt(c)
    BY <1>1, <2>2, <2>3, <2>4 DEF CPUStep, Load, Keep, GetNext, Get, Stop, Skip, Run,
         NextSlot, At, Goto
  <2>6. CASE Free(c)
    BY <2>6 DEF Free
  <2>7. CASE Preempt(c)
    <3>1. proc[c] # NoProc /\ freed' = freed /\ time_left[c] = 0
      BY <2>7 DEF Preempt, pcbVars
    <3>2. proc[c] \notin freed
      BY <1>1, <3>1 DEF IInv, Holders, Holds
    <3>3. Started(c) /\ used[c] \in Nat
      BY <1>1, <3>1 DEF IInv, Slices, TypeOK
    <3> QED BY <3>1, <3>2, <3>3 DEF Started
  <2> QED BY <2>5, <2>6, <2>7
<1>2. IInv /\ [Next]_vars =>
        [\A c \in CPU : cpc[c] = "top" /\ cpc'[c] = "get" =>
           IF proc[c] \in freed' THEN Completed(proc[c])
           ELSE used[c] = time_slot]_vars
  BY <1>1
<1> QED BY <1>2, Invariance, PTL DEF Spec, FullSliceBeforePreemption

(* No process runs twice in a slot, on one CPU or on two.                  *)
THEOREM OneInstructionCorrect == Spec => OneInstructionPerSlot
<1>1. ASSUME IInv, Next, NEW p \in Proc, pc'[p] # pc[p]
      PROVE  p \notin ran
  <2>1. pc' # pc
    BY <1>1
  <2>2. PICK c \in CPU : CPUStep(c)
    BY <1>1, <2>1, LoaderFrame, OtherFrame, TickFrame DEF Next, pcbVars
  <2>3. Run(c)
    BY <2>1, <2>2 DEF CPUStep, Load, Free, Preempt, Keep, GetNext, Stop, Skip,
                      NextSlot, pcbVars
  <2>4. cpc[c] = "recheck" /\ proc[c] = p
    BY <1>1, <2>3 DEF Run, At, IInv, TypeOK
  <2>5. SUFFICES ASSUME p \in ran PROVE FALSE
    OBVIOUS
  <2>6. PICK d \in CPU : proc[d] = p /\ PastRun(d)
    BY <1>1, <2>5 DEF IInv, Ran
  <2>7. Holds(d) = p /\ Holds(c) = p /\ d # c
    BY <2>4, <2>6 DEF Holds, PastRun
  <2> QED BY <1>1, <2>7, NoProcAssumption DEF IInv, Holders
<1>2. IInv /\ [Next]_vars => [\A p \in Proc : pc'[p] # pc[p] => p \notin ran]_vars
  BY <1>1
<1> QED BY <1>2, Invariance, PTL DEF Spec, OneInstructionPerSlot

(* The slot in which a process is due is the maximum that DueSlot takes.   *)
LEMMA DueIsDueSlot ==
  ASSUME NEW p \in Proc, NEW t \in Nat, start_time \in [Proc -> Nat], Due(p, t)
  PROVE  DueSlot(p) = t
<1> DEFINE D == {start_time[q] + (p - q) : q \in 1 .. p}
<1>1. p \in Nat /\ \A q \in 1 .. p : q \in Proc /\ start_time[q] \in Nat
  BY NumType
<1>2. D \subseteq Int
  BY <1>1
<1>3. t \in D /\ \A y \in D : y <= t
  BY DEF Due, NotBefore
<1>4. Max(D) = t
  BY <1>2, <1>3, MaxIs
<1> QED BY <1>4 DEF DueSlot

(* Whatever the CPUs do, the loader adds each process in the slot that the *)
(* start times determine.                                                  *)
THEOREM AddedOnTimeCorrect == Spec => AddedOnTime
<1>1. ASSUME IInv, Next, NEW p \in Added' \ Added
      PROVE  clock = DueSlot(p)
  <2>1. Added' # Added
    BY <1>1
  <2>2. ~UNCHANGED <<i, lpc>>
    BY <2>1 DEF Added
  <2>3. LoaderStep
    BY <1>1, <2>2, CPUFrame, OtherFrame, TickFrame DEF Next, loaderVars
  <2>4. AddProcess /\ p = i
    BY <1>1, <2>1, <2>3, LoaderAdds
  <2>5. lpc' = "added" /\ i' = i /\ clock' = clock /\ start_time' = start_time
    BY <1>1, <2>3, <2>4, LoaderFrame DEF AddProcess, setupVars, configVars
  <2>6. OnTime'
    BY <1>1, OnTimeStep
  <2>7. Due(i, clock)
    BY <2>5, <2>6 DEF OnTime, Due, NotBefore
  <2>8. p \in Proc
    BY <1>1, <2>4, AddProcessStep
  <2>9. clock \in Nat
    BY <1>1, HorizonType DEF IInv, TypeOK
  <2>10. start_time \in [Proc -> Nat]
    BY <1>1, ConfigAssumption DEF IInv, TypeOK
  <2> QED BY <2>4, <2>7, <2>8, <2>9, <2>10, DueIsDueSlot
<1>2. IInv /\ [Next]_vars => [\A p \in Added' \ Added : clock = DueSlot(p)]_vars
  BY <1>1
<1> QED BY <1>2, Invariance, PTL DEF Spec, AddedOnTime

-----------------------------------------------------------------------------
(* OS implements Dispatcher.                                               *)

(* The scheduler of Dispatcher is that of OS: get_proc, ...                *)
LEMMA DispatchGet == ASSUME NEW p PROVE Dispatch!GetProc(p) <=> GetProc(p)
<1>1. Dispatch!FullSlot = FullSlot /\ Dispatch!Prio = Prio
  BY DEF FullSlot, Prio, Dispatch!FullSlot, Dispatch!Prio
<1>2. \A s : Dispatch!Eligible(s) = Eligible(s)
  BY DEF Eligible, Prio, Empty, Dispatch!Eligible, Dispatch!Prio, Dispatch!Empty
<1>3. \A q : Dispatch!HighestPrioIndex(q) = HighestPrioIndex(q)
  BY DEF HighestPrioIndex, Dispatch!HighestPrioIndex
<1>4. ASSUME NEW s, NEW l, NEW r
      PROVE  Dispatch!Take(s, l, r) <=> Take(s, l, r)
  <2>1. Dispatch!HighestPrioIndex(mlq_ready_queue[l])
          = HighestPrioIndex(mlq_ready_queue[l])
    BY <1>3
  <2>2. \A q, k : Dispatch!RemoveAt(q, k) = RemoveAt(q, k)
    BY DEF RemoveAt, Dispatch!RemoveAt
  <2> QED BY <2>1, <2>2 DEF Take, Dispatch!Take
<1>5. \A s, r : Dispatch!TakeHighest(s, r) <=> TakeHighest(s, r)
  BY <1>1, <1>2, <1>4 DEF TakeHighest, IsHighest, Dispatch!TakeHighest,
                          Dispatch!IsHighest
<1> QED BY <1>1, <1>2, <1>5 DEF GetProc, Dispatch!GetProc

(* ... put_proc ...                                                        *)
LEMMA DispatchPut == ASSUME NEW p PROVE Dispatch!PutProc(p) <=> PutProc(p)
BY DEF PutProc, Enqueue, Dispatch!PutProc, Dispatch!Enqueue

(* ... and add_proc.                                                       *)
LEMMA DispatchAdd == ASSUME NEW p PROVE Dispatch!AddProc(p) <=> AddProc(p)
BY DEF AddProc, Enqueue, Dispatch!AddProc, Dispatch!Enqueue

(* Initial states map to initial states.                                   *)
LEMMA InitImplements == Init => Dispatch!Init
<1> SUFFICES ASSUME Init PROVE Dispatch!Init
  OBVIOUS
<1>1. Dispatch!InitScheduler
  BY DEF Init, InitScheduler, FullSlot, Prio, Dispatch!InitScheduler,
         Dispatch!FullSlot, Dispatch!Prio
<1>2. Added = {} /\ freed = {} /\ \A c \in CPU : Holds(c) = NoProc
  BY DEF Init, Added, Holds
<1>3. prio \in [Proc -> Dispatch!Prio]
  BY DEF Init, Prio, Dispatch!Prio
<1> QED BY <1>1, <1>2, <1>3 DEF Dispatch!Init

(* The variables of Dispatcher, as OS has them.                            *)
On == [c \in CPU |-> Holds(c)]
Live == Added \ freed
NotAdded == Proc \ Added

(* A step that Dispatcher does not see is a stutter.                       *)
LEMMA StutterImplements ==
  ASSUME UNCHANGED <<prio, schedVars, On, Live, NotAdded>>
  PROVE  [Dispatch!Next]_Dispatch!vars
BY DEF On, Live, NotAdded, schedVars, Dispatch!vars, Dispatch!schedVars,
       Dispatch!procVars

(* A step of a CPU is one of Dispatcher or a stutter.                      *)
LEMMA CPUImplements ==
  ASSUME IInv, NEW c \in CPU, CPUStep(c)
  PROVE  [Dispatch!Next]_Dispatch!vars
<1>1. /\ CPUTypes /\ c \in DOMAIN cpc /\ c \in DOMAIN proc
  BY DEF IInv, TypeOK, CPUTypes
<1>2. prio' = prio /\ Added' = Added
  BY CPUFrame DEF setupVars, configVars, loaderVars, Added
<1>3. \A d \in CPU \ {c} : Holds(d)' = Holds(d)
  BY CPUFrame DEF Holds
<1>4. ASSUME NEW p, Holds(c)' = p
      PROVE  On' = [On EXCEPT ![c] = p]
  BY <1>3, <1>4 DEF On
<1>5. CASE Load(c) \/ GetNext(c)
  <2>1. freed' = freed /\ Holds(c) = NoProc
    BY <1>5 DEF Load, GetNext, At, Holds, pcbVars
  <2>2. PICK p \in Proc \cup {NoProc} : GetProc(p) /\ Holds(c)' = p
    BY <1>1, <1>5 DEF Load, GetNext, Get, Goto, Holds
  <2>3. On[c] = NoProc /\ On' = [On EXCEPT ![c] = p]
    BY <1>4, <2>1, <2>2 DEF On
  <2>4. Dispatch!Dispatch(c)
    BY <1>2, <2>1, <2>2, <2>3, DispatchGet DEF Dispatch!Dispatch, On
  <2> QED BY <2>4 DEF Dispatch!Next, Dispatch!CPUStep
<1>6. CASE Free(c)
  <2>1. /\ Holds(c) = proc[c] /\ proc[c] # NoProc /\ Holds(c)' = NoProc
        /\ freed' = freed \cup {proc[c]} /\ schedVars' = schedVars
    BY <1>1, <1>6 DEF Free, At, Goto, Holds
  <2>2. On[c] = proc[c] /\ On' = [On EXCEPT ![c] = NoProc]
    BY <1>4, <2>1 DEF On
  <2>3. Dispatch!Retire(c)
    BY <1>2, <2>1, <2>2 DEF Dispatch!Retire, Dispatch!schedVars, schedVars, On
  <2> QED BY <2>3 DEF Dispatch!Next, Dispatch!CPUStep
<1>7. CASE Preempt(c)
  <2>1. /\ Holds(c) = proc[c] /\ proc[c] # NoProc /\ Holds(c)' = NoProc
        /\ freed' = freed /\ PutProc(proc[c])
    BY <1>1, <1>7 DEF Preempt, At, Goto, Holds, pcbVars
  <2>2. On[c] = proc[c] /\ On' = [On EXCEPT ![c] = NoProc]
    BY <1>4, <2>1 DEF On
  <2>3. Dispatch!Requeue(c)
    BY <1>2, <2>1, <2>2, DispatchPut DEF Dispatch!Requeue, On
  <2> QED BY <2>3 DEF Dispatch!Next, Dispatch!CPUStep
<1>8. CASE Keep(c) \/ Stop(c) \/ Skip(c) \/ Run(c) \/ NextSlot(c)
  <2>1. freed' = freed /\ schedVars' = schedVars
    BY <1>8 DEF Keep, Stop, Skip, Run, NextSlot, pcbVars
  <2>2. Holds(c)' = Holds(c)
    BY <1>1, <1>8 DEF Keep, Stop, Skip, Run, NextSlot, At, Goto, Holds
  <2>3. On' = On
    BY <1>3, <2>2 DEF On
  <2> QED BY <1>2, <2>1, <2>3, StutterImplements DEF Live, NotAdded
<1> QED BY <1>5, <1>6, <1>7, <1>8 DEF CPUStep

(* A step of the loader is one of Dispatcher or a stutter.                 *)
LEMMA LoaderImplements ==
  ASSUME IInv, LoaderStep
  PROVE  [Dispatch!Next]_Dispatch!vars
<1>1. UNCHANGED <<prio, cpuVars, freed>>
  BY LoaderFrame DEF setupVars, configVars, pcbVars
<1>2. On' = On
  BY <1>1 DEF On, Holds, cpuVars
<1>3. CASE AddProcess
  <2>1. i \in Proc /\ i \notin Added /\ Added' = Added \cup {i}
    BY <1>3, LoaderAdds, AddProcessStep
  <2>2. AddProc(i)
    BY <1>3 DEF AddProcess
  <2>3. i \notin freed
    BY <2>1 DEF IInv, Holders
  <2>4. PICK p \in Proc : p = i
    BY <2>1
  <2>5. Dispatch!Admit(p)
    BY <1>1, <1>2, <2>1, <2>2, <2>3, <2>4, DispatchAdd DEF Dispatch!Admit, On
  <2> QED BY <2>5 DEF Dispatch!Next
<1>4. CASE ~AddProcess
  <2>1. Added' = Added
    BY <1>4, LoaderAdds
  <2>2. schedVars' = schedVars
    BY <1>4 DEF LoaderStep, CreateLoadThread, JoinLoadThread, AwaitStart,
                AfterAdd, SetDone, LoaderExit
  <2> QED BY <1>1, <1>2, <2>1, <2>2, StutterImplements DEF Live, NotAdded
<1> QED BY <1>3, <1>4

(* os.c uses the scheduler the way Dispatcher says, for every              *)
(* configuration: each of its steps is a step of Dispatcher or leaves      *)
(* Dispatcher's variables alone.                                           *)
THEOREM DispatcherImplemented == Spec => ImplementsDispatcher
<1>1. IInv /\ [Next]_vars => [Dispatch!Next]_Dispatch!vars
  <2> SUFFICES ASSUME IInv, [Next]_vars PROVE [Dispatch!Next]_Dispatch!vars
    OBVIOUS
  <2>1. CASE MainStep \/ (\E p \in Proc : ExitLoadThread(p)) \/ UNCHANGED vars
             \/ Tick
    <3>1. UNCHANGED <<prio, schedVars, cpuVars, freed, i, lpc>>
      BY <2>1, OtherFrame, TickFrame DEF setupVars, configVars, pcbVars, loaderVars
    <3>2. On' = On /\ Added' = Added
      BY <3>1 DEF On, Holds, Added, cpuVars
    <3> QED BY <3>1, <3>2, StutterImplements DEF Live, NotAdded
  <2> QED BY <2>1, CPUImplements, LoaderImplements DEF Next
<1> QED BY <1>1, InitImplements, Invariance, PTL
        DEF Spec, ImplementsDispatcher, Dispatch!SafeSpec

-----------------------------------------------------------------------------
(* Queues with room for all processes lose none.                           *)

Kept == Live \subseteq InQueues \cup {Holds(c) : c \in CPU}

(* With room for all processes no step loses one that was added.           *)
LEMMA NextKeeps ==
  ASSUME num_processes <= MAX_QUEUE_SIZE, IInv, Kept, [Next]_vars
  PROVE  Kept'
<1>1. IsFiniteSet(Proc) /\ Cardinality(Proc) <= MAX_QUEUE_SIZE /\ QueueInv
  BY ProcAssumption DEF num_processes, IInv
<1>2. ASSUME NEW c \in CPU, CPUStep(c)
      PROVE  Kept'
  <2>1. CPUTypes /\ c \in DOMAIN cpc /\ c \in DOMAIN proc
    BY DEF IInv, TypeOK, CPUTypes
  <2>2. prio' = prio /\ Added' = Added
    BY <1>2, CPUFrame DEF setupVars, configVars, loaderVars, Added
  <2>3. \A d \in CPU \ {c} : Holds(d)' = Holds(d)
    BY <1>2, CPUFrame DEF Holds
  <2>4. {Holds(d) : d \in CPU} \subseteq {Holds(c)} \cup {Holds(d)' : d \in CPU}
    BY <2>3
  <2>5. CASE Load(c) \/ GetNext(c)
    <3>1. freed' = freed /\ Holds(c) = NoProc /\ NoProc \notin Live
      BY <2>5, NoProcAssumption, AddedInProc
         DEF Load, GetNext, At, Holds, pcbVars, Live
    <3>2. PICK p \in Proc \cup {NoProc} : GetProc(p) /\ Holds(c)' = p
      BY <2>1, <2>5 DEF Load, GetNext, Get, Goto, Holds
    <3>3. InQueues \subseteq InQueues' \cup {p}
      BY <1>1, <2>2, <3>2, GetEffect
    <3> QED BY <2>2, <2>4, <3>1, <3>2, <3>3 DEF Kept, Live
  <2>6. CASE Free(c)
    <3>1. /\ Holds(c) = proc[c] /\ freed' = freed \cup {proc[c]}
          /\ schedVars' = schedVars
      BY <2>1, <2>6 DEF Free, At, Holds
    <3>2. InQueues' = InQueues
      BY <1>1, <2>2, <3>1, SameQueues
    <3> QED BY <2>2, <2>4, <3>1, <3>2 DEF Kept, Live
  <2>7. CASE Preempt(c)
    <3>1. PICK p \in Proc : p = proc[c]
      BY <2>1, <2>7 DEF Preempt, CPUTypes
    <3>2. Holds(c) = p /\ freed' = freed /\ PutProc(p)
      BY <2>7, <3>1 DEF Preempt, At, Holds, pcbVars
    <3>3. NotQueued(p)
      BY <3>1, <3>2, NoProcAssumption DEF IInv, Holders, InQueues
    <3>4. InQueues' = InQueues \cup {p}
      BY <1>1, <2>2, <3>2, <3>3, PutKeeps
    <3> QED BY <2>2, <2>4, <3>2, <3>4 DEF Kept, Live
  <2>8. CASE Keep(c) \/ Stop(c) \/ Skip(c) \/ Run(c) \/ NextSlot(c)
    <3>1. freed' = freed /\ schedVars' = schedVars
      BY <2>8 DEF Keep, Stop, Skip, Run, NextSlot, pcbVars
    <3>2. Holds(c)' = Holds(c)
      BY <2>1, <2>8 DEF Keep, Stop, Skip, Run, NextSlot, At, Goto, Holds
    <3>3. InQueues' = InQueues
      BY <1>1, <2>2, <3>1, SameQueues
    <3> QED BY <2>2, <2>3, <3>1, <3>2, <3>3 DEF Kept, Live
  <2> QED BY <1>2, <2>5, <2>6, <2>7, <2>8 DEF CPUStep
<1>3. CASE UNCHANGED <<prio, cpuVars, freed>>
  <2>1. \A c \in CPU : Holds(c)' = Holds(c)
    BY <1>3 DEF Holds, cpuVars
  <2>2. CASE Added' = Added /\ schedVars' = schedVars
    <3>1. InQueues' = InQueues
      BY <1>1, <1>3, <2>2, SameQueues
    <3> QED BY <1>3, <2>1, <2>2, <3>1 DEF Kept, Live
  <2>3. CASE AddProcess /\ Added' = Added \cup {i}
    <3>1. PICK p \in Proc : p = i /\ p \notin Added
      BY <2>3, AddProcessStep
    <3>2. PutProc(p) /\ NotQueued(p)
      BY <2>3, <3>1 DEF AddProcess, AddProc, PutProc, IInv, Holders, InQueues
    <3>3. InQueues' = InQueues \cup {p}
      BY <1>1, <1>3, <3>2, PutKeeps
    <3> QED BY <1>3, <2>1, <2>3, <3>1, <3>3 DEF Kept, Live
  <2>4. CASE LoaderStep
    <3>1. AddProcess \/ schedVars' = schedVars
      BY <2>4 DEF LoaderStep, CreateLoadThread, JoinLoadThread, AwaitStart,
                  AfterAdd, SetDone, LoaderExit
    <3> QED BY <2>2, <2>3, <2>4, <3>1, LoaderAdds
  <2>5. CASE UNCHANGED <<schedVars, i, lpc>>
    BY <2>2, <2>5 DEF Added
  <2> QED BY <1>2, <2>4, <2>5, OtherFrame, TickFrame DEF Next, loaderVars
<1>4. LoaderStep => UNCHANGED <<prio, cpuVars, freed>>
  BY LoaderFrame DEF setupVars, configVars, pcbVars
<1>5. MainStep \/ (\E p \in Proc : ExitLoadThread(p)) \/ UNCHANGED vars \/ Tick
        => UNCHANGED <<prio, cpuVars, freed>>
  BY OtherFrame, TickFrame DEF setupVars, configVars, pcbVars
<1> QED BY <1>2, <1>3, <1>4, <1>5 DEF Next

(* With queues that have room for every process of the configuration, a    *)
(* process that was added and not freed is in a queue or on a CPU.         *)
THEOREM AddedIsKeptCorrect ==
  ASSUME num_processes <= MAX_QUEUE_SIZE
  PROVE  Spec => []AddedIsKept
<1>1. Init => Kept
  BY DEF Init, Kept, Live, Added
<1>2. IInv /\ Kept /\ [Next]_vars => Kept'
  BY NextKeeps
<1>3. Kept => AddedIsKept
  <2>1. \A p \in InQueues : Queued(p)
    BY DEF InQueues, NotQueued, Queued, ToSet
  <2> QED BY <2>1 DEF Kept, Live, AddedIsKept
<1> QED BY <1>1, <1>2, <1>3, Invariance, PTL DEF Spec
=============================================================================
