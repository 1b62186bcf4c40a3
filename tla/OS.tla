--------------------------------- MODULE OS ---------------------------------
(***************************************************************************)
(* The simulator (src/os.c): main, the CPU threads, the loader thread and  *)
(* the threads that load the processes, with the ready queues of sched.c   *)
(* (Sched) and the slot barrier of timer.c (SlotBarrier, which Timer.tla   *)
(* implements).                                                            *)
(*                                                                         *)
(* Granularity.  get_proc, put_proc and add_proc are the critical sections *)
(* of queue_lock and are one step each.  Between two of them a thread      *)
(* touches only its locals, the pcb it holds and, unlocked, the flag       *)
(* "done"; the read of done is a step of its own.  run(proc) counts as the *)
(* one thing this level sees of it: the pcb's pc moves on.                 *)
(*                                                                         *)
(* main has attached every device and started the timer when the model     *)
(* begins.  The processes are numbered in the order of the configuration   *)
(* file; a load thread counts as the one thing this level sees of it, that *)
(* it exits (Loader.tla has what the threads do to each other).            *)
(***************************************************************************)
EXTENDS Sched

CONSTANTS CPU, Loader,   \* the devices of the timer
          TimeSlots,     \* the time slices the configuration may give
          StartTimes,    \* the start times it may give
          CodeSizes      \* the sizes a process's code may have

ASSUME DeviceAssumption == CPU # {} /\ Loader \notin CPU
ASSUME ProcAssumption ==
  Proc # {} /\ IsFiniteSet(Proc) /\ Proc = 1 .. Cardinality(Proc)
ASSUME ConfigAssumption ==
  /\ StartTimes \subseteq Nat /\ CodeSizes \subseteq Nat
  /\ \E last \in StartTimes : \A t \in StartTimes : t <= last
ASSUME TimeSlotsAssumption == TimeSlots \subseteq Nat

num_processes == Cardinality(Proc)
Device == CPU \cup {Loader}

(* Bound: the clock is not distinguished beyond the last slot in which the *)
(* loader may add a process.                                               *)
Horizon == Max(StartTimes) + num_processes - 1

VARIABLES
  clock, st,        \* the timer, as SlotBarrier has it
  time_slot,        \* the configuration: the time slice,
  start_time, size, \* ld_processes, and code->size
  mpc, created,     \* main: where it is, the threads it has created
  load_threads,     \* the state of each load thread
  pc,               \* the pc field of each process
  proc, time_left,  \* locals of each CPU
  cpc,              \* where each CPU is in cpu_routine
  done,             \* the flag the loader sets when it has finished
  i, lpc,           \* the loader: its local i, and where it is
  freed,            \* history: processes freed by a CPU
  used,             \* history: what each CPU has run since its get_proc
  ran               \* history: processes run in the current slot

Timer == INSTANCE SlotBarrier

timerVars == <<clock, st>>
configVars == <<prio, time_slot, start_time, size>>
mainVars == <<mpc, created>>
setupVars == <<configVars, mainVars>>
cpuVars == <<proc, time_left, cpc, used>>
loaderVars == <<done, i, lpc, load_threads>>
pcbVars == <<pc, freed, ran>>
vars == <<timerVars, configVars, mainVars, schedVars, cpuVars, loaderVars,
          pcbVars>>

Init ==
  /\ Timer!Init
  /\ time_slot \in TimeSlots
  /\ start_time \in [Proc -> StartTimes]
  /\ prio \in [Proc -> Prio]
  /\ size \in [Proc -> CodeSizes]
  /\ mpc = "running" /\ created = {}
  /\ load_threads = [p \in Proc |-> "unborn"]
  /\ InitScheduler
  /\ pc = [p \in Proc |-> 0]
  /\ proc = [c \in CPU |-> NoProc]
  /\ time_left = [c \in CPU |-> 0]
  /\ cpc = [c \in CPU |-> "top"]
  /\ done = FALSE /\ i = 1 /\ lpc = "create"
  /\ freed = {} /\ ran = {}
  /\ used = [c \in CPU |-> 0]

-----------------------------------------------------------------------------
(* main, from start_timer on                                               *)

otherVars == <<timerVars, configVars, schedVars, cpuVars, loaderVars, pcbVars>>

(* The loader first, then the CPUs (in any order: they are alike).         *)
CreateThread(d) ==
  /\ mpc = "running" /\ d \notin created
  /\ d # Loader => Loader \in created
  /\ created' = created \cup {d}
  /\ UNCHANGED <<mpc, otherVars>>

(* The joins of the CPUs and of the loader, stop_timer, and the return.    *)
Return ==
  /\ mpc = "running" /\ created = Device
  /\ \A c \in CPU : cpc[c] = "stopped"
  /\ lpc = "exited"
  /\ mpc' = "returned"
  /\ UNCHANGED <<created, otherVars>>

MainStep == (\E d \in Device : CreateThread(d)) \/ Return

-----------------------------------------------------------------------------
(* cpu_routine                                                             *)

At(c, label) == c \in created /\ st[c] = "working" /\ cpc[c] = label
Goto(c, label) == cpc' = [cpc EXCEPT ![c] = label]
Completed(p) == pc[p] = size[p]

(* get_proc into the local proc.                                           *)
Get(c) ==
  \E p \in Proc \cup {NoProc} :
    /\ GetProc(p)
    /\ proc' = [proc EXCEPT ![c] = p]
    /\ used' = [used EXCEPT ![c] = 0]
    /\ Goto(c, IF cpc[c] = "top" /\ p = NoProc THEN "skip" ELSE "recheck")

(* No process: load one, or skip the slot without the recheck.             *)
Load(c) ==
  /\ At(c, "top") /\ proc[c] = NoProc
  /\ Get(c)
  /\ UNCHANGED <<timerVars, setupVars, time_left, loaderVars, pcbVars>>

(* Variants: the slice of the freed process is left to the next one; the   *)
(* CPU keeps the freed process.                                            *)
FreeKeepsSlice(c) ==
  /\ At(c, "top") /\ proc[c] # NoProc /\ Completed(proc[c])
  /\ freed' = freed \cup {proc[c]}
  /\ Goto(c, "get")
  /\ UNCHANGED <<timerVars, setupVars, schedVars, proc, time_left, used,
                 loaderVars, pc, ran>>
FreeKeepsProc(c) ==
  /\ At(c, "top") /\ proc[c] # NoProc /\ Completed(proc[c])
  /\ freed' = freed \cup {proc[c]}
  /\ time_left' = [time_left EXCEPT ![c] = 0]
  /\ Goto(c, "recheck")
  /\ UNCHANGED <<timerVars, setupVars, schedVars, proc, used, loaderVars,
                 pc, ran>>

(* The process has finished its job: free it.                              *)
Free(c) ==
  /\ At(c, "top") /\ proc[c] # NoProc /\ Completed(proc[c])
  /\ freed' = freed \cup {proc[c]}
  /\ time_left' = [time_left EXCEPT ![c] = 0]
  /\ Goto(c, "get")
  /\ UNCHANGED <<timerVars, setupVars, schedVars, proc, used, loaderVars,
                 pc, ran>>

(* Variant: the process is not put back.                                   *)
PreemptForgets(c) ==
  /\ At(c, "top") /\ proc[c] # NoProc /\ ~Completed(proc[c])
  /\ time_left[c] = 0
  /\ Goto(c, "get")
  /\ UNCHANGED <<timerVars, setupVars, schedVars, proc, time_left, used,
                 loaderVars, pcbVars>>

(* The process has used up its time slice: put it back.                    *)
Preempt(c) ==
  /\ At(c, "top") /\ proc[c] # NoProc /\ ~Completed(proc[c])
  /\ time_left[c] = 0
  /\ PutProc(proc[c])
  /\ Goto(c, "get")
  /\ UNCHANGED <<timerVars, setupVars, proc, time_left, used, loaderVars,
                 pcbVars>>

(* The process goes on.                                                    *)
Keep(c) ==
  /\ At(c, "top") /\ proc[c] # NoProc /\ ~Completed(proc[c])
  /\ time_left[c] # 0
  /\ Goto(c, "recheck")
  /\ UNCHANGED <<timerVars, setupVars, schedVars, proc, time_left, used,
                 loaderVars, pcbVars>>

(* The get_proc that follows a free or a put_proc.                         *)
GetNext(c) ==
  /\ At(c, "get")
  /\ Get(c)
  /\ UNCHANGED <<timerVars, setupVars, time_left, loaderVars, pcbVars>>

(* Nothing to run: detach from the timer and exit once loading is over,    *)
(* skip the slot otherwise.                                                *)
Stop(c) ==
  /\ At(c, "recheck") /\ proc[c] = NoProc /\ done
  /\ Timer!Leave(c)
  /\ Goto(c, "stopped")
  /\ UNCHANGED <<setupVars, schedVars, proc, time_left, used, loaderVars,
                 pcbVars>>

Skip(c) ==
  /\ At(c, "recheck") /\ proc[c] = NoProc /\ ~done
  /\ Goto(c, "skip")
  /\ UNCHANGED <<timerVars, setupVars, schedVars, proc, time_left, used,
                 loaderVars, pcbVars>>

(* Variants: no fresh slice; no next_slot after the instruction.           *)
RunWithoutRefill(c) ==
  /\ At(c, "recheck") /\ proc[c] # NoProc
  /\ pc' = [pc EXCEPT ![proc[c]] = IF @ < size[proc[c]] THEN @ + 1 ELSE @]
  /\ ran' = ran \cup {proc[c]}
  /\ time_left' = [time_left EXCEPT ![c] = @ - 1]
  /\ used' = [used EXCEPT ![c] = @ + 1]
  /\ Goto(c, "skip")
  /\ UNCHANGED <<timerVars, setupVars, schedVars, proc, loaderVars, freed>>
RunWithoutWait(c) ==
  /\ At(c, "recheck") /\ proc[c] # NoProc
  /\ pc' = [pc EXCEPT ![proc[c]] = IF @ < size[proc[c]] THEN @ + 1 ELSE @]
  /\ ran' = ran \cup {proc[c]}
  /\ time_left' = [time_left EXCEPT ![c] = (IF @ = 0 THEN time_slot ELSE @) - 1]
  /\ used' = [used EXCEPT ![c] = @ + 1]
  /\ Goto(c, "top")
  /\ UNCHANGED <<timerVars, setupVars, schedVars, proc, loaderVars, freed>>

(* run(proc) and time_left--, after a fresh slice if none is left.         *)
Run(c) ==
  /\ At(c, "recheck") /\ proc[c] # NoProc
  /\ pc' = [pc EXCEPT ![proc[c]] = IF @ < size[proc[c]] THEN @ + 1 ELSE @]
  /\ ran' = ran \cup {proc[c]}
  /\ time_left' = [time_left EXCEPT ![c] = (IF @ = 0 THEN time_slot ELSE @) - 1]
  /\ used' = [used EXCEPT ![c] = @ + 1]
  /\ Goto(c, "skip")
  /\ UNCHANGED <<timerVars, setupVars, schedVars, proc, loaderVars, freed>>

(* next_slot, and back to the top of the loop.                             *)
NextSlot(c) ==
  /\ At(c, "skip")
  /\ Timer!Finish(c)
  /\ Goto(c, "top")
  /\ UNCHANGED <<setupVars, schedVars, proc, time_left, used, loaderVars,
                 pcbVars>>

-----------------------------------------------------------------------------
(* ld_routine                                                              *)

LoaderAt(label) ==
  Loader \in created /\ st[Loader] = "working" /\ lpc = label
More == i <= num_processes

(* One thread per process, which loads it and exits.                       *)
CreateLoadThread ==
  /\ LoaderAt("create")
  /\ load_threads' = [load_threads EXCEPT ![i] = "running"]
  /\ IF i < num_processes THEN i' = i + 1 /\ UNCHANGED lpc
                          ELSE i' = 1 /\ lpc' = "join"
  /\ UNCHANGED <<timerVars, setupVars, schedVars, cpuVars, done, pcbVars>>

ExitLoadThread(p) ==
  /\ load_threads[p] = "running"
  /\ load_threads' = [load_threads EXCEPT ![p] = "exited"]
  /\ UNCHANGED <<timerVars, setupVars, schedVars, cpuVars, done, i, lpc,
                 pcbVars>>

(* Variant: the loader does not wait for its threads.                      *)
JoinLoadThreadNoWait ==
  /\ LoaderAt("join")
  /\ IF i < num_processes THEN i' = i + 1 /\ UNCHANGED lpc
                          ELSE i' = 1 /\ lpc' = "wait"
  /\ UNCHANGED <<timerVars, setupVars, schedVars, cpuVars, done,
                 load_threads, pcbVars>>

JoinLoadThread ==
  /\ LoaderAt("join") /\ load_threads[i] = "exited"
  /\ IF i < num_processes THEN i' = i + 1 /\ UNCHANGED lpc
                          ELSE i' = 1 /\ lpc' = "wait"
  /\ UNCHANGED <<timerVars, setupVars, schedVars, cpuVars, done,
                 load_threads, pcbVars>>

(* while (current_time() < start_time[i]) next_slot().                     *)
AwaitStart ==
  /\ LoaderAt("wait") /\ More /\ clock < start_time[i]
  /\ Timer!Finish(Loader)
  /\ UNCHANGED <<setupVars, schedVars, cpuVars, loaderVars, pcbVars>>

(* Variant: the process is added whatever the time.                        *)
AddProcessEarly ==
  /\ LoaderAt("wait") /\ More
  /\ AddProc(i)
  /\ lpc' = "added"
  /\ UNCHANGED <<timerVars, setupVars, cpuVars, done, i, load_threads,
                 pcbVars>>

(* add_proc, when the start time has come.                                 *)
AddProcess ==
  /\ LoaderAt("wait") /\ More /\ ~(clock < start_time[i])
  /\ AddProc(i)
  /\ lpc' = "added"
  /\ UNCHANGED <<timerVars, setupVars, cpuVars, done, i, load_threads,
                 pcbVars>>

(* Variant: the loader does not wait after the last process.               *)
AfterAddNoLastWait ==
  /\ LoaderAt("added")
  /\ IF i < num_processes THEN Timer!Finish(Loader) ELSE UNCHANGED timerVars
  /\ i' = i + 1 /\ lpc' = "wait"
  /\ UNCHANGED <<setupVars, schedVars, cpuVars, done, load_threads,
                 pcbVars>>

(* next_slot after each process.                                           *)
AfterAdd ==
  /\ LoaderAt("added")
  /\ Timer!Finish(Loader)
  /\ i' = i + 1 /\ lpc' = "wait"
  /\ UNCHANGED <<setupVars, schedVars, cpuVars, done, load_threads,
                 pcbVars>>

SetDone ==
  /\ LoaderAt("wait") /\ ~More
  /\ done' = TRUE /\ lpc' = "detach"
  /\ UNCHANGED <<timerVars, setupVars, schedVars, cpuVars, i, load_threads,
                 pcbVars>>

LoaderExit ==
  /\ LoaderAt("detach")
  /\ Timer!Leave(Loader)
  /\ lpc' = "exited"
  /\ UNCHANGED <<setupVars, schedVars, cpuVars, done, i, load_threads,
                 pcbVars>>

-----------------------------------------------------------------------------
(* One round of the timer.                                                 *)
Tick ==
  /\ Timer!Advance
  /\ ran' = {}
  /\ UNCHANGED <<setupVars, schedVars, cpuVars, loaderVars, pc, freed>>

CPUStep(c) ==
  \/ Load(c) \/ Free(c) \/ Preempt(c) \/ Keep(c) \/ GetNext(c)
  \/ Stop(c) \/ Skip(c) \/ Run(c) \/ NextSlot(c)
LoaderStep ==
  \/ CreateLoadThread \/ JoinLoadThread
  \/ AwaitStart \/ AddProcess \/ AfterAdd \/ SetDone \/ LoaderExit

Next ==
  \/ MainStep
  \/ \E c \in CPU : CPUStep(c)
  \/ LoaderStep
  \/ \E p \in Proc : ExitLoadThread(p)
  \/ Tick

(* Every thread that can take a step eventually does, and the timer serves *)
(* the devices that wait for it (SlotBarrier's Fairness).                  *)
Fairness ==
  /\ WF_vars(MainStep)
  /\ \A c \in CPU : WF_vars(CPUStep(c))
  /\ WF_vars(LoaderStep)
  /\ \A p \in Proc : WF_vars(ExitLoadThread(p))
  /\ WF_vars(Tick /\ \E d \in Device : st[d] = "finished")

Spec == Init /\ [][Next]_vars /\ Fairness

-----------------------------------------------------------------------------
(* Properties                                                              *)

TypeOK ==
  /\ clock \in 0 .. Horizon
  /\ st \in [Device -> {"working", "finished", "left"}]
  /\ start_time \in [Proc -> StartTimes] /\ time_slot \in TimeSlots
  /\ mpc \in {"running", "returned"} /\ created \subseteq Device
  /\ load_threads \in [Proc -> {"unborn", "running", "exited"}]
  /\ prio \in [Proc -> Prio]
  /\ size \in [Proc -> CodeSizes]
  /\ mlq_ready_queue \in [Prio -> Seq(Proc)]
  /\ slot \in [Prio -> 0 .. MAX_PRIO]
  /\ pc \in [Proc -> Nat]
  /\ proc \in [CPU -> Proc \cup {NoProc}]
  /\ time_left \in [CPU -> IF time_slot = 0 THEN Int ELSE 0 .. time_slot]
  /\ cpc \in [CPU -> {"top", "get", "recheck", "skip", "stopped"}]
  /\ done \in BOOLEAN
  /\ i \in 1 .. num_processes + 1
  /\ lpc \in {"create", "join", "wait", "added", "detach", "exited"}
  /\ freed \subseteq Proc /\ ran \subseteq Proc
  /\ used \in [CPU -> Nat]

Added ==
  1 .. CASE lpc \in {"create", "join"} -> 0
         [] lpc = "added" -> i
         [] OTHER -> i - 1
Queued(p) == \E l \in Prio : p \in ToSet(mlq_ready_queue[l])
(* The process a CPU has: between put_proc or free and the get_proc that   *)
(* follows, the local variable still holds a pointer that is not its own.  *)
Holds(c) == IF cpc[c] = "get" THEN NoProc ELSE proc[c]

(* os.c uses the scheduler the way Dispatcher says, so what Dispatcher     *)
(* promises holds here: no pcb is held twice, put back after it was freed  *)
(* or freed twice.                                                         *)
Dispatch == INSTANCE Dispatcher
  WITH on <- [c \in CPU |-> Holds(c)],
       live <- Added \ freed,
       fresh <- Proc \ Added
ImplementsDispatcher == Dispatch!SafeSpec

(* A process gets exactly its time slice: what a CPU has run of it since   *)
(* get_proc and what it may still run make up time_slot, and a CPU without *)
(* a process has nothing left of an earlier slice to give to the next.     *)
SliceExact ==
  \A c \in CPU :
    \/ used[c] = 0 /\ time_left[c] = 0
    \/ used[c] > 0 /\ used[c] + time_left[c] = time_slot
    \/ cpc[c] = "get" /\ time_left[c] = 0

(* A process is put back only when it has run for exactly time_slot slots, *)
(* and it is freed exactly when all of its code has run.                   *)
FullSliceBeforePreemption ==
  [][\A c \in CPU : cpc[c] = "top" /\ cpc'[c] = "get" =>
       IF proc[c] \in freed' THEN Completed(proc[c])
       ELSE used[c] = time_slot]_vars

(* No process runs two instructions in one slot, on whatever CPUs.         *)
OneInstructionPerSlot ==
  [][\A p \in Proc : pc'[p] # pc[p] => p \notin ran]_vars

(* The loader adds process p in the slot that the configuration says: at   *)
(* its start time, or later by the one slot that each process before it    *)
(* costs the loader, whatever the CPUs do.  (AwaitStart, AfterAdd)         *)
DueSlot(p) == Max({start_time[q] + (p - q) : q \in 1 .. p})
AddedOnTime == [][\A p \in Added' \ Added : clock = DueSlot(p)]_vars

(* The clock does not start before main has created every thread and the   *)
(* loader has all processes in memory: because main attaches the devices   *)
(* before it starts the timer, nobody misses a slot and loading takes no   *)
(* simulated time.                                                         *)
SlotZeroWaits ==
  clock > 0 => /\ created = Device
               /\ \A p \in Proc : load_threads[p] = "exited"

(* No CPU stops too early: as long as there is, or may still be, a process *)
(* to schedule, some CPU has not stopped; and a CPU that has no process    *)
(* and sees "done" leaves the queue to CPUs that still run.                *)
NoAbandonedWork ==
  (\A c \in CPU : cpc[c] = "stopped") =>
    lpc \in {"detach", "exited"} /\ \A p \in Proc : ~Queued(p)

(* Every process of the configuration is loaded, runs all of its code and  *)
(* is freed.  (True when the capacity of the queues suffices.)             *)
EveryProcessFinishes == \A p \in Proc : <>(p \in freed)

(* No process is dropped on the way (queue.c drops it when it is full).    *)
AddedIsKept ==
  \A p \in Added \ freed : Queued(p) \/ \E c \in CPU : Holds(c) = p

(* The program ends: every CPU stops, so that main gets past its joins.    *)
ProgramEnds == <>(mpc = "returned")
=============================================================================
