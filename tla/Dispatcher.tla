----------------------------- MODULE Dispatcher -----------------------------
(***************************************************************************)
(* The scheduler of src/sched.c with the most general client that uses it  *)
(* the way src/os.c does: the loader adds each process once, a CPU without *)
(* a process asks for one, and a CPU with a process puts it back or frees  *)
(* it.  Nothing is said of when a CPU does so.                             *)
(*                                                                         *)
(* The module is at once the closed system in which the policy of the      *)
(* scheduler is checked and the specification that OS.tla implements.      *)
(***************************************************************************)
EXTENDS Sched

CONSTANT CPU

VARIABLES on,       \* the process each CPU has, or NoProc
          live,     \* history: processes added and not freed
          fresh     \* history: processes not yet added
procVars == <<on, live, fresh>>
vars == <<prio, schedVars, procVars>>

Init ==
  /\ prio \in [Proc -> Prio]
  /\ InitScheduler
  /\ on = [c \in CPU |-> NoProc]
  /\ live = {} /\ fresh = Proc

(* ld_routine adds a process it has loaded.                                *)
Admit(p) ==
  /\ p \in fresh
  /\ AddProc(p)
  /\ fresh' = fresh \ {p} /\ live' = live \cup {p}
  /\ UNCHANGED <<prio, on>>

(* cpu_routine calls get_proc; it may get NULL.                            *)
Dispatch(c) ==
  /\ on[c] = NoProc
  /\ \E p \in Proc \cup {NoProc} :
       /\ GetProc(p)
       /\ on' = [on EXCEPT ![c] = p]
  /\ UNCHANGED <<prio, live, fresh>>

(* cpu_routine puts its process back.                                      *)
Requeue(c) ==
  /\ on[c] # NoProc
  /\ PutProc(on[c])
  /\ on' = [on EXCEPT ![c] = NoProc]
  /\ UNCHANGED <<prio, live, fresh>>

(* cpu_routine frees its process.                                          *)
Retire(c) ==
  /\ on[c] # NoProc
  /\ on' = [on EXCEPT ![c] = NoProc]
  /\ live' = live \ {on[c]}
  /\ UNCHANGED <<prio, schedVars, fresh>>

CPUStep(c) == Dispatch(c) \/ Requeue(c) \/ Retire(c)

Next ==
  \/ \E p \in Proc : Admit(p)
  \/ \E c \in CPU : CPUStep(c)

(* A CPU keeps asking for processes and giving them back.                  *)
Fairness == \A c \in CPU : WF_vars(CPUStep(c))

SafeSpec == Init /\ [][Next]_vars
Spec == SafeSpec /\ Fairness

-----------------------------------------------------------------------------
(* Properties                                                              *)

Queued(p) == \E l \in Prio : p \in ToSet(mlq_ready_queue[l])
OnCPU(p) == \E c \in CPU : on[c] = p

TypeOK ==
  /\ prio \in [Proc -> Prio]
  /\ mlq_ready_queue \in [Prio -> Seq(Proc)]
  /\ slot \in [Prio -> Nat] /\ \A l \in Prio : slot[l] <= MAX_PRIO - l
  /\ on \in [CPU -> Proc \cup {NoProc}]
  /\ live \subseteq Proc /\ fresh \subseteq Proc

(* No pcb pointer is held twice: not at two places of the queues, not by   *)
(* two CPUs, and not by a CPU and a queue; and a queue holds only          *)
(* processes of its own priority, each of which has been added and not     *)
(* been freed.                                                             *)
OneHolder ==
  /\ \A l, m \in Prio :
       \A i \in DOMAIN mlq_ready_queue[l], j \in DOMAIN mlq_ready_queue[m] :
         mlq_ready_queue[l][i] = mlq_ready_queue[m][j] => l = m /\ i = j
  /\ \A c, d \in CPU : on[c] = on[d] /\ on[c] # NoProc => c = d
  /\ \A l \in Prio : \A i \in DOMAIN mlq_ready_queue[l] :
       LET p == mlq_ready_queue[l][i]
       IN prio[p] = l /\ p \in live /\ ~OnCPU(p)
  /\ \A c \in CPU : on[c] # NoProc => on[c] \in live

(* A process that was added and not freed can still be scheduled: a CPU    *)
(* has it or a queue does.  (True when the capacity suffices.)             *)
NoProcessLost == \A p \in live : Queued(p) \/ OnCPU(p)

(* What a dispatch may choose: a process of the highest non-empty level    *)
(* unless every higher non-empty level has used up its slots.              *)
PriorityRespected ==
  [][\A c \in CPU : on[c] = NoProc /\ on'[c] # NoProc =>
       \A l \in 0 .. prio[on'[c]] - 1 :
         ~Empty(mlq_ready_queue[l]) =>
           /\ slot[l] = 0
           /\ slot[prio[on'[c]]] > 0]_vars

(* A CPU gets no process only when there is none to run.                   *)
WorkConserving ==
  [][\A c \in CPU : Dispatch(c) /\ on'[c] = NoProc =>
       \A p \in Proc : ~Queued(p)]_vars

(* A queued process is eventually given to a CPU.                          *)
NoStarvation == \A p \in Proc : Queued(p) ~> ~Queued(p)
=============================================================================
