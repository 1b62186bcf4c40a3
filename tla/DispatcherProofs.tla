-------------------------- MODULE DispatcherProofs --------------------------
(***************************************************************************)
(* Proofs about Dispatcher and Bypass for every set of processes and CPUs, *)
(* every number of levels and every capacity of the queues.                *)
(*                                                                         *)
(* OneHolder becomes inductive with the types and with the rest of         *)
(* Holders: a process that has not been added is not live, hence in no     *)
(* queue and on no CPU.  QueueInv and what the operations of the scheduler *)
(* do to it are in SchedProofs.  BoundedBypass is inductive with these; it *)
(* needs what a dispatch does to the sums of the slots.  FIFOWithinLevel   *)
(* needs where those who are ahead of a process stand in its queue.        *)
(***************************************************************************)
EXTENDS Bypass, SchedProofs, WellFoundedInduction

Holders ==
  /\ on \in [CPU -> Proc \cup {NoProc}]
  /\ live \subseteq Proc /\ fresh \subseteq Proc /\ fresh \cap live = {}
  /\ InQueues \subseteq live
  /\ \A c \in CPU : on[c] # NoProc => on[c] \in live \ InQueues
  /\ \A c, d \in CPU : on[c] = on[d] /\ on[c] # NoProc => c = d
IInv == QueueInv /\ Holders

-----------------------------------------------------------------------------
(* IInv is inductive.                                                      *)

(* The invariant contains the types.                                       *)
LEMMA IInvTypes == IInv => TypeOK
BY DEF IInv, QueueInv, Holders, TypeOK

(* The invariant says that nothing is held twice.                          *)
LEMMA IInvOneHolder == IInv => OneHolder
<1> SUFFICES ASSUME IInv PROVE OneHolder
  OBVIOUS
<1>1. ASSUME NEW l \in Prio, NEW k \in DOMAIN mlq_ready_queue[l]
      PROVE  LET p == mlq_ready_queue[l][k]
             IN prio[p] = l /\ p \in live /\ ~OnCPU(p)
  <2> DEFINE p == mlq_ready_queue[l][k]
  <2>1. p \in Proc /\ prio[p] = l
    BY <1>1 DEF IInv, QueueInv
  <2>2. p \in InQueues
    BY <1>1, <2>1 DEF InQueues, NotQueued
  <2> QED BY <2>1, <2>2, NoProcAssumption DEF IInv, Holders, OnCPU
<1> QED BY <1>1 DEF IInv, QueueInv, OncePerQueues, Holders, OneHolder

(* Nothing is queued or held at first.                                     *)
LEMMA InitIInv == Init => IInv
<1> SUFFICES ASSUME Init PROVE IInv
  OBVIOUS
<1>1. QueueInv /\ InQueues = {}
  BY InitEffect DEF Init
<1> QED BY <1>1 DEF Init, IInv, Holders

(* A process that is added was nowhere before.                             *)
LEMMA AdmitIInv ==
  ASSUME IInv, NEW p \in Proc, Admit(p)
  PROVE  IInv'
<1>1. PutProc(p) /\ prio' = prio
  BY DEF Admit, AddProc, PutProc
<1>2. NotQueued(p)
  BY DEF Admit, IInv, Holders, InQueues
<1>3. QueueInv' /\ (InQueues' = InQueues \/ InQueues' = InQueues \cup {p})
  BY <1>1, <1>2, PutEffect DEF IInv
<1> QED BY <1>3 DEF Admit, IInv, Holders

(* A process that is put back is no longer on its CPU.                     *)
LEMMA RequeueIInv ==
  ASSUME IInv, NEW c \in CPU, Requeue(c)
  PROVE  IInv'
<1>1. PICK p \in Proc : p = on[c]
  BY DEF Requeue, IInv, Holders
<1>2. PutProc(p) /\ prio' = prio /\ NotQueued(p)
  BY <1>1 DEF Requeue, IInv, Holders, InQueues
<1>3. QueueInv' /\ (InQueues' = InQueues \/ InQueues' = InQueues \cup {p})
  BY <1>2, PutEffect DEF IInv
<1>4. /\ on' \in [CPU -> Proc \cup {NoProc}]
      /\ on'[c] = NoProc /\ \A d \in CPU : d # c => on'[d] = on[d] /\ on[d] # p
  BY <1>1, NoProcAssumption DEF Requeue, IInv, Holders
<1>5. live' = live /\ fresh' = fresh
  BY DEF Requeue
<1> QED BY <1>1, <1>3, <1>4, <1>5, NoProcAssumption DEF IInv, Holders

(* A process that is freed is no longer on its CPU, and was in no queue.   *)
LEMMA RetireIInv ==
  ASSUME IInv, NEW c \in CPU, Retire(c)
  PROVE  IInv'
<1>1. QueueInv' /\ InQueues' = InQueues
  BY DEF Retire, IInv, QueueInv, OncePerQueues, InQueues, NotQueued, schedVars
<1>2. /\ on' \in [CPU -> Proc \cup {NoProc}]
      /\ on'[c] = NoProc /\ \A d \in CPU : d # c => on'[d] = on[d]
      /\ \A d \in CPU : d # c /\ on[d] # NoProc => on[d] # on[c]
  BY DEF Retire, IInv, Holders
<1>3. on[c] \notin InQueues /\ live' = live \ {on[c]} /\ fresh' = fresh
  BY DEF Retire, IInv, Holders
<1> QED BY <1>1, <1>2, <1>3 DEF IInv, Holders

(* A process that a CPU gets leaves its queue.                             *)
LEMMA DispatchIInv ==
  ASSUME IInv, NEW c \in CPU, Dispatch(c)
  PROVE  IInv'
<1>1. PICK p \in Proc \cup {NoProc} : GetProc(p) /\ on' = [on EXCEPT ![c] = p]
  BY DEF Dispatch
<1>2. prio' = prio /\ live' = live /\ fresh' = fresh
  BY DEF Dispatch
<1>3. /\ QueueInv'
      /\ \/ p \in InQueues /\ InQueues' = InQueues \ {p}
         \/ p = NoProc /\ InQueues = {} /\ InQueues' = {}
  BY <1>1, <1>2, GetEffect DEF IInv
<1>4. /\ on' \in [CPU -> Proc \cup {NoProc}]
      /\ on'[c] = p /\ \A d \in CPU : d # c => on'[d] = on[d]
  BY <1>1 DEF IInv, Holders
<1> QED BY <1>2, <1>3, <1>4 DEF IInv, Holders

(* Every step preserves the invariant.                                     *)
LEMMA NextIInv == IInv /\ [Next]_vars => IInv'
<1> SUFFICES ASSUME IInv, [Next]_vars PROVE IInv'
  OBVIOUS
<1>1. CASE \E p \in Proc : Admit(p)
  BY <1>1, AdmitIInv
<1>2. CASE \E c \in CPU : CPUStep(c)
  BY <1>2, DispatchIInv, RequeueIInv, RetireIInv DEF CPUStep
<1>3. CASE UNCHANGED vars
  <2>1. QueueInv' /\ InQueues' = InQueues
    BY <1>3 DEF IInv, QueueInv, OncePerQueues, InQueues, NotQueued, vars,
                schedVars
  <2> QED BY <1>3, <2>1 DEF IInv, Holders, vars, procVars
<1> QED BY <1>1, <1>2, <1>3 DEF Next

(* IInv is an invariant of Dispatcher.                                     *)
THEOREM Invariance == SafeSpec => []IInv
<1> QED BY InitIInv, NextIInv, PTL DEF SafeSpec

(* The variables of Dispatcher keep their types; in particular a level     *)
(* never has more slots than its fixed number, nor fewer than none.        *)
THEOREM TypeCorrect == SafeSpec => []TypeOK
<1> QED BY IInvTypes, Invariance, PTL

(* No pcb is held twice, by queues or CPUs, whatever their capacity.       *)
THEOREM OneHolderCorrect == SafeSpec => []OneHolder
<1> QED BY IInvOneHolder, Invariance, PTL

-----------------------------------------------------------------------------
(* The policy.                                                             *)

(* Steps that take from a queue are those of a CPU that gets a process.    *)
LEMMA DispatchTakes ==
  ASSUME IInv, [Next]_vars, NEW c \in CPU, on[c] = NoProc, on'[c] # NoProc
  PROVE  \/ \E l \in Prio : TakesHead(l, slot, on'[c])
         \/ /\ Eligible(slot) = {}
            /\ \E l \in Prio : TakesHead(l, FullSlot, on'[c])
<1>1. on \in [CPU -> Proc \cup {NoProc}]
  BY DEF IInv, QueueInv, Holders
<1>2. ~(\E p \in Proc : Admit(p)) /\ ~UNCHANGED vars
  BY DEF Admit, vars, procVars
<1>3. PICK d \in CPU : CPUStep(d)
  BY <1>2 DEF Next
<1>4. Dispatch(d) /\ d = c
  BY <1>1, <1>3 DEF CPUStep, Dispatch, Requeue, Retire
<1>5. PICK p \in Proc \cup {NoProc} : GetProc(p) /\ on' = [on EXCEPT ![c] = p]
  BY <1>4 DEF Dispatch
<1>6. p = on'[c] /\ p # NoProc
  BY <1>1, <1>5
<1> QED BY <1>5, <1>6, GetProcEffect DEF IInv

(* A dispatch passes over a higher level only if that level has used up    *)
(* its slots, and only in favour of a level that has not.                  *)
THEOREM PriorityCorrect == SafeSpec => PriorityRespected
<1>1. ASSUME IInv, [Next]_vars, NEW c \in CPU, on[c] = NoProc, on'[c] # NoProc,
             NEW l \in 0 .. prio[on'[c]] - 1, ~Empty(mlq_ready_queue[l])
      PROVE  slot[l] = 0 /\ slot[prio[on'[c]]] > 0
  <2> DEFINE p == on'[c]
  <2>1. ASSUME NEW s, NEW m \in Prio, TakesHead(m, s, p)
        PROVE  prio[p] = m /\ m \in Eligible(s) /\ l \in Prio /\ l \notin Eligible(s)
    <3>1. 1 \in DOMAIN mlq_ready_queue[m] /\ p = mlq_ready_queue[m][1]
      BY <1>1, <2>1, TakeElements DEF IInv, TakesHead
    <3>2. prio[p] = m
      BY <1>1, <3>1 DEF IInv, QueueInv, OncePerQueues
    <3>3. l \in Prio /\ l < m /\ m \in Int
      BY <1>1, <3>2, MaxPrioAssumption DEF Prio
    <3>4. m \in Eligible(s) /\ \A n \in Eligible(s) : m <= n
      BY <2>1 DEF TakesHead, IsHighest
    <3> QED BY <3>2, <3>3, <3>4
  <2>2. CASE \E m \in Prio : TakesHead(m, slot, p)
    <3>1. l \in Prio /\ l \notin Eligible(slot) /\ prio[p] \in Eligible(slot)
      BY <2>1, <2>2
    <3> QED BY <1>1, <3>1 DEF Eligible, IInv, QueueInv, Holders
  <2>3. CASE \E m \in Prio : TakesHead(m, FullSlot, p)
    <3>1. l \in Prio /\ l \notin Eligible(FullSlot)
      BY <2>1, <2>3
    <3> QED BY <1>1, <3>1, FullSlotType DEF Eligible
  <2> QED BY <1>1, <2>2, <2>3, DispatchTakes
<1>2. IInv /\ [Next]_vars =>
        [\A c \in CPU : on[c] = NoProc /\ on'[c] # NoProc =>
           \A l \in 0 .. prio[on'[c]] - 1 :
             ~Empty(mlq_ready_queue[l]) =>
               /\ slot[l] = 0
               /\ slot[prio[on'[c]]] > 0]_vars
  BY <1>1
<1> QED BY <1>2, Invariance, PTL DEF SafeSpec, PriorityRespected

(* A CPU gets no process only when every queue is empty.                   *)
THEOREM WorkConservingCorrect == SafeSpec => WorkConserving
<1>1. ASSUME IInv, NEW c \in CPU, Dispatch(c), on'[c] = NoProc, NEW p \in Proc
      PROVE  ~Queued(p)
  <2>1. PICK r \in Proc \cup {NoProc} : GetProc(r) /\ on' = [on EXCEPT ![c] = r]
    BY <1>1 DEF Dispatch
  <2>2. r = NoProc
    BY <1>1, <2>1 DEF IInv, QueueInv, Holders
  <2>3. Eligible(FullSlot) = {}
    BY <1>1, <2>1, <2>2, GetProcEffect, TakeElements, NoProcAssumption DEF IInv
  <2>4. \A l \in Prio : mlq_ready_queue[l] \in Seq(Proc) /\ Empty(mlq_ready_queue[l])
    BY <1>1, <2>3, NothingEligible DEF IInv, QueueInv, Holders
  <2>5. \A l \in Prio : ToSet(mlq_ready_queue[l]) = {}
    BY <2>4 DEF Empty, ToSet
  <2> QED BY <2>5 DEF Queued
<1>2. IInv /\ [Next]_vars =>
        [\A c \in CPU : Dispatch(c) /\ on'[c] = NoProc =>
           \A p \in Proc : ~Queued(p)]_vars
  BY <1>1
<1> QED BY <1>2, Invariance, PTL DEF SafeSpec, WorkConserving

-----------------------------------------------------------------------------
(* Queues with room for all processes lose none.                           *)

Keeps == live \subseteq InQueues \cup {p \in Proc : OnCPU(p)}

(* With room for all processes no step loses one.                          *)
LEMMA NextKeeps ==
  ASSUME IsFiniteSet(Proc), Cardinality(Proc) <= MAX_QUEUE_SIZE,
         IInv, Keeps, [Next]_vars
  PROVE  Keeps'
<1>1. /\ on \in [CPU -> Proc \cup {NoProc}] /\ QueueInv
      /\ live \subseteq Proc /\ live \cap fresh = {} /\ InQueues \subseteq live
  BY DEF IInv, Holders
<1>2. ASSUME NEW p \in Proc, Admit(p)
      PROVE  Keeps'
  <2>1. PutProc(p) /\ prio' = prio /\ on' = on /\ live' = live \cup {p}
    BY <1>2 DEF Admit, AddProc, PutProc
  <2>2. NotQueued(p)
    BY <1>1, <1>2 DEF Admit, InQueues
  <2>3. InQueues' = InQueues \cup {p}
    BY <1>1, <2>1, <2>2, PutKeeps
  <2> QED BY <2>1, <2>3 DEF Keeps, OnCPU
<1>3. ASSUME NEW c \in CPU, Requeue(c)
      PROVE  Keeps'
  <2>1. PICK p \in Proc :
          /\ p = on[c] /\ PutProc(p) /\ prio' = prio /\ live' = live
          /\ \A d \in CPU : d # c => on'[d] = on[d]
    BY <1>1, <1>3 DEF Requeue
  <2>2. NotQueued(p)
    BY <1>3, <2>1 DEF Requeue, IInv, Holders, InQueues
  <2>3. InQueues' = InQueues \cup {p}
    BY <1>1, <2>1, <2>2, PutKeeps
  <2>4. \A r \in Proc : OnCPU(r) => r = p \/ OnCPU(r)'
    BY <2>1 DEF OnCPU
  <2> QED BY <2>1, <2>3, <2>4 DEF Keeps
<1>4. ASSUME NEW c \in CPU, Retire(c)
      PROVE  Keeps'
  <2>1. /\ live' = live \ {on[c]} /\ UNCHANGED <<prio, schedVars>>
        /\ \A d \in CPU : d # c => on'[d] = on[d]
    BY <1>1, <1>4 DEF Retire
  <2>2. \A r \in Proc : OnCPU(r) => r = on[c] \/ OnCPU(r)'
    BY <2>1 DEF OnCPU
  <2>3. InQueues' = InQueues
    BY <2>1 DEF InQueues, NotQueued, schedVars
  <2> QED BY <1>1, <2>1, <2>2, <2>3 DEF Keeps
<1>5. ASSUME NEW c \in CPU, Dispatch(c)
      PROVE  Keeps'
  <2>1. PICK p \in Proc \cup {NoProc} : GetProc(p) /\ on' = [on EXCEPT ![c] = p]
    BY <1>5 DEF Dispatch
  <2>2. /\ live' = live /\ prio' = prio /\ on[c] = NoProc /\ on'[c] = p
        /\ \A d \in CPU : d # c => on'[d] = on[d]
    BY <1>1, <1>5, <2>1 DEF Dispatch
  <2>3. OnCPU(p)' /\ \A r \in Proc : OnCPU(r) => OnCPU(r)'
    BY <2>2, NoProcAssumption DEF OnCPU
  <2>4. InQueues \subseteq InQueues' \cup {p}
    BY <1>1, <2>1, <2>2, GetEffect
  <2> QED BY <1>1, <2>2, <2>3, <2>4 DEF Keeps
<1>6. CASE UNCHANGED vars
  BY <1>6 DEF Keeps, OnCPU, InQueues, NotQueued, vars, schedVars, procVars
<1> QED BY <1>2, <1>3, <1>4, <1>5, <1>6 DEF Next, CPUStep

(* With a capacity of at least the number of processes, every process that *)
(* was added and not freed is in a queue or on a CPU.                      *)
THEOREM NoLossCorrect ==
  ASSUME IsFiniteSet(Proc), Cardinality(Proc) <= MAX_QUEUE_SIZE
  PROVE  SafeSpec => []NoProcessLost
<1>1. Init => Keeps
  BY DEF Init, Keeps
<1>2. IInv /\ Keeps /\ [Next]_vars => Keeps'
  BY NextKeeps
<1>3. Keeps => NoProcessLost
  <2>1. \A p \in InQueues : Queued(p)
    BY DEF InQueues, NotQueued, Queued, ToSet
  <2> QED BY <2>1 DEF Keeps, NoProcessLost
<1> QED BY <1>1, <1>2, <1>3, Invariance, PTL DEF SafeSpec

-----------------------------------------------------------------------------
(* The slots of the levels above a level                                   *)

(* What never fails for the first time never fails.                        *)
LEMMA NoFirst ==
  ASSUME NEW S, S \subseteq Nat, \A n \in S : \E m \in S : m < n
  PROVE  S = {}
<1>1. PICK R : R = OpToRel(<, Nat)
  BY Zenon
<1>2. \A a, b \in Nat : a < b => <<a, b>> \in R
  BY <1>1 DEF OpToRel
<1>3. IsWellFoundedOn(R, Nat)
  BY <1>1, NatLessThanWellFounded, Zenon
<1>4. SUFFICES ASSUME S # {} PROVE FALSE
  OBVIOUS
<1>5. PICK x \in S : \A y \in S : ~(<<y, x>> \in R)
  BY <1>3, <1>4, WFMin, Zenon
<1>6. PICK y \in S : y < x
  BY <1>5
<1>7. y \in Nat /\ x \in Nat
  BY <1>5, <1>6
<1>8. QED
  BY <1>2, <1>5, <1>6, <1>7

(* The slots of the levels above l, added up one by one.                   *)
SumsTo(s, n, slots) ==
  /\ s \in [0 .. n -> Nat] /\ s[0] = 0
  /\ \A l \in 1 .. n : s[l] = s[l - 1] + slots[l - 1]

(* They can be added up as far as there are levels.                        *)
LEMMA SumsExist ==
  ASSUME NEW slots \in [Prio -> Nat]
  PROVE  \E s : SumsTo(s, MAX_PRIO, slots)
<1>1. PICK S : S = {n \in 0 .. MAX_PRIO : ~ \E s : SumsTo(s, n, slots)}
  OBVIOUS
<1>2. ASSUME NEW n \in S PROVE \E m \in S : m < n
  <2>1. n \in 0 .. MAX_PRIO /\ ~ \E s : SumsTo(s, n, slots)
    BY <1>1, <1>2
  <2>2. n # 0
    <3>1. SUFFICES ASSUME n = 0 PROVE FALSE
      OBVIOUS
    <3>2. SumsTo([l \in 0 .. 0 |-> 0], 0, slots)
      BY DEF SumsTo
    <3>3. QED
      BY <2>1, <3>1, <3>2
  <2>3. SUFFICES ASSUME n - 1 \notin S PROVE FALSE
    BY <2>1, <2>2
  <2>4. PICK m \in 0 .. MAX_PRIO : n = m + 1
    BY <2>1, <2>2, MaxPrioAssumption
  <2>5. PICK s : SumsTo(s, m, slots)
    BY <1>1, <2>3, <2>4
  <2>6. PICK t : t = [l \in 0 .. n |-> IF l = n THEN s[m] + slots[m] ELSE s[l]]
    OBVIOUS
  <2>7. slots[m] \in Nat
    BY <2>1, <2>4, MaxPrioAssumption DEF Prio
  <2>8. s \in [0 .. m -> Nat] /\ s[0] = 0
    BY <2>5 DEF SumsTo
  <2>9. /\ t \in [0 .. n -> Nat] /\ t[0] = 0
        /\ t[n] = s[m] + slots[m] /\ \A l \in 0 .. m : t[l] = s[l]
    BY <2>4, <2>6, <2>7, <2>8
  <2>10. ASSUME NEW l \in 1 .. n PROVE t[l] = t[l - 1] + slots[l - 1]
    <3>1. CASE l = n
      BY <2>4, <2>9, <3>1
    <3>2. CASE l # n
      <4>1. l \in 1 .. m /\ l - 1 \in 0 .. m /\ l \in 0 .. m
        BY <2>4, <3>2
      <4>2. s[l] = s[l - 1] + slots[l - 1]
        BY <2>5, <4>1 DEF SumsTo
      <4>3. QED
        BY <2>9, <4>1, <4>2
    <3>3. QED
      BY <3>1, <3>2
  <2>11. SumsTo(t, n, slots)
    BY <2>9, <2>10 DEF SumsTo
  <2>12. QED
    BY <2>1, <2>11
<1>3. S = {}
  BY <1>1, <1>2, NoFirst
<1>4. MAX_PRIO \in 0 .. MAX_PRIO
  BY MaxPrioAssumption
<1>5. QED
  BY <1>1, <1>3, <1>4

(* Above is that sum.                                                      *)
LEMMA AboveSums ==
  ASSUME NEW slots \in [Prio -> Nat]
  PROVE  SumsTo(Above(slots), MAX_PRIO, slots)
<1>1. PICK s : SumsTo(s, MAX_PRIO, slots)
  BY SumsExist
<1>2. s = [l \in 0 .. MAX_PRIO |->
             IF l = 0 THEN 0 ELSE s[l - 1] + slots[l - 1]]
  BY <1>1, MaxPrioAssumption DEF SumsTo
<1>3. Above(slots) = [l \in 0 .. MAX_PRIO |->
                        IF l = 0 THEN 0
                        ELSE Above(slots)[l - 1] + slots[l - 1]]
  BY <1>2 DEF Above
<1>4. /\ DOMAIN Above(slots) = 0 .. MAX_PRIO /\ Above(slots)[0] = 0
      /\ \A l \in 1 .. MAX_PRIO :
           Above(slots)[l] = Above(slots)[l - 1] + slots[l - 1]
  BY <1>3, MaxPrioAssumption
<1>5. \A n \in 0 .. MAX_PRIO : Above(slots)[n] \in Nat
  <2>1. PICK S : S = {n \in 0 .. MAX_PRIO : Above(slots)[n] \notin Nat}
    OBVIOUS
  <2>2. ASSUME NEW n \in S PROVE \E m \in S : m < n
    <3>1. n \in 0 .. MAX_PRIO /\ Above(slots)[n] \notin Nat
      BY <2>1, <2>2
    <3>2. n \in 1 .. MAX_PRIO
      BY <1>4, <3>1, MaxPrioAssumption
    <3>3. PICK m \in Nat : m = n - 1
      BY <3>2
    <3>4. m \in Prio /\ m \in 0 .. MAX_PRIO /\ m < n
      BY <3>2, <3>3, MaxPrioAssumption DEF Prio
    <3>5. Above(slots)[n] = Above(slots)[m] + slots[m] /\ slots[m] \in Nat
      BY <1>4, <3>2, <3>3, <3>4
    <3>6. Above(slots)[m] \notin Nat
      BY <3>1, <3>5
    <3>7. QED
      BY <2>1, <3>4, <3>6
  <2>3. S = {}
    BY <2>1, <2>2, NoFirst
  <2>4. QED
    BY <2>1, <2>3
<1>6. Above(slots) \in [0 .. MAX_PRIO -> Nat]
  BY <1>3, <1>5
<1>7. QED
  BY <1>4, <1>6 DEF SumsTo

AgreeBut(f, g, k) == \A l \in Prio : l # k => f[l] = g[l]

(* What the sums have of each other when their slots agree but for one     *)
(* level, or when one has no more in any level.                            *)
LEMMA SumsDiffer ==
  ASSUME NEW f \in [Prio -> Nat], NEW g \in [Prio -> Nat], NEW k \in Prio,
         \A l \in Prio : f[l] <= g[l],
         NEW n \in 0 .. MAX_PRIO
  PROVE  /\ Above(f)[n] \in Nat /\ Above(g)[n] \in Nat
         /\ Above(f)[n] <= Above(g)[n]
         /\ k < n => Above(f)[n] + (g[k] - f[k]) <= Above(g)[n]
         /\ k < n /\ AgreeBut(f, g, k)
              => Above(g)[n] <= Above(f)[n] + (g[k] - f[k])
<1>1. PICK F : F = Above(f)
  OBVIOUS
<1>2. PICK G : G = Above(g)
  OBVIOUS
<1>3. SumsTo(F, MAX_PRIO, f) /\ SumsTo(G, MAX_PRIO, g)
  BY <1>1, <1>2, AboveSums
<1>4. \A m \in 0 .. MAX_PRIO : F[m] \in Nat /\ G[m] \in Nat
  BY <1>3 DEF SumsTo
<1> DEFINE Diff(m) == IF k < m THEN g[k] - f[k] ELSE 0
           Good(m) ==
             /\ F[m] + Diff(m) <= G[m]
             /\ AgreeBut(f, g, k) => F[m] + Diff(m) = G[m]
<1>5. PICK S : S = {m \in 0 .. MAX_PRIO : ~Good(m)}
  OBVIOUS
<1>6. ASSUME NEW m \in S PROVE \E j \in S : j < m
  <2>1. m \in 0 .. MAX_PRIO /\ ~Good(m)
    BY <1>5, <1>6
  <2>2. Good(0)
    BY <1>3, MaxPrioAssumption DEF SumsTo, Prio
  <2>3. m \in 1 .. MAX_PRIO
    BY <2>1, <2>2, MaxPrioAssumption
  <2>4. PICK j \in 0 .. MAX_PRIO : j = m - 1
    BY <2>3, MaxPrioAssumption
  <2>5. F[m] = F[j] + f[j] /\ G[m] = G[j] + g[j]
    BY <1>3, <2>3, <2>4 DEF SumsTo
  <2>6. j \in Prio /\ k \in Nat /\ f[j] \in Nat /\ g[j] \in Nat
    BY <2>3, <2>4, MaxPrioAssumption DEF Prio
  <2>7. f[k] \in Nat /\ g[k] \in Nat /\ f[k] <= g[k] /\ f[j] <= g[j]
    BY <2>6
  <2>8. ASSUME Good(j) PROVE Good(m)
    <3>1. F[j] \in Nat /\ G[j] \in Nat
      BY <1>4, <2>4
    <3>2. CASE j = k
      <4>1. Diff(j) = 0 /\ Diff(m) = g[k] - f[k]
        BY <2>3, <2>4, <2>6, <3>2
      <4>2. QED
        BY <2>5, <2>7, <2>8, <3>1, <3>2, <4>1
    <3>3. CASE j # k
      <4>1. Diff(m) = Diff(j) /\ Diff(j) \in Nat
        BY <2>3, <2>4, <2>6, <2>7, <3>3
      <4>2. QED
        BY <2>5, <2>6, <2>7, <2>8, <3>1, <3>3, <4>1 DEF AgreeBut
    <3>4. QED
      BY <3>2, <3>3
  <2>9. j \in S
    BY <1>5, <2>1, <2>4, <2>8
  <2>10. QED
    BY <2>3, <2>4, <2>9
<1>7. S = {}
  BY <1>5, <1>6, NoFirst
<1>8. Good(n)
  BY <1>5, <1>7
<1>9. f[k] \in Nat /\ g[k] \in Nat /\ f[k] <= g[k]
  OBVIOUS
<1>10. QED
  BY <1>1, <1>2, <1>4, <1>8, <1>9

(* Fewer slots leave fewer to the higher levels and to the other levels.   *)
LEMMA FewerSlots ==
  ASSUME NEW f \in [Prio -> Nat], NEW g \in [Prio -> Nat], NEW l \in Prio,
         \A m \in Prio : f[m] <= g[m]
  PROVE  /\ Above(f)[l] \in Nat /\ Above(g)[l] \in Nat
         /\ AllOf(f) \in Nat /\ AllOf(g) \in Nat
         /\ Above(f)[l] <= Above(g)[l]
         /\ f[l] <= AllOf(f) /\ g[l] <= AllOf(g)
         /\ AllOf(f) - f[l] <= AllOf(g) - g[l]
<1>1. l \in 0 .. MAX_PRIO /\ MAX_PRIO \in 0 .. MAX_PRIO /\ l < MAX_PRIO
  BY MaxPrioAssumption DEF Prio
<1>2. f[l] \in Nat /\ g[l] \in Nat
  OBVIOUS
<1>3. /\ Above(f)[l] \in Nat /\ Above(g)[l] \in Nat
      /\ Above(f)[l] <= Above(g)[l]
  BY <1>1, SumsDiffer
<1>4. /\ AllOf(f) \in Nat /\ AllOf(g) \in Nat
      /\ AllOf(f) + (g[l] - f[l]) <= AllOf(g)
  BY <1>1, SumsDiffer DEF AllOf
<1>5. ASSUME NEW h \in [Prio -> Nat] PROVE h[l] <= AllOf(h)
  <2>1. PICK z : z = [m \in Prio |-> 0]
    OBVIOUS
  <2>2. z \in [Prio -> Nat] /\ z[l] = 0 /\ \A m \in Prio : z[m] <= h[m]
    BY <2>1
  <2>3. /\ AllOf(z) \in Nat /\ AllOf(h) \in Nat
        /\ AllOf(z) + (h[l] - z[l]) <= AllOf(h)
    BY <1>1, <2>2, SumsDiffer DEF AllOf
  <2>4. h[l] \in Nat
    OBVIOUS
  <2>5. QED
    BY <1>1, <2>2, <2>3, <2>4
<1>6. Above(f)[l] <= Above(g)[l]
  BY <1>3
<1>7. AllOf(f) + (g[l] - f[l]) <= AllOf(g)
  BY <1>1, <1>4
<1>8. QED
  BY <1>2, <1>3, <1>4, <1>5, <1>6, <1>7

(* One slot less of a level is one less for those below it, and for all.   *)
LEMMA OneSlotLess ==
  ASSUME NEW f \in [Prio -> Nat], NEW g \in [Prio -> Nat], NEW m \in Prio,
         NEW l \in Prio, g[m] > 0, f = [g EXCEPT ![m] = @ - 1]
  PROVE  /\ m < l => Above(f)[l] = Above(g)[l] - 1
         /\ AllOf(f) = AllOf(g) - 1
<1>1. l \in 0 .. MAX_PRIO /\ MAX_PRIO \in 0 .. MAX_PRIO /\ m < MAX_PRIO
  BY MaxPrioAssumption DEF Prio
<1>2. /\ g[m] \in Nat /\ f[m] = g[m] - 1
      /\ \A k \in Prio : k # m => f[k] = g[k]
  OBVIOUS
<1>3. \A k \in Prio : f[k] <= g[k]
  <2>1. \A k \in Prio : g[k] \in Nat
    OBVIOUS
  <2>2. QED
    BY <1>2, <2>1
<1>4. AgreeBut(f, g, m)
  BY <1>2 DEF AgreeBut
<1>5. /\ Above(f)[l] \in Nat /\ Above(g)[l] \in Nat
      /\ m < l => /\ Above(f)[l] + (g[m] - f[m]) <= Above(g)[l]
                  /\ Above(g)[l] <= Above(f)[l] + (g[m] - f[m])
  BY <1>1, <1>3, <1>4, SumsDiffer
<1>6. /\ AllOf(f) \in Nat /\ AllOf(g) \in Nat
      /\ AllOf(f) + (g[m] - f[m]) <= AllOf(g)
      /\ AllOf(g) <= AllOf(f) + (g[m] - f[m])
  BY <1>1, <1>3, <1>4, SumsDiffer DEF AllOf
<1>7. g[m] - f[m] = 1
  BY <1>2
<1>8. m < l => Above(f)[l] = Above(g)[l] - 1
  BY <1>5, <1>7
<1>9. AllOf(f) = AllOf(g) - 1
  BY <1>6, <1>7
<1>10. QED
  BY <1>8, <1>9

-----------------------------------------------------------------------------
(* How often a waiting level is passed over                                *)

(* The slots that the other levels can use before level l has its turn.    *)
LeftFor(s, l) == IF s[l] > 0 THEN Above(s)[l]
                 ELSE AllOf(s) + Above(FullSlot)[l]

SlotsOK(s) == s \in [Prio -> Nat] /\ \A l \in Prio : s[l] <= FullSlot[l]

(* They are no more than the most bypasses, whatever is left.              *)
LEMMA MostIsEnough ==
  ASSUME NEW s, SlotsOK(s), NEW l \in Prio
  PROVE  /\ LeftFor(s, l) \in Nat /\ MostBypasses(l) \in Nat
         /\ LeftFor(s, l) <= MostBypasses(l)
<1>1. s \in [Prio -> Nat] /\ FullSlot \in [Prio -> Nat]
  BY FullSlotType DEF SlotsOK
<1>2. \A m \in Prio : s[m] <= FullSlot[m]
  BY DEF SlotsOK
<1>3. /\ Above(s)[l] \in Nat /\ Above(FullSlot)[l] \in Nat
      /\ AllOf(s) \in Nat /\ AllOf(FullSlot) \in Nat
      /\ Above(s)[l] <= Above(FullSlot)[l]
      /\ FullSlot[l] <= AllOf(FullSlot)
      /\ AllOf(s) - s[l] <= AllOf(FullSlot) - FullSlot[l]
  BY <1>1, <1>2, FewerSlots
<1>4. s[l] \in Nat /\ FullSlot[l] \in Nat
  BY <1>1
<1>5. QED
  BY <1>3, <1>4 DEF LeftFor, MostBypasses

(* A dispatch from another level uses up one of them.                      *)
LEMMA OneLeftLess ==
  ASSUME NEW s, SlotsOK(s), NEW m \in Prio, NEW l \in Prio, m # l,
         s[m] > 0, s[l] > 0 => m < l, NEW s2, s2 = [s EXCEPT ![m] = @ - 1]
  PROVE  SlotsOK(s2) /\ LeftFor(s2, l) = LeftFor(s, l) - 1
<1>1. /\ s \in [Prio -> Nat] /\ FullSlot \in [Prio -> Nat]
      /\ \A k \in Prio : s[k] <= FullSlot[k]
  BY FullSlotType DEF SlotsOK
<1>2. s[m] \in Nat /\ s[m] - 1 \in Nat /\ s[m] \in Nat /\ FullSlot[m] \in Nat
  BY <1>1
<1>3. s2 \in [Prio -> Nat] /\ s2[m] = s[m] - 1 /\ s2[l] = s[l]
  BY <1>1, <1>2
<1>4. \A k \in Prio : k # m => s2[k] = s[k]
  BY <1>1
<1>5. SlotsOK(s2)
  <2>1. s2[m] <= FullSlot[m]
    BY <1>1, <1>2, <1>3
  <2>2. QED
    BY <1>1, <1>3, <1>4, <2>1 DEF SlotsOK
<1>6. /\ m < l => Above(s2)[l] = Above(s)[l] - 1
      /\ AllOf(s2) = AllOf(s) - 1
  BY <1>1, <1>3, OneSlotLess
<1>7. /\ Above(s)[l] \in Nat /\ Above(FullSlot)[l] \in Nat /\ AllOf(s) \in Nat
      /\ s[l] \in Nat
  BY <1>1, FewerSlots
<1>8. LeftFor(s2, l) = LeftFor(s, l) - 1
  BY <1>3, <1>6, <1>7 DEF LeftFor
<1>9. QED
  BY <1>5, <1>8

(* Giving back all slots when l has none does not leave more of them.      *)
LEMMA ResetLeavesNoMore ==
  ASSUME NEW s, SlotsOK(s), NEW l \in Prio, s[l] = 0
  PROVE  SlotsOK(FullSlot) /\ LeftFor(FullSlot, l) <= LeftFor(s, l)
<1>1. /\ s \in [Prio -> Nat] /\ FullSlot \in [Prio -> Nat] /\ FullSlot[l] > 0
      /\ \A k \in Prio : s[k] <= FullSlot[k]
  BY FullSlotType DEF SlotsOK
<1>2. SlotsOK(FullSlot)
  <2>1. \A k \in Prio : FullSlot[k] \in Nat
    BY <1>1
  <2>2. QED
    BY <1>1, <2>1 DEF SlotsOK
<1>3. Above(FullSlot)[l] \in Nat /\ AllOf(s) \in Nat
  BY <1>1, FewerSlots
<1>4. QED
  BY <1>1, <1>2, <1>3 DEF LeftFor

BypassInv == IInv /\ bypass \in [Prio -> Nat] /\ BoundedBypass

(* The parts of the invariant, and what a step counts.                     *)
LEMMA BypassParts ==
  ASSUME BypassInv, BypassNext
  PROVE  /\ SlotsOK(slot) /\ IInv' /\ SlotsOK(slot')
         /\ \A l \in Prio :
              /\ ~Empty(mlq_ready_queue[l])
                   => bypass[l] + LeftFor(slot, l) <= MostBypasses(l)
              /\ bypass[l] \in Nat /\ MostBypasses(l) \in Nat
              /\ LeftFor(slot, l) \in Nat
              /\ bypass'[l] = IF l \in Served \/ Empty(mlq_ready_queue[l]) THEN 0
                              ELSE Min({bypass[l] + Cardinality(Served),
                                        MostBypasses(l) + 1})
         /\ BoundedBypass' <=>
              \A l \in Prio : ~Empty(mlq_ready_queue'[l])
                => bypass'[l] + LeftFor(slot', l) <= MostBypasses(l)
<1>1. IInv /\ IInv' /\ bypass \in [Prio -> Nat]
  BY NextIInv DEF BypassInv, BypassNext
<1>2. SlotsOK(slot) /\ SlotsOK(slot')
  BY <1>1, FullSlotType DEF IInv, QueueInv, SlotsOK, FullSlot
<1>3. \A l \in Prio : MostBypasses(l) \in Nat /\ LeftFor(slot, l) \in Nat
  BY <1>2, MostIsEnough
<1>4. \A l \in Prio : ~Empty(mlq_ready_queue[l])
                        => bypass[l] + LeftFor(slot, l) <= MostBypasses(l)
  BY DEF BypassInv, BoundedBypass, Remaining, LeftFor
<1>5. \A l \in Prio :
        bypass'[l] = IF l \in Served \/ Empty(mlq_ready_queue[l]) THEN 0
                     ELSE Min({bypass[l] + Cardinality(Served),
                               MostBypasses(l) + 1})
  BY DEF BypassNext, CountBypass
<1>6. BoundedBypass' <=>
        \A l \in Prio : ~Empty(mlq_ready_queue'[l])
          => bypass'[l] + LeftFor(slot', l) <= MostBypasses(l)
  BY DEF BoundedBypass, Remaining, LeftFor, MostBypasses
<1>7. QED
  BY <1>1, <1>2, <1>3, <1>4, <1>5, <1>6

(* The less of two numbers.                                                *)
LEMMA MinOfTwo ==
  ASSUME NEW a \in Nat, NEW b \in Nat
  PROVE  Min({a, b}) \in Nat /\ Min({a, b}) <= a
<1>1. \E x \in {a, b} : \A y \in {a, b} : x <= y
  <2>1. CASE a <= b
    BY <2>1
  <2>2. CASE b <= a
    BY <2>2
  <2>3. QED
    BY <2>1, <2>2
<1>2. Min({a, b}) \in {a, b} /\ \A y \in {a, b} : Min({a, b}) <= y
  BY <1>1 DEF Min
<1>3. QED
  BY <1>2

(* A step in which no level is served leaves the counts alone.             *)
LEMMA NoneServed ==
  ASSUME BypassInv, BypassNext, Served = {}, slot' = slot
  PROVE  bypass' \in [Prio -> Nat] /\ BoundedBypass'
<1>1. Cardinality(Served) = 0
  BY FS_EmptySet
<1>2. ASSUME NEW l \in Prio
      PROVE  bypass'[l] \in Nat /\ bypass'[l] + LeftFor(slot', l) <= MostBypasses(l)
  <2>1. /\ bypass[l] \in Nat /\ MostBypasses(l) \in Nat /\ LeftFor(slot, l) \in Nat
        /\ ~Empty(mlq_ready_queue[l])
             => bypass[l] + LeftFor(slot, l) <= MostBypasses(l)
        /\ bypass'[l] = IF Empty(mlq_ready_queue[l]) THEN 0
                        ELSE Min({bypass[l] + 0, MostBypasses(l) + 1})
    BY <1>1, BypassParts
  <2>2. CASE Empty(mlq_ready_queue[l])
    BY <2>1, <2>2, BypassParts, MostIsEnough
  <2>3. CASE ~Empty(mlq_ready_queue[l])
    <3>1. bypass'[l] \in Nat /\ bypass'[l] <= bypass[l]
      BY <2>1, <2>3, MinOfTwo
    <3>2. QED
      BY <2>1, <2>3, <3>1
  <2>4. QED
    BY <2>2, <2>3
<1>3. BoundedBypass'
  BY <1>2, BypassParts
<1>4. bypass' \in [Prio -> Nat]
  BY <1>2 DEF BypassNext, CountBypass
<1>5. QED
  BY <1>3, <1>4

(* A dispatch counts for the levels that wait, and uses up a slot that     *)
(* could have come before them.                                            *)
LEMMA OneServed ==
  ASSUME BypassInv, BypassNext, NEW m \in Prio, NEW s, NEW p,
         s = slot \/ (s = FullSlot /\ Eligible(slot) = {}),
         TakesHead(m, s, p), Served = {m}
  PROVE  bypass' \in [Prio -> Nat] /\ BoundedBypass'
<1>1. Cardinality(Served) = 1
  BY FS_Singleton
<1>2. SlotsOK(slot) /\ SlotsOK(slot') /\ IInv
  BY BypassParts DEF BypassInv
<1>3. /\ slot' = [s EXCEPT ![m] = @ - 1] /\ m \in Eligible(s)
      /\ \A l \in Eligible(s) : m <= l
      /\ \A l \in Prio : l # m => mlq_ready_queue'[l] = mlq_ready_queue[l]
  BY <1>2 DEF TakesHead, IsHighest, IInv, QueueInv
<1>4. s[m] > 0
  BY <1>3 DEF Eligible
<1>5. ASSUME NEW l \in Prio
      PROVE  /\ bypass'[l] \in Nat
             /\ ~Empty(mlq_ready_queue'[l])
                  => bypass'[l] + LeftFor(slot', l) <= MostBypasses(l)
  <2>1. /\ bypass[l] \in Nat /\ MostBypasses(l) \in Nat /\ LeftFor(slot, l) \in Nat
        /\ ~Empty(mlq_ready_queue[l])
             => bypass[l] + LeftFor(slot, l) <= MostBypasses(l)
        /\ bypass'[l] = IF l = m \/ Empty(mlq_ready_queue[l]) THEN 0
                        ELSE Min({bypass[l] + 1, MostBypasses(l) + 1})
    BY <1>1, BypassParts
  <2>2. CASE l = m \/ Empty(mlq_ready_queue[l])
    <3>1. bypass'[l] = 0
      BY <2>1, <2>2
    <3>2. LeftFor(slot', l) \in Nat /\ LeftFor(slot', l) <= MostBypasses(l)
      BY <1>2, MostIsEnough
    <3>3. QED
      BY <2>1, <3>1, <3>2
  <2>3. CASE l # m /\ ~Empty(mlq_ready_queue[l])
    <3>1. bypass'[l] \in Nat /\ bypass'[l] <= bypass[l] + 1
      BY <2>1, <2>3, MinOfTwo
    <3>2. SlotsOK(s) /\ LeftFor(s, l) <= LeftFor(slot, l)
      <4>1. CASE s = slot
        BY <1>2, <2>1, <4>1
      <4>2. CASE s = FullSlot /\ Eligible(slot) = {}
        <5>1. slot[l] \in Nat
          BY <1>2 DEF SlotsOK
        <5>2. slot[l] = 0
          BY <2>3, <4>2, <5>1 DEF Eligible
        <5>3. QED
          BY <1>2, <4>2, <5>2, ResetLeavesNoMore
      <4>3. QED
        BY <4>1, <4>2
    <3>3. s[l] > 0 => m < l
      <4>1. s[l] > 0 => m <= l
        BY <1>3, <2>3 DEF Eligible
      <4>2. m \in Nat /\ l \in Nat
        BY DEF Prio
      <4>3. QED
        BY <2>3, <4>1, <4>2
    <3>4. LeftFor(slot', l) = LeftFor(s, l) - 1
      BY <1>3, <1>4, <2>3, <3>2, <3>3, OneLeftLess
    <3>5. LeftFor(s, l) \in Nat
      BY <3>2, MostIsEnough
    <3>6. QED
      BY <2>1, <2>3, <3>1, <3>2, <3>4, <3>5
  <2>4. QED
    BY <2>2, <2>3
<1>6. BoundedBypass'
  BY <1>5, BypassParts
<1>7. bypass' \in [Prio -> Nat]
  BY <1>5 DEF BypassNext, CountBypass
<1>8. QED
  BY <1>6, <1>7

(* Every step preserves the bound.                                         *)
LEMMA NextBypass == BypassInv /\ [BypassNext]_bypassVars => BypassInv'
<1> SUFFICES ASSUME BypassInv, [BypassNext]_bypassVars PROVE BypassInv'
  OBVIOUS
<1>1. ASSUME BypassNext, bypass' \in [Prio -> Nat], BoundedBypass'
      PROVE  BypassInv'
  BY <1>1, BypassParts DEF BypassInv
<1>2. IInv /\ on \in [CPU -> Proc \cup {NoProc}]
  BY DEF BypassInv, IInv, Holders
<1>3. ASSUME BypassNext, \A c \in CPU : on'[c] = on[c] \/ on'[c] = NoProc,
             slot' = slot
      PROVE  BypassInv'
  <2>1. Served = {}
    BY <1>3 DEF Served
  <2>2. QED
    BY <1>1, <1>3, <2>1, NoneServed
<1>4. ASSUME BypassNext, NEW c \in CPU, Dispatch(c) PROVE BypassInv'
  <2>1. PICK p \in Proc \cup {NoProc} :
          on[c] = NoProc /\ GetProc(p) /\ on' = [on EXCEPT ![c] = p]
    BY <1>4 DEF Dispatch
  <2>2. prio' = prio /\ QueueInv
    BY <1>2, <1>4 DEF Dispatch, IInv
  <2>3. on'[c] = p /\ \A d \in CPU : d # c => on'[d] = on[d]
    BY <1>2, <2>1
  <2>4. ASSUME NEW m \in Prio, NEW s, TakesHead(m, s, p),
               s = slot \/ (s = FullSlot /\ Eligible(slot) = {})
        PROVE  BypassInv'
    <3>1. p \in Proc /\ prio[p] = m
      <4>1. 1 \in DOMAIN mlq_ready_queue[m] /\ p = mlq_ready_queue[m][1]
        BY <2>2, <2>4 DEF TakesHead, QueueInv, Empty
      <4>2. QED
        BY <2>2, <4>1 DEF QueueInv
    <3>2. p # NoProc
      BY <3>1, NoProcAssumption
    <3>3. {d \in CPU : on[d] = NoProc /\ on'[d] # NoProc} = {c}
      BY <2>1, <2>3, <3>2
    <3>4. Served = {m}
      BY <2>2, <2>3, <3>1, <3>3 DEF Served
    <3>5. QED
      BY <1>1, <1>4, <2>4, <3>4, OneServed
  <2>5. CASE /\ Eligible(FullSlot) = {} /\ p = NoProc
             /\ slot' = FullSlot /\ UNCHANGED mlq_ready_queue
    <3>1. \A l \in Prio : Empty(mlq_ready_queue'[l])
      BY <2>5, NothingEligible
    <3>2. BoundedBypass'
      BY <1>4, <3>1, BypassParts
    <3>3. Served = {}
      BY <2>1, <2>3, <2>5 DEF Served
    <3>4. \A l \in Prio : bypass'[l] = 0
      BY <1>4, <2>5, <3>1, BypassParts
    <3>5. bypass' \in [Prio -> Nat]
      BY <1>4, <3>4 DEF BypassNext, CountBypass
    <3>6. QED
      BY <1>1, <1>4, <3>2, <3>5
  <2>6. QED
    BY <2>1, <2>2, <2>4, <2>5, GetProcEffect
<1>5. ASSUME BypassNext, NEW p \in Proc, Admit(p) PROVE BypassInv'
  BY <1>3, <1>5 DEF Admit, AddProc
<1>6. ASSUME BypassNext, NEW c \in CPU, Requeue(c) PROVE BypassInv'
  BY <1>2, <1>3, <1>6 DEF Requeue, PutProc
<1>7. ASSUME BypassNext, NEW c \in CPU, Retire(c) PROVE BypassInv'
  BY <1>2, <1>3, <1>7 DEF Retire, schedVars
<1>8. CASE UNCHANGED bypassVars
  <2>1. UNCHANGED vars /\ bypass' = bypass /\ slot' = slot
           /\ mlq_ready_queue' = mlq_ready_queue
    BY <1>8 DEF bypassVars, vars, schedVars
  <2>2. IInv'
    BY <1>2, <2>1, NextIInv
  <2>3. BoundedBypass'
    BY <2>1 DEF BypassInv, BoundedBypass, Remaining, MostBypasses
  <2>4. QED
    BY <2>1, <2>2, <2>3 DEF BypassInv
<1>9. QED
  BY <1>4, <1>5, <1>6, <1>7, <1>8 DEF BypassNext, Next, CPUStep

(* For any number of levels, processes and CPUs: while a level waits, the  *)
(* dispatches from other levels are at most the slots of those plus, once  *)
(* more, those of the higher levels (get_mlq_proc).                        *)
THEOREM BoundedBypassCorrect == BypassSafeSpec => []BoundedBypass
<1>1. BypassInit => BypassInv
  <2>1. SUFFICES ASSUME BypassInit PROVE BypassInv
    OBVIOUS
  <2>2. Init /\ bypass = [l \in Prio |-> 0]
    BY <2>1 DEF BypassInit
  <2>3. IInv /\ bypass \in [Prio -> Nat]
    BY <2>2, InitIInv
  <2>4. \A l \in Prio : Empty(mlq_ready_queue[l])
    BY <2>2 DEF Init, InitScheduler, Empty
  <2>5. QED
    BY <2>3, <2>4 DEF BypassInv, BoundedBypass
<1>2. QED
  BY <1>1, NextBypass, PTL DEF BypassSafeSpec, BypassInv

-----------------------------------------------------------------------------
(* The order within a level                                                *)

(* Those who are ahead of a queued process stand before it in its queue.   *)
Ordered ==
  \A l \in Prio : \A k \in DOMAIN mlq_ready_queue[l] :
    \A r \in ahead[mlq_ready_queue[l][k]] :
      \E j \in DOMAIN mlq_ready_queue[l] : j < k /\ r = mlq_ready_queue[l][j]

(* A process that is queued already has nobody new ahead of it.            *)
LEMMA AheadOfQueued ==
  ASSUME QueueInv, RecordOrder, NEW l \in Prio,
         NEW k \in DOMAIN mlq_ready_queue[l]
  PROVE  LET p == mlq_ready_queue[l][k]
         IN p \in Proc /\ Queued(p) /\ ahead'[p] = ahead[p] \ Taken
<1> DEFINE p == mlq_ready_queue[l][k]
<1>1. mlq_ready_queue[l] \in Seq(Proc)
  BY DEF QueueInv
<1>2. p \in Proc
  BY <1>1
<1>3. p \in ToSet(mlq_ready_queue[l])
  BY DEF ToSet
<1>4. Queued(p)
  BY <1>3 DEF Queued
<1>5. QED
  BY <1>2, <1>4 DEF RecordOrder, Arrived

(* The order stays when the queues do.                                     *)
LEMMA UnchangedOrder ==
  ASSUME QueueInv, Ordered, RecordOrder, UNCHANGED mlq_ready_queue
  PROVE  Ordered'
<1>1. ASSUME NEW l \in Prio, NEW k \in DOMAIN mlq_ready_queue[l]
      PROVE  \A r \in ahead'[mlq_ready_queue[l][k]] :
               \E j \in DOMAIN mlq_ready_queue[l] :
                 j < k /\ r = mlq_ready_queue[l][j]
  BY <1>1, AheadOfQueued DEF Ordered
<1>2. QED
  BY <1>1 DEF Ordered

(* Who is put in a queue stands behind all that are there.                 *)
LEMMA PutOrder ==
  ASSUME QueueInv, Ordered, RecordOrder, NEW p \in Proc, PutProc(p),
         NotQueued(p)
  PROVE  Ordered'
<1> SUFFICES ASSUME NEW l \in Prio, NEW k \in DOMAIN mlq_ready_queue'[l],
                    NEW r \in ahead'[mlq_ready_queue'[l][k]]
             PROVE  \E j \in DOMAIN mlq_ready_queue'[l] :
                      j < k /\ r = mlq_ready_queue'[l][j]
  BY DEF Ordered
<1>1. mlq_ready_queue[l] \in Seq(Proc) /\ mlq_ready_queue'[l] \in Seq(Proc)
  BY PutStep DEF QueueInv
<1>2. \A j \in DOMAIN mlq_ready_queue[l] :
        /\ j \in DOMAIN mlq_ready_queue'[l]
        /\ mlq_ready_queue'[l][j] = mlq_ready_queue[l][j]
  <2>1. CASE mlq_ready_queue'[l] = mlq_ready_queue[l]
    BY <2>1
  <2>2. CASE /\ Len(mlq_ready_queue'[l]) = Len(mlq_ready_queue[l]) + 1
             /\ \A j \in 1 .. Len(mlq_ready_queue[l]) :
                  mlq_ready_queue'[l][j] = mlq_ready_queue[l][j]
    BY <1>1, <2>2
  <2>3. QED
    BY <2>1, <2>2, PutStep
<1>3. CASE /\ k \in DOMAIN mlq_ready_queue[l]
           /\ mlq_ready_queue'[l][k] = mlq_ready_queue[l][k]
  <2>1. r \in ahead[mlq_ready_queue[l][k]]
    BY <1>3, AheadOfQueued
  <2>2. PICK j \in DOMAIN mlq_ready_queue[l] :
          j < k /\ r = mlq_ready_queue[l][j]
    BY <1>3, <2>1 DEF Ordered
  <2>3. QED
    BY <1>2, <2>2
<1>4. CASE /\ l = prio[p] /\ k = Len(mlq_ready_queue[l]) + 1
           /\ mlq_ready_queue'[l][k] = p
  <2>1. ~Queued(p)
    BY DEF NotQueued, Queued, ToSet
  <2>2. Queued(p)'
    <3>1. p \in ToSet(mlq_ready_queue'[l])
      BY <1>4 DEF ToSet
    <3>2. QED
      BY <3>1 DEF Queued
  <2>3. r \in Proc /\ Queued(r) /\ prio[r] = l
    BY <1>4, <2>1, <2>2 DEF RecordOrder, Arrived
  <2>4. PICK m \in Prio : \E j \in DOMAIN mlq_ready_queue[m] :
                             mlq_ready_queue[m][j] = r
    BY <2>3 DEF Queued, ToSet
  <2>5. PICK j \in DOMAIN mlq_ready_queue[m] : mlq_ready_queue[m][j] = r
    BY <2>4
  <2>6. m = l
    BY <2>3, <2>5 DEF QueueInv
  <2>7. j < k
    BY <1>1, <1>4, <2>5, <2>6
  <2>8. QED
    BY <1>2, <2>5, <2>6, <2>7
<1>5. QED
  BY <1>3, <1>4, PutElements

(* When the head is taken the others keep their order.                     *)
LEMMA TakeOrder ==
  ASSUME QueueInv, Ordered, RecordOrder, NEW m \in Prio, NEW s, NEW p,
         TakesHead(m, s, p), p \in Taken
  PROVE  Ordered'
<1> SUFFICES ASSUME NEW l \in Prio, NEW k \in DOMAIN mlq_ready_queue'[l],
                    NEW r \in ahead'[mlq_ready_queue'[l][k]]
             PROVE  \E j \in DOMAIN mlq_ready_queue'[l] :
                      j < k /\ r = mlq_ready_queue'[l][j]
  BY DEF Ordered
<1>1. /\ mlq_ready_queue \in [Prio -> Seq(Proc)]
      /\ mlq_ready_queue' \in [Prio -> Seq(Proc)]
  BY TakeElements DEF QueueInv
<1>2. PICK o \in DOMAIN mlq_ready_queue[l] :
        /\ o = IF l = m THEN k + 1 ELSE k
        /\ mlq_ready_queue'[l][k] = mlq_ready_queue[l][o]
  BY TakeElements
<1>3. r \in ahead[mlq_ready_queue[l][o]] /\ r # p
  BY <1>2, AheadOfQueued
<1>4. PICK i \in DOMAIN mlq_ready_queue[l] :
        i < o /\ r = mlq_ready_queue[l][i]
  BY <1>3 DEF Ordered
<1>5. CASE l # m
  <2>1. mlq_ready_queue'[l] = mlq_ready_queue[l]
    BY <1>1, <1>5 DEF TakesHead
  <2>2. QED
    BY <1>2, <1>4, <1>5, <2>1
<1>6. CASE l = m
  <2> DEFINE q == mlq_ready_queue[l]
  <2>1. q \in Seq(Proc) /\ mlq_ready_queue'[l] = RemoveAt(q, 1)
    BY <1>1, <1>6 DEF TakesHead
  <2>2. i # 1 /\ i \in 1 .. Len(q) /\ Len(q) \in Nat
    BY <1>3, <1>4, <1>6, <2>1 DEF TakesHead
  <2>3. PICK j \in 1 .. Len(q) - 1 : i = j + 1
    BY <2>2
  <2> HIDE DEF q
  <2>4. /\ RemoveAt(q, 1) \in Seq(Proc) /\ Len(RemoveAt(q, 1)) = Len(q) - 1
        /\ RemoveAt(q, 1)[j] = q[j + 1]
    BY <2>1, <2>2, <2>3, RemoveHead
  <2>5. j \in DOMAIN mlq_ready_queue'[l] /\ mlq_ready_queue'[l][j] = q[i]
    BY <2>1, <2>2, <2>3, <2>4
  <2>6. j < k
    <3>1. k \in 1 .. Len(RemoveAt(q, 1))
      BY <2>1, <2>4
    <3>2. QED
      BY <1>2, <1>4, <1>6, <2>2, <2>3, <2>4, <3>1
  <2>7. QED
    BY <1>4, <2>5, <2>6 DEF q
<1>7. QED
  BY <1>5, <1>6

(* Every step keeps the order.                                             *)
LEMMA NextOrder ==
  ASSUME IInv, Ordered, [BypassNext]_bypassVars
  PROVE  Ordered'
<1>1. QueueInv /\ Holders /\ on \in [CPU -> Proc \cup {NoProc}]
  BY DEF IInv, Holders
<1>2. ASSUME BypassNext, NEW p \in Proc, Admit(p) PROVE Ordered'
  <2>1. PutProc(p) /\ NotQueued(p)
    BY <1>1, <1>2 DEF Admit, AddProc, PutProc, Holders, InQueues
  <2>2. QED
    BY <1>1, <1>2, <2>1, PutOrder DEF BypassNext
<1>3. ASSUME BypassNext, NEW c \in CPU, Dispatch(c) PROVE Ordered'
  <2>1. PICK p \in Proc \cup {NoProc} :
          on[c] = NoProc /\ GetProc(p) /\ on' = [on EXCEPT ![c] = p]
    BY <1>3 DEF Dispatch
  <2>2. on'[c] = p
    BY <1>1, <2>1
  <2>3. ASSUME NEW m \in Prio, NEW s, TakesHead(m, s, p) PROVE Ordered'
    <3>1. p \in Proc
      BY <1>1, <2>3, TakeElements
    <3>2. p \in Taken
      BY <2>1, <2>2, <3>1, NoProcAssumption DEF Taken
    <3>3. QED
      BY <1>1, <1>3, <2>3, <3>2, TakeOrder DEF BypassNext
  <2>4. CASE UNCHANGED mlq_ready_queue
    BY <1>1, <1>3, <2>4, UnchangedOrder DEF BypassNext
  <2>5. QED
    BY <1>1, <2>1, <2>3, <2>4, GetProcEffect
<1>4. ASSUME BypassNext, NEW c \in CPU, Requeue(c) PROVE Ordered'
  <2>1. on[c] \in Proc /\ PutProc(on[c]) /\ NotQueued(on[c])
    BY <1>1, <1>4 DEF Requeue, Holders, InQueues
  <2>2. QED
    BY <1>1, <1>4, <2>1, PutOrder DEF BypassNext
<1>5. ASSUME BypassNext, NEW c \in CPU, Retire(c) PROVE Ordered'
  BY <1>1, <1>5, UnchangedOrder DEF BypassNext, Retire, schedVars
<1>6. CASE UNCHANGED bypassVars
  BY <1>6 DEF bypassVars, vars, schedVars, Ordered
<1>7. QED
  BY <1>2, <1>3, <1>4, <1>5, <1>6 DEF BypassNext, Next, CPUStep

(* The processes of a level leave it in the order they came in, through    *)
(* any number of preemptions: enqueue writes behind all others, and        *)
(* dequeue finds the head and closes its gap without disturbing the rest.  *)
THEOREM FIFOCorrect == BypassSafeSpec => FIFOWithinLevel
<1> DEFINE Inv == IInv /\ Ordered
<1>1. BypassInit => Inv
  <2>1. SUFFICES ASSUME BypassInit PROVE Inv
    OBVIOUS
  <2>2. IInv /\ mlq_ready_queue = [l \in Prio |-> <<>>]
    BY <2>1, InitIInv DEF BypassInit, Init, InitScheduler
  <2>3. \A l \in Prio : DOMAIN mlq_ready_queue[l] = {}
    BY <2>2
  <2>4. QED
    BY <2>2, <2>3 DEF Ordered
<1>2. Inv /\ [BypassNext]_bypassVars => Inv'
  <2>1. SUFFICES ASSUME Inv, [BypassNext]_bypassVars PROVE Inv'
    OBVIOUS
  <2>2. [Next]_vars
    BY <2>1 DEF BypassNext, bypassVars
  <2>3. QED
    BY <2>1, <2>2, NextIInv, NextOrder
<1>3. Inv /\ [BypassNext]_bypassVars => [\A p \in Taken : ahead[p] = {}]_bypassVars
  <2>1. SUFFICES ASSUME Inv, BypassNext, NEW p \in Taken, NEW r \in ahead[p]
                 PROVE  FALSE
    OBVIOUS
  <2>2. PICK c \in CPU : on[c] = NoProc /\ on'[c] # NoProc /\ on'[c] = p
    BY DEF Taken
  <2>3. [Next]_vars
    BY <2>1 DEF BypassNext
  <2>4. PICK l \in Prio : \E s : TakesHead(l, s, p)
    BY <2>1, <2>2, <2>3, DispatchTakes
  <2>5. 1 \in DOMAIN mlq_ready_queue[l] /\ p = mlq_ready_queue[l][1]
    BY <2>1, <2>4, TakeElements DEF TakesHead, IInv
  <2>6. PICK j \in DOMAIN mlq_ready_queue[l] : j < 1
    BY <2>1, <2>5 DEF Ordered
  <2>7. mlq_ready_queue[l] \in Seq(Proc)
    BY <2>1 DEF IInv, QueueInv
  <2>8. QED
    BY <2>6, <2>7
<1>4. QED
  BY <1>1, <1>2, <1>3, PTL DEF BypassSafeSpec, FIFOWithinLevel
=============================================================================
