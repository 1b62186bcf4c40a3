----------------------------- MODULE SchedProofs -----------------------------
(***************************************************************************)
(* What the operations of the scheduler do to its queues, for every set of *)
(* processes, number of levels and capacity: the facts about Sched that    *)
(* the proofs about the modules that use it (Dispatcher, OS) rest on.      *)
(*                                                                         *)
(* They hold as long as no process is in the queues twice and each is in   *)
(* the queue of its level (QueueInv).  Then all processes of a queue have  *)
(* the same prio, so the search of dequeue always ends at the head, and    *)
(* the operations are those on the set of queued processes (PutEffect,     *)
(* GetEffect).                                                             *)
(***************************************************************************)
EXTENDS Sched, SequenceTheorems, FiniteSetTheorems, TLAPS

OncePerQueues ==
  \A l, m \in Prio :
    \A i \in DOMAIN mlq_ready_queue[l], j \in DOMAIN mlq_ready_queue[m] :
      mlq_ready_queue[l][i] = mlq_ready_queue[m][j] => l = m /\ i = j

QueueInv ==
  /\ prio \in [Proc -> Prio]
  /\ mlq_ready_queue \in [Prio -> Seq(Proc)]
  /\ slot \in [Prio -> Nat] /\ \A l \in Prio : slot[l] <= MAX_PRIO - l
  /\ OncePerQueues
  /\ \A l \in Prio : \A i \in DOMAIN mlq_ready_queue[l] :
       prio[mlq_ready_queue[l][i]] = l

NotQueued(p) ==
  \A l \in Prio : \A i \in DOMAIN mlq_ready_queue[l] : mlq_ready_queue[l][i] # p
InQueues == {p \in Proc : ~NotQueued(p)}

-----------------------------------------------------------------------------
(* What the operations of queue.c do to one queue.                         *)

(* A sequence without its head.                                            *)
LEMMA RemoveHead ==
  ASSUME NEW S, NEW s \in Seq(S), Len(s) # 0
  PROVE  /\ RemoveAt(s, 1) \in Seq(S)
         /\ Len(RemoveAt(s, 1)) = Len(s) - 1
         /\ \A j \in 1 .. Len(s) - 1 : RemoveAt(s, 1)[j] = s[j + 1]
<1>1. RemoveAt(s, 1) = SubSeq(s, 1, 0) \o SubSeq(s, 2, Len(s))
  BY DEF RemoveAt
<1>2. SubSeq(s, 1, 0) = <<>>
  OBVIOUS
<1>3. /\ SubSeq(s, 2, Len(s)) \in Seq(S)
      /\ Len(SubSeq(s, 2, Len(s))) = Len(s) - 1
      /\ \A j \in 1 .. Len(s) - 1 : SubSeq(s, 2, Len(s))[j] = s[j + 1]
  OBVIOUS
<1>4. <<>> \o SubSeq(s, 2, Len(s)) = SubSeq(s, 2, Len(s))
  BY <1>3
<1> QED BY <1>1, <1>2, <1>3, <1>4

(* enqueue appends, or does nothing when the queue is full.                *)
LEMMA EnqueueEffect ==
  ASSUME NEW S, NEW q \in Seq(S), NEW p \in S
  PROVE  /\ Enqueue(q, p) \in Seq(S)
         /\ \/ Enqueue(q, p) = q /\ ~(Len(q) < MAX_QUEUE_SIZE)
            \/ /\ Len(Enqueue(q, p)) = Len(q) + 1
               /\ \A j \in 1 .. Len(q) : Enqueue(q, p)[j] = q[j]
               /\ Enqueue(q, p)[Len(q) + 1] = p
BY DEF Enqueue

(* The search of dequeue ends at the head, for all have the same prio.     *)
LEMMA HeadIsTaken ==
  ASSUME QueueInv, NEW l \in Prio, ~Empty(mlq_ready_queue[l])
  PROVE  HighestPrioIndex(mlq_ready_queue[l]) = 1
<1> DEFINE q == mlq_ready_queue[l]
           First(i) == /\ \A j \in 1 .. i - 1 : prio[q[i]] < prio[q[j]]
                       /\ \A j \in DOMAIN q : prio[q[i]] <= prio[q[j]]
<1>1. q \in Seq(Proc) /\ Len(q) # 0
  BY DEF QueueInv, Empty
<1>2. DOMAIN q = 1 .. Len(q) /\ Len(q) \in Nat
  BY <1>1
<1>3. l \in Int /\ \A i \in DOMAIN q : prio[q[i]] = l
  BY DEF QueueInv, Prio
<1>4. 1 \in DOMAIN q /\ First(1)
  BY <1>1, <1>2, <1>3
<1>5. \A i \in DOMAIN q : First(i) => i = 1
  BY <1>2, <1>3
<1> QED BY <1>4, <1>5 DEF HighestPrioIndex

-----------------------------------------------------------------------------
(* What get_proc does: it takes the head of a level, or finds none.        *)

TakesHead(l, s, p) ==
  /\ IsHighest(l, Eligible(s))
  /\ ~Empty(mlq_ready_queue[l])
  /\ p = mlq_ready_queue[l][1]
  /\ mlq_ready_queue' =
       [mlq_ready_queue EXCEPT ![l] = RemoveAt(mlq_ready_queue[l], 1)]
  /\ slot' = [s EXCEPT ![l] = @ - 1]

(* A scan of the levels takes the head of one of them.                     *)
LEMMA TakeHighestEffect ==
  ASSUME QueueInv, NEW s, NEW p, TakeHighest(s, p)
  PROVE  \E l \in Prio : TakesHead(l, s, p)
<1>1. PICK l \in Prio : IsHighest(l, Eligible(s)) /\ Take(s, l, p)
  BY DEF TakeHighest
<1>2. ~Empty(mlq_ready_queue[l])
  BY <1>1 DEF IsHighest, Eligible
<1>3. HighestPrioIndex(mlq_ready_queue[l]) = 1
  BY <1>2, HeadIsTaken
<1> QED BY <1>1, <1>2, <1>3 DEF Take, TakesHead

(* get_proc takes a head in its first scan, or in its second, or nothing.  *)
LEMMA GetProcEffect ==
  ASSUME QueueInv, NEW p, GetProc(p)
  PROVE  \/ \E l \in Prio : TakesHead(l, slot, p)
         \/ /\ Eligible(slot) = {}
            /\ \E l \in Prio : TakesHead(l, FullSlot, p)
         \/ /\ Eligible(FullSlot) = {} /\ p = NoProc
            /\ slot' = FullSlot /\ UNCHANGED mlq_ready_queue
BY TakeHighestEffect DEF GetProc

(* After a reset every level has slots.                                    *)
LEMMA FullSlotType ==
  /\ FullSlot \in [Prio -> Nat]
  /\ \A l \in Prio : FullSlot[l] <= MAX_PRIO - l /\ FullSlot[l] > 0
BY MaxPrioAssumption DEF FullSlot, Prio

(* After a full reset only empty levels are not eligible.                  *)
LEMMA NothingEligible ==
  ASSUME Eligible(FullSlot) = {}, NEW l \in Prio
  PROVE  Empty(mlq_ready_queue[l])
BY FullSlotType DEF Eligible

(* A process that is nowhere is put in its queue, or dropped.              *)
LEMMA PutStep ==
  ASSUME QueueInv, NEW p \in Proc, PutProc(p)
  PROVE  /\ mlq_ready_queue' \in [Prio -> Seq(Proc)]
         /\ \A l \in Prio \ {prio[p]} : mlq_ready_queue'[l] = mlq_ready_queue[l]
         /\ \/ mlq_ready_queue'[prio[p]] = mlq_ready_queue[prio[p]]
            \/ /\ Len(mlq_ready_queue'[prio[p]]) = Len(mlq_ready_queue[prio[p]]) + 1
               /\ \A j \in 1 .. Len(mlq_ready_queue[prio[p]]) :
                    mlq_ready_queue'[prio[p]][j] = mlq_ready_queue[prio[p]][j]
               /\ mlq_ready_queue'[prio[p]][Len(mlq_ready_queue[prio[p]]) + 1] = p
<1>1. prio[p] \in Prio /\ mlq_ready_queue \in [Prio -> Seq(Proc)]
  BY DEF QueueInv
<1>2. mlq_ready_queue' =
        [mlq_ready_queue EXCEPT ![prio[p]] = Enqueue(mlq_ready_queue[prio[p]], p)]
  BY DEF PutProc
<1>3. mlq_ready_queue[prio[p]] \in Seq(Proc)
  BY <1>1
<1>4. /\ mlq_ready_queue' \in [Prio -> Seq(Proc)]
      /\ mlq_ready_queue'[prio[p]] = Enqueue(mlq_ready_queue[prio[p]], p)
      /\ \A l \in Prio \ {prio[p]} : mlq_ready_queue'[l] = mlq_ready_queue[l]
  BY <1>1, <1>2, <1>3, EnqueueEffect
<1> DEFINE q == mlq_ready_queue[prio[p]]
<1>5. \/ Enqueue(q, p) = q
      \/ /\ Len(Enqueue(q, p)) = Len(q) + 1
         /\ \A j \in 1 .. Len(q) : Enqueue(q, p)[j] = q[j]
         /\ Enqueue(q, p)[Len(q) + 1] = p
  BY <1>3, EnqueueEffect
<1> QED BY <1>4, <1>5

(* Where the elements of the queues come from when p is put.               *)
LEMMA PutElements ==
  ASSUME QueueInv, NEW p \in Proc, PutProc(p),
         NEW l \in Prio, NEW k \in DOMAIN mlq_ready_queue'[l]
  PROVE  \/ /\ k \in DOMAIN mlq_ready_queue[l]
            /\ mlq_ready_queue'[l][k] = mlq_ready_queue[l][k]
         \/ /\ l = prio[p] /\ k = Len(mlq_ready_queue[l]) + 1
            /\ k \notin DOMAIN mlq_ready_queue[l]
            /\ mlq_ready_queue'[l][k] = p
<1>1. mlq_ready_queue[l] \in Seq(Proc) /\ mlq_ready_queue'[l] \in Seq(Proc)
  BY PutStep DEF QueueInv
<1>2. /\ DOMAIN mlq_ready_queue[l] = 1 .. Len(mlq_ready_queue[l])
      /\ DOMAIN mlq_ready_queue'[l] = 1 .. Len(mlq_ready_queue'[l])
      /\ Len(mlq_ready_queue[l]) \in Nat
  BY <1>1
<1>3. CASE l # prio[p]
  BY <1>3, PutStep
<1>4. CASE l = prio[p]
  BY <1>2, <1>4, PutStep
<1> QED BY <1>3, <1>4

(* The elements of the queues after the head of level m is taken.          *)
LEMMA TakeElements ==
  ASSUME QueueInv, NEW m \in Prio, NEW s, NEW p, TakesHead(m, s, p)
  PROVE  /\ mlq_ready_queue' \in [Prio -> Seq(Proc)]
         /\ p \in Proc
         /\ 1 \in DOMAIN mlq_ready_queue[m]
         /\ \A l \in Prio : \A k \in DOMAIN mlq_ready_queue'[l] :
              LET o == IF l = m THEN k + 1 ELSE k
              IN /\ o \in DOMAIN mlq_ready_queue[l]
                 /\ mlq_ready_queue'[l][k] = mlq_ready_queue[l][o]
<1> DEFINE q == mlq_ready_queue[m]
<1>1. mlq_ready_queue \in [Prio -> Seq(Proc)] /\ q \in Seq(Proc) /\ Len(q) # 0
  BY DEF QueueInv, TakesHead, Empty
<1>2. /\ RemoveAt(q, 1) \in Seq(Proc) /\ Len(RemoveAt(q, 1)) = Len(q) - 1
      /\ \A j \in 1 .. Len(q) - 1 : RemoveAt(q, 1)[j] = q[j + 1]
  BY <1>1, RemoveHead
<1>3. mlq_ready_queue' = [mlq_ready_queue EXCEPT ![m] = RemoveAt(q, 1)]
  BY DEF TakesHead
<1>4. mlq_ready_queue' \in [Prio -> Seq(Proc)]
  BY <1>1, <1>2, <1>3
<1>5. 1 \in DOMAIN q /\ q[1] = p /\ p \in Proc
  BY <1>1 DEF TakesHead
<1>6. ASSUME NEW l \in Prio, NEW k \in DOMAIN mlq_ready_queue'[l]
      PROVE  LET o == IF l = m THEN k + 1 ELSE k
             IN /\ o \in DOMAIN mlq_ready_queue[l]
                /\ mlq_ready_queue'[l][k] = mlq_ready_queue[l][o]
  <2>1. CASE l = m
    <3>1. mlq_ready_queue'[l] = RemoveAt(q, 1)
      BY <1>1, <1>3, <2>1
    <3>2. k \in 1 .. Len(q) - 1
      BY <1>1, <1>2, <3>1
    <3>3. k + 1 \in DOMAIN q
      BY <1>1, <3>2
    <3>4. RemoveAt(q, 1)[k] = q[k + 1]
      BY <1>2, <3>2
    <3> QED BY <2>1, <3>1, <3>3, <3>4
  <2>2. CASE l # m
    BY <1>1, <1>3, <2>2
  <2> QED BY <2>1, <2>2
<1> QED BY <1>4, <1>5, <1>6

(* A process that is put in its queue is in no queue twice.                *)
LEMMA PutOnce ==
  ASSUME QueueInv, NEW p \in Proc, PutProc(p), NotQueued(p)
  PROVE  OncePerQueues'
<1> SUFFICES ASSUME NEW l \in Prio, NEW m \in Prio,
                    NEW i \in DOMAIN mlq_ready_queue'[l],
                    NEW j \in DOMAIN mlq_ready_queue'[m],
                    mlq_ready_queue'[l][i] = mlq_ready_queue'[m][j]
             PROVE  l = m /\ i = j
  BY DEF OncePerQueues
<1>1. OncePerQueues
  BY DEF QueueInv
<1>2. \/ /\ i \in DOMAIN mlq_ready_queue[l]
         /\ mlq_ready_queue'[l][i] = mlq_ready_queue[l][i]
      \/ /\ l = prio[p] /\ i = Len(mlq_ready_queue[l]) + 1
         /\ mlq_ready_queue'[l][i] = p
  BY PutElements
<1>3. \/ /\ j \in DOMAIN mlq_ready_queue[m]
         /\ mlq_ready_queue'[m][j] = mlq_ready_queue[m][j]
      \/ /\ m = prio[p] /\ j = Len(mlq_ready_queue[m]) + 1
         /\ mlq_ready_queue'[m][j] = p
  BY PutElements
<1> QED BY <1>1, <1>2, <1>3 DEF OncePerQueues, NotQueued

(* A process that is taken is in no queue.                                 *)
LEMMA TakeOnce ==
  ASSUME QueueInv, NEW m \in Prio, NEW s, NEW p, TakesHead(m, s, p)
  PROVE  OncePerQueues' /\ NotQueued(p)'
<1>1. OncePerQueues
  BY DEF QueueInv
<1>2. mlq_ready_queue[m][1] = p /\ 1 \in DOMAIN mlq_ready_queue[m]
  BY TakeElements DEF TakesHead
<1>3. \A l \in Prio : \A k \in DOMAIN mlq_ready_queue'[l] : k \in Nat /\ k >= 1
  BY TakeElements
<1>4. OncePerQueues'
  <2> SUFFICES ASSUME NEW l \in Prio, NEW n \in Prio,
                      NEW i \in DOMAIN mlq_ready_queue'[l],
                      NEW j \in DOMAIN mlq_ready_queue'[n],
                      mlq_ready_queue'[l][i] = mlq_ready_queue'[n][j]
               PROVE  l = n /\ i = j
    BY DEF OncePerQueues
  <2>1. PICK oi \in DOMAIN mlq_ready_queue[l] :
          /\ oi = IF l = m THEN i + 1 ELSE i
          /\ mlq_ready_queue'[l][i] = mlq_ready_queue[l][oi]
    BY TakeElements
  <2>2. PICK oj \in DOMAIN mlq_ready_queue[n] :
          /\ oj = IF n = m THEN j + 1 ELSE j
          /\ mlq_ready_queue'[n][j] = mlq_ready_queue[n][oj]
    BY TakeElements
  <2>3. mlq_ready_queue[l][oi] = mlq_ready_queue[n][oj]
    BY <2>1, <2>2
  <2>4. l = n /\ oi = oj
    BY <1>1, <2>3 DEF OncePerQueues
  <2> QED BY <1>3, <2>1, <2>2, <2>4
<1>5. NotQueued(p)'
  <2> SUFFICES ASSUME NEW l \in Prio, NEW k \in DOMAIN mlq_ready_queue'[l],
                      mlq_ready_queue'[l][k] = p
               PROVE  FALSE
    BY DEF NotQueued
  <2> DEFINE o == IF l = m THEN k + 1 ELSE k
  <2>1. /\ o \in DOMAIN mlq_ready_queue[l]
        /\ mlq_ready_queue'[l][k] = mlq_ready_queue[l][o]
    BY TakeElements
  <2>2. l = m /\ o = 1
    BY <1>1, <1>2, <2>1 DEF OncePerQueues
  <2> QED BY <1>3, <2>2
<1> QED BY <1>4, <1>5

-----------------------------------------------------------------------------
(* The operations on the set of queued processes.                          *)

(* The queues are empty at first.                                          *)
LEMMA InitEffect == prio \in [Proc -> Prio] /\ InitScheduler => QueueInv /\ InQueues = {}
<1> SUFFICES ASSUME prio \in [Proc -> Prio], InitScheduler
             PROVE  QueueInv /\ InQueues = {}
  OBVIOUS
<1>1. \A l \in Prio : mlq_ready_queue[l] = <<>> /\ DOMAIN mlq_ready_queue[l] = {}
  BY DEF InitScheduler
<1>2. mlq_ready_queue \in [Prio -> Seq(Proc)]
  BY DEF InitScheduler
<1>3. slot = FullSlot
  BY DEF InitScheduler
<1>4. QueueInv
  BY <1>1, <1>2, <1>3, FullSlotType DEF QueueInv, OncePerQueues
<1> QED BY <1>1, <1>4 DEF InQueues, NotQueued

(* put_proc and add_proc put a process in its queue, or drop it.           *)
LEMMA PutEffect ==
  ASSUME QueueInv, NEW p \in Proc, PutProc(p), NotQueued(p), prio' = prio
  PROVE  QueueInv' /\ (InQueues' = InQueues \/ InQueues' = InQueues \cup {p})
<1>1. /\ mlq_ready_queue \in [Prio -> Seq(Proc)] /\ prio \in [Proc -> Prio]
      /\ slot' = slot
  BY DEF QueueInv, PutProc
<1>2. mlq_ready_queue' \in [Prio -> Seq(Proc)]
  BY PutStep
<1>3. \A l \in Prio : \A k \in DOMAIN mlq_ready_queue'[l] :
        \/ /\ k \in DOMAIN mlq_ready_queue[l]
           /\ mlq_ready_queue'[l][k] = mlq_ready_queue[l][k]
        \/ l = prio[p] /\ mlq_ready_queue'[l][k] = p
  BY PutElements
<1>4. \A l \in Prio : \A k \in DOMAIN mlq_ready_queue'[l] :
        prio[mlq_ready_queue'[l][k]] = l
  BY <1>3 DEF QueueInv
<1>5. QueueInv'
  BY <1>1, <1>2, <1>4, PutOnce DEF QueueInv
<1>6. InQueues' \subseteq InQueues \cup {p}
  BY <1>3 DEF InQueues, NotQueued
<1>7. InQueues \subseteq InQueues'
  <2> SUFFICES ASSUME NEW l \in Prio, NEW k \in DOMAIN mlq_ready_queue[l]
               PROVE  /\ k \in DOMAIN mlq_ready_queue'[l]
                      /\ mlq_ready_queue'[l][k] = mlq_ready_queue[l][k]
    BY DEF InQueues, NotQueued
  <2>1. mlq_ready_queue[l] \in Seq(Proc) /\ mlq_ready_queue'[l] \in Seq(Proc)
    BY <1>1, <1>2
  <2>2. /\ DOMAIN mlq_ready_queue[l] = 1 .. Len(mlq_ready_queue[l])
        /\ DOMAIN mlq_ready_queue'[l] = 1 .. Len(mlq_ready_queue'[l])
        /\ Len(mlq_ready_queue[l]) \in Nat
    BY <2>1
  <2>3. CASE mlq_ready_queue'[l] = mlq_ready_queue[l]
    BY <2>3
  <2>4. CASE /\ Len(mlq_ready_queue'[l]) = Len(mlq_ready_queue[l]) + 1
             /\ \A j \in 1 .. Len(mlq_ready_queue[l]) :
                  mlq_ready_queue'[l][j] = mlq_ready_queue[l][j]
    BY <2>2, <2>4
  <2> QED BY <2>3, <2>4, PutStep
<1>8. p \notin InQueues
  BY DEF InQueues
<1> QED BY <1>5, <1>6, <1>7, <1>8

(* The effect of a take on the set of queued processes.                    *)
LEMMA TakeEffect ==
  ASSUME QueueInv, prio' = prio, NEW m \in Prio, NEW s, NEW p, TakesHead(m, s, p),
         s \in [Prio -> Nat], \A l \in Prio : s[l] <= MAX_PRIO - l
  PROVE  QueueInv' /\ p \in InQueues /\ InQueues' = InQueues \ {p}
<1>1. /\ mlq_ready_queue \in [Prio -> Seq(Proc)] /\ prio \in [Proc -> Prio]
      /\ mlq_ready_queue' \in [Prio -> Seq(Proc)] /\ p \in Proc
      /\ 1 \in DOMAIN mlq_ready_queue[m] /\ mlq_ready_queue[m][1] = p
  <2>1. /\ mlq_ready_queue' \in [Prio -> Seq(Proc)] /\ p \in Proc
        /\ 1 \in DOMAIN mlq_ready_queue[m]
    BY TakeElements
  <2> QED BY <2>1 DEF QueueInv, TakesHead
<1>2. \A l \in Prio : \A k \in DOMAIN mlq_ready_queue'[l] :
        \E o \in DOMAIN mlq_ready_queue[l] :
          mlq_ready_queue'[l][k] = mlq_ready_queue[l][o]
  BY TakeElements
<1>3. \A l \in Prio : \A k \in DOMAIN mlq_ready_queue'[l] :
        prio[mlq_ready_queue'[l][k]] = l
  BY <1>2 DEF QueueInv
<1>4. slot' \in [Prio -> Nat] /\ \A l \in Prio : slot'[l] <= MAX_PRIO - l
  <2>1. m \in Eligible(s) /\ slot' = [s EXCEPT ![m] = s[m] - 1]
    BY DEF TakesHead, IsHighest
  <2>2. s[m] \in Nat /\ s[m] > 0
    BY <2>1 DEF Eligible
  <2>3. s[m] - 1 \in Nat /\ s[m] - 1 <= MAX_PRIO - m
    BY <2>2, MaxPrioAssumption DEF Prio
  <2> QED BY <2>1, <2>3
<1>5. OncePerQueues' /\ NotQueued(p)'
  BY TakeOnce
<1>6. QueueInv'
  BY <1>1, <1>3, <1>4, <1>5 DEF QueueInv
<1>7. InQueues' \subseteq InQueues \ {p}
  BY <1>2, <1>5 DEF InQueues, NotQueued
<1>8. ASSUME NEW l \in Prio, NEW k \in DOMAIN mlq_ready_queue[l],
             mlq_ready_queue[l][k] # p
      PROVE  \E o \in DOMAIN mlq_ready_queue'[l] :
               mlq_ready_queue'[l][o] = mlq_ready_queue[l][k]
  <2>1. mlq_ready_queue' =
          [mlq_ready_queue EXCEPT ![m] = RemoveAt(mlq_ready_queue[m], 1)]
    BY DEF TakesHead
  <2>2. CASE l # m
    <3>1. mlq_ready_queue'[l] = mlq_ready_queue[l]
      BY <1>1, <2>1, <2>2
    <3> QED BY <3>1
  <2>3. CASE l = m
    <3> DEFINE q == mlq_ready_queue[l]
    <3>1. q \in Seq(Proc) /\ Len(q) # 0 /\ k \in 2 .. Len(q)
      BY <1>1, <1>8, <2>3
    <3>2. mlq_ready_queue'[l] = RemoveAt(q, 1)
      BY <1>1, <2>1, <2>3
    <3> HIDE DEF q
    <3>3. /\ RemoveAt(q, 1) \in Seq(Proc) /\ Len(RemoveAt(q, 1)) = Len(q) - 1
          /\ \A j \in 1 .. Len(q) - 1 : RemoveAt(q, 1)[j] = q[j + 1]
      BY <3>1, RemoveHead
    <3>4. k - 1 \in 1 .. Len(q) - 1 /\ (k - 1) + 1 = k
      BY <3>1
    <3>5. k - 1 \in DOMAIN RemoveAt(q, 1)
      BY <3>3, <3>4
    <3>6. RemoveAt(q, 1)[k - 1] = q[k]
      BY <3>3, <3>4
    <3> QED BY <3>2, <3>5, <3>6 DEF q
  <2> QED BY <2>2, <2>3
<1>9. InQueues \ {p} \subseteq InQueues'
  <2> SUFFICES ASSUME NEW r \in Proc, NEW l \in Prio,
                      NEW k \in DOMAIN mlq_ready_queue[l],
                      mlq_ready_queue[l][k] = r, r # p
               PROVE  ~NotQueued(r)'
    BY DEF InQueues, NotQueued
  <2> QED BY <1>8 DEF NotQueued
<1>10. p \in InQueues
  BY <1>1 DEF InQueues, NotQueued
<1> QED BY <1>6, <1>7, <1>9, <1>10

(* get_proc takes a queued process; it finds none only if there is none.   *)
LEMMA GetEffect ==
  ASSUME QueueInv, NEW p, GetProc(p), prio' = prio
  PROVE  /\ QueueInv'
         /\ \/ p \in InQueues /\ InQueues' = InQueues \ {p}
            \/ p = NoProc /\ InQueues = {} /\ InQueues' = {}
<1>1. CASE \E l \in Prio : TakesHead(l, slot, p)
  BY <1>1, TakeEffect DEF QueueInv
<1>2. CASE \E l \in Prio : TakesHead(l, FullSlot, p)
  BY <1>2, TakeEffect, FullSlotType
<1>3. CASE /\ Eligible(FullSlot) = {} /\ p = NoProc
           /\ slot' = FullSlot /\ UNCHANGED mlq_ready_queue
  <2>1. QueueInv'
    BY <1>3, FullSlotType DEF QueueInv, OncePerQueues
  <2>2. \A l \in Prio : DOMAIN mlq_ready_queue[l] = {}
    BY <1>3, NothingEligible DEF QueueInv, Empty
  <2>3. InQueues = {} /\ InQueues' = {}
    BY <1>3, <2>2 DEF InQueues, NotQueued
  <2> QED BY <1>3, <2>1, <2>3
<1> QED BY <1>1, <1>2, <1>3, GetProcEffect

-----------------------------------------------------------------------------
(* Queues with room for all processes lose none.                           *)

(* A queue that holds no process twice has room for one that is nowhere.   *)
LEMMA QueueHasRoom ==
  ASSUME QueueInv, IsFiniteSet(Proc), Cardinality(Proc) <= MAX_QUEUE_SIZE,
         NEW p \in Proc, NotQueued(p), NEW l \in Prio
  PROVE  Len(mlq_ready_queue[l]) < MAX_QUEUE_SIZE
<1> DEFINE q == mlq_ready_queue[l]
           S == 1 .. Len(q)
           T == Proc \ {p}
<1>1. q \in Seq(Proc) /\ Len(q) \in Nat /\ S = DOMAIN q
  BY DEF QueueInv
<1>2. q \in [S -> T]
  BY <1>1 DEF NotQueued
<1>3. \A i, j \in S : q[i] = q[j] => i = j
  BY <1>1 DEF QueueInv, OncePerQueues
<1>4. IsFiniteSet(S) /\ Cardinality(S) = Len(q)
  BY <1>1, FS_Interval
<1>5. IsFiniteSet(T) /\ Cardinality(T) = Cardinality(Proc) - 1
  BY FS_RemoveElement
<1>6. Cardinality(Proc) \in Nat
  BY FS_CardinalityType
<1>7. ~(Cardinality(T) < Cardinality(S))
  BY <1>2, <1>3, <1>4, <1>5, FS_PigeonHole
<1> QED BY <1>1, <1>4, <1>5, <1>6, <1>7, MaxQueueSizeAssumption

(* With room for all processes none is dropped.                            *)
LEMMA PutKeeps ==
  ASSUME QueueInv, IsFiniteSet(Proc), Cardinality(Proc) <= MAX_QUEUE_SIZE,
         NEW p \in Proc, PutProc(p), NotQueued(p), prio' = prio
  PROVE  InQueues' = InQueues \cup {p}
<1> DEFINE l == prio[p]  q == mlq_ready_queue[l]
<1>1. l \in Prio /\ q \in Seq(Proc) /\ mlq_ready_queue \in [Prio -> Seq(Proc)]
  BY DEF QueueInv
<1>2. Len(q) < MAX_QUEUE_SIZE
  BY <1>1, QueueHasRoom
<1>3. mlq_ready_queue'[l] = Append(q, p)
  BY <1>1, <1>2 DEF PutProc, Enqueue
<1>4. Len(q) + 1 \in DOMAIN Append(q, p) /\ Append(q, p)[Len(q) + 1] = p
  BY <1>1
<1>5. p \in InQueues'
  BY <1>1, <1>3, <1>4 DEF InQueues, NotQueued
<1> QED BY <1>5, PutEffect
=============================================================================
