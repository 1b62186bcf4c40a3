---------------------------- MODULE LoaderProofs ----------------------------
(***************************************************************************)
(* Proofs about Loader for every number of processes, whatever the race    *)
(* on avail_pid does.                                                      *)
(*                                                                         *)
(* PidsCounted is not inductive: nothing in it bounds what a thread is     *)
(* about to write to avail_pid.  Counted bounds avail_pid, and every value *)
(* read from it, by the number of threads that are past their write.       *)
(***************************************************************************)
EXTENDS Loader, FiniteSetTheorems, TLAPS

TypeOK ==
  /\ avail_pid \in Nat \ {0}
  /\ pid \in [Thread -> Nat] /\ tmp \in [Thread -> Nat]
  /\ tpc \in [Thread ->
                {"unborn", "assign", "read", "write", "body", "exited"}]
  /\ loaded \in [Thread -> BOOLEAN]
  /\ i \in Thread /\ lpc \in {"create", "join", "use", "finished"}
  /\ taken \in Seq(Nat)

Order ==
  /\ \A k \in Thread : pid[k] = 0 <=> tpc[k] \in {"unborn", "assign"}
  /\ \A k \in Thread : tpc[k] = "exited" => loaded[k]
  /\ lpc = "create" => \A k \in i .. NumProcesses : tpc[k] = "unborn"
  /\ lpc = "join" => \A k \in 1 .. i - 1 : tpc[k] = "exited"
  /\ lpc \in {"use", "finished"} => \A k \in Thread : tpc[k] = "exited"
  /\ Len(taken) = CASE lpc = "use" -> i - 1
                    [] lpc = "finished" -> NumProcesses
                    [] OTHER -> 0
  /\ \A k \in DOMAIN taken : taken[k] = pid[k]

Past == {k \in Thread : tpc[k] \in {"body", "exited"}}
Counted ==
  /\ avail_pid <= Cardinality(Past) + 1
  /\ \A k \in Thread : tpc[k] = "write" => tmp[k] <= Cardinality(Past) + 1

IInv == TypeOK /\ Order /\ Counted /\ PidsCounted

-----------------------------------------------------------------------------
(* The two sets of threads that the argument counts                        *)

(* Thread is finite, so its subsets can be counted.                        *)
LEMMA ThreadsFinite ==
  ASSUME NEW S \in SUBSET Thread
  PROVE  /\ IsFiniteSet(S) /\ Cardinality(S) \in Nat
         /\ Cardinality(S) <= NumProcesses
<1>1. IsFiniteSet(Thread) /\ Cardinality(Thread) = NumProcesses
  BY FS_Interval, NumProcessesAssumption DEF Thread
<1>2. QED
  BY <1>1, FS_Subset, FS_CardinalityType

(* One more thread, one more to count.                                     *)
LEMMA OneMore ==
  ASSUME NEW S \in SUBSET Thread, NEW k \in Thread, k \notin S
  PROVE  Cardinality(S \cup {k}) = Cardinality(S) + 1
BY ThreadsFinite, FS_AddElement

(* A larger set of threads counts at least as many.                        *)
LEMMA CountGrows ==
  ASSUME NEW S \in SUBSET Thread, NEW T \in SUBSET Thread, S \subseteq T
  PROVE  Cardinality(S) <= Cardinality(T)
BY ThreadsFinite, FS_Subset

(* A thread past its write of avail_pid has its pid already.               *)
LEMMA PastAreStarted ==
  ASSUME TypeOK, Order
  PROVE  Past \subseteq Started
BY DEF TypeOK, Order, Past, Started

-----------------------------------------------------------------------------
(* The invariant holds initially                                           *)

(* No thread exists at first.                                              *)
LEMMA InitIInv == Init => IInv
<1> SUFFICES ASSUME Init PROVE IInv
  OBVIOUS
<1>0. 1 \in Thread
  BY NumProcessesAssumption DEF Thread
<1>1. TypeOK
  BY <1>0 DEF Init, TypeOK
<1>2. Order
  BY <1>0 DEF Init, Order, Thread
<1>3. Counted
  <2>1. Past \in SUBSET Thread
    BY DEF Past
  <2>2. QED
    BY <2>1, ThreadsFinite DEF Counted, Init
<1>4. PidsCounted
  BY DEF PidsCounted, Started, Init
<1>5. QED
  BY <1>1, <1>2, <1>3, <1>4 DEF IInv

-----------------------------------------------------------------------------
(* The steps of a load thread                                              *)

(* proc->pid = avail_pid: the number is at most one more than the threads  *)
(* past their write, and this thread, which is not one of them, has just   *)
(* joined those that have a pid.                                           *)
LEMMA AssignPidIInv ==
  ASSUME IInv, NEW k \in Thread, AssignPid(k)
  PROVE  IInv'
<1> USE DEF IInv
<1>1. TypeOK'
  BY DEF TypeOK, AssignPid, Goto
<1>2. Order'
  BY <1>1 DEF TypeOK, Order, AssignPid, Goto, Thread
<1>3. Past' = Past
  BY DEF TypeOK, Past, AssignPid, Goto
<1>4. Counted'
  BY <1>3 DEF TypeOK, Counted, AssignPid, Goto
<1>5. k \notin Started /\ Started' = Started \cup {k}
  BY DEF TypeOK, Order, Started, AssignPid, Goto
<1>6. Cardinality(Started') = Cardinality(Started) + 1
  BY <1>5, OneMore DEF Started
<1>7. Cardinality(Past) <= Cardinality(Started)
  BY PastAreStarted, CountGrows DEF Past, Started
<1>8. Cardinality(Started) \in Nat /\ Cardinality(Past) \in Nat
  BY ThreadsFinite DEF Started, Past
<1>9. PidsCounted'
  <2> SUFFICES ASSUME NEW t \in Started'
               PROVE  pid'[t] <= Cardinality(Started')
    BY DEF PidsCounted
  <2>1. CASE t = k
    BY <2>1, <1>6, <1>7, <1>8 DEF AssignPid, TypeOK, Counted
  <2>2. CASE t # k
    <3>1. t \in Started /\ t \in Thread
      BY <2>2, <1>5 DEF Started
    <3>2. pid[t] <= Cardinality(Started) /\ pid[t] \in Nat
      BY <3>1 DEF PidsCounted, TypeOK
    <3>3. pid'[t] = pid[t]
      BY <2>2, <3>1 DEF AssignPid, TypeOK
    <3>4. QED
      BY <3>2, <3>3, <1>6, <1>8
  <2>3. QED
    BY <2>1, <2>2
<1>10. QED
  BY <1>1, <1>2, <1>4, <1>9

(* avail_pid++, its read.                                                  *)
LEMMA ReadAvailIInv ==
  ASSUME IInv, NEW k \in Thread, ReadAvail(k)
  PROVE  IInv'
<1> USE DEF IInv
<1>1. TypeOK'
  BY DEF TypeOK, ReadAvail, Goto
<1>2. Order'
  BY <1>1 DEF TypeOK, Order, ReadAvail, Goto, Thread
<1>3. Past' = Past /\ Started' = Started
  BY DEF TypeOK, Past, Started, ReadAvail, Goto
<1>4. Counted'
  BY <1>3 DEF TypeOK, Counted, ReadAvail, Goto
<1>5. PidsCounted'
  BY <1>3 DEF PidsCounted, ReadAvail
<1>6. QED
  BY <1>1, <1>2, <1>4, <1>5

(* avail_pid++, its write: it may set avail_pid back, but never beyond the *)
(* number of threads that have written.                                    *)
LEMMA WriteAvailIInv ==
  ASSUME IInv, NEW k \in Thread, WriteAvail(k)
  PROVE  IInv'
<1> USE DEF IInv
<1>1. TypeOK'
  BY DEF TypeOK, WriteAvail, Goto
<1>2. Order'
  BY <1>1 DEF TypeOK, Order, WriteAvail, Goto, Thread
<1>3. k \notin Past /\ Past' = Past \cup {k} /\ Started' = Started
  BY DEF TypeOK, Past, Started, WriteAvail, Goto
<1>4. Cardinality(Past') = Cardinality(Past) + 1 /\ Cardinality(Past) \in Nat
  BY <1>3, OneMore, ThreadsFinite DEF Past
<1>5. Counted'
  BY <1>4 DEF TypeOK, Counted, WriteAvail, Goto
<1>6. PidsCounted'
  BY <1>3 DEF PidsCounted, WriteAvail
<1>7. QED
  BY <1>1, <1>2, <1>5, <1>6

(* The end of load and of the thread.                                      *)
LEMMA FinishLoadIInv ==
  ASSUME IInv, NEW k \in Thread, FinishLoad(k)
  PROVE  IInv'
<1> USE DEF IInv
<1>1. TypeOK'
  BY DEF TypeOK, FinishLoad, Goto
<1>2. Order'
  BY <1>1 DEF TypeOK, Order, FinishLoad, Goto, Thread
<1>3. Past' = Past /\ Started' = Started
  BY DEF TypeOK, Past, Started, FinishLoad, Goto
<1>4. Counted'
  BY <1>3 DEF TypeOK, Counted, FinishLoad, Goto
<1>5. PidsCounted'
  BY <1>3 DEF PidsCounted, FinishLoad
<1>6. QED
  BY <1>1, <1>2, <1>4, <1>5

-----------------------------------------------------------------------------
(* The steps of the loader                                                 *)

(* Creating the threads in order: the next one is not born yet.            *)
LEMMA CreateThreadIInv ==
  ASSUME IInv, CreateThread
  PROVE  IInv'
<1> USE DEF IInv
<1>1. TypeOK'
  BY NumProcessesAssumption
  DEF TypeOK, CreateThread, Iterate, Goto, Thread
<1>2. tpc[i] = "unborn"
  BY NumProcessesAssumption DEF TypeOK, Order, CreateThread, Thread
<1>3. Order'
  BY <1>1, <1>2, NumProcessesAssumption
  DEF TypeOK, Order, CreateThread, Iterate, Goto, Thread
<1>4. Past' = Past /\ Started' = Started
  BY <1>2 DEF TypeOK, Past, Started, CreateThread, Goto
<1>5. Counted'
  BY <1>4 DEF TypeOK, Counted, CreateThread, Goto
<1>6. PidsCounted'
  BY <1>4 DEF PidsCounted, CreateThread
<1>7. QED
  BY <1>1, <1>3, <1>5, <1>6

(* pthread_join: once the loop is over, all threads have exited.           *)
LEMMA JoinThreadIInv ==
  ASSUME IInv, JoinThread
  PROVE  IInv'
<1> USE DEF IInv
<1>1. TypeOK'
  BY NumProcessesAssumption DEF TypeOK, JoinThread, Iterate, Thread
<1>2. Order'
  BY <1>1, NumProcessesAssumption
  DEF TypeOK, Order, JoinThread, Iterate, Thread
<1>3. Past' = Past /\ Started' = Started
  BY DEF Past, Started, JoinThread
<1>4. Counted'
  BY <1>3 DEF Counted, JoinThread
<1>5. PidsCounted'
  BY <1>3 DEF PidsCounted, JoinThread
<1>6. QED
  BY <1>1, <1>2, <1>4, <1>5

(* Reading load_args_array[i].proc: the thread has exited, so it is there. *)
LEMMA UseProcessIInv ==
  ASSUME IInv, UseProcess
  PROVE  IInv'
<1> USE DEF IInv
<1>1. loaded[i] /\ taken' = Append(taken, pid[i])
  BY DEF TypeOK, Order, UseProcess
<1>2. TypeOK'
  BY <1>1, NumProcessesAssumption DEF TypeOK, UseProcess, Iterate, Thread
<1>3. Order'
  <2>1. Len(taken) = i - 1 /\ Len(taken') = i
    BY <1>1 DEF TypeOK, Order, UseProcess, Thread
  <2>2. \A k \in DOMAIN taken' : taken'[k] = pid[k]
    BY <1>1, <2>1 DEF TypeOK, Order, Thread
  <2>3. QED
    BY <1>2, <2>1, <2>2, NumProcessesAssumption
    DEF TypeOK, Order, UseProcess, Iterate, Thread
<1>4. Past' = Past /\ Started' = Started
  BY DEF Past, Started, UseProcess
<1>5. Counted'
  BY <1>4 DEF Counted, UseProcess
<1>6. PidsCounted'
  BY <1>4 DEF PidsCounted, UseProcess
<1>7. QED
  BY <1>2, <1>3, <1>5, <1>6

-----------------------------------------------------------------------------
(* Every step keeps the invariant                                          *)

(* Every step preserves the invariant.                                     *)
LEMMA NextIInv == IInv /\ [Next]_vars => IInv'
<1> SUFFICES ASSUME IInv, [Next]_vars PROVE IInv'
  OBVIOUS
<1>1. ASSUME NEW k \in Thread, LoadStep(k) PROVE IInv'
  BY <1>1, AssignPidIInv, ReadAvailIInv, WriteAvailIInv, FinishLoadIInv
  DEF LoadStep
<1>2. CASE CreateThread
  BY <1>2, CreateThreadIInv
<1>3. CASE JoinThread
  BY <1>3, JoinThreadIInv
<1>4. CASE UseProcess
  BY <1>4, UseProcessIInv
<1>5. CASE UNCHANGED vars
  BY <1>5 DEF vars, IInv, TypeOK, Order, Counted, PidsCounted, Past, Started
<1>6. QED
  BY <1>1, <1>2, <1>3, <1>4, <1>5 DEF Next, Finished

-----------------------------------------------------------------------------
(* Theorems                                                                *)

(* The inductive invariant holds in every reachable state.                 *)
THEOREM Invariance == Spec => []IInv
BY InitIInv, NextIInv, PTL DEF Spec

(* The race on avail_pid loses increments but invents no number: a pid is  *)
(* at most the number of threads that have one.                            *)
THEOREM PidsCountedCorrect == Spec => []PidsCounted
<1>1. IInv => PidsCounted
  BY DEF IInv
<1>2. QED
  BY <1>1, Invariance, PTL

(* The loader reads each process after its thread has filled it in, in the *)
(* order of the configuration, and with a pid between 1 and the number of  *)
(* processes.                                                              *)
THEOREM TakenAreLoadedCorrect == Spec => []TakenAreLoaded
<1>1. ASSUME IInv PROVE TakenAreLoaded
  <2> SUFFICES ASSUME NEW k \in DOMAIN taken
               PROVE  taken[k] = pid[k] /\ taken[k] \in 1 .. NumProcesses
    BY DEF TakenAreLoaded
  <2>1. k \in Thread /\ tpc[k] = "exited" /\ taken[k] = pid[k]
    BY <1>1, NumProcessesAssumption DEF IInv, TypeOK, Order, Thread
  <2>2. k \in Started
    BY <1>1, <2>1 DEF IInv, TypeOK, Order, Started
  <2>3. Started \in SUBSET Thread
    BY DEF Started
  <2>4. pid[k] # 0 /\ pid[k] \in Nat
    BY <1>1, <2>1, <2>2 DEF IInv, TypeOK, Started
  <2>5. pid[k] <= Cardinality(Started)
    BY <1>1, <2>2 DEF IInv, PidsCounted
  <2>6. Cardinality(Started) \in Nat /\ Cardinality(Started) <= NumProcesses
    BY <2>3, ThreadsFinite
  <2>7. QED
    BY <2>1, <2>4, <2>5, <2>6, NumProcessesAssumption
<1>2. QED
  BY <1>1, Invariance, PTL
=============================================================================
