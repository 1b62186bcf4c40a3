------------------------------- MODULE Loader -------------------------------
(***************************************************************************)
(* Loading the processes (ld_routine of src/os.c up to its joins, and load *)
(* of src/loader.c): one thread per process, all at once.                  *)
(*                                                                         *)
(* load numbers the processes with the static variable avail_pid, which no *)
(* lock protects:                                                          *)
(*     proc->pid = avail_pid;  avail_pid++;                                *)
(* The build has no optimisation, so these are two reads and one write of  *)
(* memory, with the other threads' in between in any order.                *)
(***************************************************************************)
EXTENDS Integers, Sequences, FiniteSets

CONSTANT NumProcesses

ASSUME NumProcessesAssumption == NumProcesses \in Nat \ {0}

Thread == 1 .. NumProcesses    \* the load thread of each process

VARIABLES
  avail_pid,
  pid,        \* proc->pid, 0 before it is assigned
  tmp,        \* the value each thread read for avail_pid++
  tpc,        \* where each load thread is
  loaded,     \* load_args_array[k].proc is set
  i, lpc,     \* the loader: its local i, and which loop it is in
  taken       \* history: what the loader read from load_args_array

vars == <<avail_pid, pid, tmp, tpc, loaded, i, lpc, taken>>

Init ==
  /\ avail_pid = 1
  /\ pid = [k \in Thread |-> 0] /\ tmp = [k \in Thread |-> 0]
  /\ tpc = [k \in Thread |-> "unborn"]
  /\ loaded = [k \in Thread |-> FALSE]
  /\ i = 1 /\ lpc = "create"
  /\ taken = <<>>

-----------------------------------------------------------------------------
(* load                                                                    *)

Goto(k, label) == tpc' = [tpc EXCEPT ![k] = label]

AssignPid(k) ==
  /\ tpc[k] = "assign"
  /\ pid' = [pid EXCEPT ![k] = avail_pid]
  /\ Goto(k, "read")
  /\ UNCHANGED <<avail_pid, tmp, loaded, i, lpc, taken>>

ReadAvail(k) ==
  /\ tpc[k] = "read"
  /\ tmp' = [tmp EXCEPT ![k] = avail_pid]
  /\ Goto(k, "write")
  /\ UNCHANGED <<avail_pid, pid, loaded, i, lpc, taken>>

(* Variant: the number is counted twice.                                   *)
WriteAvailTwice(k) ==
  /\ tpc[k] = "write"
  /\ avail_pid' = tmp[k] + 2
  /\ Goto(k, "body")
  /\ UNCHANGED <<pid, tmp, loaded, i, lpc, taken>>

WriteAvail(k) ==
  /\ tpc[k] = "write"
  /\ avail_pid' = tmp[k] + 1
  /\ Goto(k, "body")
  /\ UNCHANGED <<pid, tmp, loaded, i, lpc, taken>>

(* The rest of load reads the code; load_proc stores the result and exits. *)
FinishLoad(k) ==
  /\ tpc[k] = "body"
  /\ loaded' = [loaded EXCEPT ![k] = TRUE]
  /\ Goto(k, "exited")
  /\ UNCHANGED <<avail_pid, pid, tmp, i, lpc, taken>>

LoadStep(k) == AssignPid(k) \/ ReadAvail(k) \/ WriteAvail(k) \/ FinishLoad(k)

-----------------------------------------------------------------------------
(* ld_routine                                                              *)

(* The next iteration of a loop over the processes, or the next loop.      *)
Iterate(next) ==
  IF i < NumProcesses
  THEN i' = i + 1 /\ UNCHANGED lpc
  ELSE i' = 1 /\ lpc' = next

(* Variant: the loop misses the first process.                             *)
CreateThreadFromSecond ==
  /\ lpc = "create"
  /\ IF i = 1 THEN UNCHANGED tpc ELSE Goto(i, "assign")
  /\ Iterate("join")
  /\ UNCHANGED <<avail_pid, pid, tmp, loaded, taken>>

CreateThread ==
  /\ lpc = "create"
  /\ Goto(i, "assign")
  /\ Iterate("join")
  /\ UNCHANGED <<avail_pid, pid, tmp, loaded, taken>>

(* Variant: the loader does not wait for the thread.                       *)
JoinThreadNoWait ==
  /\ lpc = "join"
  /\ Iterate("use")
  /\ UNCHANGED <<avail_pid, pid, tmp, tpc, loaded, taken>>

JoinThread ==
  /\ lpc = "join" /\ tpc[i] = "exited"
  /\ Iterate("use")
  /\ UNCHANGED <<avail_pid, pid, tmp, tpc, loaded, taken>>

(* struct pcb_t * proc = load_args_array[i].proc, and on with that process *)
(* (OS.tla).                                                               *)
UseProcess ==
  /\ lpc = "use"
  /\ taken' = Append(taken, IF loaded[i] THEN pid[i] ELSE 0)
  /\ Iterate("finished")
  /\ UNCHANGED <<avail_pid, pid, tmp, tpc, loaded>>

Finished == lpc = "finished" /\ UNCHANGED vars

Next ==
  \/ \E k \in Thread : LoadStep(k)
  \/ CreateThread \/ JoinThread \/ UseProcess
  \/ Finished

Fairness ==
  /\ \A k \in Thread : WF_vars(LoadStep(k))
  /\ WF_vars(CreateThread \/ JoinThread \/ UseProcess)

Spec == Init /\ [][Next]_vars /\ Fairness

-----------------------------------------------------------------------------
(* Properties                                                              *)

(* Whatever the race does, the loader gets a process with a valid pid for  *)
(* every entry of the configuration, in order; it never reads an entry its *)
(* thread has not filled yet.                                              *)
TakenAreLoaded ==
  \A k \in DOMAIN taken : taken[k] = pid[k] /\ taken[k] \in 1 .. NumProcesses

(* The race can lose increments but never numbers of its own: a pid is at  *)
(* most the number of threads that have read avail_pid so far.             *)
Started == {k \in Thread : pid[k] # 0}
PidsCounted ==
  \A k \in Started : pid[k] <= Cardinality(Started)

(* The loading ends.                                                       *)
LoadingEnds == <>(lpc = "finished")

(* Every process has a process number of its own.                          *)
DistinctPids ==
  \A j, k \in Thread :
    loaded[j] /\ loaded[k] /\ pid[j] = pid[k] => j = k
=============================================================================
