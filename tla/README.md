# A TLA+ model of the operating system simulator

The program is a simulator in C: a few CPU threads and a loader thread advance
in time slots, CPUs take processes from a multi-level queue and run one
instruction per slot, and the instructions allocate, free, read and write paged
memory. The model is of the build that the Makefile and `include/os-cfg.h`
produce: `MLQ_SCHED` and `MM_PAGING` on, `CPU_TLB` off, no optimisation.

## The system

| Component | State | Operations | Interacts with |
|---|---|---|---|
| Slot timer (`timer.c`) | `dev_list` of containers (`done`, `fsh`, two mutexes, two condition variables), `_time`, `timer_stop` | `attach_event`, `start_timer`, `timer_routine`, `next_slot`, `detach_event`, `current_time`, `stop_timer` | every CPU and the loader block in `next_slot`; `main` starts and stops it |
| Ready queues (`queue.c`, `sched.c`) | one bounded array per priority, a `slot` budget per level, `queue_lock` | `get_proc`, `put_proc`, `add_proc` | called by the CPUs and the loader |
| main (`os.c`) | the configuration, the threads | `main`, `read_config` | attaches the devices, starts the timer, creates and joins the threads |
| CPU threads (`os.c`) | locals `proc`, `time_left` of each CPU | `cpu_routine` | scheduler, timer, `run` |
| Loader (`os.c`, `loader.c`) | `load_args_array`, `avail_pid`, the flag `done` | `ld_routine`, `load_proc`, `load` | its load threads, timer, scheduler; the CPUs read `done` |
| Interpreter (`cpu.c`) | the `pc` of a process | `run` | regions and pages |
| Memory regions (`mm-vm.c`) | `symrgtbl`, `vm_freerg_list`, `sbrk`, `vm_end` of a process | `__alloc`, `__free` | asks the frame allocator for pages |
| Bytes (`mm-memphy.c`, `mm.c`) | `storage` of RAM and of swap | `MEMPHY_read`, `MEMPHY_write`, `__swap_cp_page` | reads, writes and page faults |
| Pages and frames (`mm.c`, `mm-memphy.c`, `mm-vm.c`) | free and used frame lists of RAM and swap (shared, `lock_mem`), page table and `fifo_pgn` of a process | `alloc_pages_range`, `vmap_page_range`, `pg_getpage` | all processes share RAM and the active swap |

What is hard: the timer protocol uses two mutexes for one flag; CPUs leave for
good while the loader may still add work; a process moves between CPUs through
the queues; load threads share a counter without a lock; frames are taken in
separate critical sections by several processes; and list surgery over long
sequences of allocations. `PROJECT.json` lists each hazard at its line.

What makes each part correct:

* timer: devices move in lock step, no wake-up is lost, every slot ends, the
  clock is stable while it is read, the timer outlives its devices;
* scheduler: no process is held twice or lost, order within a level, priority
  between levels within the slot budget, no starvation, no idling while a
  process is ready;
* CPUs and loader: exact time slices, no process before its start time or twice
  in a slot, no CPU that leaves work behind, every process finishes;
* regions: no byte has two owners, none is lost, free space is coalesced,
  every byte of a region is on a mapped page;
* frames: none has two owners, none goes out of use but in known ways, moving
  pages keeps their data;
* bytes: what is written to a register stays there until something is written
  on it, whatever else the process and the others do.

## The modules

| Module | Models |
|---|---|
| `SlotBarrier` | what the timer promises: the abstract specification |
| `Timer` | `timer.c` with the device threads and `main` around it; implements `SlotBarrier` |
| `TimerProofs` | proofs about `Timer` |
| `Sched` | the actions of `queue.c` and `sched.c` on their own variables |
| `Dispatcher` | `Sched` with the most general client: the abstract specification of how CPUs and loader use it |
| `Bypass` | `Dispatcher` with two history variables: how often a level is passed over, and which queued processes of its level were there before a process |
| `SchedProofs` | lemmas about the operations of `Sched`, for the two modules that use them |
| `DispatcherProofs` | proofs about `Dispatcher` and `Bypass` |
| `OS` | `main` from `start_timer` on, `cpu_routine`, `ld_routine` and the load threads as far as they are created, exit and are joined, on top of `Sched` and an instance of `SlotBarrier`; implements `Dispatcher` |
| `OSProofs` | proofs about `OS` |
| `Loader` | what the load threads do to each other (`avail_pid`) in the first two loops of `ld_routine` |
| `LoaderProofs` | proofs about `Loader` |
| `VmRegion` | regions and the free list of one process |
| `VmRegionProofs` | proofs about `VmRegion` |
| `Paging` | frames, page tables and replacement, several processes |
| `PagingProofs` | proofs about `Paging`, and that the bits of `PageTable` are what it takes them for |
| `Memory` | the instructions of one process down to the bytes: `VmRegion` for its regions on top of `Paging`, which it shares with the other processes; implements `VmRegion` |
| `MemoryProofs` | proofs about `Memory` |
| `PageTable` | the bits of a page table entry |

```
  Timer ==implements==> SlotBarrier <--INSTANCE-- OS ==implements==> Dispatcher
                                                  |                   |    |
                                                Sched <----EXTENDS----'  Bypass
  Loader (inside OS's load threads)

  Memory ==implements==> VmRegion (one process; its actions are Memory's)
     '-----EXTENDS-----> Paging (all processes) ..entries as in.. PageTable
```

Names are those of the source. A critical section of a mutex is one step;
blocking in `pthread_cond_wait` ends a step. Variables marked *history* exist in
the model only. An operator introduced by a comment that begins with *Variant*
is not part of any specification: it is the definition after it with a
plausible mistake, and `PROJECT.json` names the property that notices it.

* **Timer.** `tpc` and the cursor `temp` say where `timer_routine` is; `dpc`
  says where a device is: `run` (working in its slot), `arrived` (before or in
  the test of `next_slot`'s second loop), `parked` (blocked), `gone`. Signals to
  nobody are lost and spurious wake-ups may occur at any time. Containers are
  numbered in the order in which they were attached, so the list is `N, ..., 1`.
* **Sched / Dispatcher.** A queue is a sequence; `get_mlq_proc` is one action
  with its two scans and the reset of the slots between them. `prio` is any
  function to the levels and stays fixed once a process is added.
* **OS.** One action per branch of `cpu_routine`; the label `recheck` is the
  unlocked read of `done`. Between `put_proc` or `free` and the next `get_proc`
  (`get`) the local `proc` dangles; the refinement mapping says that the CPU
  has no process then. A thread takes steps once `main` has created it, while
  the timer, which started earlier, already waits for its device. The time
  slice is any number of the configuration; with 0 the count goes below zero,
  as in the code.
* **Loader.** `avail_pid` is read, read again and written, as unoptimised code
  does it, in any interleaving.
* **VmRegion.** Regions are pairs of bounds, a list is the sequence of its
  nodes' regions. Deletion copies the successor into a node. A deletion that
  works on a freed node is modelled by what the allocator leaves in it. The
  history `holes` records the pages that a failed `inc_vma_limit` left out.
* **Paging.** `alloc_pages_range` is one step per critical section, so two
  processes interleave frame by frame. The contents of a frame are the page
  whose data it holds. Reads and writes may touch any page, mapped or not,
  because the bounds check admits one byte too many and regions may exist
  without pages. A page table entry keeps the bits that `PAGING_FPN` reads. The
  end of a process (`Exit`) is `cpu_routine`'s `free(proc)`, which gives nothing
  back: its page table stays, out of reach, and the frames in it stay taken. Three
  histories say how frames go out of use: `lost` and `spent` by a failed
  allocation or a second mapping of a page, `spent` also by page faults, and
  `orphaned` has the entries in the page tables of the processes that have ended.
* **Memory.** `mapped`, `limit` and the request under way stand for the `pages`
  and `vm_end` of `VmRegion`; an allocation that needs pages is one action that
  asks for them, the steps of `Paging` that get them, and one that finishes in
  the same way whether they came or not. Reads and writes are those of the
  registers. Instructions move bytes and never look at them, so it is enough to
  follow one byte: it is `Mark` when the write that is followed put it there.
  `kept` says that this write reached its byte and that no other one was meant
  for it or reached it since. The module says exactly which byte each error of
  the code reaches, and `BytesKept` that it reaches no other; a write that is
  dropped, or that goes astray, is not itself caught by it. The process that is
  followed does not end; the others may.
* **PageTable.** A number is the set of the places of its 1 bits, which makes
  masks and shifts into set operations.

## What the runs check

| Run | Question | States |
|---|---|---|
| `timer` | `TypeOK`, `Lockstep`, `NoLostWakeup`, `TimerExitsLast`, `ClockStable`; liveness `EverySlotEnds`, `Shutdown`; refinement `ImplementsBarrier` | 3 devices of up to 2 slots |
| `dispatcher` | `OneHolder`, `NoProcessLost`, `FIFOWithinLevel`, `PriorityRespected`, `WorkConserving`, `NoStarvation`, `BoundedBypass` | about 56 000 |
| `os` | `SliceExact`, `SlotZeroWaits`, `NoAbandonedWork`, `FullSliceBeforePreemption`, `AddedOnTime`, `OneInstructionPerSlot`; liveness `EveryProcessFinishes`; refinement `ImplementsDispatcher` | about 426 000 |
| `loader` | `TakenAreLoaded`, `PidsCounted`, `LoadingEnds` | 3 load threads |
| `vmregion` | `BytesOwnedOnce`, `NoByteLost`, `Coalesced`, `Backed` | about 190 000 |
| `paging` | `FrameOwnedOnce`, `SwapOwnedOnce`, `NoFrameVanishes`, `UsedAreTaken`, `SwappingKeepsData` | about 735 000 |
| `memory` | `BytesKept`, refinement `ImplementsRegions` | about 522 000 |

Five runs show where the code departs from what its comments and outputs say:

* `os_idle_cpu`: a CPU that never gets a process does not look at `done`
  (`os.c:79`), skips slots for ever, and `main` never gets past its joins.
* `os_queue_full`: `add_proc` to a full queue drops the process (`queue.c:14`).
* `loader_race`: two processes get the same pid (`loader.c:35`).
* `vm_overlap`: allocate A, B, C, free A, C, B, allocate twice: the two regions
  overlap, because the merge of three neighbours deletes a freed node
  (`mm-vm.c:76`).
* `paging_stale`: a read or write of a page in swap lands in another frame, because the
  frame number comes from the old page table entry (`mm-vm.c:316`).

### Bounds, and why they suffice

* Three devices give the timer a first, a middle and a last container; two slots
  let one device be a whole slot ahead of a release that is still going on.
  Beyond that the proofs cover any number.
* Three levels have budgets 3, 2 and 1, so that a level runs out while others
  have slots and the reset happens at different fillings. Three processes on two
  CPUs put two in one queue while a third runs. `Bypass` counts up to one past
  the number that `BoundedBypass` allows.
* In `os` slices of 1 make every slot a preemption, slices of 2 tell a fresh
  slice from one half used, and a slice of 0 never ends; sizes 1 and 3 finish
  within a slice and after several. Three processes on two CPUs leave one in the
  queue. There is one level: what levels do is the business of `dispatcher`, and
  `ImplementsDispatcher` says that `os.c` stays within it. Start times 0 and 1
  let a process come due at once, later, and behind an earlier one. Clock values
  beyond the last slot in which a process is added (`Horizon`) are not
  distinguished: nothing reads them. `os_queue_full` uses the capacity of the
  source, 10.
* Two RAM and four swap frames for two processes of up to three pages: RAM runs
  out within a request, swap runs out in a request and in a page fault, and a
  page can be replaced several times. A process asks for at most 2 pages at once.
* Pages of 2 bytes, requests of 1 to 3, an area of up to 6 bytes: requests end
  before, at and after a page boundary, and three registers suffice for a
  region between two free ones. After a node was used after its free only
  allocations are followed, and the data is not followed after `pg_getpage` has
  used an uninitialised frame number.
* In `memory` one process with two registers shares three RAM and two swap
  frames with one other of up to two pages. The third RAM frame matters: a stray
  access goes to a multiple of 32, here frame 0, and with three frames that one
  can belong to the other process. Pages of 2 bytes and requests of 1 and 8 put
  regions inside a page and across four; the offsets 0, 5 and 7 that are
  followed are the first, one in a later page and the last of a large region. A
  size of 8 needs more frames than there may be, so allocations fail halfway. A
  register is allocated again only when it is free, and nothing is followed after
  a freed list node or an uninitialised swap frame was used. Which page's data a
  frame holds (`ram`, `swp` and the histories of `Paging`) does not steer any step
  here, so the `VIEW` leaves it out.
* Where deadlock is not checked (`vmregion`, `paging`, `paging_stale`, `memory`)
  programs may end: all processes have ended, or the bounds on the area and on
  swap use stop the model.
* Symmetry is used only in runs without liveness.

### Fairness

Threads are fair: POSIX threads that can run eventually do. In `Timer` that is
weak fairness of main, of the timer and of each device; a device in `run` calls
`next_slot` or `detach_event` in finite time, since an instruction is finite
(and stops after `MaxSlots`). Spurious wake-ups get no fairness. In `OS` each
thread (`main`, the CPUs, the loader and the load threads) is weakly fair and the clock only advances as `SlotBarrier` promises,
which is what `Timer` is checked to implement. In `Dispatcher` a CPU keeps
asking for processes and giving them back.

## What is proved

TLAPS checks the following for every value of the constants, from the
assumptions on constants that the modules state and name. In each module
`Invariance` shows that `IInv` is inductive (in `MemoryProofs`, which has those of
`Paging` in scope, `MemoryInvariance` and `MemoryInv`), and the other theorems are
drawn from it. None of the properties is inductive alone; what has to be added is the
substance of the argument.

**Timer** (from `N` positive and `MaxSlots` natural). That the timer leaves last
needs that `nfsh = nevent` means that all devices behind the cursor have
detached (`ScanInv`); that needs that the flags say what the threads do
(`FlagInv`) and that the list is complete while threads exist (`MainInv`); and
lock step needs how many slots each device has finished relative to the clock,
which in the release loop depends on the side of the cursor it is on
(`SlotInv`). From it follow `TypeCorrect`, `LockstepCorrect`, `WakeupsCorrect`,
`ExitCorrect`, `ClockStableCorrect` and `BarrierSafety`: every step of the
timer maps to a step of `SlotBarrier` or to a stutter.

**Dispatcher** (from `NoProc` not a process, at least one level, any capacity).
`OneHolder` is inductive together with the types and with the fact that a
process not yet added is not live. The lemmas `EnqueueEffect`, `HeadIsTaken`
and `GetProcEffect` say what the operations do to a queue: because all
processes of a queue have the priority of its level, the search in `dequeue`
ends at the head. `PriorityCorrect` and
`WorkConservingCorrect` are about the two scans. `NoLossCorrect` adds the
assumption that the processes are finitely many and no more than a queue holds;
without it the run `os_queue_full` is the counterexample.

**Bypass** (the same assumptions). `BoundedBypassCorrect`: a waiting level is
passed over at most as often as the other levels have slots, before and after
one reset, for any number of levels, processes and CPUs. The bound is a sum over
the levels. The sums are recursive functions, and the lemmas about them
(`AboveSums`, `SumsDiffer`, `FewerSlots`, `OneSlotLess`, `MostIsEnough`) are by
induction in the form of a minimal counterexample (`NoFirst`), which needs no
operator as a parameter. The invariant is the bound on what was passed over and
what the slots still allow together; `OneServed` and `ResetLeavesNoMore` are
its two interesting steps. `FIFOCorrect`: no process leaves a level before one
that came to it earlier. The history `ahead` has, of each queued process, those that were
in its queue when it arrived and have not left; the invariant `Ordered` says that these
are exactly the ones before it in the array, which `PutOrder` shows of `enqueue`
and `TakeOrder` of a `dequeue` that closes the gap. (Both theorems are about
`BypassSafeSpec`, the specification without its fairness.)

**OS** (from: there are CPUs and the loader is not one of them; the processes are
numbered from 1 and finitely many; start times are naturals and one of them is
the last; slices are naturals, 0 included). `IInv` has nine parts: types; the
queues (`QueueInv`); that the barrier knows of a thread what its label says
(`Control`); what the load threads have left when the loader goes on
(`Loaded`); that a pcb is in the queues or with one CPU until it is freed
(`Holders`, with a process between `put_proc` or `free` and `get_proc` counted
as no longer held); what is left of a slice at each label (`Slices`); who has
run in this slot (`Ran`); the slot in which the loader's next process is due
(`OnTime`); and that once the loader has nothing more to add, CPUs that have
found no process leave empty queues behind (`Over`). From it follow
`SliceExactCorrect`, `SlotZeroWaitsCorrect`, `NoAbandonedWorkCorrect`,
`FullSliceCorrect`, `OneInstructionCorrect` and `AddedOnTimeCorrect`, and
`DispatcherImplemented`: every step maps to a step of `Dispatcher` or to a
stutter, so what is proved of `Dispatcher`'s safety holds of `os.c`.
`AddedIsKeptCorrect` says that the loss of the run `os_queue_full` needs more
processes than a queue has places: with `num_processes <= MAX_QUEUE_SIZE` no
process that was added is dropped.

**Loader** (from at least one process). `PidsCountedCorrect` and
`TakenAreLoadedCorrect`, whatever the race on `avail_pid` does. Nothing in
`PidsCounted` bounds what a thread is about to write; `Counted` bounds
`avail_pid`, and every value that was read from it and not yet written back, by
the number of threads that are past their write.

**VmRegion** (from a positive page size, sizes and bounds naturals). The argument
follows single bytes: below `sbrk` a byte is of exactly one register, or of
exactly one node of the free list, or leaked (`Space`); the nodes of the list
keep apart from each other, with the dummy at the end (`FreeList`); and the
pages of the area are mapped or holes (`Area`). Each branch of `__alloc` and
`__free` is one of four operations on the list, each with a lemma that says which
bytes go in and out. From it follow `BytesOwnedOnceCorrect`,
`NoByteLostCorrect`, `CoalescedCorrect` and `BackedCorrect`, as long as no freed
node was used: the run `vm_overlap` is what happens after that.

**Paging** (from at least one frame of each kind, bounds naturals). RAM and swap
are kept in the same way, so the argument is made once: the *account* of a
memory has the list of its free frames, the lists of the processes that are
allocating, the frame of each page and the frames that are gone, and each frame
is in exactly one of these. A step of `Paging` is one of five operations on an
account, or leaves it alone. With what a request still has to get (`Requests`)
and the fact that a mapped page never loses its entry (`MappedHaveEntries`) it
is inductive, and gives `FrameOwnedOnceCorrect`, `SwapOwnedOnceCorrect`,
`NoFrameVanishesCorrect`, `UsedAreTakenCorrect` and `SwappingKeepsDataCorrect`,
for any number of processes, frames and pages. The account of the swap holds
until an uninitialised frame number was used, as the properties say. The end of
a process changes no account: `Orphans` says that `orphaned` is what is in the
page tables of the ended processes, and `NoFrameVanishes` follows because the
only holder of a frame is then a page of one of them (`AliveHolders`).

**Memory** (from the assumptions of `Paging`, positive numbers of pages and bytes,
and a followed process, register and offset that exist). Every step of `Memory`
is one of `Paging` on the variables the two share, so `Paging`'s `IInv` and the
account of the frames hold here as well. `MemoryInv` adds that all regions and the
free list lie below `sbrk` (`Below`), that the request under way is the one that
`__alloc` computed, in whole pages (`Asked`), that `vm_end` is the break rounded
up until the area has outgrown the RAM (`Limit`), the types of the bytes, and that while
the followed byte is `kept` it lies in its register and on a page with an entry
(`Backed`), and `BytesKept` itself. A page fault keeps the bytes because the account
says that the page, its victim and the followed page are in different frames
(`FaultKeepsBytes`). `BytesKeptCorrect` and `RegionsImplemented` follow: the step that
finishes an allocation (`AllocFinish`) is `VmRegion`'s growth of the area,
the steps of `Paging` in between are stutters, and every other instruction maps to
itself. So what is proved of the regions alone holds with the frames, the failed
requests and the other processes around them.

**PageTable** (no assumption but the width of the numbers). `FrameEntry` and
`SwapEntry` say that whatever an entry was, `pte_set_fpn` and `pte_set_swap` make
it one that says where its page is and gives the frame back, for frames of up
to 13 bits in RAM and 21 in swap; the lemma `SetThenGet` is what they rest on.
`StaleFrameNumber` says which frame number `pg_getpage` takes from the entry of
a page in swap: `(n % 256) * 32`, as `PAGING_FPN` of `Paging` has it.

### What is only model-checked

* Liveness, which is beyond this prover, as is `ENABLED`: `EverySlotEnds`,
  `Shutdown`, `NoStarvation`, `EveryProcessFinishes`, `LoadingEnds`, and the
  fairness half of `ImplementsBarrier`.

Every safety property that a passing run checks, and every refinement as far as
it is safety, is a theorem.

No module declares a `RECURSIVE` operator, so each of them remains open to proofs.

## What is not modelled

* The TLB (`cpu-tlb.c`, `cpu-tlbcache.c`: switched off), the old memory
  (`mem.c`, `paging.c`: its operations are emptied out and change nothing) and
  the scheduler without MLQ: not part of the build's behaviour.
* Parsing of the configuration and of programs, and all printing and dumping.
* The values of bytes: `Memory` follows one byte of one register, and `Paging`
  whole pages. A stray access beyond the end of RAM has no effect in the models.
* The program of a process: `Memory` takes every sequence of instructions, and
  `OS` sees of an instruction only that the pc moves on.
* Sequential memory devices, `MEMPHY_put_freefp`, `free_pcb_memph`, `init_pte` and
  `delist_pgn_node`: nothing configures or calls them.
* Assumed of inputs: a `prio` below `MAX_PRIO`, registers inside `symrgtbl`,
  memories of more than one frame, and a RAM of at most 8192 frames, which is
  what an entry can number.
* Assumed of the platform: word accesses to the flags `done`, `fsh` and
  `_time` are atomic, and the fields that `init_mm` does not set are zero, as
  they are on the fresh heap arena of the loader's thread.

## Plan

1. Done: timer and barrier, scheduler, `main`, CPUs, loader and load threads,
   regions, frames and pages, the memory that a program sees.
2. Done: proofs of all their safety properties and of the safety part of the three
   refinements `Timer` of `SlotBarrier`, `OS` of `Dispatcher` and `Memory` of
   `VmRegion`.
3. Next: theorems that carry the properties of `Dispatcher` to `OS` and those of
   `VmRegion` to `Memory` along these refinements by name, and what can be said of
   progress without fairness: for how many slots a process can wait at most.
