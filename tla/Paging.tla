------------------------------- MODULE Paging -------------------------------
(***************************************************************************)
(* The shared memory under the processes: the frames of RAM and of the     *)
(* active swap (src/mm-memphy.c), the page tables that use them (src/mm.c) *)
(* and the replacement of pages (pg_getpage and find_victim_page of        *)
(* src/mm-vm.c).  The processes run on several CPUs at once; what they do  *)
(* to their pages is the most general client: inc_vma_limit asks for some  *)
(* pages, and reads and writes touch any page.  (Not only mapped ones: an  *)
(* offset may be the size of its region, and a register gets its region    *)
(* even when the limit could not grow.)                                    *)
(*                                                                         *)
(* Granularity.  MEMPHY_get_freefp and MEMPHY_put_usedfp are the critical  *)
(* sections of lock_mem and are a step each.  The page table and fifo_pgn  *)
(* belong to one process; pg_getpage calls get_freefp once and else copies *)
(* frames of its own process, so it is one step.                           *)
(*                                                                         *)
(* The contents of a frame are the page whose data it holds.               *)
(***************************************************************************)
EXTENDS Integers, SequencesExt, FiniteSetsExt

CONSTANTS Proc,
          RamFrames, SwapFrames,  \* number of frames of mram and active_mswp
          MaxPgn,                 \* bound: pages of a process
          MaxReq                  \* bound: pages asked for at once

ASSUME FramesAssumption ==
  RamFrames \in Nat \ {0} /\ SwapFrames \in Nat \ {0}
ASSUME BoundsAssumption == MaxPgn \in Nat /\ MaxReq \in Nat

RamFrame == 0 .. RamFrames - 1
SwapFrame == 0 .. SwapFrames - 1
Pgn == 0 .. MaxPgn

VARIABLES
  ram_free, swp_free,   \* free_fp_list of mram and of active_mswp
  ram_used, swp_used,   \* used_fp_list of both, as sets
  ram, swp,             \* the contents of each frame
  pgd, fifo_pgn,        \* of each process
  limit,                \* vm_end of each process, in pages
  apc, left,            \* alloc_pages_range: where it is, pages to go;
                        \* the apc of a process that is no more: ended
  frm_lst, frm_lst_swap,\* its lists of frames
  mapped,               \* history: the pages vm_map_ram has mapped
  lost, spent,          \* history: the frames of RAM and of swap that are
                        \* left behind: nothing refers to them any more
  orphaned,             \* history: the entries in the page tables of
                        \* processes that have ended
  stray,                \* history: a write went to another frame
  beyond,               \* history: a page that is not mapped was touched
  wild                  \* history: pg_getpage used swpfpn uninitialised

frameVars == <<ram_free, swp_free, ram_used, swp_used>>
dataVars == <<ram, swp>>
tableVars == <<pgd, fifo_pgn, mapped>>
allocVars == <<limit, apc, left, frm_lst, frm_lst_swap>>
historyVars == <<lost, spent, orphaned, stray, beyond, wild>>
vars == <<frameVars, dataVars, tableVars, allocVars, historyVars>>

Blank == <<>>                  \* nobody's data
Garbled(p) == <<p>>            \* a page that p has overwritten by mistake
Unmapped == [present |-> FALSE, swapped |-> FALSE, n |-> 0]

(* MEMPHY_format, init_mm                                                  *)
Init ==
  /\ ram_free = [k \in 1 .. RamFrames |-> k - 1]
  /\ swp_free = [k \in 1 .. SwapFrames |-> k - 1]
  /\ ram_used = {} /\ swp_used = {}
  /\ ram = [f \in RamFrame |-> Blank]
  /\ swp = [f \in SwapFrame |-> Blank]
  /\ pgd = [p \in Proc |-> [pgn \in Pgn |-> Unmapped]]
  /\ fifo_pgn = [p \in Proc |-> <<>>]
  /\ limit = [p \in Proc |-> 0]
  /\ apc = [p \in Proc |-> "idle"]
  /\ left = [p \in Proc |-> 0]
  /\ frm_lst = [p \in Proc |-> <<>>]
  /\ frm_lst_swap = [p \in Proc |-> <<>>]
  /\ mapped = [p \in Proc |-> {}]
  /\ lost = {} /\ spent = {} /\ orphaned = {}
  /\ stray = FALSE /\ beyond = FALSE /\ wild = FALSE

-----------------------------------------------------------------------------
(* Page table entries                                                      *)

(* pte_set_fpn and pte_set_swap                                            *)
OnFrame(f) == [present |-> TRUE, swapped |-> FALSE, n |-> f]
OnSwap(f) == [present |-> FALSE, swapped |-> TRUE, n |-> f]

(* PAGING_FPN takes bits 0 to 12 of the entry, whatever it is.  In one of  *)
(* a swapped page these are the low 8 bits of the swap frame, shifted by 5.*)
PAGING_FPN(pte) == IF pte.present THEN pte.n ELSE (pte.n % 256) * 32

(* enlist_pgn_node puts a page at the head of the list, also when the list *)
(* has it already: nothing ever leaves fifo_pgn.                           *)
Enlist(list, pgn) == <<pgn>> \o list

-----------------------------------------------------------------------------
(* inc_vma_limit, vm_map_ram and alloc_pages_range                         *)

Goto(p, label) == apc' = [apc EXCEPT ![p] = label]

(* Variant: one page less than the limit has moved.                        *)
RequestOneShort(p, n) ==
  /\ apc[p] = "idle" /\ limit[p] <= RamFrames /\ limit[p] + n <= MaxPgn
  /\ limit' = [limit EXCEPT ![p] = @ + n]
  /\ left' = [left EXCEPT ![p] = n - 1]
  /\ Goto(p, "ram")
  /\ UNCHANGED <<frameVars, dataVars, tableVars, frm_lst, frm_lst_swap,
                 historyVars>>

(* validate_overlap_vm_area refuses when the area has outgrown the RAM.    *)
Request(p, n) ==
  /\ apc[p] = "idle" /\ limit[p] <= RamFrames /\ limit[p] + n <= MaxPgn
  /\ limit' = [limit EXCEPT ![p] = @ + n]
  /\ left' = [left EXCEPT ![p] = n]
  /\ Goto(p, "ram")
  /\ UNCHANGED <<frameVars, dataVars, tableVars, frm_lst, frm_lst_swap,
                 historyVars>>

(* Variant: the frame taken stays in the list of free frames.              *)
GetRamKeepsHead(p) ==
  /\ apc[p] = "ram" /\ left[p] > 0 /\ ram_free # <<>>
  /\ frm_lst' = [frm_lst EXCEPT ![p] = <<Head(ram_free)>> \o @]
  /\ Goto(p, "ramused")
  /\ UNCHANGED <<frameVars, dataVars, tableVars, limit, left, frm_lst_swap,
                 historyVars>>

(* MEMPHY_get_freefp on mram                                               *)
GetRam(p) ==
  /\ apc[p] = "ram" /\ left[p] > 0
  /\ \/ /\ ram_free # <<>>
        /\ frm_lst' = [frm_lst EXCEPT ![p] = <<Head(ram_free)>> \o @]
        /\ ram_free' = Tail(ram_free)
        /\ Goto(p, "ramused")
     \/ /\ ram_free = <<>>
        /\ Goto(p, "swap")
        /\ UNCHANGED <<ram_free, frm_lst>>
  /\ UNCHANGED <<swp_free, ram_used, swp_used, dataVars, tableVars, limit,
                 left, frm_lst_swap, historyVars>>

(* Variant: the frame is not listed as used.                               *)
PutRamUsedNever(p) ==
  /\ apc[p] = "ramused"
  /\ left' = [left EXCEPT ![p] = @ - 1]
  /\ Goto(p, "ram")
  /\ UNCHANGED <<frameVars, dataVars, tableVars, limit, frm_lst,
                 frm_lst_swap, historyVars>>

(* MEMPHY_put_usedfp on mram, and the next page.                           *)
PutRamUsed(p) ==
  /\ apc[p] = "ramused"
  /\ ram_used' = ram_used \cup {Head(frm_lst[p])}
  /\ left' = [left EXCEPT ![p] = @ - 1]
  /\ Goto(p, "ram")
  /\ UNCHANGED <<ram_free, swp_free, swp_used, dataVars, tableVars, limit,
                 frm_lst, frm_lst_swap, historyVars>>

(* Variant: the frame taken stays in the list of free frames.              *)
GetSwapKeepsHead(p) ==
  /\ apc[p] = "swap" /\ swp_free # <<>>
  /\ frm_lst_swap' = [frm_lst_swap EXCEPT ![p] = <<Head(swp_free)>> \o @]
  /\ Goto(p, "swapused")
  /\ UNCHANGED <<frameVars, dataVars, tableVars, limit, left, frm_lst,
                 historyVars>>

(* No frame of RAM: MEMPHY_get_freefp on active_mswp.                      *)
GetSwap(p) ==
  /\ apc[p] = "swap" /\ swp_free # <<>>
  /\ frm_lst_swap' = [frm_lst_swap EXCEPT ![p] = <<Head(swp_free)>> \o @]
  /\ swp_free' = Tail(swp_free)
  /\ Goto(p, "swapused")
  /\ UNCHANGED <<ram_free, ram_used, swp_used, dataVars, tableVars, limit,
                 left, frm_lst, historyVars>>

PutSwapUsed(p) ==
  /\ apc[p] = "swapused"
  /\ swp_used' = swp_used \cup {Head(frm_lst_swap[p])}
  /\ left' = [left EXCEPT ![p] = @ - 1]
  /\ Goto(p, "ram")
  /\ UNCHANGED <<ram_free, swp_free, ram_used, dataVars, tableVars, limit,
                 frm_lst, frm_lst_swap, historyVars>>

DropLists(p) ==
  /\ frm_lst' = [frm_lst EXCEPT ![p] = <<>>]
  /\ frm_lst_swap' = [frm_lst_swap EXCEPT ![p] = <<>>]

(* Out of memory (-3000): the frames obtained so far are not given back.   *)
Oom(p) ==
  /\ apc[p] = "swap" /\ swp_free = <<>>
  /\ lost' = lost \cup ToSet(frm_lst[p])
  /\ spent' = spent \cup ToSet(frm_lst_swap[p])
  /\ DropLists(p)
  /\ left' = [left EXCEPT ![p] = 0]
  /\ Goto(p, "idle")
  /\ UNCHANGED <<frameVars, dataVars, tableVars, limit, orphaned, stray, beyond,
                 wild>>

(* The contents of frames once the pages of p from first on have those of  *)
(* the list.                                                               *)
Filled(contents, p, first, list) ==
  [f \in DOMAIN contents |->
     IF f \in ToSet(list)
     THEN <<p, first + Min({k \in DOMAIN list : list[k] = f}) - 1>>
     ELSE contents[f]]

(* vmap_page_range: the pages from the old limit on get the frames of RAM, *)
(* the rest those of swap.  Each page enlists its successor: pgit has been *)
(* counted up before.  The last one comes to stand first in the list.      *)
Map(p) ==
  /\ apc[p] = "ram" /\ left[p] = 0
  /\ LET inram == Len(frm_lst[p])
         num == inram + Len(frm_lst_swap[p])
         start == limit[p] - num
         new == start .. limit[p] - 1
         entry(pgn) ==
           IF pgn - start < inram
           THEN OnFrame(frm_lst[p][pgn - start + 1])
           ELSE OnSwap(frm_lst_swap[p][pgn - start - inram + 1])
     IN /\ pgd' = [pgd EXCEPT ![p] =
                     [pgn \in Pgn |-> IF pgn \in new THEN entry(pgn) ELSE @[pgn]]]
        /\ ram' = Filled(ram, p, start, frm_lst[p])
        /\ swp' = Filled(swp, p, start + inram, frm_lst_swap[p])
        /\ fifo_pgn' = [fifo_pgn EXCEPT ![p] =
                          [k \in 1 .. num |-> limit[p] + 1 - k] \o @]
        /\ mapped' = [mapped EXCEPT ![p] = @ \cup new]
        /\ lost' = lost \cup {pgd[p][pgn].n :
                                pgn \in {q \in new : pgd[p][q].present}}
        /\ spent' = spent \cup {pgd[p][pgn].n :
                                  pgn \in {q \in new : pgd[p][q].swapped}}
  /\ DropLists(p)
  /\ Goto(p, "idle")
  /\ UNCHANGED <<frameVars, limit, left, orphaned, stray, beyond, wild>>

-----------------------------------------------------------------------------
(* pg_getpage, and the read or the write that follows.  An access to a     *)
(* page that is present changes nothing at this level, nor does one that   *)
(* finds no victim (its error is ignored).                                 *)

(* find_victim_page: the first page of the list that is present.           *)
Victims(p) == {k \in DOMAIN fifo_pgn[p] : pgd[p][fifo_pgn[p][k]].present}
Victim(p) == fifo_pgn[p][Min(Victims(p))]
VictimFrame(p) == pgd[p][Victim(p)].n

(* The next free frame of swap; with none left, the variable swpfpn keeps  *)
(* what is on the stack.                                                   *)
SwapTarget == IF swp_free # <<>> THEN {Head(swp_free)} ELSE SwapFrame

(* Variant: the victim is not copied to swap.                              *)
StoredNever(p, s) == swp

(* The two copies: the victim's frame to the swap frame s, then the frame  *)
(* in swap of the page to the victim's.                                    *)
Stored(p, s) == [swp EXCEPT ![s] = ram[VictimFrame(p)]]
Loaded(p, pgn, s) ==
  [ram EXCEPT ![VictimFrame(p)] = Stored(p, s)[pgd[p][pgn].n]]

(* The page takes the victim's frame, the victim takes the swap frame.     *)
(* Variant: the page's entry is changed in a local copy only.              *)
ExchangedInCopy(p, pgn, s) == [pgd EXCEPT ![p][Victim(p)] = OnSwap(s)]
Exchanged(p, pgn, s) ==
  [pgd EXCEPT ![p][Victim(p)] = OnSwap(s), ![p][pgn] = OnFrame(VictimFrame(p))]

(* The frame in swap that the page had is not given back.                  *)
GetPage(p, pgn, s) ==
  /\ apc[p] = "idle" /\ ~wild
  /\ ~pgd[p][pgn].present /\ Victims(p) # {}
  /\ swp' = Stored(p, s)
  /\ pgd' = Exchanged(p, pgn, s)
  /\ fifo_pgn' = [fifo_pgn EXCEPT ![p] = Enlist(@, pgn)]
  /\ swp_free' = IF swp_free # <<>> THEN Tail(swp_free) ELSE <<>>
  /\ wild' = (swp_free = <<>>)
  /\ beyond' = (beyond \/ pgn \notin mapped[p])
  /\ spent' = spent \cup (IF pgd[p][pgn].swapped THEN {pgd[p][pgn].n} ELSE {})
  /\ UNCHANGED <<ram_free, ram_used, swp_used, mapped, allocVars, lost,
                 orphaned>>

Read(p, pgn) ==
  \E s \in SwapTarget :
    /\ GetPage(p, pgn, s)
    /\ ram' = Loaded(p, pgn, s)
    /\ UNCHANGED stray

(* pg_setval: p's data goes to the frame fpn, if there is such a frame.    *)
SetVal(p, contents, fpn) ==
  [f \in RamFrame |-> IF f = fpn THEN Garbled(p) ELSE contents[f]]

(* The frame number is taken from the entry as it was before the page came *)
(* in, so the write goes wherever that points.                             *)
Write(p, pgn) ==
  LET fpn == PAGING_FPN(pgd[p][pgn])
  IN \E s \in SwapTarget :
       /\ GetPage(p, pgn, s)
       /\ \/ /\ fpn = VictimFrame(p)
             /\ ram' = Loaded(p, pgn, s)
             /\ UNCHANGED stray
          \/ /\ fpn # VictimFrame(p)
             /\ ram' = SetVal(p, Loaded(p, pgn, s), fpn)
             /\ stray' = TRUE

-----------------------------------------------------------------------------
(* The end of a process: cpu_routine frees the pcb after the last          *)
(* instruction, and only that.  Nothing calls free_pcb_memph, so the       *)
(* frames of its pages stay taken, by a page table that is out of reach.   *)
Exit(p) ==
  /\ apc[p] = "idle"
  /\ Goto(p, "ended")
  /\ orphaned' = orphaned \cup ({pgd[p][pgn] : pgn \in Pgn} \ {Unmapped})
  /\ UNCHANGED <<frameVars, dataVars, tableVars, limit, left, frm_lst,
                 frm_lst_swap, lost, spent, stray, beyond, wild>>

-----------------------------------------------------------------------------
Step(p) ==
  \/ \E n \in 1 .. MaxReq : Request(p, n)
  \/ GetRam(p) \/ PutRamUsed(p)
  \/ GetSwap(p) \/ PutSwapUsed(p) \/ Oom(p)
  \/ Map(p)
  \/ \E pgn \in Pgn : Read(p, pgn) \/ Write(p, pgn)
  \/ Exit(p)

(* Bound: pages are not brought in any more once swpfpn was used           *)
(* uninitialised (GetPage).                                                *)
Next == \E p \in Proc : Step(p)

Spec == Init /\ [][Next]_vars

(* The processes are interchangeable.                                      *)
Symmetry == Permutations(Proc)

-----------------------------------------------------------------------------
(* Properties                                                              *)

(* Who refers to a frame: the list of free frames, a process that is       *)
(* allocating (its lists are no longer than its area), or a page.          *)
Holders(f, free, lists, On(_)) ==
  {h \in {"free"} \X DOMAIN free : free[h[2]] = f}
    \cup {h \in {"list"} \X Proc \X (1 .. MaxPgn) :
            h[3] \in DOMAIN lists[h[2]] /\ lists[h[2]][h[3]] = f}
    \cup {h \in {"page"} \X Proc \X Pgn : pgd[h[2]][h[3]] = On(f)}
RamHolders(f) == Holders(f, ram_free, frm_lst, OnFrame)
SwapHolders(f) == Holders(f, swp_free, frm_lst_swap, OnSwap)

(* No frame is handed out twice, however the allocations and the page      *)
(* faults of the processes interleave: it is free, or in one list, or of   *)
(* one page of one process, which may have ended.                          *)
FrameOwnedOnce == \A f \in RamFrame : Cardinality(RamHolders(f)) <= 1
SwapOwnedOnce ==
  ~wild => \A f \in SwapFrame : Cardinality(SwapHolders(f)) <= 1

(* Those of them that can still use the frame or give it away.             *)
Alive(holders) == {h \in holders : h[1] = "page" => apc[h[2]] # "ended"}

(* No frame goes out of use unnoticed.  One of RAM does by an allocation   *)
(* that runs out of memory, by the mapping of a page that had been touched *)
(* before, and by the end of the process whose page it has; one of swap    *)
(* also, each time, by a page that comes back from it (GetPage).  As long  *)
(* as there is a free frame of swap, every other frame is free, on its way *)
(* to a page, or of a page of a process that runs; and none that has gone  *)
(* out of use comes back.                                                  *)
NoFrameVanishes ==
  /\ \A f \in RamFrame : Alive(RamHolders(f)) = {}
                            <=> f \in lost \/ OnFrame(f) \in orphaned
  /\ ~wild => \A f \in SwapFrame : Alive(SwapHolders(f)) = {}
                                     <=> f \in spent \/ OnSwap(f) \in orphaned

(* used_fp_list, which the dump of the memory walks, has exactly the       *)
(* frames that are not free, but for one that is just changing lists.      *)
UsedAreTaken ==
  ram_used = {f \in RamFrame :
                /\ f \notin ToSet(ram_free)
                /\ \A p \in Proc : apc[p] = "ramused" => f # Head(frm_lst[p])}

(* Where the page table says the data of a page is, there it is.           *)
DataOf(p, pgn) ==
  IF pgd[p][pgn].present THEN ram[pgd[p][pgn].n] ELSE swp[pgd[p][pgn].n]
PagesHaveTheirData ==
  ~wild => \A p \in Proc : \A pgn \in mapped[p] : DataOf(p, pgn) = <<p, pgn>>

(* pgread and pgwrite are to access the page in RAM, wherever it was       *)
(* before: as long as only mapped pages are accessed, each of them has its *)
(* own data.                                                               *)
MappedAccessesAreSafe == ~beyond => PagesHaveTheirData

(* Replacement by itself never loses or mixes up data: as long as no write *)
(* has missed its page, each page keeps its data through any number of     *)
(* moves between RAM and swap.                                             *)
SwappingKeepsData == ~stray => PagesHaveTheirData
=============================================================================
