------------------------------ MODULE VmRegion ------------------------------
(***************************************************************************)
(* The memory regions of one process (src/mm-vm.c: __alloc, __free and     *)
(* what they call).  A process names its regions by register; the area of  *)
(* the process grows at sbrk, and freed regions go to vm_freerg_list,      *)
(* where __alloc looks first.                                              *)
(*                                                                         *)
(* Only the CPU that has the process runs its instructions (OneHolder of   *)
(* Dispatcher), so an instruction is one step here.  What the regions need *)
(* of the shared memory is vm_map_ram (Paging.tla): it maps all the pages  *)
(* it is asked for or none of them.                                        *)
(*                                                                         *)
(* A region is the pair <<rg_start, rg_end>>.  The list is the sequence of *)
(* its nodes' regions.  It starts with the dummy region <<0, 0>>, which is *)
(* and stays its last node.                                                *)
(*                                                                         *)
(* Every mm_struct comes from a fresh heap arena, that of the loader's     *)
(* thread, so the fields init_mm does not set are zero.                    *)
(***************************************************************************)
EXTENDS Integers, SequencesExt, FiniteSetsExt

CONSTANTS Reg,        \* the registers a program names its regions by
          PAGESZ,     \* PAGING_PAGESZ
          Sizes,      \* the sizes a program asks for
          MaxSz,      \* mram->maxsz
          MaxSbrk     \* bound: a program does not grow its area beyond this

ASSUME PageSzAssumption == PAGESZ \in Nat \ {0}
ASSUME SizesAssumption == Sizes \subseteq Nat
ASSUME BoundAssumption == MaxSz \in Nat /\ MaxSbrk \in Nat

VARIABLES
  symrgtbl,         \* the region of each register
  vm_freerg_list,
  sbrk, vm_end,     \* of the area; its vm_start is 0
  pages,            \* the pages vm_map_ram has mapped
  leaked,           \* history: bytes of registers that were allocated again
  holes,            \* history: the pages that a failed inc_vma_limit left out
  uaf               \* history: a node of the list was used after its free

areaVars == <<sbrk, vm_end, pages, holes>>
vars == <<symrgtbl, vm_freerg_list, areaVars, leaked, uaf>>

None == <<0, 0>>

Init ==
  /\ symrgtbl = [r \in Reg |-> None]
  /\ vm_freerg_list = <<None>>
  /\ sbrk = 0 /\ vm_end = 0
  /\ pages = {} /\ holes = {} /\ leaked = {}
  /\ uaf = FALSE

Bytes(rg) == rg[1] .. rg[2] - 1
PagesOf(rg) == {b \div PAGESZ : b \in Bytes(rg)}

-----------------------------------------------------------------------------
(* __alloc                                                                 *)

(* PAGING_PAGE_ALIGNSZ                                                     *)
Align(n) == ((n + PAGESZ - 1) \div PAGESZ) * PAGESZ

(* The register gets its new region, whatever it had.                      *)
Assign(r, rg) ==
  /\ symrgtbl' = [symrgtbl EXCEPT ![r] = rg]
  /\ leaked' = leaked \cup Bytes(symrgtbl[r])

(* A node is removed by copying its successor into it and freeing that;    *)
(* the last node becomes a region of size 0.                               *)
DeleteNode(l, i) ==
  IF i < Len(l) THEN RemoveAt(l, i) ELSE [l EXCEPT ![i][1] = l[i][2]]

(* The free regions of at least that size.                                 *)
Fit(size) ==
  {i \in DOMAIN vm_freerg_list :
     vm_freerg_list[i][1] + size <= vm_freerg_list[i][2]}

(* Variant: what the request leaves of the node is dropped.                *)
AllocWholeNode(r, size) ==
  /\ Fit(size) # {}
  /\ LET i == Min(Fit(size))
         start == vm_freerg_list[i][1]
     IN /\ Assign(r, <<start, start + size>>)
        /\ vm_freerg_list' = DeleteNode(vm_freerg_list, i)
  /\ UNCHANGED <<areaVars, uaf>>

(* get_free_vmrg_area: the first free region that is large enough.         *)
AllocFromFreeList(r, size) ==
  /\ Fit(size) # {}
  /\ LET i == Min(Fit(size))
         start == vm_freerg_list[i][1]
     IN /\ Assign(r, <<start, start + size>>)
        /\ vm_freerg_list' =
             IF start + size < vm_freerg_list[i][2]
             THEN [vm_freerg_list EXCEPT ![i][1] = start + size]
             ELSE DeleteNode(vm_freerg_list, i)
  /\ UNCHANGED <<areaVars, uaf>>

(* No free region: take the bytes after sbrk, whatever comes of the limit. *)
TakeBreak(r, size) ==
  /\ Fit(size) = {} /\ sbrk + size <= MaxSbrk
  /\ Assign(r, <<sbrk, sbrk + size>>)
  /\ sbrk' = sbrk + size
  /\ UNCHANGED <<vm_freerg_list, uaf>>

MustGrow(size) == size + sbrk > Align(sbrk) \/ sbrk = vm_end

AllocInLastPage(r, size) ==
  /\ ~MustGrow(size)
  /\ TakeBreak(r, size)
  /\ UNCHANGED <<vm_end, pages, holes>>

(* Variant: the pages of the size alone.                                   *)
IncAmountOfSize(size) == Align(size)

(* inc_vma_limit                                                           *)
IncAmount(size) == Align(size + sbrk) - Align(sbrk)

(* validate_overlap_vm_area: the area may not outgrow the RAM.             *)
AllocRefused(r, size) ==
  /\ MustGrow(size) /\ vm_end > MaxSz
  /\ TakeBreak(r, size)
  /\ holes' = holes \cup PagesOf(<<Align(sbrk), Align(sbrk + size)>>)
  /\ UNCHANGED <<vm_end, pages>>

(* The limit moves first; then vm_map_ram maps the pages from the old one  *)
(* on, or fails.                                                           *)
AllocGrow(r, size) ==
  /\ MustGrow(size) /\ vm_end <= MaxSz
  /\ TakeBreak(r, size)
  /\ vm_end' = vm_end + IncAmount(size)
  /\ LET new == PagesOf(<<vm_end, vm_end + IncAmount(size)>>)
     IN \/ pages' = pages \cup new /\ UNCHANGED holes
        \/ holes' = holes \cup new /\ UNCHANGED pages

Alloc(r, size) ==
  \/ AllocFromFreeList(r, size)
  \/ AllocInLastPage(r, size)
  \/ AllocRefused(r, size)
  \/ AllocGrow(r, size)

-----------------------------------------------------------------------------
(* __free, with enlist_vm_freerg_list                                      *)

(* Variant: no merging with the node below.                                *)
DownNever(rg) == {}

(* The walk over the list stops at the dummy region.  Up and Down are the  *)
(* nodes that the region rg is adjacent to, from below and from above.     *)
Walk == {i \in DOMAIN vm_freerg_list :
           \A j \in 1 .. i : vm_freerg_list[j] # None}
Up(rg) == {i \in Walk : rg[2] = vm_freerg_list[i][1]}
Down(rg) == {i \in Walk : rg[1] = vm_freerg_list[i][2]}

(* Variant: the register keeps its region.                                 *)
ClearNever(r) == UNCHANGED symrgtbl

Clear(r) == symrgtbl' = [symrgtbl EXCEPT ![r] = None]

(* An empty region is not enlisted.                                        *)
FreeEmpty(r) ==
  /\ Bytes(symrgtbl[r]) = {}
  /\ Clear(r)
  /\ UNCHANGED <<vm_freerg_list, areaVars, leaked, uaf>>

FreeAlone(r, rg) ==
  /\ Up(rg) = {} /\ Down(rg) = {}
  /\ vm_freerg_list' = <<rg>> \o vm_freerg_list
  /\ UNCHANGED uaf

FreeMergeUp(r, rg) ==
  /\ Up(rg) # {} /\ Down(rg) = {}
  /\ vm_freerg_list' = [vm_freerg_list EXCEPT ![Max(Up(rg))][1] = rg[1]]
  /\ UNCHANGED uaf

FreeMergeDown(r, rg) ==
  /\ Up(rg) = {} /\ Down(rg) # {}
  /\ vm_freerg_list' = [vm_freerg_list EXCEPT ![Max(Down(rg))][2] = rg[2]]
  /\ UNCHANGED uaf

(* A new node for the three regions, and the two nodes are deleted.  The   *)
(* first deletion frees the node after "up"; when that is "down", the      *)
(* second one works on freed memory: the list keeps the region of "down"   *)
(* and loses to free the node after it, whose range the allocator          *)
(* overwrites, with no space (<<0, 0>>) or with space that nobody has.     *)
FreeMergeBoth(r, rg) ==
  /\ Up(rg) # {} /\ Down(rg) # {}
  /\ LET up == Max(Up(rg))
         down == Max(Down(rg))
         merged == <<vm_freerg_list[down][1], vm_freerg_list[up][2]>>
         first == DeleteNode(vm_freerg_list, up)
     IN IF down # up + 1
        THEN /\ vm_freerg_list' =
                  <<merged>>
                    \o DeleteNode(first, IF down > up THEN down - 1 ELSE down)
             /\ UNCHANGED uaf
        ELSE /\ uaf' = TRUE
             /\ \E range \in {None, <<MaxSbrk, MaxSbrk + PAGESZ>>} :
                  vm_freerg_list' =
                    <<merged>> \o IF up < Len(first)
                                  THEN [first EXCEPT ![up + 1] = range]
                                  ELSE first

Free(r) ==
  \/ FreeEmpty(r)
  \/ /\ Bytes(symrgtbl[r]) # {}
     /\ \/ FreeAlone(r, symrgtbl[r])
        \/ FreeMergeUp(r, symrgtbl[r])
        \/ FreeMergeDown(r, symrgtbl[r])
        \/ FreeMergeBoth(r, symrgtbl[r])
     /\ Clear(r)
     /\ UNCHANGED <<areaVars, leaked>>

-----------------------------------------------------------------------------
(* Bound: after the first use of a freed node only allocations are         *)
(* followed, to see what becomes of the regions.                           *)
Next ==
  \E r \in Reg :
    \/ ~uaf /\ Free(r)
    \/ \E size \in Sizes : Alloc(r, size)

Spec == Init /\ [][Next]_vars

(* The registers are interchangeable.                                      *)
Symmetry == Permutations(Reg)

-----------------------------------------------------------------------------
(* Properties                                                              *)

FreeBytes == UNION {Bytes(rg) : rg \in ToSet(vm_freerg_list)}
LiveBytes == UNION {Bytes(symrgtbl[r]) : r \in Reg}
Disjoint(rg1, rg2) == Bytes(rg1) \cap Bytes(rg2) = {}

(* No byte belongs to two registers.  (Not so: see FreeMergeBoth.)         *)
RegionsNeverOverlap ==
  \A q, r \in Reg : q # r => Disjoint(symrgtbl[q], symrgtbl[r])

(* As long as no node was used after its free: no byte belongs to two      *)
(* registers, to a register and the free list, or twice to the free list,  *)
(* so that a byte that is allocated is free before.                        *)
BytesOwnedOnce ==
  ~uaf =>
    /\ RegionsNeverOverlap
    /\ FreeBytes \cap LiveBytes = {}
    /\ \A i, j \in DOMAIN vm_freerg_list :
         i # j => Disjoint(vm_freerg_list[i], vm_freerg_list[j])

(* Space is lost only by allocating a register again without freeing it.   *)
NoByteLost == ~uaf => 0 .. sbrk - 1 = LiveBytes \cup FreeBytes \cup leaked

(* Merging is complete: the free list never holds two adjacent regions     *)
(* that a larger request would need as one; and its dummy stays at the     *)
(* end, where the walks expect it.                                         *)
Coalesced ==
  ~uaf =>
    /\ \A i, j \in Walk : vm_freerg_list[i][2] # vm_freerg_list[j][1]
    /\ Walk = 1 .. Len(vm_freerg_list) - 1
    /\ \A i \in Walk : Bytes(vm_freerg_list[i]) # {}

(* __alloc hands out a region even when inc_vma_limit has failed.  What is *)
(* not mapped then are the pages of that request alone: every other byte   *)
(* of a register is on a page that was mapped, and mapped once, however    *)
(* requests fail and succeed after each other.  And the limit is where the *)
(* area ends, unless a request was refused.                                *)
Backed ==
  ~uaf =>
    /\ \A r \in Reg : PagesOf(symrgtbl[r]) \subseteq pages \cup holes
    /\ pages \cap holes = {}
    /\ pages \cup holes = PagesOf(<<0, Align(sbrk)>>)
    /\ vm_end <= MaxSz => vm_end = Align(sbrk)
=============================================================================
