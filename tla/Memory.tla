------------------------------- MODULE Memory -------------------------------
(***************************************************************************)
(* What a program sees of memory: the instructions of one process (run of  *)
(* src/cpu.c: ALLOC, FREE, READ, WRITE) on its registers.  The module puts *)
(* the regions of that process (VmRegion) on top of the frames and pages   *)
(* that it shares with the others (Paging), down to the bytes in RAM and   *)
(* in swap (MEMPHY_read, MEMPHY_write).  The others are Paging's most      *)
(* general client.                                                         *)
(*                                                                         *)
(* Instructions move bytes without looking at them, so it is enough to     *)
(* follow what one of them was given: a byte is Mark when it is what the   *)
(* offset watch of the register Watched was given, and Other when not.     *)
(***************************************************************************)
EXTENDS Paging

CONSTANTS Self,       \* the process that is followed
          Reg,        \* its registers
          Watched,    \* the one of them that is followed
          PAGESZ,     \* PAGING_PAGESZ
          Sizes,      \* the sizes it asks for
          Offsets,    \* bound: the offsets that are followed
          OtherPages  \* bound: the pages of each other process

ASSUME SelfAssumption == Self \in Proc /\ Watched \in Reg
ASSUME PagesAssumption == PAGESZ \in Nat \ {0} /\ Sizes \subseteq Nat
ASSUME FollowAssumption == Offsets \subseteq Nat /\ OtherPages \in 0 .. MaxPgn

VARIABLES
  symrgtbl, vm_freerg_list, sbrk,   \* of Self, as in VmRegion
  leaked, holes, uaf,
  request,          \* the allocation of Self that waits for its pages
  ram_bytes, swp_bytes,
  watch,            \* the offset in Watched that is followed
  kept              \* history: it was written, since Watched was
                    \* allocated, and no other write has hit it since

regionVars == <<symrgtbl, vm_freerg_list, sbrk, leaked, holes, uaf>>
byteVars == <<ram_bytes, swp_bytes>>
programVars == <<regionVars, request, byteVars, watch, kept>>
memoryVars == <<vars, programVars>>

Mark == TRUE
Other == FALSE
NoRequest == [pages |-> 0]
Offset == 0 .. PAGESZ - 1

(* The limit moves at the start of inc_vma_limit; for the regions it does  *)
(* when vm_map_ram has returned.                                           *)
Regions == INSTANCE VmRegion
  WITH pages <- mapped[Self],
       vm_end <- (limit[Self] - request.pages) * PAGESZ,
       MaxSz <- RamFrames * PAGESZ,
       MaxSbrk <- MaxPgn * PAGESZ

MemoryInit ==
  /\ Init
  /\ request = NoRequest
  /\ Regions!Init
  /\ ram_bytes = [f \in RamFrame |-> [off \in Offset |-> Other]]
  /\ swp_bytes = [f \in SwapFrame |-> [off \in Offset |-> Other]]
  /\ watch \in Offsets
  /\ kept = FALSE

-----------------------------------------------------------------------------
(* ALLOC and FREE                                                          *)

(* Bound: nothing is followed after the use of a freed node or of swpfpn   *)
(* uninitialised.                                                          *)
Followed == ~uaf /\ ~wild
Ready == Followed /\ request = NoRequest

Size(r) == symrgtbl[r][2] - symrgtbl[r][1]

(* Bound: a register is allocated again only when it is free.              *)
Reusable(r) == Ready /\ Size(r) = 0

Forget(r) == kept' = (kept /\ r # Watched) /\ UNCHANGED watch

(* From the free list, in the last page, or refused: no page is needed.    *)
AllocLocally(r, size) ==
  /\ Reusable(r)
  /\ UNCHANGED <<vars, request, byteVars>>
  /\ \/ Regions!AllocFromFreeList(r, size)
     \/ Regions!AllocInLastPage(r, size)
     \/ Regions!AllocRefused(r, size)
  /\ Forget(r)

(* inc_vma_limit asks for the pages ...                                    *)
AllocRequest(r, size) ==
  LET num == Regions!IncAmount(size) \div PAGESZ
  IN /\ Reusable(r)
     /\ Regions!Fit(size) = {} /\ Regions!MustGrow(size)
     /\ sbrk + size <= MaxPgn * PAGESZ
     /\ Request(Self, num)
     /\ request' = [reg |-> r, size |-> size, pages |-> num]
     /\ UNCHANGED <<regionVars, byteVars, watch, kept>>

GetFrames ==
  /\ Followed
  /\ GetRam(Self) \/ PutRamUsed(Self) \/ GetSwap(Self) \/ PutSwapUsed(Self)
  /\ UNCHANGED programVars

(* ... and __alloc goes on in the same way when it has got them and when   *)
(* it has not.                                                             *)
AllocFinish ==
  /\ Followed /\ request # NoRequest
  /\ LET end == (limit[Self] - request.pages) * PAGESZ
     IN \/ Map(Self) /\ UNCHANGED holes
        \/ /\ Oom(Self)
           /\ holes' = holes \cup
                Regions!PagesOf(<<end, end + request.pages * PAGESZ>>)
  /\ Regions!TakeBreak(request.reg, request.size)
  /\ request' = NoRequest
  /\ Forget(request.reg)
  /\ UNCHANGED byteVars

Free(r) ==
  /\ Ready
  /\ UNCHANGED <<vars, request, byteVars>>
  /\ Regions!Free(r)
  /\ Forget(r)

-----------------------------------------------------------------------------
(* READ and WRITE                                                          *)

Address(r, o) == symrgtbl[r][1] + o
Page(addr) == addr \div PAGESZ            \* PAGING_PGN
InPage(addr) == addr % PAGESZ            \* PAGING_OFFST

(* Variant: the page is copied but for its last byte.                      *)
CopyPageShort(from, to) ==
  [off \in Offset |-> IF off < PAGESZ - 1 THEN from[off] ELSE to[off]]

(* __swap_cp_page copies byte by byte.                                     *)
CopyPage(from, to) == [off \in Offset |-> from[off]]

(* The bytes once pg_getpage has exchanged the pages (Paging's GetPage).   *)
SwapBytes(p, pgn) ==
  LET fpn == VictimFrame(p)
      swpfpn == pgd'[p][Victim(p)].n
      stored == [swp_bytes EXCEPT ![swpfpn] = CopyPage(ram_bytes[fpn], @)]
  IN [swp |-> stored,
      ram |-> [ram_bytes EXCEPT ![fpn] = CopyPage(stored[pgd[p][pgn].n], @)]]

(* The address that is followed, and whether a write that has reached this *)
(* byte of RAM has hit it.                                                 *)
WatchedAddress == Address(Watched, watch)
Hit(fpn, off) ==
  /\ InPage(WatchedAddress) = off
  /\ pgd'[Self][Page(WatchedAddress)] = OnFrame(fpn)

(* pg_setval: the frame number comes from the entry as it was at first.    *)
SetByte(bytes, fpn, off, byte) ==
  [f \in RamFrame |->
     IF f = fpn THEN [bytes[f] EXCEPT ![off] = byte] ELSE bytes[f]]

(* The page is in RAM.                                                     *)
WriteHere(p, pgn, off, byte) ==
  /\ apc[p] = "idle" /\ pgd[p][pgn].present
  /\ ram_bytes' = SetByte(ram_bytes, pgd[p][pgn].n, off, byte)
  /\ UNCHANGED <<vars, swp_bytes>>

(* The page is brought in, and the write goes where Paging says.           *)
WriteAfterFault(p, pgn, off, byte) ==
  /\ Write(p, pgn)
  /\ LET bytes == SwapBytes(p, pgn)
     IN /\ swp_bytes' = bytes.swp
        /\ ram_bytes' = SetByte(bytes.ram, PAGING_FPN(pgd[p][pgn]), off, byte)

(* No page can make room: pg_setval fails, which __write does not notice.  *)
WriteNowhere(p, pgn) ==
  /\ apc[p] = "idle" /\ ~pgd[p][pgn].present /\ Victims(p) = {}
  /\ UNCHANGED <<vars, byteVars>>

(* pgwrite.  An offset equal to the size is accepted.                      *)
WriteOffset(r) == 0 .. Size(r)

(* The write that is followed keeps its byte when it gets there; any other *)
(* one spoils it when it is meant for that address or gets there.          *)
pgwrite(r, o) ==
  LET addr == Address(r, o)
      fpn == PAGING_FPN(pgd[Self][Page(addr)])
      followed == r = Watched /\ o = watch /\ o < Size(r)
  IN /\ Ready
     /\ LET byte == IF followed THEN Mark ELSE Other
        IN \/ WriteHere(Self, Page(addr), InPage(addr), byte)
           \/ WriteAfterFault(Self, Page(addr), InPage(addr), byte)
           \/ WriteNowhere(Self, Page(addr))
     /\ kept' = IF followed
                THEN pgd'[Self][Page(addr)] = OnFrame(fpn)
                ELSE kept /\ addr # WatchedAddress
                          /\ ~Hit(fpn, InPage(addr))
     /\ UNCHANGED <<regionVars, request, watch>>

(* pgread.  Only one that brings its page in changes anything.             *)
pgread(r, o) ==
  LET pgn == Page(Address(r, o))
  IN /\ Ready
     /\ Read(Self, pgn)
     /\ LET bytes == SwapBytes(Self, pgn)
        IN swp_bytes' = bytes.swp /\ ram_bytes' = bytes.ram
     /\ UNCHANGED <<regionVars, request, watch, kept>>

-----------------------------------------------------------------------------
(* The other processes                                                     *)

OtherAllocates(p) ==
  /\ Followed
  /\ \/ \E n \in 1 .. MaxReq :
          limit[p] + n <= OtherPages /\ Request(p, n)
     \/ GetRam(p) \/ PutRamUsed(p) \/ GetSwap(p) \/ PutSwapUsed(p) \/ Oom(p)
     \/ Map(p)
  /\ UNCHANGED programVars

OtherReads(p, pgn) ==
  /\ Followed
  /\ Read(p, pgn)
  /\ LET bytes == SwapBytes(p, pgn)
     IN swp_bytes' = bytes.swp /\ ram_bytes' = bytes.ram
  /\ UNCHANGED <<regionVars, request, watch, kept>>

OtherWrites(p, pgn, off) ==
  /\ Followed
  /\ \/ WriteHere(p, pgn, off, Other)
     \/ WriteAfterFault(p, pgn, off, Other)
  /\ kept' = (kept /\ ~Hit(PAGING_FPN(pgd[p][pgn]), off))
  /\ UNCHANGED <<regionVars, request, watch>>

OtherExits(p) == Followed /\ Exit(p) /\ UNCHANGED programVars

-----------------------------------------------------------------------------
(* Bound: Self is followed until it ends.                                  *)
run ==
  \/ \E r \in Reg :
       \/ \E size \in Sizes : AllocLocally(r, size) \/ AllocRequest(r, size)
       \/ Free(r)
       \/ \E o \in WriteOffset(r) : pgwrite(r, o) \/ pgread(r, o)
  \/ GetFrames \/ AllocFinish

OtherRun(p) ==
  \/ OtherAllocates(p) \/ OtherExits(p)
  \/ \E pgn \in 0 .. OtherPages :
       (\E off \in Offset : OtherWrites(p, pgn, off)) \/ OtherReads(p, pgn)

MemoryNext == run \/ \E p \in Proc \ {Self} : OtherRun(p)

MemorySpec == MemoryInit /\ [][MemoryNext]_memoryVars

(* Whose data a frame holds and what went wrong before, as Paging records  *)
(* it, neither steers a step of this module nor is in its properties: the  *)
(* states that differ in that alone need not be told apart.                *)
MemoryView == <<frameVars, tableVars, allocVars, wild, programVars>>

-----------------------------------------------------------------------------
(* Properties                                                              *)

(* Where the page table says that the byte is: in RAM, where pgread reads  *)
(* it, or in swap.  (A pgread that first brings the page in delivers the   *)
(* byte of another frame, as pgwrite writes to it.)                        *)
Byte(addr) ==
  LET pte == pgd[Self][Page(addr)]
  IN IF pte.present THEN ram_bytes[pte.n][InPage(addr)]
                    ELSE swp_bytes[pte.n][InPage(addr)]

(* A register keeps what was written to it, through any allocations, frees *)
(* and moves between RAM and swap, of this process and of others, as long  *)
(* as swap is not full.  The errors of the code damage no more than the    *)
(* byte a write was meant for and the byte it reaches: a write that misses *)
(* (pg_getpage), is dropped (no victim) or runs over (the offset of the    *)
(* size) leaves every other byte of every register as it was.              *)
BytesKept == Followed /\ kept => Byte(WatchedAddress) = Mark

(* The regions on top of real frames are those of VmRegion: vm_map_ram     *)
(* maps the pages the area grows by, all of them or none, whatever the     *)
(* other processes do meanwhile.                                           *)
ImplementsRegions == Regions!Spec
=============================================================================
