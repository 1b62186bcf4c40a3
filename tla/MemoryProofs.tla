---------------------------- MODULE MemoryProofs ----------------------------
(***************************************************************************)
(* Proofs about Memory for any processes, sizes of RAM and swap, page      *)
(* size, registers and requests.                                           *)
(*                                                                         *)
(* Whatever Self and the others do, the frames and page tables take steps  *)
(* of Paging, so its invariant holds here too.  What is added is how the   *)
(* area of Self and the request under way fit each other, and that the     *)
(* byte that is followed is on a page that has a frame.                    *)
(***************************************************************************)
EXTENDS Memory, PagingProofs

(* The vm_end of the regions.                                              *)
End == (limit[Self] - request.pages) * PAGESZ

(* The regions of the registers and the free ones lie below the break.     *)
Region(top) == {rg \in Nat \X Nat : rg[2] <= top}
Below ==
  /\ sbrk \in 0 .. MaxPgn * PAGESZ
  /\ symrgtbl \in [Reg -> Region(sbrk)]
  /\ vm_freerg_list \in Seq(Region(sbrk))

(* The request is the one that alloc_pages_range works on.                 *)
Asked ==
  IF request = NoRequest
  THEN apc[Self] = "idle"
  ELSE /\ request \in [reg : Reg, size : Sizes, pages : Nat]
       /\ apc[Self] # "idle"
       /\ request.pages = Requested(Self)
       /\ request.pages * PAGESZ = Regions!IncAmount(request.size)
       /\ Regions!MustGrow(request.size)
       /\ End <= RamFrames * PAGESZ

(* Unless a request was refused, the limit is where the area ends.         *)
Limit == End <= RamFrames * PAGESZ => End = Regions!Align(sbrk)

ByteTypes ==
  /\ ram_bytes \in [RamFrame -> [Offset -> BOOLEAN]]
  /\ swp_bytes \in [SwapFrame -> [Offset -> BOOLEAN]]
  /\ watch \in Nat /\ kept \in BOOLEAN /\ uaf \in BOOLEAN

(* The byte that is followed is in its register, on a page with a frame.   *)
Backed ==
  Followed /\ kept => /\ watch < Size(Watched)
                      /\ pgd[Self][Page(WatchedAddress)] # Unmapped

MemoryInv ==
  /\ IInv /\ (~uaf => Below) /\ Asked /\ Limit /\ ByteTypes
  /\ Backed /\ BytesKept

-----------------------------------------------------------------------------
(* Whole pages                                                             *)

(* Numbers of pages and the bytes in them.                                 *)
LEMMA Times ==
  ASSUME NEW a \in Nat, NEW b \in Nat
  PROVE  /\ a * PAGESZ \in Nat
         /\ (a + b) * PAGESZ = a * PAGESZ + b * PAGESZ
         /\ a <= b => a * PAGESZ <= b * PAGESZ
         /\ a < b => a * PAGESZ + PAGESZ <= b * PAGESZ
<1>1. PICK P \in Nat : P = PAGESZ /\ P > 0
  BY PagesAssumption
<1>2. /\ a * P \in Nat /\ b * P \in Nat /\ (a + b) * P = a * P + b * P
      /\ (a + 1) * P = a * P + P
  OBVIOUS
<1>3. ASSUME a <= b PROVE a * P <= b * P
  BY <1>3
<1>4. ASSUME a < b PROVE a * P + P <= b * P
  <2>1. (a + 1) * P <= b * P
    BY <1>4
  <2>2. QED
    BY <1>2, <2>1
<1>5. QED
  BY <1>1, <1>2, <1>3, <1>4

(* The page of a byte, and its place there.                                *)
LEMMA PageOfByte ==
  ASSUME NEW b \in Nat
  PROVE  /\ Page(b) \in Nat /\ InPage(b) \in Offset
         /\ Page(b) * PAGESZ <= b /\ b < Page(b) * PAGESZ + PAGESZ
         /\ \A k \in Nat : b <= k * PAGESZ => Page(b) <= k
         /\ \A k \in Nat : b < k * PAGESZ => Page(b) < k
         /\ \A k \in Nat : k * PAGESZ <= b => k <= Page(b)
<1>1. PICK P \in Nat : P = PAGESZ /\ P > 0
  BY PagesAssumption
<1>2. PICK q : q = b \div P
  OBVIOUS
<1>3. /\ q \in Nat /\ P * q <= b /\ b < P * q + P /\ b % P \in 0 .. P - 1
  BY <1>1, <1>2
<1>4. q = Page(b) /\ P * q = q * PAGESZ
  BY <1>1, <1>2, <1>3 DEF Page
<1>5. InPage(b) \in Offset
  BY <1>1, <1>3 DEF InPage, Offset
<1>6. q * PAGESZ \in Nat /\ q * PAGESZ <= b /\ b < q * PAGESZ + PAGESZ
  BY <1>3, <1>4, <1>1
<1>7. ASSUME NEW k \in Nat
      PROVE  /\ b < k * PAGESZ => q < k
             /\ b <= k * PAGESZ => q <= k
             /\ k * PAGESZ <= b => k <= q
  <2>1. k * PAGESZ \in Nat /\ PAGESZ \in Nat /\ PAGESZ > 0
    BY <1>1, Times
  <2>2. /\ k <= q => k * PAGESZ <= q * PAGESZ
        /\ k < q => k * PAGESZ + PAGESZ <= q * PAGESZ
        /\ q < k => q * PAGESZ + PAGESZ <= k * PAGESZ
    BY <1>3, Times
  <2>3. q \in Nat
    BY <1>3
  <2>4. QED
    BY <1>6, <2>1, <2>2, <2>3
<1>8. QED
  BY <1>3, <1>4, <1>5, <1>6, <1>7

(* Rounding up gives the first whole page that is not below.               *)
LEMMA AlignIs ==
  ASSUME NEW n \in Nat
  PROVE  \E q \in Nat : /\ Regions!Align(n) = q * PAGESZ
                        /\ n <= q * PAGESZ
                        /\ \A k \in Nat : n <= k * PAGESZ => q <= k
<1>1. PICK a \in Nat : a = n + PAGESZ - 1
  BY PagesAssumption
<1>2. PICK q \in Nat : q = Page(a)
  BY PageOfByte
<1>3. Regions!Align(n) = q * PAGESZ
  BY <1>1, <1>2 DEF Page, Regions!Align
<1>4. /\ q * PAGESZ <= a /\ a < q * PAGESZ + PAGESZ
      /\ q * PAGESZ \in Nat /\ PAGESZ \in Nat
  BY <1>2, PageOfByte, Times, PagesAssumption
<1>5. n <= q * PAGESZ
  BY <1>1, <1>4
<1>6. ASSUME NEW k \in Nat, n <= k * PAGESZ PROVE q <= k
  <2>1. SUFFICES ASSUME k < q PROVE FALSE
    BY <1>2
  <2>2. k * PAGESZ + PAGESZ <= q * PAGESZ /\ k * PAGESZ \in Nat
    BY <2>1, Times
  <2>3. QED
    BY <1>1, <1>4, <1>6, <2>2
<1>7. QED
  BY <1>3, <1>5, <1>6

(* As long as the last page has room, rounding up gives the same.          *)
LEMMA AlignSame ==
  ASSUME NEW m \in Nat, NEW n \in Nat, m <= n, n <= Regions!Align(m)
  PROVE  Regions!Align(n) = Regions!Align(m)
<1>1. PICK a \in Nat : /\ Regions!Align(m) = a * PAGESZ
                       /\ m <= a * PAGESZ
                       /\ \A k \in Nat : m <= k * PAGESZ => a <= k
  BY AlignIs
<1>2. PICK c \in Nat : /\ Regions!Align(n) = c * PAGESZ
                       /\ n <= c * PAGESZ
                       /\ \A k \in Nat : n <= k * PAGESZ => c <= k
  BY AlignIs
<1>3. c <= a
  BY <1>1, <1>2
<1>4. m <= c * PAGESZ
  BY <1>2, Times
<1>5. a <= c
  BY <1>1, <1>4
<1>6. a = c
  BY <1>3, <1>5
<1>7. QED
  BY <1>1, <1>2, <1>6

(* inc_vma_limit asks for whole pages.                                     *)
LEMMA IncIsPages ==
  ASSUME NEW n \in Nat, NEW size \in Nat, n = sbrk
  PROVE  LET num == Regions!IncAmount(size) \div PAGESZ
         IN /\ num \in Nat /\ num * PAGESZ = Regions!IncAmount(size)
            /\ Regions!Align(n + size)
                 = Regions!Align(n) + Regions!IncAmount(size)
            /\ Regions!Align(n) \in Nat
<1>1. PICK a \in Nat : /\ Regions!Align(n) = a * PAGESZ
                       /\ n <= a * PAGESZ
                       /\ \A k \in Nat : n <= k * PAGESZ => a <= k
  BY AlignIs
<1>2. size + n \in Nat /\ n + size = size + n
  OBVIOUS
<1>3. PICK c \in Nat : /\ Regions!Align(size + n) = c * PAGESZ
                       /\ size + n <= c * PAGESZ
                       /\ \A k \in Nat : size + n <= k * PAGESZ => c <= k
  BY <1>2, AlignIs
<1>4. a <= c
  <2>1. n <= c * PAGESZ
    BY <1>3, Times
  <2>2. QED
    BY <1>1, <2>1
<1>5. PICK d \in Nat : c = a + d
  <2>1. c - a \in Nat /\ c = a + (c - a)
    BY <1>4
  <2>2. QED
    BY <2>1
<1>6. c * PAGESZ = a * PAGESZ + d * PAGESZ /\ a * PAGESZ \in Nat
      /\ d * PAGESZ \in Nat
  BY <1>5, Times
<1>7. Regions!IncAmount(size) = d * PAGESZ
  <2>1. Regions!IncAmount(size) = c * PAGESZ - a * PAGESZ
    BY <1>1, <1>3 DEF Regions!IncAmount
  <2>2. QED
    BY <1>6, <2>1
<1>8. (d * PAGESZ) \div PAGESZ = d
  <2>1. PICK P \in Nat : P = PAGESZ /\ P > 0
    BY PagesAssumption
  <2>2. (P * d) \div P = d /\ d * P = P * d
    BY <2>1
  <2>3. QED
    BY <2>1, <2>2
<1>9. QED
  BY <1>1, <1>2, <1>3, <1>6, <1>7, <1>8

(* The pages of a region that starts and ends with a page.                 *)
LEMMA PagesOfRun ==
  ASSUME NEW a \in Nat, NEW n \in Nat
  PROVE  Regions!PagesOf(<<a * PAGESZ, a * PAGESZ + n * PAGESZ>>)
           = a .. a + n - 1
<1>1. PICK c \in Nat : c = a + n
  OBVIOUS
<1>2. PICK lo \in Nat : lo = a * PAGESZ
  BY Times
<1>3. PICK hi \in Nat : hi = c * PAGESZ
  BY Times
<1>4. hi = a * PAGESZ + n * PAGESZ
  BY <1>1, <1>3, Times
<1>5. Regions!PagesOf(<<a * PAGESZ, a * PAGESZ + n * PAGESZ>>)
        = {Page(b) : b \in lo .. hi - 1}
  BY <1>2, <1>4 DEF Regions!PagesOf, Regions!Bytes, Page
<1>6. ASSUME NEW b \in lo .. hi - 1
      PROVE  Page(b) \in a .. c - 1
  <2>1. b \in Nat /\ lo <= b /\ b < hi
    OBVIOUS
  <2>2. Page(b) \in Nat /\ a <= Page(b) /\ Page(b) < c
    BY <1>2, <1>3, <2>1, PageOfByte
  <2>3. QED
    BY <2>2
<1>7. ASSUME NEW q \in a .. c - 1
      PROVE  \E b \in lo .. hi - 1 : Page(b) = q
  <2>1. q \in Nat /\ a <= q /\ q < c
    OBVIOUS
  <2>2. PICK b \in Nat : b = q * PAGESZ
    BY <2>1, Times
  <2>3. lo <= b /\ b + PAGESZ <= hi /\ PAGESZ \in Nat /\ PAGESZ > 0
    BY <1>2, <1>3, <2>1, <2>2, Times, PagesAssumption
  <2>4. q <= Page(b) /\ Page(b) <= q /\ Page(b) \in Nat
    BY <2>1, <2>2, PageOfByte
  <2>5. b \in lo .. hi - 1 /\ Page(b) = q
    BY <2>1, <2>3, <2>4
  <2>6. QED
    BY <2>5
<1>8. {Page(b) : b \in lo .. hi - 1} = a .. c - 1
  BY <1>6, <1>7
<1>9. a .. c - 1 = a .. a + n - 1
  BY <1>1
<1>10. QED
  BY <1>5, <1>8, <1>9, Zenon

-----------------------------------------------------------------------------
(* Regions below the break                                                 *)

(* A finite set of numbers has its maximum.                                *)
LEMMA MaxIsThere ==
  ASSUME NEW n \in Nat, NEW S, S \subseteq 1 .. n, S # {}
  PROVE  Regions!Max(S) \in S
<1>1. PICK T : T = {n - x : x \in S}
  OBVIOUS
<1>2. T \subseteq Nat /\ T # {}
  <2>1. PICK z : z \in S
    OBVIOUS
  <2>2. n - z \in T
    BY <1>1, <2>1
  <2>3. ASSUME NEW t \in T PROVE t \in Nat
    BY <1>1
  <2>4. QED
    BY <2>2, <2>3
<1>3. PICK R : R = OpToRel(<, Nat)
  BY Zenon
<1>4. \A a, b \in Nat : a < b => <<a, b>> \in R
  BY <1>3 DEF OpToRel
<1>5. IsWellFoundedOn(R, Nat)
  BY <1>3, NatLessThanWellFounded, Zenon
<1>6. PICK t \in T : \A u \in T : ~(<<u, t>> \in R)
  BY <1>2, <1>5, WFMin, Zenon
<1>7. PICK x \in S : t = n - x
  BY <1>1
<1>8. ASSUME NEW y \in S PROVE x >= y
  <2>1. n - y \in T /\ n - y \in Nat /\ t \in Nat
    BY <1>1, <1>2
  <2>2. ~(n - y < t)
    BY <1>4, <1>6, <2>1
  <2>3. x \in Nat /\ y \in Nat
    OBVIOUS
  <2>4. QED
    BY <1>7, <2>2, <2>3
<1>9. QED
  BY <1>8 DEF Regions!Max

LEMMA IsSeq ==
  ASSUME NEW S, NEW n \in Nat, NEW d, d = [k \in 1 .. n |-> d[k]],
         \A k \in 1 .. n : d[k] \in S
  PROVE  d \in Seq(S)
<1>1. d \in [1 .. n -> S]
  OBVIOUS
<1>2. QED
  BY <1>1

(* Deleting a node leaves a list of nodes of the same kind, as long as the *)
(* last node may become empty at its end.                                  *)
LEMMA Deleted ==
  ASSUME NEW top \in Nat, NEW l \in Seq(Region(top)), NEW i \in Nat \ {0}
  PROVE  Regions!DeleteNode(l, i) \in Seq(Region(top))
<1>1. PICK n \in Nat : n = Len(l)
  OBVIOUS
<1>2. PICK S : S = Region(top)
  OBVIOUS
<1>3. CASE i < n
  <2>1. PICK a : a = SubSeq(l, 1, i - 1)
    OBVIOUS
  <2>2. PICK c : c = SubSeq(l, i + 1, n)
    OBVIOUS
  <2>3. l \in Seq(S)
    BY <1>2
  <2>4. a \in Seq(S)
    BY <1>1, <1>3, <2>1, <2>3
  <2>5. c \in Seq(S)
    BY <1>1, <1>3, <2>2, <2>3
  <2>6. a \o c \in Seq(S)
    BY <2>4, <2>5
  <2>7. Regions!DeleteNode(l, i) = a \o c
    BY <1>1, <1>3, <2>1, <2>2 DEF Regions!DeleteNode, Regions!RemoveAt
  <2>8. QED
    BY <1>2, <2>6, <2>7
<1>4. CASE ~(i < n)
  <2>1. Regions!DeleteNode(l, i) = [l EXCEPT ![i][1] = l[i][2]]
    BY <1>1, <1>4 DEF Regions!DeleteNode
  <2>2. PICK d : d = [l EXCEPT ![i][1] = l[i][2]]
    OBVIOUS
  <2>3. ASSUME NEW k \in 1 .. n PROVE d[k] \in Region(top)
    BY <1>1, <2>2, <2>3 DEF Region
  <2>4. d \in Seq(Region(top))
    <3>0. DOMAIN l = 1 .. n
      BY <1>1
    <3>1. d = [k \in 1 .. n |-> d[k]]
      <4>1. d = [k \in DOMAIN l |-> d[k]]
        BY <2>2
      <4>2. QED
        BY <3>0, <4>1
    <3>2. QED
      BY <2>3, <3>1, IsSeq
  <2>5. QED
    BY <2>1, <2>2, <2>4
<1>5. QED
  BY <1>3, <1>4

(* The start of a node moves.                                              *)
LEMMA StartMoved ==
  ASSUME NEW top \in Nat, NEW l \in Seq(Region(top)), NEW i, NEW x \in Nat
  PROVE  [l EXCEPT ![i][1] = x] \in Seq(Region(top))
<1>1. PICK n \in Nat : n = Len(l)
  OBVIOUS
<1>2. PICK d : d = [l EXCEPT ![i][1] = x]
  OBVIOUS
<1>3. ASSUME NEW k \in 1 .. n PROVE d[k] \in Region(top)
  <2>1. l[k] \in Region(top)
    BY <1>1
  <2>2. /\ l[k] = <<l[k][1], l[k][2]>> /\ l[k][1] \in Nat /\ l[k][2] \in Nat
        /\ l[k][2] <= top
    BY <2>1 DEF Region
  <2>3. d[k] = IF k = i THEN [l[k] EXCEPT ![1] = x] ELSE l[k]
    BY <1>1, <1>2
  <2>4. [l[k] EXCEPT ![1] = x] = <<x, l[k][2]>>
    BY <2>2
  <2>5. <<x, l[k][2]>> \in Region(top)
    BY <2>2 DEF Region
  <2>6. QED
    BY <2>1, <2>3, <2>4, <2>5
<1>4. d = [k \in 1 .. n |-> d[k]]
  <2>1. d = [k \in DOMAIN l |-> d[k]]
    BY <1>2
  <2>2. DOMAIN l = 1 .. n
    BY <1>1
  <2>3. QED
    BY <2>1, <2>2
<1>5. d \in Seq(Region(top))
  BY <1>3, <1>4, IsSeq
<1>6. QED
  BY <1>2, <1>5

(* The end of a node moves.                                                *)
LEMMA EndMoved ==
  ASSUME NEW top \in Nat, NEW l \in Seq(Region(top)), NEW i, NEW x \in 0 .. top
  PROVE  [l EXCEPT ![i][2] = x] \in Seq(Region(top))
<1>1. PICK n \in Nat : n = Len(l)
  OBVIOUS
<1>2. PICK d : d = [l EXCEPT ![i][2] = x]
  OBVIOUS
<1>3. ASSUME NEW k \in 1 .. n PROVE d[k] \in Region(top)
  <2>1. l[k] \in Region(top)
    BY <1>1
  <2>2. /\ l[k] = <<l[k][1], l[k][2]>> /\ l[k][1] \in Nat /\ l[k][2] \in Nat
        /\ l[k][2] <= top
    BY <2>1 DEF Region
  <2>3. d[k] = IF k = i THEN [l[k] EXCEPT ![2] = x] ELSE l[k]
    BY <1>1, <1>2
  <2>4. [l[k] EXCEPT ![2] = x] = <<l[k][1], x>>
    BY <2>2
  <2>5. <<l[k][1], x>> \in Region(top)
    BY <2>2 DEF Region
  <2>6. QED
    BY <2>1, <2>3, <2>4, <2>5
<1>4. d = [k \in 1 .. n |-> d[k]]
  <2>1. d = [k \in DOMAIN l |-> d[k]]
    BY <1>2
  <2>2. DOMAIN l = 1 .. n
    BY <1>1
  <2>3. QED
    BY <2>1, <2>2
<1>5. d \in Seq(Region(top))
  BY <1>3, <1>4, IsSeq
<1>6. QED
  BY <1>2, <1>5

(* What the steps on the regions do not touch.                             *)
LEMMA RegionTypes ==
  ASSUME Below, NEW r \in Reg
  PROVE  /\ sbrk \in Nat /\ sbrk <= MaxPgn * PAGESZ /\ MaxPgn * PAGESZ \in Nat
         /\ symrgtbl[r][1] \in Nat /\ symrgtbl[r][2] \in 0 .. sbrk
         /\ \A i \in DOMAIN vm_freerg_list :
              /\ vm_freerg_list[i][1] \in Nat
              /\ vm_freerg_list[i][2] \in 0 .. sbrk
<1>1. MaxPgn * PAGESZ \in Nat
  BY Times, BoundsAssumption
<1>2. symrgtbl[r] \in Region(sbrk)
  BY DEF Below
<1>3. \A i \in DOMAIN vm_freerg_list : vm_freerg_list[i] \in Region(sbrk)
  BY DEF Below
<1>4. \A rg \in Region(sbrk) : rg[1] \in Nat /\ rg[2] \in Nat /\ rg[2] <= sbrk
  BY DEF Region
<1>5. QED
  BY <1>1, <1>2, <1>3, <1>4 DEF Below

(* get_free_vmrg_area.                                                     *)
LEMMA BelowFromList ==
  ASSUME Below, NEW r \in Reg, NEW size \in Nat,
         Regions!AllocFromFreeList(r, size)
  PROVE  Below'
<1>1. PICK l : l = vm_freerg_list
  OBVIOUS
<1>2. PICK top \in Nat : top = sbrk
  BY RegionTypes
<1>3. l \in Seq(Region(top)) /\ DOMAIN l \subseteq Nat \ {0}
  <2>1. l \in Seq(Region(top))
    BY <1>1, <1>2 DEF Below
  <2>2. QED
    BY <2>1
<1>4. PICK i : i = Min(Regions!Fit(size))
  OBVIOUS
<1>5. i \in DOMAIN l /\ l[i][1] + size <= l[i][2]
  <2>1. Regions!Fit(size) \subseteq Nat /\ Regions!Fit(size) # {}
    BY <1>1, <1>3 DEF Regions!AllocFromFreeList, Regions!Fit
  <2>2. i \in Regions!Fit(size)
    BY <1>4, <2>1, MinIsThere
  <2>3. QED
    BY <1>1, <2>2 DEF Regions!Fit
<1>6. PICK x : x = l[i][1] + size
  OBVIOUS
<1>7. l[i][1] \in Nat /\ x \in 0 .. top
  BY <1>1, <1>2, <1>5, <1>6, RegionTypes
<1>8. Min(Regions!Fit(size)) = Regions!Min(Regions!Fit(size))
  BY DEF Min, Regions!Min
<1>9. /\ symrgtbl' = [symrgtbl EXCEPT ![r] = <<l[i][1], x>>]
      /\ vm_freerg_list' = IF x < l[i][2] THEN [l EXCEPT ![i][1] = x]
                                         ELSE Regions!DeleteNode(l, i)
      /\ sbrk' = sbrk
  BY <1>1, <1>4, <1>6, <1>8
     DEF Regions!AllocFromFreeList, Regions!Assign, Regions!areaVars
<1>10. symrgtbl' \in [Reg -> Region(top)]
  <2>1. <<l[i][1], x>> \in Region(top)
    BY <1>7 DEF Region
  <2>2. QED
    BY <1>2, <1>9, <2>1 DEF Below
<1>11. vm_freerg_list' \in Seq(Region(top))
  <2>1. [l EXCEPT ![i][1] = x] \in Seq(Region(top))
    <3>1. x \in Nat
      BY <1>7
    <3>2. QED
      BY <1>3, <3>1, StartMoved
  <2>2. Regions!DeleteNode(l, i) \in Seq(Region(top))
    BY <1>3, <1>5, Deleted
  <2>3. QED
    BY <1>9, <2>1, <2>2
<1>12. QED
  BY <1>2, <1>9, <1>10, <1>11 DEF Below

(* The bytes after the break.                                              *)
LEMMA BelowTakeBreak ==
  ASSUME Below, NEW r \in Reg, NEW size \in Nat, Regions!TakeBreak(r, size)
  PROVE  /\ Below' /\ sbrk' = sbrk + size /\ sbrk <= sbrk'
         /\ sbrk \in Nat /\ sbrk' \in Nat /\ uaf' = uaf
         /\ symrgtbl' = [symrgtbl EXCEPT ![r] = <<sbrk, sbrk + size>>]
<1>1. PICK top \in Nat : top = sbrk
  BY RegionTypes
<1>2. PICK top2 \in Nat : top2 = sbrk + size
  BY <1>1
<1>3. /\ top2 <= MaxPgn * PAGESZ /\ sbrk' = top2
      /\ symrgtbl' = [symrgtbl EXCEPT ![r] = <<sbrk, top2>>]
      /\ vm_freerg_list' = vm_freerg_list /\ uaf' = uaf
  BY <1>2 DEF Regions!TakeBreak, Regions!Assign
<1>4. Region(top) \subseteq Region(top2) /\ <<top, top2>> \in Region(top2)
  BY <1>1, <1>2 DEF Region
<1>5. symrgtbl' \in [Reg -> Region(top2)]
  BY <1>1, <1>3, <1>4 DEF Below
<1>6. PICK S : S = Region(top)
  OBVIOUS
<1>7. PICK S2 : S2 = Region(top2)
  OBVIOUS
<1>8. vm_freerg_list' \in Seq(S2)
  <2>1. vm_freerg_list \in Seq(S) /\ S \subseteq S2
    BY <1>1, <1>4, <1>6, <1>7 DEF Below
  <2>2. QED
    BY <1>3, <2>1
<1>9. top2 \in 0 .. MaxPgn * PAGESZ
  BY <1>3, RegionTypes
<1>10. Below'
  BY <1>3, <1>5, <1>7, <1>8, <1>9 DEF Below
<1>11. QED
  BY <1>1, <1>2, <1>3, <1>10

(* __free, unless it uses a node it has freed.                             *)
LEMMA BelowFree ==
  ASSUME Below, NEW r \in Reg, Regions!Free(r), ~uaf'
  PROVE  Below' /\ sbrk' = sbrk
<1>1. PICK l : l = vm_freerg_list
  OBVIOUS
<1>2. PICK top \in Nat : top = sbrk
  BY RegionTypes
<1>3. PICK n \in Nat : n = Len(l)
  BY <1>1 DEF Below
<1>4. l \in Seq(Region(top)) /\ DOMAIN l = 1 .. n
  <2>1. l \in Seq(Region(top))
    BY <1>1, <1>2 DEF Below
  <2>2. QED
    BY <1>3, <2>1
<1>5. PICK rg : rg = symrgtbl[r]
  OBVIOUS
<1>6. rg \in Region(top) /\ rg[1] \in Nat /\ rg[2] \in 0 .. top
  BY <1>2, <1>5, RegionTypes DEF Below
<1>7. symrgtbl' = [symrgtbl EXCEPT ![r] = <<0, 0>>] /\ sbrk' = sbrk
  BY DEF Regions!Free, Regions!FreeEmpty, Regions!Clear, Regions!None,
         Regions!areaVars
<1>8. symrgtbl' \in [Reg -> Region(top)]
  <2>1. <<0, 0>> \in Region(top)
    BY DEF Region
  <2>2. QED
    BY <1>2, <1>7, <2>1 DEF Below
<1>9. vm_freerg_list' \in Seq(Region(top))
  <2>1. CASE vm_freerg_list' = vm_freerg_list
    BY <1>1, <1>4, <2>1
  <2>2. CASE Regions!FreeAlone(r, rg)
    <3>1. vm_freerg_list' = <<rg>> \o l
      BY <1>1, <2>2 DEF Regions!FreeAlone
    <3>2. QED
      BY <1>4, <1>6, <3>1, Prepended
  <2>3. CASE Regions!FreeMergeUp(r, rg)
    <3>1. PICK i : vm_freerg_list' = [l EXCEPT ![i][1] = rg[1]]
      BY <1>1, <2>3 DEF Regions!FreeMergeUp
    <3>2. QED
      BY <1>4, <1>6, <3>1, StartMoved
  <2>4. CASE Regions!FreeMergeDown(r, rg)
    <3>1. PICK i : vm_freerg_list' = [l EXCEPT ![i][2] = rg[2]]
      BY <1>1, <2>4 DEF Regions!FreeMergeDown
    <3>2. QED
      BY <1>4, <1>6, <3>1, EndMoved
  <2>5. CASE Regions!FreeMergeBoth(r, rg)
    <3>1. PICK i : i = Regions!Max(Regions!Up(rg))
      OBVIOUS
    <3>2. PICK k : k = Regions!Max(Regions!Down(rg))
      OBVIOUS
    <3>3. i \in 1 .. n /\ k \in 1 .. n
      <4>1. /\ Regions!Up(rg) \subseteq 1 .. n /\ Regions!Up(rg) # {}
            /\ Regions!Down(rg) \subseteq 1 .. n /\ Regions!Down(rg) # {}
        BY <1>1, <1>4, <2>5
           DEF Regions!FreeMergeBoth, Regions!Up, Regions!Down, Regions!Walk
      <4>2. i \in Regions!Up(rg) /\ k \in Regions!Down(rg)
        BY <3>1, <3>2, <4>1, MaxIsThere
      <4>3. QED
        BY <4>1, <4>2
    <3>4. PICK j : j = IF k > i THEN k - 1 ELSE k
      OBVIOUS
    <3>5. vm_freerg_list' =
            <<<<l[k][1], l[i][2]>>>>
              \o Regions!DeleteNode(Regions!DeleteNode(l, i), j)
      BY <1>1, <2>5, <3>1, <3>2, <3>4 DEF Regions!FreeMergeBoth
    <3>6. <<l[k][1], l[i][2]>> \in Region(top)
      <4>1. l[k][1] \in Nat /\ l[i][2] \in 0 .. top
        BY <1>1, <1>2, <1>4, <3>3, RegionTypes
      <4>2. QED
        BY <4>1 DEF Region
    <3>7. i \in Nat \ {0} /\ j \in Nat \ {0}
      BY <3>3, <3>4
    <3>8. Regions!DeleteNode(l, i) \in Seq(Region(top))
      BY <1>4, <3>7, Deleted
    <3>9. Regions!DeleteNode(Regions!DeleteNode(l, i), j) \in Seq(Region(top))
      BY <3>7, <3>8, Deleted
    <3>10. QED
      BY <3>5, <3>6, <3>9, Prepended
  <2>6. QED
    BY <1>5, <2>1, <2>2, <2>3, <2>4, <2>5 DEF Regions!Free, Regions!FreeEmpty
<1>10. QED
  BY <1>2, <1>7, <1>8, <1>9 DEF Below

-----------------------------------------------------------------------------
(* The area and the request                                                *)

(* The addresses that an instruction can reach.                            *)
LEMMA Reached ==
  ASSUME Below, NEW r \in Reg, NEW o \in 0 .. Size(r)
  PROVE  /\ Address(r, o) \in Nat /\ Address(r, o) <= sbrk
         /\ o < Size(r) => Address(r, o) < sbrk
         /\ Page(Address(r, o)) \in Pgn /\ InPage(Address(r, o)) \in Offset
<1>1. /\ symrgtbl[r][1] \in Nat /\ symrgtbl[r][2] \in Nat
      /\ symrgtbl[r][2] <= sbrk /\ sbrk \in Nat
      /\ sbrk <= MaxPgn * PAGESZ /\ MaxPgn * PAGESZ \in Nat
  BY RegionTypes
<1>2. PICK a : a = Address(r, o)
  OBVIOUS
<1>3. a \in Nat /\ a <= sbrk /\ (o < Size(r) => a < sbrk)
  BY <1>1, <1>2 DEF Address, Size
<1>4. Page(a) \in Nat /\ Page(a) <= MaxPgn /\ InPage(a) \in Offset
  BY <1>1, <1>3, PageOfByte, BoundsAssumption
<1>5. Page(a) \in Pgn
  BY <1>4, BoundsAssumption DEF Pgn
<1>6. QED
  BY <1>2, <1>3, <1>4, <1>5

(* The pages of the area before the request.                               *)
LEMMA EndIs ==
  ASSUME IInv, Asked
  PROVE  /\ limit[Self] \in Pgn /\ limit[Self] \in Nat
         /\ request.pages \in Nat /\ limit[Self] - request.pages \in Nat
         /\ End \in Nat
         /\ request = NoRequest => request.pages = 0
<1>1. limit[Self] \in Pgn /\ limit[Self] \in Nat
  BY SelfAssumption, BoundsAssumption DEF IInv, TypeOK, Pgn
<1>2. request.pages \in Nat /\ limit[Self] - request.pages \in Nat
      /\ (request = NoRequest => request.pages = 0)
  <2>1. CASE request = NoRequest
    BY <1>1, <2>1 DEF NoRequest
  <2>2. CASE request # NoRequest
    <3>1. request.pages \in Nat /\ request.pages = Requested(Self)
      BY <2>2 DEF Asked
    <3>2. Requested(Self) <= limit[Self]
      BY SelfAssumption DEF IInv, Requests, RequestOK
    <3>3. QED
      BY <1>1, <2>2, <3>1, <3>2
  <2>3. QED
    BY <2>1, <2>2
<1>3. End \in Nat
  BY <1>2, Times DEF End
<1>4. QED
  BY <1>1, <1>2, <1>3

(* What Self allocates is not disturbed.                                   *)
SelfAlone ==
  /\ limit'[Self] = limit[Self] /\ request' = request /\ sbrk' = sbrk
  /\ Requested(Self)' = Requested(Self)
  /\ apc'[Self] = "idle" <=> apc[Self] = "idle"
LEMMA AskedStays ==
  ASSUME Asked, Limit, SelfAlone
  PROVE  Asked' /\ Limit'
<1>1. End' = End
  BY DEF End, SelfAlone
<1>2. Limit'
  BY <1>1 DEF Limit, SelfAlone, Regions!Align
<1>3. CASE request = NoRequest
  BY <1>2, <1>3 DEF Asked, SelfAlone
<1>4. CASE request # NoRequest
  <2>1. /\ request' # NoRequest
        /\ request' \in [reg : Reg, size : Sizes, pages : Nat]
        /\ apc'[Self] # "idle" /\ request'.pages = Requested(Self)'
        /\ End' <= RamFrames * PAGESZ
    BY <1>1, <1>4 DEF Asked, SelfAlone
  <2>2. Regions!IncAmount(request.size)' = Regions!IncAmount(request.size)
    BY DEF SelfAlone, Regions!IncAmount, Regions!Align
  <2>3. Regions!MustGrow(request.size)' <=> Regions!MustGrow(request.size)
    BY DEF SelfAlone, Regions!MustGrow, Regions!Align
  <2>4. QED
    BY <1>2, <1>4, <2>1, <2>2, <2>3 DEF Asked, SelfAlone
<1>5. QED
  BY <1>2, <1>3, <1>4

-----------------------------------------------------------------------------
(* Bytes                                                                   *)

Row == [Offset -> BOOLEAN]

(* An entry with a frame names one of RAM when it is present, else one of  *)
(* swap; Unmapped looks like the first one of swap.                        *)
LEMMA EntryFrame ==
  ASSUME NEW pte \in Entry
  PROVE  /\ pte.present \in BOOLEAN
         /\ pte.present => pte.n \in RamFrame /\ pte = OnFrame(pte.n)
         /\ ~pte.present => pte.n \in SwapFrame
         /\ \A f : pte = OnFrame(f) =>
                     pte.present /\ pte.n = f /\ f \in RamFrame
         /\ pte.present => pte # Unmapped
<1>1. 0 \in SwapFrame
  BY FramesAssumption DEF SwapFrame
<1>2. CASE pte = Unmapped
  BY <1>1, <1>2 DEF Unmapped, OnFrame
<1>3. CASE \E f \in RamFrame : pte = OnFrame(f)
  BY <1>3 DEF OnFrame, Unmapped
<1>4. CASE \E f \in SwapFrame : pte = OnSwap(f)
  BY <1>4 DEF OnFrame, OnSwap
<1>5. QED
  BY <1>2, <1>3, <1>4 DEF Entry

(* The copies of a page fault are those of Paging, byte by byte.           *)
LEMMA BytesCopied ==
  ASSUME IInv, ByteTypes, NEW p \in Proc, NEW pgn \in Pgn,
         NEW s \in SwapTarget, GetPage(p, pgn, s)
  PROVE  /\ Copied(ram_bytes, swp_bytes, VictimFrame(p), s, pgd[p][pgn].n,
                   SwapBytes(p, pgn).ram, SwapBytes(p, pgn).swp)
         /\ SwapBytes(p, pgn).ram \in [RamFrame -> Row]
         /\ SwapBytes(p, pgn).swp \in [SwapFrame -> Row]
<1>1. /\ pgd'[p][Victim(p)] = OnSwap(s) /\ VictimFrame(p) \in RamFrame
      /\ s \in SwapFrame
  BY GetPageEffect DEF IInv, Exchange
<1>2. PICK n : n = pgd[p][pgn].n
  OBVIOUS
<1>3. n \in SwapFrame
  <2>1. pgd[p][pgn] \in Entry /\ ~pgd[p][pgn].present
    BY DEF IInv, TypeOK, GetPage
  <2>2. QED
    BY <1>2, <2>1, EntryFrame
<1>4. PICK f \in RamFrame : f = VictimFrame(p)
  BY <1>1
<1>5. /\ ram_bytes \in [RamFrame -> Row] /\ swp_bytes \in [SwapFrame -> Row]
  BY DEF ByteTypes, Row
<1>6. \A from \in Row : \A to : CopyPage(from, to) = from
  BY DEF CopyPage, Row
<1>7. PICK stored : stored = [swp_bytes EXCEPT ![s] = ram_bytes[f]]
  OBVIOUS
<1>8. PICK loaded : loaded = [ram_bytes EXCEPT ![f] = stored[n]]
  OBVIOUS
<1>9. stored \in [SwapFrame -> Row] /\ loaded \in [RamFrame -> Row]
  BY <1>1, <1>3, <1>5, <1>7, <1>8
<1>10. pgd'[p][Victim(p)].n = s
  BY <1>1 DEF OnSwap
<1>11. CopyPage(ram_bytes[f], swp_bytes[s]) = ram_bytes[f]
  BY <1>5, <1>6
<1>12. CopyPage(stored[n], ram_bytes[f]) = stored[n]
  BY <1>3, <1>6, <1>9
<1>13. SwapBytes(p, pgn).swp = stored
  BY <1>4, <1>7, <1>10, <1>11 DEF SwapBytes
<1>14. SwapBytes(p, pgn).ram = loaded
  BY <1>2, <1>4, <1>7, <1>8, <1>10, <1>11, <1>12 DEF SwapBytes
<1>15. Copied(ram_bytes, swp_bytes, f, s, n, loaded, stored)
  BY <1>5, <1>7, <1>8 DEF Copied
<1>16. QED
  BY <1>2, <1>4, <1>9, <1>13, <1>14, <1>15

(* A byte where a page table entry says that it is.                        *)
LEMMA ByteIs ==
  ASSUME NEW addr
  PROVE  Byte(addr) = Content(ram_bytes, swp_bytes,
                              pgd[Self][Page(addr)])[InPage(addr)]
BY DEF Byte, Content

(* A page that comes in from swap, and the one that makes room for it,     *)
(* keep their bytes; all others have theirs anyway.                        *)
LEMMA FaultKeepsBytes ==
  ASSUME IInv, ByteTypes, NEW p \in Proc, NEW pgn \in Pgn,
         NEW s \in SwapTarget, GetPage(p, pgn, s), ~wild',
         NEW m \in Pgn, pgd[Self][m] # Unmapped
  PROVE  /\ pgd'[Self][m] # Unmapped
         /\ Content(SwapBytes(p, pgn).ram, SwapBytes(p, pgn).swp, pgd'[Self][m])
              = Content(ram_bytes, swp_bytes, pgd[Self][m])
<1>1. PICK v : v = Victim(p)
  OBVIOUS
<1>2. PICK f : f = VictimFrame(p)
  OBVIOUS
<1>3. Exchange(p, v, f, pgn, s)
  BY <1>1, <1>2, GetPageEffect DEF IInv
<1>4. pgd'[Self][m] # Unmapped
  <2>1. \A g : OnFrame(g) # Unmapped /\ OnSwap(g) # Unmapped
    BY DEF OnFrame, OnSwap, Unmapped
  <2>2. QED
    BY <1>3, <2>1, SelfAssumption DEF Exchange
<1>5. Fault(p, pgn, s)
  BY DEF Fault, IInv
<1>6. PICK A2 : A2 = SwapBytes(p, pgn).ram
  OBVIOUS
<1>7. PICK B2 : B2 = SwapBytes(p, pgn).swp
  OBVIOUS
<1>8. Copied(ram_bytes, swp_bytes, VictimFrame(p), s, pgd[p][pgn].n, A2, B2)
  BY <1>6, <1>7, BytesCopied
<1>9. SameContent(ram_bytes, swp_bytes, A2, B2)
  BY <1>5, <1>8, PagesMove
<1>10. QED
  BY <1>4, <1>6, <1>7, <1>9, SelfAssumption DEF SameContent

(* A write changes the byte it reaches and no other.                       *)
LEMMA OtherBytes ==
  ASSUME NEW A \in [RamFrame -> Row], NEW B, NEW pte \in Entry,
         NEW fpn, NEW off \in Offset, NEW byte \in BOOLEAN, NEW at \in Offset,
         ~(at = off /\ pte = OnFrame(fpn))
  PROVE  Content(SetByte(A, fpn, off, byte), B, pte)[at]
           = Content(A, B, pte)[at]
<1>1. CASE ~pte.present
  BY <1>1 DEF Content
<1>2. CASE pte.present
  <2>1. PICK f \in RamFrame : f = pte.n /\ pte = OnFrame(f)
    BY <1>2, EntryFrame
  <2>2. A[f] \in Row /\ DOMAIN A[f] = Offset
    BY DEF Row
  <2>3. SetByte(A, fpn, off, byte)[f]
          = IF f = fpn THEN [A[f] EXCEPT ![off] = byte] ELSE A[f]
    BY DEF SetByte
  <2>4. SetByte(A, fpn, off, byte)[f][at] = A[f][at]
    BY <2>1, <2>2, <2>3
  <2>5. QED
    BY <1>2, <2>1, <2>4 DEF Content
<1>3. QED
  BY <1>1, <1>2

LEMMA ThisByte ==
  ASSUME NEW A \in [RamFrame -> Row], NEW B, NEW fpn \in RamFrame,
         NEW off \in Offset, NEW byte \in BOOLEAN
  PROVE  Content(SetByte(A, fpn, off, byte), B, OnFrame(fpn))[off] = byte
<1>1. A[fpn] \in Row /\ DOMAIN A[fpn] = Offset
  BY DEF Row
<1>2. SetByte(A, fpn, off, byte)[fpn] = [A[fpn] EXCEPT ![off] = byte]
  BY DEF SetByte
<1>3. SetByte(A, fpn, off, byte)[fpn][off] = byte
  BY <1>1, <1>2
<1>4. QED
  BY <1>3 DEF Content, OnFrame

LEMMA SetByteTyped ==
  ASSUME NEW A \in [RamFrame -> Row], NEW fpn, NEW off \in Offset,
         NEW byte \in BOOLEAN
  PROVE  SetByte(A, fpn, off, byte) \in [RamFrame -> Row]
<1>1. ASSUME NEW f \in RamFrame PROVE [A[f] EXCEPT ![off] = byte] \in Row
  BY DEF Row
<1>2. QED
  BY <1>1 DEF SetByte

(* The byte that is followed stays where the page table says that it is.   *)
WatchKept(A, B) ==
  kept' /\ Followed' =>
    /\ kept /\ Followed
    /\ symrgtbl'[Watched] = symrgtbl[Watched] /\ watch' = watch
    /\ LET m == Page(WatchedAddress)
           at == InPage(WatchedAddress)
       IN pgd[Self][m] # Unmapped =>
            /\ pgd'[Self][m] # Unmapped
            /\ Content(A, B, pgd'[Self][m])[at]
                 = Content(ram_bytes, swp_bytes, pgd[Self][m])[at]

LEMMA WatchedPage ==
  ASSUME ~uaf => Below, Backed, ByteTypes, kept, Followed
  PROVE  /\ Page(WatchedAddress) \in Pgn /\ InPage(WatchedAddress) \in Offset
         /\ watch < Size(Watched) /\ watch \in Nat
         /\ WatchedAddress \in Nat /\ WatchedAddress < sbrk /\ sbrk \in Nat
<1>1. Below /\ watch < Size(Watched) /\ watch \in Nat
  BY DEF Followed, Backed, ByteTypes
<1>2. watch \in 0 .. Size(Watched)
  BY <1>1, RegionTypes, SelfAssumption DEF Size
<1>3. QED
  BY <1>1, <1>2, Reached, RegionTypes, SelfAssumption DEF WatchedAddress

(* No write: it keeps its value.                                           *)
LEMMA NothingWritten ==
  ASSUME Backed, BytesKept, WatchKept(ram_bytes', swp_bytes')
  PROVE  Backed' /\ BytesKept'
<1> SUFFICES ASSUME kept', Followed'
             PROVE  /\ watch' < Size(Watched)'
                    /\ (pgd[Self][Page(WatchedAddress)] # Unmapped)'
                    /\ Byte(WatchedAddress)' = Mark
  BY DEF Backed, BytesKept, Mark
<1>1. PICK m : m = Page(WatchedAddress)
  OBVIOUS
<1>0. PICK at : at = InPage(WatchedAddress)
  OBVIOUS
<1>2. /\ kept /\ Followed
      /\ symrgtbl'[Watched] = symrgtbl[Watched] /\ watch' = watch
      /\ pgd[Self][m] # Unmapped =>
            /\ pgd'[Self][m] # Unmapped
            /\ Content(ram_bytes', swp_bytes', pgd'[Self][m])[at]
                 = Content(ram_bytes, swp_bytes, pgd[Self][m])[at]
  BY <1>0, <1>1 DEF WatchKept
<1>3. /\ watch < Size(Watched) /\ pgd[Self][m] # Unmapped
      /\ Byte(WatchedAddress) = Mark
  BY <1>1, <1>2 DEF Backed, BytesKept
<1>4. WatchedAddress' = WatchedAddress /\ Size(Watched)' = Size(Watched)
  BY <1>2 DEF WatchedAddress, Address, Size
<1>5. Content(ram_bytes, swp_bytes, pgd[Self][m])[at] = Mark
  BY <1>0, <1>1, <1>3, ByteIs
<1>6. Byte(WatchedAddress)'
        = Content(ram_bytes', swp_bytes', pgd'[Self][m])[at]
  BY <1>0, <1>1, <1>4 DEF Byte, Content
<1>7. QED
  BY <1>1, <1>2, <1>3, <1>4, <1>5, <1>6

(* A write that does not hit it.                                           *)
LEMMA OthersWritten ==
  ASSUME ~uaf => Below, Backed, BytesKept, ByteTypes, IInv',
         NEW A \in [RamFrame -> Row], NEW B, WatchKept(A, B),
         NEW fpn, NEW off \in Offset, NEW byte \in BOOLEAN,
         ram_bytes' = SetByte(A, fpn, off, byte), swp_bytes' = B,
         kept' => ~Hit(fpn, off)
  PROVE  Backed' /\ BytesKept'
<1>1. ASSUME kept', Followed'
      PROVE  WatchKept(ram_bytes', swp_bytes')
  <2>1. PICK m : m = Page(WatchedAddress)
    OBVIOUS
  <2>2. PICK at : at = InPage(WatchedAddress)
    OBVIOUS
  <2>3. /\ kept /\ Followed
        /\ symrgtbl'[Watched] = symrgtbl[Watched] /\ watch' = watch
        /\ pgd[Self][m] # Unmapped =>
              /\ pgd'[Self][m] # Unmapped
              /\ Content(A, B, pgd'[Self][m])[at]
                   = Content(ram_bytes, swp_bytes, pgd[Self][m])[at]
    BY <1>1, <2>1, <2>2 DEF WatchKept
  <2>4. m \in Pgn /\ at \in Offset
    BY <2>1, <2>2, <2>3, WatchedPage
  <2>5. PICK pte \in Entry : pte = pgd'[Self][m]
    BY <2>4, SelfAssumption DEF IInv, TypeOK
  <2>6. ~(at = off /\ pte = OnFrame(fpn))
    BY <1>1, <2>1, <2>2, <2>5 DEF Hit
  <2>7. PICK A2 : A2 = ram_bytes'
    OBVIOUS
  <2>8. A2 = SetByte(A, fpn, off, byte)
    BY <2>7
  <2>9. Content(A2, B, pte)[at] = Content(A, B, pte)[at]
    <3>1. Content(SetByte(A, fpn, off, byte), B, pte)[at]
            = Content(A, B, pte)[at]
      BY <2>4, <2>5, <2>6, OtherBytes
    <3>2. QED
      BY <2>8, <3>1
  <2>10. Content(ram_bytes', swp_bytes', pgd'[Self][m])[at]
           = Content(A, B, pgd'[Self][m])[at]
    BY <2>5, <2>7, <2>9
  <2>11. QED
    BY <2>1, <2>2, <2>3, <2>10 DEF WatchKept
<1>2. WatchKept(ram_bytes', swp_bytes')
  BY <1>1 DEF WatchKept
<1>3. QED
  BY <1>2, NothingWritten

(* The write that is followed keeps its byte when it gets there.           *)
LEMMA ThisWritten ==
  ASSUME Below, IInv', NEW A \in [RamFrame -> Row], NEW fpn,
         watch \in 0 .. Size(Watched),
         UNCHANGED <<symrgtbl, watch>>,
         ram_bytes' = SetByte(A, fpn, InPage(WatchedAddress), Mark),
         kept' => /\ watch < Size(Watched)
                  /\ pgd'[Self][Page(WatchedAddress)] = OnFrame(fpn)
  PROVE  Backed' /\ BytesKept'
<1> SUFFICES ASSUME kept'
             PROVE  /\ watch' < Size(Watched)'
                    /\ (pgd[Self][Page(WatchedAddress)] # Unmapped)'
                    /\ Byte(WatchedAddress)' = Mark
  BY DEF Backed, BytesKept, Mark
<1>1. PICK m : m = Page(WatchedAddress)
  OBVIOUS
<1>2. PICK at : at = InPage(WatchedAddress)
  OBVIOUS
<1>3. m \in Pgn /\ at \in Offset
  BY <1>1, <1>2, Reached, SelfAssumption DEF WatchedAddress
<1>4. WatchedAddress' = WatchedAddress /\ Size(Watched)' = Size(Watched)
  BY DEF WatchedAddress, Address, Size
<1>5. PICK pte \in Entry : pte = pgd'[Self][m]
  BY <1>3, SelfAssumption DEF IInv, TypeOK
<1>6. pte = OnFrame(fpn) /\ fpn \in RamFrame /\ pte # Unmapped
  BY <1>1, <1>5, EntryFrame
<1>7. Mark \in BOOLEAN
  BY DEF Mark
<1>8. PICK B : B = swp_bytes'
  OBVIOUS
<1>9. PICK A2 : A2 = ram_bytes'
  OBVIOUS
<1>10. A2 = SetByte(A, fpn, at, Mark)
  BY <1>2, <1>9
<1>11. Content(A2, B, pte)[at] = Mark
  BY <1>3, <1>6, <1>7, <1>10, ThisByte
<1>12. Byte(WatchedAddress)' = Content(A2, B, pte)[at]
  BY <1>1, <1>2, <1>4, <1>5, <1>8, <1>9 DEF Byte, Content
<1>13. QED
  BY <1>1, <1>4, <1>5, <1>6, <1>11, <1>12

-----------------------------------------------------------------------------
(* Steps of the processes on the frames                                    *)

(* What a process has of frames and pages.                                 *)
Untouched(q) ==
  /\ apc'[q] = apc[q] /\ left'[q] = left[q] /\ limit'[q] = limit[q]
  /\ frm_lst'[q] = frm_lst[q] /\ frm_lst_swap'[q] = frm_lst_swap[q]
  /\ pgd'[q] = pgd[q] /\ mapped'[q] = mapped[q]

LEMMA UntouchedAsks ==
  ASSUME NEW q, Untouched(q)
  PROVE  Requested(q)' = Requested(q)
BY DEF Untouched, Requested

(* A process that gets a frame goes on with its request.                   *)
LEMMA GetEffect ==
  ASSUME IInv, NEW p \in Proc, GetStep(p)
  PROVE  /\ IInv' /\ Requested(p)' = Requested(p)
         /\ apc[p] # "idle" /\ apc'[p] # "idle"
         /\ pgd' = pgd /\ mapped' = mapped /\ limit' = limit /\ wild' = wild
         /\ \A q \in Proc \ {p} : Untouched(q)
<1>1. IInv'
  BY TakeRamIInv, NoRamIInv, PutRamUsedIInv, GetSwapIInv, PutSwapUsedIInv
     DEF GetStep
<1>2. Requested(p)' = Requested(p)
  BY RequestedKept DEF IInv
<1>3. /\ apc[p] # "idle"
      /\ \E label \in {"ram", "ramused", "swap", "swapused"} : Goto(p, label)
  BY DEF GetStep, GetRam, PutRamUsed, GetSwap, PutSwapUsed
<1>4. /\ apc'[p] # "idle" /\ \A q \in Proc \ {p} : apc'[q] = apc[q]
  BY <1>3 DEF Goto, IInv, TypeOK
<1>5. pgd' = pgd /\ mapped' = mapped /\ limit' = limit /\ wild' = wild
  BY DEF GetStep, GetRam, PutRamUsed, GetSwap, PutSwapUsed, tableVars,
         historyVars
<1>6. ASSUME NEW q \in Proc \ {p}
      PROVE  /\ left'[q] = left[q] /\ frm_lst'[q] = frm_lst[q]
             /\ frm_lst_swap'[q] = frm_lst_swap[q]
  BY DEF GetStep, GetRam, PutRamUsed, GetSwap, PutSwapUsed, IInv, TypeOK
<1>7. QED
  BY <1>1, <1>2, <1>3, <1>4, <1>5, <1>6 DEF Untouched

(* A process that asks for pages.                                          *)
LEMMA RequestEffect ==
  ASSUME IInv, NEW p \in Proc, NEW n \in Nat, Request(p, n)
  PROVE  /\ IInv' /\ Requested(p)' = n /\ apc'[p] # "idle" /\ apc[p] = "idle"
         /\ limit[p] <= RamFrames /\ limit'[p] = limit[p] + n
         /\ pgd' = pgd /\ mapped' = mapped /\ wild' = wild
         /\ \A q \in Proc \ {p} : Untouched(q)
<1>1. IInv'
  BY RequestIInv
<1>2. /\ apc[p] = "idle" /\ limit[p] <= RamFrames
      /\ limit' = [limit EXCEPT ![p] = @ + n]
      /\ left' = [left EXCEPT ![p] = n] /\ apc' = [apc EXCEPT ![p] = "ram"]
      /\ UNCHANGED <<pgd, mapped, frm_lst, frm_lst_swap, wild>>
  BY DEF Request, Goto, tableVars, historyVars
<1>3. /\ limit'[p] = limit[p] + n /\ left'[p] = n /\ apc'[p] = "ram"
      /\ \A q \in Proc \ {p} : /\ limit'[q] = limit[q] /\ left'[q] = left[q]
                               /\ apc'[q] = apc[q]
  BY <1>2 DEF IInv, TypeOK
<1>4. Len(frm_lst[p]) = 0 /\ Len(frm_lst_swap[p]) = 0
  BY <1>2 DEF IInv, Requests, RequestOK
<1>5. Requested(p)' = n
  BY <1>2, <1>3, <1>4 DEF Requested, PagesAsked
<1>6. QED
  BY <1>1, <1>2, <1>3, <1>5 DEF Untouched

(* A request ends, with the pages or without.                              *)
LEMMA EndEffect ==
  ASSUME IInv, NEW p \in Proc, Map(p) \/ Oom(p)
  PROVE  /\ IInv' /\ apc'[p] = "idle" /\ limit' = limit /\ wild' = wild
         /\ \A q \in Proc \ {p} : Untouched(q)
<1>1. IInv'
  BY MapIInv, OomIInv
<1>2. /\ apc' = [apc EXCEPT ![p] = "idle"] /\ limit' = limit /\ wild' = wild
      /\ frm_lst' = [frm_lst EXCEPT ![p] = <<>>]
      /\ frm_lst_swap' = [frm_lst_swap EXCEPT ![p] = <<>>]
      /\ left' = [left EXCEPT ![p] = left'[p]] \/ left' = left
  BY DEF Map, Oom, Goto, DropLists, IInv, TypeOK
<1>3. \A q \in Proc \ {p} : pgd'[q] = pgd[q] /\ mapped'[q] = mapped[q]
  BY DEF Map, Oom, tableVars, IInv, TypeOK
<1>4. \A q \in Proc \ {p} :
        /\ apc'[q] = apc[q] /\ left'[q] = left[q]
        /\ frm_lst'[q] = frm_lst[q] /\ frm_lst_swap'[q] = frm_lst_swap[q]
  BY <1>2 DEF IInv, TypeOK
<1>5. apc'[p] = "idle"
  BY <1>2 DEF IInv, TypeOK
<1>6. QED
  BY <1>1, <1>2, <1>3, <1>4, <1>5 DEF Untouched

(* A process that ends leaves the others what they have.                   *)
LEMMA ExitEffect ==
  ASSUME IInv, NEW p \in Proc, Exit(p)
  PROVE  IInv' /\ wild' = wild /\ \A q \in Proc \ {p} : Untouched(q)
<1>1. IInv'
  BY ExitIInv
<1>2. /\ apc' = [apc EXCEPT ![p] = "ended"] /\ wild' = wild
      /\ UNCHANGED <<pgd, mapped, limit, left, frm_lst, frm_lst_swap>>
  BY DEF Exit, Goto, tableVars
<1>3. \A q \in Proc \ {p} : apc'[q] = apc[q]
  BY <1>2 DEF IInv, TypeOK
<1>4. QED
  BY <1>1, <1>2, <1>3 DEF Untouched

(* The pages that Map maps are those of the request, the last ones below   *)
(* the limit.                                                              *)
LEMMA MapsRequested ==
  ASSUME IInv, NEW p \in Proc, Map(p)
  PROVE  /\ NewPages(p) = limit[p] - Requested(p) .. limit[p] - 1
         /\ mapped'[p] = mapped[p] \cup NewPages(p)
         /\ \A m \in Pgn \ NewPages(p) : pgd'[p][m] = pgd[p][m]
<1>1. apc[p] = "ram" /\ left[p] = 0
  BY DEF Map
<1>2. PICK n \in Nat : n = Len(frm_lst[p]) + Len(frm_lst_swap[p])
  BY DEF IInv, TypeOK
<1>3. Requested(p) = n
  BY <1>1, <1>2 DEF Requested, PagesAsked
<1>4. mapped' = [mapped EXCEPT ![p] = @ \cup NewPages(p)]
  BY MapEffect DEF IInv
<1>5. mapped'[p] = mapped[p] \cup NewPages(p)
  BY <1>4 DEF IInv, TypeOK
<1>6. \A m \in Pgn \ NewPages(p) : pgd'[p][m] = pgd[p][m]
  BY MapEffect DEF IInv
<1>7. QED
  BY <1>2, <1>3, <1>5, <1>6 DEF NewPages

(* A page comes in, for a read or a write.                                 *)
LEMMA AccessEffect ==
  ASSUME IInv, NEW p \in Proc, NEW pgn \in Pgn, Read(p, pgn) \/ Write(p, pgn)
  PROVE  /\ IInv' /\ ~wild
         /\ apc' = apc /\ left' = left /\ limit' = limit /\ mapped' = mapped
         /\ frm_lst' = frm_lst /\ frm_lst_swap' = frm_lst_swap
         /\ \A q \in Proc : Requested(q)' = Requested(q)
<1>1. PICK s \in SwapTarget : GetPage(p, pgn, s)
  BY DEF Read, Write
<1>2. /\ ~wild /\ apc' = apc /\ left' = left /\ limit' = limit
      /\ mapped' = mapped
      /\ frm_lst' = frm_lst /\ frm_lst_swap' = frm_lst_swap
  BY <1>1 DEF GetPage, allocVars
<1>3. QED
  BY <1>2, AccessIInv DEF Requested

-----------------------------------------------------------------------------
(* Reads and writes                                                        *)

(* The invariant without the bytes that are followed, in a step that does  *)
(* not allocate for Self or free.                                          *)
LEMMA AreaAlone ==
  ASSUME ~uaf => Below, Asked, Limit, SelfAlone, UNCHANGED regionVars
  PROVE  /\ (~uaf => Below)' /\ Asked' /\ Limit'
BY AskedStays DEF Below, regionVars

(* A page fault moves the byte that is followed along with its page.       *)
LEMMA FaultWatched ==
  ASSUME IInv, ~uaf => Below, Backed, ByteTypes,
         NEW p \in Proc, NEW pgn \in Pgn, NEW s \in SwapTarget,
         GetPage(p, pgn, s), UNCHANGED <<regionVars, watch>>, kept' => kept
  PROVE  WatchKept(SwapBytes(p, pgn).ram, SwapBytes(p, pgn).swp)
<1>1. PICK A : A = SwapBytes(p, pgn).ram
  OBVIOUS
<1>2. PICK B : B = SwapBytes(p, pgn).swp
  OBVIOUS
<1>3. ASSUME kept', Followed' PROVE WatchKept(A, B)
  <2>1. kept /\ Followed /\ ~wild'
    BY <1>3 DEF Followed, GetPage, regionVars
  <2>2. PICK m \in Pgn : m = Page(WatchedAddress)
    BY <2>1, WatchedPage
  <2>3. pgd[Self][m] # Unmapped =>
          /\ pgd'[Self][m] # Unmapped
          /\ Content(A, B, pgd'[Self][m])
               = Content(ram_bytes, swp_bytes, pgd[Self][m])
    BY <1>1, <1>2, <2>1, FaultKeepsBytes
  <2>4. QED
    BY <2>1, <2>2, <2>3 DEF WatchKept, regionVars
<1>4. WatchKept(A, B)
  BY <1>3 DEF WatchKept
<1>5. QED
  BY <1>1, <1>2, <1>4

(* A read that brings its page in.                                         *)
LEMMA ReadInv ==
  ASSUME MemoryInv, NEW p \in Proc, NEW pgn \in Pgn, Read(p, pgn),
         ram_bytes' = SwapBytes(p, pgn).ram,
         swp_bytes' = SwapBytes(p, pgn).swp,
         UNCHANGED <<regionVars, request, watch, kept>>
  PROVE  MemoryInv'
<1> USE DEF MemoryInv
<1>1. PICK s \in SwapTarget : GetPage(p, pgn, s)
  BY DEF Read
<1>2. SelfAlone
  BY AccessEffect, SelfAssumption DEF SelfAlone, regionVars
<1>3. WatchKept(ram_bytes', swp_bytes')
  BY <1>1, FaultWatched
<1>4. Backed' /\ BytesKept'
  BY <1>3, NothingWritten
<1>5. ByteTypes'
  <2>1. ram_bytes' \in [RamFrame -> Row] /\ swp_bytes' \in [SwapFrame -> Row]
    BY <1>1, BytesCopied
  <2>2. QED
    BY <2>1 DEF ByteTypes, Row, regionVars
<1>6. IInv'
  BY AccessEffect
<1>7. (~uaf => Below)' /\ Asked' /\ Limit'
  BY <1>2, AreaAlone
<1>8. QED
  BY <1>4, <1>5, <1>6, <1>7

(* The bytes that a write changes: those after the exchange, if any.       *)
LEMMA WriteBytes ==
  ASSUME MemoryInv, NEW p \in Proc, NEW pgn \in Pgn, NEW off \in Offset,
         NEW byte \in BOOLEAN,
         WriteHere(p, pgn, off, byte) \/ WriteAfterFault(p, pgn, off, byte),
         UNCHANGED <<regionVars, request, watch>>
  PROVE  /\ IInv' /\ SelfAlone
         /\ \E A \in [RamFrame -> Row], B \in [SwapFrame -> Row] :
              /\ ram_bytes' = SetByte(A, PAGING_FPN(pgd[p][pgn]), off, byte)
              /\ swp_bytes' = B
              /\ (kept' => kept) => WatchKept(A, B)
<1> USE DEF MemoryInv
<1>1. CASE WriteHere(p, pgn, off, byte)
  <2>1. /\ UNCHANGED vars /\ swp_bytes' = swp_bytes
        /\ ram_bytes' = SetByte(ram_bytes, PAGING_FPN(pgd[p][pgn]), off, byte)
    BY <1>1 DEF WriteHere, PAGING_FPN
  <2>2. IInv'
    BY <2>1, StutterIInv
  <2>3. /\ UNCHANGED <<pgd, limit, apc, left, frm_lst, frm_lst_swap, wild>>
    BY <2>1 DEF vars, tableVars, allocVars, historyVars
  <2>4. SelfAlone
    BY <2>3 DEF SelfAlone, Requested, regionVars
  <2>5. (kept' => kept) => WatchKept(ram_bytes, swp_bytes)
    BY <2>3 DEF WatchKept, Followed, regionVars
  <2>6. ram_bytes \in [RamFrame -> Row] /\ swp_bytes \in [SwapFrame -> Row]
    BY DEF ByteTypes, Row
  <2>7. QED
    BY <2>1, <2>2, <2>4, <2>5, <2>6
<1>2. CASE WriteAfterFault(p, pgn, off, byte)
  <2>1. PICK A : A = SwapBytes(p, pgn).ram
    OBVIOUS
  <2>2. PICK B : B = SwapBytes(p, pgn).swp
    OBVIOUS
  <2>3. /\ Write(p, pgn) /\ swp_bytes' = B
        /\ ram_bytes' = SetByte(A, PAGING_FPN(pgd[p][pgn]), off, byte)
    BY <1>2, <2>1, <2>2 DEF WriteAfterFault
  <2>4. PICK s \in SwapTarget : GetPage(p, pgn, s)
    BY <2>3 DEF Write
  <2>5. A \in [RamFrame -> Row] /\ B \in [SwapFrame -> Row]
    BY <2>1, <2>2, <2>4, BytesCopied
  <2>6. ASSUME kept' => kept PROVE WatchKept(A, B)
    BY <2>1, <2>2, <2>4, <2>6, FaultWatched
  <2>7. IInv' /\ SelfAlone
    BY <2>3, AccessEffect, SelfAssumption DEF SelfAlone, regionVars
  <2>8. QED
    BY <2>3, <2>5, <2>6, <2>7
<1>3. QED
  BY <1>1, <1>2

(* A write that is not the one that is followed.                           *)
LEMMA OtherWriteInv ==
  ASSUME MemoryInv, NEW p \in Proc, NEW pgn \in Pgn, NEW off \in Offset,
         NEW byte \in BOOLEAN,
         WriteHere(p, pgn, off, byte) \/ WriteAfterFault(p, pgn, off, byte),
         UNCHANGED <<regionVars, request, watch>>, kept' \in BOOLEAN,
         kept' => kept /\ ~Hit(PAGING_FPN(pgd[p][pgn]), off)
  PROVE  MemoryInv'
<1> USE DEF MemoryInv
<1>1. PICK fpn : fpn = PAGING_FPN(pgd[p][pgn])
  OBVIOUS
<1>2. PICK A \in [RamFrame -> Row], B \in [SwapFrame -> Row] :
        /\ ram_bytes' = SetByte(A, fpn, off, byte)
        /\ swp_bytes' = B /\ WatchKept(A, B)
  BY <1>1, WriteBytes
<1>3. IInv' /\ SelfAlone
  BY WriteBytes
<1>4. Backed' /\ BytesKept'
  BY <1>1, <1>2, <1>3, OthersWritten
<1>5. ByteTypes'
  <2>1. ram_bytes' \in [RamFrame -> Row] /\ swp_bytes' \in [SwapFrame -> Row]
    BY <1>2, SetByteTyped
  <2>2. QED
    BY <2>1 DEF ByteTypes, Row, regionVars
<1>6. (~uaf => Below)' /\ Asked' /\ Limit'
  BY <1>3, AreaAlone
<1>7. QED
  BY <1>3, <1>4, <1>5, <1>6

(* The one that is followed.                                               *)
LEMMA FollowedWriteInv ==
  ASSUME MemoryInv, Below, NEW pgn \in Pgn, NEW off \in Offset,
         \/ WriteHere(Self, pgn, off, Mark)
         \/ WriteAfterFault(Self, pgn, off, Mark),
         pgn = Page(WatchedAddress), off = InPage(WatchedAddress),
         watch \in 0 .. Size(Watched), watch < Size(Watched),
         UNCHANGED <<regionVars, request, watch>>, kept' \in BOOLEAN,
         kept' => pgd'[Self][pgn] = OnFrame(PAGING_FPN(pgd[Self][pgn]))
  PROVE  MemoryInv'
<1> USE DEF MemoryInv
<1>1. PICK fpn : fpn = PAGING_FPN(pgd[Self][pgn])
  OBVIOUS
<1>2. Mark \in BOOLEAN
  BY DEF Mark
<1>3. PICK A \in [RamFrame -> Row], B \in [SwapFrame -> Row] :
        /\ ram_bytes' = SetByte(A, fpn, off, Mark) /\ swp_bytes' = B
  BY <1>1, <1>2, WriteBytes, SelfAssumption
<1>4. IInv' /\ SelfAlone
  BY <1>2, WriteBytes, SelfAssumption
<1>5. Backed' /\ BytesKept'
  BY <1>1, <1>3, <1>4, ThisWritten DEF regionVars
<1>6. ByteTypes'
  <2>1. ram_bytes' \in [RamFrame -> Row] /\ swp_bytes' \in [SwapFrame -> Row]
    BY <1>2, <1>3, SetByteTyped
  <2>2. QED
    BY <2>1 DEF ByteTypes, Row, regionVars
<1>7. (~uaf => Below)' /\ Asked' /\ Limit'
  BY <1>4, AreaAlone
<1>8. QED
  BY <1>4, <1>5, <1>6, <1>7

(* pgwrite.                                                                *)
LEMMA pgwriteInv ==
  ASSUME MemoryInv, NEW r \in Reg, NEW o \in WriteOffset(r), pgwrite(r, o)
  PROVE  MemoryInv'
<1> USE DEF MemoryInv
<1>1. Followed /\ Below
  BY DEF pgwrite, Ready, Followed
<1>2. PICK pgn : pgn = Page(Address(r, o))
  OBVIOUS
<1>3. PICK off : off = InPage(Address(r, o))
  OBVIOUS
<1>4. pgn \in Pgn /\ off \in Offset
  BY <1>1, <1>2, <1>3, Reached DEF WriteOffset
<1>5. UNCHANGED <<regionVars, request, watch>>
  BY DEF pgwrite
<1>6. CASE r = Watched /\ o = watch /\ o < Size(r)
  <2>1. /\ \/ WriteHere(Self, pgn, off, Mark)
           \/ WriteAfterFault(Self, pgn, off, Mark)
           \/ WriteNowhere(Self, pgn)
        /\ kept' = (pgd'[Self][pgn] = OnFrame(PAGING_FPN(pgd[Self][pgn])))
    BY <1>2, <1>3, <1>6 DEF pgwrite
  <2>2. pgn = Page(WatchedAddress) /\ off = InPage(WatchedAddress)
    BY <1>2, <1>3, <1>6 DEF WatchedAddress
  <2>3. watch \in 0 .. Size(Watched) /\ watch < Size(Watched)
    BY <1>6 DEF WriteOffset
  <2>4. kept' \in BOOLEAN
    BY <2>1, Zenon
  <2>5. CASE WriteNowhere(Self, pgn)
    <3>1. UNCHANGED vars /\ UNCHANGED byteVars /\ ~pgd[Self][pgn].present
      BY <2>5 DEF WriteNowhere
    <3>2. pgd' = pgd
      BY <3>1 DEF vars, tableVars
    <3>3. ~kept'
      <4>1. pgd[Self][pgn] # OnFrame(PAGING_FPN(pgd[Self][pgn]))
        <5>1. \A f : OnFrame(f).present
          BY DEF OnFrame
        <5>2. QED
          BY <3>1, <5>1
      <4>2. QED
        BY <2>1, <3>2, <4>1, Zenon
    <3>4. IInv'
      BY <3>1, StutterIInv
    <3>5. SelfAlone
      BY <1>5, <3>1 DEF SelfAlone, Requested, regionVars, vars, allocVars
    <3>6. (~uaf => Below)' /\ Asked' /\ Limit'
      BY <1>5, <3>5, AreaAlone
    <3>7. Backed' /\ BytesKept'
      BY <3>3 DEF Backed, BytesKept
    <3>8. ByteTypes'
      BY <1>5, <2>4, <3>1 DEF ByteTypes, byteVars, regionVars
    <3>9. QED
      BY <3>4, <3>6, <3>7, <3>8
  <2>6. CASE \/ WriteHere(Self, pgn, off, Mark)
             \/ WriteAfterFault(Self, pgn, off, Mark)
    <3>1. kept' => pgd'[Self][pgn] = OnFrame(PAGING_FPN(pgd[Self][pgn]))
      BY <2>1
    <3>2. QED
      BY <1>1, <1>4, <1>5, <2>2, <2>3, <2>4, <2>6, <3>1, FollowedWriteInv
  <2>7. QED
    BY <2>1, <2>5, <2>6
<1>7. CASE ~(r = Watched /\ o = watch /\ o < Size(r))
  <2>1. /\ \/ WriteHere(Self, pgn, off, Other)
           \/ WriteAfterFault(Self, pgn, off, Other)
           \/ WriteNowhere(Self, pgn)
        /\ kept' = (kept /\ Address(r, o) # WatchedAddress
                         /\ ~Hit(PAGING_FPN(pgd[Self][pgn]), off))
    BY <1>2, <1>3, <1>7 DEF pgwrite
  <2>2. kept' \in BOOLEAN
    BY <2>1, Zenon
  <2>3. kept' => kept /\ ~Hit(PAGING_FPN(pgd[Self][pgn]), off)
    BY <2>1
  <2>4. CASE WriteNowhere(Self, pgn)
    <3>1. UNCHANGED vars /\ UNCHANGED byteVars
      BY <2>4 DEF WriteNowhere
    <3>2. UNCHANGED <<pgd, limit, apc, left, frm_lst, frm_lst_swap, wild>>
      BY <3>1 DEF vars, tableVars, allocVars, historyVars
    <3>3. IInv'
      BY <3>1, StutterIInv
    <3>4. SelfAlone
      BY <1>5, <3>2 DEF SelfAlone, Requested, regionVars
    <3>5. (~uaf => Below)' /\ Asked' /\ Limit'
      BY <1>5, <3>4, AreaAlone
    <3>6. WatchKept(ram_bytes', swp_bytes')
      BY <1>5, <2>3, <3>1, <3>2 DEF WatchKept, Followed, regionVars, byteVars
    <3>7. Backed' /\ BytesKept'
      BY <3>6, NothingWritten
    <3>8. ByteTypes'
      BY <1>5, <2>2, <3>1 DEF ByteTypes, byteVars, regionVars
    <3>9. QED
      BY <3>3, <3>5, <3>7, <3>8
  <2>5. CASE \/ WriteHere(Self, pgn, off, Other)
             \/ WriteAfterFault(Self, pgn, off, Other)
    <3>1. Other \in BOOLEAN
      BY DEF Other
    <3>2. QED
      BY <1>4, <1>5, <2>2, <2>3, <2>5, <3>1, OtherWriteInv, SelfAssumption
  <2>6. QED
    BY <2>1, <2>4, <2>5
<1>8. QED
  BY <1>6, <1>7

(* pgread.                                                                 *)
LEMMA pgreadInv ==
  ASSUME MemoryInv, NEW r \in Reg, NEW o \in WriteOffset(r), pgread(r, o)
  PROVE  MemoryInv'
<1>1. Below
  BY DEF pgread, Ready, Followed, MemoryInv
<1>2. PICK pgn \in Pgn : pgn = Page(Address(r, o))
  BY <1>1, Reached DEF WriteOffset
<1>3. /\ Read(Self, pgn)
      /\ ram_bytes' = SwapBytes(Self, pgn).ram
      /\ swp_bytes' = SwapBytes(Self, pgn).swp
      /\ UNCHANGED <<regionVars, request, watch, kept>>
  BY <1>2 DEF pgread
<1>4. QED
  BY <1>3, ReadInv, SelfAssumption

(* The reads and writes of the others.                                     *)
LEMMA OtherAccessInv ==
  ASSUME MemoryInv, NEW p \in Proc \ {Self}, NEW pgn \in 0 .. OtherPages,
         \/ OtherReads(p, pgn)
         \/ \E off \in Offset : OtherWrites(p, pgn, off)
  PROVE  MemoryInv'
<1>1. pgn \in Pgn
  BY FollowAssumption, BoundsAssumption DEF Pgn
<1>2. CASE OtherReads(p, pgn)
  <2>1. /\ Read(p, pgn)
        /\ ram_bytes' = SwapBytes(p, pgn).ram
        /\ swp_bytes' = SwapBytes(p, pgn).swp
        /\ UNCHANGED <<regionVars, request, watch, kept>>
    BY <1>2 DEF OtherReads
  <2>2. QED
    BY <1>1, <2>1, ReadInv
<1>3. ASSUME NEW off \in Offset, OtherWrites(p, pgn, off) PROVE MemoryInv'
  <2>1. /\ WriteHere(p, pgn, off, Other) \/ WriteAfterFault(p, pgn, off, Other)
        /\ kept' = (kept /\ ~Hit(PAGING_FPN(pgd[p][pgn]), off))
        /\ UNCHANGED <<regionVars, request, watch>>
    BY <1>3 DEF OtherWrites
  <2>2. kept' \in BOOLEAN
    BY <2>1, Zenon
  <2>3. Other \in BOOLEAN
    BY DEF Other
  <2>4. QED
    BY <1>1, <2>1, <2>2, <2>3, OtherWriteInv
<1>4. QED
  BY <1>2, <1>3

-----------------------------------------------------------------------------
(* Allocations and frees                                                   *)

(* No byte moves, and the page that is followed stays where it is.         *)
LEMMA NoBytesMove ==
  ASSUME Backed, BytesKept, ByteTypes, UNCHANGED <<byteVars, watch>>,
         kept' \in BOOLEAN, uaf' \in BOOLEAN, wild' = wild,
         ~uaf' => ~uaf, kept' => kept,
         kept' /\ Followed' =>
           /\ symrgtbl'[Watched] = symrgtbl[Watched]
           /\ pgd'[Self][Page(WatchedAddress)] = pgd[Self][Page(WatchedAddress)]
  PROVE  Backed' /\ BytesKept' /\ ByteTypes'
<1>1. WatchKept(ram_bytes', swp_bytes')
  BY DEF WatchKept, Followed, byteVars
<1>2. Backed' /\ BytesKept'
  BY <1>1, NothingWritten
<1>3. ByteTypes'
  BY DEF ByteTypes, byteVars
<1>4. QED
  BY <1>2, <1>3

(* When a register is allocated or freed, what is known of it is           *)
(* forgotten; nothing else is.                                             *)
LEMMA Forgotten ==
  ASSUME ByteTypes, NEW r \in Reg, Forget(r)
  PROVE  /\ kept' \in BOOLEAN /\ watch' = watch
         /\ kept' => kept /\ r # Watched
<1>1. kept' = (kept /\ r # Watched) /\ watch' = watch
  BY DEF Forget
<1>2. kept' \in BOOLEAN
  BY <1>1, Zenon
<1>3. QED
  BY <1>1, <1>2

LEMMA AllocLocallyInv ==
  ASSUME MemoryInv, NEW r \in Reg, NEW size \in Sizes, AllocLocally(r, size)
  PROVE  MemoryInv'
<1> USE DEF MemoryInv
<1>1. /\ Followed /\ Below /\ request = NoRequest /\ request' = request
      /\ UNCHANGED vars /\ UNCHANGED byteVars /\ Forget(r)
  BY DEF AllocLocally, Reusable, Ready, Followed
<1>2. size \in Nat
  BY PagesAssumption
<1>3. UNCHANGED <<pgd, limit, apc, left, frm_lst, frm_lst_swap, wild>>
  BY <1>1 DEF vars, tableVars, allocVars, historyVars
<1>4. IInv'
  BY <1>1, StutterIInv
<1>5. Asked'
  BY <1>1, <1>3 DEF Asked
<1>6. End' = End /\ End \in Nat /\ RamFrames * PAGESZ \in Nat
  BY <1>1, <1>3, EndIs, Times, FramesAssumption DEF End
<1>7. /\ Below' /\ Limit' /\ uaf' = uaf
      /\ \A q \in Reg : q # r => symrgtbl'[q] = symrgtbl[q]
  <2>1. CASE Regions!AllocFromFreeList(r, size)
    <3>1. Below'
      BY <1>1, <1>2, <2>1, BelowFromList
    <3>2. sbrk' = sbrk /\ uaf' = uaf
      BY <2>1 DEF Regions!AllocFromFreeList, Regions!areaVars
    <3>3. Limit'
      BY <1>6, <3>2 DEF Limit, Regions!Align
    <3>4. \A q \in Reg : q # r => symrgtbl'[q] = symrgtbl[q]
      BY <1>1, <2>1 DEF Below, Regions!AllocFromFreeList, Regions!Assign
    <3>5. QED
      BY <3>1, <3>2, <3>3, <3>4
  <2>2. CASE \/ Regions!AllocInLastPage(r, size)
             \/ Regions!AllocRefused(r, size)
    <3>1. Regions!TakeBreak(r, size)
      BY <2>2 DEF Regions!AllocInLastPage, Regions!AllocRefused
    <3>2. /\ Below' /\ sbrk' = sbrk + size /\ sbrk <= sbrk' /\ sbrk \in Nat
          /\ sbrk' \in Nat /\ uaf' = uaf
          /\ symrgtbl' = [symrgtbl EXCEPT ![r] = <<sbrk, sbrk + size>>]
      BY <1>1, <1>2, <3>1, BelowTakeBreak
    <3>3. \A q \in Reg : q # r => symrgtbl'[q] = symrgtbl[q]
      BY <1>1, <3>2 DEF Below
    <3>4. Limit'
      <4>1. PICK n \in Nat : n = sbrk'
        BY <3>2
      <4>2. PICK m \in Nat : m = sbrk
        BY <3>2
      <4>3. Limit' <=> (End <= RamFrames * PAGESZ => End = Regions!Align(n))
        BY <1>6, <4>1 DEF Limit, Regions!Align
      <4>4. Limit <=> (End <= RamFrames * PAGESZ => End = Regions!Align(m))
        BY <4>2 DEF Limit, Regions!Align
      <4>5. CASE Regions!AllocInLastPage(r, size)
        <5>1. m <= n /\ n <= Regions!Align(m)
          <6>1. ~(size + sbrk > Regions!Align(sbrk))
            BY <4>5 DEF Regions!AllocInLastPage, Regions!MustGrow
          <6>2. Regions!Align(m) \in Nat
            BY AlignIs, Times
          <6>3. QED
            BY <1>2, <3>2, <4>1, <4>2, <6>1, <6>2
        <5>2. Regions!Align(n) = Regions!Align(m)
          BY <5>1, AlignSame
        <5>3. QED
          BY <4>3, <4>4, <5>2
      <4>6. CASE Regions!AllocRefused(r, size)
        <5>1. End > RamFrames * PAGESZ
          BY <4>6 DEF Regions!AllocRefused, End
        <5>2. QED
          BY <1>6, <4>3, <5>1
      <4>7. QED
        BY <2>2, <4>5, <4>6
    <3>5. QED
      BY <3>2, <3>3, <3>4
  <2>3. QED
    BY <2>1, <2>2 DEF AllocLocally
<1>8. Backed' /\ BytesKept' /\ ByteTypes'
  <2>1. kept' \in BOOLEAN /\ watch' = watch /\ (kept' => kept /\ r # Watched)
    BY <1>1, Forgotten
  <2>2. uaf' \in BOOLEAN
    BY <1>7 DEF ByteTypes
  <2>3. QED
    BY <1>1, <1>3, <1>7, <2>1, <2>2, NoBytesMove, SelfAssumption
<1>9. QED
  BY <1>4, <1>5, <1>7, <1>8

(* inc_vma_limit moves the limit and asks.                                 *)
LEMMA AllocRequestInv ==
  ASSUME MemoryInv, NEW r \in Reg, NEW size \in Sizes, AllocRequest(r, size)
  PROVE  MemoryInv' /\ End' = End /\ mapped' = mapped
<1> USE DEF MemoryInv
<1>1. PICK num : num = Regions!IncAmount(size) \div PAGESZ
  OBVIOUS
<1>2. /\ Followed /\ Below /\ request = NoRequest /\ Request(Self, num)
      /\ Regions!MustGrow(size)
      /\ request' = [reg |-> r, size |-> size, pages |-> num]
      /\ UNCHANGED <<regionVars, byteVars, watch, kept>>
  BY <1>1 DEF AllocRequest, Reusable, Ready, Followed
<1>3. size \in Nat
  BY PagesAssumption
<1>4. num \in Nat /\ num * PAGESZ = Regions!IncAmount(size)
  BY <1>1, <1>2, <1>3, IncIsPages, RegionTypes
<1>5. /\ IInv' /\ Requested(Self)' = num /\ apc'[Self] # "idle"
      /\ limit[Self] <= RamFrames /\ limit'[Self] = limit[Self] + num
      /\ pgd' = pgd /\ mapped' = mapped /\ wild' = wild
  BY <1>2, <1>4, RequestEffect, SelfAssumption
<1>6. /\ limit[Self] \in Nat /\ request.pages = 0
      /\ limit[Self] - request.pages = limit[Self]
  BY <1>2, EndIs
<1>7. request'.pages = num /\ request'.size = size
      /\ request' \in [reg : Reg, size : Sizes, pages : Nat]
  BY <1>2, <1>4
<1>8. request' # NoRequest
  <2>1. DOMAIN request' = {"reg", "size", "pages"}
    BY <1>2
  <2>2. DOMAIN NoRequest = {"pages"}
    BY DEF NoRequest
  <2>3. QED
    BY <2>1, <2>2
<1>9. End' = End
  <2>1. limit'[Self] - request'.pages = limit[Self]
    BY <1>4, <1>5, <1>6, <1>7
  <2>2. QED
    BY <1>6, <2>1 DEF End
<1>10. End <= RamFrames * PAGESZ
  <2>1. RamFrames \in Nat
    BY FramesAssumption
  <2>2. limit[Self] * PAGESZ <= RamFrames * PAGESZ
    BY <1>5, <1>6, <2>1, Times
  <2>3. QED
    BY <1>6, <2>2 DEF End
<1>11. request'.pages * PAGESZ = Regions!IncAmount(request.size)'
  <2>1. Regions!IncAmount(request.size)' = Regions!IncAmount(size)
    BY <1>2, <1>7 DEF Regions!IncAmount, Regions!Align, regionVars
  <2>2. QED
    BY <1>4, <1>7, <2>1
<1>12. Regions!MustGrow(request.size)'
  BY <1>2, <1>7, <1>9 DEF Regions!MustGrow, Regions!Align, regionVars, End
<1>13. Asked'
  <2>1. request'.pages = Requested(Self)' /\ End' <= RamFrames * PAGESZ
    BY <1>5, <1>7, <1>9, <1>10
  <2>2. QED
    BY <1>5, <1>7, <1>8, <1>11, <1>12, <2>1 DEF Asked
<1>14. Limit'
  BY <1>2, <1>9 DEF Limit, Regions!Align, regionVars
<1>15. (~uaf => Below)'
  BY <1>2 DEF Below, regionVars
<1>16. Backed' /\ BytesKept' /\ ByteTypes'
  BY <1>2, <1>5, NoBytesMove DEF regionVars, ByteTypes
<1>17. QED
  BY <1>5, <1>9, <1>13, <1>14, <1>15, <1>16

(* Self gets a frame.                                                      *)
LEMMA GetFramesInv ==
  ASSUME MemoryInv, GetFrames
  PROVE  MemoryInv' /\ limit' = limit /\ mapped' = mapped
<1> USE DEF MemoryInv
<1>1. GetStep(Self) /\ UNCHANGED programVars
  BY DEF GetFrames, GetStep
<1>2. UNCHANGED <<regionVars, request, byteVars, watch, kept>>
  BY <1>1 DEF programVars
<1>3. /\ IInv' /\ Requested(Self)' = Requested(Self)
      /\ apc[Self] # "idle" /\ apc'[Self] # "idle"
      /\ pgd' = pgd /\ mapped' = mapped /\ limit' = limit /\ wild' = wild
  BY <1>1, GetEffect, SelfAssumption
<1>4. SelfAlone
  BY <1>2, <1>3 DEF SelfAlone, regionVars
<1>5. (~uaf => Below)' /\ Asked' /\ Limit'
  BY <1>2, <1>4, AreaAlone
<1>6. Backed' /\ BytesKept' /\ ByteTypes'
  BY <1>2, <1>3, NoBytesMove DEF regionVars, ByteTypes
<1>7. QED
  BY <1>3, <1>5, <1>6

(* __alloc goes on when it has got its pages, or not.                      *)
LEMMA AllocFinishInv ==
  ASSUME MemoryInv, AllocFinish
  PROVE  MemoryInv'
<1> USE DEF MemoryInv
<1>1. PICK r \in Reg : r = request.reg
  BY DEF AllocFinish, Asked
<1>2. PICK size \in Sizes : size = request.size
  BY DEF AllocFinish, Asked
<1>3. PICK num \in Nat : num = request.pages
  BY DEF AllocFinish, Asked
<1>4. /\ Followed /\ Below /\ request # NoRequest
      /\ Map(Self) \/ Oom(Self)
      /\ Regions!TakeBreak(r, size) /\ Forget(r)
      /\ request' = NoRequest /\ UNCHANGED byteVars
  BY <1>1, <1>2 DEF AllocFinish, Followed
<1>5. /\ num = Requested(Self) /\ num * PAGESZ = Regions!IncAmount(size)
      /\ End <= RamFrames * PAGESZ /\ End = Regions!Align(sbrk)
  BY <1>2, <1>3, <1>4 DEF Asked, Limit
<1>6. /\ IInv' /\ apc'[Self] = "idle" /\ limit' = limit /\ wild' = wild
  BY <1>4, EndEffect, SelfAssumption
<1>7. PICK k \in Nat : k = limit[Self] - num
  BY <1>3, EndIs
<1>8. limit[Self] \in Nat /\ limit[Self] = k + num
  BY <1>7, EndIs
<1>9. size \in Nat
  BY PagesAssumption
<1>10. /\ Below' /\ sbrk' = sbrk + size /\ sbrk \in Nat /\ uaf' = uaf
       /\ symrgtbl' = [symrgtbl EXCEPT ![r] = <<sbrk, sbrk + size>>]
  BY <1>4, <1>9, BelowTakeBreak
<1>11. Asked'
  BY <1>4, <1>6 DEF Asked
<1>12. Limit'
  <2>1. request'.pages = 0
    BY <1>4 DEF NoRequest
  <2>2. End' = (k + num) * PAGESZ
    BY <1>6, <1>8, <2>1 DEF End
  <2>3. (k + num) * PAGESZ = k * PAGESZ + num * PAGESZ
    BY Times
  <2>4. End = k * PAGESZ
    BY <1>3, <1>7 DEF End
  <2>5. PICK n \in Nat : n = sbrk
    BY <1>10
  <2>6. Regions!Align(n + size) = Regions!Align(n) + Regions!IncAmount(size)
    BY <1>9, <2>5, IncIsPages
  <2>7. Regions!Align(sbrk)' = Regions!Align(n + size)
    BY <1>10, <2>5 DEF Regions!Align
  <2>8. Regions!Align(n) = k * PAGESZ
    BY <1>5, <2>4, <2>5
  <2>9. End' = Regions!Align(sbrk)'
    BY <1>5, <2>2, <2>3, <2>6, <2>7, <2>8
  <2>10. QED
    BY <2>9 DEF Limit
<1>13. /\ kept' \in BOOLEAN /\ watch' = watch /\ (kept' => kept /\ r # Watched)
  BY <1>4, Forgotten
<1>14. ASSUME kept
       PROVE  pgd'[Self][Page(WatchedAddress)] = pgd[Self][Page(WatchedAddress)]
  <2>1. PICK m \in Pgn : m = Page(WatchedAddress)
    BY <1>4, <1>14, WatchedPage
  <2>2. m < k
    <3>1. PICK w \in Nat : w = WatchedAddress /\ w < sbrk
      BY <1>4, <1>14, WatchedPage
    <3>2. PICK n \in Nat : n = sbrk
      BY <1>10
    <3>3. PICK q \in Nat : Regions!Align(n) = q * PAGESZ /\ n <= q * PAGESZ
      BY AlignIs
    <3>4. End = k * PAGESZ /\ k * PAGESZ \in Nat
      BY <1>3, <1>7, Times DEF End
    <3>5. n <= k * PAGESZ
      BY <1>5, <3>2, <3>3, <3>4
    <3>6. w < k * PAGESZ
      BY <3>1, <3>2, <3>4, <3>5
    <3>7. QED
      BY <2>1, <3>1, <3>6, PageOfByte
  <2>3. CASE Oom(Self)
    BY <2>1, <2>3 DEF Oom, tableVars
  <2>4. CASE Map(Self)
    <3>1. NewPages(Self) = k .. limit[Self] - 1
      BY <1>5, <1>7, <2>4, MapsRequested, SelfAssumption
    <3>2. m \notin NewPages(Self)
      BY <2>1, <2>2, <3>1
    <3>3. QED
      BY <2>1, <2>4, <3>2, MapsRequested, SelfAssumption
  <2>5. QED
    BY <1>4, <2>3, <2>4
<1>15. Backed' /\ BytesKept' /\ ByteTypes'
  <2>1. uaf' \in BOOLEAN
    BY <1>10 DEF ByteTypes
  <2>2. kept' => symrgtbl'[Watched] = symrgtbl[Watched]
    BY <1>4, <1>10, <1>13, SelfAssumption DEF Below
  <2>3. QED
    BY <1>4, <1>6, <1>10, <1>13, <1>14, <2>1, <2>2, NoBytesMove
<1>16. QED
  BY <1>6, <1>10, <1>11, <1>12, <1>15

(* __free.                                                                 *)
LEMMA FreeInv ==
  ASSUME MemoryInv, NEW r \in Reg, Free(r)
  PROVE  MemoryInv'
<1> USE DEF MemoryInv
<1>1. /\ Followed /\ Below /\ request = NoRequest /\ request' = request
      /\ UNCHANGED vars /\ UNCHANGED byteVars /\ Forget(r) /\ Regions!Free(r)
  BY DEF Free, Ready, Followed
<1>2. UNCHANGED <<pgd, limit, apc, left, frm_lst, frm_lst_swap, wild>>
  BY <1>1 DEF vars, tableVars, allocVars, historyVars
<1>3. IInv'
  BY <1>1, StutterIInv
<1>4. Asked'
  BY <1>1, <1>2 DEF Asked
<1>5. sbrk' = sbrk /\ symrgtbl' = [symrgtbl EXCEPT ![r] = Regions!None]
  BY <1>1 DEF Regions!Free, Regions!FreeEmpty, Regions!Clear, Regions!areaVars
<1>6. Limit'
  BY <1>1, <1>2, <1>5 DEF Limit, End, Regions!Align
<1>7. (~uaf => Below)'
  BY <1>1, BelowFree
<1>8. uaf' \in BOOLEAN
  <2>1. uaf' = TRUE \/ uaf' = uaf
    BY <1>1 DEF Regions!Free, Regions!FreeEmpty, Regions!FreeAlone,
       Regions!FreeMergeUp, Regions!FreeMergeDown, Regions!FreeMergeBoth
  <2>2. QED
    BY <2>1 DEF ByteTypes
<1>9. Backed' /\ BytesKept' /\ ByteTypes'
  <2>1. kept' \in BOOLEAN /\ watch' = watch /\ (kept' => kept /\ r # Watched)
    BY <1>1, Forgotten
  <2>2. kept' => symrgtbl'[Watched] = symrgtbl[Watched]
    BY <1>1, <1>5, <2>1, SelfAssumption DEF Below
  <2>3. ~uaf
    BY <1>1 DEF Followed
  <2>4. QED
    BY <1>1, <1>2, <1>8, <2>1, <2>2, <2>3, NoBytesMove
<1>10. QED
  BY <1>3, <1>4, <1>6, <1>7, <1>9

(* The allocations of the others, and the end of one of them.              *)
LEMMA OtherAllocatesInv ==
  ASSUME MemoryInv, NEW p \in Proc \ {Self},
         OtherAllocates(p) \/ OtherExits(p)
  PROVE  MemoryInv' /\ Untouched(Self)
<1> USE DEF MemoryInv
<1>1. UNCHANGED <<regionVars, request, byteVars, watch, kept>>
  BY DEF OtherAllocates, OtherExits, programVars
<1>2. Self \in Proc \ {p} /\ p \in Proc
  BY SelfAssumption
<1>3. IInv' /\ wild' = wild /\ Untouched(Self)
  <2>1. CASE \E n \in 1 .. MaxReq : Request(p, n)
    <3>1. PICK n \in Nat : Request(p, n)
      BY <2>1, BoundsAssumption
    <3>2. QED
      BY <1>2, <3>1, RequestEffect
  <2>2. CASE GetStep(p)
    BY <1>2, <2>2, GetEffect
  <2>3. CASE Map(p) \/ Oom(p)
    BY <1>2, <2>3, EndEffect
  <2>4. CASE Exit(p)
    BY <1>2, <2>4, ExitEffect
  <2>5. QED
    BY <2>1, <2>2, <2>3, <2>4 DEF OtherAllocates, OtherExits, GetStep
<1>4. SelfAlone
  BY <1>1, <1>3, UntouchedAsks DEF SelfAlone, Untouched, regionVars
<1>5. (~uaf => Below)' /\ Asked' /\ Limit'
  BY <1>1, <1>4, AreaAlone
<1>6. Backed' /\ BytesKept' /\ ByteTypes'
  BY <1>1, <1>3, NoBytesMove DEF regionVars, ByteTypes, Untouched
<1>7. QED
  BY <1>3, <1>5, <1>6

-----------------------------------------------------------------------------
(* The invariant                                                           *)

LEMMA InitInv == MemoryInit => MemoryInv
<1> SUFFICES ASSUME MemoryInit PROVE MemoryInv
  OBVIOUS
<1>1. Init /\ Regions!Init /\ request = NoRequest
  BY DEF MemoryInit
<1>2. IInv
  BY <1>1, InitIInv
<1>3. /\ symrgtbl = [r \in Reg |-> <<0, 0>>] /\ vm_freerg_list = <<<<0, 0>>>>
      /\ sbrk = 0 /\ uaf = FALSE
  BY <1>1 DEF Regions!Init, Regions!None
<1>4. apc[Self] = "idle" /\ limit[Self] = 0
  BY <1>1, SelfAssumption DEF Init
<1>5. Below
  <2>1. <<0, 0>> \in Region(0)
    BY DEF Region
  <2>2. PICK S : S = Region(0)
    OBVIOUS
  <2>3. <<<<0, 0>>>> \in Seq(S)
    BY <2>1, <2>2
  <2>4. MaxPgn * PAGESZ \in Nat
    BY BoundsAssumption, Times
  <2>5. 0 \in 0 .. MaxPgn * PAGESZ
    BY <2>4
  <2>6. symrgtbl \in [Reg -> Region(0)]
    BY <1>3, <2>1
  <2>7. QED
    BY <1>3, <2>2, <2>3, <2>5, <2>6 DEF Below
<1>6. Asked
  BY <1>1, <1>4 DEF Asked
<1>7. Limit
  <2>1. End = 0
    BY <1>1, <1>4, PagesAssumption DEF End, NoRequest
  <2>2. PICK q \in Nat : /\ Regions!Align(0) = q * PAGESZ
                         /\ \A k \in Nat : 0 <= k * PAGESZ => q <= k
    BY AlignIs
  <2>3. 0 * PAGESZ = 0
    BY PagesAssumption
  <2>4. q = 0
    BY <2>2, <2>3
  <2>5. QED
    BY <1>3, <2>1, <2>2, <2>3, <2>4 DEF Limit
<1>8. ByteTypes
  BY <1>3, FollowAssumption DEF MemoryInit, ByteTypes, Other
<1>9. Backed /\ BytesKept
  BY DEF MemoryInit, Backed, BytesKept
<1>10. QED
  BY <1>2, <1>5, <1>6, <1>7, <1>8, <1>9 DEF MemoryInv

(* Nothing happens here.                                                   *)
LEMMA StutterInv ==
  ASSUME MemoryInv, UNCHANGED memoryVars
  PROVE  MemoryInv'
<1> USE DEF MemoryInv
<1>1. UNCHANGED vars /\ UNCHANGED <<regionVars, request, byteVars, watch, kept>>
  BY DEF memoryVars, programVars
<1>2. UNCHANGED <<pgd, limit, apc, left, frm_lst, frm_lst_swap, wild>>
  BY <1>1 DEF vars, tableVars, allocVars, historyVars
<1>3. IInv'
  BY <1>1, StutterIInv
<1>4. SelfAlone
  BY <1>1, <1>2 DEF SelfAlone, Requested, regionVars
<1>5. (~uaf => Below)' /\ Asked' /\ Limit'
  BY <1>1, <1>4, AreaAlone
<1>6. Backed' /\ BytesKept' /\ ByteTypes'
  BY <1>1, <1>2, NoBytesMove DEF regionVars, ByteTypes
<1>7. QED
  BY <1>3, <1>5, <1>6

(* Every step of Self and of the others preserves the invariant.           *)
LEMMA NextInv == MemoryInv /\ [MemoryNext]_memoryVars => MemoryInv'
<1> SUFFICES ASSUME MemoryInv, [MemoryNext]_memoryVars PROVE MemoryInv'
  OBVIOUS
<1>1. CASE run
  <2>1. ASSUME NEW r \in Reg, NEW size \in Sizes,
               AllocLocally(r, size) \/ AllocRequest(r, size)
        PROVE  MemoryInv'
    BY <2>1, AllocLocallyInv, AllocRequestInv
  <2>2. ASSUME NEW r \in Reg, Free(r) PROVE MemoryInv'
    BY <2>2, FreeInv
  <2>3. ASSUME NEW r \in Reg, NEW o \in WriteOffset(r),
               pgwrite(r, o) \/ pgread(r, o)
        PROVE  MemoryInv'
    BY <2>3, pgwriteInv, pgreadInv
  <2>4. CASE GetFrames
    BY <2>4, GetFramesInv
  <2>5. CASE AllocFinish
    BY <2>5, AllocFinishInv
  <2>6. QED
    BY <1>1, <2>1, <2>2, <2>3, <2>4, <2>5 DEF run
<1>2. ASSUME NEW p \in Proc \ {Self}, OtherRun(p) PROVE MemoryInv'
  <2>1. CASE OtherAllocates(p) \/ OtherExits(p)
    BY <2>1, OtherAllocatesInv
  <2>2. CASE \E pgn \in 0 .. OtherPages :
               (\E off \in Offset : OtherWrites(p, pgn, off))
                 \/ OtherReads(p, pgn)
    BY <2>2, OtherAccessInv
  <2>3. QED
    BY <1>2, <2>1, <2>2 DEF OtherRun
<1>3. CASE UNCHANGED memoryVars
  BY <1>3, StutterInv
<1>4. QED
  BY <1>1, <1>2, <1>3 DEF MemoryNext

-----------------------------------------------------------------------------
(* The regions                                                             *)

(* What the regions see of a step that is none of theirs.                  *)
LEMMA RegionsStutter ==
  ASSUME UNCHANGED <<regionVars, request>>,
         limit'[Self] = limit[Self], mapped'[Self] = mapped[Self]
  PROVE  UNCHANGED Regions!vars
BY DEF Regions!vars, Regions!areaVars, regionVars

(* The end of a request, with its pages or without, is the step of __alloc *)
(* that grows the area.                                                    *)
LEMMA FinishGrows ==
  ASSUME MemoryInv, AllocFinish
  PROVE  Regions!AllocGrow(request.reg, request.size)
<1> USE DEF MemoryInv
<1>1. PICK size \in Sizes : size = request.size
  BY DEF AllocFinish, Asked
<1>2. PICK num \in Nat : num = request.pages
  BY DEF AllocFinish, Asked
<1>3. /\ num = Requested(Self) /\ num * PAGESZ = Regions!IncAmount(size)
      /\ End <= RamFrames * PAGESZ /\ Regions!MustGrow(size)
  BY <1>1, <1>2 DEF AllocFinish, Asked
<1>4. PICK k \in Nat : k = limit[Self] - num
  BY <1>2, EndIs
<1>5. limit[Self] \in Nat /\ limit[Self] = k + num
  BY <1>4, EndIs
<1>6. End = k * PAGESZ
  BY <1>2, <1>4 DEF End
<1>7. limit' = limit
  BY EndEffect, SelfAssumption DEF AllocFinish
<1>8. (limit'[Self] - request'.pages) * PAGESZ = End + Regions!IncAmount(size)
  <2>1. request'.pages = 0
    BY DEF AllocFinish, NoRequest
  <2>2. limit'[Self] - request'.pages = k + num
    BY <1>5, <1>7, <2>1
  <2>3. (k + num) * PAGESZ = k * PAGESZ + num * PAGESZ
    BY Times
  <2>4. QED
    BY <1>3, <1>6, <2>2, <2>3
<1>9. PICK new : new = k .. k + num - 1
  OBVIOUS
<1>10. Regions!PagesOf(<<End, End + Regions!IncAmount(size)>>) = new
  <2>1. Regions!PagesOf(<<k * PAGESZ, k * PAGESZ + num * PAGESZ>>)
          = k .. k + num - 1
    BY PagesOfRun
  <2>2. QED
    BY <1>3, <1>6, <1>9, <2>1
<1>11. \/ mapped'[Self] = mapped[Self] \cup new /\ holes' = holes
       \/ holes' = holes \cup new /\ mapped'[Self] = mapped[Self]
  <2>1. CASE Map(Self) /\ UNCHANGED holes
    <3>1. NewPages(Self) = limit[Self] - num .. limit[Self] - 1
      BY <1>3, <2>1, MapsRequested, SelfAssumption
    <3>2. NewPages(Self) = new
      <4>1. PICK a : a = limit[Self] - num
        OBVIOUS
      <4>2. PICK b : b = limit[Self] - 1
        OBVIOUS
      <4>3. a = k /\ b = k + num - 1
        BY <1>4, <1>5, <4>1, <4>2
      <4>4. NewPages(Self) = a .. b
        BY <3>1, <4>1, <4>2, Zenon
      <4>5. QED
        BY <1>9, <4>3, <4>4, Zenon
    <3>3. QED
      BY <2>1, <3>2, MapsRequested, SelfAssumption
  <2>2. CASE /\ Oom(Self)
             /\ holes' = holes \cup
                  Regions!PagesOf(<<End, End + request.pages * PAGESZ>>)
    <3>1. holes' = holes \cup new
      BY <1>2, <1>3, <1>10, <2>2
    <3>2. mapped' = mapped
      BY <2>2 DEF Oom, tableVars
    <3>3. QED
      BY <3>1, <3>2
  <2>3. QED
    BY <2>1, <2>2 DEF AllocFinish, End
<1>12. QED
  BY <1>1, <1>3, <1>8, <1>10, <1>11
     DEF Regions!AllocGrow, AllocFinish, End

(* Every step is one of the regions, or none.                              *)
LEMMA RegionsStep ==
  MemoryInv /\ [MemoryNext]_memoryVars => [Regions!Next]_(Regions!vars)
<1> SUFFICES ASSUME MemoryInv, [MemoryNext]_memoryVars
             PROVE  Regions!Next \/ UNCHANGED Regions!vars
  OBVIOUS
<1> USE DEF MemoryInv
<1>1. ASSUME NEW r \in Reg, NEW size \in Sizes, AllocLocally(r, size)
      PROVE  Regions!Next
  BY <1>1 DEF AllocLocally, Regions!Next, Regions!Alloc
<1>2. ASSUME NEW r \in Reg, NEW size \in Sizes, AllocRequest(r, size)
      PROVE  UNCHANGED Regions!vars
  <2>1. End' = End /\ mapped' = mapped /\ UNCHANGED regionVars
    BY <1>2, AllocRequestInv DEF AllocRequest
  <2>2. QED
    BY <2>1 DEF End, Regions!vars, Regions!areaVars, regionVars
<1>3. ASSUME NEW r \in Reg, Free(r) PROVE Regions!Next
  BY <1>3 DEF Free, Ready, Followed, Regions!Next
<1>4. ASSUME NEW r \in Reg, NEW o \in WriteOffset(r),
             pgwrite(r, o) \/ pgread(r, o)
      PROVE  UNCHANGED Regions!vars
  <2>1. UNCHANGED <<regionVars, request>>
    BY <1>4 DEF pgwrite, pgread
  <2>2. PICK pgn \in Pgn : pgn = Page(Address(r, o))
    <3>1. Below
      BY <1>4 DEF pgwrite, pgread, Ready, Followed
    <3>2. QED
      BY <3>1, Reached DEF WriteOffset
  <2>3. UNCHANGED vars \/ Read(Self, pgn) \/ Write(Self, pgn)
    BY <1>4, <2>2
       DEF pgwrite, pgread, WriteHere, WriteAfterFault, WriteNowhere
  <2>4. limit' = limit /\ mapped' = mapped
    BY <2>3, AccessEffect, SelfAssumption DEF vars, allocVars, tableVars
  <2>5. QED
    BY <2>1, <2>4, RegionsStutter
<1>5. ASSUME GetFrames PROVE UNCHANGED Regions!vars
  BY <1>5, GetFramesInv, RegionsStutter DEF GetFrames, programVars
<1>6. ASSUME AllocFinish PROVE Regions!Next
  <2>1. Regions!AllocGrow(request.reg, request.size)
    BY <1>6, FinishGrows
  <2>2. request.reg \in Reg /\ request.size \in Sizes
    BY <1>6 DEF AllocFinish, Asked
  <2>3. QED
    BY <2>1, <2>2 DEF Regions!Next, Regions!Alloc
<1>7. ASSUME NEW p \in Proc \ {Self}, OtherRun(p)
      PROVE  UNCHANGED Regions!vars
  <2>1. CASE OtherAllocates(p) \/ OtherExits(p)
    BY <2>1, OtherAllocatesInv, RegionsStutter
       DEF OtherAllocates, OtherExits, programVars, Untouched
  <2>2. ASSUME NEW pgn \in 0 .. OtherPages,
               \/ OtherReads(p, pgn)
               \/ \E off \in Offset : OtherWrites(p, pgn, off)
        PROVE  UNCHANGED Regions!vars
    <3>1. UNCHANGED <<regionVars, request>>
      BY <2>2 DEF OtherReads, OtherWrites
    <3>2. UNCHANGED vars \/ Read(p, pgn) \/ Write(p, pgn)
      BY <2>2 DEF OtherReads, OtherWrites, WriteHere, WriteAfterFault
    <3>3. pgn \in Pgn
      BY FollowAssumption, BoundsAssumption DEF Pgn
    <3>4. limit' = limit /\ mapped' = mapped
      BY <3>2, <3>3, AccessEffect DEF vars, allocVars, tableVars
    <3>5. QED
      BY <3>1, <3>4, RegionsStutter
  <2>3. QED
    BY <1>7, <2>1, <2>2 DEF OtherRun
<1>8. CASE UNCHANGED memoryVars
  BY <1>8, RegionsStutter
     DEF memoryVars, programVars, vars, allocVars, tableVars
<1>9. QED
  BY <1>1, <1>2, <1>3, <1>4, <1>5, <1>6, <1>7, <1>8 DEF MemoryNext, run

-----------------------------------------------------------------------------
(* Theorems                                                                *)

(* The invariant holds in every reachable state: among the rest, all that  *)
(* is proved of frames and page tables in PagingProofs holds when a        *)
(* program's instructions drive them.                                      *)
THEOREM MemoryInvariance == MemorySpec => []MemoryInv
BY InitInv, NextInv, PTL DEF MemorySpec

(* What a program has written to a register is there, in RAM or in swap,   *)
(* through any allocations, frees and page faults of it and of the others, *)
(* unless a later write was meant for that byte or reached it; as long as  *)
(* swap is not full and no freed node was used.                            *)
THEOREM BytesKeptCorrect == MemorySpec => []BytesKept
<1>1. MemoryInv => BytesKept
  BY DEF MemoryInv
<1>2. QED
  BY <1>1, MemoryInvariance, PTL

(* On top of real frames, with alloc_pages_range in several steps and      *)
(* other processes in between, the regions of a process behave as VmRegion *)
(* has them, where vm_map_ram maps all pages in one step or none.          *)
THEOREM RegionsImplemented == MemorySpec => ImplementsRegions
<1>1. MemoryInit => Regions!Init
  BY DEF MemoryInit
<1>2. QED
  BY <1>1, InitInv, NextInv, RegionsStep, PTL
     DEF MemorySpec, ImplementsRegions, Regions!Spec
=============================================================================
