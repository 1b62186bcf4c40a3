--------------------------- MODULE VmRegionProofs ---------------------------
(***************************************************************************)
(* Proofs about VmRegion for any registers, page size, sizes of requests   *)
(* and bounds.                                                             *)
(*                                                                         *)
(* The argument follows single bytes: a byte below sbrk is of exactly one  *)
(* register, or of exactly one node of the free list, or leaked.  What a   *)
(* step does to the list is one of four operations on it, of which only    *)
(* the bytes that go in or out matter to the rest.                         *)
(***************************************************************************)
EXTENDS VmRegion, WellFoundedInduction, TLAPS

-----------------------------------------------------------------------------
(* The inductive invariant                                                 *)

Region == Nat \X Nat
In(b, rg) == rg[1] <= b /\ b < rg[2]

(* Two regions are apart if there is space between them.                   *)
Apart(rg1, rg2) == rg1[2] < rg2[1] \/ rg2[2] < rg1[1]

(* A list that ends in the dummy, its other nodes apart from each other.   *)
FreeList(l, top) ==
  /\ l \in Seq(Region) /\ l # <<>> /\ l[Len(l)] = None
  /\ \A i \in DOMAIN l : i # Len(l) => l[i][1] < l[i][2] /\ l[i][2] <= top
  /\ \A i, j \in DOMAIN l :
       i # Len(l) /\ j # Len(l) /\ i # j => Apart(l[i], l[j])

Has(l, b) == \E i \in DOMAIN l : In(b, l[i])

(* Each byte below top is accounted for, and once.                         *)
Space(regs, l, top, gone) ==
  /\ regs \in [Reg -> Region] /\ gone \subseteq Nat
  /\ \A r \in Reg : \A b \in Nat : In(b, regs[r]) => b < top /\ ~Has(l, b)
  /\ \A q, r \in Reg : \A b \in Nat :
       In(b, regs[q]) /\ In(b, regs[r]) => q = r
  /\ \A b \in Nat : b < top <=> \/ \E r \in Reg : In(b, regs[r])
                               \/ Has(l, b)
                               \/ b \in gone

(* The number of pages that n bytes need.                                  *)
PagesFor(n) == (n + PAGESZ - 1) \div PAGESZ

(* The pages of the area are mapped or holes.                              *)
Area ==
  /\ vm_end \in Nat
  /\ pages \cap holes = {}
  /\ pages \cup holes = 0 .. PagesFor(sbrk) - 1
  /\ vm_end <= MaxSz => vm_end = Align(sbrk)

IInv ==
  /\ uaf \in BOOLEAN
  /\ ~uaf => /\ sbrk \in Nat
             /\ FreeList(vm_freerg_list, sbrk)
             /\ Space(symrgtbl, vm_freerg_list, sbrk, leaked)
             /\ Area

-----------------------------------------------------------------------------
(* Regions and lists                                                       *)

(* Two regions with no byte in common lie one after the other.             *)
LEMMA NoCommonByte ==
  ASSUME NEW rg1 \in Region, NEW rg2 \in Region,
         rg1[1] < rg1[2], rg2[1] < rg2[2],
         \A b \in Nat : ~(In(b, rg1) /\ In(b, rg2))
  PROVE  rg1[2] <= rg2[1] \/ rg2[2] <= rg1[1]
<1>1. /\ rg1[1] \in Nat /\ rg1[2] \in Nat
      /\ rg2[1] \in Nat /\ rg2[2] \in Nat
  BY DEF Region
<1>2. ~(In(rg1[1], rg1) /\ In(rg1[1], rg2))
  BY <1>1
<1>3. ~(In(rg2[1], rg1) /\ In(rg2[1], rg2))
  BY <1>1
<1>4. QED
  BY <1>1, <1>2, <1>3 DEF In

(* Regions that are apart have no byte in common.                          *)
LEMMA ApartIsDisjoint ==
  ASSUME NEW rg1 \in Region, NEW rg2 \in Region, Apart(rg1, rg2)
  PROVE  \A b \in Nat : ~(In(b, rg1) /\ In(b, rg2))
BY DEF Apart, In, Region

(* The parts of a free list.                                               *)
LEMMA ListParts ==
  ASSUME NEW l, NEW top \in Nat, FreeList(l, top)
  PROVE  /\ Len(l) \in Nat \ {0} /\ DOMAIN l = 1 .. Len(l)
         /\ Len(l) \in DOMAIN l /\ l[Len(l)] = None
         /\ \A i \in DOMAIN l :
              /\ i \in Nat /\ l[i] \in Region
              /\ l[i][1] \in Nat /\ l[i][2] \in Nat
              /\ i # Len(l) <=> l[i] # None
              /\ i # Len(l) => l[i][1] < l[i][2] /\ l[i][2] <= top
         /\ \A b \in Nat : ~In(b, l[Len(l)])
<1>1. l \in Seq(Region) /\ l # <<>> /\ l[Len(l)] = None
  BY DEF FreeList
<1>2. Len(l) \in Nat \ {0} /\ DOMAIN l = 1 .. Len(l) /\ Len(l) \in DOMAIN l
  BY <1>1
<1>3. \A i \in DOMAIN l : i \in Nat /\ l[i] \in Region
  BY <1>1, <1>2
<1>4. \A i \in DOMAIN l : i # Len(l) => l[i][1] < l[i][2] /\ l[i][2] <= top
  BY DEF FreeList
<1>5. ASSUME NEW rg \in Region
      PROVE  /\ rg[1] \in Nat /\ rg[2] \in Nat
             /\ rg[1] < rg[2] => rg # None
  BY DEF Region, None
<1>6. \A b \in Nat : ~In(b, None)
  BY DEF In, None
<1>7. QED
  BY <1>1, <1>2, <1>3, <1>4, <1>5, <1>6

(* The bytes of the other nodes are those of the list but for a node's.    *)
LEMMA OtherNodes ==
  ASSUME NEW l, NEW top \in Nat, FreeList(l, top),
         NEW i \in DOMAIN l, NEW b \in Nat
  PROVE  (\E j \in DOMAIN l : j # i /\ In(b, l[j]))
           <=> Has(l, b) /\ ~In(b, l[i])
<1>1. ASSUME NEW j \in DOMAIN l, j # i, In(b, l[j])
      PROVE  ~In(b, l[i])
  <2>1. j # Len(l)
    BY <1>1, ListParts
  <2>2. CASE i = Len(l)
    BY <2>2, ListParts
  <2>3. CASE i # Len(l)
    <3>1. Apart(l[i], l[j]) /\ l[i] \in Region /\ l[j] \in Region
      BY <1>1, <2>1, <2>3, ListParts DEF FreeList
    <3>2. QED
      BY <1>1, <3>1, ApartIsDisjoint
  <2>4. QED
    BY <2>2, <2>3
<1>2. QED
  BY <1>1 DEF Has

(* A node changes its region to one that is apart from the others.         *)
LEMMA ChangeNode ==
  ASSUME NEW l, NEW top \in Nat, FreeList(l, top),
         NEW i \in DOMAIN l, i # Len(l), NEW m \in Region,
         m[1] < m[2], m[2] <= top,
         \A j \in DOMAIN l : j # i /\ j # Len(l) => Apart(m, l[j])
  PROVE  /\ FreeList([l EXCEPT ![i] = m], top)
         /\ \A b \in Nat : Has([l EXCEPT ![i] = m], b)
                             <=> (Has(l, b) /\ ~In(b, l[i])) \/ In(b, m)
<1>1. PICK l2 : l2 = [l EXCEPT ![i] = m]
  OBVIOUS
<1>2. /\ DOMAIN l2 = DOMAIN l /\ l2[i] = m
      /\ \A j \in DOMAIN l : j # i => l2[j] = l[j]
  BY <1>1
<1>3. l2 \in Seq(Region) /\ Len(l2) = Len(l) /\ l2 # <<>>
  <2>1. l \in Seq(Region)
    BY DEF FreeList
  <2>2. l2 \in Seq(Region) /\ Len(l2) = Len(l)
    BY <1>1, <2>1
  <2>3. QED
    BY <2>2, ListParts
<1>4. l2[Len(l2)] = None
  BY <1>2, <1>3, ListParts
<1>5. \A j \in DOMAIN l2 : j # Len(l2) => l2[j][1] < l2[j][2] /\ l2[j][2] <= top
  BY <1>2, <1>3, ListParts
<1>6. ASSUME NEW j \in DOMAIN l2, NEW k \in DOMAIN l2,
             j # Len(l2), k # Len(l2), j # k
      PROVE  Apart(l2[j], l2[k])
  <2>1. CASE j = i
    BY <1>2, <1>3, <1>6, <2>1
  <2>2. CASE k = i
    <3>1. Apart(m, l[j])
      BY <1>2, <1>3, <1>6, <2>2
    <3>2. QED
      BY <1>2, <1>6, <2>2, <3>1 DEF Apart
  <2>3. CASE j # i /\ k # i
    BY <1>2, <1>3, <1>6, <2>3 DEF FreeList
  <2>4. QED
    BY <2>1, <2>2, <2>3
<1>7. FreeList(l2, top)
  BY <1>3, <1>4, <1>5, <1>6 DEF FreeList
<1>8. ASSUME NEW b \in Nat
      PROVE  Has(l2, b) <=> (Has(l, b) /\ ~In(b, l[i])) \/ In(b, m)
  <2>1. Has(l2, b) <=> (\E j \in DOMAIN l : j # i /\ In(b, l[j])) \/ In(b, m)
    BY <1>2 DEF Has
  <2>2. QED
    BY <2>1, OtherNodes
<1>9. QED
  BY <1>1, <1>7, <1>8

(* A sequence with an element removed.                                     *)
LEMMA Removed ==
  ASSUME NEW S, NEW l \in Seq(S), NEW i \in DOMAIN l
  PROVE  /\ RemoveAt(l, i) \in Seq(S)
         /\ Len(l) \in Nat /\ DOMAIN l = 1 .. Len(l)
         /\ Len(RemoveAt(l, i)) = Len(l) - 1
         /\ DOMAIN RemoveAt(l, i) = 1 .. Len(l) - 1
         /\ \A k \in 1 .. Len(l) - 1 :
              /\ k < i => RemoveAt(l, i)[k] = l[k]
              /\ ~(k < i) => RemoveAt(l, i)[k] = l[k + 1]
<1>1. PICK n \in Nat : n = Len(l)
  OBVIOUS
<1>2. DOMAIN l = 1 .. n /\ i \in 1 .. n
  BY <1>1
<1>3. PICK a : a = SubSeq(l, 1, i - 1)
  OBVIOUS
<1>4. PICK c : c = SubSeq(l, i + 1, n)
  OBVIOUS
<1>5. /\ a \in Seq(S) /\ Len(a) = i - 1
      /\ \A k \in 1 .. i - 1 : a[k] = l[k]
  BY <1>1, <1>2, <1>3
<1>6. /\ c \in Seq(S) /\ Len(c) = n - i
      /\ \A k \in 1 .. n - i : c[k] = l[k + i]
  BY <1>1, <1>2, <1>4
<1>7. PICK d : d = a \o c
  OBVIOUS
<1>8. /\ d \in Seq(S) /\ Len(d) = n - 1 /\ DOMAIN d = 1 .. n - 1
      /\ \A k \in 1 .. n - 1 : d[k] = IF k < i THEN a[k] ELSE c[k - i + 1]
  BY <1>2, <1>5, <1>6, <1>7
<1>9. ASSUME NEW k \in 1 .. n - 1
      PROVE  /\ k < i => d[k] = l[k]
             /\ ~(k < i) => d[k] = l[k + 1]
  <2>1. CASE k < i
    BY <1>2, <1>5, <1>8, <2>1
  <2>2. CASE ~(k < i)
    <3>1. k - i + 1 \in 1 .. n - i /\ (k - i + 1) + i = k + 1
      BY <1>2, <2>2
    <3>2. QED
      BY <1>6, <1>8, <2>2, <3>1
  <2>3. QED
    BY <2>1, <2>2
<1>10. RemoveAt(l, i) = d
  BY <1>1, <1>3, <1>4, <1>7 DEF RemoveAt
<1>11. QED
  BY <1>1, <1>2, <1>8, <1>9, <1>10

(* A node goes, with its bytes.                                            *)
LEMMA RemoveNode ==
  ASSUME NEW l, NEW top \in Nat, FreeList(l, top),
         NEW i \in DOMAIN l, i # Len(l)
  PROVE  /\ FreeList(DeleteNode(l, i), top)
         /\ DeleteNode(l, i) = RemoveAt(l, i)
         /\ \A b \in Nat :
              Has(DeleteNode(l, i), b) <=> Has(l, b) /\ ~In(b, l[i])
         /\ \A k \in DOMAIN DeleteNode(l, i) : k # Len(DeleteNode(l, i)) =>
              \E j \in DOMAIN l :
                j # i /\ j # Len(l) /\ DeleteNode(l, i)[k] = l[j]
<1>1. PICK n \in Nat \ {0} : n = Len(l)
  BY ListParts
<1>2. DOMAIN l = 1 .. n /\ i \in 1 .. n - 1 /\ l[n] = None
  BY <1>1, ListParts
<1>3. PICK d : d = RemoveAt(l, i)
  OBVIOUS
<1>4. DeleteNode(l, i) = d
  BY <1>1, <1>2, <1>3 DEF DeleteNode
<1>5. /\ d \in Seq(Region) /\ Len(d) = n - 1 /\ DOMAIN d = 1 .. n - 1
      /\ \A k \in 1 .. n - 1 : /\ k < i => d[k] = l[k]
                               /\ ~(k < i) => d[k] = l[k + 1]
  <2>1. l \in Seq(Region)
    BY DEF FreeList
  <2>2. QED
    BY <1>1, <1>3, <2>1, Removed
<1>6. PICK at : at = [k \in 1 .. n - 1 |-> IF k < i THEN k ELSE k + 1]
  OBVIOUS
<1>7. \A k \in 1 .. n - 1 :
        /\ at[k] \in DOMAIN l /\ at[k] # i /\ d[k] = l[at[k]]
        /\ at[k] = n <=> k = n - 1
  BY <1>2, <1>5, <1>6
<1>8. \A k, j \in 1 .. n - 1 : k # j => at[k] # at[j]
  BY <1>2, <1>6
<1>9. d # <<>> /\ d[Len(d)] = None
  <2>1. n - 1 \in 1 .. n - 1 /\ n - 1 \in Nat \ {0}
    BY <1>2
  <2>2. at[n - 1] = n
    BY <1>7, <2>1
  <2>3. QED
    BY <1>2, <1>5, <1>7, <2>1, <2>2
<1>10. \A k \in DOMAIN d : k # Len(d) => d[k][1] < d[k][2] /\ d[k][2] <= top
  <2> SUFFICES ASSUME NEW k \in DOMAIN d, k # Len(d)
               PROVE  d[k][1] < d[k][2] /\ d[k][2] <= top
    OBVIOUS
  <2>1. PICK j : j \in DOMAIN l /\ j # Len(l) /\ d[k] = l[j]
    BY <1>1, <1>5, <1>7
  <2>2. l[j][1] < l[j][2] /\ l[j][2] <= top
    BY <2>1, ListParts
  <2>3. QED
    BY <2>1, <2>2
<1>11. \A k, j \in DOMAIN d :
         k # Len(d) /\ j # Len(d) /\ k # j => Apart(d[k], d[j])
  BY <1>1, <1>5, <1>7, <1>8 DEF FreeList
<1>12. FreeList(d, top)
  BY <1>5, <1>9, <1>10, <1>11 DEF FreeList
<1>13. ASSUME NEW b \in Nat
       PROVE  Has(d, b) <=> Has(l, b) /\ ~In(b, l[i])
  <2>1. ASSUME NEW j \in DOMAIN l, j # i, In(b, l[j])
        PROVE  Has(d, b)
    <3>1. CASE j < i
      BY <1>2, <1>5, <2>1, <3>1 DEF Has
    <3>2. CASE ~(j < i)
      <4>1. j - 1 \in 1 .. n - 1 /\ ~(j - 1 < i) /\ (j - 1) + 1 = j
        BY <1>2, <2>1, <3>2
      <4>2. d[j - 1] = l[j]
        BY <1>5, <4>1
      <4>3. QED
        BY <1>5, <2>1, <4>1, <4>2 DEF Has
    <3>3. QED
      BY <3>1, <3>2
  <2>2. Has(d, b) => \E j \in DOMAIN l : j # i /\ In(b, l[j])
    BY <1>5, <1>7 DEF Has
  <2>3. QED
    BY <2>1, <2>2, OtherNodes
<1>14. \A k \in DOMAIN d : k # Len(d) =>
         \E j \in DOMAIN l : j # i /\ j # Len(l) /\ d[k] = l[j]
  BY <1>1, <1>5, <1>7
<1>15. QED
  BY <1>3, <1>4, <1>12, <1>13, <1>14

(* A region that is apart from the nodes becomes the first node.           *)
LEMMA AddNode ==
  ASSUME NEW l, NEW top \in Nat, FreeList(l, top),
         NEW m \in Region, m[1] < m[2], m[2] <= top,
         \A j \in DOMAIN l : j # Len(l) => Apart(m, l[j])
  PROVE  /\ FreeList(<<m>> \o l, top)
         /\ \A b \in Nat : Has(<<m>> \o l, b) <=> Has(l, b) \/ In(b, m)
<1>1. PICK n \in Nat \ {0} : n = Len(l)
  BY ListParts
<1>2. DOMAIN l = 1 .. n /\ l[n] = None /\ l \in Seq(Region)
  BY <1>1, ListParts DEF FreeList
<1>3. PICK d : d = <<m>> \o l
  OBVIOUS
<1>4. /\ d \in Seq(Region) /\ Len(d) = n + 1 /\ DOMAIN d = 1 .. n + 1
      /\ d[1] = m /\ \A k \in 2 .. n + 1 : d[k] = l[k - 1]
  BY <1>1, <1>2, <1>3
<1>5. \A k \in 1 .. n + 1 : \/ k = 1 /\ d[k] = m
                            \/ /\ k - 1 \in DOMAIN l /\ d[k] = l[k - 1]
                               /\ k = n + 1 <=> k - 1 = n
  BY <1>2, <1>4
<1>6. d # <<>> /\ d[Len(d)] = None
  <2>1. n + 1 \in 2 .. n + 1 /\ (n + 1) - 1 = n
    OBVIOUS
  <2>2. QED
    BY <1>2, <1>4, <2>1
<1>7. \A k \in DOMAIN d : k # Len(d) => d[k][1] < d[k][2] /\ d[k][2] <= top
  BY <1>1, <1>4, <1>5, ListParts
<1>8. ASSUME NEW k \in DOMAIN d, NEW j \in DOMAIN d,
             k # Len(d), j # Len(d), k # j
      PROVE  Apart(d[k], d[j])
  <2>1. CASE k = 1
    <3>1. j - 1 \in DOMAIN l /\ d[j] = l[j - 1] /\ j - 1 # n
      BY <1>4, <1>5, <1>8, <2>1
    <3>2. QED
      BY <1>1, <1>4, <2>1, <3>1
  <2>2. CASE j = 1
    <3>1. k - 1 \in DOMAIN l /\ d[k] = l[k - 1] /\ k - 1 # n
      BY <1>4, <1>5, <1>8, <2>2
    <3>2. Apart(m, l[k - 1])
      BY <1>1, <3>1
    <3>3. QED
      BY <1>4, <2>2, <3>1, <3>2 DEF Apart
  <2>3. CASE k # 1 /\ j # 1
    <3>1. /\ k - 1 \in DOMAIN l /\ d[k] = l[k - 1] /\ k - 1 # n
          /\ j - 1 \in DOMAIN l /\ d[j] = l[j - 1] /\ j - 1 # n
          /\ k - 1 # j - 1
      BY <1>4, <1>5, <1>8, <2>3
    <3>2. Apart(l[k - 1], l[j - 1])
      BY <1>1, <3>1 DEF FreeList
    <3>3. QED
      BY <3>1, <3>2
  <2>4. QED
    BY <2>1, <2>2, <2>3
<1>9. FreeList(d, top)
  BY <1>4, <1>6, <1>7, <1>8 DEF FreeList
<1>10. ASSUME NEW b \in Nat
       PROVE  Has(d, b) <=> Has(l, b) \/ In(b, m)
  <2>1. ASSUME NEW j \in DOMAIN l
        PROVE  j + 1 \in DOMAIN d /\ d[j + 1] = l[j]
    BY <1>2, <1>4
  <2>2. Has(l, b) => Has(d, b)
    BY <2>1 DEF Has
  <2>3. In(b, m) => Has(d, b)
    BY <1>4 DEF Has
  <2>4. Has(d, b) => Has(l, b) \/ In(b, m)
    BY <1>4, <1>5 DEF Has
  <2>5. QED
    BY <2>2, <2>3, <2>4
<1>11. QED
  BY <1>3, <1>9, <1>10

-----------------------------------------------------------------------------
(* The bytes of registers and list                                         *)

(* The list gives the bytes of a region, or takes them.                    *)
Gives(l, l2, rg) ==
  /\ rg \in Region
  /\ \A b \in Nat : /\ In(b, rg) => Has(l, b)
                    /\ Has(l2, b) <=> Has(l, b) /\ ~In(b, rg)
Takes(l, l2, rg) == \A b \in Nat : Has(l2, b) <=> Has(l, b) \/ In(b, rg)

(* The bytes of a region, as VmRegion counts them and one by one.          *)
LEMMA BytesIn ==
  ASSUME NEW rg \in Region
  PROVE  /\ Bytes(rg) \subseteq Nat
         /\ \A b \in Nat : b \in Bytes(rg) <=> In(b, rg)
         /\ Bytes(rg) # {} <=> rg[1] < rg[2]
<1>1. rg[1] \in Nat /\ rg[2] \in Nat
  BY DEF Region
<1>2. /\ Bytes(rg) \subseteq Nat
      /\ \A b \in Nat : b \in Bytes(rg) <=> In(b, rg)
  BY <1>1 DEF Bytes, In
<1>3. Bytes(rg) # {} => rg[1] < rg[2]
  BY <1>1 DEF Bytes
<1>4. rg[1] < rg[2] => rg[1] \in Bytes(rg)
  BY <1>1 DEF Bytes
<1>5. QED
  BY <1>2, <1>3, <1>4

(* A register gets a region from the list; what it had leaks.              *)
LEMMA FromList ==
  ASSUME NEW regs, NEW l, NEW top \in Nat, NEW gone,
         Space(regs, l, top, gone),
         NEW r \in Reg, NEW rg, NEW l2, Gives(l, l2, rg)
  PROVE  Space([regs EXCEPT ![r] = rg], l2, top, gone \cup Bytes(regs[r]))
<1>1. PICK regs2 : regs2 = [regs EXCEPT ![r] = rg]
  OBVIOUS
<1>2. PICK gone2 : gone2 = gone \cup Bytes(regs[r])
  OBVIOUS
<1>3. regs \in [Reg -> Region] /\ gone \subseteq Nat
  BY DEF Space
<1>4. /\ regs2 \in [Reg -> Region] /\ regs2[r] = rg
      /\ \A q \in Reg : q # r => regs2[q] = regs[q]
  BY <1>1, <1>3 DEF Gives
<1>5. /\ gone2 \subseteq Nat
      /\ \A b \in Nat : b \in gone2 <=> b \in gone \/ In(b, regs[r])
  BY <1>2, <1>3, BytesIn
<1>6. \A q \in Reg : \A b \in Nat : In(b, regs[q]) => b < top /\ ~Has(l, b)
  BY DEF Space
<1>7. \A b \in Nat : Has(l, b) => b < top
  BY DEF Space
<1>8. \A b \in Nat : /\ In(b, rg) => Has(l, b)
                     /\ Has(l2, b) <=> Has(l, b) /\ ~In(b, rg)
  BY DEF Gives
<1>9. \A q \in Reg : \A b \in Nat : In(b, regs2[q]) => b < top /\ ~Has(l2, b)
  BY <1>4, <1>6, <1>7, <1>8
<1>10. \A q, s \in Reg : \A b \in Nat :
         In(b, regs2[q]) /\ In(b, regs2[s]) => q = s
  BY <1>4, <1>6, <1>8 DEF Space
<1>11. ASSUME NEW b \in Nat
       PROVE  b < top <=> \/ \E q \in Reg : In(b, regs2[q])
                          \/ Has(l2, b)
                          \/ b \in gone2
  <2>1. b < top <=> \/ \E q \in Reg : In(b, regs[q])
                    \/ Has(l, b)
                    \/ b \in gone
    BY DEF Space
  <2>2. (\E q \in Reg : In(b, regs2[q]))
          <=> In(b, rg) \/ \E q \in Reg : q # r /\ In(b, regs[q])
    BY <1>4
  <2>3. (\E q \in Reg : In(b, regs[q]))
          <=> In(b, regs[r]) \/ \E q \in Reg : q # r /\ In(b, regs[q])
    OBVIOUS
  <2>4. QED
    BY <1>5, <1>8, <2>1, <2>2, <2>3
<1>12. QED
  BY <1>1, <1>2, <1>4, <1>5, <1>9, <1>10, <1>11 DEF Space

(* A register gets the bytes after the break.                              *)
LEMMA FromBreak ==
  ASSUME NEW regs, NEW l, NEW top \in Nat, NEW gone,
         Space(regs, l, top, gone), NEW r \in Reg, NEW n \in Nat
  PROVE  Space([regs EXCEPT ![r] = <<top, top + n>>], l, top + n,
               gone \cup Bytes(regs[r]))
<1>1. PICK regs2 : regs2 = [regs EXCEPT ![r] = <<top, top + n>>]
  OBVIOUS
<1>2. PICK gone2 : gone2 = gone \cup Bytes(regs[r])
  OBVIOUS
<1>3. regs \in [Reg -> Region] /\ gone \subseteq Nat
  BY DEF Space
<1>4. /\ regs2 \in [Reg -> Region] /\ regs2[r] = <<top, top + n>>
      /\ \A q \in Reg : q # r => regs2[q] = regs[q]
  BY <1>1, <1>3 DEF Region
<1>5. /\ gone2 \subseteq Nat
      /\ \A b \in Nat : b \in gone2 <=> b \in gone \/ In(b, regs[r])
  BY <1>2, <1>3, BytesIn
<1>6. \A q \in Reg : \A b \in Nat : In(b, regs[q]) => b < top /\ ~Has(l, b)
  BY DEF Space
<1>7. \A b \in Nat : Has(l, b) => b < top
  BY DEF Space
<1>8. \A b \in Nat : In(b, regs2[r]) <=> top <= b /\ b < top + n
  BY <1>4 DEF In
<1>9. \A q \in Reg : \A b \in Nat : In(b, regs2[q]) => b < top + n /\ ~Has(l, b)
  <2>1. ASSUME NEW b \in Nat, In(b, regs2[r]) PROVE b < top + n /\ ~Has(l, b)
    <3>1. top <= b /\ b < top + n
      BY <1>8, <2>1
    <3>2. ~(b < top)
      BY <3>1
    <3>3. QED
      BY <1>7, <3>1, <3>2
  <2>2. ASSUME NEW q \in Reg, q # r, NEW b \in Nat, In(b, regs2[q])
        PROVE  b < top + n /\ ~Has(l, b)
    <3>1. b < top /\ ~Has(l, b)
      BY <1>4, <1>6, <2>2
    <3>2. QED
      BY <3>1
  <2>3. QED
    BY <2>1, <2>2
<1>10. \A q, s \in Reg : \A b \in Nat :
         In(b, regs2[q]) /\ In(b, regs2[s]) => q = s
  <2>1. \A q \in Reg : \A b \in Nat : q # r /\ In(b, regs2[q]) => b < top
    BY <1>4, <1>6
  <2>2. \A b \in Nat : In(b, regs2[r]) => ~(b < top)
    BY <1>8
  <2>3. QED
    BY <1>4, <2>1, <2>2 DEF Space
<1>11. ASSUME NEW b \in Nat
       PROVE  b < top + n <=> \/ \E q \in Reg : In(b, regs2[q])
                              \/ Has(l, b)
                              \/ b \in gone2
  <2>1. b < top <=> \/ \E q \in Reg : In(b, regs[q])
                    \/ Has(l, b)
                    \/ b \in gone
    BY DEF Space
  <2>2. (\E q \in Reg : In(b, regs2[q]))
          <=> (top <= b /\ b < top + n) \/ \E q \in Reg : q # r /\ In(b, regs[q])
    BY <1>4, <1>8
  <2>3. (\E q \in Reg : In(b, regs[q]))
          <=> In(b, regs[r]) \/ \E q \in Reg : q # r /\ In(b, regs[q])
    OBVIOUS
  <2>4. b < top + n <=> b < top \/ (top <= b /\ b < top + n)
    OBVIOUS
  <2>5. QED
    BY <1>5, <2>1, <2>2, <2>3, <2>4, Zenon
<1>12. QED
  BY <1>1, <1>2, <1>4, <1>5, <1>9, <1>10, <1>11 DEF Space

(* A register gives its region back to the list.                           *)
LEMMA ToList ==
  ASSUME NEW regs, NEW l, NEW top \in Nat, NEW gone,
         Space(regs, l, top, gone),
         NEW r \in Reg, NEW l2, Takes(l, l2, regs[r])
  PROVE  Space([regs EXCEPT ![r] = None], l2, top, gone)
<1>1. PICK regs2 : regs2 = [regs EXCEPT ![r] = None]
  OBVIOUS
<1>2. regs \in [Reg -> Region] /\ gone \subseteq Nat
  BY DEF Space
<1>3. None \in Region /\ \A b \in Nat : ~In(b, None)
  BY DEF None, Region, In
<1>4. /\ regs2 \in [Reg -> Region] /\ regs2[r] = None
      /\ \A q \in Reg : q # r => regs2[q] = regs[q]
  BY <1>1, <1>2, <1>3
<1>5. \A b \in Nat : Has(l2, b) <=> Has(l, b) \/ In(b, regs[r])
  BY DEF Takes
<1>6. \A q \in Reg : \A b \in Nat : In(b, regs2[q]) => b < top /\ ~Has(l2, b)
  BY <1>3, <1>4, <1>5 DEF Space
<1>7. \A q, s \in Reg : \A b \in Nat :
        In(b, regs2[q]) /\ In(b, regs2[s]) => q = s
  BY <1>3, <1>4 DEF Space
<1>8. ASSUME NEW b \in Nat
      PROVE  b < top <=> \/ \E q \in Reg : In(b, regs2[q])
                         \/ Has(l2, b)
                         \/ b \in gone
  <2>1. b < top <=> \/ \E q \in Reg : In(b, regs[q])
                    \/ Has(l, b)
                    \/ b \in gone
    BY DEF Space
  <2>2. (\E q \in Reg : In(b, regs2[q]))
          <=> \E q \in Reg : q # r /\ In(b, regs[q])
    BY <1>3, <1>4
  <2>3. (\E q \in Reg : In(b, regs[q]))
          <=> In(b, regs[r]) \/ \E q \in Reg : q # r /\ In(b, regs[q])
    OBVIOUS
  <2>4. QED
    BY <1>5, <2>1, <2>2, <2>3
<1>9. QED
  BY <1>1, <1>2, <1>4, <1>6, <1>7, <1>8 DEF Space

-----------------------------------------------------------------------------
(* What the operations do to the list                                      *)

(* A set of numbers has its minimum.                                       *)
LEMMA MinIsThere ==
  ASSUME NEW S, S \subseteq Nat, S # {}
  PROVE  Min(S) \in S
<1>1. PICK R : R = OpToRel(<, Nat)
  BY Zenon
<1>2. \A a, b \in Nat : a < b => <<a, b>> \in R
  BY <1>1 DEF OpToRel
<1>3. IsWellFoundedOn(R, Nat)
  BY <1>1, NatLessThanWellFounded, Zenon
<1>4. PICK x \in S : \A y \in S : ~(<<y, x>> \in R)
  BY <1>3, WFMin, Zenon
<1>5. ASSUME NEW y \in S PROVE x <= y
  <2>1. x \in Nat /\ y \in Nat /\ <<y, x>> \notin R
    BY <1>4
  <2>2. ~(y < x)
    BY <1>2, <2>1, Zenon
  <2>3. QED
    BY <2>1, <2>2
<1>6. QED
  BY <1>5 DEF Min

(* get_free_vmrg_area takes its bytes from the node it has found.          *)
LEMMA CutOrDelete ==
  ASSUME NEW l, NEW top \in Nat, FreeList(l, top),
         NEW i \in DOMAIN l, NEW size \in Nat, l[i][1] + size <= l[i][2],
         NEW l2,
         l2 = IF l[i][1] + size < l[i][2]
              THEN [l EXCEPT ![i][1] = l[i][1] + size]
              ELSE DeleteNode(l, i)
  PROVE  FreeList(l2, top) /\ Gives(l, l2, <<l[i][1], l[i][1] + size>>)
<1>1. PICK s \in Nat : s = l[i][1]
  BY ListParts
<1>2. PICK e \in Nat : e = l[i][2]
  BY ListParts
<1>3. l[i] = <<s, e>> /\ s + size <= e
  <2>1. l[i] \in Region
    BY ListParts
  <2>2. QED
    BY <1>1, <1>2, <2>1 DEF Region
<1>4. \A b \in Nat : In(b, <<s, s + size>>) <=> s <= b /\ b < s + size
  BY DEF In
<1>5. <<s, s + size>> \in Region
  BY DEF Region
<1>6. \A b \in Nat : In(b, l[i]) <=> s <= b /\ b < e
  BY <1>3 DEF In
<1>7. \A b \in Nat : In(b, l[i]) => Has(l, b)
  BY DEF Has
<1>8. CASE i = Len(l)
  <2>1. s = 0 /\ e = 0 /\ size = 0
    BY <1>1, <1>2, <1>3, <1>8, ListParts DEF None
  <2>2. l2 = l
    <3>0. DeleteNode(l, i) = [l EXCEPT ![i][1] = l[i][2]]
      BY <1>8, ListParts DEF DeleteNode
    <3>1. l2 = [l EXCEPT ![i][1] = 0]
      <4>1. l[i][1] = 0 /\ l[i][2] = 0
        BY <1>1, <1>2, <2>1
      <4>2. l2 = DeleteNode(l, i)
        BY <2>1, <4>1
      <4>3. QED
        BY <3>0, <4>1, <4>2
    <3>2. [l[i] EXCEPT ![1] = 0] = l[i]
      BY <1>3, <2>1
    <3>3. l \in Seq(Region)
      BY DEF FreeList
    <3>4. QED
      BY <3>1, <3>2, <3>3
  <2>3. \A b \in Nat : ~In(b, <<s, s + size>>)
    BY <1>4, <2>1
  <2>4. QED
    BY <1>1, <1>5, <2>2, <2>3 DEF Gives
<1>9. CASE i # Len(l) /\ s + size < e
  <2>1. PICK m : m = <<s + size, e>>
    OBVIOUS
  <2>2. m \in Region /\ m[1] < m[2] /\ m[2] <= top /\ m[2] = e /\ m[1] = s + size
    BY <1>2, <1>9, <2>1, ListParts DEF Region
  <2>3. l2 = [l EXCEPT ![i] = m]
    <3>1. l2 = [l EXCEPT ![i][1] = s + size]
      BY <1>1, <1>2, <1>9
    <3>2. [l[i] EXCEPT ![1] = s + size] = m
      BY <1>3, <2>1
    <3>3. QED
      BY <3>1, <3>2
  <2>4. ASSUME NEW j \in DOMAIN l, j # i, j # Len(l)
        PROVE  Apart(m, l[j])
    <3>1. Apart(l[i], l[j]) /\ l[j][1] \in Nat /\ l[j][2] \in Nat
      BY <1>9, <2>4, ListParts DEF FreeList
    <3>2. QED
      BY <1>1, <1>2, <2>2, <3>1 DEF Apart
  <2>5. /\ FreeList(l2, top)
        /\ \A b \in Nat : Has(l2, b)
                            <=> (Has(l, b) /\ ~In(b, l[i])) \/ In(b, m)
    <3>1. /\ FreeList([l EXCEPT ![i] = m], top)
          /\ \A b \in Nat : Has([l EXCEPT ![i] = m], b)
                              <=> (Has(l, b) /\ ~In(b, l[i])) \/ In(b, m)
      <4>1. i # Len(l) /\ m \in Region /\ m[1] < m[2] /\ m[2] <= top
        BY <1>9, <2>2
      <4>2. QED
        BY <2>4, <4>1, ChangeNode
    <3>2. QED
      BY <2>3, <3>1
  <2>6. \A b \in Nat : In(b, m) <=> s + size <= b /\ b < e
    BY <2>1 DEF In
  <2>7. ASSUME NEW b \in Nat
        PROVE  /\ In(b, <<s, s + size>>) => In(b, l[i])
               /\ In(b, m) <=> In(b, l[i]) /\ ~In(b, <<s, s + size>>)
    BY <1>4, <1>6, <1>9, <2>6
  <2>8. Gives(l, l2, <<s, s + size>>)
    BY <1>5, <1>7, <2>5, <2>7 DEF Gives
  <2>9. QED
    BY <1>1, <2>5, <2>8
<1>10. CASE i # Len(l) /\ ~(s + size < e)
  <2>1. s + size = e
    BY <1>3, <1>10
  <2>2. l2 = DeleteNode(l, i)
    BY <1>1, <1>2, <1>10
  <2>3. /\ FreeList(l2, top)
        /\ \A b \in Nat : Has(l2, b) <=> Has(l, b) /\ ~In(b, l[i])
    <3>1. /\ FreeList(DeleteNode(l, i), top)
          /\ \A b \in Nat :
               Has(DeleteNode(l, i), b) <=> Has(l, b) /\ ~In(b, l[i])
      <4>1. i # Len(l)
        BY <1>10
      <4>2. QED
        BY <4>1, RemoveNode
    <3>2. QED
      BY <2>2, <3>1
  <2>4. Gives(l, l2, <<s, s + size>>)
    BY <1>4, <1>5, <1>6, <1>7, <2>1, <2>3 DEF Gives
  <2>5. QED
    BY <1>1, <2>3, <2>4
<1>11. QED
  BY <1>8, <1>9, <1>10

(* A region that is not in the list lies beside each node.                 *)
LEMMA Beside ==
  ASSUME NEW l, NEW top \in Nat, FreeList(l, top),
         NEW rg \in Region, rg[1] < rg[2],
         \A b \in Nat : In(b, rg) => ~Has(l, b),
         NEW j \in DOMAIN l, j # Len(l)
  PROVE  /\ rg[2] <= l[j][1] \/ l[j][2] <= rg[1]
         /\ rg[2] # l[j][1] /\ rg[1] # l[j][2] => Apart(rg, l[j])
<1>1. /\ l[j] \in Region /\ l[j][1] < l[j][2]
      /\ l[j][1] \in Nat /\ l[j][2] \in Nat
      /\ rg[1] \in Nat /\ rg[2] \in Nat
  BY ListParts DEF Region
<1>2. \A b \in Nat : ~(In(b, rg) /\ In(b, l[j]))
  BY DEF Has
<1>3. rg[2] <= l[j][1] \/ l[j][2] <= rg[1]
  BY <1>1, <1>2, NoCommonByte
<1>4. QED
  BY <1>1, <1>3 DEF Apart

(* enlist_vm_freerg_list, when no node touches the region.                 *)
LEMMA Enlisted ==
  ASSUME NEW l, NEW top \in Nat, FreeList(l, top),
         NEW rg \in Region, rg[1] < rg[2], rg[2] <= top,
         \A b \in Nat : In(b, rg) => ~Has(l, b),
         \A j \in DOMAIN l : j # Len(l) => rg[2] # l[j][1] /\ rg[1] # l[j][2]
  PROVE  FreeList(<<rg>> \o l, top) /\ Takes(l, <<rg>> \o l, rg)
<1>1. \A j \in DOMAIN l : j # Len(l) => Apart(rg, l[j])
  BY Beside
<1>2. QED
  BY <1>1, AddNode DEF Takes

(* The region is merged with the node above it.                            *)
LEMMA MergedUp ==
  ASSUME NEW l, NEW top \in Nat, FreeList(l, top),
         NEW rg \in Region, rg[1] < rg[2],
         \A b \in Nat : In(b, rg) => ~Has(l, b),
         NEW i \in DOMAIN l, i # Len(l), l[i][1] = rg[2],
         \A j \in DOMAIN l : j # Len(l) => rg[1] # l[j][2]
  PROVE  /\ FreeList([l EXCEPT ![i][1] = rg[1]], top)
         /\ Takes(l, [l EXCEPT ![i][1] = rg[1]], rg)
<1>1. PICK s \in Nat : s = rg[1]
  BY DEF Region
<1>2. PICK m : m = <<s, l[i][2]>>
  OBVIOUS
<1>3. /\ l[i] \in Region /\ l[i][2] \in Nat /\ l[i][2] <= top
      /\ rg[2] < l[i][2] /\ rg[2] \in Nat /\ s < rg[2]
  BY <1>1, ListParts DEF Region
<1>4. m \in Region /\ m[1] = s /\ m[2] = l[i][2] /\ m[1] < m[2]
  BY <1>2, <1>3 DEF Region
<1>5. [l EXCEPT ![i][1] = rg[1]] = [l EXCEPT ![i] = m]
  <2>1. [l[i] EXCEPT ![1] = s] = m
    BY <1>2, <1>3 DEF Region
  <2>2. QED
    BY <1>1, <2>1
<1>6. ASSUME NEW j \in DOMAIN l, j # i, j # Len(l)
      PROVE  Apart(m, l[j])
  <2>1. l[j][1] \in Nat /\ l[j][2] \in Nat /\ l[j][1] < l[j][2]
    BY <1>6, ListParts
  <2>2. l[i][2] < l[j][1] \/ l[j][2] < rg[2]
    BY <1>6 DEF FreeList, Apart
  <2>3. rg[2] <= l[j][1] \/ l[j][2] <= s
    BY <1>1, <1>6, Beside
  <2>4. l[j][2] # s
    BY <1>1, <1>6
  <2>5. l[i][2] < l[j][1] \/ l[j][2] < s
    BY <1>3, <2>1, <2>2, <2>3, <2>4
  <2>6. QED
    BY <1>4, <2>5 DEF Apart
<1>7. /\ FreeList([l EXCEPT ![i] = m], top)
      /\ \A b \in Nat : Has([l EXCEPT ![i] = m], b)
                          <=> (Has(l, b) /\ ~In(b, l[i])) \/ In(b, m)
  BY <1>3, <1>4, <1>6, ChangeNode
<1>8. \A b \in Nat : In(b, m) <=> In(b, rg) \/ In(b, l[i])
  BY <1>1, <1>3, <1>4 DEF In
<1>9. \A b \in Nat : In(b, l[i]) => Has(l, b)
  BY DEF Has
<1>10. QED
  BY <1>5, <1>7, <1>8, <1>9 DEF Takes

(* The region is merged with the node below it.                            *)
LEMMA MergedDown ==
  ASSUME NEW l, NEW top \in Nat, FreeList(l, top),
         NEW rg \in Region, rg[1] < rg[2], rg[2] <= top,
         \A b \in Nat : In(b, rg) => ~Has(l, b),
         NEW i \in DOMAIN l, i # Len(l), l[i][2] = rg[1],
         \A j \in DOMAIN l : j # Len(l) => rg[2] # l[j][1]
  PROVE  /\ FreeList([l EXCEPT ![i][2] = rg[2]], top)
         /\ Takes(l, [l EXCEPT ![i][2] = rg[2]], rg)
<1>1. PICK e \in Nat : e = rg[2]
  BY DEF Region
<1>2. PICK m : m = <<l[i][1], e>>
  OBVIOUS
<1>3. /\ l[i] \in Region /\ l[i][1] \in Nat /\ e <= top
      /\ l[i][1] < rg[1] /\ rg[1] \in Nat /\ rg[1] < e
  BY <1>1, ListParts DEF Region
<1>4. m \in Region /\ m[1] = l[i][1] /\ m[2] = e /\ m[1] < m[2]
  BY <1>2, <1>3 DEF Region
<1>5. [l EXCEPT ![i][2] = rg[2]] = [l EXCEPT ![i] = m]
  <2>1. [l[i] EXCEPT ![2] = e] = m
    BY <1>2, <1>3 DEF Region
  <2>2. QED
    BY <1>1, <2>1
<1>6. ASSUME NEW j \in DOMAIN l, j # i, j # Len(l)
      PROVE  Apart(m, l[j])
  <2>1. l[j][1] \in Nat /\ l[j][2] \in Nat /\ l[j][1] < l[j][2]
    BY <1>6, ListParts
  <2>2. rg[1] < l[j][1] \/ l[j][2] < l[i][1]
    BY <1>6 DEF FreeList, Apart
  <2>3. e <= l[j][1] \/ l[j][2] <= rg[1]
    BY <1>1, <1>6, Beside
  <2>4. l[j][1] # e
    BY <1>1, <1>6
  <2>5. e < l[j][1] \/ l[j][2] < l[i][1]
    BY <1>3, <2>1, <2>2, <2>3, <2>4
  <2>6. QED
    BY <1>4, <2>5 DEF Apart
<1>7. /\ FreeList([l EXCEPT ![i] = m], top)
      /\ \A b \in Nat : Has([l EXCEPT ![i] = m], b)
                          <=> (Has(l, b) /\ ~In(b, l[i])) \/ In(b, m)
  BY <1>3, <1>4, <1>6, ChangeNode
<1>8. \A b \in Nat : In(b, m) <=> In(b, rg) \/ In(b, l[i])
  BY <1>1, <1>3, <1>4 DEF In
<1>9. \A b \in Nat : In(b, l[i]) => Has(l, b)
  BY DEF Has
<1>10. QED
  BY <1>5, <1>7, <1>8, <1>9 DEF Takes

(* The region is merged with a node above it and one below it: both are    *)
(* deleted, and the three become a new node.                               *)
LEMMA MergedBoth ==
  ASSUME NEW l, NEW top \in Nat, FreeList(l, top),
         NEW rg \in Region, rg[1] < rg[2],
         \A b \in Nat : In(b, rg) => ~Has(l, b),
         NEW i \in DOMAIN l, i # Len(l), l[i][1] = rg[2],
         NEW k \in DOMAIN l, k # Len(l), l[k][2] = rg[1],
         NEW d, d = IF k > i THEN k - 1 ELSE k,
         NEW l2, l2 = <<<<l[k][1], l[i][2]>>>>
                        \o DeleteNode(DeleteNode(l, i), d)
  PROVE  FreeList(l2, top) /\ Takes(l, l2, rg)
<1>1. /\ l[i] \in Region /\ l[i][1] \in Nat /\ l[i][2] \in Nat
      /\ l[i][1] < l[i][2] /\ l[i][2] <= top
      /\ l[k] \in Region /\ l[k][1] \in Nat /\ l[k][2] \in Nat
      /\ l[k][1] < l[k][2]
      /\ rg[1] \in Nat /\ rg[2] \in Nat
  BY ListParts DEF Region
<1>2. PICK m : m = <<l[k][1], l[i][2]>>
  OBVIOUS
<1>3. m \in Region /\ m[1] = l[k][1] /\ m[2] = l[i][2] /\ m[1] < m[2]
  BY <1>1, <1>2 DEF Region
<1>4. i # k
  BY <1>1
<1>5. PICK first : first = DeleteNode(l, i)
  OBVIOUS
<1>6. /\ FreeList(first, top) /\ first = RemoveAt(l, i)
      /\ \A b \in Nat : Has(first, b) <=> Has(l, b) /\ ~In(b, l[i])
      /\ \A x \in DOMAIN first : x # Len(first) =>
           \E j \in DOMAIN l : j # i /\ j # Len(l) /\ first[x] = l[j]
  BY <1>5, RemoveNode
<1>7. d \in DOMAIN first /\ first[d] = l[k] /\ d # Len(first)
  <2>1. l \in Seq(Region)
    BY DEF FreeList
  <2>2. PICK n \in Nat \ {0} : n = Len(l)
    BY ListParts
  <2>3. i \in 1 .. n - 1 /\ k \in 1 .. n - 1
    BY <2>2, ListParts
  <2>4. /\ Len(first) = n - 1 /\ DOMAIN first = 1 .. n - 1
        /\ \A x \in 1 .. n - 1 : /\ x < i => first[x] = l[x]
                                 /\ ~(x < i) => first[x] = l[x + 1]
    BY <1>6, <2>1, <2>2, Removed
  <2>5. CASE k > i
    <3>1. d = k - 1 /\ d \in 1 .. n - 1 /\ ~(d < i) /\ d + 1 = k /\ d # n - 1
      BY <2>3, <2>5
    <3>2. QED
      BY <2>4, <3>1
  <2>6. CASE ~(k > i)
    <3>1. d = k /\ d \in 1 .. n - 1 /\ d < i /\ d # n - 1
      BY <1>4, <2>3, <2>6
    <3>2. QED
      BY <2>4, <3>1
  <2>7. QED
    BY <2>5, <2>6
<1>8. PICK second : second = DeleteNode(first, d)
  OBVIOUS
<1>9. /\ FreeList(second, top)
      /\ \A b \in Nat : Has(second, b) <=> Has(first, b) /\ ~In(b, first[d])
      /\ \A x \in DOMAIN second : x # Len(second) =>
           \E j \in DOMAIN first :
             j # d /\ j # Len(first) /\ second[x] = first[j]
  BY <1>6, <1>7, <1>8, RemoveNode
<1>10. ASSUME NEW x \in DOMAIN second, x # Len(second)
       PROVE  Apart(m, second[x])
  <2>1. PICK y \in DOMAIN first : y # d /\ y # Len(first) /\ second[x] = first[y]
    BY <1>9, <1>10
  <2>2. PICK j \in DOMAIN l : j # i /\ j # Len(l) /\ first[y] = l[j]
    BY <1>6, <2>1
  <2>3. Apart(l[k], l[j])
    BY <1>6, <1>7, <2>1, <2>2 DEF FreeList
  <2>4. Apart(l[i], l[j])
    BY <2>2 DEF FreeList
  <2>5. rg[2] <= l[j][1] \/ l[j][2] <= rg[1]
    BY <2>2, Beside
  <2>6. l[j][1] \in Nat /\ l[j][2] \in Nat /\ l[j][1] < l[j][2]
    BY <2>2, ListParts
  <2>7. l[k][2] < l[j][1] \/ l[j][2] < l[k][1]
    BY <2>3 DEF Apart
  <2>8. l[i][2] < l[j][1] \/ l[j][2] < l[i][1]
    BY <2>4 DEF Apart
  <2>9. l[i][2] < l[j][1] \/ l[j][2] < l[k][1]
    BY <1>1, <2>5, <2>6, <2>7, <2>8
  <2>10. QED
    BY <1>3, <2>1, <2>2, <2>9 DEF Apart
<1>11. /\ FreeList(<<m>> \o second, top)
       /\ \A b \in Nat : Has(<<m>> \o second, b) <=> Has(second, b) \/ In(b, m)
  <2>1. m[2] <= top
    BY <1>1, <1>3
  <2>2. QED
    BY <1>3, <1>9, <1>10, <2>1, AddNode
<1>12. l2 = <<m>> \o second
  BY <1>2, <1>5, <1>8
<1>13. \A b \in Nat : In(b, m) <=> In(b, rg) \/ In(b, l[i]) \/ In(b, l[k])
  BY <1>1, <1>3 DEF In
<1>14. \A b \in Nat : In(b, l[i]) \/ In(b, l[k]) => Has(l, b)
  BY DEF Has
<1>15. \A b \in Nat : Has(second, b) <=> Has(l, b) /\ ~In(b, l[i]) /\ ~In(b, l[k])
  BY <1>6, <1>7, <1>9
<1>16. QED
  BY <1>11, <1>12, <1>13, <1>14, <1>15 DEF Takes

(* The walk over the list sees all its nodes but the dummy.                *)
LEMMA WalkSeesAll ==
  ASSUME NEW top \in Nat, FreeList(vm_freerg_list, top)
  PROVE  Walk = {i \in DOMAIN vm_freerg_list : i # Len(vm_freerg_list)}
<1>1. PICK l : l = vm_freerg_list
  OBVIOUS
<1>2. PICK n \in Nat \ {0} : n = Len(l)
  BY <1>1, ListParts
<1>3. DOMAIN l = 1 .. n /\ \A i \in 1 .. n : i # n <=> l[i] # None
  BY <1>1, <1>2, ListParts
<1>4. Walk = {i \in 1 .. n : \A j \in 1 .. i : l[j] # None}
  BY <1>1, <1>3 DEF Walk
<1>5. \A i \in 1 .. n : (\A j \in 1 .. i : l[j] # None) <=> i # n
  BY <1>3
<1>6. QED
  BY <1>1, <1>2, <1>3, <1>4, <1>5

(* At most one node touches a region from above, and one from below.       *)
LEMMA OneNeighbour ==
  ASSUME NEW top \in Nat, FreeList(vm_freerg_list, top), NEW rg
  PROVE  /\ Up(rg) # {} => Max(Up(rg)) \in Up(rg)
         /\ Down(rg) # {} => Max(Down(rg)) \in Down(rg)
<1>1. \A i \in Walk : i \in Nat
  BY WalkSeesAll, ListParts
<1>2. \A i, j \in Walk :
        /\ vm_freerg_list[i][1] = vm_freerg_list[j][1] => i = j
        /\ vm_freerg_list[i][2] = vm_freerg_list[j][2] => i = j
  <2> SUFFICES ASSUME NEW i \in Walk, NEW j \in Walk, i # j
               PROVE  /\ vm_freerg_list[i][1] # vm_freerg_list[j][1]
                      /\ vm_freerg_list[i][2] # vm_freerg_list[j][2]
    OBVIOUS
  <2>1. /\ i \in DOMAIN vm_freerg_list /\ i # Len(vm_freerg_list)
        /\ j \in DOMAIN vm_freerg_list /\ j # Len(vm_freerg_list)
    BY WalkSeesAll
  <2>2. Apart(vm_freerg_list[i], vm_freerg_list[j])
    BY <2>1 DEF FreeList
  <2>3. /\ vm_freerg_list[i][1] \in Nat /\ vm_freerg_list[i][2] \in Nat
        /\ vm_freerg_list[i][1] < vm_freerg_list[i][2]
        /\ vm_freerg_list[j][1] \in Nat /\ vm_freerg_list[j][2] \in Nat
        /\ vm_freerg_list[j][1] < vm_freerg_list[j][2]
    BY <2>1, ListParts
  <2>4. QED
    BY <2>2, <2>3 DEF Apart
<1>3. \A i \in Nat : Max({i}) = i
  BY DEF Max
<1>4. ASSUME NEW i \in Up(rg) PROVE Max(Up(rg)) = i
  <2>1. Up(rg) = {i} /\ i \in Nat
    BY <1>1, <1>2, <1>4 DEF Up
  <2>2. QED
    BY <1>3, <2>1
<1>5. ASSUME NEW i \in Down(rg) PROVE Max(Down(rg)) = i
  <2>1. Down(rg) = {i} /\ i \in Nat
    BY <1>1, <1>2, <1>5 DEF Down
  <2>2. QED
    BY <1>3, <2>1
<1>6. QED
  BY <1>4, <1>5

-----------------------------------------------------------------------------
(* Pages                                                                   *)

(* Rounding up to whole pages.                                             *)
LEMMA WholePages ==
  ASSUME NEW n \in Nat
  PROVE  /\ PagesFor(n) \in Nat
         /\ n <= PAGESZ * PagesFor(n) /\ PAGESZ * PagesFor(n) < n + PAGESZ
         /\ Align(n) = PAGESZ * PagesFor(n) /\ Align(n) \in Nat
<1>1. PICK a \in Nat : a = n + PAGESZ - 1
  BY PageSzAssumption
<1>2. PICK q : q = a \div PAGESZ
  OBVIOUS
<1>3. q \in Nat /\ PAGESZ * q <= a /\ a < PAGESZ * q + PAGESZ
  BY <1>2, PageSzAssumption
<1>4. PagesFor(n) = q /\ Align(n) = q * PAGESZ
  BY <1>1, <1>2 DEF PagesFor, Align
<1>5. n <= PAGESZ * q /\ PAGESZ * q < n + PAGESZ
  BY <1>1, <1>3, PageSzAssumption
<1>6. q * PAGESZ = PAGESZ * q /\ q * PAGESZ \in Nat
  BY <1>3, PageSzAssumption
<1>7. QED
  BY <1>3, <1>4, <1>5, <1>6

(* More bytes need no fewer pages, and no more as long as they fit.        *)
LEMMA PagesGrow ==
  ASSUME NEW m \in Nat, NEW n \in Nat, m <= n
  PROVE  /\ PagesFor(m) <= PagesFor(n)
         /\ n <= Align(m) => PagesFor(n) = PagesFor(m) /\ Align(n) = Align(m)
<1>1. PICK a \in Nat : a = PagesFor(m)
  BY WholePages
<1>2. PICK c \in Nat : c = PagesFor(n)
  BY WholePages
<1>3. /\ m <= PAGESZ * a /\ PAGESZ * a < m + PAGESZ
      /\ n <= PAGESZ * c /\ PAGESZ * c < n + PAGESZ
      /\ Align(m) = PAGESZ * a /\ Align(n) = PAGESZ * c
  BY <1>1, <1>2, WholePages
<1>4. a <= c
  <2>1. SUFFICES ASSUME c + 1 <= a PROVE FALSE
    BY <1>1, <1>2
  <2>2. PAGESZ * (c + 1) <= PAGESZ * a
    BY <2>1, PageSzAssumption
  <2>3. PAGESZ * (c + 1) = PAGESZ * c + PAGESZ
    BY PageSzAssumption
  <2>4. QED
    BY <1>3, <2>2, <2>3, PageSzAssumption
<1>5. ASSUME n <= PAGESZ * a PROVE c = a
  <2>1. SUFFICES ASSUME a + 1 <= c PROVE FALSE
    BY <1>1, <1>2, <1>4
  <2>2. PAGESZ * (a + 1) <= PAGESZ * c
    BY <2>1, PageSzAssumption
  <2>3. PAGESZ * (a + 1) = PAGESZ * a + PAGESZ
    BY PageSzAssumption
  <2>4. QED
    BY <1>3, <1>5, <2>2, <2>3, PageSzAssumption
<1>6. QED
  BY <1>1, <1>2, <1>3, <1>4, <1>5

(* The pages of a region that starts and ends with a page.                 *)
LEMMA PagesBetween ==
  ASSUME NEW m \in Nat, NEW n \in Nat, m <= n
  PROVE  PagesOf(<<Align(m), Align(n)>>) = PagesFor(m) .. PagesFor(n) - 1
<1>1. PICK a \in Nat : a = PagesFor(m)
  BY WholePages
<1>2. PICK c \in Nat : c = PagesFor(n)
  BY WholePages
<1>3. PagesOf(<<Align(m), Align(n)>>)
        = {b \div PAGESZ : b \in PAGESZ * a .. PAGESZ * c - 1}
  BY <1>1, <1>2, WholePages DEF PagesOf, Bytes
<1>4. ASSUME NEW b \in PAGESZ * a .. PAGESZ * c - 1
      PROVE  b \div PAGESZ \in a .. c - 1
  <2>1. PAGESZ * a \in Nat /\ PAGESZ * c \in Nat
    BY PageSzAssumption
  <2>2. b \in Nat /\ PAGESZ * a <= b /\ b < PAGESZ * c
    BY <2>1
  <2>3. PICK q : q = b \div PAGESZ
    OBVIOUS
  <2>4. q \in Nat /\ PAGESZ * q <= b /\ b < PAGESZ * q + PAGESZ
    BY <2>2, <2>3, PageSzAssumption
  <2>5. PAGESZ * (q + 1) = PAGESZ * q + PAGESZ /\ PAGESZ * q \in Nat
    BY <2>4, PageSzAssumption
  <2>6. a <= q
    <3>1. SUFFICES ASSUME q + 1 <= a PROVE FALSE
      BY <2>4
    <3>2. PAGESZ * (q + 1) <= PAGESZ * a
      BY <2>4, <3>1, PageSzAssumption
    <3>3. QED
      BY <2>1, <2>2, <2>4, <2>5, <3>2, PageSzAssumption
  <2>7. q < c
    <3>1. SUFFICES ASSUME c <= q PROVE FALSE
      BY <2>4
    <3>2. PAGESZ * c <= PAGESZ * q
      BY <2>4, <3>1, PageSzAssumption
    <3>3. QED
      BY <2>1, <2>2, <2>4, <2>5, <3>2
  <2>8. QED
    BY <2>3, <2>4, <2>6, <2>7
<1>5. ASSUME NEW q \in a .. c - 1
      PROVE  /\ PAGESZ * q \in PAGESZ * a .. PAGESZ * c - 1
             /\ (PAGESZ * q) \div PAGESZ = q
  <2>1. q \in Nat /\ a <= q /\ q + 1 <= c
    OBVIOUS
  <2>2. PAGESZ * a <= PAGESZ * q /\ PAGESZ * (q + 1) <= PAGESZ * c
    BY <2>1, PageSzAssumption
  <2>3. /\ PAGESZ * (q + 1) = PAGESZ * q + PAGESZ
        /\ PAGESZ * q \in Nat /\ PAGESZ * a \in Nat /\ PAGESZ * c \in Nat
    BY <2>1, PageSzAssumption
  <2>4. PAGESZ * q < PAGESZ * c
    BY <2>2, <2>3, PageSzAssumption
  <2>5. (PAGESZ * q) \div PAGESZ = q
    BY <2>1, <2>3, PageSzAssumption
  <2>6. QED
    BY <2>2, <2>3, <2>4, <2>5
<1>6. QED
  BY <1>1, <1>2, <1>3, <1>4, <1>5

(* No bytes need no pages.                                                 *)
LEMMA NoPages == PagesFor(0) = 0 /\ Align(0) = 0
<1>1. PICK c \in Nat : c = PagesFor(0)
  BY WholePages
<1>2. PAGESZ * c < PAGESZ /\ Align(0) = PAGESZ * c
  BY <1>1, WholePages, PageSzAssumption
<1>3. c = 0
  <2>1. SUFFICES ASSUME 1 <= c PROVE FALSE
    OBVIOUS
  <2>2. PAGESZ * 1 <= PAGESZ * c
    BY <2>1, PageSzAssumption
  <2>3. PAGESZ * 1 = PAGESZ
    BY PageSzAssumption
  <2>4. QED
    BY <1>2, <2>2, <2>3, PageSzAssumption
<1>4. QED
  BY <1>1, <1>2, <1>3, PageSzAssumption

(* A byte below n is on one of the pages of n.                             *)
LEMMA PageOfByte ==
  ASSUME NEW n \in Nat, NEW b \in Nat, b < n
  PROVE  b \div PAGESZ \in 0 .. PagesFor(n) - 1
<1>1. PICK c \in Nat : c = PagesFor(n)
  BY WholePages
<1>2. n <= PAGESZ * c
  BY <1>1, WholePages
<1>3. PICK q : q = b \div PAGESZ
  OBVIOUS
<1>4. q \in Nat /\ PAGESZ * q <= b
  BY <1>3, PageSzAssumption
<1>5. q < c
  <2>1. SUFFICES ASSUME c <= q PROVE FALSE
    BY <1>4
  <2>2. PAGESZ * c <= PAGESZ * q
    BY <1>4, <2>1, PageSzAssumption
  <2>3. PAGESZ * c \in Nat /\ PAGESZ * q \in Nat
    BY <1>4, PageSzAssumption
  <2>4. QED
    BY <1>2, <1>4, <2>2, <2>3
<1>6. QED
  BY <1>1, <1>3, <1>4, <1>5

-----------------------------------------------------------------------------
(* The invariant holds initially and is preserved                          *)

(* init_mm and the fresh arena establish the invariant.                    *)
LEMMA InitIInv == Init => IInv
<1> SUFFICES ASSUME Init PROVE IInv
  OBVIOUS
<1>1. /\ None \in Region /\ \A b \in Nat : ~In(b, None)
  BY DEF None, Region, In
<1>2. PICK l : l = vm_freerg_list
  OBVIOUS
<1>3. l = <<None>>
  BY <1>2 DEF Init
<1>4. /\ l \in Seq(Region) /\ l # <<>> /\ Len(l) = 1 /\ DOMAIN l = {1}
      /\ l[1] = None
  BY <1>1, <1>3
<1>5. FreeList(l, 0)
  BY <1>4 DEF FreeList
<1>6. \A b \in Nat : ~Has(l, b)
  BY <1>1, <1>4 DEF Has
<1>7. Space(symrgtbl, l, 0, leaked)
  <2>1. /\ symrgtbl \in [Reg -> Region] /\ leaked = {}
        /\ \A r \in Reg : symrgtbl[r] = None
    BY <1>1 DEF Init
  <2>2. QED
    BY <1>1, <1>6, <2>1 DEF Space
<1>8. Area
  BY NoPages DEF Area, Init
<1>9. QED
  BY <1>2, <1>5, <1>7, <1>8 DEF IInv, Init

(* The area, when its pages up to a higher break are mapped or holes.      *)
LEMMA MorePages ==
  ASSUME Area, sbrk \in Nat, NEW top \in Nat, sbrk <= top, sbrk' = top,
         NEW new, new = PagesFor(sbrk) .. PagesFor(top) - 1,
         \/ pages' = pages \cup new /\ holes' = holes
         \/ holes' = holes \cup new /\ pages' = pages,
         vm_end' \in Nat, vm_end' <= MaxSz => vm_end' = Align(top)
  PROVE  Area'
<1>1. PICK a \in Nat : a = PagesFor(sbrk)
  BY WholePages
<1>2. PICK c \in Nat : c = PagesFor(top)
  BY WholePages
<1>3. a <= c
  <2>1. PagesFor(sbrk) <= PagesFor(top)
    BY PagesGrow
  <2>2. QED
    BY <1>1, <1>2, <2>1
<1>4. /\ pages \cup holes = 0 .. a - 1 /\ pages \cap holes = {}
      /\ new = a .. c - 1
  BY <1>1, <1>2 DEF Area
<1>5. (0 .. a - 1) \cup new = 0 .. c - 1 /\ (0 .. a - 1) \cap new = {}
  <2>1. /\ (0 .. a - 1) \cup (a .. c - 1) = 0 .. c - 1
        /\ (0 .. a - 1) \cap (a .. c - 1) = {}
    BY <1>3
  <2>2. QED
    BY <1>4, <2>1
<1>6. pages' \cup holes' = (pages \cup holes) \cup new
  OBVIOUS
<1>7. pages' \cup holes' = 0 .. c - 1
  BY <1>4, <1>5, <1>6
<1>8. pages' \cap holes' = {}
  BY <1>4, <1>5
<1>9. PagesFor(sbrk') = c /\ Align(sbrk)' = Align(top)
  BY <1>2 DEF Align
<1>10. QED
  BY <1>7, <1>8, <1>9 DEF Area, PagesFor

(* __alloc from the free list.                                             *)
LEMMA AllocFromFreeListIInv ==
  ASSUME IInv, ~uaf, NEW r \in Reg, NEW size \in Sizes,
         AllocFromFreeList(r, size)
  PROVE  IInv'
<1>1. /\ sbrk \in Nat /\ FreeList(vm_freerg_list, sbrk)
      /\ Space(symrgtbl, vm_freerg_list, sbrk, leaked) /\ Area
      /\ size \in Nat
  BY SizesAssumption DEF IInv
<1>2. PICK i : i = Min(Fit(size))
  OBVIOUS
<1>3. i \in DOMAIN vm_freerg_list
      /\ vm_freerg_list[i][1] + size <= vm_freerg_list[i][2]
  <2>1. Fit(size) \subseteq Nat
    BY <1>1, ListParts DEF Fit
  <2>2. Fit(size) # {}
    BY DEF AllocFromFreeList
  <2>3. i \in Fit(size)
    BY <1>2, <2>1, <2>2, MinIsThere, Zenon
  <2>4. QED
    BY <2>3 DEF Fit
<1>4. PICK rg : rg = <<vm_freerg_list[i][1], vm_freerg_list[i][1] + size>>
  OBVIOUS
<1>5. /\ vm_freerg_list' =
           IF vm_freerg_list[i][1] + size < vm_freerg_list[i][2]
           THEN [vm_freerg_list EXCEPT ![i][1] = vm_freerg_list[i][1] + size]
           ELSE DeleteNode(vm_freerg_list, i)
      /\ symrgtbl' = [symrgtbl EXCEPT ![r] = rg]
      /\ leaked' = leaked \cup Bytes(symrgtbl[r])
      /\ UNCHANGED <<sbrk, vm_end, pages, holes, uaf>>
  BY <1>2, <1>4 DEF AllocFromFreeList, Assign, areaVars
<1>6. /\ FreeList(vm_freerg_list', sbrk)
      /\ Gives(vm_freerg_list, vm_freerg_list', rg)
  BY <1>1, <1>3, <1>4, <1>5, CutOrDelete
<1>7. Space(symrgtbl', vm_freerg_list', sbrk, leaked')
  BY <1>1, <1>5, <1>6, FromList
<1>8. Area'
  BY <1>1, <1>5 DEF Area, PagesFor, Align
<1>9. QED
  BY <1>1, <1>5, <1>6, <1>7, <1>8 DEF IInv

(* A list is also one below a higher break.                                *)
LEMMA HigherBreak ==
  ASSUME NEW l, NEW top \in Nat, FreeList(l, top), NEW top2 \in Nat,
         top <= top2
  PROVE  FreeList(l, top2)
<1>1. ASSUME NEW i \in DOMAIN l, i # Len(l)
      PROVE  l[i][1] < l[i][2] /\ l[i][2] <= top2
  <2>1. l[i][2] \in Nat /\ l[i][1] < l[i][2] /\ l[i][2] <= top
    BY <1>1, ListParts
  <2>2. QED
    BY <2>1
<1>2. QED
  BY <1>1 DEF FreeList

(* __alloc at the break; what of the pages it needs is mapped, is Area.    *)
LEMMA TakeBreakIInv ==
  ASSUME IInv, ~uaf, NEW r \in Reg, NEW size \in Sizes, TakeBreak(r, size),
         Area'
  PROVE  IInv'
<1>1. /\ sbrk \in Nat /\ FreeList(vm_freerg_list, sbrk)
      /\ Space(symrgtbl, vm_freerg_list, sbrk, leaked)
      /\ size \in Nat
  BY SizesAssumption DEF IInv
<1>2. /\ symrgtbl' = [symrgtbl EXCEPT ![r] = <<sbrk, sbrk + size>>]
      /\ leaked' = leaked \cup Bytes(symrgtbl[r])
      /\ sbrk' = sbrk + size /\ vm_freerg_list' = vm_freerg_list /\ uaf' = uaf
  BY DEF TakeBreak, Assign
<1>3. FreeList(vm_freerg_list, sbrk + size)
  <2>1. sbrk + size \in Nat /\ sbrk <= sbrk + size
    BY <1>1
  <2>2. QED
    BY <1>1, <2>1, HigherBreak
<1>4. Space(symrgtbl', vm_freerg_list, sbrk + size, leaked')
  BY <1>1, <1>2, FromBreak
<1>5. QED
  BY <1>1, <1>2, <1>3, <1>4 DEF IInv

(* __alloc preserves the invariant.                                        *)
LEMMA AllocIInv ==
  ASSUME IInv, ~uaf, NEW r \in Reg, NEW size \in Sizes, Alloc(r, size)
  PROVE  IInv'
<1>1. sbrk \in Nat /\ size \in Nat /\ Area /\ vm_end \in Nat
  BY SizesAssumption DEF IInv, Area
<1>2. PICK top \in Nat : top = sbrk + size
  BY <1>1
<1>3. sbrk <= top /\ size + sbrk = top
  BY <1>1, <1>2
<1>4. CASE AllocFromFreeList(r, size)
  BY <1>4, AllocFromFreeListIInv
<1>5. CASE AllocInLastPage(r, size)
  <2>1. top <= Align(sbrk) /\ sbrk' = top /\ TakeBreak(r, size)
        /\ UNCHANGED <<vm_end, pages, holes>>
    <3>1. /\ ~MustGrow(size) /\ TakeBreak(r, size)
          /\ UNCHANGED <<vm_end, pages, holes>>
      BY <1>5 DEF AllocInLastPage
    <3>2. ~(top > Align(sbrk))
      BY <1>3, <3>1 DEF MustGrow
    <3>3. sbrk' = top
      BY <1>2, <3>1 DEF TakeBreak
    <3>4. QED
      BY <1>1, <1>2, <3>1, <3>2, <3>3, WholePages
  <2>2. PagesFor(top) = PagesFor(sbrk) /\ Align(top) = Align(sbrk)
    BY <1>1, <1>3, <2>1, PagesGrow
  <2>3. Area'
    BY <1>1, <2>1, <2>2 DEF Area, PagesFor, Align
  <2>4. QED
    BY <2>1, <2>3, TakeBreakIInv
<1>6. PICK new : new = PagesFor(sbrk) .. PagesFor(top) - 1
  OBVIOUS
<1>7. new = PagesOf(<<Align(sbrk), Align(top)>>)
  BY <1>1, <1>3, <1>6, PagesBetween
<1>8. CASE AllocRefused(r, size)
  <2>1. /\ vm_end > MaxSz /\ TakeBreak(r, size) /\ sbrk' = top
        /\ holes' = holes \cup new /\ UNCHANGED <<vm_end, pages>>
    BY <1>2, <1>7, <1>8 DEF AllocRefused, TakeBreak
  <2>2. vm_end' \in Nat /\ ~(vm_end' <= MaxSz)
    BY <1>1, <2>1, BoundAssumption
  <2>3. Area'
    BY <1>1, <1>3, <1>6, <2>1, <2>2, MorePages
  <2>4. QED
    BY <2>1, <2>3, TakeBreakIInv
<1>9. CASE AllocGrow(r, size)
  <2>1. /\ vm_end <= MaxSz /\ TakeBreak(r, size) /\ sbrk' = top
        /\ vm_end' = vm_end + IncAmount(size)
        /\ LET grown == PagesOf(<<vm_end, vm_end + IncAmount(size)>>)
           IN \/ pages' = pages \cup grown /\ holes' = holes
              \/ holes' = holes \cup grown /\ pages' = pages
    BY <1>2, <1>9 DEF AllocGrow, TakeBreak
  <2>2. vm_end = Align(sbrk)
    BY <1>1, <2>1 DEF Area
  <2>3. vm_end + IncAmount(size) = Align(top)
    <3>1. Align(sbrk) \in Nat /\ Align(top) \in Nat
      BY <1>1, WholePages
    <3>2. IncAmount(size) = Align(top) - Align(sbrk)
      BY <1>3 DEF IncAmount
    <3>3. QED
      BY <2>2, <3>1, <3>2
  <2>4. /\ vm_end' = Align(top)
        /\ \/ pages' = pages \cup new /\ holes' = holes
           \/ holes' = holes \cup new /\ pages' = pages
    BY <1>7, <2>1, <2>2, <2>3
  <2>5. vm_end' \in Nat
    BY <2>4, WholePages
  <2>6. Area'
    BY <1>1, <1>3, <1>6, <2>1, <2>4, <2>5, MorePages
  <2>7. QED
    BY <2>1, <2>6, TakeBreakIInv
<1>10. QED
  BY <1>4, <1>5, <1>8, <1>9 DEF Alloc

(* What __free does to the list.                                           *)
LEMMA FreedList ==
  ASSUME NEW top \in Nat, FreeList(vm_freerg_list, top),
         NEW rg \in Region, rg[1] < rg[2], rg[2] <= top,
         \A b \in Nat : In(b, rg) => ~Has(vm_freerg_list, b), NEW r \in Reg,
         \/ FreeAlone(r, rg) \/ FreeMergeUp(r, rg)
         \/ FreeMergeDown(r, rg) \/ FreeMergeBoth(r, rg),
         ~uaf'
  PROVE  FreeList(vm_freerg_list', top)
         /\ Takes(vm_freerg_list, vm_freerg_list', rg)
<1>1. PICK l : l = vm_freerg_list
  OBVIOUS
<1>2. FreeList(l, top) /\ \A b \in Nat : In(b, rg) => ~Has(l, b)
  BY <1>1
<1>3. \A j : j \in Walk <=> j \in DOMAIN l /\ j # Len(l)
  BY <1>1, WalkSeesAll
<1>4. Up(rg) = {} => \A j \in DOMAIN l : j # Len(l) => rg[2] # l[j][1]
  BY <1>1, <1>3 DEF Up
<1>5. Down(rg) = {} => \A j \in DOMAIN l : j # Len(l) => rg[1] # l[j][2]
  BY <1>1, <1>3 DEF Down
<1>6. PICK i : i = Max(Up(rg))
  OBVIOUS
<1>7. Up(rg) # {} => i \in DOMAIN l /\ i # Len(l) /\ l[i][1] = rg[2]
  <2>1. Up(rg) # {} => i \in Up(rg)
    BY <1>6, OneNeighbour
  <2>2. QED
    BY <1>1, <1>3, <2>1 DEF Up
<1>8. PICK k : k = Max(Down(rg))
  OBVIOUS
<1>9. Down(rg) # {} => k \in DOMAIN l /\ k # Len(l) /\ l[k][2] = rg[1]
  <2>1. Down(rg) # {} => k \in Down(rg)
    BY <1>8, OneNeighbour
  <2>2. QED
    BY <1>1, <1>3, <2>1 DEF Down
<1>10. CASE FreeAlone(r, rg)
  <2>1. Up(rg) = {} /\ Down(rg) = {} /\ vm_freerg_list' = <<rg>> \o l
    BY <1>1, <1>10 DEF FreeAlone
  <2>2. \A j \in DOMAIN l : j # Len(l) => rg[2] # l[j][1] /\ rg[1] # l[j][2]
    BY <1>4, <1>5, <2>1
  <2>3. FreeList(<<rg>> \o l, top) /\ Takes(l, <<rg>> \o l, rg)
    BY <1>2, <2>2, Enlisted
  <2>4. QED
    BY <1>1, <2>1, <2>3
<1>11. CASE FreeMergeUp(r, rg)
  <2>1. /\ Up(rg) # {} /\ Down(rg) = {}
        /\ vm_freerg_list' = [l EXCEPT ![i][1] = rg[1]]
    BY <1>1, <1>6, <1>11 DEF FreeMergeUp
  <2>2. i \in DOMAIN l /\ i # Len(l) /\ l[i][1] = rg[2]
    BY <1>7, <2>1
  <2>3. \A j \in DOMAIN l : j # Len(l) => rg[1] # l[j][2]
    BY <1>5, <2>1
  <2>4. /\ FreeList([l EXCEPT ![i][1] = rg[1]], top)
        /\ Takes(l, [l EXCEPT ![i][1] = rg[1]], rg)
    BY <1>2, <2>2, <2>3, MergedUp
  <2>5. QED
    BY <1>1, <2>1, <2>4
<1>12. CASE FreeMergeDown(r, rg)
  <2>1. /\ Up(rg) = {} /\ Down(rg) # {}
        /\ vm_freerg_list' = [l EXCEPT ![k][2] = rg[2]]
    BY <1>1, <1>8, <1>12 DEF FreeMergeDown
  <2>2. k \in DOMAIN l /\ k # Len(l) /\ l[k][2] = rg[1]
    BY <1>9, <2>1
  <2>3. \A j \in DOMAIN l : j # Len(l) => rg[2] # l[j][1]
    BY <1>4, <2>1
  <2>4. /\ FreeList([l EXCEPT ![k][2] = rg[2]], top)
        /\ Takes(l, [l EXCEPT ![k][2] = rg[2]], rg)
    BY <1>2, <2>2, <2>3, MergedDown
  <2>5. QED
    BY <1>1, <2>1, <2>4
<1>13. CASE FreeMergeBoth(r, rg)
  <2>1. PICK d : d = IF k > i THEN k - 1 ELSE k
    OBVIOUS
  <2>2. /\ Up(rg) # {} /\ Down(rg) # {}
        /\ vm_freerg_list' = <<<<l[k][1], l[i][2]>>>>
                               \o DeleteNode(DeleteNode(l, i), d)
    BY <1>1, <1>6, <1>8, <1>13, <2>1 DEF FreeMergeBoth
  <2>3. /\ i \in DOMAIN l /\ i # Len(l) /\ l[i][1] = rg[2]
        /\ k \in DOMAIN l /\ k # Len(l) /\ l[k][2] = rg[1]
    BY <1>7, <1>9, <2>2
  <2>4. FreeList(vm_freerg_list', top) /\ Takes(l, vm_freerg_list', rg)
    BY <1>2, <2>1, <2>2, <2>3, MergedBoth
  <2>5. QED
    BY <1>1, <2>4
<1>14. QED
  BY <1>10, <1>11, <1>12, <1>13

(* __free preserves the invariant, unless it uses a node it has freed.     *)
LEMMA FreeIInv ==
  ASSUME IInv, ~uaf, NEW r \in Reg, Free(r)
  PROVE  IInv'
<1>1. /\ sbrk \in Nat /\ FreeList(vm_freerg_list, sbrk)
      /\ Space(symrgtbl, vm_freerg_list, sbrk, leaked) /\ Area
  BY DEF IInv
<1>2. PICK rg : rg = symrgtbl[r]
  OBVIOUS
<1>3. /\ rg \in Region /\ rg[1] \in Nat /\ rg[2] \in Nat
      /\ \A b \in Nat : In(b, rg) => b < sbrk /\ ~Has(vm_freerg_list, b)
  BY <1>1, <1>2 DEF Space, Region
<1>4. /\ symrgtbl' = [symrgtbl EXCEPT ![r] = None]
      /\ UNCHANGED <<sbrk, vm_end, pages, holes, leaked>>
  BY DEF Free, FreeEmpty, Clear, areaVars
<1>5. Area'
  BY <1>1, <1>4 DEF Area, PagesFor, Align
<1>6. CASE uaf' = TRUE
  BY <1>6 DEF IInv
<1>7. CASE FreeEmpty(r)
  <2>1. /\ Bytes(rg) = {} /\ vm_freerg_list' = vm_freerg_list /\ uaf' = uaf
    BY <1>2, <1>7 DEF FreeEmpty
  <2>2. \A b \in Nat : ~In(b, rg)
    BY <1>3, <2>1, BytesIn
  <2>3. Takes(vm_freerg_list, vm_freerg_list, symrgtbl[r])
    BY <1>2, <2>2 DEF Takes
  <2>4. Space(symrgtbl', vm_freerg_list, sbrk, leaked)
    BY <1>1, <1>4, <2>3, ToList
  <2>5. QED
    BY <1>1, <1>4, <1>5, <2>1, <2>4 DEF IInv
<1>8. CASE ~FreeEmpty(r) /\ uaf' = FALSE
  <2>1. /\ Bytes(rg) # {}
        /\ \/ FreeAlone(r, rg) \/ FreeMergeUp(r, rg)
           \/ FreeMergeDown(r, rg) \/ FreeMergeBoth(r, rg)
    BY <1>2, <1>8 DEF Free
  <2>2. rg[1] < rg[2]
    BY <1>3, <2>1, BytesIn
  <2>3. rg[2] <= sbrk
    <3>1. rg[2] - 1 \in Nat /\ In(rg[2] - 1, rg)
      BY <1>3, <2>2 DEF In
    <3>2. rg[2] - 1 < sbrk
      BY <1>3, <3>1
    <3>3. QED
      BY <1>1, <1>3, <3>2
  <2>4. /\ FreeList(vm_freerg_list', sbrk)
        /\ Takes(vm_freerg_list, vm_freerg_list', rg)
    <3>1. ~uaf'
      BY <1>8
    <3>2. \A b \in Nat : In(b, rg) => ~Has(vm_freerg_list, b)
      BY <1>3
    <3>3. QED
      BY <1>1, <1>3, <2>1, <2>2, <2>3, <3>1, <3>2, FreedList
  <2>5. Space(symrgtbl', vm_freerg_list', sbrk, leaked)
    BY <1>1, <1>2, <1>4, <2>4, ToList
  <2>6. QED
    BY <1>1, <1>4, <1>5, <1>8, <2>4, <2>5 DEF IInv
<1>9. uaf' = TRUE \/ uaf' = FALSE
  <2>1. uaf \in BOOLEAN
    BY DEF IInv
  <2>2. uaf' = TRUE \/ uaf' = uaf
    BY DEF Free, FreeEmpty, FreeAlone, FreeMergeUp, FreeMergeDown,
           FreeMergeBoth
  <2>3. QED
    BY <2>1, <2>2
<1>10. QED
  BY <1>6, <1>7, <1>8, <1>9

(* Every instruction preserves the invariant.                              *)
LEMMA NextIInv == IInv /\ [Next]_vars => IInv'
<1> SUFFICES ASSUME IInv, [Next]_vars PROVE IInv'
  OBVIOUS
<1>1. ASSUME NEW r \in Reg, ~uaf, Free(r) PROVE IInv'
  BY <1>1, FreeIInv
<1>2. ASSUME NEW r \in Reg, NEW size \in Sizes, Alloc(r, size) PROVE IInv'
  <2>1. CASE ~uaf
    BY <1>2, <2>1, AllocIInv
  <2>2. CASE uaf
    <3>1. uaf' = uaf
      BY <1>2 DEF Alloc, AllocFromFreeList, AllocInLastPage, AllocRefused,
                  AllocGrow, TakeBreak
    <3>2. QED
      BY <2>2, <3>1 DEF IInv
  <2>3. QED
    BY <2>1, <2>2
<1>3. CASE UNCHANGED vars
  BY <1>3 DEF IInv, Area, PagesFor, Align, vars, areaVars
<1>4. QED
  BY <1>1, <1>2, <1>3 DEF Next

-----------------------------------------------------------------------------
(* Theorems                                                                *)

(* The invariant holds in every state that instructions lead to.           *)
THEOREM Invariance == Spec => []IInv
<1>1. QED
  BY InitIInv, NextIInv, PTL DEF Spec

(* What the free list and the registers own, byte by byte.                 *)
LEMMA Owned ==
  ASSUME IInv, ~uaf
  PROVE  /\ \A i \in DOMAIN vm_freerg_list : vm_freerg_list[i] \in Region
         /\ \A r \in Reg : symrgtbl[r] \in Region
         /\ FreeBytes \subseteq Nat /\ LiveBytes \subseteq Nat
         /\ \A b \in Nat :
              /\ b \in FreeBytes <=> Has(vm_freerg_list, b)
              /\ b \in LiveBytes <=> \E r \in Reg : In(b, symrgtbl[r])
<1>1. PICK l : l = vm_freerg_list
  OBVIOUS
<1>2. FreeList(l, sbrk) /\ sbrk \in Nat
  BY <1>1 DEF IInv
<1>3. \A i \in DOMAIN l : l[i] \in Region
  BY <1>2, ListParts
<1>4. \A r \in Reg : symrgtbl[r] \in Region
  BY DEF IInv, Space
<1>5. DOMAIN l = 1 .. Len(l) /\ ToSet(l) = {l[i] : i \in DOMAIN l}
  BY <1>2, ListParts DEF ToSet
<1>6. FreeBytes = UNION {Bytes(l[i]) : i \in DOMAIN l}
  BY <1>1, <1>5 DEF FreeBytes
<1>7. ASSUME NEW b
      PROVE  /\ b \in FreeBytes <=> \E i \in DOMAIN l : b \in Bytes(l[i])
             /\ b \in LiveBytes <=> \E r \in Reg : b \in Bytes(symrgtbl[r])
  BY <1>6 DEF LiveBytes
<1>8. /\ \A i \in DOMAIN l : Bytes(l[i]) \subseteq Nat
      /\ \A r \in Reg : Bytes(symrgtbl[r]) \subseteq Nat
  BY <1>3, <1>4, BytesIn
<1>9. ASSUME NEW b \in Nat
      PROVE  /\ b \in FreeBytes <=> Has(l, b)
             /\ b \in LiveBytes <=> \E r \in Reg : In(b, symrgtbl[r])
  BY <1>3, <1>4, <1>7, BytesIn DEF Has
<1>10. FreeBytes \subseteq Nat /\ LiveBytes \subseteq Nat
  BY <1>7, <1>8
<1>11. QED
  BY <1>1, <1>3, <1>4, <1>9, <1>10

(* As long as no node was used after its free, no byte belongs to two      *)
(* registers, to a register and the free list, or to two of its nodes,     *)
(* whatever a program allocates and frees (__alloc, __free).               *)
THEOREM BytesOwnedOnceCorrect == Spec => []BytesOwnedOnce
<1>1. ASSUME IInv PROVE BytesOwnedOnce
  <2>1. SUFFICES ASSUME ~uaf
                 PROVE  /\ RegionsNeverOverlap
                        /\ FreeBytes \cap LiveBytes = {}
                        /\ \A i, j \in DOMAIN vm_freerg_list :
                             i # j => Disjoint(vm_freerg_list[i],
                                               vm_freerg_list[j])
    BY DEF BytesOwnedOnce
  <2>2. Space(symrgtbl, vm_freerg_list, sbrk, leaked)
    BY <1>1, <2>1 DEF IInv
  <2>3. RegionsNeverOverlap
    <3>1. ASSUME NEW q \in Reg, NEW r \in Reg, q # r
          PROVE  Disjoint(symrgtbl[q], symrgtbl[r])
      <4>1. \A b \in Nat : ~(In(b, symrgtbl[q]) /\ In(b, symrgtbl[r]))
        BY <2>2, <3>1 DEF Space
      <4>2. symrgtbl[q] \in Region /\ symrgtbl[r] \in Region
        BY <1>1, <2>1, Owned
      <4>3. QED
        BY <4>1, <4>2, BytesIn DEF Disjoint
    <3>2. QED
      BY <3>1 DEF RegionsNeverOverlap
  <2>4. FreeBytes \cap LiveBytes = {}
    <3>1. \A b \in Nat : (\E r \in Reg : In(b, symrgtbl[r]))
                            => ~Has(vm_freerg_list, b)
      BY <2>2 DEF Space
    <3>2. QED
      BY <1>1, <2>1, <3>1, Owned
  <2>5. ASSUME NEW i \in DOMAIN vm_freerg_list,
               NEW j \in DOMAIN vm_freerg_list, i # j
        PROVE  Disjoint(vm_freerg_list[i], vm_freerg_list[j])
    <3>1. PICK l : l = vm_freerg_list
      OBVIOUS
    <3>2. FreeList(l, sbrk) /\ sbrk \in Nat
      BY <1>1, <2>1, <3>1 DEF IInv
    <3>3. i \in DOMAIN l /\ j \in DOMAIN l
      BY <3>1
    <3>4. \A b \in Nat : ~(In(b, l[i]) /\ In(b, l[j]))
      <4>1. ASSUME NEW b \in Nat, In(b, l[j]) PROVE ~In(b, l[i])
        <5>1. \E k \in DOMAIN l : k # i /\ In(b, l[k])
          BY <2>5, <3>3, <4>1
        <5>2. QED
          BY <3>2, <3>3, <5>1, OtherNodes
      <4>2. QED
        BY <4>1
    <3>5. l[i] \in Region /\ l[j] \in Region
      BY <3>2, <3>3, ListParts
    <3>6. Bytes(l[i]) \cap Bytes(l[j]) = {}
      BY <3>4, <3>5, BytesIn
    <3>7. QED
      BY <3>1, <3>6 DEF Disjoint
  <2>6. QED
    BY <2>3, <2>4, <2>5
<1>2. QED
  BY <1>1, Invariance, PTL

(* As long as no node was used after its free, a byte below the break is   *)
(* of a register or of the free list, unless a register was allocated      *)
(* again without freeing what it had.                                      *)
THEOREM NoByteLostCorrect == Spec => []NoByteLost
<1>1. ASSUME IInv PROVE NoByteLost
  <2>1. SUFFICES ASSUME ~uaf
                 PROVE  0 .. sbrk - 1 = LiveBytes \cup FreeBytes \cup leaked
    BY DEF NoByteLost
  <2>2. sbrk \in Nat /\ Space(symrgtbl, vm_freerg_list, sbrk, leaked)
    BY <1>1, <2>1 DEF IInv
  <2>3. leaked \subseteq Nat
    BY <2>2 DEF Space
  <2>4. \A b \in Nat : b < sbrk <=> \/ \E r \in Reg : In(b, symrgtbl[r])
                                    \/ Has(vm_freerg_list, b)
                                    \/ b \in leaked
    BY <2>2 DEF Space
  <2>5. \A b \in Nat : b < sbrk <=> b \in LiveBytes \cup FreeBytes \cup leaked
    BY <1>1, <2>1, <2>4, Owned
  <2>6. LiveBytes \cup FreeBytes \cup leaked \subseteq Nat
    BY <1>1, <2>1, <2>3, Owned
  <2>7. \A b : b \in 0 .. sbrk - 1 <=> b \in Nat /\ b < sbrk
    BY <2>2
  <2>8. QED
    BY <2>5, <2>6, <2>7
<1>2. QED
  BY <1>1, Invariance, PTL

(* As long as no node was used after its free, __free has merged all there *)
(* is to merge, and the dummy region is the last node and the only empty   *)
(* one.                                                                    *)
THEOREM CoalescedCorrect == Spec => []Coalesced
<1>1. ASSUME IInv PROVE Coalesced
  <2>1. SUFFICES ASSUME ~uaf
                 PROVE  /\ \A i, j \in Walk : vm_freerg_list[i][2]
                                                # vm_freerg_list[j][1]
                        /\ Walk = 1 .. Len(vm_freerg_list) - 1
                        /\ \A i \in Walk : Bytes(vm_freerg_list[i]) # {}
    BY DEF Coalesced
  <2>2. PICK l : l = vm_freerg_list
    OBVIOUS
  <2>3. FreeList(l, sbrk) /\ sbrk \in Nat
    BY <1>1, <2>1, <2>2 DEF IInv
  <2>4. Walk = {i \in DOMAIN l : i # Len(l)}
    BY <2>2, <2>3, WalkSeesAll
  <2>5. PICK n \in Nat \ {0} : n = Len(l)
    BY <2>3, ListParts
  <2>6. DOMAIN l = 1 .. n
    BY <2>3, <2>5, ListParts
  <2>7. Walk = 1 .. n - 1
    BY <2>4, <2>5, <2>6
  <2>8. \A i \in Walk : l[i] \in Region /\ l[i][1] < l[i][2]
    BY <2>3, <2>4, ListParts
  <2>9. \A i \in Walk : Bytes(l[i]) # {}
    BY <2>8, BytesIn
  <2>10. ASSUME NEW i \in Walk, NEW j \in Walk PROVE l[i][2] # l[j][1]
    <3>1. /\ l[i][1] \in Nat /\ l[i][2] \in Nat /\ l[i][1] < l[i][2]
          /\ l[j][1] \in Nat /\ l[j][2] \in Nat /\ l[j][1] < l[j][2]
      BY <2>8 DEF Region
    <3>2. CASE i = j
      BY <3>1, <3>2
    <3>3. CASE i # j
      <4>1. Apart(l[i], l[j])
        BY <2>3, <2>4, <3>3 DEF FreeList
      <4>2. QED
        BY <3>1, <4>1 DEF Apart
    <3>4. QED
      BY <3>2, <3>3
  <2>11. QED
    BY <2>2, <2>5, <2>7, <2>9, <2>10
<1>2. QED
  BY <1>1, Invariance, PTL

(* As long as no node was used after its free, each byte of a register is  *)
(* on a page that vm_map_ram mapped, or on one of a request it failed; no  *)
(* page is both; together they are the pages up to the break; and the      *)
(* limit is the end of them, unless inc_vma_limit has refused a request.   *)
THEOREM BackedCorrect == Spec => []Backed
<1>1. ASSUME IInv PROVE Backed
  <2>1. SUFFICES ASSUME ~uaf
                 PROVE  /\ \A r \in Reg : PagesOf(symrgtbl[r])
                                            \subseteq pages \cup holes
                        /\ pages \cap holes = {}
                        /\ pages \cup holes = PagesOf(<<0, Align(sbrk)>>)
                        /\ vm_end <= MaxSz => vm_end = Align(sbrk)
    BY DEF Backed
  <2>2. /\ sbrk \in Nat /\ Area
        /\ Space(symrgtbl, vm_freerg_list, sbrk, leaked)
    BY <1>1, <2>1 DEF IInv
  <2>3. /\ pages \cap holes = {}
        /\ pages \cup holes = 0 .. PagesFor(sbrk) - 1
        /\ vm_end <= MaxSz => vm_end = Align(sbrk)
    BY <2>2 DEF Area
  <2>4. PagesOf(<<0, Align(sbrk)>>) = 0 .. PagesFor(sbrk) - 1
    <3>1. /\ PagesOf(<<Align(0), Align(sbrk)>>)
               = PagesFor(0) .. PagesFor(sbrk) - 1
      BY <2>2, PagesBetween
    <3>2. QED
      BY <3>1, NoPages
  <2>5. ASSUME NEW r \in Reg, NEW p \in PagesOf(symrgtbl[r])
        PROVE  p \in pages \cup holes
    <3>1. PICK b \in Bytes(symrgtbl[r]) : p = b \div PAGESZ
      BY DEF PagesOf
    <3>2. b \in Nat /\ In(b, symrgtbl[r])
      BY <1>1, <2>1, Owned, BytesIn
    <3>3. b < sbrk
      BY <2>2, <3>2 DEF Space
    <3>4. b \div PAGESZ \in 0 .. PagesFor(sbrk) - 1
      BY <2>2, <3>2, <3>3, PageOfByte
    <3>5. QED
      BY <2>3, <3>1, <3>4
  <2>6. QED
    BY <2>3, <2>4, <2>5
<1>2. QED
  BY <1>1, Invariance, PTL
=============================================================================
