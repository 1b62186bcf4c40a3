---------------------------- MODULE PagingProofs ----------------------------
(***************************************************************************)
(* Proofs about Paging for any processes, any sizes of RAM and swap and    *)
(* any bounds.                                                             *)
(*                                                                         *)
(* RAM and swap are kept in the same way, so the argument is made once for *)
(* both: the account of a memory has the list of its free frames, the      *)
(* lists of the processes that are allocating, the frame of each page and  *)
(* the frames that are gone.  Each step of Paging is one of five           *)
(* operations on an account, or leaves it alone.                           *)
(*                                                                         *)
(* The last section is about the bits that an entry of a page table is     *)
(* made of (PageTable): they are what Paging takes them for.               *)
(***************************************************************************)
EXTENDS Paging, FiniteSetTheorems, SequenceTheorems, WellFoundedInduction,
        TLAPS

-----------------------------------------------------------------------------
(* The account of a memory                                                 *)

NoFrame == -1

Once(free, lists, pages) ==
  /\ \A j, k \in DOMAIN free : free[j] = free[k] => j = k
  /\ \A p, q \in Proc : \A j \in DOMAIN lists[p], k \in DOMAIN lists[q] :
       lists[p][j] = lists[q][k] => p = q /\ j = k
  /\ \A p, q \in Proc : \A m, n \in Pgn :
       pages[p][m] = pages[q][n] /\ pages[p][m] # NoFrame => p = q /\ m = n
  /\ \A p \in Proc : \A j \in DOMAIN lists[p], k \in DOMAIN free :
       lists[p][j] # free[k]
  /\ \A p \in Proc : \A m \in Pgn, k \in DOMAIN free : pages[p][m] # free[k]
  /\ \A p, q \in Proc : \A m \in Pgn, j \in DOMAIN lists[q] :
       pages[p][m] # lists[q][j]

Held(f, free, lists, pages) ==
  \/ \E k \in DOMAIN free : free[k] = f
  \/ \E p \in Proc : \E j \in DOMAIN lists[p] : lists[p][j] = f
  \/ \E p \in Proc : \E m \in Pgn : pages[p][m] = f

AccountType(F, free, lists, pages, gone) ==
  /\ NoFrame \notin F
  /\ free \in Seq(F)
  /\ lists \in [Proc -> Seq(F)]
  /\ pages \in [Proc -> [Pgn -> F \cup {NoFrame}]]
  /\ gone \subseteq F

Account(F, free, lists, pages, gone) ==
  /\ AccountType(F, free, lists, pages, gone)
  /\ Once(free, lists, pages)
  /\ \A f \in F : f \in gone <=> ~Held(f, free, lists, pages)

-----------------------------------------------------------------------------
(* The inductive invariant                                                 *)

Entry == {Unmapped} \cup {OnFrame(f) : f \in RamFrame}
                    \cup {OnSwap(f) : f \in SwapFrame}

(* Where a process is in alloc_pages_range, or whether it has ended.       *)
Label == {"idle", "ram", "ramused", "swap", "swapused", "ended"}

TypeOK ==
  /\ ram_free \in Seq(RamFrame) /\ swp_free \in Seq(SwapFrame)
  /\ ram_used \subseteq RamFrame
  /\ DOMAIN ram = RamFrame /\ DOMAIN swp = SwapFrame
  /\ pgd \in [Proc -> [Pgn -> Entry]]
  /\ fifo_pgn \in [Proc -> Seq(Pgn)]
  /\ limit \in [Proc -> Pgn] /\ left \in [Proc -> Nat]
  /\ apc \in [Proc -> Label]
  /\ frm_lst \in [Proc -> Seq(RamFrame)]
  /\ frm_lst_swap \in [Proc -> Seq(SwapFrame)]
  /\ mapped \in [Proc -> SUBSET Pgn]
  /\ lost \subseteq RamFrame /\ spent \subseteq SwapFrame
  /\ stray \in BOOLEAN /\ beyond \in BOOLEAN /\ wild \in BOOLEAN

(* The pages of a request: those that have a frame and those to go.        *)
PagesAsked(got, togo, pc) ==
  IF pc \in {"ramused", "swapused"} THEN got + togo - 1 ELSE got + togo
Requested(p) ==
  PagesAsked(Len(frm_lst[p]) + Len(frm_lst_swap[p]), left[p], apc[p])

RequestOK(p) ==
  /\ Requested(p) <= limit[p]
  /\ apc[p] \in {"idle", "ended"} =>
       left[p] = 0 /\ frm_lst[p] = <<>> /\ frm_lst_swap[p] = <<>>
  /\ apc[p] = "ramused" => left[p] > 0 /\ frm_lst[p] # <<>>
  /\ apc[p] = "swap" => left[p] > 0
  /\ apc[p] = "swapused" => left[p] > 0 /\ frm_lst_swap[p] # <<>>

Requests == \A p \in Proc : RequestOK(p)

RamPages ==
  [p \in Proc |-> [m \in Pgn |->
     IF pgd[p][m].present THEN pgd[p][m].n ELSE NoFrame]]
SwapPages ==
  [p \in Proc |-> [m \in Pgn |->
     IF pgd[p][m].swapped THEN pgd[p][m].n ELSE NoFrame]]

RamAccount == Account(RamFrame, ram_free, frm_lst, RamPages, lost)
SwapAccount ==
  ~wild => Account(SwapFrame, swp_free, frm_lst_swap, SwapPages, spent)

(* A page that is mapped never comes to have no entry.                     *)
MappedHaveEntries ==
  \A p \in Proc : \A pgn \in mapped[p] : pgd[p][pgn] # Unmapped

(* used_fp_list of RAM, frame by frame.                                    *)
Taken(f) ==
  /\ \A k \in DOMAIN ram_free : ram_free[k] # f
  /\ \A p \in Proc : apc[p] = "ramused" => f # Head(frm_lst[p])
Used == \A f \in RamFrame : f \in ram_used <=> Taken(f)

IInv ==
  /\ TypeOK /\ Requests /\ RamAccount /\ SwapAccount /\ Used
  /\ MappedHaveEntries /\ SwappingKeepsData

(* The entries that are in the page table of a process that has ended.     *)
Orphans ==
  orphaned = {e \in Entry \ {Unmapped} :
                \E p \in Proc : apc[p] = "ended" /\ \E pgn \in Pgn : pgd[p][pgn] = e}

-----------------------------------------------------------------------------
(* Operations on an account                                                *)

(* The first element of a sequence and the rest.                           *)
LEMMA HeadAndTail ==
  ASSUME NEW F, NEW s \in Seq(F), s # <<>>
  PROVE  /\ Tail(s) \in Seq(F) /\ Head(s) = s[1] /\ s[1] \in F
         /\ 1 \in DOMAIN s /\ DOMAIN s \subseteq Nat
         /\ DOMAIN Tail(s) \subseteq Nat
         /\ \A k \in DOMAIN Tail(s) :
              k + 1 \in DOMAIN s /\ Tail(s)[k] = s[k + 1] /\ k + 1 # 1
         /\ \A k \in DOMAIN s :
              k # 1 => k - 1 \in DOMAIN Tail(s) /\ Tail(s)[k - 1] = s[k]
<1>1. /\ Tail(s) \in Seq(F) /\ Head(s) = s[1]
      /\ Len(s) \in Nat \ {0} /\ DOMAIN s = 1 .. Len(s)
      /\ Len(Tail(s)) = Len(s) - 1 /\ DOMAIN Tail(s) = 1 .. Len(Tail(s))
      /\ \A k \in 1 .. Len(Tail(s)) : Tail(s)[k] = s[k + 1]
  OBVIOUS
<1>2. s[1] \in F
  BY <1>1
<1>3. QED
  BY <1>1, <1>2

(* A sequence with an element put before it.                               *)
LEMMA Prepended ==
  ASSUME NEW F, NEW s \in Seq(F), NEW e \in F
  PROVE  /\ <<e>> \o s \in Seq(F)
         /\ Len(<<e>> \o s) = Len(s) + 1
         /\ 1 \in DOMAIN (<<e>> \o s) /\ (<<e>> \o s)[1] = e
         /\ DOMAIN s \subseteq Nat /\ DOMAIN (<<e>> \o s) \subseteq Nat
         /\ \A k \in DOMAIN s : /\ k + 1 \in DOMAIN (<<e>> \o s)
                                /\ (<<e>> \o s)[k + 1] = s[k] /\ k + 1 # 1
         /\ \A k \in DOMAIN (<<e>> \o s) :
              k # 1 => k - 1 \in DOMAIN s /\ (<<e>> \o s)[k] = s[k - 1]
<1>1. /\ <<e>> \o s \in Seq(F)
      /\ Len(s) \in Nat /\ DOMAIN s = 1 .. Len(s)
      /\ Len(<<e>> \o s) = Len(s) + 1
      /\ DOMAIN (<<e>> \o s) = 1 .. Len(s) + 1
      /\ (<<e>> \o s)[1] = e
      /\ \A k \in 2 .. Len(s) + 1 : (<<e>> \o s)[k] = s[k - 1]
  OBVIOUS
<1>2. QED
  BY <1>1

(* The first free frame goes to the list of a process.                     *)
LEMMA TakeFrame ==
  ASSUME NEW F, NEW free, NEW lists, NEW pages, NEW gone,
         Account(F, free, lists, pages, gone),
         free # <<>>, NEW p \in Proc
  PROVE  Account(F, Tail(free), [lists EXCEPT ![p] = <<Head(free)>> \o @],
                 pages, gone)
<1> PICK free2 : free2 = Tail(free)
  OBVIOUS
<1> PICK lists2 : lists2 = [lists EXCEPT ![p] = <<Head(free)>> \o @]
  OBVIOUS
<1>1. /\ free2 \in Seq(F) /\ Head(free) = free[1] /\ free[1] \in F
      /\ 1 \in DOMAIN free
      /\ DOMAIN free \subseteq Nat /\ DOMAIN free2 \subseteq Nat
      /\ \A k \in DOMAIN free2 :
           k + 1 \in DOMAIN free /\ free2[k] = free[k + 1] /\ k + 1 # 1
      /\ \A k \in DOMAIN free :
           k # 1 => k - 1 \in DOMAIN free2 /\ free2[k - 1] = free[k]
  BY HeadAndTail DEF Account, AccountType
<1>2. \A q \in Proc : q # p => lists2[q] = lists[q]
  BY DEF Account, AccountType
<1>3. lists[p] \in Seq(F) /\ lists2[p] = <<free[1]>> \o lists[p]
  BY <1>1 DEF Account, AccountType
<1>4. /\ lists2[p] \in Seq(F)
      /\ 1 \in DOMAIN lists2[p] /\ lists2[p][1] = free[1]
      /\ DOMAIN lists[p] \subseteq Nat /\ DOMAIN lists2[p] \subseteq Nat
      /\ \A k \in DOMAIN lists[p] :
           /\ k + 1 \in DOMAIN lists2[p]
           /\ lists2[p][k + 1] = lists[p][k] /\ k + 1 # 1
      /\ \A k \in DOMAIN lists2[p] :
           k # 1 => k - 1 \in DOMAIN lists[p] /\ lists2[p][k] = lists[p][k - 1]
  BY <1>1, <1>3, Prepended
<1>5. AccountType(F, free2, lists2, pages, gone)
  BY <1>1, <1>4 DEF Account, AccountType
<1>6. Once(free2, lists2, pages)
  <2>0. \A j, k \in DOMAIN free : free[j] = free[k] => j = k
    BY DEF Account, Once
  <2>1. \A j, k \in DOMAIN free2 : free2[j] = free2[k] => j = k
    BY <1>1, <2>0
  <2>2. \A k \in DOMAIN free2 : free2[k] # free[1]
    BY <1>1, <2>0
  <2>3. \A q \in Proc : \A j \in DOMAIN lists2[q] :
          (q = p /\ j = 1) \/ \A k \in DOMAIN free : lists2[q][j] # free[k]
    BY <1>2, <1>4 DEF Account, Once
  <2>4. \A q \in Proc : \A j \in DOMAIN lists2[q], k \in DOMAIN free2 :
          lists2[q][j] # free2[k]
    BY <1>1, <1>4, <2>2, <2>3
  <2>5. \A q, r \in Proc : \A j \in DOMAIN lists2[q], k \in DOMAIN lists2[r] :
          lists2[q][j] = lists2[r][k] => q = r /\ j = k
    <3> SUFFICES ASSUME NEW q \in Proc, NEW r \in Proc,
                        NEW j \in DOMAIN lists2[q], NEW k \in DOMAIN lists2[r],
                        lists2[q][j] = lists2[r][k]
                 PROVE  q = r /\ j = k
      OBVIOUS
    <3>1. CASE (q = p /\ j = 1) \/ (r = p /\ k = 1)
      BY <3>1, <1>1, <1>4, <2>3
    <3>2. CASE q = p /\ j # 1 /\ r = p /\ k # 1
      BY <3>2, <1>4 DEF Account, Once
    <3>3. CASE q # p /\ r = p /\ k # 1
      BY <3>3, <1>2, <1>4 DEF Account, Once
    <3>4. CASE q = p /\ j # 1 /\ r # p
      BY <3>4, <1>2, <1>4 DEF Account, Once
    <3>5. CASE q # p /\ r # p
      BY <3>5, <1>2 DEF Account, Once
    <3>6. QED
      BY <3>1, <3>2, <3>3, <3>4, <3>5
  <2>6. \A q \in Proc : \A m \in Pgn, k \in DOMAIN free2 :
          pages[q][m] # free2[k]
    BY <1>1 DEF Account, Once
  <2>7. \A q, r \in Proc : \A m \in Pgn, j \in DOMAIN lists2[r] :
          pages[q][m] # lists2[r][j]
    BY <1>1, <1>2, <1>4 DEF Account, Once
  <2>8. QED
    BY <2>1, <2>4, <2>5, <2>6, <2>7 DEF Account, Once
<1>7. \A f \in F : Held(f, free, lists, pages) <=> Held(f, free2, lists2, pages)
  <2> SUFFICES ASSUME NEW f \in F
               PROVE  Held(f, free, lists, pages)
                        <=> Held(f, free2, lists2, pages)
    OBVIOUS
  <2>1. (\E k \in DOMAIN free : free[k] = f)
          <=> free[1] = f \/ \E k \in DOMAIN free2 : free2[k] = f
    <3>1. ASSUME NEW k \in DOMAIN free, free[k] = f, k # 1
          PROVE  k - 1 \in DOMAIN free2 /\ free2[k - 1] = f
      BY <1>1, <3>1
    <3>2. ASSUME NEW k \in DOMAIN free2, free2[k] = f
          PROVE  k + 1 \in DOMAIN free /\ free[k + 1] = f
      BY <1>1, <3>2
    <3>3. 1 \in DOMAIN free
      BY <1>1
    <3>4. QED
      BY <3>1, <3>2, <3>3
  <2>2. (\E q \in Proc : \E j \in DOMAIN lists2[q] : lists2[q][j] = f)
          <=> \/ free[1] = f
              \/ \E q \in Proc : \E j \in DOMAIN lists[q] : lists[q][j] = f
    <3>1. (\E j \in DOMAIN lists2[p] : lists2[p][j] = f)
            <=> free[1] = f \/ \E j \in DOMAIN lists[p] : lists[p][j] = f
      <4>1. ASSUME NEW j \in DOMAIN lists2[p], lists2[p][j] = f, j # 1
            PROVE  j - 1 \in DOMAIN lists[p] /\ lists[p][j - 1] = f
        BY <1>4, <4>1
      <4>2. ASSUME NEW j \in DOMAIN lists[p], lists[p][j] = f
            PROVE  j + 1 \in DOMAIN lists2[p] /\ lists2[p][j + 1] = f
        BY <1>4, <4>2
      <4>3. QED
        BY <1>4, <4>1, <4>2
    <3>2. \A q \in Proc : q # p =>
            ((\E j \in DOMAIN lists2[q] : lists2[q][j] = f)
               <=> \E j \in DOMAIN lists[q] : lists[q][j] = f)
      BY <1>2
    <3>3. QED
      BY <3>1, <3>2, Zenon
  <2>3. QED
    BY <2>1, <2>2 DEF Held
<1>8. QED
  BY <1>5, <1>6, <1>7 DEF Account

(* An allocation fails: the frames of its list are gone.                   *)
LEMMA DropList ==
  ASSUME NEW F, NEW free, NEW lists, NEW pages, NEW gone,
         Account(F, free, lists, pages, gone), NEW p \in Proc
  PROVE  Account(F, free, [lists EXCEPT ![p] = <<>>], pages,
                 gone \cup ToSet(lists[p]))
<1> PICK lists2 : lists2 = [lists EXCEPT ![p] = <<>>]
  OBVIOUS
<1> PICK gone2 : gone2 = gone \cup ToSet(lists[p])
  OBVIOUS
<1>1. /\ lists2 \in [Proc -> Seq(F)] /\ lists2[p] = <<>>
      /\ \A q \in Proc : q # p => lists2[q] = lists[q]
  BY DEF Account, AccountType
<1>2. \A f : f \in gone2
               <=> f \in gone \/ \E j \in DOMAIN lists[p] : lists[p][j] = f
  BY DEF ToSet
<1>3. lists[p] \in Seq(F)
  BY DEF Account, AccountType
<1>4. AccountType(F, free, lists2, pages, gone2)
  BY <1>1, <1>2, <1>3 DEF Account, AccountType
<1>5. Once(free, lists2, pages)
  BY <1>1 DEF Account, Once
<1>6. ASSUME NEW f \in F
      PROVE  f \in gone2 <=> ~Held(f, free, lists2, pages)
  <2>1. (\E q \in Proc : \E j \in DOMAIN lists[q] : lists[q][j] = f)
          <=> \/ \E q \in Proc : \E j \in DOMAIN lists2[q] : lists2[q][j] = f
              \/ \E j \in DOMAIN lists[p] : lists[p][j] = f
    BY <1>1
  <2>2. (\E j \in DOMAIN lists[p] : lists[p][j] = f)
          => /\ \A k \in DOMAIN free : free[k] # f
             /\ \A q \in Proc : \A m \in Pgn : pages[q][m] # f
             /\ \A q \in Proc : \A j \in DOMAIN lists2[q] : lists2[q][j] # f
    BY <1>1 DEF Account, Once
  <2>3. f \in gone <=> ~Held(f, free, lists, pages)
    BY DEF Account
  <2>4. QED
    BY <1>2, <2>1, <2>2, <2>3 DEF Held
<1>7. QED
  BY <1>4, <1>5, <1>6 DEF Account

(* The pages in P get the frames of p's list, each frame one page; what    *)
(* frames these pages had before are gone.                                 *)
Assigned(F, lists, pages, gone, p, P, lists2, pages2, gone2) ==
  /\ p \in Proc /\ P \subseteq Pgn
  /\ pages2 \in [Proc -> [Pgn -> F \cup {NoFrame}]]
  /\ \A q \in Proc : q # p => pages2[q] = pages[q]
  /\ \A m \in Pgn \ P : pages2[p][m] = pages[p][m]
  /\ \A m \in P : \/ pages2[p][m] = NoFrame
                 \/ \E j \in DOMAIN lists[p] : pages2[p][m] = lists[p][j]
  /\ \A m, n \in P :
       pages2[p][m] = pages2[p][n] /\ pages2[p][m] # NoFrame => m = n
  /\ \A j \in DOMAIN lists[p] : \E m \in P : pages2[p][m] = lists[p][j]
  /\ lists2 = [lists EXCEPT ![p] = <<>>]
  /\ \A f : f \in gone2 <=>
       f \in gone \/ \E m \in P : pages[p][m] # NoFrame /\ pages[p][m] = f

(* The account stays in order when a list is assigned to pages.            *)
LEMMA AssignList ==
  ASSUME NEW F, NEW free, NEW lists, NEW pages, NEW gone,
         Account(F, free, lists, pages, gone),
         NEW p, NEW P, NEW lists2, NEW pages2, NEW gone2,
         Assigned(F, lists, pages, gone, p, P, lists2, pages2, gone2)
  PROVE  Account(F, free, lists2, pages2, gone2)
<1> USE DEF Assigned
<1>1. /\ lists2 \in [Proc -> Seq(F)] /\ lists2[p] = <<>>
      /\ \A q \in Proc : q # p => lists2[q] = lists[q]
  BY DEF Account, AccountType
<1>2. \A f : f \in gone2
        <=> f \in gone \/ \E m \in P : pages[p][m] # NoFrame /\ pages[p][m] = f
  OBVIOUS
<1>3. NoFrame \notin F
  BY DEF Account, AccountType
<1>4. pages \in [Proc -> [Pgn -> F \cup {NoFrame}]] /\ gone \subseteq F
  BY DEF Account, AccountType
<1>5. AccountType(F, free, lists2, pages2, gone2)
  <2>1. gone2 \subseteq F
    BY <1>2, <1>4
  <2>2. QED
    BY <1>1, <2>1 DEF Account, AccountType
<1>6. Once(free, lists2, pages2)
  <2>1. \A q, r \in Proc : \A j \in DOMAIN lists2[q], k \in DOMAIN lists2[r] :
          lists2[q][j] = lists2[r][k] => q = r /\ j = k
    BY <1>1 DEF Account, Once
  <2>2. \A q \in Proc : \A j \in DOMAIN lists2[q], k \in DOMAIN free :
          lists2[q][j] # free[k]
    BY <1>1 DEF Account, Once
  <2>3. \A j \in DOMAIN lists[p] : /\ lists[p][j] # NoFrame
                                   /\ \A k \in DOMAIN free : lists[p][j] # free[k]
    <3>1. lists[p] \in Seq(F)
      BY DEF Account, AccountType
    <3>2. \A j \in DOMAIN lists[p] : lists[p][j] \in F
      BY <3>1
    <3>3. QED
      BY <1>3, <3>2 DEF Account, Once
  <2>4. \A k \in DOMAIN free : free[k] # NoFrame
    <3>1. free \in Seq(F)
      BY DEF Account, AccountType
    <3>2. QED
      BY <1>3, <3>1
  <2>5. \A q \in Proc : \A m \in Pgn, k \in DOMAIN free : pages2[q][m] # free[k]
    <3> SUFFICES ASSUME NEW q \in Proc, NEW m \in Pgn, NEW k \in DOMAIN free
                 PROVE  pages2[q][m] # free[k]
      OBVIOUS
    <3>1. CASE q = p /\ m \in P
      BY <3>1, <2>3, <2>4
    <3>2. CASE ~(q = p /\ m \in P)
      BY <3>2 DEF Account, Once
    <3>3. QED
      BY <3>1, <3>2
  <2>6. \A q, r \in Proc : \A m \in Pgn, j \in DOMAIN lists2[r] :
          pages2[q][m] # lists2[r][j]
    <3> SUFFICES ASSUME NEW q \in Proc, NEW r \in Proc, NEW m \in Pgn,
                        NEW j \in DOMAIN lists2[r]
                 PROVE  pages2[q][m] # lists2[r][j]
      OBVIOUS
    <3>1. r # p /\ lists2[r] = lists[r]
      BY <1>1
    <3>2. lists[r][j] # NoFrame
      <4>1. lists[r] \in Seq(F)
        BY DEF Account, AccountType
      <4>2. QED
        BY <1>3, <3>1, <4>1
    <3>3. CASE q = p /\ m \in P
      BY <3>1, <3>2, <3>3 DEF Account, Once
    <3>4. CASE ~(q = p /\ m \in P)
      BY <3>1, <3>4 DEF Account, Once
    <3>5. QED
      BY <3>3, <3>4
  <2>7. \A q, r \in Proc : \A m, n \in Pgn :
          pages2[q][m] = pages2[r][n] /\ pages2[q][m] # NoFrame
            => q = r /\ m = n
    <3> SUFFICES ASSUME NEW q \in Proc, NEW r \in Proc,
                        NEW m \in Pgn, NEW n \in Pgn,
                        pages2[q][m] = pages2[r][n], pages2[q][m] # NoFrame
                 PROVE  q = r /\ m = n
      OBVIOUS
    <3>1. CASE q = p /\ m \in P /\ r = p /\ n \in P
      BY <3>1
    <3>2. CASE q = p /\ m \in P /\ ~(r = p /\ n \in P)
      BY <3>2 DEF Account, Once
    <3>3. CASE ~(q = p /\ m \in P) /\ r = p /\ n \in P
      BY <3>3 DEF Account, Once
    <3>4. CASE ~(q = p /\ m \in P) /\ ~(r = p /\ n \in P)
      BY <3>4 DEF Account, Once
    <3>5. QED
      BY <3>1, <3>2, <3>3, <3>4
  <2>8. \A j, k \in DOMAIN free : free[j] = free[k] => j = k
    BY DEF Account, Once
  <2>9. QED
    BY <2>1, <2>2, <2>5, <2>6, <2>7, <2>8 DEF Once
<1>7. ASSUME NEW f \in F
      PROVE  f \in gone2 <=> ~Held(f, free, lists2, pages2)
  <2>0. f \in gone <=> ~Held(f, free, lists, pages)
    BY DEF Account
  <2>1. CASE \E j \in DOMAIN lists[p] : lists[p][j] = f
    <3>1. Held(f, free, lists2, pages2)
      BY <2>1 DEF Held
    <3>2. f \notin gone
      BY <2>0, <2>1 DEF Held
    <3>3. \A m \in P : pages[p][m] # f
      BY <2>1 DEF Account, Once
    <3>4. QED
      BY <1>2, <3>1, <3>2, <3>3
  <2>2. CASE \E m \in P : pages[p][m] # NoFrame /\ pages[p][m] = f
    <3>1. f \in gone2
      BY <1>2, <2>2
    <3>2. \A k \in DOMAIN free : free[k] # f
      BY <2>2 DEF Account, Once
    <3>3. \A q \in Proc : \A j \in DOMAIN lists[q] : lists[q][j] # f
      BY <2>2 DEF Account, Once
    <3>4. \A q \in Proc : \A j \in DOMAIN lists2[q] : lists2[q][j] # f
      BY <1>1, <3>3
    <3>5. \A q \in Proc : \A m \in Pgn : pages2[q][m] # f
      <4> SUFFICES ASSUME NEW q \in Proc, NEW m \in Pgn, pages2[q][m] = f
                   PROVE  FALSE
        OBVIOUS
      <4>1. CASE q = p /\ m \in P
        BY <4>1, <3>3, <1>3
      <4>2. CASE ~(q = p /\ m \in P)
        BY <4>2, <2>2 DEF Account, Once
      <4>3. QED
        BY <4>1, <4>2
    <3>6. QED
      BY <3>1, <3>2, <3>4, <3>5 DEF Held
  <2>3. CASE /\ \A j \in DOMAIN lists[p] : lists[p][j] # f
             /\ \A m \in P : pages[p][m] # f
    <3>1. f \in gone2 <=> f \in gone
      BY <1>2, <2>3
    <3>2. \A m \in P : pages2[p][m] # f
      BY <2>3, <1>3
    <3>3. (\E q \in Proc : \E j \in DOMAIN lists[q] : lists[q][j] = f)
            <=> \E q \in Proc : \E j \in DOMAIN lists2[q] : lists2[q][j] = f
      BY <1>1, <2>3
    <3>4. (\E q \in Proc : \E m \in Pgn : pages[q][m] = f)
            <=> \E q \in Proc : \E m \in Pgn : pages2[q][m] = f
      BY <2>3, <3>2
    <3>5. QED
      BY <2>0, <3>1, <3>3, <3>4 DEF Held
  <2>4. QED
    BY <1>3, <2>1, <2>2, <2>3
<1>8. QED
  BY <1>5, <1>6, <1>7 DEF Account

(* The frame of page v becomes that of page m, which had none.             *)
Moved(F, pages, p, v, m, pages2) ==
  /\ p \in Proc /\ v \in Pgn /\ m \in Pgn
  /\ pages2 \in [Proc -> [Pgn -> F \cup {NoFrame}]]
  /\ \A q \in Proc : q # p => pages2[q] = pages[q]
  /\ \A n \in Pgn : n # v /\ n # m => pages2[p][n] = pages[p][n]
  /\ pages[p][v] # NoFrame /\ pages[p][m] = NoFrame
  /\ pages2[p][v] = NoFrame /\ pages2[p][m] = pages[p][v]

(* The account stays in order when a frame moves to another page.          *)
LEMMA MoveFrame ==
  ASSUME NEW F, NEW free, NEW lists, NEW pages, NEW gone,
         Account(F, free, lists, pages, gone),
         NEW p, NEW v, NEW m, NEW pages2, Moved(F, pages, p, v, m, pages2)
  PROVE  Account(F, free, lists, pages2, gone)
<1> USE DEF Moved
<1>1. AccountType(F, free, lists, pages2, gone)
  BY DEF Account, AccountType
<1>2. NoFrame \notin F /\ free \in Seq(F) /\ lists \in [Proc -> Seq(F)]
  BY DEF Account, AccountType
<1>3. /\ \A k \in DOMAIN free : free[k] # NoFrame
      /\ \A q \in Proc : \A j \in DOMAIN lists[q] : lists[q][j] # NoFrame
  BY <1>2
<1>4. \A q \in Proc : \A n \in Pgn :
        \/ pages2[q][n] = NoFrame
        \/ q = p /\ n = m /\ pages2[q][n] = pages[p][v]
        \/ ~(q = p /\ n = v) /\ pages2[q][n] = pages[q][n]
  OBVIOUS
<1>5. Once(free, lists, pages2)
  <2>1. \A q \in Proc : \A n \in Pgn, k \in DOMAIN free : pages2[q][n] # free[k]
    BY <1>3, <1>4 DEF Account, Once
  <2>2. \A q, r \in Proc : \A n \in Pgn, j \in DOMAIN lists[r] :
          pages2[q][n] # lists[r][j]
    BY <1>3, <1>4 DEF Account, Once
  <2>3. \A q, r \in Proc : \A n, l \in Pgn :
          pages2[q][n] = pages2[r][l] /\ pages2[q][n] # NoFrame
            => q = r /\ n = l
    BY <1>4 DEF Account, Once
  <2>4. QED
    BY <2>1, <2>2, <2>3 DEF Account, Once
<1>6. ASSUME NEW f \in F
      PROVE  (\E q \in Proc : \E n \in Pgn : pages[q][n] = f)
               <=> \E q \in Proc : \E n \in Pgn : pages2[q][n] = f
  <2>1. ASSUME NEW q \in Proc, NEW n \in Pgn, pages[q][n] = f
        PROVE  \E r \in Proc : \E l \in Pgn : pages2[r][l] = f
    <3>1. CASE q = p /\ n = v
      BY <2>1, <3>1
    <3>2. CASE ~(q = p /\ n = v)
      BY <2>1, <3>2, <1>2
    <3>3. QED
      BY <3>1, <3>2
  <2>2. ASSUME NEW q \in Proc, NEW n \in Pgn, pages2[q][n] = f
        PROVE  \E r \in Proc : \E l \in Pgn : pages[r][l] = f
    BY <2>2, <1>2, <1>4
  <2>3. QED
    BY <2>1, <2>2
<1>7. QED
  BY <1>1, <1>5, <1>6 DEF Account, Held

(* Page v takes the first free frame; page m gives up its frame, if it has *)
(* one, which is gone.                                                     *)
Given(F, free, pages, gone, p, v, m, pages2, gone2) ==
  /\ p \in Proc /\ v \in Pgn /\ m \in Pgn /\ v # m /\ free # <<>>
  /\ pages2 \in [Proc -> [Pgn -> F \cup {NoFrame}]]
  /\ \A q \in Proc : q # p => pages2[q] = pages[q]
  /\ \A n \in Pgn : n # v /\ n # m => pages2[p][n] = pages[p][n]
  /\ pages[p][v] = NoFrame /\ pages2[p][v] = Head(free)
  /\ pages2[p][m] = NoFrame
  /\ \A f : f \in gone2 <=> f \in gone \/ (f = pages[p][m] /\ f # NoFrame)

(* The account stays in order when a page takes one and another gives up.  *)
LEMMA GiveFrame ==
  ASSUME NEW F, NEW free, NEW lists, NEW pages, NEW gone,
         Account(F, free, lists, pages, gone),
         NEW p, NEW v, NEW m, NEW pages2, NEW gone2,
         Given(F, free, pages, gone, p, v, m, pages2, gone2)
  PROVE  Account(F, Tail(free), lists, pages2, gone2)
<1> USE DEF Given
<1> PICK free2 : free2 = Tail(free)
  OBVIOUS
<1>1. /\ free2 \in Seq(F) /\ Head(free) = free[1] /\ free[1] \in F
      /\ 1 \in DOMAIN free
      /\ DOMAIN free \subseteq Nat /\ DOMAIN free2 \subseteq Nat
      /\ \A k \in DOMAIN free2 :
           k + 1 \in DOMAIN free /\ free2[k] = free[k + 1] /\ k + 1 # 1
      /\ \A k \in DOMAIN free :
           k # 1 => k - 1 \in DOMAIN free2 /\ free2[k - 1] = free[k]
  BY HeadAndTail DEF Account, AccountType
<1>2. /\ NoFrame \notin F /\ free \in Seq(F) /\ lists \in [Proc -> Seq(F)]
      /\ pages \in [Proc -> [Pgn -> F \cup {NoFrame}]] /\ gone \subseteq F
  BY DEF Account, AccountType
<1>3. /\ \A k \in DOMAIN free : free[k] # NoFrame
      /\ \A q \in Proc : \A j \in DOMAIN lists[q] : lists[q][j] # NoFrame
  BY <1>2
<1>4. \A f : f \in gone2 <=> f \in gone \/ (f = pages[p][m] /\ f # NoFrame)
  OBVIOUS
<1>5. AccountType(F, free2, lists, pages2, gone2)
  <2>1. gone2 \subseteq F
    BY <1>2, <1>4
  <2>2. QED
    BY <1>1, <1>2, <2>1 DEF AccountType
<1>6. \A q \in Proc : \A n \in Pgn :
        \/ pages2[q][n] = NoFrame
        \/ q = p /\ n = v /\ pages2[q][n] = free[1]
        \/ ~(q = p /\ n = m) /\ ~(q = p /\ n = v) /\ pages2[q][n] = pages[q][n]
  BY <1>1
<1>7. \A j, k \in DOMAIN free : free[j] = free[k] => j = k
  BY DEF Account, Once
<1>8. /\ \A j, k \in DOMAIN free2 : free2[j] = free2[k] => j = k
      /\ \A k \in DOMAIN free2 : free2[k] # free[1] /\ free2[k] # NoFrame
  BY <1>1, <1>3, <1>7
<1>9. \A q \in Proc : \A n \in Pgn, k \in DOMAIN free : pages[q][n] # free[k]
  BY DEF Account, Once
<1>10. Once(free2, lists, pages2)
  <2>1. \A q \in Proc : \A n \in Pgn, k \in DOMAIN free2 :
          pages2[q][n] # free2[k]
    BY <1>1, <1>6, <1>8, <1>9
  <2>2. \A q, r \in Proc : \A n \in Pgn, j \in DOMAIN lists[r] :
          pages2[q][n] # lists[r][j]
    BY <1>1, <1>3, <1>6 DEF Account, Once
  <2>3. \A q, r \in Proc : \A n, l \in Pgn :
          pages2[q][n] = pages2[r][l] /\ pages2[q][n] # NoFrame
            => q = r /\ n = l
    <3>1. \A q \in Proc : \A n \in Pgn : pages[q][n] # free[1]
      BY <1>1, <1>9
    <3>2. QED
      BY <1>6, <3>1 DEF Account, Once
  <2>4. \A q \in Proc : \A j \in DOMAIN lists[q], k \in DOMAIN free2 :
          lists[q][j] # free2[k]
    BY <1>1 DEF Account, Once
  <2>5. QED
    BY <1>8, <2>1, <2>2, <2>3, <2>4 DEF Account, Once
<1>11. ASSUME NEW f \in F
       PROVE  f \in gone2 <=> ~Held(f, free2, lists, pages2)
  <2>0. f # NoFrame /\ (f \in gone <=> ~Held(f, free, lists, pages))
    BY <1>2 DEF Account
  <2>1. CASE f = free[1]
    <3>1. Held(f, free, lists, pages) /\ f # pages[p][m]
      BY <2>1, <1>1, <1>9 DEF Held
    <3>2. Held(f, free2, lists, pages2)
      BY <2>1, <1>1 DEF Held
    <3>3. QED
      BY <3>1, <3>2, <2>0, <1>4
  <2>2. CASE f = pages[p][m]
    <3>1. f \in gone2
      BY <2>0, <2>2, <1>4
    <3>2. \A k \in DOMAIN free2 : free2[k] # f
      BY <1>1, <1>9, <2>2
    <3>3. \A q \in Proc : \A j \in DOMAIN lists[q] : lists[q][j] # f
      BY <2>2 DEF Account, Once
    <3>4. \A q \in Proc : \A n \in Pgn :
            ~(q = p /\ n = m) => pages[q][n] # f
      BY <2>0, <2>2 DEF Account, Once
    <3>5. f # free[1]
      BY <1>1, <1>9, <2>2
    <3>6. \A q \in Proc : \A n \in Pgn : pages2[q][n] # f
      BY <1>6, <2>0, <3>4, <3>5
    <3>7. QED
      BY <3>1, <3>2, <3>3, <3>6 DEF Held
  <2>3. CASE f # free[1] /\ f # pages[p][m]
    <3>1. f \in gone2 <=> f \in gone
      BY <1>4, <2>3
    <3>2. (\E k \in DOMAIN free : free[k] = f)
            <=> \E k \in DOMAIN free2 : free2[k] = f
      <4>1. ASSUME NEW k \in DOMAIN free, free[k] = f
            PROVE  k - 1 \in DOMAIN free2 /\ free2[k - 1] = f
        BY <1>1, <2>3, <4>1
      <4>2. ASSUME NEW k \in DOMAIN free2, free2[k] = f
            PROVE  k + 1 \in DOMAIN free /\ free[k + 1] = f
        BY <1>1, <4>2
      <4>3. QED
        BY <4>1, <4>2
    <3>3. (\E q \in Proc : \E n \in Pgn : pages[q][n] = f)
            <=> \E q \in Proc : \E n \in Pgn : pages2[q][n] = f
      <4>1. ASSUME NEW q \in Proc, NEW n \in Pgn, pages[q][n] = f
            PROVE  pages2[q][n] = f
        BY <2>0, <2>3, <4>1
      <4>2. ASSUME NEW q \in Proc, NEW n \in Pgn, pages2[q][n] = f
            PROVE  pages[q][n] = f
        BY <1>6, <2>0, <2>3, <4>2
      <4>3. QED
        BY <4>1, <4>2
    <3>4. QED
      BY <2>0, <3>1, <3>2, <3>3 DEF Held
  <2>4. QED
    BY <2>1, <2>2, <2>3
<1>12. QED
  BY <1>5, <1>10, <1>11 DEF Account

-----------------------------------------------------------------------------
(* Who refers to a frame, by the account                                   *)

HolderSet(f, free, lists, pages) ==
  {h \in {"free"} \X DOMAIN free : free[h[2]] = f}
    \cup {h \in {"list"} \X Proc \X (1 .. MaxPgn) :
            h[3] \in DOMAIN lists[h[2]] /\ lists[h[2]][h[3]] = f}
    \cup {h \in {"page"} \X Proc \X Pgn : pages[h[2]][h[3]] = f}

(* A set without two different elements has at most one.                   *)
LEMMA AtMostOne ==
  ASSUME NEW S, \A g, h \in S : g = h
  PROVE  Cardinality(S) <= 1
<1>1. CASE S = {}
  BY <1>1, FS_EmptySet
<1>2. CASE S # {}
  <2>1. PICK h : h \in S
    BY <1>2
  <2>2. S = {h}
    BY <2>1
  <2>3. Cardinality({h}) = 1
    BY FS_Singleton
  <2>4. QED
    BY <2>2, <2>3
<1>3. QED
  BY <1>1, <1>2

(* By an account that balances, no frame has two holders, and one that has *)
(* none is gone.                                                           *)
LEMMA HoldersOfAccount ==
  ASSUME NEW F, NEW free, NEW lists, NEW pages, NEW gone,
         Account(F, free, lists, pages, gone),
         \A p \in Proc : DOMAIN lists[p] \subseteq 1 .. MaxPgn,
         NEW f \in F
  PROVE  /\ Cardinality(HolderSet(f, free, lists, pages)) <= 1
         /\ \A g, h \in HolderSet(f, free, lists, pages) : g = h
         /\ HolderSet(f, free, lists, pages) = {} <=> f \in gone
<1> PICK H : H = HolderSet(f, free, lists, pages)
  OBVIOUS
<1> PICK InFree :
      InFree = {h \in {"free"} \X DOMAIN free : free[h[2]] = f}
  OBVIOUS
<1> PICK InList :
      InList = {h \in {"list"} \X Proc \X (1 .. MaxPgn) :
                  h[3] \in DOMAIN lists[h[2]] /\ lists[h[2]][h[3]] = f}
  OBVIOUS
<1> PICK InPage :
      InPage = {h \in {"page"} \X Proc \X Pgn : pages[h[2]][h[3]] = f}
  OBVIOUS
<1>1. H = InFree \cup InList \cup InPage
  BY DEF HolderSet
<1>2. f # NoFrame
  BY DEF Account, AccountType
<1>3. \A h \in InFree : h[2] \in DOMAIN free /\ free[h[2]] = f
                        /\ h = <<"free", h[2]>>
  OBVIOUS
<1>4. \A h \in InList : /\ h[2] \in Proc /\ h[3] \in DOMAIN lists[h[2]]
                        /\ lists[h[2]][h[3]] = f /\ h = <<"list", h[2], h[3]>>
  OBVIOUS
<1>5. \A h \in InPage : /\ h[2] \in Proc /\ h[3] \in Pgn
                        /\ pages[h[2]][h[3]] = f /\ h = <<"page", h[2], h[3]>>
  OBVIOUS
<1>6. ASSUME NEW g \in H, NEW h \in H PROVE g = h
  <2>1. CASE g \in InFree /\ h \in InFree
    BY <1>3, <2>1 DEF Account, Once
  <2>2. CASE g \in InList /\ h \in InList
    <3>1. g[2] = h[2] /\ g[3] = h[3]
      BY <1>4, <2>2 DEF Account, Once
    <3>2. QED
      BY <1>4, <2>2, <3>1
  <2>3. CASE g \in InPage /\ h \in InPage
    <3>1. g[2] = h[2] /\ g[3] = h[3]
      BY <1>2, <1>5, <2>3 DEF Account, Once
    <3>2. QED
      BY <1>5, <2>3, <3>1
  <2>4. ~(InFree # {} /\ InList # {})
    BY <1>3, <1>4 DEF Account, Once
  <2>5. ~(InFree # {} /\ InPage # {})
    BY <1>3, <1>5 DEF Account, Once
  <2>6. ~(InList # {} /\ InPage # {})
    BY <1>4, <1>5 DEF Account, Once
  <2>7. QED
    BY <1>1, <2>1, <2>2, <2>3, <2>4, <2>5, <2>6
<1>7. Cardinality(H) <= 1
  BY <1>6, AtMostOne
<1>8. H = {} <=> ~Held(f, free, lists, pages)
  <2>1. ASSUME NEW k \in DOMAIN free, free[k] = f
        PROVE  <<"free", k>> \in InFree
    BY <2>1
  <2>2. ASSUME NEW p \in Proc, NEW j \in DOMAIN lists[p], lists[p][j] = f
        PROVE  <<"list", p, j>> \in InList
    BY <2>2
  <2>3. ASSUME NEW p \in Proc, NEW m \in Pgn, pages[p][m] = f
        PROVE  <<"page", p, m>> \in InPage
    BY <2>3
  <2>4. Held(f, free, lists, pages) => H # {}
    <3>1. (\E k \in DOMAIN free : free[k] = f) => H # {}
      BY <1>1, <2>1
    <3>2. (\E p \in Proc : \E j \in DOMAIN lists[p] : lists[p][j] = f) => H # {}
      BY <1>1, <2>2
    <3>3. (\E p \in Proc : \E m \in Pgn : pages[p][m] = f) => H # {}
      BY <1>1, <2>3
    <3>4. QED
      BY <3>1, <3>2, <3>3 DEF Held
  <2>5. ASSUME NEW h \in H PROVE Held(f, free, lists, pages)
    <3>1. CASE h \in InFree
      BY <1>3, <3>1 DEF Held
    <3>2. CASE h \in InList
      BY <1>4, <3>2 DEF Held
    <3>3. CASE h \in InPage
      BY <1>5, <3>3 DEF Held
    <3>4. QED
      BY <1>1, <2>5, <3>1, <3>2, <3>3
  <2>6. QED
    BY <2>4, <2>5
<1>9. QED
  BY <1>6, <1>7, <1>8 DEF Account

(* What an entry of a page table can be.                                   *)
LEMMA Entries ==
  ASSUME NEW e \in Entry
  PROVE  /\ e.present \in BOOLEAN /\ e.swapped \in BOOLEAN
         /\ ~(e.present /\ e.swapped)
         /\ e.present => e.n \in RamFrame /\ e = OnFrame(e.n)
         /\ e.swapped => e.n \in SwapFrame /\ e = OnSwap(e.n)
         /\ e # Unmapped <=> (e.present \/ e.swapped)
         /\ \A f : e = OnFrame(f) => e.present /\ e.n = f
         /\ \A f : e = OnSwap(f) => e.swapped /\ e.n = f
<1>1. CASE e = Unmapped
  BY <1>1 DEF Unmapped, OnFrame, OnSwap
<1>2. CASE \E f \in RamFrame : e = OnFrame(f)
  <2>1. PICK f \in RamFrame : e = OnFrame(f)
    BY <1>2
  <2>2. e.present = TRUE /\ e.swapped = FALSE /\ e.n = f
    BY <2>1 DEF OnFrame
  <2>3. QED
    BY <2>1, <2>2 DEF Unmapped, OnFrame, OnSwap
<1>3. CASE \E f \in SwapFrame : e = OnSwap(f)
  <2>1. PICK f \in SwapFrame : e = OnSwap(f)
    BY <1>3
  <2>2. e.present = FALSE /\ e.swapped = TRUE /\ e.n = f
    BY <2>1 DEF OnSwap
  <2>3. QED
    BY <2>1, <2>2 DEF Unmapped, OnFrame, OnSwap
<1>4. QED
  BY <1>1, <1>2, <1>3 DEF Entry

(* The holders that Paging counts are those of the account.                *)
LEMMA HoldersAreCounted ==
  ASSUME TypeOK
  PROVE  /\ \A f \in RamFrame :
              RamHolders(f) = HolderSet(f, ram_free, frm_lst, RamPages)
         /\ \A f \in SwapFrame :
              SwapHolders(f) = HolderSet(f, swp_free, frm_lst_swap, SwapPages)
<1>1. \A p \in Proc, m \in Pgn : pgd[p][m] \in Entry
  BY DEF TypeOK
<1>2. \A f \in RamFrame : f # NoFrame
  BY DEF RamFrame, NoFrame
<1>3. \A f \in SwapFrame : f # NoFrame
  BY DEF SwapFrame, NoFrame
<1>4. \A f \in RamFrame : \A p \in Proc, m \in Pgn :
        pgd[p][m] = OnFrame(f) <=> RamPages[p][m] = f
  BY <1>1, <1>2, Entries DEF RamPages
<1>5. \A f \in SwapFrame : \A p \in Proc, m \in Pgn :
        pgd[p][m] = OnSwap(f) <=> SwapPages[p][m] = f
  BY <1>1, <1>3, Entries DEF SwapPages
<1>6. ASSUME NEW f \in RamFrame
      PROVE  RamHolders(f) = HolderSet(f, ram_free, frm_lst, RamPages)
  BY <1>4 DEF RamHolders, Holders, HolderSet
<1>7. ASSUME NEW f \in SwapFrame
      PROVE  SwapHolders(f) = HolderSet(f, swp_free, frm_lst_swap, SwapPages)
  BY <1>5 DEF SwapHolders, Holders, HolderSet
<1>8. QED
  BY <1>6, <1>7

(* Of a frame with one holder at most, nobody who can use it is left when  *)
(* it has none, or when it is of a page of a process that has ended.       *)
LEMMA AliveHolders ==
  ASSUME Orphans, NEW H, NEW e \in Entry, e # Unmapped,
         \A g, h \in H : g = h,
         \A p \in Proc, pgn \in Pgn :
           pgd[p][pgn] = e => <<"page", p, pgn>> \in H,
         \A h \in H : h[1] = "page" =>
           h[2] \in Proc /\ h[3] \in Pgn /\ pgd[h[2]][h[3]] = e
  PROVE  Alive(H) = {} <=> H = {} \/ e \in orphaned
<1>1. ASSUME NEW h \in H, h \notin Alive(H)
      PROVE  e \in orphaned
  <2>1. h[1] = "page" /\ apc[h[2]] = "ended"
    BY <1>1 DEF Alive
  <2>2. h[2] \in Proc /\ h[3] \in Pgn /\ pgd[h[2]][h[3]] = e
    BY <2>1
  <2>3. QED
    BY <2>1, <2>2 DEF Orphans
<1>2. ASSUME e \in orphaned
      PROVE  Alive(H) = {}
  <2>1. PICK p \in Proc : apc[p] = "ended" /\ \E pgn \in Pgn : pgd[p][pgn] = e
    BY <1>2 DEF Orphans
  <2>2. PICK pgn \in Pgn : pgd[p][pgn] = e
    BY <2>1
  <2>3. \A g \in H : g = <<"page", p, pgn>>
    BY <2>2
  <2>4. QED
    BY <2>1, <2>3 DEF Alive
<1>3. Alive(H) \subseteq H
  BY DEF Alive
<1>4. QED
  BY <1>1, <1>2, <1>3

(* A page that is being got counts among those to go.                      *)
LEMMA AskedAtLeast ==
  ASSUME NEW got \in Nat, NEW togo \in Nat, NEW pc,
         pc \in {"ramused", "swapused"} => togo > 0
  PROVE  PagesAsked(got, togo, pc) \in Nat /\ got <= PagesAsked(got, togo, pc)
<1>1. CASE pc \in {"ramused", "swapused"}
  <2>1. PagesAsked(got, togo, pc) = got + togo - 1
    BY <1>1 DEF PagesAsked
  <2>2. togo > 0
    BY <1>1
  <2>3. QED
    BY <2>1, <2>2
<1>2. CASE pc \notin {"ramused", "swapused"}
  BY <1>2 DEF PagesAsked
<1>3. QED
  BY <1>1, <1>2

(* A request is at least as large as the lists it has filled so far.       *)
LEMMA RequestedCounts ==
  ASSUME TypeOK, Requests, NEW p \in Proc
  PROVE  /\ Requested(p) \in Nat
         /\ Len(frm_lst[p]) + Len(frm_lst_swap[p]) <= Requested(p)
<1>1. Len(frm_lst[p]) \in Nat /\ Len(frm_lst_swap[p]) \in Nat
  BY DEF TypeOK
<1>2. Len(frm_lst[p]) + Len(frm_lst_swap[p]) \in Nat /\ left[p] \in Nat
  BY <1>1 DEF TypeOK
<1>3. apc[p] \in {"ramused", "swapused"} => left[p] > 0
  BY DEF Requests, RequestOK
<1>4. QED
  BY <1>2, <1>3, AskedAtLeast DEF Requested

(* The lists of an allocation are no longer than the area.                 *)
LEMMA ListsAreShort ==
  ASSUME TypeOK, Requests, NEW p \in Proc
  PROVE  /\ DOMAIN frm_lst[p] \subseteq 1 .. MaxPgn
         /\ DOMAIN frm_lst_swap[p] \subseteq 1 .. MaxPgn
<1>1. /\ Len(frm_lst[p]) \in Nat /\ DOMAIN frm_lst[p] = 1 .. Len(frm_lst[p])
      /\ Len(frm_lst_swap[p]) \in Nat
      /\ DOMAIN frm_lst_swap[p] = 1 .. Len(frm_lst_swap[p])
  BY DEF TypeOK
<1>2. PICK a \in Nat : a = Len(frm_lst[p])
  BY <1>1
<1>3. PICK b \in Nat : b = Len(frm_lst_swap[p])
  BY <1>1
<1>4. PICK r \in Nat : r = Requested(p)
  BY RequestedCounts
<1>5. a + b <= r /\ r <= MaxPgn
  <2>1. limit[p] \in 0 .. MaxPgn /\ r <= limit[p]
    BY <1>4 DEF TypeOK, Pgn, Requests, RequestOK
  <2>2. a + b <= r
    BY <1>2, <1>3, <1>4, RequestedCounts
  <2>3. QED
    BY <2>1, <2>2, BoundsAssumption
<1>6. a <= MaxPgn /\ b <= MaxPgn
  BY <1>5, BoundsAssumption
<1>7. QED
  BY <1>1, <1>2, <1>3, <1>6, BoundsAssumption

-----------------------------------------------------------------------------
(* The invariant holds initially                                           *)

(* MEMPHY_format and init_mm establish the invariant.                      *)
LEMMA InitIInv == Init => IInv
<1> SUFFICES ASSUME Init PROVE IInv
  OBVIOUS
<1>1. TypeOK
  <2>1. ram_free \in Seq(RamFrame) /\ swp_free \in Seq(SwapFrame)
    <3>1. \A k \in 1 .. RamFrames : k - 1 \in RamFrame
      BY FramesAssumption DEF RamFrame
    <3>2. \A k \in 1 .. SwapFrames : k - 1 \in SwapFrame
      BY FramesAssumption DEF SwapFrame
    <3>3. /\ ram_free \in [1 .. RamFrames -> RamFrame]
          /\ swp_free \in [1 .. SwapFrames -> SwapFrame]
      BY <3>1, <3>2 DEF Init
    <3>4. \A S, n : n \in Nat => [1 .. n -> S] \subseteq Seq(S)
      BY SeqDef, Zenon
    <3>5. RamFrames \in Nat /\ SwapFrames \in Nat
      BY FramesAssumption
    <3>6. [1 .. RamFrames -> RamFrame] \subseteq Seq(RamFrame)
      BY <3>4, <3>5, Zenon
    <3>7. [1 .. SwapFrames -> SwapFrame] \subseteq Seq(SwapFrame)
      BY <3>4, <3>5, Zenon
    <3>8. QED
      BY <3>3, <3>6, <3>7
  <2>2. pgd \in [Proc -> [Pgn -> Entry]]
    BY DEF Init, Entry
  <2>3. limit \in [Proc -> Pgn]
    BY BoundsAssumption DEF Init, Pgn
  <2>4. /\ fifo_pgn \in [Proc -> Seq(Pgn)] /\ mapped \in [Proc -> SUBSET Pgn]
        /\ frm_lst \in [Proc -> Seq(RamFrame)]
        /\ frm_lst_swap \in [Proc -> Seq(SwapFrame)]
    BY DEF Init
  <2>5. /\ DOMAIN ram = RamFrame /\ DOMAIN swp = SwapFrame
        /\ left \in [Proc -> Nat] /\ apc \in [Proc -> {"idle"}]
    BY DEF Init
  <2>6. QED
    BY <2>1, <2>2, <2>3, <2>4, <2>5 DEF Init, Label, TypeOK
<1>2. Requests
  <2> SUFFICES ASSUME NEW p \in Proc PROVE RequestOK(p)
    BY DEF Requests
  <2>1. /\ frm_lst[p] = <<>> /\ frm_lst_swap[p] = <<>> /\ left[p] = 0
        /\ apc[p] = "idle" /\ limit[p] = 0
    BY DEF Init
  <2>2. Requested(p) = 0
    BY <2>1 DEF Requested, PagesAsked
  <2>3. QED
    BY <2>1, <2>2, BoundsAssumption DEF RequestOK
<1>3. \A p \in Proc, m \in Pgn :
        ~pgd[p][m].present /\ ~pgd[p][m].swapped
  BY DEF Init, Unmapped
<1>4. RamAccount
  <2>1. RamPages = [p \in Proc |-> [m \in Pgn |-> NoFrame]]
    BY <1>3 DEF RamPages
  <2>2. AccountType(RamFrame, ram_free, frm_lst, RamPages, lost)
    BY <1>1, <2>1 DEF AccountType, TypeOK, NoFrame, RamFrame
  <2>3. /\ DOMAIN ram_free = 1 .. RamFrames
        /\ \A k \in 1 .. RamFrames : ram_free[k] = k - 1
    BY FramesAssumption DEF Init
  <2>4. Once(ram_free, frm_lst, RamPages)
    BY <2>1, <2>3, FramesAssumption DEF Once, Init, NoFrame
  <2>5. ASSUME NEW f \in RamFrame
        PROVE  f + 1 \in DOMAIN ram_free /\ ram_free[f + 1] = f
    BY <2>3, FramesAssumption DEF RamFrame
  <2>6. QED
    BY <2>2, <2>4, <2>5 DEF RamAccount, Account, Held, Init
<1>5. SwapAccount
  <2>1. SwapPages = [p \in Proc |-> [m \in Pgn |-> NoFrame]]
    BY <1>3 DEF SwapPages
  <2>2. AccountType(SwapFrame, swp_free, frm_lst_swap, SwapPages, spent)
    BY <1>1, <2>1 DEF AccountType, TypeOK, NoFrame, SwapFrame
  <2>3. /\ DOMAIN swp_free = 1 .. SwapFrames
        /\ \A k \in 1 .. SwapFrames : swp_free[k] = k - 1
    BY FramesAssumption DEF Init
  <2>4. Once(swp_free, frm_lst_swap, SwapPages)
    BY <2>1, <2>3, FramesAssumption DEF Once, Init, NoFrame
  <2>5. ASSUME NEW f \in SwapFrame
        PROVE  f + 1 \in DOMAIN swp_free /\ swp_free[f + 1] = f
    BY <2>3, FramesAssumption DEF SwapFrame
  <2>6. QED
    BY <2>2, <2>4, <2>5 DEF SwapAccount, Account, Held, Init
<1>6. Used
  <2>1. ASSUME NEW f \in RamFrame
        PROVE  f + 1 \in DOMAIN ram_free /\ ram_free[f + 1] = f
    BY FramesAssumption DEF RamFrame, Init
  <2>2. QED
    BY <2>1 DEF Used, Taken, Init
<1>7. MappedHaveEntries /\ SwappingKeepsData
  BY DEF MappedHaveEntries, SwappingKeepsData, PagesHaveTheirData, Init
<1>8. QED
  BY <1>1, <1>2, <1>4, <1>5, <1>6, <1>7 DEF IInv

-----------------------------------------------------------------------------
(* What steps have in common                                               *)

(* A step of one process leaves the requests of the others alone.          *)
LEMMA OtherRequests ==
  ASSUME Requests, NEW p \in Proc, RequestOK(p)',
         \A q \in Proc : q # p =>
           /\ limit'[q] = limit[q] /\ left'[q] = left[q] /\ apc'[q] = apc[q]
           /\ frm_lst'[q] = frm_lst[q] /\ frm_lst_swap'[q] = frm_lst_swap[q]
  PROVE  Requests'
<1> SUFFICES ASSUME NEW q \in Proc, q # p PROVE RequestOK(q)'
  BY DEF Requests
<1>1. RequestOK(q)
  BY DEF Requests
<1>2. QED
  BY <1>1 DEF RequestOK, Requested

(* A step that touches neither tables nor contents keeps what is said of   *)
(* them.                                                                   *)
LEMMA TablesAlone ==
  ASSUME MappedHaveEntries, SwappingKeepsData,
         UNCHANGED <<dataVars, tableVars, stray, wild>>
  PROVE  MappedHaveEntries' /\ SwappingKeepsData'
BY DEF MappedHaveEntries, SwappingKeepsData, PagesHaveTheirData, DataOf,
       dataVars, tableVars

(* The frames of the pages are in the page tables.                         *)
LEMMA PagesAlone ==
  ASSUME UNCHANGED pgd
  PROVE  RamPages' = RamPages /\ SwapPages' = SwapPages
BY DEF RamPages, SwapPages

-----------------------------------------------------------------------------
(* The steps of an allocation                                              *)

(* inc_vma_limit asks for pages.                                           *)
LEMMA RequestIInv ==
  ASSUME IInv, NEW p \in Proc, NEW n \in Nat, Request(p, n)
  PROVE  IInv'
<1> USE DEF IInv
<1>0. /\ UNCHANGED <<ram_free, swp_free, ram_used, swp_used, ram, swp, pgd,
                     fifo_pgn, mapped, frm_lst, frm_lst_swap, lost, spent,
                     stray, beyond, wild>>
      /\ limit' = [limit EXCEPT ![p] = @ + n]
      /\ left' = [left EXCEPT ![p] = n]
      /\ apc' = [apc EXCEPT ![p] = "ram"]
      /\ apc[p] = "idle" /\ limit[p] + n <= MaxPgn
  BY DEF Request, Goto, frameVars, dataVars, tableVars, historyVars
<1>1. limit[p] \in Nat /\ n \in Nat
  BY BoundsAssumption DEF TypeOK, Pgn
<1>2. TypeOK'
  <2>1. limit[p] + n \in Pgn
    BY <1>0, <1>1, BoundsAssumption DEF Pgn
  <2>2. limit' \in [Proc -> Pgn] /\ left' \in [Proc -> Nat]
    BY <1>0, <1>1, <2>1 DEF TypeOK
  <2>3. QED
    BY <1>0, <2>2 DEF Label, TypeOK
<1>3. Requests'
  <2>1. frm_lst'[p] = <<>> /\ frm_lst_swap'[p] = <<>>
    BY <1>0 DEF Requests, RequestOK
  <2>2. left'[p] = n /\ apc'[p] = "ram" /\ limit'[p] = limit[p] + n
    BY <1>0 DEF TypeOK
  <2>3. Requested(p)' = n
    BY <1>1, <2>1, <2>2 DEF Requested, PagesAsked
  <2>4. RequestOK(p)'
    BY <1>1, <2>1, <2>2, <2>3 DEF RequestOK
  <2>5. QED
    BY <1>0, <2>4, OtherRequests DEF TypeOK
<1>4. RamAccount' /\ SwapAccount'
  BY <1>0, PagesAlone DEF RamAccount, SwapAccount
<1>5. Used'
  BY <1>0 DEF Used, Taken, TypeOK
<1>6. MappedHaveEntries' /\ SwappingKeepsData'
  BY <1>0, TablesAlone DEF dataVars, tableVars
<1>7. QED
  BY <1>2, <1>3, <1>4, <1>5, <1>6

(* A page that gets its frame, and then is counted, does not change what   *)
(* was asked for.                                                          *)
LEMMA AskedKept ==
  ASSUME NEW got \in Nat, NEW togo \in Nat
  PROVE  /\ PagesAsked(got + 1, togo, "ramused") = PagesAsked(got, togo, "ram")
         /\ PagesAsked(got, togo, "swap") = PagesAsked(got, togo, "ram")
         /\ PagesAsked(got + 1, togo, "swapused") = PagesAsked(got, togo, "swap")
         /\ PagesAsked(got, togo - 1, "ram") = PagesAsked(got, togo, "ramused")
         /\ PagesAsked(got, togo - 1, "ram") = PagesAsked(got, togo, "swapused")
BY DEF PagesAsked

(* The steps that get frames.                                              *)
GetStep(p) == GetRam(p) \/ PutRamUsed(p) \/ GetSwap(p) \/ PutSwapUsed(p)
LEMMA RequestedKept ==
  ASSUME TypeOK, NEW p \in Proc, GetStep(p)
  PROVE  Requested(p)' = Requested(p)
<1>1. PICK a \in Nat : a = Len(frm_lst[p])
  BY DEF TypeOK
<1>2. PICK b \in Nat : b = Len(frm_lst_swap[p])
  BY DEF TypeOK
<1>3. PICK c \in Nat : c = left[p]
  BY DEF TypeOK
<1>4. a + b \in Nat /\ (a + 1) + b = (a + b) + 1 /\ a + (b + 1) = (a + b) + 1
  OBVIOUS
<1>5. Requested(p) = PagesAsked(a + b, c, apc[p])
  BY <1>1, <1>2, <1>3 DEF Requested
<1>6. CASE GetRam(p) /\ ram_free # <<>>
  <2>1. /\ frm_lst' = [frm_lst EXCEPT ![p] = <<Head(ram_free)>> \o @]
        /\ apc' = [apc EXCEPT ![p] = "ramused"] /\ apc[p] = "ram"
        /\ UNCHANGED <<left, frm_lst_swap>>
    BY <1>6 DEF GetRam, Goto
  <2>2. /\ frm_lst[p] \in Seq(RamFrame) /\ Head(ram_free) \in RamFrame
        /\ frm_lst'[p] = <<Head(ram_free)>> \o frm_lst[p]
        /\ apc'[p] = "ramused"
    BY <1>6, <2>1, HeadAndTail DEF TypeOK
  <2>3. Len(frm_lst'[p]) = a + 1
    BY <1>1, <2>2, Prepended
  <2>4. Requested(p)' = PagesAsked((a + 1) + b, c, "ramused")
    BY <1>2, <1>3, <2>1, <2>2, <2>3 DEF Requested
  <2>5. QED
    BY <1>4, <1>5, <2>1, <2>4, AskedKept
<1>7. CASE GetRam(p) /\ ram_free = <<>>
  <2>1. /\ apc' = [apc EXCEPT ![p] = "swap"] /\ apc[p] = "ram"
        /\ UNCHANGED <<left, frm_lst, frm_lst_swap>>
    BY <1>7 DEF GetRam, Goto
  <2>2. Requested(p)' = PagesAsked(a + b, c, "swap")
    BY <1>1, <1>2, <1>3, <2>1 DEF Requested, TypeOK
  <2>3. QED
    BY <1>4, <1>5, <2>1, <2>2, AskedKept
<1>8. CASE PutRamUsed(p) \/ PutSwapUsed(p)
  <2>1. /\ left' = [left EXCEPT ![p] = @ - 1]
        /\ apc' = [apc EXCEPT ![p] = "ram"] /\ apc[p] \in {"ramused", "swapused"}
        /\ UNCHANGED <<frm_lst, frm_lst_swap>>
    BY <1>8 DEF PutRamUsed, PutSwapUsed, Goto
  <2>2. Requested(p)' = PagesAsked(a + b, c - 1, "ram")
    BY <1>1, <1>2, <1>3, <2>1 DEF Requested, TypeOK
  <2>3. QED
    BY <1>4, <1>5, <2>1, <2>2, AskedKept
<1>9. CASE GetSwap(p)
  <2>1. /\ frm_lst_swap' = [frm_lst_swap EXCEPT ![p] = <<Head(swp_free)>> \o @]
        /\ apc' = [apc EXCEPT ![p] = "swapused"] /\ apc[p] = "swap"
        /\ swp_free # <<>> /\ UNCHANGED <<left, frm_lst>>
    BY <1>9 DEF GetSwap, Goto
  <2>2. /\ frm_lst_swap[p] \in Seq(SwapFrame) /\ Head(swp_free) \in SwapFrame
        /\ frm_lst_swap'[p] = <<Head(swp_free)>> \o frm_lst_swap[p]
        /\ apc'[p] = "swapused"
    BY <2>1, HeadAndTail DEF TypeOK
  <2>3. Len(frm_lst_swap'[p]) = b + 1
    BY <1>2, <2>2, Prepended
  <2>4. Requested(p)' = PagesAsked(a + (b + 1), c, "swapused")
    BY <1>1, <1>3, <2>1, <2>2, <2>3 DEF Requested
  <2>5. QED
    BY <1>4, <1>5, <2>1, <2>4, AskedKept
<1>10. QED
  BY <1>6, <1>7, <1>8, <1>9 DEF GetStep

(* MEMPHY_get_freefp on mram with a free frame.                            *)
LEMMA TakeRamIInv ==
  ASSUME IInv, NEW p \in Proc, GetRam(p), ram_free # <<>>
  PROVE  IInv'
<1> USE DEF IInv
<1>0. /\ UNCHANGED <<swp_free, ram_used, swp_used, ram, swp, pgd, fifo_pgn,
                     mapped, limit, left, frm_lst_swap, lost, spent, stray,
                     beyond, wild>>
      /\ frm_lst' = [frm_lst EXCEPT ![p] = <<Head(ram_free)>> \o @]
      /\ ram_free' = Tail(ram_free)
      /\ apc' = [apc EXCEPT ![p] = "ramused"]
      /\ apc[p] = "ram" /\ left[p] > 0
  BY DEF GetRam, Goto, dataVars, tableVars, historyVars
<1>1. RamAccount'
  BY <1>0, TakeFrame, PagesAlone DEF RamAccount
<1>2. /\ frm_lst[p] \in Seq(RamFrame) /\ ram_free \in Seq(RamFrame)
      /\ frm_lst'[p] = <<Head(ram_free)>> \o frm_lst[p]
      /\ apc'[p] = "ramused"
      /\ \A q \in Proc : q # p => frm_lst'[q] = frm_lst[q] /\ apc'[q] = apc[q]
  BY <1>0 DEF TypeOK
<1>3. /\ Head(ram_free) \in RamFrame /\ Head(ram_free) = ram_free[1]
      /\ 1 \in DOMAIN ram_free
      /\ \A k \in DOMAIN Tail(ram_free) :
           k + 1 \in DOMAIN ram_free /\ Tail(ram_free)[k] = ram_free[k + 1]
      /\ \A k \in DOMAIN ram_free :
           k # 1 => k - 1 \in DOMAIN Tail(ram_free)
                    /\ Tail(ram_free)[k - 1] = ram_free[k]
  BY <1>2, HeadAndTail
<1>4. /\ frm_lst'[p] \in Seq(RamFrame) /\ frm_lst'[p] # <<>>
      /\ Len(frm_lst'[p]) = Len(frm_lst[p]) + 1
      /\ Head(frm_lst'[p]) = ram_free[1]
  BY <1>2, <1>3, Prepended
<1>5. TypeOK'
  <2>1. ram_free' \in Seq(RamFrame)
    BY <1>0, <1>2, HeadAndTail
  <2>2. frm_lst' \in [Proc -> Seq(RamFrame)]
    BY <1>0, <1>2, <1>4 DEF TypeOK
  <2>3. apc' \in [Proc -> Label]
    BY <1>0 DEF Label, TypeOK
  <2>4. QED
    BY <1>0, <2>1, <2>2, <2>3 DEF TypeOK
<1>6. Requests'
  <2>1. Requested(p)' = Requested(p)
    BY RequestedKept DEF GetStep
  <2>2. RequestOK(p)'
    BY <1>0, <1>2, <1>4, <2>1 DEF Requests, RequestOK
  <2>3. QED
    BY <1>0, <1>2, <2>2, OtherRequests
<1>7. SwapAccount'
  BY <1>0, PagesAlone DEF SwapAccount
<1>8. Used'
  <2>1. ASSUME NEW f \in RamFrame
        PROVE  f \in ram_used' <=> Taken(f)'
    <3>1. f \in ram_used' <=> Taken(f)
      BY <1>0 DEF Used
    <3>2. CASE f = ram_free[1]
      <4>1. ~Taken(f) /\ ~Taken(f)'
        BY <1>2, <1>3, <1>4, <3>2 DEF Taken
      <4>2. QED
        BY <3>1, <4>1
    <3>3. CASE f # ram_free[1]
      <4>1. (\A k \in DOMAIN ram_free : ram_free[k] # f)
              <=> \A k \in DOMAIN ram_free' : ram_free'[k] # f
        <5>1. ASSUME NEW k \in DOMAIN ram_free, ram_free[k] = f
              PROVE  k - 1 \in DOMAIN ram_free' /\ ram_free'[k - 1] = f
          BY <1>0, <1>3, <3>3, <5>1
        <5>2. ASSUME NEW k \in DOMAIN ram_free', ram_free'[k] = f
              PROVE  k + 1 \in DOMAIN ram_free /\ ram_free[k + 1] = f
          BY <1>0, <1>3, <5>2
        <5>3. QED
          BY <5>1, <5>2
      <4>2. apc[p] # "ramused"
        BY <1>0
      <4>3. QED
        BY <1>2, <1>4, <3>1, <3>3, <4>1, <4>2 DEF Taken
    <3>4. QED
      BY <3>2, <3>3
  <2>2. QED
    BY <2>1 DEF Used
<1>9. MappedHaveEntries' /\ SwappingKeepsData'
  BY <1>0, TablesAlone DEF dataVars, tableVars
<1>10. QED
  BY <1>1, <1>5, <1>6, <1>7, <1>8, <1>9

(* MEMPHY_get_freefp on mram without one.                                  *)
LEMMA NoRamIInv ==
  ASSUME IInv, NEW p \in Proc, GetRam(p), ram_free = <<>>
  PROVE  IInv'
<1> USE DEF IInv
<1>0. /\ UNCHANGED <<ram_free, swp_free, ram_used, swp_used, ram, swp, pgd,
                     fifo_pgn, mapped, limit, left, frm_lst, frm_lst_swap,
                     lost, spent, stray, beyond, wild>>
      /\ apc' = [apc EXCEPT ![p] = "swap"]
      /\ apc[p] = "ram" /\ left[p] > 0
  BY DEF GetRam, Goto, dataVars, tableVars, historyVars
<1>1. /\ apc'[p] = "swap" /\ \A q \in Proc : q # p => apc'[q] = apc[q]
      /\ apc' \in [Proc -> Label]
  BY <1>0 DEF Label, TypeOK
<1>2. TypeOK'
  BY <1>0, <1>1 DEF TypeOK
<1>3. Requests'
  <2>1. Requested(p)' = Requested(p)
    BY RequestedKept DEF GetStep
  <2>2. RequestOK(p)'
    BY <1>0, <1>1, <2>1 DEF Requests, RequestOK
  <2>3. QED
    BY <1>0, <1>1, <2>2, OtherRequests
<1>4. RamAccount' /\ SwapAccount'
  BY <1>0, PagesAlone DEF RamAccount, SwapAccount
<1>5. Used'
  BY <1>0, <1>1 DEF Used, Taken
<1>6. MappedHaveEntries' /\ SwappingKeepsData'
  BY <1>0, TablesAlone DEF dataVars, tableVars
<1>7. QED
  BY <1>2, <1>3, <1>4, <1>5, <1>6

(* MEMPHY_put_usedfp on mram, and the page is done: the frame is the last  *)
(* one the process took, and nobody else has it.                           *)
LEMMA PutRamUsedIInv ==
  ASSUME IInv, NEW p \in Proc, PutRamUsed(p)
  PROVE  IInv'
<1> USE DEF IInv
<1>0. /\ UNCHANGED <<ram_free, swp_free, swp_used, ram, swp, pgd, fifo_pgn,
                     mapped, limit, frm_lst, frm_lst_swap, lost, spent,
                     stray, beyond, wild>>
      /\ ram_used' = ram_used \cup {Head(frm_lst[p])}
      /\ left' = [left EXCEPT ![p] = @ - 1]
      /\ apc' = [apc EXCEPT ![p] = "ram"]
      /\ apc[p] = "ramused"
  BY DEF PutRamUsed, Goto, dataVars, tableVars, historyVars
<1>1. left[p] > 0 /\ left[p] \in Nat /\ frm_lst[p] # <<>>
      /\ frm_lst[p] \in Seq(RamFrame)
  BY <1>0 DEF TypeOK, Requests, RequestOK
<1>2. /\ apc'[p] = "ram" /\ left'[p] = left[p] - 1 /\ left[p] - 1 \in Nat
      /\ \A q \in Proc : q # p => apc'[q] = apc[q] /\ left'[q] = left[q]
      /\ apc' \in [Proc -> Label]
      /\ left' \in [Proc -> Nat]
  <2>1. left[p] - 1 \in Nat
    BY <1>1
  <2>2. QED
    BY <1>0, <2>1 DEF Label, TypeOK
<1>3. Head(frm_lst[p]) = frm_lst[p][1] /\ 1 \in DOMAIN frm_lst[p]
      /\ frm_lst[p][1] \in RamFrame
  BY <1>1, HeadAndTail
<1>4. TypeOK'
  BY <1>0, <1>2, <1>3 DEF TypeOK
<1>5. Requests'
  <2>1. Requested(p)' = Requested(p)
    BY RequestedKept DEF GetStep
  <2>2. Requested(p) <= limit[p]
    BY DEF Requests, RequestOK
  <2>3. RequestOK(p)'
    BY <1>0, <1>2, <2>1, <2>2 DEF RequestOK
  <2>4. QED
    BY <1>0, <1>2, <2>3, OtherRequests
<1>6. RamAccount' /\ SwapAccount'
  BY <1>0, PagesAlone DEF RamAccount, SwapAccount
<1>7. Used'
  <2>1. ASSUME NEW q \in Proc, q # p, apc[q] = "ramused"
        PROVE  Head(frm_lst[q]) # frm_lst[p][1]
    <3>1. frm_lst[q] # <<>> /\ frm_lst[q] \in Seq(RamFrame)
      BY <2>1 DEF TypeOK, Requests, RequestOK
    <3>2. Head(frm_lst[q]) = frm_lst[q][1] /\ 1 \in DOMAIN frm_lst[q]
      BY <3>1, HeadAndTail
    <3>3. QED
      BY <1>3, <2>1, <3>2 DEF RamAccount, Account, Once
  <2>2. \A k \in DOMAIN ram_free : ram_free[k] # frm_lst[p][1]
    BY <1>3 DEF RamAccount, Account, Once
  <2>3. ASSUME NEW f \in RamFrame PROVE f \in ram_used' <=> Taken(f)'
    <3>1. f \in ram_used <=> Taken(f)
      BY DEF Used
    <3>2. CASE f = frm_lst[p][1]
      BY <1>0, <1>2, <1>3, <2>1, <2>2, <3>2 DEF Taken
    <3>3. CASE f # frm_lst[p][1]
      BY <1>0, <1>2, <1>3, <3>1, <3>3 DEF Taken
    <3>4. QED
      BY <3>2, <3>3
  <2>4. QED
    BY <2>3 DEF Used
<1>8. MappedHaveEntries' /\ SwappingKeepsData'
  BY <1>0, TablesAlone DEF dataVars, tableVars
<1>9. QED
  BY <1>4, <1>5, <1>6, <1>7, <1>8

(* MEMPHY_get_freefp on active_mswp with a free frame.                     *)
LEMMA GetSwapIInv ==
  ASSUME IInv, NEW p \in Proc, GetSwap(p)
  PROVE  IInv'
<1> USE DEF IInv
<1>0. /\ UNCHANGED <<ram_free, ram_used, swp_used, ram, swp, pgd, fifo_pgn,
                     mapped, limit, left, frm_lst, lost, spent, stray,
                     beyond, wild>>
      /\ swp_free # <<>>
      /\ frm_lst_swap' = [frm_lst_swap EXCEPT ![p] = <<Head(swp_free)>> \o @]
      /\ swp_free' = Tail(swp_free)
      /\ apc' = [apc EXCEPT ![p] = "swapused"]
      /\ apc[p] = "swap"
  BY DEF GetSwap, Goto, dataVars, tableVars, historyVars
<1>1. SwapAccount'
  BY <1>0, TakeFrame, PagesAlone DEF SwapAccount
<1>2. /\ frm_lst_swap[p] \in Seq(SwapFrame) /\ swp_free \in Seq(SwapFrame)
      /\ frm_lst_swap'[p] = <<Head(swp_free)>> \o frm_lst_swap[p]
      /\ apc'[p] = "swapused"
      /\ \A q \in Proc :
           q # p => frm_lst_swap'[q] = frm_lst_swap[q] /\ apc'[q] = apc[q]
  BY <1>0 DEF TypeOK
<1>3. Head(swp_free) \in SwapFrame /\ Tail(swp_free) \in Seq(SwapFrame)
  BY <1>0, <1>2, HeadAndTail
<1>4. /\ frm_lst_swap'[p] \in Seq(SwapFrame) /\ frm_lst_swap'[p] # <<>>
      /\ Len(frm_lst_swap'[p]) = Len(frm_lst_swap[p]) + 1
  BY <1>2, <1>3, Prepended
<1>5. TypeOK'
  <2>1. frm_lst_swap' \in [Proc -> Seq(SwapFrame)]
    BY <1>0, <1>2, <1>4 DEF TypeOK
  <2>2. apc' \in [Proc -> Label]
    BY <1>0 DEF Label, TypeOK
  <2>3. QED
    BY <1>0, <1>3, <2>1, <2>2 DEF TypeOK
<1>6. Requests'
  <2>1. Requested(p)' = Requested(p)
    BY RequestedKept DEF GetStep
  <2>2. left[p] > 0
    BY <1>0 DEF Requests, RequestOK
  <2>3. RequestOK(p)'
    BY <1>0, <1>2, <1>4, <2>1, <2>2 DEF Requests, RequestOK
  <2>4. QED
    BY <1>0, <1>2, <2>3, OtherRequests
<1>7. RamAccount'
  BY <1>0, PagesAlone DEF RamAccount
<1>8. Used'
  BY <1>0, <1>2 DEF Used, Taken
<1>9. MappedHaveEntries' /\ SwappingKeepsData'
  BY <1>0, TablesAlone DEF dataVars, tableVars
<1>10. QED
  BY <1>1, <1>5, <1>6, <1>7, <1>8, <1>9

(* MEMPHY_put_usedfp on active_mswp, and the page is done.                 *)
LEMMA PutSwapUsedIInv ==
  ASSUME IInv, NEW p \in Proc, PutSwapUsed(p)
  PROVE  IInv'
<1> USE DEF IInv
<1>0. /\ UNCHANGED <<ram_free, swp_free, ram_used, ram, swp, pgd, fifo_pgn,
                     mapped, limit, frm_lst, frm_lst_swap, lost, spent,
                     stray, beyond, wild>>
      /\ left' = [left EXCEPT ![p] = @ - 1]
      /\ apc' = [apc EXCEPT ![p] = "ram"]
      /\ apc[p] = "swapused"
  BY DEF PutSwapUsed, Goto, dataVars, tableVars, historyVars
<1>1. left[p] > 0 /\ left[p] \in Nat
  BY <1>0 DEF TypeOK, Requests, RequestOK
<1>2. /\ apc'[p] = "ram" /\ left'[p] = left[p] - 1 /\ left[p] - 1 \in Nat
      /\ \A q \in Proc : q # p => apc'[q] = apc[q] /\ left'[q] = left[q]
      /\ apc' \in [Proc -> Label]
      /\ left' \in [Proc -> Nat]
  <2>1. left[p] - 1 \in Nat
    BY <1>1
  <2>2. QED
    BY <1>0, <2>1 DEF Label, TypeOK
<1>3. TypeOK'
  BY <1>0, <1>2 DEF TypeOK
<1>4. Requests'
  <2>1. Requested(p)' = Requested(p)
    BY RequestedKept DEF GetStep
  <2>2. Requested(p) <= limit[p]
    BY DEF Requests, RequestOK
  <2>3. RequestOK(p)'
    BY <1>0, <1>2, <2>1, <2>2 DEF RequestOK
  <2>4. QED
    BY <1>0, <1>2, <2>3, OtherRequests
<1>5. RamAccount' /\ SwapAccount'
  BY <1>0, PagesAlone DEF RamAccount, SwapAccount
<1>6. Used'
  BY <1>0, <1>2 DEF Used, Taken
<1>7. MappedHaveEntries' /\ SwappingKeepsData'
  BY <1>0, TablesAlone DEF dataVars, tableVars
<1>8. QED
  BY <1>3, <1>4, <1>5, <1>6, <1>7

(* Out of memory: the frames that the process had got so far are gone.     *)
LEMMA OomIInv ==
  ASSUME IInv, NEW p \in Proc, Oom(p)
  PROVE  IInv'
<1> USE DEF IInv
<1>0. /\ UNCHANGED <<ram_free, swp_free, ram_used, swp_used, ram, swp, pgd,
                     fifo_pgn, mapped, limit, stray, beyond, wild>>
      /\ lost' = lost \cup ToSet(frm_lst[p])
      /\ spent' = spent \cup ToSet(frm_lst_swap[p])
      /\ frm_lst' = [frm_lst EXCEPT ![p] = <<>>]
      /\ frm_lst_swap' = [frm_lst_swap EXCEPT ![p] = <<>>]
      /\ left' = [left EXCEPT ![p] = 0]
      /\ apc' = [apc EXCEPT ![p] = "idle"]
      /\ apc[p] = "swap"
  BY DEF Oom, DropLists, Goto, frameVars, dataVars, tableVars
<1>1. /\ apc'[p] = "idle" /\ left'[p] = 0
      /\ frm_lst'[p] = <<>> /\ frm_lst_swap'[p] = <<>>
      /\ \A q \in Proc : q # p =>
           /\ apc'[q] = apc[q] /\ left'[q] = left[q]
           /\ frm_lst'[q] = frm_lst[q] /\ frm_lst_swap'[q] = frm_lst_swap[q]
  BY <1>0 DEF TypeOK
<1>2. TypeOK'
  <2>1. /\ apc' \in [Proc -> Label]
        /\ left' \in [Proc -> Nat]
    BY <1>0 DEF Label, TypeOK
  <2>2. /\ frm_lst' \in [Proc -> Seq(RamFrame)]
        /\ frm_lst_swap' \in [Proc -> Seq(SwapFrame)]
    BY <1>0 DEF TypeOK
  <2>3. lost' \subseteq RamFrame /\ spent' \subseteq SwapFrame
    <3>1. frm_lst[p] \in Seq(RamFrame) /\ frm_lst_swap[p] \in Seq(SwapFrame)
      BY DEF TypeOK
    <3>2. /\ ToSet(frm_lst[p]) \subseteq RamFrame
          /\ ToSet(frm_lst_swap[p]) \subseteq SwapFrame
      BY <3>1 DEF ToSet
    <3>3. QED
      BY <1>0, <3>2 DEF TypeOK
  <2>4. QED
    BY <1>0, <2>1, <2>2, <2>3 DEF TypeOK
<1>3. Requests'
  <2>1. Requested(p)' = 0
    BY <1>1 DEF Requested, PagesAsked
  <2>2. limit'[p] \in Nat
    BY <1>0, BoundsAssumption DEF TypeOK, Pgn
  <2>3. RequestOK(p)'
    BY <1>1, <2>1, <2>2, BoundsAssumption DEF RequestOK
  <2>4. QED
    BY <1>0, <1>1, <2>3, OtherRequests
<1>4. RamAccount' /\ SwapAccount'
  BY <1>0, DropList, PagesAlone DEF RamAccount, SwapAccount
<1>5. Used'
  BY <1>0, <1>1 DEF Used, Taken
<1>6. MappedHaveEntries' /\ SwappingKeepsData'
  BY <1>0, TablesAlone DEF dataVars, tableVars
<1>7. QED
  BY <1>2, <1>3, <1>4, <1>5, <1>6

-----------------------------------------------------------------------------
(* vmap_page_range                                                         *)

(* The frame of a page, seen by its entry.                                 *)
LEMMA FrameOfEntry ==
  ASSUME NEW e \in Entry
  PROVE  /\ (IF e.present THEN e.n ELSE NoFrame) \in RamFrame \cup {NoFrame}
         /\ (IF e.present THEN e.n ELSE NoFrame) # NoFrame <=> e.present
         /\ (IF e.swapped THEN e.n ELSE NoFrame) \in SwapFrame \cup {NoFrame}
         /\ (IF e.swapped THEN e.n ELSE NoFrame) # NoFrame <=> e.swapped
<1>1. \A f \in RamFrame : f # NoFrame
  BY DEF RamFrame, NoFrame
<1>2. \A f \in SwapFrame : f # NoFrame
  BY DEF SwapFrame, NoFrame
<1>3. QED
  BY <1>1, <1>2, Entries

(* The frames of the pages, by their entries.                              *)
LEMMA PagesTyped ==
  ASSUME TypeOK, NEW p \in Proc, NEW m \in Pgn
  PROVE  /\ RamPages[p][m] # NoFrame <=> pgd[p][m].present
         /\ pgd[p][m].present => RamPages[p][m] = pgd[p][m].n
         /\ SwapPages[p][m] # NoFrame <=> pgd[p][m].swapped
         /\ pgd[p][m].swapped => SwapPages[p][m] = pgd[p][m].n
<1>1. pgd[p][m] \in Entry
  BY DEF TypeOK
<1>2. QED
  BY <1>1, FrameOfEntry DEF RamPages, SwapPages

(* In a list without repetitions, the place of an element is the only one. *)
LEMMA PlaceInList ==
  ASSUME NEW list, DOMAIN list \subseteq Nat, NEW j \in DOMAIN list,
         \A k \in DOMAIN list : list[k] = list[j] => k = j
  PROVE  Min({k \in DOMAIN list : list[k] = list[j]}) = j
<1>1. {k \in DOMAIN list : list[k] = list[j]} = {j}
  OBVIOUS
<1>2. j \in Nat
  OBVIOUS
<1>3. Min({j}) = j
  BY <1>2 DEF Min
<1>4. QED
  BY <1>1, <1>3

(* What vmap_page_range fills in: the frame of each place of the list gets *)
(* the page that stands there, and no other frame changes.                 *)
LEMMA FilledContents ==
  ASSUME NEW contents, NEW p, NEW first, NEW list,
         DOMAIN list \subseteq Nat,
         \A j, k \in DOMAIN list : list[j] = list[k] => j = k
  PROVE  /\ DOMAIN Filled(contents, p, first, list) = DOMAIN contents
         /\ \A j \in DOMAIN list : list[j] \in DOMAIN contents =>
              Filled(contents, p, first, list)[list[j]] = <<p, first + j - 1>>
         /\ \A f \in DOMAIN contents :
              (\A j \in DOMAIN list : list[j] # f)
                => Filled(contents, p, first, list)[f] = contents[f]
<1>1. DOMAIN Filled(contents, p, first, list) = DOMAIN contents
  BY DEF Filled
<1>2. ASSUME NEW j \in DOMAIN list, list[j] \in DOMAIN contents
      PROVE  Filled(contents, p, first, list)[list[j]] = <<p, first + j - 1>>
  <2>1. list[j] \in ToSet(list)
    BY DEF ToSet
  <2>2. Min({k \in DOMAIN list : list[k] = list[j]}) = j
    BY PlaceInList
  <2>3. QED
    BY <1>2, <2>1, <2>2 DEF Filled
<1>3. ASSUME NEW f \in DOMAIN contents, \A j \in DOMAIN list : list[j] # f
      PROVE  Filled(contents, p, first, list)[f] = contents[f]
  <2>1. f \notin ToSet(list)
    BY <1>3 DEF ToSet
  <2>2. QED
    BY <2>1 DEF Filled
<1>4. QED
  BY <1>1, <1>2, <1>3

(* The numbers in Map: the pages it maps are those of the request, in the  *)
(* order of the lists.                                                     *)
NewPages(p) ==
  limit[p] - (Len(frm_lst[p]) + Len(frm_lst_swap[p])) .. limit[p] - 1
InRam(p, m, j) ==
  /\ j \in DOMAIN frm_lst[p]
  /\ m = limit[p] - (Len(frm_lst[p]) + Len(frm_lst_swap[p])) + j - 1
InSwap(p, m, j) ==
  /\ j \in DOMAIN frm_lst_swap[p]
  /\ m = limit[p] - (Len(frm_lst[p]) + Len(frm_lst_swap[p]))
           + Len(frm_lst[p]) + j - 1

(* Each new page has its place in one of the two lists, and each place a   *)
(* page.                                                                   *)
LEMMA MapPlaces ==
  ASSUME TypeOK, Requests, NEW p \in Proc, apc[p] = "ram", left[p] = 0
  PROVE  /\ NewPages(p) \subseteq Pgn
         /\ \A m \in NewPages(p) :
              (\E j : InRam(p, m, j)) \/ (\E j : InSwap(p, m, j))
         /\ \A j \in DOMAIN frm_lst[p] :
              \E m \in NewPages(p) : InRam(p, m, j)
         /\ \A j \in DOMAIN frm_lst_swap[p] :
              \E m \in NewPages(p) : InSwap(p, m, j)
<1>1. PICK a \in Nat : a = Len(frm_lst[p])
  BY DEF TypeOK
<1>2. PICK b \in Nat : b = Len(frm_lst_swap[p])
  BY DEF TypeOK
<1>3. PICK c \in 0 .. MaxPgn : c = limit[p]
  BY DEF TypeOK, Pgn
<1>4. a + b <= c
  <2>1. Requested(p) = PagesAsked(a + b, 0, "ram")
    BY <1>1, <1>2 DEF Requested
  <2>2. Requested(p) = a + b
    BY <2>1 DEF PagesAsked
  <2>3. Requested(p) <= c
    BY <1>3 DEF Requests, RequestOK
  <2>4. QED
    BY <2>2, <2>3
<1>5. DOMAIN frm_lst[p] = 1 .. a /\ DOMAIN frm_lst_swap[p] = 1 .. b
  BY <1>1, <1>2 DEF TypeOK
<1>6. PICK s \in Nat : s = c - (a + b)
  BY <1>3, <1>4, BoundsAssumption
<1>7. NewPages(p) = s .. c - 1 /\ c = s + a + b
  <2>1. NewPages(p) = c - (a + b) .. c - 1
    BY <1>1, <1>2, <1>3 DEF NewPages
  <2>2. c = s + a + b
    BY <1>3, <1>6, BoundsAssumption
  <2>3. QED
    BY <1>6, <2>1, <2>2
<1>8. \A m, j : InRam(p, m, j) <=> j \in 1 .. a /\ m = s + j - 1
  BY <1>1, <1>2, <1>3, <1>5, <1>6 DEF InRam
<1>9. \A m, j : InSwap(p, m, j) <=> j \in 1 .. b /\ m = s + a + j - 1
  BY <1>1, <1>2, <1>3, <1>5, <1>6 DEF InSwap
<1>10. ASSUME NEW m \in NewPages(p)
       PROVE  (\E j : InRam(p, m, j)) \/ (\E j : InSwap(p, m, j))
  <2>0. m \in Int /\ s <= m /\ m < s + a + b
    BY <1>7
  <2>1. CASE m < s + a
    <3>1. m - s + 1 \in 1 .. a /\ m = s + (m - s + 1) - 1
      BY <2>0, <2>1
    <3>2. QED
      BY <1>8, <3>1
  <2>2. CASE ~(m < s + a)
    <3>1. m - s - a + 1 \in 1 .. b /\ m = s + a + (m - s - a + 1) - 1
      BY <2>0, <2>2
    <3>2. QED
      BY <1>9, <3>1
  <2>3. QED
    BY <2>1, <2>2
<1>11. ASSUME NEW j \in DOMAIN frm_lst[p]
       PROVE  \E m \in NewPages(p) : InRam(p, m, j)
  <2>1. j \in 1 .. a /\ s + j - 1 \in s .. c - 1
    BY <1>5, <1>7
  <2>2. QED
    BY <1>7, <1>8, <2>1
<1>12. ASSUME NEW j \in DOMAIN frm_lst_swap[p]
       PROVE  \E m \in NewPages(p) : InSwap(p, m, j)
  <2>1. j \in 1 .. b /\ s + a + j - 1 \in s .. c - 1
    BY <1>5, <1>7
  <2>2. QED
    BY <1>7, <1>9, <2>1
<1>13. NewPages(p) \subseteq Pgn
  BY <1>3, <1>7, BoundsAssumption DEF Pgn
<1>14. QED
  BY <1>10, <1>11, <1>12, <1>13

(* What Map does, in these terms.                                          *)
LEMMA MapEffect ==
  ASSUME TypeOK, NEW p \in Proc, Map(p)
  PROVE  LET first == limit[p] - (Len(frm_lst[p]) + Len(frm_lst_swap[p]))
         IN /\ \A m \in NewPages(p) \cap Pgn : \A j :
                 /\ InRam(p, m, j) => pgd'[p][m] = OnFrame(frm_lst[p][j])
                 /\ InSwap(p, m, j) => pgd'[p][m] = OnSwap(frm_lst_swap[p][j])
            /\ \A m \in Pgn \ NewPages(p) : pgd'[p][m] = pgd[p][m]
            /\ \A q \in Proc : q # p => pgd'[q] = pgd[q]
            /\ DOMAIN pgd' = Proc /\ DOMAIN pgd'[p] = Pgn
            /\ pgd' = [pgd EXCEPT ![p] = pgd'[p]]
            /\ pgd'[p] = [m \in Pgn |-> pgd'[p][m]]
            /\ ram' = Filled(ram, p, first, frm_lst[p])
            /\ swp' = Filled(swp, p, first + Len(frm_lst[p]), frm_lst_swap[p])
            /\ mapped' = [mapped EXCEPT ![p] = @ \cup NewPages(p)]
            /\ lost' = lost \cup {pgd[p][m].n :
                          m \in {q \in NewPages(p) : pgd[p][q].present}}
            /\ spent' = spent \cup {pgd[p][m].n :
                          m \in {q \in NewPages(p) : pgd[p][q].swapped}}
<1>1. PICK a \in Nat : a = Len(frm_lst[p])
  BY DEF TypeOK
<1>2. PICK b \in Nat : b = Len(frm_lst_swap[p])
  BY DEF TypeOK
<1>3. PICK s \in Int : s = limit[p] - (a + b)
  <2>1. limit[p] \in Int
    BY DEF TypeOK, Pgn
  <2>2. QED
    BY <2>1
<1>4. NewPages(p) = s .. limit[p] - 1
  BY <1>1, <1>2, <1>3 DEF NewPages
<1>5. PICK row : row = [m \in Pgn |->
        IF m \in NewPages(p)
        THEN IF m - s < a THEN OnFrame(frm_lst[p][m - s + 1])
                          ELSE OnSwap(frm_lst_swap[p][m - s - a + 1])
        ELSE pgd[p][m]]
  OBVIOUS
<1>6. pgd' = [pgd EXCEPT ![p] = row]
  BY <1>1, <1>2, <1>3, <1>4, <1>5 DEF Map
<1>7. pgd'[p] = row /\ \A q \in Proc : q # p => pgd'[q] = pgd[q]
  BY <1>6 DEF TypeOK
<1>8. ASSUME NEW m \in NewPages(p) \cap Pgn, NEW j, InRam(p, m, j)
      PROVE  pgd'[p][m] = OnFrame(frm_lst[p][j])
  <2>1. j \in 1 .. a
    BY <1>1, <1>8 DEF InRam, TypeOK
  <2>2. m = s + j - 1
    BY <1>1, <1>2, <1>3, <1>8 DEF InRam
  <2>3. m - s < a /\ m - s + 1 = j
    BY <2>1, <2>2
  <2>4. QED
    BY <1>5, <1>7, <2>3
<1>9. ASSUME NEW m \in NewPages(p) \cap Pgn, NEW j, InSwap(p, m, j)
      PROVE  pgd'[p][m] = OnSwap(frm_lst_swap[p][j])
  <2>1. j \in 1 .. b
    BY <1>2, <1>9 DEF InSwap, TypeOK
  <2>2. m = s + a + j - 1
    BY <1>1, <1>2, <1>3, <1>9 DEF InSwap
  <2>3. ~(m - s < a) /\ m - s - a + 1 = j
    BY <2>1, <2>2
  <2>4. QED
    BY <1>5, <1>7, <2>3
<1>10. \A m \in Pgn \ NewPages(p) : pgd'[p][m] = pgd[p][m]
  BY <1>5, <1>7
<1>11. /\ DOMAIN pgd' = Proc /\ DOMAIN pgd'[p] = Pgn
       /\ pgd' = [pgd EXCEPT ![p] = pgd'[p]]
       /\ pgd'[p] = [m \in Pgn |-> pgd'[p][m]]
  BY <1>5, <1>6, <1>7 DEF TypeOK
<1>12. /\ ram' = Filled(ram, p, s, frm_lst[p])
       /\ swp' = Filled(swp, p, s + a, frm_lst_swap[p])
  BY <1>1, <1>2, <1>3 DEF Map
<1>13. /\ mapped' = [mapped EXCEPT ![p] = @ \cup NewPages(p)]
       /\ lost' = lost \cup {pgd[p][m].n :
                     m \in {q \in NewPages(p) : pgd[p][q].present}}
       /\ spent' = spent \cup {pgd[p][m].n :
                     m \in {q \in NewPages(p) : pgd[p][q].swapped}}
  BY DEF Map, NewPages
<1>14. QED
  BY <1>1, <1>2, <1>3, <1>7, <1>8, <1>9, <1>10, <1>11, <1>12, <1>13

(* vmap_page_range preserves the invariant.                                *)
LEMMA MapIInv ==
  ASSUME IInv, NEW p \in Proc, Map(p)
  PROVE  IInv'
<1> USE DEF IInv
<1>0. /\ UNCHANGED <<ram_free, swp_free, ram_used, swp_used, limit, left,
                     stray, beyond, wild>>
      /\ frm_lst' = [frm_lst EXCEPT ![p] = <<>>]
      /\ frm_lst_swap' = [frm_lst_swap EXCEPT ![p] = <<>>]
      /\ apc' = [apc EXCEPT ![p] = "idle"]
      /\ apc[p] = "ram" /\ left[p] = 0
  BY DEF Map, DropLists, Goto, frameVars
<1>1. PICK P : P = NewPages(p)
  OBVIOUS
<1>2. /\ P \subseteq Pgn
      /\ \A m \in P : (\E j : InRam(p, m, j)) \/ (\E j : InSwap(p, m, j))
      /\ \A j \in DOMAIN frm_lst[p] : \E m \in P : InRam(p, m, j)
      /\ \A j \in DOMAIN frm_lst_swap[p] : \E m \in P : InSwap(p, m, j)
  BY <1>0, <1>1, MapPlaces
<1>3. /\ \A m \in P : \A j :
           /\ InRam(p, m, j) => pgd'[p][m] = OnFrame(frm_lst[p][j])
           /\ InSwap(p, m, j) => pgd'[p][m] = OnSwap(frm_lst_swap[p][j])
      /\ \A m \in Pgn \ P : pgd'[p][m] = pgd[p][m]
      /\ \A q \in Proc : q # p => pgd'[q] = pgd[q]
      /\ pgd' = [pgd EXCEPT ![p] = pgd'[p]]
      /\ pgd'[p] = [m \in Pgn |-> pgd'[p][m]]
  <2>1. P = NewPages(p) \cap Pgn
    BY <1>1, <1>2
  <2>2. /\ \A m \in NewPages(p) \cap Pgn : \A j :
             /\ InRam(p, m, j) => pgd'[p][m] = OnFrame(frm_lst[p][j])
             /\ InSwap(p, m, j) => pgd'[p][m] = OnSwap(frm_lst_swap[p][j])
        /\ \A m \in Pgn \ NewPages(p) : pgd'[p][m] = pgd[p][m]
    BY MapEffect
  <2>3. \A q \in Proc : q # p => pgd'[q] = pgd[q]
    BY MapEffect
  <2>4. /\ pgd' = [pgd EXCEPT ![p] = pgd'[p]]
        /\ pgd'[p] = [m \in Pgn |-> pgd'[p][m]]
    BY MapEffect
  <2>5. QED
    BY <1>1, <2>1, <2>2, <2>3, <2>4
<1>4. PICK s : s = limit[p] - (Len(frm_lst[p]) + Len(frm_lst_swap[p]))
  OBVIOUS
<1>5. PICK t : t = s + Len(frm_lst[p])
  OBVIOUS
<1>6. /\ ram' = Filled(ram, p, s, frm_lst[p])
      /\ swp' = Filled(swp, p, t, frm_lst_swap[p])
      /\ mapped' = [mapped EXCEPT ![p] = @ \cup P]
      /\ lost' = lost \cup {pgd[p][m].n : m \in {q \in P : pgd[p][q].present}}
      /\ spent' = spent \cup {pgd[p][m].n : m \in {q \in P : pgd[p][q].swapped}}
  BY <1>1, <1>4, <1>5, MapEffect
<1>7. /\ \A m, j : InRam(p, m, j) => j \in DOMAIN frm_lst[p] /\ m = s + j - 1
      /\ \A m, j : InSwap(p, m, j) =>
           j \in DOMAIN frm_lst_swap[p] /\ m = t + j - 1
  BY <1>4, <1>5 DEF InRam, InSwap
<1>8. /\ \A j \in DOMAIN frm_lst[p] : frm_lst[p][j] \in RamFrame
      /\ \A j \in DOMAIN frm_lst_swap[p] : frm_lst_swap[p][j] \in SwapFrame
      /\ DOMAIN frm_lst[p] \subseteq Nat /\ DOMAIN frm_lst_swap[p] \subseteq Nat
  <2>1. frm_lst[p] \in Seq(RamFrame) /\ frm_lst_swap[p] \in Seq(SwapFrame)
    BY DEF TypeOK
  <2>2. QED
    BY <2>1
<1>9. \A m \in P : pgd'[p][m] \in Entry /\ pgd'[p][m] # Unmapped
  <2>1. \A f \in RamFrame : OnFrame(f) \in Entry /\ OnFrame(f) # Unmapped
    BY DEF Entry, OnFrame, Unmapped
  <2>2. \A f \in SwapFrame : OnSwap(f) \in Entry /\ OnSwap(f) # Unmapped
    BY DEF Entry, OnSwap, Unmapped
  <2>3. ASSUME NEW m \in P, NEW j, InRam(p, m, j)
        PROVE  pgd'[p][m] \in Entry /\ pgd'[p][m] # Unmapped
    BY <1>3, <1>7, <1>8, <2>1, <2>3
  <2>4. ASSUME NEW m \in P, NEW j, InSwap(p, m, j)
        PROVE  pgd'[p][m] \in Entry /\ pgd'[p][m] # Unmapped
    <3>1. pgd'[p][m] = OnSwap(frm_lst_swap[p][j])
      BY <1>3, <2>4
    <3>2. frm_lst_swap[p][j] \in SwapFrame
      BY <1>7, <1>8, <2>4
    <3>3. QED
      BY <2>2, <3>1, <3>2
  <2>5. QED
    BY <1>2, <2>3, <2>4
<1>10. pgd' \in [Proc -> [Pgn -> Entry]]
  <2>1. ASSUME NEW m \in Pgn PROVE pgd'[p][m] \in Entry
    <3>1. pgd[p][m] \in Entry
      BY DEF TypeOK
    <3>2. CASE m \in P
      BY <1>9, <3>2
    <3>3. CASE m \notin P
      BY <1>3, <3>1, <3>3
    <3>4. QED
      BY <3>2, <3>3
  <2>2. pgd'[p] \in [Pgn -> Entry]
    BY <1>3, <2>1
  <2>3. QED
    BY <1>3, <2>2 DEF TypeOK
<1>11. TypeOK'
  <2>1. fifo_pgn' \in [Proc -> Seq(Pgn)]
    <3>1. PICK num : num = Len(frm_lst[p]) + Len(frm_lst_swap[p])
      OBVIOUS
    <3>2. fifo_pgn' = [fifo_pgn EXCEPT ![p] =
                         [k \in 1 .. num |-> limit[p] + 1 - k] \o @]
      BY <3>1 DEF Map
    <3>3. num \in Nat /\ \A k \in 1 .. num : limit[p] + 1 - k \in Pgn
      <4>1. PICK c \in 0 .. MaxPgn : c = limit[p]
        BY DEF TypeOK, Pgn
      <4>2. num <= Requested(p) /\ Requested(p) <= limit[p]
            /\ Requested(p) \in Nat
        BY <3>1, RequestedCounts DEF Requests, RequestOK
      <4>3. num \in Nat
        <5>1. PICK a \in Nat : a = Len(frm_lst[p])
          BY DEF TypeOK
        <5>2. PICK b \in Nat : b = Len(frm_lst_swap[p])
          BY DEF TypeOK
        <5>3. num = a + b
          BY <3>1, <5>1, <5>2
        <5>4. QED
          BY <5>3
      <4>4. num <= c
        BY <4>1, <4>2, <4>3, BoundsAssumption
      <4>5. QED
        BY <4>1, <4>3, <4>4, BoundsAssumption DEF Pgn
    <3>4. [k \in 1 .. num |-> limit[p] + 1 - k] \in Seq(Pgn)
      BY <3>3
    <3>5. fifo_pgn[p] \in Seq(Pgn)
      BY DEF TypeOK
    <3>6. [k \in 1 .. num |-> limit[p] + 1 - k] \o fifo_pgn[p] \in Seq(Pgn)
      BY <3>4, <3>5
    <3>7. QED
      BY <3>2, <3>6 DEF TypeOK
  <2>2. DOMAIN ram' = RamFrame /\ DOMAIN swp' = SwapFrame
    BY <1>6 DEF Filled, TypeOK
  <2>3. apc' \in [Proc -> Label]
    BY <1>0 DEF Label, TypeOK
  <2>4. /\ frm_lst' \in [Proc -> Seq(RamFrame)]
        /\ frm_lst_swap' \in [Proc -> Seq(SwapFrame)]
    BY <1>0 DEF TypeOK
  <2>5. mapped' \in [Proc -> SUBSET Pgn]
    BY <1>2, <1>6 DEF TypeOK
  <2>6. lost' \subseteq RamFrame /\ spent' \subseteq SwapFrame
    <3>1. \A m \in P : pgd[p][m] \in Entry
      BY <1>2 DEF TypeOK
    <3>2. \A m \in P : /\ pgd[p][m].present => pgd[p][m].n \in RamFrame
                       /\ pgd[p][m].swapped => pgd[p][m].n \in SwapFrame
      BY <3>1, Entries
    <3>3. QED
      BY <1>6, <3>2 DEF TypeOK
  <2>7. QED
    BY <1>0, <1>10, <2>1, <2>2, <2>3, <2>4, <2>5, <2>6 DEF TypeOK
<1>12. Requests'
  <2>1. /\ apc'[p] = "idle" /\ left'[p] = 0 /\ limit'[p] \in Nat
        /\ frm_lst'[p] = <<>> /\ frm_lst_swap'[p] = <<>>
        /\ \A q \in Proc : q # p =>
             /\ apc'[q] = apc[q]
             /\ frm_lst'[q] = frm_lst[q] /\ frm_lst_swap'[q] = frm_lst_swap[q]
    BY <1>0 DEF TypeOK, Pgn
  <2>2. Requested(p)' = 0
    BY <2>1 DEF Requested, PagesAsked
  <2>3. RequestOK(p)'
    BY <2>1, <2>2, BoundsAssumption DEF RequestOK
  <2>4. QED
    BY <1>0, <2>1, <2>3, OtherRequests
<1>13. \A q \in Proc : \A m \in Pgn :
         /\ RamPages[q][m] =
              IF pgd[q][m].present THEN pgd[q][m].n ELSE NoFrame
         /\ SwapPages[q][m] =
              IF pgd[q][m].swapped THEN pgd[q][m].n ELSE NoFrame
         /\ RamPages'[q][m] =
              IF pgd'[q][m].present THEN pgd'[q][m].n ELSE NoFrame
         /\ SwapPages'[q][m] =
              IF pgd'[q][m].swapped THEN pgd'[q][m].n ELSE NoFrame
  BY DEF RamPages, SwapPages
<1>14. /\ \A m \in Pgn \ P : /\ RamPages'[p][m] = RamPages[p][m]
                             /\ SwapPages'[p][m] = SwapPages[p][m]
       /\ \A q \in Proc : q # p => /\ RamPages'[q] = RamPages[q]
                                   /\ SwapPages'[q] = SwapPages[q]
  BY <1>3 DEF RamPages, SwapPages
<1>15. \A m \in P : \A j :
         /\ InRam(p, m, j) => /\ RamPages'[p][m] = frm_lst[p][j]
                              /\ SwapPages'[p][m] = NoFrame
         /\ InSwap(p, m, j) => /\ SwapPages'[p][m] = frm_lst_swap[p][j]
                               /\ RamPages'[p][m] = NoFrame
  <2>1. \A f : /\ OnFrame(f).present = TRUE /\ OnFrame(f).swapped = FALSE
               /\ OnFrame(f).n = f
               /\ OnSwap(f).present = FALSE /\ OnSwap(f).swapped = TRUE
               /\ OnSwap(f).n = f
    BY DEF OnFrame, OnSwap
  <2>2. ASSUME NEW m \in P, NEW j, InRam(p, m, j)
        PROVE  RamPages'[p][m] = frm_lst[p][j] /\ SwapPages'[p][m] = NoFrame
    <3>1. pgd'[p][m] = OnFrame(frm_lst[p][j]) /\ m \in Pgn
      BY <1>2, <1>3, <2>2
    <3>2. QED
      BY <1>13, <2>1, <3>1
  <2>3. ASSUME NEW m \in P, NEW j, InSwap(p, m, j)
        PROVE  /\ SwapPages'[p][m] = frm_lst_swap[p][j]
               /\ RamPages'[p][m] = NoFrame
    <3>1. pgd'[p][m] = OnSwap(frm_lst_swap[p][j]) /\ m \in Pgn
      BY <1>2, <1>3, <2>3
    <3>2. QED
      BY <1>13, <2>1, <3>1
  <2>4. QED
    BY <2>2, <2>3
<1>16. /\ RamPages' \in [Proc -> [Pgn -> RamFrame \cup {NoFrame}]]
       /\ SwapPages' \in [Proc -> [Pgn -> SwapFrame \cup {NoFrame}]]
  <2>1. \A q \in Proc : \A m \in Pgn :
          /\ (IF pgd'[q][m].present THEN pgd'[q][m].n ELSE NoFrame)
                \in RamFrame \cup {NoFrame}
          /\ (IF pgd'[q][m].swapped THEN pgd'[q][m].n ELSE NoFrame)
                \in SwapFrame \cup {NoFrame}
    BY <1>10, FrameOfEntry
  <2>2. QED
    BY <2>1 DEF RamPages, SwapPages
<1>17. RamAccount'
  <2>1. Account(RamFrame, ram_free, frm_lst, RamPages, lost)
    BY DEF RamAccount
  <2>2. \A m \in P : \/ RamPages'[p][m] = NoFrame
                     \/ \E j \in DOMAIN frm_lst[p] :
                          RamPages'[p][m] = frm_lst[p][j]
    BY <1>2, <1>7, <1>15
  <2>3. \A j, k \in DOMAIN frm_lst[p] : frm_lst[p][j] = frm_lst[p][k] => j = k
    BY <2>1 DEF Account, Once
  <2>4. \A m \in P : RamPages'[p][m] # NoFrame => \E j : InRam(p, m, j)
    BY <1>2, <1>15
  <2>5. \A m, n \in P :
          RamPages'[p][m] = RamPages'[p][n] /\ RamPages'[p][m] # NoFrame
            => m = n
    <3> SUFFICES ASSUME NEW m \in P, NEW n \in P,
                        RamPages'[p][m] = RamPages'[p][n],
                        RamPages'[p][m] # NoFrame
                 PROVE  m = n
      OBVIOUS
    <3>1. PICK j : InRam(p, m, j)
      BY <2>4
    <3>2. PICK k : InRam(p, n, k)
      BY <2>4
    <3>3. j = k
      BY <1>7, <1>15, <2>3, <3>1, <3>2
    <3>4. QED
      BY <1>7, <3>1, <3>2, <3>3
  <2>6. \A j \in DOMAIN frm_lst[p] :
          \E m \in P : RamPages'[p][m] = frm_lst[p][j]
    BY <1>2, <1>15
  <2>7. \A f : f \in lost' <=>
          f \in lost \/ \E m \in P : RamPages[p][m] # NoFrame /\ RamPages[p][m] = f
    <3>1. \A m \in P : /\ RamPages[p][m] # NoFrame <=> pgd[p][m].present
                       /\ pgd[p][m].present => RamPages[p][m] = pgd[p][m].n
      BY <1>2, PagesTyped
    <3>2. \A f : f \in {pgd[p][m].n : m \in {q \in P : pgd[p][q].present}}
            <=> \E m \in P : RamPages[p][m] # NoFrame /\ RamPages[p][m] = f
      BY <3>1
    <3>3. QED
      BY <1>6, <3>2
  <2>8. Account(RamFrame, ram_free, frm_lst', RamPages', lost')
    <3>1. Assigned(RamFrame, frm_lst, RamPages, lost, p, P, frm_lst', RamPages', lost')
      BY <1>0, <1>2, <1>14, <1>16, <2>2, <2>5, <2>6, <2>7 DEF Assigned
    <3>2. QED
      BY <2>1, <3>1, AssignList
  <2>9. QED
    BY <1>0, <2>8 DEF RamAccount
<1>18. SwapAccount'
  <2> SUFFICES ASSUME ~wild
               PROVE  Account(SwapFrame, swp_free, frm_lst_swap, SwapPages, spent)'
    BY <1>0 DEF SwapAccount
  <2>1. Account(SwapFrame, swp_free, frm_lst_swap, SwapPages, spent)
    BY DEF SwapAccount
  <2>2. \A m \in P : \/ SwapPages'[p][m] = NoFrame
                     \/ \E j \in DOMAIN frm_lst_swap[p] :
                          SwapPages'[p][m] = frm_lst_swap[p][j]
    BY <1>2, <1>7, <1>15
  <2>3. \A j, k \in DOMAIN frm_lst_swap[p] :
          frm_lst_swap[p][j] = frm_lst_swap[p][k] => j = k
    BY <2>1 DEF Account, Once
  <2>4. \A m \in P : SwapPages'[p][m] # NoFrame => \E j : InSwap(p, m, j)
    BY <1>2, <1>15
  <2>5. \A m, n \in P :
          SwapPages'[p][m] = SwapPages'[p][n] /\ SwapPages'[p][m] # NoFrame
            => m = n
    <3> SUFFICES ASSUME NEW m \in P, NEW n \in P,
                        SwapPages'[p][m] = SwapPages'[p][n],
                        SwapPages'[p][m] # NoFrame
                 PROVE  m = n
      OBVIOUS
    <3>1. PICK j : InSwap(p, m, j)
      BY <2>4
    <3>2. PICK k : InSwap(p, n, k)
      BY <2>4
    <3>3. j = k
      BY <1>7, <1>15, <2>3, <3>1, <3>2
    <3>4. QED
      BY <1>7, <3>1, <3>2, <3>3
  <2>6. \A j \in DOMAIN frm_lst_swap[p] :
          \E m \in P : SwapPages'[p][m] = frm_lst_swap[p][j]
    BY <1>2, <1>15
  <2>7. \A f : f \in spent' <=>
          f \in spent \/ \E m \in P : SwapPages[p][m] # NoFrame /\ SwapPages[p][m] = f
    <3>1. \A m \in P : /\ SwapPages[p][m] # NoFrame <=> pgd[p][m].swapped
                       /\ pgd[p][m].swapped => SwapPages[p][m] = pgd[p][m].n
      BY <1>2, PagesTyped
    <3>2. \A f : f \in {pgd[p][m].n : m \in {q \in P : pgd[p][q].swapped}}
            <=> \E m \in P : SwapPages[p][m] # NoFrame /\ SwapPages[p][m] = f
      BY <3>1
    <3>3. QED
      BY <1>6, <3>2
  <2>8. Account(SwapFrame, swp_free, frm_lst_swap', SwapPages', spent')
    <3>1. Assigned(SwapFrame, frm_lst_swap, SwapPages, spent, p, P,
                   frm_lst_swap', SwapPages', spent')
      BY <1>0, <1>2, <1>14, <1>16, <2>2, <2>5, <2>6, <2>7 DEF Assigned
    <3>2. QED
      BY <2>1, <3>1, AssignList
  <2>9. QED
    BY <1>0, <2>8
<1>19. Used'
  <2>1. apc'[p] = "idle" /\ \A q \in Proc : q # p => apc'[q] = apc[q]
        /\ frm_lst'[q] = frm_lst[q]
    BY <1>0 DEF TypeOK
  <2>2. QED
    BY <1>0, <2>1 DEF Used, Taken
<1>20. \A q \in Proc : \A m \in mapped'[q] :
         (q = p /\ m \in P) \/ (m \in mapped[q] /\ pgd'[q][m] = pgd[q][m])
  <2>1. \A q \in Proc : mapped[q] \subseteq Pgn
    BY DEF TypeOK
  <2>2. mapped'[p] = mapped[p] \cup P
        /\ \A q \in Proc : q # p => mapped'[q] = mapped[q]
    BY <1>6 DEF TypeOK
  <2>3. QED
    BY <1>3, <2>1, <2>2
<1>21. MappedHaveEntries'
  BY <1>9, <1>20 DEF MappedHaveEntries
<1>22. SwappingKeepsData'
  <2> SUFFICES ASSUME ~stray, ~wild, NEW q \in Proc, NEW m \in mapped'[q]
               PROVE  DataOf(q, m)' = <<q, m>>
    BY <1>0 DEF SwappingKeepsData, PagesHaveTheirData
  <2>1. /\ \A j, k \in DOMAIN frm_lst[p] :
             frm_lst[p][j] = frm_lst[p][k] => j = k
        /\ \A j, k \in DOMAIN frm_lst_swap[p] :
             frm_lst_swap[p][j] = frm_lst_swap[p][k] => j = k
    BY DEF RamAccount, SwapAccount, Account, Once
  <2>2. /\ DOMAIN ram = RamFrame /\ DOMAIN swp = SwapFrame
    BY DEF TypeOK
  <2>3. /\ \A j \in DOMAIN frm_lst[p] : ram'[frm_lst[p][j]] = <<p, s + j - 1>>
        /\ \A f \in RamFrame :
             (\A j \in DOMAIN frm_lst[p] : frm_lst[p][j] # f) => ram'[f] = ram[f]
    BY <1>6, <1>8, <2>1, <2>2, FilledContents
  <2>4. /\ \A j \in DOMAIN frm_lst_swap[p] :
             swp'[frm_lst_swap[p][j]] = <<p, t + j - 1>>
        /\ \A f \in SwapFrame :
             (\A j \in DOMAIN frm_lst_swap[p] : frm_lst_swap[p][j] # f)
               => swp'[f] = swp[f]
    BY <1>6, <1>8, <2>1, <2>2, FilledContents
  <2>5. \A f : /\ OnFrame(f).present = TRUE /\ OnFrame(f).n = f
               /\ OnSwap(f).present = FALSE /\ OnSwap(f).n = f
    BY DEF OnFrame, OnSwap
  <2>6. CASE q = p /\ m \in P
    <3>1. CASE \E j : InRam(p, m, j)
      <4>1. PICK j : InRam(p, m, j)
        BY <3>1
      <4>2. pgd'[p][m] = OnFrame(frm_lst[p][j]) /\ m = s + j - 1
            /\ j \in DOMAIN frm_lst[p]
        BY <1>3, <1>7, <2>6, <4>1
      <4>3. DataOf(p, m)' = ram'[frm_lst[p][j]]
        BY <2>5, <4>2 DEF DataOf
      <4>4. QED
        BY <2>3, <2>6, <4>2, <4>3
    <3>2. CASE \E j : InSwap(p, m, j)
      <4>1. PICK j : InSwap(p, m, j)
        BY <3>2
      <4>2. pgd'[p][m] = OnSwap(frm_lst_swap[p][j]) /\ m = t + j - 1
            /\ j \in DOMAIN frm_lst_swap[p]
        BY <1>3, <1>7, <2>6, <4>1
      <4>3. DataOf(p, m)' = swp'[frm_lst_swap[p][j]]
        BY <2>5, <4>2 DEF DataOf
      <4>4. QED
        BY <2>4, <2>6, <4>2, <4>3
    <3>3. QED
      BY <1>2, <2>6, <3>1, <3>2
  <2>7. CASE ~(q = p /\ m \in P)
    <3>1. m \in mapped[q] /\ pgd'[q][m] = pgd[q][m] /\ m \in Pgn
      BY <1>20, <2>7 DEF TypeOK
    <3>2. pgd[q][m] \in Entry /\ pgd[q][m] # Unmapped
      BY <3>1 DEF TypeOK, MappedHaveEntries
    <3>3. DataOf(q, m) = <<q, m>>
      BY <3>1 DEF SwappingKeepsData, PagesHaveTheirData
    <3>4. CASE pgd[q][m].present
      <4>1. pgd[q][m].n \in RamFrame /\ RamPages[q][m] = pgd[q][m].n
        BY <3>1, <3>2, <3>4, Entries, PagesTyped
      <4>2. \A j \in DOMAIN frm_lst[p] : frm_lst[p][j] # pgd[q][m].n
        BY <3>1, <4>1 DEF RamAccount, Account, Once
      <4>3. QED
        BY <2>3, <3>1, <3>3, <3>4, <4>1, <4>2 DEF DataOf
    <3>5. CASE ~pgd[q][m].present
      <4>1. /\ pgd[q][m].n \in SwapFrame /\ SwapPages[q][m] = pgd[q][m].n
        BY <3>1, <3>2, <3>5, Entries, PagesTyped
      <4>2. \A j \in DOMAIN frm_lst_swap[p] : frm_lst_swap[p][j] # pgd[q][m].n
        BY <3>1, <4>1 DEF SwapAccount, Account, Once
      <4>3. QED
        BY <2>4, <3>1, <3>3, <3>5, <4>1, <4>2 DEF DataOf
    <3>6. QED
      BY <3>4, <3>5
  <2>8. QED
    BY <2>6, <2>7
<1>23. QED
  BY <1>11, <1>12, <1>17, <1>18, <1>19, <1>21, <1>22

-----------------------------------------------------------------------------
(* Page access                                                             *)

(* A set of numbers has its minimum.                                       *)
LEMMA MinIsThere ==
  ASSUME NEW S, S \subseteq Nat, S # {}
  PROVE  Min(S) \in S
<1>1. PICK R : R = OpToRel(<, Nat)
  BY Zenon
<1>2. \A a, b \in Nat : a < b => <<a, b>> \in R
  BY <1>1 DEF OpToRel
<1>3. IsWellFoundedOn(R, Nat)
  BY <1>1, NatLessThanWellFounded, Zenon
<1>4. PICK x \in S : \A y \in S : ~(<<y, x>> \in R)
  BY <1>3, WFMin, Zenon
<1>5. ASSUME NEW y \in S PROVE x <= y
  <2>1. x \in Nat /\ y \in Nat /\ <<y, x>> \notin R
    BY <1>4
  <2>2. ~(y < x)
    BY <1>2, <2>1, Zenon
  <2>3. QED
    BY <2>1, <2>2
<1>6. QED
  BY <1>5 DEF Min

(* find_victim_page returns a page of the process that is present.         *)
LEMMA VictimIsPresent ==
  ASSUME TypeOK, NEW p \in Proc, Victims(p) # {}
  PROVE  /\ Victim(p) \in Pgn /\ pgd[p][Victim(p)].present
         /\ VictimFrame(p) \in RamFrame
         /\ RamPages[p][Victim(p)] = VictimFrame(p)
         /\ SwapPages[p][Victim(p)] = NoFrame
<1>1. fifo_pgn[p] \in Seq(Pgn)
  BY DEF TypeOK
<1>2. Victims(p) \subseteq Nat
  BY <1>1 DEF Victims
<1>3. Min(Victims(p)) \in Victims(p)
  BY <1>2, MinIsThere, Zenon
<1>4. Victim(p) \in Pgn /\ pgd[p][Victim(p)].present
  <2>1. PICK k : k = Min(Victims(p))
    OBVIOUS
  <2>2. k \in DOMAIN fifo_pgn[p] /\ pgd[p][fifo_pgn[p][k]].present
    BY <1>3, <2>1 DEF Victims
  <2>3. Victim(p) = fifo_pgn[p][k]
    BY <2>1 DEF Victim
  <2>4. QED
    BY <1>1, <2>2, <2>3
<1>5. pgd[p][Victim(p)] \in Entry
  BY <1>4 DEF TypeOK
<1>6. VictimFrame(p) \in RamFrame /\ ~pgd[p][Victim(p)].swapped
  BY <1>4, <1>5, Entries DEF VictimFrame
<1>7. QED
  BY <1>4, <1>6, PagesTyped DEF VictimFrame

(* What pg_getpage does to page tables: the page p's victim has its frame  *)
(* in RAM and changes it for the frame s of swap.                          *)
Exchange(p, v, f, pgn, s) ==
  /\ v \in Pgn /\ pgd[p][v] = OnFrame(f) /\ f \in RamFrame /\ v # pgn
  /\ RamPages[p][v] = f /\ SwapPages[p][v] = NoFrame
  /\ pgd'[p][v] = OnSwap(s) /\ pgd'[p][pgn] = OnFrame(f)
  /\ \A m \in Pgn : m # v /\ m # pgn => pgd'[p][m] = pgd[p][m]
  /\ \A q \in Proc : q # p => pgd'[q] = pgd[q]
  /\ pgd' = [pgd EXCEPT ![p] = pgd'[p]]
  /\ pgd'[p] = [m \in Pgn |-> pgd'[p][m]]
LEMMA GetPageEffect ==
  ASSUME TypeOK, NEW p \in Proc, NEW pgn \in Pgn, NEW s \in SwapTarget,
         GetPage(p, pgn, s)
  PROVE  /\ Exchange(p, Victim(p), VictimFrame(p), pgn, s)
         /\ s \in SwapFrame /\ (swp_free # <<>> => s = Head(swp_free))
<1>1. PICK v : v = Victim(p)
  OBVIOUS
<1>2. PICK f : f = VictimFrame(p)
  OBVIOUS
<1>3. /\ v \in Pgn /\ pgd[p][v].present /\ f \in RamFrame
      /\ f = pgd[p][v].n /\ ~pgd[p][pgn].present
      /\ RamPages[p][v] = f /\ SwapPages[p][v] = NoFrame
  BY <1>1, <1>2, VictimIsPresent DEF GetPage, VictimFrame
<1>4. pgd[p][v] = OnFrame(f) /\ v # pgn
  <2>1. pgd[p][v] \in Entry
    BY <1>3 DEF TypeOK
  <2>2. QED
    BY <1>3, <2>1, Entries
<1>5. s \in SwapFrame /\ (swp_free # <<>> => s = Head(swp_free))
  <2>1. CASE swp_free = <<>>
    BY <2>1 DEF SwapTarget
  <2>2. CASE swp_free # <<>>
    <3>1. Head(swp_free) \in SwapFrame
      BY <2>2, HeadAndTail DEF TypeOK
    <3>2. QED
      BY <2>2, <3>1 DEF SwapTarget
  <2>3. QED
    BY <2>1, <2>2
<1>6. pgd' = [pgd EXCEPT ![p][v] = OnSwap(s), ![p][pgn] = OnFrame(f)]
  BY <1>1, <1>2 DEF GetPage, Exchanged
<1>7. /\ pgd'[p][v] = OnSwap(s) /\ pgd'[p][pgn] = OnFrame(f)
      /\ \A m \in Pgn : m # v /\ m # pgn => pgd'[p][m] = pgd[p][m]
      /\ \A q \in Proc : q # p => pgd'[q] = pgd[q]
      /\ pgd' = [pgd EXCEPT ![p] = pgd'[p]]
      /\ pgd'[p] = [m \in Pgn |-> pgd'[p][m]]
  BY <1>3, <1>4, <1>6 DEF TypeOK
<1>8. QED
  BY <1>1, <1>2, <1>3, <1>4, <1>5, <1>7 DEF Exchange

(* The two copies of pg_getpage move what the frames hold, be it A in RAM  *)
(* and B in swap: afterwards every page finds, by its new entry, what it   *)
(* had by the old one.  With a free frame of swap nothing is overwritten.  *)
Content(A, B, pte) == IF pte.present THEN A[pte.n] ELSE B[pte.n]
Copied(A, B, f, s, n, A2, B2) ==
  /\ DOMAIN A = RamFrame /\ DOMAIN B = SwapFrame
  /\ B2 = [B EXCEPT ![s] = A[f]]
  /\ A2 = [A EXCEPT ![f] = B2[n]]
Fault(p, pgn, s) ==
  /\ TypeOK /\ RamAccount /\ SwapAccount
  /\ p \in Proc /\ pgn \in Pgn /\ s \in SwapTarget
  /\ GetPage(p, pgn, s) /\ ~wild'
SameContent(A, B, A2, B2) ==
  \A q \in Proc : \A m \in Pgn : pgd[q][m] # Unmapped =>
    Content(A2, B2, pgd'[q][m]) = Content(A, B, pgd[q][m])
LEMMA PagesMove ==
  ASSUME NEW p, NEW pgn, NEW s, Fault(p, pgn, s),
         NEW A, NEW B, NEW A2, NEW B2,
         Copied(A, B, VictimFrame(p), s, pgd[p][pgn].n, A2, B2)
  PROVE  SameContent(A, B, A2, B2)
<1> SUFFICES ASSUME NEW q \in Proc, NEW m \in Pgn, pgd[q][m] # Unmapped
             PROVE  Content(A2, B2, pgd'[q][m]) = Content(A, B, pgd[q][m])
  BY DEF SameContent
<1> USE DEF Fault
<1>0. ~wild /\ wild' = (swp_free = <<>>) /\ ~pgd[p][pgn].present
  BY DEF GetPage
<1>1. PICK v : v = Victim(p)
  OBVIOUS
<1>2. PICK f : f = VictimFrame(p)
  OBVIOUS
<1>3. /\ v \in Pgn /\ pgd[p][v] = OnFrame(f) /\ f \in RamFrame /\ v # pgn
      /\ RamPages[p][v] = f /\ SwapPages[p][v] = NoFrame
      /\ pgd'[p][v] = OnSwap(s) /\ pgd'[p][pgn] = OnFrame(f)
      /\ \A n \in Pgn : n # v /\ n # pgn => pgd'[p][n] = pgd[p][n]
      /\ \A r \in Proc : r # p => pgd'[r] = pgd[r]
  BY <1>1, <1>2, GetPageEffect DEF Exchange
<1>4. s \in SwapFrame /\ swp_free # <<>> /\ s = Head(swp_free)
  BY <1>0, GetPageEffect
<1>5. /\ OnSwap(s).present = FALSE /\ OnSwap(s).n = s
      /\ OnFrame(f).present = TRUE /\ OnFrame(f).n = f /\ f # NoFrame
  BY <1>3 DEF OnSwap, OnFrame, RamFrame, NoFrame
<1>6. \E k \in DOMAIN swp_free : swp_free[k] = s
  BY <1>4, HeadAndTail DEF TypeOK
<1>7. \A r \in Proc : \A n \in Pgn : SwapPages[r][n] # s
  BY <1>0, <1>6 DEF SwapAccount, Account, Once
<1>8. /\ B2[s] = A[f] /\ A2[f] = B2[pgd[p][pgn].n]
      /\ \A g \in SwapFrame : g # s => B2[g] = B[g]
      /\ \A g \in RamFrame : g # f => A2[g] = A[g]
  BY <1>2, <1>3, <1>4 DEF Copied
<1>9. pgd[q][m] \in Entry
  BY DEF TypeOK
<1>10. CASE q = p /\ m = v
  BY <1>3, <1>5, <1>8, <1>10 DEF Content
<1>11. CASE q = p /\ m = pgn
  <2>1. pgd[p][pgn].swapped /\ pgd[p][pgn].n \in SwapFrame
    BY <1>0, <1>9, <1>11, Entries
  <2>2. pgd[p][pgn].n # s
    BY <1>7, <2>1, PagesTyped
  <2>3. Content(A, B, pgd[q][m]) = B[pgd[p][pgn].n]
    BY <1>0, <1>11 DEF Content
  <2>4. Content(A2, B2, pgd'[q][m]) = A2[f]
    BY <1>3, <1>5, <1>11 DEF Content
  <2>5. QED
    BY <1>8, <2>1, <2>2, <2>3, <2>4
<1>12. CASE ~(q = p /\ m = v) /\ ~(q = p /\ m = pgn)
  <2>1. pgd'[q][m] = pgd[q][m]
    BY <1>3, <1>12
  <2>2. CASE pgd[q][m].present
    <3>1. pgd[q][m].n \in RamFrame /\ RamPages[q][m] = pgd[q][m].n
      BY <1>9, <2>2, Entries, PagesTyped
    <3>2. RamPages[q][m] # f
      BY <1>3, <1>5, <1>12 DEF RamAccount, Account, Once
    <3>3. QED
      BY <1>8, <2>1, <2>2, <3>1, <3>2 DEF Content
  <2>3. CASE ~pgd[q][m].present
    <3>1. pgd[q][m].n \in SwapFrame /\ SwapPages[q][m] = pgd[q][m].n
      BY <1>9, <2>3, Entries, PagesTyped
    <3>2. SwapPages[q][m] # s
      BY <1>7
    <3>3. QED
      BY <1>8, <2>1, <2>3, <3>1, <3>2 DEF Content
  <2>4. QED
    BY <2>2, <2>3
<1>13. QED
  BY <1>10, <1>11, <1>12

(* pg_getpage preserves the invariant, whatever the contents of RAM become *)
(* when the write that follows misses its page.                            *)
LEMMA GetPageIInv ==
  ASSUME IInv, NEW p \in Proc, NEW pgn \in Pgn, NEW s \in SwapTarget,
         GetPage(p, pgn, s), DOMAIN ram' = RamFrame, stray' \in BOOLEAN,
         ~stray' => ~stray /\ ram' = Loaded(p, pgn, s)
  PROVE  IInv'
<1> USE DEF IInv
<1>0. /\ UNCHANGED <<ram_free, ram_used, swp_used, mapped, limit, apc, left,
                     frm_lst, frm_lst_swap, lost>>
      /\ ~wild /\ wild' = (swp_free = <<>>)
      /\ apc[p] = "idle" /\ ~pgd[p][pgn].present /\ Victims(p) # {}
      /\ swp_free' = IF swp_free # <<>> THEN Tail(swp_free) ELSE <<>>
      /\ fifo_pgn' = [fifo_pgn EXCEPT ![p] = Enlist(@, pgn)]
      /\ spent' = spent \cup (IF pgd[p][pgn].swapped THEN {pgd[p][pgn].n} ELSE {})
      /\ beyond' = (beyond \/ pgn \notin mapped[p])
  BY DEF GetPage, allocVars
<1>1. PICK v : v = Victim(p)
  OBVIOUS
<1>2. PICK f : f = VictimFrame(p)
  OBVIOUS
<1>3. /\ v \in Pgn /\ pgd[p][v] = OnFrame(f) /\ f \in RamFrame /\ v # pgn
      /\ RamPages[p][v] = f /\ SwapPages[p][v] = NoFrame
  BY <1>1, <1>2, GetPageEffect DEF Exchange
<1>4. s \in SwapFrame /\ (swp_free # <<>> => s = Head(swp_free))
  BY GetPageEffect
<1>5. /\ pgd'[p][v] = OnSwap(s) /\ pgd'[p][pgn] = OnFrame(f)
      /\ \A m \in Pgn : m # v /\ m # pgn => pgd'[p][m] = pgd[p][m]
      /\ \A q \in Proc : q # p => pgd'[q] = pgd[q]
      /\ pgd' = [pgd EXCEPT ![p] = pgd'[p]]
      /\ pgd'[p] = [m \in Pgn |-> pgd'[p][m]]
  BY <1>1, <1>2, GetPageEffect DEF Exchange
<1>6. /\ OnSwap(s) \in Entry /\ OnSwap(s) # Unmapped
      /\ OnFrame(f) \in Entry /\ OnFrame(f) # Unmapped
      /\ OnSwap(s).present = FALSE /\ OnSwap(s).swapped = TRUE
      /\ OnSwap(s).n = s
      /\ OnFrame(f).present = TRUE /\ OnFrame(f).swapped = FALSE
      /\ OnFrame(f).n = f
  BY <1>3, <1>4 DEF Entry, OnSwap, OnFrame, Unmapped
<1>7. pgd' \in [Proc -> [Pgn -> Entry]]
  <2>1. ASSUME NEW m \in Pgn PROVE pgd'[p][m] \in Entry
    <3>1. pgd[p][m] \in Entry
      BY DEF TypeOK
    <3>2. QED
      BY <1>5, <1>6, <3>1
  <2>2. pgd'[p] \in [Pgn -> Entry]
    BY <1>5, <2>1
  <2>3. QED
    BY <1>5, <2>2 DEF TypeOK
<1>8. TypeOK'
  <2>1. swp_free' \in Seq(SwapFrame)
    BY <1>0, HeadAndTail DEF TypeOK
  <2>2. fifo_pgn' \in [Proc -> Seq(Pgn)]
    <3>1. fifo_pgn[p] \in Seq(Pgn)
      BY DEF TypeOK
    <3>2. Enlist(fifo_pgn[p], pgn) \in Seq(Pgn)
      BY <3>1, Prepended DEF Enlist
    <3>3. QED
      BY <1>0, <3>2 DEF TypeOK
  <2>3. DOMAIN swp' = SwapFrame
    BY DEF GetPage, Stored, TypeOK
  <2>4. spent' \subseteq SwapFrame
    <3>1. pgd[p][pgn] \in Entry
      BY DEF TypeOK
    <3>2. pgd[p][pgn].swapped => pgd[p][pgn].n \in SwapFrame
      BY <3>1, Entries
    <3>3. QED
      BY <1>0, <3>2 DEF TypeOK
  <2>5. wild' \in BOOLEAN /\ beyond' \in BOOLEAN
    BY <1>0
  <2>6. QED
    BY <1>0, <1>7, <2>1, <2>2, <2>3, <2>4, <2>5 DEF TypeOK
<1>9. Requests'
  BY <1>0 DEF Requests, RequestOK, Requested
<1>10. \A q \in Proc : \A m \in Pgn :
         /\ RamPages'[q][m] =
              IF pgd'[q][m].present THEN pgd'[q][m].n ELSE NoFrame
         /\ SwapPages'[q][m] =
              IF pgd'[q][m].swapped THEN pgd'[q][m].n ELSE NoFrame
  BY DEF RamPages, SwapPages
<1>11. /\ RamPages' \in [Proc -> [Pgn -> RamFrame \cup {NoFrame}]]
       /\ SwapPages' \in [Proc -> [Pgn -> SwapFrame \cup {NoFrame}]]
  <2>1. \A q \in Proc : \A m \in Pgn :
          /\ (IF pgd'[q][m].present THEN pgd'[q][m].n ELSE NoFrame)
                \in RamFrame \cup {NoFrame}
          /\ (IF pgd'[q][m].swapped THEN pgd'[q][m].n ELSE NoFrame)
                \in SwapFrame \cup {NoFrame}
    BY <1>7, FrameOfEntry
  <2>2. QED
    BY <2>1 DEF RamPages, SwapPages
<1>12. /\ \A m \in Pgn : m # v /\ m # pgn =>
            /\ RamPages'[p][m] = RamPages[p][m]
            /\ SwapPages'[p][m] = SwapPages[p][m]
       /\ \A q \in Proc : q # p => /\ RamPages'[q] = RamPages[q]
                                   /\ SwapPages'[q] = SwapPages[q]
  BY <1>5 DEF RamPages, SwapPages
<1>13. /\ RamPages'[p][v] = NoFrame /\ RamPages'[p][pgn] = f
       /\ SwapPages'[p][v] = s /\ SwapPages'[p][pgn] = NoFrame
  BY <1>3, <1>5, <1>6, <1>10
<1>14. /\ f # NoFrame /\ RamPages[p][pgn] = NoFrame
       /\ SwapPages[p][pgn] # NoFrame <=> pgd[p][pgn].swapped
       /\ pgd[p][pgn].swapped => SwapPages[p][pgn] = pgd[p][pgn].n
  BY <1>0, <1>3, PagesTyped DEF RamFrame, NoFrame
<1>15. RamAccount'
  <2>1. Moved(RamFrame, RamPages, p, v, pgn, RamPages')
    BY <1>3, <1>11, <1>12, <1>13, <1>14 DEF Moved
  <2>2. Account(RamFrame, ram_free, frm_lst, RamPages', lost)
    BY <2>1, MoveFrame DEF RamAccount
  <2>3. QED
    BY <1>0, <2>2 DEF RamAccount
<1>16. SwapAccount'
  <2> SUFFICES ASSUME ~wild'
               PROVE  Account(SwapFrame, swp_free, frm_lst_swap, SwapPages, spent)'
    BY DEF SwapAccount
  <2>1. swp_free # <<>> /\ s = Head(swp_free) /\ swp_free' = Tail(swp_free)
    BY <1>0, <1>4
  <2>2. \A g : g \in spent' <=>
          g \in spent \/ (g = SwapPages[p][pgn] /\ g # NoFrame)
    BY <1>0, <1>14
  <2>3. Given(SwapFrame, swp_free, SwapPages, spent, p, v, pgn, SwapPages',
              spent')
    BY <1>3, <1>11, <1>12, <1>13, <2>1, <2>2 DEF Given
  <2>4. Account(SwapFrame, Tail(swp_free), frm_lst_swap, SwapPages', spent')
    BY <1>0, <2>3, GiveFrame DEF SwapAccount
  <2>5. QED
    BY <1>0, <2>1, <2>4
<1>17. Used'
  BY <1>0 DEF Used, Taken
<1>18. MappedHaveEntries'
  <2>1. ASSUME NEW q \in Proc, NEW m \in mapped[q]
        PROVE  pgd'[q][m] # Unmapped
    <3>1. m \in Pgn /\ pgd[q][m] # Unmapped
      BY DEF TypeOK, MappedHaveEntries
    <3>2. QED
      BY <1>5, <1>6, <3>1
  <2>2. QED
    BY <1>0, <2>1 DEF MappedHaveEntries
<1>19. SwappingKeepsData'
  <2> SUFFICES ASSUME ~stray', ~wild', NEW q \in Proc, NEW m \in mapped[q]
               PROVE  DataOf(q, m)' = <<q, m>>
    BY <1>0 DEF SwappingKeepsData, PagesHaveTheirData
  <2>1. DataOf(q, m) = <<q, m>> /\ m \in Pgn
    BY <1>0 DEF SwappingKeepsData, PagesHaveTheirData, TypeOK
  <2>2. pgd[q][m] # Unmapped
    BY <2>1 DEF MappedHaveEntries
  <2>3. Copied(ram, swp, VictimFrame(p), s, pgd[p][pgn].n, ram', swp')
    BY DEF GetPage, Loaded, Stored, TypeOK, Copied
  <2>4. Content(ram', swp', pgd'[q][m]) = Content(ram, swp, pgd[q][m])
    <3>1. Fault(p, pgn, s)
      BY DEF Fault
    <3>2. SameContent(ram, swp, ram', swp')
      BY <2>3, <3>1, PagesMove
    <3>3. QED
      BY <2>1, <2>2, <3>2 DEF SameContent
  <2>5. QED
    BY <2>1, <2>4 DEF DataOf, Content
<1>20. QED
  BY <1>8, <1>9, <1>15, <1>16, <1>17, <1>18, <1>19

(* The read or the write that brings a page in preserves the invariant.    *)
LEMMA AccessIInv ==
  ASSUME IInv, NEW p \in Proc, NEW pgn \in Pgn, Read(p, pgn) \/ Write(p, pgn)
  PROVE  IInv'
<1>0. DOMAIN ram = RamFrame /\ stray \in BOOLEAN
  BY DEF IInv, TypeOK
<1>1. CASE Read(p, pgn)
  <2>1. PICK s \in SwapTarget :
          GetPage(p, pgn, s) /\ ram' = Loaded(p, pgn, s) /\ stray' = stray
    BY <1>1 DEF Read
  <2>2. DOMAIN ram' = RamFrame
    BY <1>0, <2>1 DEF Loaded
  <2>3. QED
    BY <1>0, <2>1, <2>2, GetPageIInv
<1>2. CASE Write(p, pgn)
  <2>1. PICK s \in SwapTarget :
          /\ GetPage(p, pgn, s)
          /\ \/ ram' = Loaded(p, pgn, s) /\ stray' = stray
             \/ /\ stray' = TRUE
                /\ ram' = SetVal(p, Loaded(p, pgn, s), PAGING_FPN(pgd[p][pgn]))
    BY <1>2 DEF Write
  <2>2. DOMAIN ram' = RamFrame
    BY <1>0, <2>1 DEF Loaded, SetVal
  <2>3. stray' \in BOOLEAN /\ (~stray' => ~stray /\ ram' = Loaded(p, pgn, s))
    <3>1. CASE stray' = TRUE
      BY <3>1, Zenon
    <3>2. CASE ram' = Loaded(p, pgn, s) /\ stray' = stray
      BY <1>0, <3>2, Zenon
    <3>3. QED
      BY <2>1, <3>1, <3>2
  <2>4. QED
    BY <2>1, <2>2, <2>3, GetPageIInv
<1>3. QED
  BY <1>1, <1>2

-----------------------------------------------------------------------------
(* The end of a process                                                    *)

(* cpu_routine frees the pcb: nothing changes hands.                       *)
LEMMA ExitIInv ==
  ASSUME IInv, NEW p \in Proc, Exit(p)
  PROVE  IInv'
<1> USE DEF IInv
<1>0. /\ UNCHANGED <<ram_free, swp_free, ram_used, swp_used, ram, swp, pgd,
                     fifo_pgn, mapped, limit, left, frm_lst, frm_lst_swap,
                     lost, spent, stray, beyond, wild>>
      /\ apc' = [apc EXCEPT ![p] = "ended"]
      /\ apc[p] = "idle"
  BY DEF Exit, Goto, frameVars, dataVars, tableVars
<1>1. /\ apc'[p] = "ended" /\ \A q \in Proc : q # p => apc'[q] = apc[q]
      /\ apc' \in [Proc -> Label]
  BY <1>0 DEF Label, TypeOK
<1>2. TypeOK'
  BY <1>0, <1>1 DEF TypeOK
<1>3. Requests'
  <2>1. Requested(p)' = Requested(p)
    BY <1>0, <1>1 DEF Requested, PagesAsked
  <2>2. RequestOK(p)'
    BY <1>0, <1>1, <2>1 DEF Requests, RequestOK
  <2>3. QED
    BY <1>0, <1>1, <2>2, OtherRequests
<1>4. RamAccount' /\ SwapAccount'
  BY <1>0, PagesAlone DEF RamAccount, SwapAccount
<1>5. Used'
  BY <1>0, <1>1 DEF Used, Taken
<1>6. MappedHaveEntries' /\ SwappingKeepsData'
  BY <1>0, TablesAlone DEF dataVars, tableVars
<1>7. QED
  BY <1>2, <1>3, <1>4, <1>5, <1>6

-----------------------------------------------------------------------------
(* The invariant is preserved                                              *)

(* The invariant is about the variables of Paging alone.                   *)
LEMMA StutterIInv ==
  ASSUME IInv, UNCHANGED vars
  PROVE  IInv'
BY DEF IInv, TypeOK, Requests, RequestOK, Requested, RamAccount,
       SwapAccount, RamPages, SwapPages, Used, Taken, MappedHaveEntries,
       SwappingKeepsData, PagesHaveTheirData, DataOf,
       vars, frameVars, dataVars, tableVars, allocVars, historyVars

(* Every step of every process preserves the invariant.                    *)
LEMMA NextIInv == IInv /\ [Next]_vars => IInv'
<1> SUFFICES ASSUME IInv, [Next]_vars PROVE IInv'
  OBVIOUS
<1>1. ASSUME NEW p \in Proc, Step(p) PROVE IInv'
  <2>1. CASE \E n \in 1 .. MaxReq : Request(p, n)
    BY <2>1, RequestIInv
  <2>2. CASE GetRam(p)
    BY <2>2, TakeRamIInv, NoRamIInv
  <2>3. CASE PutRamUsed(p)
    BY <2>3, PutRamUsedIInv
  <2>4. CASE GetSwap(p)
    BY <2>4, GetSwapIInv
  <2>5. CASE PutSwapUsed(p)
    BY <2>5, PutSwapUsedIInv
  <2>6. CASE Oom(p)
    BY <2>6, OomIInv
  <2>7. CASE Map(p)
    BY <2>7, MapIInv
  <2>8. CASE \E pgn \in Pgn : Read(p, pgn) \/ Write(p, pgn)
    BY <2>8, AccessIInv
  <2>9. CASE Exit(p)
    BY <2>9, ExitIInv
  <2>10. QED
    BY <1>1, <2>1, <2>2, <2>3, <2>4, <2>5, <2>6, <2>7, <2>8, <2>9 DEF Step
<1>2. CASE UNCHANGED vars
  BY <1>2, StutterIInv
<1>3. QED
  BY <1>1, <1>2 DEF Next

(* A step of a process that does not end, and that had not, leaves what    *)
(* the others have left behind.                                            *)
LEMMA OthersOrphans ==
  ASSUME Orphans, NEW p \in Proc, apc[p] # "ended", apc'[p] # "ended",
         orphaned' = orphaned,
         \A q \in Proc : q # p => apc'[q] = apc[q] /\ pgd'[q] = pgd[q]
  PROVE  Orphans'
<1>1. \A q \in Proc :
        /\ apc'[q] = "ended" <=> apc[q] = "ended"
        /\ apc[q] = "ended" => pgd'[q] = pgd[q]
  OBVIOUS
<1>2. QED
  BY <1>1 DEF Orphans

(* Only the end of a process leaves entries behind, and nothing changes    *)
(* them afterwards.                                                        *)
LEMMA NextOrphans == TypeOK /\ Orphans /\ [Next]_vars => Orphans'
<1> SUFFICES ASSUME TypeOK, Orphans, [Next]_vars PROVE Orphans'
  OBVIOUS
<1>1. ASSUME NEW p \in Proc, Step(p) PROVE Orphans'
  <2>1. CASE Exit(p)
    <3>1. /\ apc' = [apc EXCEPT ![p] = "ended"] /\ pgd' = pgd
          /\ orphaned' = orphaned \cup ({pgd[p][pgn] : pgn \in Pgn} \ {Unmapped})
          /\ apc[p] = "idle"
      BY <2>1 DEF Exit, Goto, tableVars
    <3>2. /\ apc'[p] = "ended" /\ \A q \in Proc : q # p => apc'[q] = apc[q]
          /\ \A pgn \in Pgn : pgd[p][pgn] \in Entry
      BY <3>1 DEF TypeOK
    <3>3. ASSUME NEW e PROVE e \in orphaned' <=>
            /\ e \in Entry \ {Unmapped}
            /\ \E q \in Proc : apc'[q] = "ended"
                              /\ \E pgn \in Pgn : pgd'[q][pgn] = e
      BY <3>1, <3>2 DEF Orphans
    <3>4. QED
      BY <3>3 DEF Orphans
  <2>2. CASE ~Exit(p)
    <3>1. /\ apc[p] # "ended" /\ orphaned' = orphaned
          /\ \/ apc' = apc
             \/ \E label \in Label \ {"ended"} : apc' = [apc EXCEPT ![p] = label]
          /\ \A q \in Proc : q # p => pgd'[q] = pgd[q]
      <4>1. CASE \E n \in 1 .. MaxReq : Request(p, n)
        BY <4>1 DEF Request, Goto, tableVars, historyVars, Label
      <4>2. CASE GetRam(p) \/ PutRamUsed(p)
        BY <4>2 DEF GetRam, PutRamUsed, Goto, tableVars, historyVars, Label
      <4>3. CASE GetSwap(p) \/ PutSwapUsed(p) \/ Oom(p)
        BY <4>3 DEF GetSwap, PutSwapUsed, Oom, Goto, tableVars, historyVars, Label
      <4>4. CASE Map(p)
        <5>1. /\ apc[p] = "ram" /\ orphaned' = orphaned
              /\ apc' = [apc EXCEPT ![p] = "idle"]
              /\ \E t : pgd' = [pgd EXCEPT ![p] = t]
          BY <4>4, Zenon DEF Map, Goto
        <5>2. QED
          BY <5>1 DEF TypeOK, Label
      <4>5. CASE \E pgn \in Pgn : Read(p, pgn) \/ Write(p, pgn)
        <5>1. PICK pgn \in Pgn, s \in SwapTarget : GetPage(p, pgn, s)
          BY <4>5 DEF Read, Write
        <5>2. /\ apc[p] = "idle" /\ apc' = apc /\ orphaned' = orphaned
              /\ pgd' = Exchanged(p, pgn, s)
          BY <5>1 DEF GetPage, allocVars
        <5>3. QED
          BY <5>2 DEF Exchanged, TypeOK
      <4>6. QED
        BY <1>1, <2>2, <4>1, <4>2, <4>3, <4>4, <4>5 DEF Step
    <3>2. apc'[p] # "ended" /\ \A q \in Proc : q # p => apc'[q] = apc[q]
      BY <3>1 DEF TypeOK
    <3>3. QED
      BY <3>1, <3>2, OthersOrphans
  <2>3. QED
    BY <2>1, <2>2
<1>2. CASE UNCHANGED vars
  BY <1>2 DEF Orphans, vars, tableVars, allocVars, historyVars
<1>3. QED
  BY <1>1, <1>2 DEF Next

-----------------------------------------------------------------------------
(* Theorems                                                                *)

(* The inductive invariant holds in every reachable state.                 *)
THEOREM Invariance == Spec => []IInv
BY InitIInv, NextIInv, PTL DEF Spec

(* What is left behind is the pages of the processes that have ended.      *)
LEMMA OrphansInvariance == Spec => []Orphans
<1>1. Init => Orphans
  BY DEF Init, Orphans
<1>2. IInv /\ Orphans /\ [Next]_vars => Orphans'
  BY NextOrphans DEF IInv
<1>3. QED
  BY <1>1, <1>2, Invariance, PTL DEF Spec

(* However the allocations and the page faults interleave, no frame of RAM *)
(* is handed out twice.                                                    *)
THEOREM FrameOwnedOnceCorrect == Spec => []FrameOwnedOnce
<1>1. IInv => FrameOwnedOnce
  <2> SUFFICES ASSUME IInv, NEW f \in RamFrame
               PROVE  Cardinality(RamHolders(f)) <= 1
    BY DEF FrameOwnedOnce
  <2>1. \A p \in Proc : DOMAIN frm_lst[p] \subseteq 1 .. MaxPgn
    BY ListsAreShort DEF IInv
  <2>2. Account(RamFrame, ram_free, frm_lst, RamPages, lost)
    BY DEF IInv, RamAccount
  <2>3. Cardinality(HolderSet(f, ram_free, frm_lst, RamPages)) <= 1
    BY <2>1, <2>2, HoldersOfAccount
  <2>4. QED
    BY <2>3, HoldersAreCounted DEF IInv
<1>2. QED
  BY <1>1, Invariance, PTL

(* The same of a frame of swap, until the swap has run out under a page    *)
(* fault.                                                                  *)
THEOREM SwapOwnedOnceCorrect == Spec => []SwapOwnedOnce
<1>1. IInv => SwapOwnedOnce
  <2> SUFFICES ASSUME IInv, ~wild, NEW f \in SwapFrame
               PROVE  Cardinality(SwapHolders(f)) <= 1
    BY DEF SwapOwnedOnce
  <2>1. \A p \in Proc : DOMAIN frm_lst_swap[p] \subseteq 1 .. MaxPgn
    BY ListsAreShort DEF IInv
  <2>2. Account(SwapFrame, swp_free, frm_lst_swap, SwapPages, spent)
    BY DEF IInv, SwapAccount
  <2>3. Cardinality(HolderSet(f, swp_free, frm_lst_swap, SwapPages)) <= 1
    BY <2>1, <2>2, HoldersOfAccount
  <2>4. QED
    BY <2>3, HoldersAreCounted DEF IInv
<1>2. QED
  BY <1>1, Invariance, PTL

(* The frames that nobody can use or give back any more are those that a   *)
(* failed allocation, a second mapping or a page fault has left behind,    *)
(* and those of the pages of the processes that have ended.                *)
THEOREM NoFrameVanishesCorrect == Spec => []NoFrameVanishes
<1>1. IInv /\ Orphans => NoFrameVanishes
  <2> SUFFICES ASSUME IInv, Orphans PROVE NoFrameVanishes
    OBVIOUS
  <2>1. \A p \in Proc : /\ DOMAIN frm_lst[p] \subseteq 1 .. MaxPgn
                        /\ DOMAIN frm_lst_swap[p] \subseteq 1 .. MaxPgn
    BY ListsAreShort DEF IInv
  <2>2. ASSUME NEW f \in RamFrame
        PROVE  Alive(RamHolders(f)) = {} <=> f \in lost \/ OnFrame(f) \in orphaned
    <3>1. Account(RamFrame, ram_free, frm_lst, RamPages, lost)
      BY DEF IInv, RamAccount
    <3>2. RamHolders(f) = HolderSet(f, ram_free, frm_lst, RamPages)
      BY HoldersAreCounted DEF IInv
    <3>3. /\ \A g, h \in RamHolders(f) : g = h
          /\ RamHolders(f) = {} <=> f \in lost
      BY <2>1, <3>1, <3>2, HoldersOfAccount
    <3>4. /\ \A p \in Proc, pgn \in Pgn :
               pgd[p][pgn] = OnFrame(f) => <<"page", p, pgn>> \in RamHolders(f)
          /\ \A h \in RamHolders(f) : h[1] = "page" =>
               h[2] \in Proc /\ h[3] \in Pgn /\ pgd[h[2]][h[3]] = OnFrame(f)
      BY DEF RamHolders, Holders
    <3>5. OnFrame(f) \in Entry /\ OnFrame(f) # Unmapped
      BY DEF Entry, OnFrame, Unmapped
    <3>6. QED
      BY <3>3, <3>4, <3>5, AliveHolders
  <2>3. ASSUME ~wild, NEW f \in SwapFrame
        PROVE  Alive(SwapHolders(f)) = {} <=> f \in spent \/ OnSwap(f) \in orphaned
    <3>1. Account(SwapFrame, swp_free, frm_lst_swap, SwapPages, spent)
      BY <2>3 DEF IInv, SwapAccount
    <3>2. SwapHolders(f) = HolderSet(f, swp_free, frm_lst_swap, SwapPages)
      BY HoldersAreCounted DEF IInv
    <3>3. /\ \A g, h \in SwapHolders(f) : g = h
          /\ SwapHolders(f) = {} <=> f \in spent
      BY <2>1, <3>1, <3>2, HoldersOfAccount
    <3>4. /\ \A p \in Proc, pgn \in Pgn :
               pgd[p][pgn] = OnSwap(f) => <<"page", p, pgn>> \in SwapHolders(f)
          /\ \A h \in SwapHolders(f) : h[1] = "page" =>
               h[2] \in Proc /\ h[3] \in Pgn /\ pgd[h[2]][h[3]] = OnSwap(f)
      BY DEF SwapHolders, Holders
    <3>5. OnSwap(f) \in Entry /\ OnSwap(f) # Unmapped
      BY DEF Entry, OnSwap, Unmapped
    <3>6. QED
      BY <3>3, <3>4, <3>5, AliveHolders
  <2>4. QED
    BY <2>2, <2>3 DEF NoFrameVanishes
<1>2. QED
  BY <1>1, Invariance, OrphansInvariance, PTL

(* used_fp_list of RAM has exactly the frames that are not free, but for   *)
(* one that is just changing lists.                                        *)
THEOREM UsedAreTakenCorrect == Spec => []UsedAreTaken
<1>1. IInv => UsedAreTaken
  <2> SUFFICES ASSUME IInv PROVE UsedAreTaken
    OBVIOUS
  <2>1. \A f : f \in ToSet(ram_free) <=> \E k \in DOMAIN ram_free : ram_free[k] = f
    BY DEF ToSet
  <2>2. \A f \in RamFrame : f \in ram_used <=> Taken(f)
    BY DEF IInv, Used
  <2>3. ram_used \subseteq RamFrame
    BY DEF IInv, TypeOK
  <2>4. QED
    BY <2>1, <2>2, <2>3 DEF UsedAreTaken, Taken
<1>2. QED
  BY <1>1, Invariance, PTL

(* As long as no write has missed its page, each mapped page keeps its own *)
(* data through any number of moves between RAM and swap.                  *)
THEOREM SwappingKeepsDataCorrect == Spec => []SwappingKeepsData
<1>1. IInv => SwappingKeepsData
  BY DEF IInv
<1>2. QED
  BY <1>1, Invariance, PTL

-----------------------------------------------------------------------------
(* The bits of an entry                                                    *)

Bits == INSTANCE PageTable

(* Writing a value to bits of a number and reading them: what SETVAL put of *)
(* a value that fits into them gives it back.                               *)
LEMMA SetThenGet ==
  ASSUME NEW v, NEW low \in Nat, NEW high \in Nat, low <= high,
         NEW value \in Bits!Number(high - low + 1)
  PROVE  Bits!GETVAL(Bits!SETVAL(v, value, low, high), low, high) = value
<1> DEFINE new == Bits!SETVAL(v, value, low, high)
<1>1. value \subseteq 0 .. high - low
  BY DEF Bits!Number
<1>2. ASSUME NEW bit \in 0 .. high - low
      PROVE  bit + low \in new <=> bit \in value
  <2>1. bit + low \in low .. high /\ (bit + low) - low = bit
    OBVIOUS
  <2> QED
    BY <2>1 DEF Bits!SETVAL
<1>3. Bits!GETVAL(new, low, high) = {bit \in 0 .. high - low : bit \in value}
  BY <1>2 DEF Bits!GETVAL
<1> QED
  BY <1>1, <1>3

(* Writing bits of an entry gives an entry.                                 *)
LEMMA SetIsEntry ==
  ASSUME NEW v \in Bits!Entry, NEW value, NEW low \in Nat, NEW high \in 0 .. 31
  PROVE  Bits!SETVAL(v, value, low, high) \in Bits!Entry
<1>1. 32 - 1 = 31
  OBVIOUS
<1>2. v \subseteq 0 .. 31
  BY <1>1 DEF Bits!Entry, Bits!Number
<1>3. low .. high \subseteq 0 .. 31
  OBVIOUS
<1>4. Bits!SETVAL(v, value, low, high) \subseteq 0 .. 31
  BY <1>2, <1>3 DEF Bits!SETVAL
<1> QED
  BY <1>1, <1>4 DEF Bits!Entry, Bits!Number

(* Setting or clearing one bit of an entry gives an entry.                  *)
LEMMA FlagsAreEntry ==
  ASSUME NEW v \in Bits!Entry, NEW bit \in 0 .. 31
  PROVE  Bits!SETBIT(v, bit) \in Bits!Entry /\ Bits!CLRBIT(v, bit) \in Bits!Entry
<1>1. 32 - 1 = 31
  OBVIOUS
<1> QED
  BY <1>1 DEF Bits!Entry, Bits!Number, Bits!SETBIT, Bits!CLRBIT

(* Whatever an entry was before, pte_set_fpn makes it that of a page which *)
(* is present and not in swap, and PAGING_FPN gives back the frame, if the *)
(* frame's number has no more than 13 bits.  (OnFrame of Paging)           *)
THEOREM FrameEntry ==
  ASSUME NEW pte \in Bits!Entry, NEW fpn \in Bits!Number(13)
  PROVE  LET new == Bits!pte_set_fpn(pte, fpn)
         IN /\ new \in Bits!Entry
            /\ Bits!PRESENT \in new /\ Bits!SWAPPED \notin new
            /\ Bits!PAGING_FPN(new) = fpn
<1> DEFINE flags == Bits!CLRBIT(Bits!SETBIT(pte, Bits!PRESENT), Bits!SWAPPED)
           new == Bits!pte_set_fpn(pte, fpn)
<1>1. new \in Bits!Entry
  <2>1. Bits!SETBIT(pte, Bits!PRESENT) \in Bits!Entry
    BY FlagsAreEntry DEF Bits!PRESENT
  <2>2. flags \in Bits!Entry
    BY <2>1, FlagsAreEntry DEF Bits!SWAPPED
  <2> QED
    BY <2>2, SetIsEntry DEF Bits!pte_set_fpn
<1>2. Bits!PRESENT \in new /\ Bits!SWAPPED \notin new
  BY DEF Bits!pte_set_fpn, Bits!SETVAL, Bits!SETBIT, Bits!CLRBIT,
         Bits!PRESENT, Bits!SWAPPED
<1>3. Bits!PAGING_FPN(new) = fpn
  <2>1. fpn \in Bits!Number(12 - 0 + 1)
    OBVIOUS
  <2> HIDE DEF flags
  <2>2. Bits!GETVAL(Bits!SETVAL(flags, fpn, 0, 12), 0, 12) = fpn
    BY <2>1, SetThenGet
  <2> QED
    BY <2>2 DEF Bits!PAGING_FPN, Bits!pte_set_fpn, flags
<1> QED
  BY <1>1, <1>2, <1>3

(* Whatever an entry was before, pte_set_swap makes it that of a page which *)
(* is in swap and not present, and PAGING_SWP gives back the frame of swap, *)
(* if its number has no more than 21 bits.  (OnSwap of Paging)              *)
THEOREM SwapEntry ==
  ASSUME NEW pte \in Bits!Entry, NEW swpoff \in Bits!Number(21)
  PROVE  LET new == Bits!pte_set_swap(pte, Bits!TypeZero, swpoff)
         IN /\ new \in Bits!Entry
            /\ Bits!PRESENT \notin new /\ Bits!SWAPPED \in new
            /\ Bits!PAGING_SWP(new) = swpoff
<1> DEFINE flags == Bits!SETBIT(Bits!CLRBIT(pte, Bits!PRESENT), Bits!SWAPPED)
           typed == Bits!SETVAL(flags, Bits!TypeZero, 0, 4)
           new == Bits!pte_set_swap(pte, Bits!TypeZero, swpoff)
<1>1. new \in Bits!Entry
  <2>1. Bits!CLRBIT(pte, Bits!PRESENT) \in Bits!Entry
    BY FlagsAreEntry DEF Bits!PRESENT
  <2>2. flags \in Bits!Entry
    BY <2>1, FlagsAreEntry DEF Bits!SWAPPED
  <2>3. typed \in Bits!Entry
    BY <2>2, SetIsEntry
  <2> QED
    BY <2>3, SetIsEntry DEF Bits!pte_set_swap
<1>2. Bits!PRESENT \notin new /\ Bits!SWAPPED \in new
  BY DEF Bits!pte_set_swap, Bits!SETVAL, Bits!SETBIT, Bits!CLRBIT,
         Bits!PRESENT, Bits!SWAPPED
<1>3. Bits!PAGING_SWP(new) = swpoff
  <2>1. swpoff \in Bits!Number(25 - 5 + 1)
    OBVIOUS
  <2> HIDE DEF typed
  <2>2. Bits!GETVAL(Bits!SETVAL(typed, swpoff, 5, 25), 5, 25) = swpoff
    BY <2>1, SetThenGet
  <2> QED
    BY <2>2 DEF Bits!PAGING_SWP, Bits!pte_set_swap, typed
<1> QED
  BY <1>1, <1>2, <1>3

(* The frame number that pg_getpage takes from the entry of a page in swap *)
(* (the entry as it was before the page came in) is made of the low 8 bits *)
(* of the swap frame, moved up by 5: (n % 256) * 32, as Paging has it.     *)
THEOREM StaleFrameNumber ==
  ASSUME NEW pte \in Bits!Entry, NEW swpoff \in Bits!Number(21)
  PROVE  Bits!PAGING_FPN(Bits!pte_set_swap(pte, Bits!TypeZero, swpoff))
           = {bit \in 5 .. 12 : bit - 5 \in swpoff}
  BY DEF Bits!PAGING_FPN, Bits!GETVAL, Bits!pte_set_swap, Bits!SETVAL,
         Bits!TypeZero
=============================================================================
