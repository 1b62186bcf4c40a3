----------------------------- MODULE PageTable -----------------------------
(***************************************************************************)
(* The bits of a page table entry (include/mm.h, and pte_set_fpn and       *)
(* pte_set_swap of src/mm.c), for which the entries of Paging stand.       *)
(*                                                                         *)
(* A number is the set of the places of its 1 bits.  Bit 31 of an entry is *)
(* PRESENT and bit 30 is SWAPPED.  A page in RAM has its frame in bits 0   *)
(* to 12; one in swap has the type of swap in bits 0 to 4 and its frame in *)
(* bits 5 to 25.                                                           *)
(***************************************************************************)
EXTENDS Integers

Number(width) == SUBSET (0 .. width - 1)
Entry == Number(32)                  \* uint32_t

SETBIT(v, bit) == v \cup {bit}
CLRBIT(v, bit) == v \ {bit}

(* The bits low to high, of the value and as a value.                      *)
SETVAL(v, value, low, high) ==
  (v \ (low .. high)) \cup {bit \in low .. high : bit - low \in value}
GETVAL(v, low, high) == {bit \in 0 .. high - low : bit + low \in v}

PRESENT == 31
SWAPPED == 30
PAGING_FPN(pte) == GETVAL(pte, 0, 12)
PAGING_SWP(pte) == GETVAL(pte, 5, 25)

pte_set_fpn(pte, fpn) ==
  SETVAL(CLRBIT(SETBIT(pte, PRESENT), SWAPPED), fpn, 0, 12)
pte_set_swap(pte, swptyp, swpoff) ==
  SETVAL(SETVAL(SETBIT(CLRBIT(pte, PRESENT), SWAPPED), swptyp, 0, 4),
         swpoff, 5, 25)

(* The only type of swap that pg_getpage and vmap_page_range use is 0.     *)
TypeZero == {}
=============================================================================
