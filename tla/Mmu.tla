-------------------------------- MODULE Mmu --------------------------------
(***************************************************************************)
(* The first-level translation of the ARM926 of the STMP3770 as mmu.c uses *)
(* it.  The hardware page table has no memory behind it: a megabyte segment *)
(* is translated only while one of the movable entries MPTE1..MPTE7 is     *)
(* parked on it.  MPTE_Table remembers the descriptor of every segment that *)
(* SetL1PTE registered, so that an entry can be parked again later.         *)
(*                                                                         *)
(* An mpte record holds the registers and the cursor:                       *)
(*    loc   [1 .. NumSlots -> Segments]   HW_DIGCTL_MPTEn_LOC               *)
(*    ptr   1 .. NumSlots                 HW_MPTE_Ptr                       *)
(* Second-level tables are ordinary memory and are never lost: they are the *)
(* caller's l2, a function from pages to descriptors.  Each of the three    *)
(* entry points below ends with mmu_invalidate_tlb, so no translation       *)
(* outlives the tables.                                                     *)
(***************************************************************************)
EXTENDS Integers, Sequences

CONSTANTS NumSlots,      \* movable entries; 7 in the hardware
          SegOrder,      \* the segments in the order mmu_init registers them
          NumPaged       \* the first of them, VM_ROM and VM_RAM, are paged

Segments == {SegOrder[i] : i \in 1 .. Len(SegOrder)}    \* MPTE_Table[i].seg

ASSUME MmuAssumption ==
    /\ NumSlots \in Nat \ {0}
    /\ SegOrder \in Seq(Segments)
    /\ Len(SegOrder) >= NumSlots
    /\ NumPaged \in 0 .. Len(SegOrder)
    /\ \A i, j \in 1 .. Len(SegOrder) : SegOrder[i] = SegOrder[j] => i = j

Slots == 1 .. NumSlots

\* Mutant of NextSlot: the cursor never moves.
SameSlot(k) == k

\* INC_HW_MPTE_Ptr: round robin over the movable entries
NextSlot(k) == IF k = NumSlots THEN 1 ELSE k + 1

\* Some movable entry is parked on the segment.
Hosted(m, seg) == \E k \in Slots : m.loc[k] = seg

\* SetMPTELoc(HW_MPTE_Ptr, seg) and INC_HW_MPTE_Ptr
Park(m, seg) == [loc |-> [m.loc EXCEPT ![m.ptr] = seg], ptr |-> NextSlot(m.ptr)]

\* Mutant of Host: the segment is parked without looking it up first.
AlwaysPark(m, seg) == IF seg \in Segments THEN Park(m, seg) ELSE m

(***************************************************************************)
(* The lookup that opens mmu_map_page and mmu_unmap_page: a registered     *)
(* segment that no entry hosts takes the entry under the cursor.           *)
(***************************************************************************)
Host(m, seg) == IF ~Hosted(m, seg) /\ seg \in Segments THEN Park(m, seg) ELSE m

\* reload_DFLPT_seg: 1 hosted already, 2 parked by this call, 0 unknown.
ReloadResult(m, seg) ==
    CASE Hosted(m, seg) -> 1
      [] ~Hosted(m, seg) /\ seg \in Segments -> 2
      [] ~Hosted(m, seg) /\ seg \notin Segments -> 0

(***************************************************************************)
(* mmu_init registers the segments one by one, each SetL1PTE parking the   *)
(* next entry: slot k ends on the last segment of its residue class.       *)
(***************************************************************************)
Registered ==
    LET n == Len(SegOrder)
        Visits(k) == {i \in 1 .. n : (i - 1) % NumSlots = k - 1}
        Last(S) == CHOOSE i \in S : \A j \in S : j <= i
    IN  [loc |-> [k \in Slots |-> SegOrder[Last(Visits(k))]],
         ptr |-> (n % NumSlots) + 1]

(***************************************************************************)
(* Then vmMgr_ReleaseAllPage unmaps every page of VM_ROM and VM_RAM, in    *)
(* ascending order, and each segment takes an entry unless it has one.     *)
(***************************************************************************)
InitMpte ==
    LET after[k \in 0 .. NumPaged] ==
            IF k = 0 THEN Registered ELSE Host(after[k - 1], SegOrder[k])
    IN  after[NumPaged]
=============================================================================
