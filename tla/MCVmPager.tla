----------------------------- MODULE MCVmPager -----------------------------
(***************************************************************************)
(* VmPager on small machines.  The pages r*, z*, s* are ROM, ZRAM and swap *)
(* pages; bad lies in the segment of the unused VM_SYS_ROM.  The two swap  *)
(* pages share a sector.  How many frames, segments and movable entries    *)
(* compete is chosen in the configurations.                                *)
(***************************************************************************)
EXTENDS VmPager, TLC

CONSTANTS r1, r2, r3, z1, z2, s1, s2, bad,     \* pages
          RomA, Ram, RamB, SysRom,           \* segments
          fr1, fr2, fa1, fa2, fa3, sector

MCSegOf == [p \in {r1, r2, r3, z1, z2, s1, s2, bad} |->
               CASE p \in {r1, r2, r3} -> RomA
                 [] p \in {z1, s1, s2} -> Ram
                 [] p = z2 -> RamB
                 [] p = bad -> SysRom]

\* All of VM_RAM in one segment (pager_caches).
OneRamSegment == [MCSegOf EXCEPT ![z2] = Ram]

MCSectorOf == [p \in {s1, s2} |-> sector]

\* Pages that differ in nothing but their name (pager_caches only).
Alike == Permutations({r2, r3}) \cup Permutations({z1, z2})
             \cup Permutations({s1, s2})

FourSegments == <<RomA, Ram, RamB, SysRom>>
RomFrames2 == <<fr1, fr2>>
RamFrames2 == <<fa1, fa2>>
RamFrames3 == <<fa1, fa2, fa3>>
=============================================================================
