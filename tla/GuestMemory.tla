---------------------------- MODULE GuestMemory ----------------------------
(***************************************************************************)
(* What the virtual memory promises its guest: a flat memory.  A load of a *)
(* RAM page the guest has written returns what was stored there last, a    *)
(* load of a ROM page returns that page of the system image, and a buffer  *)
(* that waits to be displayed is not overwritten.  A RAM page the guest    *)
(* never wrote has no defined content: no load from it may be relied on,   *)
(* and its content may be fixed at any moment (Settle).  When the storage  *)
(* refuses a call for some pages, these and the pages that share a sector  *)
(* with them lose their content (Refuse), and no others do.  VmPager       *)
(* implements this module.                                                 *)
(***************************************************************************)
CONSTANTS RomPages, RamPages,   \* the pages of the two partition maps
          SwapPages, SectorOf,  \* the RAM pages kept on flash, and their sectors
          Vals,                 \* contents of a RAM page
          Undef                 \* content that is not defined; no page

VARIABLES mem,    \* content of every page
          shown,  \* the page that waits to be displayed
          obs     \* the access just completed or the pages just refused

Pages == RomPages \cup RamPages
Holds(p) == IF p \in RomPages THEN {p} ELSE Vals
Memories == {m \in [Pages -> RomPages \cup Vals \cup {Undef}] :
                \A p \in Pages : m[p] \in Holds(p) \cup {Undef}}

Access(op, p, v) == [op |-> op, page |-> p, val |-> v]
NoAccess == Access("none", Undef, Undef)

Init ==
    /\ mem = [p \in Pages |-> IF p \in RomPages THEN p ELSE Undef]
    /\ shown = Undef
    /\ obs = NoAccess

\* A load of the page that is shown may be the display's.
Load(p) ==
    /\ \E v \in Holds(p) \cup {Undef} :
          /\ obs' = Access("load", p, v)
          /\ mem[p] \in {Undef, v}
    /\ \/ UNCHANGED shown
       \/ shown = p /\ shown' = Undef
    /\ UNCHANGED mem

Store(p, v) ==
    /\ obs' = Access("store", p, v)
    /\ p # shown
    /\ mem' = [mem EXCEPT ![p] = v]
    /\ UNCHANGED shown

Settle ==
    /\ UNCHANGED <<shown, obs>>
    /\ mem' \in Memories
    /\ \A p \in Pages : mem'[p] # mem[p] => mem[p] = Undef

Near(refused) ==
    refused \cup {p \in SwapPages :
                     \E q \in refused \cap SwapPages : SectorOf[p] = SectorOf[q]}

Refuse(refused) ==
    /\ obs' = Access("refused", refused, Undef)
    /\ mem' \in Memories
    /\ \A p \in Pages :
          mem'[p] # mem[p] => mem[p] = Undef \/ (p \in Near(refused) /\ mem'[p] = Undef)
    /\ UNCHANGED shown

Show(p) ==
    /\ shown = Undef
    /\ shown' = p
    /\ obs' = NoAccess
    /\ UNCHANGED mem

\* The display task is gone.
Hide ==
    /\ shown' = Undef
    /\ UNCHANGED <<mem, obs>>

Forget ==
    /\ obs' = NoAccess
    /\ UNCHANGED <<mem, shown>>

Next ==
    \/ Hide \/ Forget
    \/ \E p \in Pages : Load(p) \/ Show(p)
    \/ \E p \in RamPages, v \in Vals : Store(p, v)
    \/ Settle
    \/ \E refused \in SUBSET Pages : Refuse(refused)

Spec == Init /\ [][Next]_<<mem, shown, obs>>
=============================================================================
