------------------------------ MODULE VmPager ------------------------------
(***************************************************************************)
(* Demand paging of the guest (vmMgr.c, mmu.c, the abort handlers of       *)
(* vectors.c).  Two page caches share the movable first-level entries: the *)
(* VROM cache over the system image in raw flash, replaced in FIFO order,  *)
(* and the VRAM cache, whose dirty pages are saved on eviction, compressed *)
(* into ZRAM or into a sector of the flash translation layer.              *)
(*                                                                         *)
(* Two tasks touch guest memory: "system", the guest with the LLAPI task   *)
(* that copies on its behalf while it is suspended, and "display", which   *)
(* reads the guest's buffer after the flush call has returned.  Both run    *)
(* below the "VM Svc" task, and VM Svc waits only for MTD and FTL, which   *)
(* keep every lower task off the processor (mtd_up.c polls mtd_opa_done).  *)
(* One fault is therefore served in one step, and no guest access falls    *)
(* between an abort and its service.  The display task never waits inside  *)
(* a flush and runs above the guest: a queued flush goes first.  Drawing   *)
(* the panic screen is the exception to all this: VM Svc then waits for    *)
(* the display queue, and the tasks below it run.                          *)
(*                                                                         *)
(* The storage layers may refuse a call (a bad block, a torn map).  VM Svc *)
(* looks at no answer of theirs: it goes on with what is in its buffer.    *)
(***************************************************************************)
EXTENDS Mmu, CacheList

CONSTANTS RomPages,         \* pages of MAP_PART_RAWFLASH, PERM_R
          ZramPages,        \* RAM pages with index below ZRAM_COMPRESSED_SIZE
          SwapPages,        \* the other RAM pages, kept in FTL sectors
          BadPages,         \* addresses in no partition map
          CodePages,        \* pages the guest executes from
          FlushPages,       \* pages that hold the buffers the guest displays
          SegOf,            \* the megabyte segment of a page: vaddr >> 20
          SectorOf,         \* the FTL sector of a swap page
          RomOrder,         \* the VROM frames, in array order
          RamOrder,         \* the VRAM frames, in array order
          Vals,             \* contents of a RAM page
          Zero,             \* the content of a cleared frame
          Undef,            \* content that is not defined
          ZramBlocks,       \* capacity of the ZRAM pool
          MaxBlocks,        \* blocks one compressed page can take
          FailOps           \* storage calls that may fail: "ROM", "READ", "WRITE"

RamPages == ZramPages \cup SwapPages
MappedPages == RomPages \cup RamPages
Pages == MappedPages \cup BadPages
RomFrames == {RomOrder[i] : i \in 1 .. Len(RomOrder)}
RamFrames == {RamOrder[i] : i \in 1 .. Len(RamOrder)}
Tasks == {"system", "display"}

Requests == [code : CodePages \cup {Null}, op : {"load", "store"}, page : Pages]
Faults == [task : Tasks, page : Pages, kind : {"PAB", "DAB", "WR"}]
Descriptors == [frame : RomFrames \cup RamFrames, ap : {"RO", "RW"}]

ASSUME PagerAssumption ==
    /\ RomOrder \in Seq(RomFrames) /\ Len(RomOrder) > 1
    /\ RamOrder \in Seq(RamFrames) /\ Len(RamOrder) > 1
    /\ \A i, j \in 1 .. Len(RomOrder) : RomOrder[i] = RomOrder[j] => i = j
    /\ \A i, j \in 1 .. Len(RamOrder) : RamOrder[i] = RamOrder[j] => i = j
    /\ RomFrames \cap RamFrames = {}
    /\ Null \notin Pages \cup RomFrames \cup RamFrames
    /\ Null \notin Faults /\ Null \notin Descriptors
    /\ RomPages \cap RamPages = {} /\ MappedPages \cap BadPages = {}
    /\ ZramPages \cap SwapPages = {}
    /\ CodePages \cup FlushPages \subseteq MappedPages
    /\ \A p \in MappedPages : SegOf[p] \in Segments
    /\ Zero \in Vals /\ Null \notin Vals /\ Undef \notin Vals \cup MappedPages
    /\ MaxBlocks \in Nat /\ ZramBlocks \in Nat
    /\ FailOps \subseteq {"ROM", "READ", "WRITE"}

VARIABLES
    mpte,      \* the movable first-level entries (Mmu)
    l2,        \* second-level descriptor of every page
    romList, romTo, romData,   \* VROM cache: list, mapToVirtAddr, content
    ramList, ramTo,            \* VRAM cache: list, mapToVirtAddr
    dirty, data,               \* VRAM cache: dirty flag, content
    zram,      \* ZRAMAddress_Tab: the content saved for a page, or Null
    zsize,     \* blocks allocated for that page
    zused,     \* blocks allocated in the pool
    swap,      \* content of the swap pages on flash
    swapOn,    \* mem_swap_enable
    req,       \* the access each task is attempting, or Null
    status,    \* "ready", "faulted" (aborted or suspended), "lost"
    fault,     \* the entry of PageFaultQueue, or Null
    svc,       \* "run", "drawing" (blocked in VM_Unconscious)
    touched,   \* ghost: RAM pages that have been writable, and since then no
               \*        failed call of the storage layers has spoilt them
    obs        \* ghost: the access just completed, until the next is issued, or
               \*        the pages a storage call has just failed for

tables == <<mpte, l2>>
romVars == <<romList, romTo, romData>>
ramVars == <<ramList, ramTo, dirty, data>>
backing == <<zram, zsize, zused, swap>>
tasks == <<req, status, fault, svc>>
vars == <<mpte, l2, romList, romTo, romData, ramList, ramTo, dirty, data, zram,
          zsize, zused, swap, swapOn, req, status, fault, svc, touched, obs>>

Access(op, p, v) == [op |-> op, page |-> p, val |-> v]
NoAccess == Access("none", Undef, Undef)
Refusal(refused) == Access("refused", refused, Undef)

(***************************************************************************)
(* An instruction needs the page it is fetched from and the page of its    *)
(* operand.  The display task's own code lies outside the guest's memory.  *)
(***************************************************************************)
Request(code, op, p) == [code |-> code, op |-> op, page |-> p]

Present(p) == Hosted(mpte, SegOf[p]) /\ l2[p] # Null

\* What the hardware raises for the access, if anything.
Faulting(r) ==
    CASE r.code # Null /\ ~Present(r.code) -> <<r.code, "PAB">>
      [] (r.code = Null \/ Present(r.code)) /\ ~Present(r.page) -> <<r.page, "DAB">>
      [] (r.code = Null \/ Present(r.code)) /\ Present(r.page)
            /\ r.op = "store" /\ l2[r.page].ap = "RO" -> <<r.page, "WR">>
      [] OTHER -> <<>>

-----------------------------------------------------------------------------
(* The guest and the display task *)

\* Mutant of Runs: a task may run while another one's fault is queued.
RunsAnyway(t) == status[t] = "ready"

\* The scheduler lets the task use the processor.
Runs(t) ==
    /\ status[t] = "ready"
    /\ fault = Null
    /\ t = "system" => req["display"] = Null \/ status["display"] # "ready"

\* The guest starts an instruction.
Issue(code, op, p) ==
    /\ req["system"] = Null /\ Runs("system")
    /\ req' = [req EXCEPT !["system"] = Request(code, op, p)]
    /\ obs' = NoAccess
    /\ UNCHANGED <<tables, romVars, ramVars, backing, swapOn, status, fault, svc,
                   touched>>

(***************************************************************************)
(* LL_SWI_DISPLAY_FLUSH: LLAPI queues the flush without waiting for it and *)
(* resumes the guest.  The model keeps one queued flush.                   *)
(***************************************************************************)
DisplayFlush(p) ==
    /\ req["system"] = Null /\ Runs("system")
    /\ svc = "run" /\ req["display"] = Null
    /\ req' = [req EXCEPT !["display"] = Request(Null, "load", p)]
    /\ obs' = NoAccess
    /\ UNCHANGED <<tables, romVars, ramVars, backing, swapOn, status, fault, svc,
                   touched>>

\* The access completes: every page it needs is mapped.
Complete(t) ==
    /\ req[t] # Null /\ Runs(t)
    /\ Faulting(req[t]) = <<>>
    /\ LET r == req[t]
           f == l2[r.page].frame
       IN  IF r.op = "store"
           THEN \E v \in Vals :
                   /\ data' = [data EXCEPT ![f] = v]
                   /\ obs' = Access("store", r.page, v)
           ELSE /\ obs' = Access("load", r.page,
                                 IF r.page \in RomPages THEN romData[f] ELSE data[f])
                /\ UNCHANGED data
    /\ req' = [req EXCEPT ![t] = Null]
    /\ UNCHANGED <<tables, romVars, ramList, ramTo, dirty, backing, swapOn,
                   status, fault, svc, touched>>

\* arm_do_dab, arm_do_pab: queue the fault and give the processor up.
RaiseFault(t) ==
    /\ req[t] # Null /\ Runs(t)
    /\ Faulting(req[t]) # <<>>
    /\ fault' = [task |-> t, page |-> Faulting(req[t])[1], kind |-> Faulting(req[t])[2]]
    /\ status' = [status EXCEPT ![t] = "faulted"]
    /\ UNCHANGED <<tables, romVars, ramVars, backing, swapOn, req, svc, touched, obs>>

\* LL_FAST_SWI_MEM_ENABLE_SWAP, from enableMemSwap of the guest
EnableSwap(on) ==
    /\ req["system"] = Null /\ Runs("system")
    /\ swapOn # on
    /\ swapOn' = on
    /\ obs' = NoAccess
    /\ UNCHANGED <<tables, romVars, ramVars, backing, tasks, touched>>

-----------------------------------------------------------------------------
(* vmMgr_task *)

Receive == svc = "run" /\ fault # Null

\* vTaskResume of the faulting task
Resume ==
    /\ status' = [status EXCEPT ![fault.task] = "ready"]
    /\ fault' = Null
    /\ UNCHANGED <<req, svc>>

\* taskAccessFaultAddr and VM_Unconscious: the task stays suspended.
VM_Unconscious ==
    /\ status' = [status EXCEPT ![fault.task] = "lost"]
    /\ fault' = Null
    /\ svc' = "drawing"
    /\ UNCHANGED req

\* The segment had only lost its movable entry.
ReloadSegment ==
    /\ Receive
    /\ ReloadResult(mpte, SegOf[fault.page]) = 2
    /\ mpte' = Park(mpte, SegOf[fault.page])
    /\ Resume
    /\ UNCHANGED <<l2, romVars, ramVars, backing, swapOn, touched, obs>>

Serve == Receive /\ ReloadResult(mpte, SegOf[fault.page]) # 2

InvalidAddress ==
    /\ Serve
    /\ fault.page \in BadPages
    /\ VM_Unconscious
    /\ UNCHANGED <<tables, romVars, ramVars, backing, swapOn, touched, obs>>

\* Mutants of Remap: the victim stays mapped; every page is mapped writable.
RemapKeepsOld(old, p, f, ap) ==
    /\ mpte' = Host(mpte, SegOf[p])
    /\ l2' = [l2 EXCEPT ![p] = [frame |-> f, ap |-> ap]]

RemapWritable(old, p, f, ap) ==
    LET m0 == IF old = Null THEN mpte ELSE Host(mpte, SegOf[old])
        l0 == IF old = Null THEN l2 ELSE [l2 EXCEPT ![old] = Null]
    IN  /\ mpte' = Host(m0, SegOf[p])
        /\ l2' = [l0 EXCEPT ![p] = [frame |-> f, ap |-> "RW"]]

\* mmu_unmap_page(old) unless the frame is free, then mmu_map_page(p, f, ap)
Remap(old, p, f, ap) ==
    LET m0 == IF old = Null THEN mpte ELSE Host(mpte, SegOf[old])
        l0 == IF old = Null THEN l2 ELSE [l2 EXCEPT ![old] = Null]
    IN  /\ mpte' = Host(m0, SegOf[p])
        /\ l2' = [l0 EXCEPT ![p] = [frame |-> f, ap |-> ap]]

\* Whether a call of the storage layers is carried out.
Outcomes(op) == IF op \in FailOps THEN BOOLEAN ELSE {TRUE}

\* Nothing but the ghost takes note of the pages a call has failed for.
NoteRefusal(refused) ==
    \/ refused = {} /\ UNCHANGED obs
    \/ refused # {} /\ obs' = Refusal(refused)

\* FSR_DATA_ACCESS_UNMAP_*, MAP_PART_RAWFLASH.  After a failed MTD_ReadPhyPage
\* the frame is mapped with whatever it holds.
LoadRomPage ==
    /\ Serve
    /\ fault.kind \in {"PAB", "DAB"} /\ fault.page \in RomPages
    /\ LET cur == romList.head
       IN  /\ romList' = GetPageAndMoveToTail(romList)
           /\ romTo' = [romTo EXCEPT ![cur] = fault.page]
           /\ \E read \in Outcomes("ROM") :
                 /\ romData' = [romData EXCEPT ![cur] = IF read THEN fault.page ELSE Undef]
                 /\ NoteRefusal(IF read THEN {} ELSE {fault.page})
           /\ Remap(romTo[cur], fault.page, cur, "RO")
    /\ Resume
    /\ UNCHANGED <<ramVars, backing, swapOn, touched>>

-----------------------------------------------------------------------------
(* save_cache_page *)

\* tlsf_realloc: the old block is kept until the new one is there.
SaveToZram(f) ==
    LET q == ramTo[f]
    IN  \E sz \in 1 .. MaxBlocks :
           /\ zused - zsize[q] + sz <= ZramBlocks
           /\ zram' = [zram EXCEPT ![q] = data[f]]
           /\ zsize' = [zsize EXCEPT ![q] = sz]
           /\ zused' = zused - zsize[q] + sz
           /\ UNCHANGED swap

\* No block: the table entry is overwritten with NULL and the old block leaks.
ZramOutOfMemory(f) ==
    LET q == ramTo[f]
    IN  \E sz \in 1 .. MaxBlocks :
           /\ zused + sz > ZramBlocks
           /\ zram' = [zram EXCEPT ![q] = Null]
           /\ zsize' = [zsize EXCEPT ![q] = 0]
           /\ UNCHANGED <<zused, swap>>

SectorPages(p) == {q \in SwapPages : SectorOf[q] = SectorOf[p]}

\* Mutant of SaveToSwap: the sector is written without having been read.
SaveWholeSector(f, read, written) ==
    /\ swap' = [p \in SwapPages |->
                   IF written /\ p \in SectorPages(ramTo[f]) THEN data[f] ELSE swap[p]]
    /\ UNCHANGED <<zram, zsize, zused>>

(***************************************************************************)
(* Read the sector into compress_buffer, replace the page's half, write    *)
(* the sector back.  After a failed read the other half is whatever the    *)
(* buffer held; a failed write leaves the sector as it was.                *)
(***************************************************************************)
SaveToSwap(f, read, written) ==
    LET q == ramTo[f]
    IN  /\ \E buffer \in [SectorPages(q) -> Vals] :
              /\ buffer[q] = data[f]
              /\ read => \A p \in SectorPages(q) \ {q} : buffer[p] = swap[p]
              /\ swap' = [p \in SwapPages |->
                             IF written /\ p \in SectorPages(q) THEN buffer[p]
                             ELSE swap[p]]
        /\ UNCHANGED <<zram, zsize, zused>>

SaveSucceeds(f, read, written) ==
    \/ ~dirty[f] /\ UNCHANGED backing
    \/ dirty[f] /\ ramTo[f] \in ZramPages /\ SaveToZram(f)
    \/ dirty[f] /\ ramTo[f] \in SwapPages /\ swapOn /\ SaveToSwap(f, read, written)

SaveFails(f) ==
    \/ dirty[f] /\ ramTo[f] \in ZramPages /\ ZramOutOfMemory(f)
    \/ dirty[f] /\ ramTo[f] \in SwapPages /\ ~swapOn /\ UNCHANGED backing

\* Mutants of Loaded: a ZRAM page is loaded whether it was saved or not; a
\* swap page is always taken from the same half of its sector.
LoadedUnchecked(p, f, read) ==
    CASE p \in ZramPages -> {zram'[p]}
      [] p \in SwapPages /\ swapOn -> IF read THEN {swap'[p]} ELSE Vals
      [] OTHER -> {data[f]}

LoadedFromOneHalf(p, f, read) ==
    CASE p \in ZramPages /\ zram'[p] # Null -> {zram'[p]}
      [] p \in SwapPages /\ swapOn ->
            IF read THEN {swap'[CHOOSE q \in SectorPages(p) : TRUE]} ELSE Vals
      [] OTHER -> {data[f]}

(***************************************************************************)
(* The content the frame gets.  A ZRAM page that was never saved, and any  *)
(* swap page while swapping is off, keeps what the frame held before; a    *)
(* failed read leaves anything in compress_buffer.                         *)
(***************************************************************************)
Loaded(p, f, read) ==
    CASE p \in ZramPages /\ zram'[p] # Null -> {zram'[p]}
      [] p \in SwapPages /\ swapOn -> IF read THEN {swap'[p]} ELSE Vals
      [] OTHER -> {data[f]}

(***************************************************************************)
(* Ghost: the pages whose save or load fails although the service goes on, *)
(* and those that are spoilt by it.  A failed write loses the page that is *)
(* saved; a failed read before a write that succeeds loses what the sector *)
(* holds for its other pages, which a dirty frame alone survives.          *)
(***************************************************************************)
ToSwap(f) == dirty[f] /\ ramTo[f] \in SwapPages
UnsavedPage(f, read, written) ==
    {q \in SwapPages : q = ramTo[f] /\ ToSwap(f) /\ ~(read /\ written)}
UnloadedPage(p, read) == {q \in SwapPages : q = p /\ ~(swapOn /\ read)}

SpoiltBySave(f, read, written) ==
    {q \in SwapPages :
        /\ ToSwap(f) /\ q \in SectorPages(ramTo[f])
        /\ IF q = ramTo[f] THEN ~written
           ELSE written /\ ~read /\ (l2[q] # Null => ~dirty[l2[q].frame])}

\* FSR_DATA_ACCESS_UNMAP_*, MAP_PART_FTL
LoadRamPage ==
    /\ Serve
    /\ fault.kind \in {"PAB", "DAB"} /\ fault.page \in RamPages
    /\ LET cur == ramList.head
           p   == fault.page
       IN  \E read, loaded \in Outcomes("READ"), written \in Outcomes("WRITE") :
           /\ ramList' = GetPageAndMoveToTail(ramList)
           /\ SaveSucceeds(cur, read, written)
           /\ ramTo' = [ramTo EXCEPT ![cur] = p]
           /\ dirty' = [dirty EXCEPT ![cur] = FALSE]
           /\ \E v \in Loaded(p, cur, loaded) : data' = [data EXCEPT ![cur] = v]
           /\ Remap(ramTo[cur], p, cur, "RO")
           /\ touched' = touched \ (SpoiltBySave(cur, read, written)
                                       \cup UnloadedPage(p, loaded))
           /\ NoteRefusal(UnsavedPage(cur, read, written) \cup UnloadedPage(p, loaded))
    /\ Resume
    /\ UNCHANGED <<romVars, swapOn>>

\* The victim could not be saved: FSR_ZRAM_OOM, FSR_SWAP_NOTENABLE.
EvictionFails ==
    /\ Serve
    /\ fault.kind \in {"PAB", "DAB"} /\ fault.page \in RamPages
    /\ ramList' = GetPageAndMoveToTail(ramList)
    /\ SaveFails(ramList.head)
    /\ VM_Unconscious
    /\ UNCHANGED <<tables, romVars, ramTo, dirty, data, swapOn, touched, obs>>

-----------------------------------------------------------------------------
(* FSR_DATA_WR_RDONLY: the first store to a page since it was loaded. *)

GrantWrite ==
    /\ Serve
    /\ fault.kind = "WR" /\ fault.page \in RamPages
    /\ LET p == fault.page
           f == SearchByVaddr(ramList, RamFrames, ramTo, p)
       IN  IF f # Null
           THEN /\ dirty' = [dirty EXCEPT ![f] = TRUE]
                /\ ramList' = MoveToTail(ramList, f)
                /\ Remap(p, p, f, "RW")
                /\ touched' = touched \cup {p}
                /\ Resume
           ELSE \* "search_vram_cache_page_by_vaddr failed": never resumed
                /\ status' = [status EXCEPT ![fault.task] = "lost"]
                /\ fault' = Null
                /\ UNCHANGED <<dirty, ramList, tables, touched, req, svc>>
    /\ UNCHANGED <<romVars, ramTo, data, backing, swapOn, obs>>

WriteToRom ==
    /\ Serve
    /\ fault.kind = "WR" /\ fault.page \in RomPages
    /\ VM_Unconscious
    /\ UNCHANGED <<tables, romVars, ramVars, backing, swapOn, touched, obs>>

-----------------------------------------------------------------------------
(***************************************************************************)
(* The display queue is first in, first out: the panic screen is drawn     *)
(* once the display task has finished the flush queued before it.          *)
(***************************************************************************)
DrawPanicScreen ==
    /\ svc = "drawing"
    /\ req["display"] = Null /\ status["display"] = "ready"
    /\ svc' = "run"
    /\ UNCHANGED <<tables, romVars, ramVars, backing, swapOn, req, status, fault,
                   touched, obs>>

\* A guest that has crashed is not restarted.
Stopped ==
    /\ status["system"] = "lost" \/ svc = "drawing"
    /\ UNCHANGED vars

PageFaultService ==
    \/ ReloadSegment \/ InvalidAddress \/ LoadRomPage \/ LoadRamPage
    \/ EvictionFails \/ GrantWrite \/ WriteToRom

Next ==
    \/ \E code \in CodePages, op \in {"load", "store"}, p \in Pages : Issue(code, op, p)
    \/ \E p \in FlushPages : DisplayFlush(p)
    \/ \E t \in Tasks : Complete(t) \/ RaiseFault(t)
    \/ \E on \in BOOLEAN : EnableSwap(on)
    \/ ReloadSegment \/ InvalidAddress \/ LoadRomPage \/ LoadRamPage
    \/ EvictionFails \/ GrantWrite \/ WriteToRom
    \/ DrawPanicScreen
    \/ Stopped

(***************************************************************************)
(* vmMgr_init: both caches empty and nothing mapped.  The swap area of the *)
(* flash holds whatever an earlier run left there.                         *)
(***************************************************************************)
Init ==
    /\ mpte = InitMpte
    /\ l2 = [p \in Pages |-> Null]
    /\ romList = ReleaseAll(RomOrder)
    /\ romTo = [f \in RomFrames |-> Null]
    /\ romData = [f \in RomFrames |-> Undef]
    /\ ramList = ReleaseAll(RamOrder)
    /\ ramTo = [f \in RamFrames |-> Null]
    /\ dirty = [f \in RamFrames |-> FALSE]
    /\ data = [f \in RamFrames |-> Zero]
    /\ zram = [p \in ZramPages |-> Null]
    /\ zsize = [p \in ZramPages |-> 0]
    /\ zused = 0
    /\ swap \in [SwapPages -> Vals]
    /\ swapOn = FALSE
    /\ req = [t \in Tasks |-> Null]
    /\ status = [t \in Tasks |-> "ready"]
    /\ fault = Null
    /\ svc = "run"
    /\ touched = {}
    /\ obs = NoAccess

Spec == Init /\ [][Next]_vars

(***************************************************************************)
(* The scheduler is preemptive with fixed priorities and every task above  *)
(* VM Svc blocks again: VM Svc comes first, then the display task, then    *)
(* the guest, and the processor is not left idle while one of them has     *)
(* work.                                                                   *)
(***************************************************************************)
Work == PageFaultService \/ \E t \in Tasks : Complete(t) \/ RaiseFault(t)
Fairness == WF_vars(Work)

FairSpec == Spec /\ Fairness
-----------------------------------------------------------------------------
(* Properties *)

\* The type of every variable.
TypeOK ==
    /\ mpte \in [loc : [Slots -> Segments], ptr : Slots]
    /\ l2 \in [Pages -> Descriptors \cup {Null}]
    /\ romList \in ListType(RomFrames) /\ romTo \in [RomFrames -> RomPages \cup {Null}]
    /\ romData \in [RomFrames -> RomPages \cup {Undef}]
    /\ ramList \in ListType(RamFrames) /\ ramTo \in [RamFrames -> RamPages \cup {Null}]
    /\ dirty \in [RamFrames -> BOOLEAN] /\ data \in [RamFrames -> Vals]
    /\ zram \in [ZramPages -> Vals \cup {Null}] /\ swap \in [SwapPages -> Vals]
    /\ zsize \in [ZramPages -> 0 .. MaxBlocks] /\ zused \in Int
    /\ swapOn \in BOOLEAN
    /\ req \in [Tasks -> Requests \cup {Null}]
    /\ status \in [Tasks -> {"ready", "faulted", "lost"}]
    /\ fault \in Faults \cup {Null}
    /\ svc \in {"run", "drawing"}
    /\ touched \subseteq RamPages

(***************************************************************************)
(* The second-level tables and mapToVirtAddr agree, so a page is in one    *)
(* frame at most and no frame is visible at two addresses: vmMgr_task never *)
(* asks whether the page it loads is already cached.                       *)
(***************************************************************************)
Coherent(to) ==
    \A f \in DOMAIN to, p \in Pages :
        to[f] = p <=> l2[p] # Null /\ l2[p].frame = f
CacheCoherent == Coherent(romTo) /\ Coherent(ramTo)

(***************************************************************************)
(* A VRAM page is writable exactly while its frame is marked dirty: a      *)
(* store can never slip past the flag that save_cache_page looks at.       *)
(***************************************************************************)
DirtyIffWritable ==
    \A p \in RamPages :
        l2[p] # Null => (dirty[l2[p].frame] <=> l2[p].ap = "RW")

\* Where save_cache_page put the page.
Saved(p) == IF p \in ZramPages THEN zram[p] ELSE swap[p]

(***************************************************************************)
(* A clean frame holding a page the guest has written may be dropped: its  *)
(* content is what was saved.  This spans the eviction of the page, the    *)
(* shared sector of its neighbour, its reload, and swapping being switched *)
(* off and on, until a call fails for the page or its neighbour.           *)
(***************************************************************************)
CleanIsSaved ==
    \A p \in touched :
        l2[p] # Null /\ ~dirty[l2[p].frame] => data[l2[p].frame] = Saved(p)

(***************************************************************************)
(* Both lists hold every frame once, linked consistently in both           *)
(* directions, whatever sequence of rotations and moves built them.        *)
(***************************************************************************)
ListsInOrder ==
    /\ Ordered(romList, Len(RomOrder), RomFrames)
    /\ Ordered(ramList, Len(RamOrder), RamFrames)

(***************************************************************************)
(* move_vram_cache_page_to_tail mistakes a tail whose next is stale for a  *)
(* middle frame and would link it to itself.  It is never asked to: such a *)
(* frame is already writable, so no store to it faults.                    *)
(***************************************************************************)
StaleTailIsWritable ==
    ramList.next[ramList.tail] # Null => dirty[ramList.tail]

\* No two movable entries are parked on one segment.
SlotsDistinct == \A i, j \in Slots : mpte.loc[i] = mpte.loc[j] => i = j

(***************************************************************************)
(* When VM Svc takes a fault from the queue, what the abort handler saw    *)
(* still holds, and the faulting task is the only one that waits.          *)
(***************************************************************************)
FaultIsCurrent ==
    /\ fault # Null =>
          /\ fault.kind \in {"PAB", "DAB"} => ~Present(fault.page)
          /\ fault.kind = "WR" => Present(fault.page) /\ l2[fault.page].ap = "RO"
    /\ \A t \in Tasks : status[t] = "faulted" => fault # Null /\ fault.task = t

(***************************************************************************)
(* The flat memory behind the paging: a page the guest has made writable   *)
(* has the content of its frame, or what was saved for it, a ROM page that *)
(* of its frame, or of the flash.                                          *)
(***************************************************************************)
RomContent(p) == IF l2[p] # Null THEN romData[l2[p].frame] ELSE p

RamContent(p) ==
    IF p \notin touched THEN Undef
    ELSE IF l2[p] # Null THEN data[l2[p].frame] ELSE Saved(p)

Content(p) == IF p \in RomPages THEN RomContent(p) ELSE RamContent(p)

Contents == [p \in MappedPages |-> Content(p)]

\* The page of the flush that is queued.
Shown ==
    IF req["display"] = Null \/ status["display"] = "lost" THEN Undef
    ELSE req["display"].page

Flat == INSTANCE GuestMemory WITH mem <- Contents, shown <- Shown

\* Paging implements the flat memory the guest is promised.
ImplementsGuestMemory == Flat!Spec

(***************************************************************************)
(* Every access completes unless the guest crashes, so that again and      *)
(* again none is waiting: the pages and segments an instruction needs end  *)
(* up mapped together, however the faults of the two tasks steal frames    *)
(* and movable entries from each other.                                    *)
(***************************************************************************)
Waiting(t) == req[t] # Null /\ status[t] # "lost" /\ svc # "drawing"
AccessCompletes == []<>(\A t \in Tasks : ~Waiting(t))
=============================================================================
