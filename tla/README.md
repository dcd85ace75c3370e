# Verification of the ExistOS virtual memory and low-level services

ExistOS for the HP 39gII is two programs. `OSLoader` runs privileged on the
calculator's ARM926 (STMP3770) under FreeRTOS; it owns the hardware and runs
the second program, the guest ("System"), in user mode inside a demand-paged
virtual memory. The guest has its own FreeRTOS kernel, driven by virtual
interrupts that OSLoader injects, and calls OSLoader through `SWI`
instructions. This directory holds TLA+ models of OSLoader's own logic, the
TLC configurations that check them on small machines, and proofs that hold for
machines of any size.

The build that is modelled is the one `OSLoader/Config/SystemConfig.h` selects:
1 KB pages (`USE_TINY_PAGE`), separate VROM and VRAM caches
(`SEPARATE_VMM_CACHE`), RAM backed by the flash translation layer
(`VMRAM_USE_FTL`), the STMP3770 hardware page table (`USE_HARDWARE_DFLPT`),
MiniLZO compression.

## Inventory

| Component | State | Operations | Talks to |
|---|---|---|---|
| **VM pager** `OSLoader/VmMgr/vmMgr.c` | two doubly linked frame lists with `mapToVirtAddr`/`dirty`, `ZRAMAddress_Tab`, TLSF pool, `mem_swap_enable`, partition maps | `vmMgr_task` serves one fault after another: reload a segment, load a ROM page, load a RAM page (evict, compress or write to a sector), make a page writable; `taskAccessFaultAddr` | abort handlers (queue), MMU, MTD, FTL, `VM_Unconscious` |
| **MMU** `OSLoader/VmMgr/mmu.c` | movable entries MPTE1..7, `HW_MPTE_Ptr`, `MPTE_Table`, second-level tables | `mmu_init`, `mmu_map_page`, `mmu_unmap_page`, `reload_DFLPT_seg` | pager |
| **Trap handlers** `OSLoader/vectors.c` | `vm_temp_storage`, `g_vm_in_pagefault` | data and prefetch abort, undefined instruction, `SWI` (fast calls inline, the others queued) | pager, LLAPI |
| **LLAPI** `OSLoader/LowLevelAPI/llapi.c` | saved contexts of the guest, virtual IRQ enable and number, virtual vectors and stacks, IRQ queue | the service loop of the guest's calls, `LLIRQ_task` (injects interrupts), tick timer, serial notification | guest, display, FTL, pager flag |
| **System life cycle** `OSLoader/start.c` | `g_vm_status`, task handles | boot of the guest, suspend, crash screen, maintenance menu, CDC command protocol, battery and log tasks | everything |
| **MTD** `OSLoader/HAL/mtd_up.c`, `drivers/stmp_gpmi.c` | request queue, `mtd_opa_done`, retry counter | page read/write/erase/copy/meta, one at a time; DMA and ECC interrupts | GPMI hardware, FTL, pager |
| **FTL service** `OSLoader/HAL/FTL_up.c` | request queue, notifications, the map's handle | read, write, trim (queued); sync and clear (in the caller's task); Dhara's NAND callbacks | Dhara map, MTD, pager, MSC, LLAPI |
| **Dhara map** `OSLoader/Component3rd/dhara` | head, tail, last-synced tail, root, epoch and pending metadata of a journal on flash; count of sectors | read, write, trim, sync, clear, garbage collection, resume after a reset | NAND callbacks |
| **Display** `OSLoader/drivers/display` | operation queue of 4, line buffer | flush area, fill, characters, indication | LLAPI, System, crash screen, menu, LCD |
| **Keyboard** `OSLoader/drivers/input` | key matrix snapshot, scan flag | scan task, key events to the guest | LLAPI |
| **Audio** `OSLoader/drivers/stmp_audioout.c` | PCM double buffer | not built: `ENABLE_AUIDIOOUT` is undefined | guest |
| **USB storage** `OSLoader/msc_disk.c` | `g_MSC_Configuration` (which disk the host sees), transfer buffer, command and reply of the EDB disk | SCSI read, write, sync; host commands in sector 40, data in sectors 104 to 167 | FTL, life cycle, page cache |
| **CDC protocol** `OSLoader/start.c` | `binBuf`, check sum | PING, RESETDBUF, BUFCHK, PROGP, ERASEB, MKNCB, MSCDATA, REBOOT, clearall | life cycle, MTD, page cache, FTL |
| **Guest support** `System/core`, `System/utils/newlib_stub.c`, `System/drivers/SystemFs.c` | guest heap break, virtual interrupt handlers, ROM map list | `_sbrk`, `enableMemSwap`, `IRQ_ISR`, `SWI_ISR`, VROM loader, littlefs driver | LLAPI |

FreeRTOS (`OSLoader/Scheduler`, `System/kernel`), TinyUSB, littlefs, FatFs,
MiniLZO, QuickLZ, TLSF, the C and maths libraries, the Casio, HP 48 and Game Boy
emulators and the GUI applications are third-party or leave OSLoader's logic
alone; they are outside this project. Dhara is third-party too, but it decides
what OSLoader's storage promises after a reset, and OSLoader calls it from two
tasks; it is modelled.

What is hard here:

* one fault may need two more before its instruction completes, and each may
  take away what an earlier one brought in (frames, movable entries);
* LLAPI resumes the guest before the display task has read the guest's buffer;
* interrupts are injected into a guest that may be suspended in a page fault or
  in a call, and its contexts are kept in one small array;
* storage requests are completed by interrupts that may be late or missing;
* a crash is handled by the task that could not serve the fault, with the help
  of tasks it may just have suspended;
* the translation layer is a log without a lock: a reset may come between any
  two accesses to the flash, and two tasks are kept apart by priorities only;
* tasks suspend and resume each other, suspensions are not counted, and the
  host's commands reuse the page cache as a buffer.

## Modules

| Module | Models | State and actions |
|---|---|---|
| `CacheList` | the frame lists of `vmMgr.c` | pure operators on a record of the two list pointers and the `prev`/`next` fields, assignment for assignment |
| `Mmu` | `mmu.c` | pure operators on the movable entries and their cursor, and what they hold after `mmu_init` and `vmMgr_ReleaseAllPage` |
| `GuestMemory` | the promise: a flat memory that loses only what the storage refuses | `mem`, `shown`, `obs`; load, store, show, hide, settle, refuse, forget |
| `VmPager` | `vmMgr.c` and the abort handlers, over `CacheList` and `Mmu` | the tables, both caches, ZRAM and swap, the fault queue; one action per case of `vmMgr_task`, one per step of the guest and the display task |
| `GuestTasks` | the promise: one processor shared by the guest's tasks | `running`, `at`, `depth`, `released`, `yielding`; instructions, critical sections, yield, switch, interrupt |
| `GuestTraps` | `llapi.c` (contexts, `LLIRQ_task`, interrupt senders), `vectors.c` (calls), the guest's `SysIRQ.c` and `portISR.c` | `vm_saved_context` and the flags around it, the handlers' buffers, the tasks' stacks; one action per call of a guest task, per stage of a handler, per step of an interrupt |
| `NandFlash` | the flash chip as the driver uses it, and the requests of `mtd_up.h` | pure operators on the contents of pages |
| `FlashStore` | the promise: one request, one true answer | `flash`, `request`, `reply`; ask, carry out, answer, take |
| `MtdService` | `mtd_up.c`, `stmp_gpmi.c` | callers, request queue, `MTD_Task`, the driver's variables, DMA chain, error correction, interrupts; one action per wait of the code and per interrupt handler |
| `SectorStore` | the promise: a disk that a reset takes back at most to the last sync | `sectors`, `durable`, `request`, `reply`; ask, carry out, refuse, checkpoint, take, reset |
| `DharaJournal` | `journal.c` and the tree of `map.c` | pure operators on the flash and the journal in RAM |
| `DharaMap` | `map.c`, over `DharaJournal` | tasks inside `dhara_map_*` calls, one action per access to the flash; reset |
| `FtlService` | `FTL_up.c` and its clients | calls, request queue, `FTL_task`, `FTL_Sync` and `FTL_ClearAllSector`; the scheduler; System's way to the guest |
| `VmLifeCycle` | `start.c`, the host's commands, the queues of the display and of `LLIRQ_task` | start, suspension and panic of the guest; one action per call that may wait |
| `MCVmPager`, `MCGuestTraps`, `MCMtdService`, `MCDharaMap`, `MCFtlService`, `MCVmLifeCycle` | | small machines for TLC |
| `VmPagerProofs`, `GuestTrapsProofs`, `MtdServiceProofs`, `DharaMapProofs`, `DharaResetProofs`, `DharaRoomProofs`, `FtlServiceProofs`, `VmLifeCycleProofs` | | proofs |

The models rest on one another as the code does, and each replaces the layer
below by that layer's promise:

* `VmPager` keeps swap sectors as a function and lets any call on them fail,
  which is what `SectorStore` is to one client between resets: it may refuse a
  call, and then nothing has changed. `FtlService` shows that the calls are one,
  as long as two tasks have not shared the map; `DharaMap` shows that the map is
  one, while calls do not overlap (proved up to and with the first reset,
  checked beyond it), and its run `dhara_torn` that refusals do occur;
* Dhara's callbacks program and erase as `FlashStore` promises (a refused
  operation is reported as done, finding `mtd_badblock`, so Dhara's recovery
  from bad blocks is never entered);
* `GuestTraps`, `FtlService` and `VmPager` rely on MTD polling without blocking,
  which is `MtdService`'s states of `MTD_Task`;
* `VmLifeCycle` keeps of paging only who faults and that a page may be loaded,
  and of interrupts only the length of the queue, the entry that `LLIRQ_task`
  holds, and the mask; nothing there depends on an interrupt being injected.

### VmPager

Variables follow the C names where there is one: `romList`/`ramList` are
`CachePageVROM*`/`CachePageVRAM*`, `romTo`/`ramTo` are `mapToVirtAddr`, `zram`
is what `ZRAMAddress_Tab` leads to, `swapOn` is `mem_swap_enable`, `fault` is
the entry of `PageFaultQueue`. `svc` tells whether VM Svc runs or is blocked on
the display queue inside `VM_Unconscious`. A page's content is one value; the
content of a ROM page on flash is the page itself, and `romData` is what a VROM
frame holds. Two ghosts serve the properties only and occur in no guard:
`touched`, the RAM pages that have been writable and that no failed call of the
storage has spoilt since, and `obs`, the access just completed or the pages that
a call has just failed for.

The storage may fail. `vmMgr_task` looks at no answer of `MTD_ReadPhyPage`
(`vmMgr.c:720`), `FTL_ReadSector` (417, 804) and `FTL_WriteSector` (419); it
maps, writes back or drops what it has. `FailOps` says which calls may fail, and
each failure is then a free choice at every call: a frame of the VROM cache
holds no page, a swap page is loaded with any content, a sector is written back
with any content for its other half, or a dirty page is dropped unsaved.
Swapping is switched on and off by the guest at any time (`EnableSwap`;
`enableMemSwap` in `System/graphics/UICore.cpp:794`): a dirty swap page is not
evicted then (`EvictionFails`), and a swap page is mapped with what its frame
held before (`Loaded`).

`GuestMemory` says what is left of the promise. `Refuse(pages)` is the step at
which a call fails or finds swapping off: these pages, and those that share a
sector with one of them, may lose their content; no other page does, at that
step or ever after. `obs` keeps this from being void: `VmPager` may take such a
step only when a call has failed for exactly these pages, or a swap page was
loaded while swapping was off. `shown` is the page that waits to be displayed;
a store to it is no step of `GuestMemory`, so a flush shows what the guest had
drawn when it asked for it.

One service of a fault is one action. VM Svc runs at `configMAX_PRIORITIES - 4`
and waits only for the MTD and FTL tasks, which have higher priorities, and MTD
polls `mtd_opa_done` without yielding; no task that touches guest memory runs
in between. The display task was lowered to `MAX - 5` in `start.c:258`; inside
a flush it never blocks, so a queued flush is read before the guest, at
`MAX - 7`, issues its next instruction. The one place where VM Svc waits for a
lower task is the panic screen (`DrawPanicScreen`).

An access needs the page of the instruction and one data page. `Complete` and
`RaiseFault` test all of them at once, as the hardware does when it restarts
the instruction.

Left out: cache maintenance (each mapping cleans and invalidates what it must),
the counters for the status line, the contents inside a page, errors of the
compressor on data of its own making (VM Svc stops in `while (1)`,
`vmMgr.c:372,786`), exhaustion of the display queue's parameters. A failed read
leaves a VRAM frame with one of `Vals`; that its bytes may be no page the guest
ever wrote makes no difference to a property, since the page is spoilt.

### GuestTraps

The whole guest is one OSLoader task. An interrupt or a supervisor call pushes
its register frame on `vm_saved_context` and points it at `IRQ_ISR` or
`SWI_ISR`. The handler fetches the frame (`GetContext`), copies it to the stack
of the current guest task and may choose another one (`Reschedule`), and hands
that task's frame back (`RestoreContext`).

| Variable | Code |
|---|---|
| `cur`, `saved`, `nesting` | `pxCurrentTCB`, what lies on top of each task's stack, `ulCriticalNesting` (guest) |
| `buffer` | `irq_saved_context`, `swi_saved_context` (guest) |
| `mode`, `inException` | `curExp`, `vm_in_exception` |
| `regs` | the guest's register frame on its OSLoader stack |
| `contexts` | `vm_saved_context` up to `context_ptr` |
| `stval` | `vm_temp_storage[0]` |
| `irqEnabled`, `inPagefault` | `vm_enable_irq`, `g_vm_in_pagefault` |
| `irqs`, `blocked`, `taken` | `LLIRQ_Queue`, its blocked senders, an interrupt that `LLIRQ_task` holds in `curIRQ` |
| `depth` | ghost: the critical sections each task's code is in; guards only what the task's code may do next |
| `yielded` | ghost: the tasks that have yielded in the critical section they are in |

A frame is a task and a place in its code; a place stands for all registers,
and an instruction moves to the next one. A call of the guest is one step.
LLAPI runs at `MAX - 5`, `LLIRQ_task` at `MAX - 6`, the guest at `MAX - 7`;
LLAPI waits only for tasks above it, and MTD, at `MAX - 2`, polls for its
interrupt, so neither of the lower two runs before the call is finished. A page
fault, of the guest or of LLAPI on its behalf, is one step for the same reason,
and all that is kept of it is what it leaves in `g_vm_in_pagefault`: false after
a page was loaded, true after a segment was reloaded.

A task yields wherever it likes, inside critical sections too, as the queue and
notification functions of the guest's FreeRTOS do when they wake a task. The
handlers do not stack `ulCriticalNesting` (finding `traps_yield`), so such a task
goes on outside its section. The properties say what remains true of the system
with these yields. A task that has not yielded in the section it is in has its
full protection: mask and nesting are its own, whatever the other tasks do. One
that has yielded is without the protection of that section, and of no other: it
never counts more sections than it is in, and once it has left this section,
the next one protects it again. `GuestTasks` promises just that, with `released`
for the tasks that gave their section up.

Left out: the kind and the parameters of an interrupt, the choice made by
`vTaskSwitchContext` (any task), creation and deletion of tasks,
`ll_restore_context` with an unreadable address (logged and ignored by LLAPI,
after which the handler loops), and `VMSuspend`.

### MtdService

| Variable | Code |
|---|---|
| `phase`, `newOpa`, `notice`, `buf` | a task inside an `MTD_*Phy*` call, its `MTD_Operates`, its task notification, its buffer |
| `queue`, `curOpa` | `MTD_Operates_Queue`, `curOpa` |
| `task` | `MTD_Task`: waiting for the queue, at the label `retry`, waiting for the channel, in `GPMI_ReadPage` on the probe word, polling `mtd_opa_done` |
| `retryCnt`, `opaDone`, `eccResult` | `retry_cnt`, `mtd_opa_done`, `ECCResult` |
| `gpmiOpa`, `eccFin`, `probe` | `GPMI_curOpa`, `ECC_FIN`, "`probe[16]` is still 0x23" |
| `pageBuffer`, `aux` | `MTD_PageBuffer`, `GPMI_AuxiliaryBuffer` (the content whose metadata it holds) |
| `chain`, `curcmd`, `ecc`, `irq` | the DMA channel, the descriptor it stopped in (`CURCMDAR`), ECC8, the pending interrupts |
| `flash`, `lost` | the chip; how many interrupts have got lost |

A caller queues its request and waits for a notification. `MTD_Task` serves one
request after another. It hands a chain of descriptors to the DMA channel and
polls; `portMTD_DMA_ISR` ends writes and erases, `portMTD_ECC_ISR` ends reads.
When two seconds have passed it starts the same operation again.

Interrupts preempt tasks, so no step of a task is taken while one is pending.
The chip is external and does the following. It ends every chain, within the
busy time-out of 80 ms that `GPMI_SetAccessTiming` sets; so when `MTD_Task` has polled
for two seconds nothing is under way, and an interrupt was lost. The chain of a
read ends before its page has been corrected and written to memory, and the
metadata (the probe word) comes with the page. A chain whose sense check fails
ends in its error descriptor; `FailOps` says for which operations that may
happen. `HW_APBH_CHn_SEMA.INCREMENT_SEMA`, on which the driver waits, is read as
"the channel is busy", the code's intent.

The callers keep a discipline (`Disciplined`): only erased pages are written and
no two of them change the same page. Dhara does so, one operation at a time, and
the image that the host uploads (PROGP, MKNCB) lies outside its range. Three
things break it and are excluded: `dhara_nand_mark_bad`, which writes a block
after a failure (the runs whose properties depend on the discipline have no
failures), and the two ways to erase Dhara's blocks behind its back, ERASEALL
(`start.c:497`) and the erases of the maintenance menu (`start.c:698-725`),
after which the device is meant to be restarted.

Left out: `MTD_CopyPhyPage` (its only call, in `dhara_nand_copy`, is commented
out), offsets and lengths within a page, the pauses of `waitLastOpa`, the
slow-down of the processor during an operation, the counters, device
initialisation and `GPMI_sendCommand`.

### DharaJournal and DharaMap

The flash is a sequence of pages, each free, a user page, a checkpoint with its
metadata, or torn. The journal record follows `struct dhara_journal`: `head`,
`tail`, `tailSync`, `root`, `dirty` (`DHARA_JOURNAL_F_DIRTY`), `epoch`,
`bbLast`, `bbCurrent`, `metas` (the metadata in `page_buf` not yet
checkpointed) and `count` (`struct dhara_map`). Each search of `resume` is a
recursive function with the bounds and the probes of its C loop, so that what
it finds on a log with torn pages is what the code finds.

`proc[w]` is a worker's place in a call: garbage collection (one round a step),
the operation, the loop of sync, `prepare_head`, and the erase, the program and
the checkpoint, which are the three kinds of access that change the flash. A
task is preempted, and a reset comes, between any two of these steps; a reset
during an access leaves the page or the block as before, as wanted, or torn.
`sectors` and `durable` are histories, computed from the flash: what reads find
now, and what they would find after a reset. `past` is a sequence of requests
served first, so that a run starts from a chip that has been used.

Left out: recovery from a failed program or erase (see above), ECC errors of
pages that were programmed completely, `dhara_map_copy_page`,
`dhara_map_copy_sector` (nobody calls them), and the wrap of the eight-bit
epoch: `epoch` is a natural number here, so that nothing is said of a chip whose
log has gone round 256 times with a page of the first round still on it.

### FtlService

| Variable | Code |
|---|---|
| `phase`, `request`, `reply` | a task inside an `FTL_*` call, its `FTL_Operates`, its notification |
| `queue`, `ftl`, `curOpa` | `FTL_Operates_Queue`, `FTL_task`, its operation |
| `boot`, `conf`, `flushing`, `suspended` | System's place, `g_MSC_Configuration`, a queued display flush, LLAPI suspended by `VMSuspend` |
| `shared` | history: two tasks were inside Dhara's map at once |

A call takes effect in one step of the task inside the map, as `DharaMap`
shows; a checkpoint may be written earlier. Once `shared` is true nothing is
said of the contents. The scheduler is `MayRun`: FTL (`MAX - 3`) comes before
its clients, VM Svc and TinyUSB (`MAX - 4`) before LLAPI (`MAX - 5`) before
System (`MAX - 7`). A task in the map can be preempted by those above it, not
by those below, since MTD polls while the flash is busy. The display task
(`MAX - 5`) may fault during a flush of the guest's buffer, and that is the one
moment when VM Svc needs the disk while LLAPI might be in a call; the guest,
and with it LLAPI, only goes on when the flush is through.

`shared` excuses much: once two tasks have been in the map, or a task was in it
while `FTL_ClearAllSector` reset it (which makes no access to the flash and is one
step), no content is promised for the rest of the run. `CallsImplementStore`
thus says nothing about the overlaps themselves; of the syncs beside the host's
disk `dhara_overlap` shows what they do, of the clear nothing is claimed.

Left out: requests of more than one sector (all callers pass 1), `FTL_SYNC`
(nobody sends it), and an LLAPI that `VMSuspend` has stopped and VM Svc resumes
at the end of a service (`vmMgr.c:825`; it is in `VmLifeCycle`).

### VmLifeCycle

| Variable | Code |
|---|---|
| `stage`, `status` | System's place on its way to the guest, `g_vm_status` |
| `suspended` | tasks in `eSuspended`; a set, as FreeRTOS does not count |
| `fault`, `svc`, `call` | the task whose fault is queued or served, VM Svc, LLAPI |
| `queue`, `todo` | `DisplayOpaQueue`; drawings that a task still has to send |
| `irqs`, `blocked`, `irqOn`, `taken` | `LLIRQ_Queue`, its waiting senders, `LLIRQ_enable`, an entry that `LLIRQ_task` holds until it may inject it |
| `main`, `usb`, `conf` | the main thread's menu, TinyUSB in a command, `g_MSC_Configuration` |
| `buffer`, `binBuf`, `flash` | the page cache as transfer buffer, `binBuf` is set, what PROGP programmed |
| `wanted`, `pinged`, `raced`, `quiet` | histories |

`raced` and `quiet` name what the code does not rule out. `VMSuspend` suspends
the guest and LLAPI, but VM Svc, at the end of a service, resumes the task that
faulted (`vmMgr.c:685,735,825,951`), whoever suspended it; a second PING then
finds `g_vm_status` at `VM_STATUS_SUSPEND` and does nothing. A RESETDBUF or data
before PING overwrites the cache of a running guest, and a PING that meets a
fault leaves VM Svc loading a page into what is a transfer buffer by then. The
properties say what holds in all other cases, and nothing about these:
`GuestStaysDown` and `TimerNotStranded` are silent once a PING has met a service
of VM Svc, `ProgrammedAsSent` unless guest and VM Svc were at rest. If PING comes while System is
still on its way to the guest, `VMSuspend` does nothing either; the guest is
then kept down by the display queue: System has 23 drawings to send
(`BootDraws`), the queue takes four, and the display task is suspended.

`LLIRQ_task` takes an entry and holds it until the guest may be interrupted
(`llapi.c:233-240`). Nothing assures it of that: a guest may mask for ever or
never leave a handler, and a reloaded segment leaves `g_vm_in_pagefault` set. So
`Inject` is given no fairness, and the timer daemon, which runs all timers of
OSLoader and queues ticks with `portMAX_DELAY`, may wait as long as the guest
likes. `TimerNotStranded` is about the case in which no guest could ever help:
the daemon is not left waiting for a `LLIRQ_task` that has been suspended.
`VMSuspend` empties the queue, which wakes the daemon (it has the highest
priority of the waiters), and masks, and nobody is left to unmask.

What the model also shows, without a property: after a panic nobody empties
`LLIRQ_Queue`, and the timer daemon may wait for it (`Panicked` in
`TimerNotStranded`); if the timer daemon and TinyUSB both wait when the menu calls
`VMSuspend`, `xQueueReset` wakes only the first; `VM_Unconscious` writes
`VM_STATUS_UNCONSCIOUS` over `SUSPEND`; MSCDATA after PING waits for the
suspended display task; PROGP without a buffer programs what lies at address 0.

Left out: `VMResume` (nobody calls it), the call of `VM_Unconscious` by the
undefined-instruction handler, the order of the sixteen page writes of one
PROGP, and the commands and menu entries that only erase or format flash. Of
these, ERASEB and MKNCB work on the blocks the host names, for its upload;
ERASEALL (`start.c:497`, which sends no reply) and the menu's two erases
(`start.c:698-725`) also reach Dhara's blocks, under a map that goes on using
them until the device is restarted. The drawings before `VM_STATUS_RUNNING` are
not counted.

## Runs

All runs of the pager use two VROM frames, the least the list code allows. In
`pager_caches` three ROM pages displace each other in them; in `pager_memory`
one ROM page is enough to make code and data compete for movable entries, and
what the VROM cache holds under displacement is proved.

| Run | Machine | Question |
|---|---|---|
| `pager_memory` | 2 VRAM frames, 1 ZRAM page, 2 swap pages in one sector, 3 segments on 2 movable entries, 2 values, reads and writes of sectors may fail, swap on and off, fair | does paging implement a flat memory but for the pages a failed call names, and does every access complete? Also the type invariant, `DirtyIffWritable`, `CleanIsSaved`, `FaultIsCurrent`, `SlotsDistinct` |
| `pager_caches` | 3 VRAM frames, 4 RAM pages, 3 ROM pages, one value; pages that are alike are symmetric | coherence of tables and caches; the list surgery (three frames are the least with a middle one) |
| `traps_tasks` | 2 tasks of 3 places that yield anywhere, nesting up to 2, 2 senders, queue of 1, pages loaded and segments reloaded at any time | type invariant; can frames pile up, be missing, or be given to another task? do interrupt mask and nesting follow the task? is it one shared processor? |
| `traps_yield` | the same with 2 places | expected violation, see Findings |
| `mtd_answers` | 2 callers, 2 pages of a block, queue of 1, one lost interrupt | is every answer true, and nothing changed that was not asked for? |
| `mtd_faults` | 2 callers that read and write with buffers of their own, 1 page, queue of 1, two lost interrupts, writes and erases may fail, fair | type invariant; is every request in one place; does an operation ever end with another one's interrupt; does every call return? |
| `mtd_badblock` | writes and erases may fail | expected violation, see Findings |
| `dhara_store` | 8 blocks of 8 pages, groups of 4, 3 sectors of a tree of depth 2, 2 values; new or after 50 requests; 4 requests that change something, one reset | is the map a `SectorStore`, is the count of sectors right, does garbage collection always leave room, and is no page of the log ever touched (`AppendsOnly`)? |
| `dhara_torn` | 20 requests, then 3, one reset | expected violation, see Findings |
| `dhara_overlap` | FTL and System inside the map, 20 requests, then 5, no reset | expected violation, see Findings |
| `ftl_calls` | all four clients, 2 sectors of which one is in the capacity, one datum, queue of 2, fair | are tasks apart in the map; is every call in one place, answered truly, and does it return? |
| `lifecycle_stop` | queues of 1, 2 drawings of System and of the panic screen, 1 of the menu, fair | is the guest down after PING; is what is programmed what was sent; is the timer daemon ever left waiting for a suspended task; is the panic screen drawn? |

Bounds. Two swap pages share a sector because a sector holds exactly two pages.
A pool of one block makes the out-of-memory path of `save_cache_page` as likely
as the other. The model keeps one flush in the display queue. An instruction
needs a ROM segment and a RAM segment, so two movable entries are the least on
which it can complete. With them the service of a data fault, which parks the
segment of the victim and that of the page, always displaces the code; the
hardware has seven for 13 segments. A failing `MTD_ReadPhyPage` ("ROM" in
`FailOps`) is in the model and the proofs, but in no run: with a single ROM page,
which is loaded once and never displaced, it would double the states and show
little.

Two guest tasks are enough for a frame to reach the wrong one, and three places
tell apart a task that stopped, went on, or skipped an instruction. Critical
sections nest twice, so that leaving the inner one differs from leaving the
outer one. A queue of one or two entries and two senders make the full queue
and the blocked sender common; the queue has 32.

Two callers and a queue of one make a caller wait for room while another one is
served. Two pages of one block are the least for which an erase reaches a page
that its caller did not name. A lost interrupt is one retry, and the state
after a retry is the state after the first try, which is why one or two are
enough (the proofs hold for any number). With one datum, programming is told apart from
an empty page, from a page in ruins and from a second programming.

The chip of the Dhara runs is the least on which the code is itself: eight
blocks leave capacity for three sectors after the reserve of three blocks
(`MaxRetries`); with two retries one torn block beside an erased one would
already end the search for a checkpoint, which three and one reset exclude; two
groups in a block are needed for a torn checkpoint to stay in the log behind the
head. `Depth` 2 with sectors 0, 1 and 3 has siblings and a cousin. Fifty
requests take the head round the chip, so that pages of the last epoch lie
ahead of it, and leave sectors 0 and 3 at the tail for garbage collection. Four
requests are enough to write, sync, trim and write again around one reset.
Deadlock is not checked in the Dhara runs because the bounds stop them, nor in
`lifecycle_stop`, where a guest that is stopped and a main thread that is
suspended may leave nothing to do.

In `ftl_calls` the queue has two places for four clients; since each client
waits for its answer it never fills, as the one of 32 does not. In
`lifecycle_stop` the queues are shorter than in the code and full as often;
`BootDraws` is greater than the display queue is long, as in the code, and the
proofs need no more than that.

Fairness (`FairSpec` of `VmPager`). VM Svc, the display task and the guest are scheduled by
preemptive fixed priority and all tasks above them block again, so each is
given the processor when the higher ones have nothing to do: weak fairness of
`Work`, a service or an own step of a task. The guest is not assumed to issue
instructions, and nothing is assumed about swapping or the panic screen.

`GuestTraps` has safety properties only and needs no fairness. The code gives
no promise that an interrupt arrives: while `g_vm_in_pagefault` is set, after a
reload, `LLIRQ_task` injects nothing, and with 13 segments on 7 movable entries
this lasts until some fault loads a page.

Fairness (`FairSpec` of `MtdService`). `MTD_Task` has the second highest
priority; the chip works and interrupts are taken. A caller's steps get strong
fairness, because interrupts and, in FreeRTOS's order of equal waiters, other
senders postpone but do not cancel them. No caller is assumed to call.

Fairness (`FairSpec` of `FtlService`). FTL outranks its clients and gets weak
fairness. A client gets strong fairness: it may be preempted again and again,
but those above it wait for the host or for the guest in between. Nobody is
assumed to call, and no disk of the host to come or go.

Fairness (`FairSpec` of `VmLifeCycle`). VM Svc, TinyUSB and the menu, once
they have something to do, are not disturbed: weak fairness. The display task,
and System on its way to the guest run when those above them rest, which they
do again and again: strong fairness, which is void for a task that stays
suspended. `LLIRQ_task` gets none, as its waiting depends on the guest.

## Proofs

`VmPagerProofs` begins with the operators of `CacheList`: taking the victim
from the head, moving a frame to the tail and the initial construction keep a
list in an order, that is, there is a sequence of all frames, each once, that
`head`, `tail`, `prev` and `next` describe. `MoveToTailOrdered` needs that a
frame which is the tail already has no stale successor; without it the code
links the frame to itself. It then proves, under `MmuAssumption` and `PagerAssumption`, that
`PagerInv` is inductive, and from it the theorems `TypeCorrect`,
`CachesCoherent`, `WritableIsDirty`, `ListsStayInOrder`,
`StaleTailsAreWritable`, `EntriesDistinct` and `FaultsAreCurrent`. None of
these is inductive alone. The chain is: a fault still describes the tables when
it is served (`FaultIsCurrent`), hence the page loaded is in no frame yet,
hence caches and tables stay in agreement (`CacheCoherent`), hence a write
fault finds the very frame that is mapped and that frame is clean
(`DirtyIffWritable`), hence it is not the stale tail (`StaleTailIsWritable`),
hence `MoveToTail` keeps the list in order (`ListsInOrder`).

The last part of the module is about contents, with storage calls that fail as
`FailOps` says and swapping switched on and off at will. It needs two more
invariants. `TaskInv` says that only the system task stores and that the display
task waits for loads of `FlushPages`, so that nothing is stored while a page is
shown. `MemoryInv` says that no ROM page is writable (`RomReadOnly`), that a
mapped ROM page's frame holds it or nothing defined (`RomHeld`), that a writable
page is touched (`WritableIsTouched`), that a touched ZRAM page which is not in a
dirty frame is in ZRAM (`Kept`), and that a touched page whose frame is clean has
been saved with its content (`CleanIsSaved`, theorem `CleanPagesAreSaved`). A
step of the pager then leaves `Contents` as it is, except that it may fix what
an untouched page holds, or that `touched` loses pages, and these are near the
pages named in `obs`. Hence every step of `VmPager` is one of `GuestMemory` or
none: `PagingIsMemory`. The eviction is where the parts meet: the victim at the
head of the list is either clean, and `CleanIsSaved` says it may go, or it is
written before it goes, to ZRAM, or to a sector; if both calls succeed the other
page of that sector is not disturbed, and if one fails, exactly those pages leave
`touched` whose last copy was lost with it: the victim when the write failed,
the other page when the read failed, the write did not, and no dirty frame has
it.

`GuestTrapsProofs` proves, under `TrapsAssumption` alone, that `TrapInv` is
inductive: types, `ContextsNested`, `FramesInPlace`, and `NestingSaved`, which
says that the nesting the handlers stack is always zero. The last part is what
keeps `ulCriticalNesting` in its range, and it is also what makes a yield inside a
critical section go wrong. `TypeCorrect`, `ContextsStayNested` and
`FramesStayInPlace` follow. For `MaskStaysWithTask`, `SectionsUninterrupted` and
`TrapsImplementTasks` the invariant adds that a task which does not run and has
not yielded is in no critical section, that one which has yielded is in one, and
that no interrupt is handled on top of a section that its task has not given up.
`TrapsImplementTasks` maps every step of `GuestTraps` to a step of `GuestTasks`
or to none: the places of the tasks change only where a task runs, and the
switch takes place when the handler chooses.

`MtdServiceProofs` proves, under `FlashAssumption` and `MtdAssumption`, that
`MtdInv` is inductive: types, `RequestsAccounted`, `ChipServesCurrent`,
`RequestsTyped` (a request is there when it is needed, and `retry_cnt` never
leaves its initial value, since the code jumps before it counts) and
`InterruptsFit` (an interrupt is pending only for a started operation whose
chain is over, and `GPMI_curOpa` fits it). `ServiceTyped`,
`RequestsStayAccounted` and `ChipStaysWithCurrent` hold also for a chip that
fails. `AnswersAreTrue` assumes `FailOps = {}` and adds `StoreInv`: a page to be
written is empty or holds the data already, so that doing a write twice changes
nothing; the data is where the chain takes it from; and when the chip is done,
flash, buffers and result are what the request wants. It maps the end of a
chain to `CarryOut`, `Finish` to `Answer`, and the call and return of a caller
to `Ask` and `Take`.

`DharaMapProofs` proves, under `GeometryAssumption`, `SectorAssumption`,
`DataAssumption`, `ClientAssumption` and `Exclusive` (calls do not overlap;
`FtlService` shows when), two invariants of the translation layer, for chips
of any size, trees of any depth and any number of requests. The assumptions ask
of the geometry that there are two blocks at least, that a block is a whole
number of groups of three pages or more, and of the sectors that their bits
tell them apart; nothing is said of `NumBlocks` and `MaxRetries` beside that.

* `Inv` holds through every reset: places, requests and replies have their
  types, only a call in progress has a place and it is the only one (`CallInv`),
  and the log is in order (`LogInv`). The last part says that the last-synced
  tail, the tail and the head come in this order round the chip (`InOrder`);
  that a checkpoint whose tail lies in its own block stands behind that tail
  (`Described`), since a reset takes the tail from it; that behind a group whose
  checkpoint and last user page are free all pages of the block are free
  (`Filled`); and that a worker about to program finds free pages from the
  head on, and does not run into the block of the last-synced tail (`Fits`, `Room`). None of it is inductive
  without the rest: `resume` computes the head from what is free, the head is
  where a page is programmed, and what is free after that is what the next
  `resume` finds. `LogInOrder` and `AppendsOnlyHolds` follow. The second one is
  also nand.h's rule that pages are programmed in sequence and never twice
  (`nand.h:78`), which no assertion in the code checks.
* `MapInv` holds up to the first reset: every page of a walk from the root
  stands where it should (`TreeOK`: a page on level `d` of the walk to `s` shares
  the first `d - 1` bits with `s`, lies in the log, and the other half's pointers
  agree with the walks that use them), reads find what the history says, the
  count is right between calls, and a worker in the middle of an append
  (`Half`) carries the metadata, the content and the count that make its request
  true once the page is rooted. Grafting a page on a path (`Grafts`) and
  rewriting a cousin without a pointer (`Deletion`) change one sector and leave
  all other walks as they were; dropping a page at the tail changes nothing
  because the tree does not lead to it (`Verdict`). `CountIsRightUntilReset`,
  `DiskUntilReset` and `DiskWithoutResets` follow. `Volatile` is `SectorStore`
  with `durable` equal to `sectors`, so that what is durable is left out of these
  two theorems; `DharaResetProofs` puts it back.

`DharaResetProofs` is about what a reset finds. `LastGroupIsFound` is about the search that decides where a resumed log goes on
(`journal.c:311`, "Perform a binary search"). From `Inv`, the free groups of a
block are its last ones, torn pages or not; with that as the invariant of the
search, and the width of the range as its measure, the search ends within
`Ppb` steps at the last group that was programmed. For these proofs the searches
and the walk are recursive functions.

The other theorems of the module add the invariant `Saves`, which holds until the
first reset, at any moment of a call:

* `Arranged` says where the checkpoints are: every group before the head's has
  one of the current epoch, what lies behind the head is of the epoch before,
  and a block is bad only if it was just being written. Hence the search over
  blocks ends in the head's block or the one before it, the search over groups
  before the head, and the checkpoint found is the last one written, whatever
  became of the page that was in flight (`ChangeKept`).
* `Saved` says that this checkpoint roots a tree (`TreeOK` of the journal `Snap`
  that it describes), that all pages of this tree lie between the last-synced
  tail and the checkpoint, where nothing is programmed or erased, and that
  reading through it gives `durable`.
* `Synced` says that a journal which is not dirty stands behind a checkpoint
  whose tree leads to the same pages as the one in RAM.

`PushMeta` is the one step that makes a new checkpoint the last one, and with it
`durable` becomes what `sectors` is; every other step leaves `durable` alone,
though it changes the flash, and a reset at any step, with the page in flight
unwritten, written or torn, finds the contents at the last checkpoint.
`DiskThroughFirstReset` concludes that every step up to and with the first reset
is one of `SectorStore`, `durable` included, or none. `SectorStoreWithoutResets`
is the refinement for a run without resets and `SyncIsDurableWithoutResets` the
promise of `map.h:102` in such a run; `TypesUntilReset` gives `TypeOK`.

These theorems assume `MaxRetries > 1` (`DHARA_MAX_RETRIES` is 8). With one
retry `find_checkblock` looks at a single block, and a reset while the block 0
is being erased makes `resume` take the chip for an empty one.

`DharaRoomProofs` is about the one way in which a sound map could refuse what is
asked of it: `prepare_head` meets the block of the last-synced tail and the
journal is full (`journal.c:622`). `dhara_map_capacity` reserves one part in
`GcRatio + 1` of the log and the pages of `MaxRetries` blocks, and once the log
is as long as the capacity each write and trim collects `GcRatio + 1` pages
first. That this is enough is not obvious, since a page collected may be live
and then is appended again, and nothing says where in the log the garbage lies.
The invariant `Roomy` says it as follows, with `L` the pages in the log
(`Held`), `Rate` for `GcRatio + 1` and `Early(x)` the number of sectors whose
page is among the first `x` of them:

* `Paced`: for every `x` in `0..L`, `Rate * (L - x + Early(x)) + x + credit` is
  at most `Rate * Reach`. When the first `x` pages have been collected,
  `L - x + Early(x)` are left, and `x / Rate` writes have passed: the log is
  within its reach then. `Reach` is what the log holds, less the blocks of the
  reserve, and three pages. The credit is the rounds that the write in progress
  has behind it; it spends them when its page lands.
* the log up to the last-synced tail is longer than `Reach` by no more than the
  pages of an open group, since a checkpoint makes the tail the last-synced one;
* the count never exceeds the capacity of a chip without bad blocks, and none of
  the blocks is found bad before a reset (`NoneSkipped`).

Dropping garbage at the tail, moving a live page, appending a new or a changed
sector, rewriting a cousin for a trim and the padding of a sync each keep this
(`DropIsPaced`, `MoveIsPaced`, `AppendIsPaced`, `GarbageIsPaced`); a log shorter
than the capacity has it whatever it holds (`ShortIsPaced`), which is why writes
may do without collection then. `Count` and `Early` are cardinalities, so that
no induction over the log is needed: one step changes them by one at most. The
distance of two pages is counted in user pages round the chip (`Span`), which
`SizeIs` shows to be `dhara_journal_size`. `RoomUntilReset` and
`NeverFullWithoutResets` follow, for any geometry but one: if a block has a single group
and `MaxRetries` is 1, the reserve is one group, and the argument needs three
pages more (`Ample`; `DHARA_MAX_RETRIES` is 8). A map whose capacity is zero is
empty for ever (`Barren`).

`FtlServiceProofs` proves, under `FtlAssumption`, that `FtlInv` is inductive:
types, `RequestsAccounted`, `RequestsFit` (what each client may be asking for,
and that only a sync is inside the map), `GuestBlocked` (LLAPI is in a call only
while no fault is served and no flush is pending; nobody calls for the guest
before there is one) and `TaskFits`. `MapStaysExclusive` follows without any
lock: while the disk is not the host's, only System and LLAPI sync, System only
before there is a guest, and LLAPI only while VM Svc has nothing to do.
`CallsImplementStore` maps every step to one of `SectorStore` or to none, until
two tasks have shared the map.

`VmLifeCycleProofs` proves, under `LifeCycleAssumption`, that `LifeInv` is
inductive. Beside types it holds what is true before the guest runs, and that
after PING either the guest and LLAPI are suspended without a fault, or System
still has more to draw than the display queue takes, and nobody draws
(`StopInv`, from `StatusInv` and `PingInv`); and that, if PING met the guest and
VM Svc at rest, nobody is left who could touch the page cache, which holds what
the host has sent (`QuietInv`). `GuestStopped` and `UploadIntact` follow. The
arithmetic of `StopInv` is the assumption `BootDraws > DisplayQueueLength`.
`TimersGoOn` (`TimerNotStranded`) needs two more facts, proved together
(`TimerInv`): while `LLIRQ_task` is suspended without a panic or a race, the
interrupts are masked and LLAPI, the only one that could unmask them, is
suspended too and waits for no page; and nobody panics before the guest runs.

The recursion of `InitMpte` and the least-witness arguments are done by hand
from `WFMin`, since induction rules that take a predicate cannot be used.

Only model-checked:

* every liveness property (`AccessCompletes`, `EveryCallReturns` of both
  services, `PanicScreenDrawn`), which is out of the prover's reach;
* what the map does after a reset: `ImplementsSectorStore`, `CountIsRight`,
  `NeverJournalFull` and `TypeOK` of `DharaMap` beyond the first one. What the first reset leaves is
  proved; that it can be built upon is not, since a torn page and groups without
  a checkpoint stay in the log then, which `Arranged` and `TreeOK` exclude (and
  `dhara_torn` shows that the map does not always get over them).

The assumption under which `CallsImplementStore` says something about the real
disk, that Dhara implements `SectorStore`, is thus proved up to and with the
first reset and checked beyond it.

## Findings

Four runs are expected to fail.

* `traps_yield`. The handlers stack `vm_temp_storage[0]`, which holds the nesting
  of the last restore, and not `ulCriticalNesting` as the port's comment says. A
  task that yields inside a critical section, which FreeRTOS's queues do and call
  legal, comes back with a nesting of zero and interrupts enabled.
* `mtd_badblock`. `portMTD_DMA_ISR` looks for the error descriptor of reads also
  when a write or an erase has ended, so a refused operation is reported as a
  success. `dhara_nand_prog` and `dhara_nand_erase` never see a bad block, and
  Dhara never marks one.
* `dhara_torn`. After a reset in the middle of a checkpoint page, the log goes
  on behind it and it stays in the log. When the tail arrives there, garbage
  collection cannot read its metadata and returns the error before a write,
  a trim or a sync does anything; the tail stays, and the map refuses every
  change from then on. Dhara's README promises a state that has been rolled
  back, not one that cannot be written.
* `dhara_overlap`. `FTL_Sync` is preempted inside the map, `FTL_task` appends a
  page, and the sync returns with success although that page is not durable.
  System's sync on VIEWS beside the host's writes is such a pair;
  `ftl_calls` shows that it cannot happen once the disk is the guest's.

Two more behaviours can be reproduced with a passing run and one change:

* In `pager_memory`, `svc = "drawing" ~> svc # "drawing"` does not hold: if
  the fault that cannot be served is the display task's own, `VM_Unconscious`
  waits for the display queue and the display task for VM Svc.
* `mtd_faults` with `FailOps = {"READ"}` deadlocks and violates
  `EveryCallReturns`. A read whose sense check fails raises no ECC interrupt and
  brings no metadata; `GPMI_ReadPage` waits for the probe word for ever, at a priority above
  everything that could notice.

Three are part of passing runs, as steps that the code takes and nobody promises
otherwise:

* With `mem_swap_enable` false, `save_cache_page` refuses to evict a dirty swap
  page and the guest is stopped with "[SWAP NOT ENABLE]", but the load path
  (`vmMgr.c:803-808`) only prints "FROM SWAP AREA!!" and maps the frame with
  whatever it held. A guest that switches swapping off
  (`System/graphics/UICore.cpp:794`) and touches a page that was swapped out goes
  on with the content of another page. In `pager_memory` such a load is a
  `Refuse` of that page.
* An answer of the storage is not looked at (`vmMgr.c:417,419,720,804`). A refused
  write drops the page; a refused read is followed by a write of the sector with
  whatever `compress_buffer` held, which spoils the neighbour too.
* The service of a fault that only reloads a movable entry leaves
  `g_vm_in_pagefault` set (`vmMgr.c:684-687`). `LLIRQ_task` injects nothing until
  another fault loads a page: the guest's clock stands still while it runs from
  pages it has. In `traps_tasks` this is `SegmentReloaded`.

Not a finding, but worth knowing: `goto retry` stands before `retry_cnt--`, so the
branch of `MTD_Task` that gives up cannot be reached; and a reset while the first
page of a block is programmed leaves a block that `dhara_nand_is_bad` takes for a
bad one for ever.

A few more remarks on code that is not in a model, or only as a state: PROGP
without a buffer programs address 0; the wrap of the log ring (`start.c:955`)
sends one byte more than is left of it; `inited` of the FTL is set also when
`dhara_map_resume` failed (`FTL_up.c:239`); `DisplayFlushArea` without waiting
queues the address of a flag on a stack frame it has left
(`display_up.c:80`), which is safe because the display task comes first.

## Not modelled

The repository is some 1.6 million lines, nearly all of them libraries, fonts,
ROM images, emulators and applications. The models cover OSLoader's memory,
trap, storage and life-cycle logic and the guest's half of the trap protocol.
Of the rest:

* keyboard, clocks, battery, real-time clock, LCD controller: register accesses
  and polling loops with no state that another component relies on; audio is
  not part of the build;
* `_sbrk` and `enableMemSwap`, the VROM loader and the littlefs glue: sequential
  functions of a few counters, called under newlib's or the file system's lock;
* start-up assembly and the creation of tasks: done once, before the scheduler;
* recovery of Dhara from bad blocks: unreachable, as `mtd_badblock` explains;
* the contents of frames of the LCD, log lines, SCSI answers and the FAT image
  that carries the host's commands: constants and pure output;
* FreeRTOS, TinyUSB, TLSF, compressors, littlefs, FatFs and the C library:
  third-party; queues, notifications, priorities and suspension are modelled as
  OSLoader uses them.

What a next step could add: the composition of `GuestTraps` and `MtdService`, so
that "a call is one step" is checked and not argued; several resets in
`DharaMap`, which need a larger chip than TLC finishes. Of the proofs, what
remains is the map after a reset: `Arranged`, `Saved` and `TreeOK` weakened so
that a log with a torn page and a group without a checkpoint satisfies them, and
the resumed journal shown to establish them again.
