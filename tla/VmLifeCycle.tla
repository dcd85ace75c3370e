----------------------------- MODULE VmLifeCycle -----------------------------
(***************************************************************************)
(* How the guest is started and stopped (start.c): System's way to the     *)
(* guest, VMSuspend, VM_Unconscious, the maintenance menu of the main      *)
(* thread, and the host's commands, which stop the guest and take its page *)
(* cache as the buffer of what is to be programmed.                        *)
(*                                                                         *)
(* A suspension is not counted: whoever resumes a task undoes the          *)
(* suspensions of all others.  Paging itself is in VmPager, the injection  *)
(* of interrupts in GuestTraps, the FTL in FtlService.                     *)
(***************************************************************************)
EXTENDS Integers, Sequences, FiniteSets

CONSTANTS
    DisplayQueueLength,   \* 4
    IrqQueueLength,       \* 32
    BootDraws,            \* System's display commands after RUNNING: 23
    PanicDraws,           \* those of VM_Unconscious
    MenuDraws             \* those of the menu before it waits for a key

ASSUME LifeCycleAssumption ==
    /\ DisplayQueueLength \in Nat \ {0} /\ IrqQueueLength \in Nat \ {0}
    /\ BootDraws \in Nat /\ BootDraws > DisplayQueueLength
    /\ PanicDraws \in Nat \ {0} /\ MenuDraws \in Nat \ {0}

None == "none"
Guest == {"System", "LLAPI", "LLIRQ"}          \* what VMSuspend suspends
Tasks == Guest \cup {"Display", "Main"}
Faulting == {"System", "LLAPI", "Display"}     \* who uses the guest's memory
Drawers == {"System", "VM Svc", "Main", "TinyUSB"}
Contents == {"pages", "sent", "vectors"}

VARIABLES
    stage,       \* System: draws, reads the ROM, ready, starts, guest, or none
    status,      \* g_vm_status
    suspended,   \* tasks in the state eSuspended
    fault, svc,  \* the task of the page fault; VM Svc: receive, load or panic
    call,        \* LLAPI: receive or serve
    queue,       \* DisplayOpaQueue: drawings, and flushes of guest memory
    todo,        \* display commands a task has still to send
    irqs,        \* entries of LLIRQ_Queue
    blocked,     \* who waits in xQueueSend for a place in it
    irqOn,       \* vm_enable_irq
    taken,       \* LLIRQ_task has taken an entry that it has not injected yet
    main,        \* the main thread: loop or menu
    usb, conf,   \* TinyUSB: idle, ping or mscdata; g_MSC_Configuration
    buffer,      \* the first pages of the cache
    binBuf,      \* they are the transfer buffer
    flash,       \* what PROGP has programmed since the reset
    wanted,      \* history: what the host has made of the buffer since PING
    pinged,      \* history: PING was answered
    raced,       \* history: VMSuspend came while a fault of the guest was served
    quiet        \* history: at PING, the guest and VM Svc were at rest

vars == <<stage, status, suspended, fault, svc, call, queue, todo, irqs, blocked,
          irqOn, taken, main, usb, conf, buffer, binBuf, flash, wanted, pinged, raced,
          quiet>>
vm     == <<stage, status>>
pager  == <<fault, svc>>
screen == <<queue, todo>>
irq    == <<irqs, blocked, irqOn, taken>>
host   == <<usb, conf, binBuf, flash, wanted, pinged, quiet>>

Init ==
    /\ stage = "draws" /\ status = "SUSPEND" /\ suspended = {}
    /\ fault = None /\ svc = "receive" /\ call = "receive"
    /\ queue = <<>> /\ todo = [d \in Drawers |-> 0]
    /\ irqs = 0 /\ blocked = {} /\ irqOn = FALSE /\ taken = FALSE
    /\ main = "loop" /\ usb = "idle" /\ conf = "OSLOADER_EDB"
    /\ buffer = "pages" /\ binBuf = FALSE /\ flash = None /\ wanted = "pages"
    /\ pinged = FALSE /\ raced = FALSE /\ quiet = FALSE
-----------------------------------------------------------------------------
\* Mutant of Runs: VM Svc polls for a place in the display queue.
RunsUnlessPolled(t) == t \notin suspended /\ svc = "receive" /\ usb # "ping"

(* VM Svc and TinyUSB, of the same priority, take turns; while one of them *)
(* works, or VM Svc waits for MTD, which polls, nobody below them runs.    *)
Runs(t) == t \notin suspended /\ svc # "load" /\ usb # "ping"

Room == Len(queue) < DisplayQueueLength

\* Mutant of Send: it does not wait for a place.
SendAnyway(command) == queue' = Append(queue, command)

(* xQueueSend(DisplayOpaQueue, &opa, portMAX_DELAY).                       *)
Send(command) == Room /\ queue' = Append(queue, command)

Draw(d) ==
    /\ todo[d] > 0 /\ Send("draw")
    /\ todo' = [todo EXCEPT ![d] = @ - 1]

ToDraw(d, n) == todo' = [todo EXCEPT ![d] = n]
-----------------------------------------------------------------------------
(* System, on its way to the guest.                                        *)
Boot(from, to) ==
    /\ Runs("System") /\ stage = from /\ todo["System"] = 0
    /\ stage' = to
    /\ UNCHANGED <<suspended, call, queue, irq, main, buffer, host, raced>>

BootDraw ==
    /\ Runs("System") /\ Draw("System")
    /\ UNCHANGED <<vm, suspended, pager, call, irq, main, buffer, host, raced>>

(* The first word of the ROM is a page that has to be loaded.              *)
ReadRom ==
    /\ Boot("draws", "reads") /\ fault = None /\ fault' = "System"
    /\ UNCHANGED <<status, svc, todo>>

NoSystem ==
    /\ Runs("System") /\ fault = None /\ stage = "reads" /\ stage' = "none"
    /\ status' = "SUSPEND" /\ suspended' = suspended \cup {"System"}
    /\ UNCHANGED <<pager, call, screen, irq, main, buffer, host, raced>>

SetRunning ==
    /\ Boot("reads", "starts") /\ fault = None
    /\ status' = "RUNNING" /\ ToDraw("System", BootDraws)
    /\ UNCHANGED pager

EnterGuest ==
    /\ Boot("starts", "guest")
    /\ UNCHANGED <<status, pager, todo>>

BootStep == BootDraw \/ ReadRom \/ NoSystem \/ SetRunning \/ EnterGuest
-----------------------------------------------------------------------------
(* The guest, LLAPI on its behalf, and the display task.                   *)

AtWork(t) ==
    CASE t = "System"  -> stage = "guest"
      [] t = "LLAPI"   -> call = "serve"
      [] t = "Display" -> queue # <<>> /\ Head(queue) = "flush"

(* A fault that is raised while VM Svc is in VM_Unconscious is not served. *)
RaiseFault(t) ==
    /\ Runs(t) /\ AtWork(t) /\ fault = None /\ svc = "receive"
    /\ fault' = t
    /\ UNCHANGED <<vm, suspended, svc, call, screen, irq, main, buffer, host, raced>>

Working(t) == Runs(t) /\ AtWork(t) /\ fault # t

GuestCall ==
    /\ Working("System") /\ Runs("LLAPI") /\ call = "receive"
    /\ call' = "serve" /\ suspended' = suspended \cup {"System"}
    /\ UNCHANGED <<vm, pager, screen, irq, main, buffer, host, raced>>

(* The call ends, having flushed the display, switched interrupts, or not. *)
Return ==
    /\ Working("LLAPI")
    /\ \/ Send("flush") /\ UNCHANGED irqOn
       \/ irqOn' \in BOOLEAN /\ UNCHANGED queue
    /\ call' = "receive" /\ suspended' = suspended \ {"System"}
    /\ UNCHANGED <<vm, pager, todo, irqs, blocked, taken, main, buffer, host, raced>>

Show ==
    /\ Runs("Display") /\ fault # "Display" /\ queue # <<>> /\ queue' = Tail(queue)
    /\ UNCHANGED <<vm, suspended, pager, call, todo, irq, main, buffer, host, raced>>
-----------------------------------------------------------------------------
(* VM Svc.                                                                 *)

Receive ==
    /\ svc = "receive" /\ fault # None
    /\ svc' = "load" /\ suspended' = suspended \cup {fault}
    /\ UNCHANGED <<vm, fault, call, screen, irq, main, buffer, host, raced>>

(* A frame is filled, unless only a segment was missing or the page was    *)
(* made writable.                                                          *)
Load ==
    /\ svc = "load"
    /\ buffer' \in {buffer, "pages"}
    /\ suspended' = suspended \ {fault}
    /\ svc' = "receive" /\ fault' = None
    /\ UNCHANGED <<vm, call, screen, irq, main, host, raced>>

VM_Unconscious ==
    /\ svc = "load" /\ stage = "guest"
    /\ svc' = "panic" /\ fault' = None
    /\ suspended' = suspended \cup {"LLIRQ", "LLAPI"} /\ irqOn' = FALSE
    /\ ToDraw("VM Svc", PanicDraws)
    /\ UNCHANGED <<vm, call, queue, irqs, blocked, taken, main, buffer, host, raced>>

PanicDraw ==
    /\ svc = "panic" /\ Draw("VM Svc")
    /\ UNCHANGED <<vm, suspended, pager, call, irq, main, buffer, host, raced>>

PanicDrawn ==
    /\ svc = "panic" /\ todo["VM Svc"] = 0
    /\ svc' = "receive" /\ status' = "UNCONSCIOUS"
    /\ UNCHANGED <<stage, suspended, fault, call, screen, irq, main, buffer, host, raced>>

VmSvc == Receive \/ Load \/ PanicDraw \/ PanicDrawn
-----------------------------------------------------------------------------
(* Interrupts.  A sender that finds LLIRQ_Queue full waits for a place; of *)
(* two that wait, the timer daemon comes first.                            *)
Senders == {"timer", "TinyUSB"}

First == IF "timer" \in blocked THEN "timer" ELSE "TinyUSB"

Notify(s) ==
    /\ irqOn /\ s \notin blocked /\ (s = "TinyUSB" => usb = "idle")
    /\ IF irqs < IrqQueueLength THEN irqs' = irqs + 1 /\ UNCHANGED blocked
       ELSE blocked' = blocked \cup {s} /\ UNCHANGED irqs
    /\ UNCHANGED <<vm, suspended, pager, call, screen, irqOn, taken, main, buffer,
                   host, raced>>

(* LLIRQ_task takes an entry; whoever waits puts one in its place.         *)
Take ==
    /\ Runs("LLIRQ") /\ irqs > 0 /\ ~taken /\ taken' = TRUE
    /\ IF blocked = {} THEN irqs' = irqs - 1 /\ UNCHANGED blocked
       ELSE blocked' = blocked \ {First} /\ UNCHANGED irqs
    /\ UNCHANGED <<vm, suspended, pager, call, screen, irqOn, main, buffer, host, raced>>

(* It polls until the guest may be interrupted: interrupts are on, and the *)
(* flags of page faults and handlers (GuestTraps) are down.  Nothing here  *)
(* says that this ever happens.                                            *)
Inject ==
    /\ Runs("LLIRQ") /\ taken /\ irqOn
    /\ taken' = FALSE
    /\ UNCHANGED <<vm, suspended, pager, call, screen, irqs, blocked, irqOn, main,
                   buffer, host, raced>>

(* xQueueReset empties the queue and wakes one of those who wait.          *)
ClearIRQs ==
    IF blocked = {} THEN irqs' = 0 /\ UNCHANGED blocked
    ELSE irqs' = 1 /\ blocked' = blocked \ {First}
-----------------------------------------------------------------------------
\* Mutants of SuspendGuest: LLAPI goes on; the queue is not reset.
SuspendSystem ==
    /\ suspended' = suspended \cup {"System", "LLIRQ"}
    /\ irqOn' = FALSE /\ ClearIRQs /\ UNCHANGED taken

SuspendKeepsIrqs ==
    /\ suspended' = suspended \cup Guest
    /\ irqOn' = FALSE /\ UNCHANGED <<irqs, blocked, taken>>

SuspendGuest ==
    /\ suspended' = suspended \cup Guest
    /\ irqOn' = FALSE /\ ClearIRQs /\ UNCHANGED taken

VMSuspend ==
    IF status = "SUSPEND" THEN UNCHANGED <<status, suspended, irq, raced>>
    ELSE /\ status' = "SUSPEND" /\ SuspendGuest
         /\ raced' = (raced \/ fault \in {"System", "LLAPI"})
-----------------------------------------------------------------------------
(* The main thread, after ON+F5.                                           *)
EnterMenu ==
    /\ "Main" \notin suspended /\ main = "loop" /\ main' = "menu"
    /\ VMSuspend /\ ToDraw("Main", MenuDraws)
    /\ UNCHANGED <<stage, pager, call, queue, buffer, host>>

MenuDraw ==
    /\ "Main" \notin suspended /\ Draw("Main")
    /\ UNCHANGED <<vm, suspended, pager, call, irq, main, buffer, host, raced>>

(* portBoardReset, from the menu or on REBOOT.                             *)
Reset ==
    /\ \/ main = "menu" /\ todo["Main"] = 0 /\ "Main" \notin suspended
       \/ usb = "idle" /\ "TinyUSB" \notin blocked /\ conf = "OSLOADER_EDB"
    /\ stage' = "draws" /\ status' = "SUSPEND" /\ suspended' = {}
    /\ fault' = None /\ svc' = "receive" /\ call' = "receive"
    /\ queue' = <<>> /\ todo' = [d \in Drawers |-> 0]
    /\ irqs' = 0 /\ blocked' = {} /\ irqOn' = FALSE /\ taken' = FALSE
    /\ main' = "loop" /\ usb' = "idle" /\ conf' = "OSLOADER_EDB"
    /\ buffer' = "pages" /\ binBuf' = FALSE /\ flash' = None /\ wanted' = "pages"
    /\ pinged' = FALSE /\ raced' = FALSE /\ quiet' = FALSE
-----------------------------------------------------------------------------
(* The host's commands, written to a sector of its disk.                   *)
Command == usb = "idle" /\ "TinyUSB" \notin blocked /\ conf = "OSLOADER_EDB"

\* Mutant of Silenced: the display task goes on.
SilencedMain == {"Main"}

(* Of the tasks that PING suspends, those that are in this module.         *)
Silenced == {"Main", "Display"}

Ping ==
    /\ Command /\ usb' = "ping"
    /\ suspended' = suspended \cup Silenced
    /\ quiet' = (quiet \/ /\ fault = None /\ svc = "receive"
                          /\ status # "SUSPEND" \/ stage = "none")
    /\ wanted' = IF quiet THEN wanted ELSE buffer
    /\ UNCHANGED <<vm, pager, call, screen, irq, main, buffer, conf, binBuf, flash,
                   pinged, raced>>

Pong ==
    /\ usb = "ping" /\ usb' = "idle" /\ VMSuspend
    /\ pinged' = TRUE
    /\ UNCHANGED <<stage, pager, call, screen, main, buffer, conf, binBuf, flash,
                   wanted, quiet>>

(* RESETDBUF, which fills the buffer with what the host expects there, and *)
(* BUFCHK, which does not.                                                 *)
ResetDbuf ==
    /\ Command /\ binBuf' = TRUE /\ buffer' = "sent" /\ wanted' = "sent"
    /\ UNCHANGED <<vm, suspended, pager, call, screen, irq, main, usb, conf, flash,
                   pinged, raced, quiet>>

BufChk ==
    /\ Command /\ ~binBuf /\ binBuf' = TRUE /\ wanted' = buffer
    /\ UNCHANGED <<vm, suspended, pager, call, screen, irq, main, buffer, usb, conf,
                   flash, pinged, raced, quiet>>

WriteData ==
    /\ Command /\ binBuf /\ buffer' = "sent" /\ wanted' = "sent"
    /\ UNCHANGED <<vm, suspended, pager, call, screen, irq, main, usb, conf, binBuf,
                   flash, pinged, raced, quiet>>

(* Without a buffer the exception vectors are programmed.                  *)
Progp ==
    /\ Command /\ flash' = IF binBuf THEN buffer ELSE "vectors"
    /\ UNCHANGED <<vm, suspended, pager, call, screen, irq, main, buffer, usb, conf,
                   binBuf, wanted, pinged, raced, quiet>>

MscData ==
    /\ Command /\ usb' = "mscdata" /\ ToDraw("TinyUSB", 2)
    /\ UNCHANGED <<vm, suspended, pager, call, queue, irq, main, buffer, conf, binBuf,
                   flash, wanted, pinged, raced, quiet>>

MscDraw ==
    /\ usb = "mscdata" /\ Draw("TinyUSB")
    /\ UNCHANGED <<vm, suspended, pager, call, irq, main, buffer, host, raced>>

MscReady ==
    /\ usb = "mscdata" /\ todo["TinyUSB"] = 0
    /\ usb' = "idle" /\ conf' = "SYS_DATA"
    /\ UNCHANGED <<vm, suspended, pager, call, screen, irq, main, buffer, binBuf,
                   flash, wanted, pinged, raced, quiet>>

Host == Ping \/ ResetDbuf \/ BufChk \/ WriteData \/ Progp \/ MscData

TinyUSB == Pong \/ MscDraw \/ MscReady
-----------------------------------------------------------------------------
Next ==
    \/ BootStep
    \/ (\E t \in Faulting : RaiseFault(t)) \/ GuestCall \/ Return \/ Show
    \/ VmSvc \/ VM_Unconscious
    \/ (\E s \in Senders : Notify(s)) \/ Take \/ Inject
    \/ EnterMenu \/ MenuDraw \/ Reset
    \/ Host \/ TinyUSB

Spec == Init /\ [][Next]_vars

(* Tasks that are ready run when those above them rest, which they do      *)
(* again and again.  Of LLIRQ_task nothing is assumed: a guest that keeps  *)
(* its interrupts masked stops it for ever.                                *)
Fairness ==
    /\ WF_vars(VmSvc) /\ WF_vars(TinyUSB) /\ WF_vars(MenuDraw)
    /\ SF_vars(Show) /\ SF_vars(BootStep)

FairSpec == Spec /\ Fairness
-----------------------------------------------------------------------------
TypeOK ==
    /\ stage \in {"draws", "reads", "starts", "guest", "none"}
    /\ status \in {"SUSPEND", "RUNNING", "UNCONSCIOUS"}
    /\ suspended \subseteq Tasks
    /\ fault \in Faulting \cup {None} /\ svc \in {"receive", "load", "panic"}
    /\ svc = "load" => fault # None
    /\ call \in {"receive", "serve"}
    /\ queue \in Seq({"draw", "flush"}) /\ Len(queue) <= DisplayQueueLength
    /\ todo \in [Drawers -> Nat]
    /\ irqs \in 0..IrqQueueLength /\ blocked \subseteq Senders
    /\ irqOn \in BOOLEAN /\ taken \in BOOLEAN
    /\ main \in {"loop", "menu"} /\ usb \in {"idle", "ping", "mscdata"}
    /\ conf \in {"OSLOADER_EDB", "SYS_DATA"}
    /\ buffer \in Contents /\ wanted \in Contents
    /\ flash \in Contents \cup {None}
    /\ binBuf \in BOOLEAN /\ pinged \in BOOLEAN
    /\ raced \in BOOLEAN /\ quiet \in BOOLEAN

(* start.c:406: after PING the host believes the guest to be stopped.  It  *)
(* is, unless VM Svc was serving a fault of it; if the guest has not been  *)
(* started yet, because System, which no one suspends then, cannot get its *)
(* last drawings past the display task.                                    *)
GuestStaysDown ==
    pinged /\ ~raced => stage # "guest" \/ "System" \in suspended

(* start.c:413, 468: the transfer buffer is the page cache.  If the guest  *)
(* and VM Svc were at rest at PING, what is programmed is what was sent.   *)
ProgrammedAsSent ==
    [][flash' \notin {flash, None} /\ quiet /\ binBuf => flash' = wanted]_vars

(* llapi.c:148: the timer daemon, which runs every timer of the OSLoader,  *)
(* waits for a place in LLIRQ_Queue with portMAX_DELAY.  It never waits    *)
(* for a LLIRQ_task that VMSuspend has stopped: VMSuspend empties the      *)
(* queue, which wakes the daemon rather than TinyUSB, and masks the        *)
(* guest's interrupts, so that it does not come back.  A panic empties     *)
(* nothing, and a fault of LLAPI that ends after VMSuspend may unmask.     *)
Panicked == svc = "panic" \/ status = "UNCONSCIOUS"
TimerNotStranded ==
    "LLIRQ" \in suspended /\ ~Panicked /\ ~raced => "timer" \notin blocked

(* start.c:331-370: the panic screen is drawn to the end, unless the task  *)
(* that draws it is stopped for ever.                                      *)
PanicScreenDrawn ==
    svc = "panic" ~> svc # "panic" \/ [](svc = "panic" => "Display" \in suspended)
=============================================================================
