------------------------- MODULE VmLifeCycleProofs -------------------------
(***************************************************************************)
(* Proofs about VmLifeCycle for any lengths of the queues and any numbers  *)
(* of drawings: types, that the guest is down after PING, that VMSuspend   *)
(* leaves no timer daemon waiting, and that what is programmed is what was *)
(* sent.                                                                   *)
(***************************************************************************)
EXTENDS VmLifeCycle, SequenceTheorems, TLAPS

\* TypeOK, by the parts of the state.
SystemTyped ==
    /\ stage \in {"draws", "reads", "starts", "guest", "none"}
    /\ status \in {"SUSPEND", "RUNNING", "UNCONSCIOUS"}
    /\ suspended \subseteq Tasks
    /\ fault \in Faulting \cup {None} /\ svc \in {"receive", "load", "panic"}
    /\ svc = "load" => fault # None
    /\ call \in {"receive", "serve"}

ScreenTyped ==
    /\ queue \in Seq({"draw", "flush"}) /\ Len(queue) <= DisplayQueueLength
    /\ todo \in [Drawers -> Nat]

IrqTyped == irqs \in 0..IrqQueueLength /\ blocked \subseteq Senders

HostTyped ==
    /\ main \in {"loop", "menu"} /\ usb \in {"idle", "ping", "mscdata"}
    /\ conf \in {"OSLOADER_EDB", "SYS_DATA"}
    /\ buffer \in Contents /\ wanted \in Contents
    /\ flash \in Contents \cup {None}

SwitchesTyped ==
    /\ irqOn \in BOOLEAN /\ taken \in BOOLEAN /\ binBuf \in BOOLEAN /\ pinged \in BOOLEAN
    /\ raced \in BOOLEAN /\ quiet \in BOOLEAN

\* Before the guest runs, nobody calls LLAPI, and nothing that is drawn lies
\* in the guest's memory.
BootInv ==
    stage # "guest" =>
        call = "receive" /\ fault \in {None, "System"} /\ queue \in Seq({"draw"})

\* When no system was found, System sleeps for ever.
NoneInv == stage = "none" => "System" \in suspended /\ fault = None

\* The guest is stopped, and no fault of it will end.
Down == {"System", "LLAPI"} \subseteq suspended /\ fault \notin {"System", "LLAPI"}

\* VMSuspend does nothing when the status is SUSPEND: the guest is down then,
\* or was never started, unless VM Svc revived it.
StatusInv ==
    status = "SUSPEND" => raced \/ Down \/ stage \in {"draws", "reads", "none"}

PingInv == usb = "ping" /\ stage # "guest" => "Display" \in suspended

\* System has more to draw than the display queue takes, and nobody draws it.
Held ==
    /\ stage # "guest" /\ "Display" \in suspended
    /\ stage = "starts" => todo["System"] + Len(queue) > DisplayQueueLength

StopInv == pinged /\ ~raced => Down \/ Held

\* Nobody is left who touches the guest's memory.
Resting ==
    /\ "System" \in suspended \/ stage = "none"
    /\ "LLAPI" \in suspended \/ call # "serve"

QuietInv ==
    quiet =>
        /\ fault = None /\ svc = "receive" /\ "Display" \in suspended
        /\ buffer = wanted
        /\ Resting \/ (usb = "ping" /\ (status # "SUSPEND" \/ stage = "none"))

StartInv == BootInv /\ NoneInv
DownInv == StatusInv /\ PingInv /\ StopInv

LifeInv == TypeOK /\ StartInv /\ DownInv /\ QuietInv

LEMMA TypeParts ==
    /\ TypeOK <=> SystemTyped /\ ScreenTyped /\ IrqTyped /\ HostTyped /\ SwitchesTyped
    /\ SystemTyped' /\ ScreenTyped' /\ IrqTyped' /\ HostTyped' /\ SwitchesTyped'
         => TypeOK'
BY DEF TypeOK, SystemTyped, ScreenTyped, IrqTyped, HostTyped, SwitchesTyped
-----------------------------------------------------------------------------
(* The queues *)

LEMMA SendTyped ==
    ASSUME TypeOK, NEW command \in {"draw", "flush"}, Send(command)
    PROVE  /\ queue' \in Seq({"draw", "flush"}) /\ Len(queue') <= DisplayQueueLength
           /\ Len(queue') = Len(queue) + 1
           /\ command = "draw" /\ queue \in Seq({"draw"}) => queue' \in Seq({"draw"})
BY LifeCycleAssumption DEF TypeOK, Send, Room

LEMMA DrawTyped ==
    ASSUME TypeOK, NEW d \in Drawers, Draw(d)
    PROVE  /\ ScreenTyped'
           /\ queue \in Seq({"draw"}) => queue' \in Seq({"draw"})
           /\ todo'["System"] + Len(queue') >= todo["System"] + Len(queue)
<1>1. Send("draw") /\ todo[d] > 0 /\ todo' = [todo EXCEPT ![d] = @ - 1]
  BY DEF Draw
<1>2. todo \in [Drawers -> Nat] /\ "System" \in Drawers /\ Len(queue) \in Nat
  <2>1. todo \in [Drawers -> Nat] /\ Len(queue) \in Nat
    BY DEF TypeOK
  <2> QED BY <2>1 DEF Drawers
<1>3. todo' \in [Drawers -> Nat]
  BY <1>1, <1>2
<1>4. todo'["System"] = todo["System"] \/ todo'["System"] = todo["System"] - 1
  BY <1>1, <1>2
<1>5. todo["System"] \in Nat /\ todo'["System"] \in Nat
  BY <1>2, <1>3
<1>6. todo'["System"] >= todo["System"] - 1
  BY <1>4, <1>5
<1>7. queue' \in Seq({"draw", "flush"}) /\ Len(queue') <= DisplayQueueLength
  BY <1>1, SendTyped
<1>8. Len(queue') = Len(queue) + 1
  BY <1>1, SendTyped
<1>9. todo'["System"] + Len(queue') >= todo["System"] + Len(queue)
  BY <1>2, <1>5, <1>6, <1>8
<1> QED BY <1>1, <1>3, <1>7, <1>9, SendTyped DEF ScreenTyped

LEMMA ToDrawTyped ==
    ASSUME TypeOK, NEW d \in Drawers, NEW n \in Nat, ToDraw(d, n)
    PROVE  /\ todo' \in [Drawers -> Nat] /\ todo'[d] = n
           /\ d # "System" => todo'["System"] = todo["System"]
BY DEF TypeOK, ToDraw, Drawers

LEMMA TailTyped ==
    ASSUME NEW S, NEW q \in Seq(S), q # <<>>
    PROVE  Tail(q) \in Seq(S) /\ Len(Tail(q)) = Len(q) - 1 /\ Head(q) \in S
BY HeadTailProperties

LEMMA ClearTyped ==
    ASSUME TypeOK, ClearIRQs
    PROVE  IrqTyped'
<1>1. 0 \in 0..IrqQueueLength /\ 1 \in 0..IrqQueueLength
  BY LifeCycleAssumption
<1>2. irqs' \in {0, 1} /\ blocked' \subseteq blocked
  BY DEF ClearIRQs
<1> QED BY <1>1, <1>2 DEF IrqTyped, TypeOK
-----------------------------------------------------------------------------
(* LifeInv *)

LEMMA DrawKeeps ==
    ASSUME LifeInv, NEW d \in Drawers, Draw(d),
           UNCHANGED <<vm, suspended, pager, call, irq, main, buffer, host, raced>>
    PROVE  LifeInv'
<1> USE DEF LifeInv, vm, pager, screen, irq, host
<1>0. ScreenTyped /\ ScreenTyped' /\ "System" \in Drawers
  BY DrawTyped, TypeParts DEF Drawers
<1>a. Len(queue) \in Nat /\ Len(queue') \in Nat
  BY <1>0 DEF ScreenTyped
<1>b. todo["System"] \in Nat /\ todo'["System"] \in Nat
  BY <1>0 DEF ScreenTyped
<1>1. SystemTyped' /\ IrqTyped' /\ HostTyped' /\ SwitchesTyped'
  BY DEF TypeOK, SystemTyped, IrqTyped, HostTyped, SwitchesTyped, None,
     Guest, Tasks, Faulting, Contents
<1>2. ScreenTyped'
  BY DrawTyped DEF TypeOK, ScreenTyped
<1>3. StartInv'
  BY DrawTyped DEF StartInv, BootInv, NoneInv
<1>4. DownInv'
  BY <1>a, <1>b, DrawTyped, LifeCycleAssumption DEF DownInv, StatusInv,
     PingInv, StopInv, Down, Held
<1>5. QuietInv'
  BY DEF QuietInv, Resting
<1> QED BY TypeParts, <1>1, <1>2, <1>3, <1>4, <1>5

LEMMA StepKeeps ==
    ASSUME LifeInv, BootDraw \/ PanicDraw \/ MenuDraw \/ MscDraw
    PROVE  LifeInv'
<1>1. PICK d \in Drawers :
        Draw(d) /\ UNCHANGED <<vm, suspended, pager, call, irq, main, buffer, host, raced>>
  BY DEF BootDraw, PanicDraw, MenuDraw, MscDraw, Drawers
<1> QED BY <1>1, DrawKeeps

LEMMA ReadRomKeeps ==
    ASSUME LifeInv, ReadRom
    PROVE  LifeInv'
<1> USE DEF LifeInv, vm, pager, screen, irq, host
<1>1. SystemTyped' /\ ScreenTyped' /\ IrqTyped' /\ HostTyped' /\ SwitchesTyped'
  BY DEF TypeOK, SystemTyped, ScreenTyped, IrqTyped, HostTyped,
     SwitchesTyped, ReadRom, Boot, None, Guest, Tasks, Faulting, Contents
<1>2. StartInv'
  BY DEF StartInv, BootInv, NoneInv, ReadRom, Boot
<1>3. DownInv'
  BY DEF DownInv, StatusInv, PingInv, StopInv, Down, Held, ReadRom, Boot,
     Runs, None, Guest
<1>4. QuietInv'
  BY DEF QuietInv, Resting, ReadRom, Boot, Runs, None, Guest
<1> QED BY TypeParts, <1>1, <1>2, <1>3, <1>4

LEMMA NoSystemKeeps ==
    ASSUME LifeInv, NoSystem
    PROVE  LifeInv'
<1> USE DEF LifeInv, vm, pager, screen, irq, host
<1>1. SystemTyped' /\ ScreenTyped' /\ IrqTyped' /\ HostTyped' /\ SwitchesTyped'
  BY DEF TypeOK, SystemTyped, ScreenTyped, IrqTyped, HostTyped,
     SwitchesTyped, NoSystem, None, Guest, Tasks, Faulting, Contents
<1>2. StartInv'
  BY DEF StartInv, BootInv, NoneInv, NoSystem
<1>3. DownInv'
  BY DEF DownInv, StatusInv, PingInv, StopInv, Down, Held, NoSystem
<1>4. QuietInv'
  BY DEF QuietInv, Resting, NoSystem
<1> QED BY TypeParts, <1>1, <1>2, <1>3, <1>4

LEMMA SetRunningKeeps ==
    ASSUME LifeInv, SetRunning
    PROVE  LifeInv'
<1> USE DEF LifeInv, vm, pager, screen, irq, host
<1>a. ToDraw("System", BootDraws) /\ "System" \in Drawers /\ BootDraws \in Nat
  BY LifeCycleAssumption DEF SetRunning, Drawers
<1>b. Len(queue) \in Nat /\ DisplayQueueLength \in Nat /\ BootDraws > DisplayQueueLength
  BY LifeCycleAssumption DEF TypeOK
<1>1. SystemTyped' /\ IrqTyped' /\ HostTyped' /\ SwitchesTyped'
  BY DEF TypeOK, SystemTyped, IrqTyped, HostTyped, SwitchesTyped, SetRunning,
     Boot, None, Guest, Tasks, Faulting, Contents
<1>2. ScreenTyped'
  BY <1>a, ToDrawTyped DEF TypeOK, ScreenTyped, SetRunning, Boot
<1>3. StartInv'
  BY DEF StartInv, BootInv, NoneInv, SetRunning, Boot
<1>4. DownInv'
  BY <1>a, <1>b, ToDrawTyped DEF DownInv, StatusInv, PingInv, StopInv, Down,
     Held, SetRunning, Boot
<1>5. QuietInv'
  BY DEF QuietInv, Resting, SetRunning, Boot
<1> QED BY TypeParts, <1>1, <1>2, <1>3, <1>4, <1>5

LEMMA EnterGuestKeeps ==
    ASSUME LifeInv, EnterGuest
    PROVE  LifeInv'
<1> USE DEF LifeInv, vm, pager, screen, irq, host
<1>a. Len(queue) <= DisplayQueueLength /\ Len(queue) \in Nat /\ DisplayQueueLength \in Nat
  BY LifeCycleAssumption DEF TypeOK
<1>1. SystemTyped' /\ ScreenTyped' /\ IrqTyped' /\ HostTyped' /\ SwitchesTyped'
  BY DEF TypeOK, SystemTyped, ScreenTyped, IrqTyped, HostTyped,
     SwitchesTyped, EnterGuest, Boot, None, Guest, Tasks, Faulting, Contents
<1>2. StartInv'
  BY DEF StartInv, BootInv, NoneInv, EnterGuest, Boot
<1>3. DownInv'
  BY <1>a DEF DownInv, StatusInv, PingInv, StopInv, Down, Held, EnterGuest,
     Boot
<1>4. QuietInv'
  BY DEF QuietInv, Resting, EnterGuest, Boot
<1> QED BY TypeParts, <1>1, <1>2, <1>3, <1>4

LEMMA RaiseFaultKeeps ==
    ASSUME LifeInv, NEW t \in Faulting, RaiseFault(t)
    PROVE  LifeInv'
<1> USE DEF LifeInv, vm, pager, screen, irq, host
<1>a. AtWork(t) /\ t \in {"System", "LLAPI", "Display"}
  BY DEF RaiseFault, Faulting
<1>b. queue \in Seq({"draw"}) /\ queue # <<>> => Head(queue) = "draw"
  BY TailTyped
<1>c. /\ t = "System" => stage = "guest"
      /\ t = "LLAPI" => call = "serve"
      /\ t = "Display" => queue # <<>> /\ Head(queue) = "flush"
  BY <1>a DEF AtWork
<1>d. stage = "guest"
  BY <1>a, <1>b, <1>c DEF StartInv, BootInv
<1>1. SystemTyped' /\ ScreenTyped' /\ IrqTyped' /\ HostTyped' /\ SwitchesTyped'
  BY DEF TypeOK, SystemTyped, ScreenTyped, IrqTyped, HostTyped,
     SwitchesTyped, RaiseFault, None, Guest, Tasks, Faulting, Contents
<1>2. StartInv'
  BY <1>d DEF StartInv, BootInv, NoneInv, RaiseFault
<1>3. DownInv'
  BY <1>a, <1>d DEF DownInv, StatusInv, PingInv, StopInv, Down, Held,
     RaiseFault, Runs, None, Guest
<1>4. QuietInv'
  BY <1>a, <1>c, <1>d DEF QuietInv, Resting, RaiseFault, Runs, None, Guest
<1> QED BY TypeParts, <1>1, <1>2, <1>3, <1>4

LEMMA GuestCallKeeps ==
    ASSUME LifeInv, GuestCall
    PROVE  LifeInv'
<1> USE DEF LifeInv, vm, pager, screen, irq, host
<1>1. SystemTyped' /\ ScreenTyped' /\ IrqTyped' /\ HostTyped' /\ SwitchesTyped'
  BY DEF TypeOK, SystemTyped, ScreenTyped, IrqTyped, HostTyped,
     SwitchesTyped, GuestCall, None, Guest, Tasks, Faulting, Contents
<1>2. StartInv'
  BY DEF StartInv, BootInv, NoneInv, GuestCall, Working, Runs, AtWork, None,
     Guest
<1>3. DownInv'
  BY DEF DownInv, StatusInv, PingInv, StopInv, Down, Held, GuestCall
<1>4. QuietInv'
  BY DEF QuietInv, Resting, GuestCall, Working, Runs, AtWork, None, Guest
<1> QED BY TypeParts, <1>1, <1>2, <1>3, <1>4

LEMMA ReturnKeeps ==
    ASSUME LifeInv, Return
    PROVE  LifeInv'
<1> USE DEF LifeInv, vm, pager, screen, irq, host
<1>a. Send("flush") \/ UNCHANGED queue
  BY DEF Return
<1>1. SystemTyped' /\ IrqTyped' /\ HostTyped'
  BY DEF TypeOK, SystemTyped, IrqTyped, HostTyped, Return, None, Guest,
     Tasks, Faulting, Contents
<1>2. ScreenTyped'
  BY <1>a, SendTyped DEF TypeOK, ScreenTyped, Return
<1>3. SwitchesTyped'
  <2>1. irqOn' \in BOOLEAN
    BY DEF Return, TypeOK
  <2> QED BY <2>1 DEF TypeOK, SwitchesTyped, Return
<1>4. StartInv'
  BY DEF StartInv, BootInv, NoneInv, Return, Working, Runs, AtWork, None,
     Guest
<1>5. DownInv'
  BY DEF DownInv, StatusInv, PingInv, StopInv, Down, Held, Return, Working,
     Runs, AtWork, None, Guest, BootInv, StartInv, NoneInv
<1>6. QuietInv'
  BY DEF QuietInv, Resting, Return, Working, Runs, AtWork, None, Guest
<1> QED BY TypeParts, <1>1, <1>2, <1>3, <1>4, <1>5, <1>6

LEMMA ShowKeeps ==
    ASSUME LifeInv, Show
    PROVE  LifeInv'
<1> USE DEF LifeInv, vm, pager, screen, irq, host
<1>a. queue # <<>> /\ queue' = Tail(queue)
  BY DEF Show
<1>b. queue \in Seq({"draw"}) => queue' \in Seq({"draw"})
  BY <1>a, TailTyped
<1>1. SystemTyped' /\ IrqTyped' /\ HostTyped' /\ SwitchesTyped'
  BY DEF TypeOK, SystemTyped, IrqTyped, HostTyped, SwitchesTyped, Show, None,
     Guest, Tasks, Faulting, Contents
<1>2. ScreenTyped'
  <2>1. queue \in Seq({"draw", "flush"}) /\ Len(queue) \in Nat
    BY DEF TypeOK
  <2>2. queue' \in Seq({"draw", "flush"}) /\ Len(queue') = Len(queue) - 1
    BY <1>a, <2>1, TailTyped
  <2> QED BY <2>1, <2>2, LifeCycleAssumption DEF TypeOK, ScreenTyped, Show
<1>3. StartInv'
  BY <1>b DEF StartInv, BootInv, NoneInv, Show
<1>4. DownInv'
  BY DEF DownInv, StatusInv, PingInv, StopInv, Down, Held, Show, Runs, None,
     Guest
<1>5. QuietInv'
  BY DEF QuietInv, Resting, Show
<1> QED BY TypeParts, <1>1, <1>2, <1>3, <1>4, <1>5

LEMMA ReceiveKeeps ==
    ASSUME LifeInv, Receive
    PROVE  LifeInv'
<1> USE DEF LifeInv, vm, pager, screen, irq, host
<1>1. SystemTyped' /\ ScreenTyped' /\ IrqTyped' /\ HostTyped' /\ SwitchesTyped'
  BY DEF TypeOK, SystemTyped, ScreenTyped, IrqTyped, HostTyped,
     SwitchesTyped, Receive, None, Guest, Tasks, Faulting, Contents
<1>2. StartInv'
  BY DEF StartInv, BootInv, NoneInv, Receive
<1>3. DownInv'
  BY DEF DownInv, StatusInv, PingInv, StopInv, Down, Held, Receive
<1>4. QuietInv'
  BY DEF QuietInv, Resting, Receive
<1> QED BY TypeParts, <1>1, <1>2, <1>3, <1>4

LEMMA LoadKeeps ==
    ASSUME LifeInv, Load
    PROVE  LifeInv'
<1> USE DEF LifeInv, vm, pager, screen, irq, host
<1>1. SystemTyped' /\ ScreenTyped' /\ IrqTyped' /\ HostTyped' /\ SwitchesTyped'
  BY DEF TypeOK, SystemTyped, ScreenTyped, IrqTyped, HostTyped,
     SwitchesTyped, Load, None, Guest, Tasks, Faulting, Contents
<1>2. StartInv'
  BY DEF StartInv, BootInv, NoneInv, Load, None
<1>3. DownInv'
  BY DEF DownInv, StatusInv, PingInv, StopInv, Down, Held, Load, None, Guest,
     BootInv, StartInv, NoneInv
<1>4. QuietInv'
  BY DEF QuietInv, Resting, Load
<1> QED BY TypeParts, <1>1, <1>2, <1>3, <1>4

LEMMA VM_UnconsciousKeeps ==
    ASSUME LifeInv, VM_Unconscious
    PROVE  LifeInv'
<1> USE DEF LifeInv, vm, pager, screen, irq, host
<1>a. ToDraw("VM Svc", PanicDraws) /\ "VM Svc" \in Drawers /\ PanicDraws \in Nat
  BY LifeCycleAssumption DEF VM_Unconscious, Drawers
<1>1. SystemTyped'
  BY DEF TypeOK, SystemTyped, VM_Unconscious, None, Guest, Tasks, Faulting
<1>2. IrqTyped'
  BY DEF TypeOK, IrqTyped, VM_Unconscious
<1>3. HostTyped'
  BY DEF TypeOK, HostTyped, None, VM_Unconscious
<1>4. SwitchesTyped'
  BY DEF TypeOK, SwitchesTyped, VM_Unconscious
<1>5. ScreenTyped'
  BY <1>a, ToDrawTyped DEF TypeOK, ScreenTyped, VM_Unconscious
<1>6. StartInv'
  BY DEF StartInv, BootInv, NoneInv, VM_Unconscious
<1>7. DownInv'
  BY <1>a, ToDrawTyped DEF DownInv, StatusInv, PingInv, StopInv, Down, Held,
     VM_Unconscious, None
<1>8. QuietInv'
  BY DEF QuietInv, Resting, VM_Unconscious
<1> QED BY TypeParts, <1>1, <1>2, <1>3, <1>4, <1>5, <1>6, <1>7, <1>8

LEMMA PanicDrawnKeeps ==
    ASSUME LifeInv, PanicDrawn
    PROVE  LifeInv'
<1> USE DEF LifeInv, vm, pager, screen, irq, host
<1>1. SystemTyped'
  BY DEF TypeOK, SystemTyped, None, PanicDrawn
<1>2. ScreenTyped'
  BY DEF TypeOK, ScreenTyped, PanicDrawn
<1>3. IrqTyped'
  BY DEF TypeOK, IrqTyped, PanicDrawn
<1>4. HostTyped'
  BY DEF TypeOK, HostTyped, None, PanicDrawn
<1>5. SwitchesTyped'
  BY DEF TypeOK, SwitchesTyped, PanicDrawn
<1>6. StartInv'
  BY DEF StartInv, BootInv, NoneInv, PanicDrawn
<1>7. DownInv'
  BY DEF DownInv, StatusInv, PingInv, StopInv, Down, Held, PanicDrawn
<1>8. QuietInv'
  BY DEF QuietInv, Resting, PanicDrawn
<1> QED BY TypeParts, <1>1, <1>2, <1>3, <1>4, <1>5, <1>6, <1>7, <1>8

LEMMA NotifyKeeps ==
    ASSUME LifeInv, NEW s \in Senders, Notify(s)
    PROVE  LifeInv'
<1> USE DEF LifeInv, vm, pager, screen, irq, host
<1>1. SystemTyped' /\ ScreenTyped' /\ HostTyped' /\ SwitchesTyped'
  BY DEF TypeOK, SystemTyped, ScreenTyped, HostTyped, SwitchesTyped, Notify,
     None, Guest, Tasks, Faulting, Contents
<1>2. IrqTyped'
  BY LifeCycleAssumption DEF TypeOK, IrqTyped, Notify
<1>3. StartInv'
  BY DEF StartInv, BootInv, NoneInv, Notify
<1>4. DownInv'
  BY DEF DownInv, StatusInv, PingInv, StopInv, Down, Held, Notify
<1>5. QuietInv'
  BY DEF QuietInv, Resting, Notify
<1> QED BY TypeParts, <1>1, <1>2, <1>3, <1>4, <1>5

LEMMA TakeKeeps ==
    ASSUME LifeInv, Take
    PROVE  LifeInv'
<1> USE DEF LifeInv, vm, pager, screen, irq, host
<1>1. SystemTyped' /\ ScreenTyped' /\ HostTyped' /\ SwitchesTyped'
  BY DEF TypeOK, SystemTyped, ScreenTyped, HostTyped, SwitchesTyped, Take,
     None, Guest, Tasks, Faulting, Contents
<1>2. IrqTyped'
  BY LifeCycleAssumption DEF TypeOK, IrqTyped, Take
<1>3. StartInv'
  BY DEF StartInv, BootInv, NoneInv, Take
<1>4. DownInv'
  BY DEF DownInv, StatusInv, PingInv, StopInv, Down, Held, Take
<1>5. QuietInv'
  BY DEF QuietInv, Resting, Take
<1> QED BY TypeParts, <1>1, <1>2, <1>3, <1>4, <1>5

LEMMA InjectKeeps ==
    ASSUME LifeInv, Inject
    PROVE  LifeInv'
<1> USE DEF LifeInv, vm, pager, screen, irq, host
<1>1. SystemTyped' /\ ScreenTyped' /\ HostTyped'
  BY DEF TypeOK, SystemTyped, ScreenTyped, HostTyped, Inject,
     None, Guest, Tasks, Faulting, Contents
<1>2. IrqTyped' /\ SwitchesTyped'
  BY DEF TypeOK, IrqTyped, SwitchesTyped, Inject
<1>3. StartInv'
  BY DEF StartInv, BootInv, NoneInv, Inject
<1>4. DownInv'
  BY DEF DownInv, StatusInv, PingInv, StopInv, Down, Held, Inject
<1>5. QuietInv'
  BY DEF QuietInv, Resting, Inject
<1> QED BY TypeParts, <1>1, <1>2, <1>3, <1>4, <1>5

LEMMA EnterMenuKeeps ==
    ASSUME LifeInv, EnterMenu
    PROVE  LifeInv'
<1> USE DEF LifeInv, vm, pager, screen, irq, host
<1>a. ToDraw("Main", MenuDraws) /\ "Main" \in Drawers /\ MenuDraws \in Nat
  BY LifeCycleAssumption DEF EnterMenu, Drawers
<1>1. SystemTyped'
  BY DEF TypeOK, SystemTyped, EnterMenu, VMSuspend, SuspendGuest, None,
     Guest, Tasks, Faulting
<1>2. HostTyped'
  BY DEF TypeOK, HostTyped, None, EnterMenu, VMSuspend, SuspendGuest
<1>3. SwitchesTyped'
  BY DEF TypeOK, SwitchesTyped, EnterMenu, VMSuspend, SuspendGuest
<1>4. ScreenTyped'
  BY <1>a, ToDrawTyped DEF TypeOK, ScreenTyped, EnterMenu
<1>5. IrqTyped'
  BY ClearTyped DEF TypeOK, IrqTyped, EnterMenu, VMSuspend, SuspendGuest
<1>6. StartInv'
  BY DEF StartInv, BootInv, NoneInv, EnterMenu, VMSuspend, SuspendGuest
<1>7. DownInv'
  BY <1>a, ToDrawTyped DEF DownInv, StatusInv, PingInv, StopInv, Down, Held,
     EnterMenu, VMSuspend, SuspendGuest, None, Guest
<1>8. QuietInv'
  BY DEF QuietInv, Resting, EnterMenu, VMSuspend, SuspendGuest, None, Guest
<1> QED BY TypeParts, <1>1, <1>2, <1>3, <1>4, <1>5, <1>6, <1>7, <1>8

LEMMA ResetKeeps ==
    ASSUME LifeInv, Reset
    PROVE  LifeInv'
<1> USE DEF LifeInv, vm, pager, screen, irq, host
<1>a. <<>> \in Seq({"draw", "flush"}) /\ <<>> \in Seq({"draw"}) /\ Len(<<>>) = 0
  OBVIOUS
<1>1. SystemTyped' /\ HostTyped' /\ SwitchesTyped'
  BY DEF TypeOK, SystemTyped, HostTyped, SwitchesTyped, Reset, None, Guest,
     Tasks, Faulting, Contents
<1>2. ScreenTyped'
  BY <1>a, LifeCycleAssumption DEF TypeOK, ScreenTyped, Reset
<1>3. IrqTyped'
  BY LifeCycleAssumption DEF TypeOK, IrqTyped, Reset
<1>4. StartInv'
  BY <1>a DEF StartInv, BootInv, NoneInv, Reset
<1>5. DownInv'
  BY DEF DownInv, StatusInv, PingInv, StopInv, Down, Held, Reset
<1>6. QuietInv'
  BY DEF QuietInv, Resting, Reset
<1> QED BY TypeParts, <1>1, <1>2, <1>3, <1>4, <1>5, <1>6

LEMMA PingKeeps ==
    ASSUME LifeInv, Ping
    PROVE  LifeInv'
<1> USE DEF LifeInv, vm, pager, screen, irq, host
<1>1. SystemTyped' /\ ScreenTyped' /\ IrqTyped' /\ HostTyped' /\ SwitchesTyped'
  BY DEF TypeOK, SystemTyped, ScreenTyped, IrqTyped, HostTyped,
     SwitchesTyped, Ping, Command, Silenced, None, Guest, Tasks, Faulting,
     Contents
<1>2. StartInv'
  BY DEF StartInv, BootInv, NoneInv, Ping, Silenced
<1>3. DownInv'
  BY DEF DownInv, StatusInv, PingInv, StopInv, Down, Held, Ping, Silenced
<1>4. QuietInv'
  BY DEF QuietInv, Resting, Ping, Silenced
<1> QED BY TypeParts, <1>1, <1>2, <1>3, <1>4

LEMMA PongKeeps ==
    ASSUME LifeInv, Pong
    PROVE  LifeInv'
<1> USE DEF LifeInv, vm, pager, screen, irq, host
<1>1. SystemTyped'
  BY DEF TypeOK, SystemTyped, Pong, VMSuspend, SuspendGuest, None, Guest,
     Tasks, Faulting
<1>2. ScreenTyped'
  BY DEF TypeOK, ScreenTyped, Pong, VMSuspend, SuspendGuest
<1>3. HostTyped'
  BY DEF TypeOK, HostTyped, None, Pong, VMSuspend, SuspendGuest
<1>4. SwitchesTyped'
  BY DEF TypeOK, SwitchesTyped, Pong, VMSuspend, SuspendGuest
<1>5. IrqTyped'
  BY ClearTyped DEF TypeOK, IrqTyped, Pong, VMSuspend, SuspendGuest
<1>6. StartInv'
  BY DEF StartInv, BootInv, NoneInv, Pong, VMSuspend, SuspendGuest
<1>7. DownInv'
  BY DEF DownInv, StatusInv, PingInv, StopInv, Down, Held, Pong, VMSuspend,
     SuspendGuest, None, Guest
<1>8. QuietInv'
  BY DEF QuietInv, Resting, Pong, VMSuspend, SuspendGuest, None, Guest,
     BootInv, StartInv, NoneInv
<1> QED BY TypeParts, <1>1, <1>2, <1>3, <1>4, <1>5, <1>6, <1>7, <1>8

LEMMA ResetDbufKeeps ==
    ASSUME LifeInv, ResetDbuf
    PROVE  LifeInv'
<1> USE DEF LifeInv, vm, pager, screen, irq, host
<1>1. SystemTyped' /\ ScreenTyped' /\ IrqTyped' /\ HostTyped' /\ SwitchesTyped'
  BY DEF TypeOK, SystemTyped, ScreenTyped, IrqTyped, HostTyped,
     SwitchesTyped, ResetDbuf, None, Guest, Tasks, Faulting, Contents
<1>2. StartInv'
  BY DEF StartInv, BootInv, NoneInv, ResetDbuf
<1>3. DownInv'
  BY DEF DownInv, StatusInv, PingInv, StopInv, Down, Held, ResetDbuf
<1>4. QuietInv'
  BY DEF QuietInv, Resting, ResetDbuf
<1> QED BY TypeParts, <1>1, <1>2, <1>3, <1>4

LEMMA BufChkKeeps ==
    ASSUME LifeInv, BufChk
    PROVE  LifeInv'
<1> USE DEF LifeInv, vm, pager, screen, irq, host
<1>1. SystemTyped' /\ ScreenTyped' /\ IrqTyped' /\ HostTyped' /\ SwitchesTyped'
  BY DEF TypeOK, SystemTyped, ScreenTyped, IrqTyped, HostTyped,
     SwitchesTyped, BufChk, None, Guest, Tasks, Faulting, Contents
<1>2. StartInv'
  BY DEF StartInv, BootInv, NoneInv, BufChk
<1>3. DownInv'
  BY DEF DownInv, StatusInv, PingInv, StopInv, Down, Held, BufChk
<1>4. QuietInv'
  BY DEF QuietInv, Resting, BufChk
<1> QED BY TypeParts, <1>1, <1>2, <1>3, <1>4

LEMMA WriteDataKeeps ==
    ASSUME LifeInv, WriteData
    PROVE  LifeInv'
<1> USE DEF LifeInv, vm, pager, screen, irq, host
<1>1. SystemTyped' /\ ScreenTyped' /\ IrqTyped' /\ HostTyped' /\ SwitchesTyped'
  BY DEF TypeOK, SystemTyped, ScreenTyped, IrqTyped, HostTyped,
     SwitchesTyped, WriteData, None, Guest, Tasks, Faulting, Contents
<1>2. StartInv'
  BY DEF StartInv, BootInv, NoneInv, WriteData
<1>3. DownInv'
  BY DEF DownInv, StatusInv, PingInv, StopInv, Down, Held, WriteData
<1>4. QuietInv'
  BY DEF QuietInv, Resting, WriteData
<1> QED BY TypeParts, <1>1, <1>2, <1>3, <1>4

LEMMA ProgpKeeps ==
    ASSUME LifeInv, Progp
    PROVE  LifeInv'
<1> USE DEF LifeInv, vm, pager, screen, irq, host
<1>1. SystemTyped' /\ ScreenTyped' /\ IrqTyped' /\ HostTyped' /\ SwitchesTyped'
  BY DEF TypeOK, SystemTyped, ScreenTyped, IrqTyped, HostTyped,
     SwitchesTyped, Progp, None, Guest, Tasks, Faulting, Contents
<1>2. StartInv'
  BY DEF StartInv, BootInv, NoneInv, Progp
<1>3. DownInv'
  BY DEF DownInv, StatusInv, PingInv, StopInv, Down, Held, Progp
<1>4. QuietInv'
  BY DEF QuietInv, Resting, Progp
<1> QED BY TypeParts, <1>1, <1>2, <1>3, <1>4

LEMMA MscDataKeeps ==
    ASSUME LifeInv, MscData
    PROVE  LifeInv'
<1> USE DEF LifeInv, vm, pager, screen, irq, host
<1>a. ToDraw("TinyUSB", 2) /\ "TinyUSB" \in Drawers
  BY DEF MscData, Drawers
<1>1. SystemTyped' /\ IrqTyped' /\ HostTyped' /\ SwitchesTyped'
  BY DEF TypeOK, SystemTyped, IrqTyped, HostTyped, SwitchesTyped, MscData,
     None, Guest, Tasks, Faulting, Contents
<1>2. ScreenTyped'
  BY <1>a, ToDrawTyped DEF TypeOK, ScreenTyped, MscData
<1>3. StartInv'
  BY DEF StartInv, BootInv, NoneInv, MscData
<1>4. DownInv'
  BY <1>a, ToDrawTyped DEF DownInv, StatusInv, PingInv, StopInv, Down, Held,
     MscData
<1>5. QuietInv'
  BY DEF QuietInv, Resting, MscData, Command, None, Guest
<1> QED BY TypeParts, <1>1, <1>2, <1>3, <1>4, <1>5

LEMMA MscReadyKeeps ==
    ASSUME LifeInv, MscReady
    PROVE  LifeInv'
<1> USE DEF LifeInv, vm, pager, screen, irq, host
<1>1. SystemTyped' /\ ScreenTyped' /\ IrqTyped' /\ HostTyped' /\ SwitchesTyped'
  BY DEF TypeOK, SystemTyped, ScreenTyped, IrqTyped, HostTyped,
     SwitchesTyped, MscReady, None, Guest, Tasks, Faulting, Contents
<1>2. StartInv'
  BY DEF StartInv, BootInv, NoneInv, MscReady
<1>3. DownInv'
  BY DEF DownInv, StatusInv, PingInv, StopInv, Down, Held, MscReady
<1>4. QuietInv'
  BY DEF QuietInv, Resting, MscReady
<1> QED BY TypeParts, <1>1, <1>2, <1>3, <1>4

LEMMA LifeInvariant == Spec => []LifeInv
<1>1. Init => LifeInv
  <2> SUFFICES ASSUME Init PROVE LifeInv
    OBVIOUS
  <2>1. TypeOK
    <3>1. <<>> \in Seq({"draw", "flush"}) /\ Len(<<>>) = 0
      OBVIOUS
    <3>2. SystemTyped /\ HostTyped /\ SwitchesTyped
      BY DEF Init, SystemTyped, HostTyped, SwitchesTyped, None, Tasks, Faulting, Contents
    <3>3. ScreenTyped
      BY <3>1, LifeCycleAssumption DEF Init, ScreenTyped
    <3>4. IrqTyped
      BY LifeCycleAssumption DEF Init, IrqTyped
    <3> QED BY <3>2, <3>3, <3>4, TypeParts
  <2>2. StartInv /\ DownInv /\ QuietInv
    BY DEF Init, StartInv, BootInv, NoneInv, DownInv, StatusInv, PingInv, StopInv,
       QuietInv, None
  <2> QED BY <2>1, <2>2 DEF LifeInv
<1>2. LifeInv /\ [Next]_vars => LifeInv'
  <2> SUFFICES ASSUME LifeInv, [Next]_vars PROVE LifeInv'
    OBVIOUS
  <2>1. CASE BootStep
    BY <2>1, StepKeeps, ReadRomKeeps, NoSystemKeeps, SetRunningKeeps, EnterGuestKeeps
       DEF BootStep
  <2>2. CASE \E t \in Faulting : RaiseFault(t)
    BY <2>2, RaiseFaultKeeps
  <2>3. CASE GuestCall \/ Return \/ Show
    BY <2>3, GuestCallKeeps, ReturnKeeps, ShowKeeps
  <2>4. CASE VmSvc \/ VM_Unconscious
    BY <2>4, ReceiveKeeps, LoadKeeps, StepKeeps, PanicDrawnKeeps, VM_UnconsciousKeeps
       DEF VmSvc
  <2>5. CASE (\E s \in Senders : Notify(s)) \/ Take \/ Inject
    BY <2>5, NotifyKeeps, TakeKeeps, InjectKeeps
  <2>6. CASE EnterMenu \/ MenuDraw \/ Reset
    BY <2>6, EnterMenuKeeps, StepKeeps, ResetKeeps
  <2>7. CASE Host
    BY <2>7, PingKeeps, ResetDbufKeeps, BufChkKeeps, WriteDataKeeps, ProgpKeeps,
       MscDataKeeps DEF Host
  <2>8. CASE TinyUSB
    BY <2>8, PongKeeps, StepKeeps, MscReadyKeeps DEF TinyUSB
  <2>9. CASE UNCHANGED vars
    BY <2>9 DEF vars, LifeInv, TypeOK, StartInv, BootInv, NoneInv, DownInv, StatusInv,
       PingInv, StopInv, Down, Held, QuietInv, Resting
  <2> QED BY <2>1, <2>2, <2>3, <2>4, <2>5, <2>6, <2>7, <2>8, <2>9 DEF Next
<1> QED BY <1>1, <1>2, PTL DEF Spec
-----------------------------------------------------------------------------
(* The timer daemon *)

\* Only the guest, once it has been started, panics.
PanicInv == Panicked => stage = "guest"

\* VMSuspend leaves the interrupts masked, and nobody who could unmask them.
Masked == "LLAPI" \in suspended /\ fault # "LLAPI" /\ ~irqOn

TimerInv ==
    "LLIRQ" \in suspended /\ ~Panicked /\ ~raced => Masked /\ "timer" \notin blocked

\* One of those who wait is woken, and the daemon before TinyUSB.
LEMMA ClearWakesTimer ==
    ASSUME ClearIRQs
    PROVE  "timer" \notin blocked'
BY DEF ClearIRQs, First

LEMMA VMSuspendStops ==
    ASSUME PanicInv, TimerInv, VMSuspend, UNCHANGED <<stage, pager>>
    PROVE  PanicInv' /\ TimerInv'
<1>1. CASE status = "SUSPEND"
  BY <1>1 DEF VMSuspend, PanicInv, TimerInv, Panicked, Masked, pager, irq
<1>2. CASE status # "SUSPEND"
  <2>1. PanicInv'
    BY <1>2 DEF VMSuspend, PanicInv, Panicked, pager
  <2>2. "timer" \notin blocked' /\ irqOn' = FALSE /\ "LLAPI" \in suspended'
    BY <1>2, ClearWakesTimer DEF VMSuspend, SuspendGuest, Guest
  <2>3. ~raced' => fault' # "LLAPI"
    BY <1>2 DEF VMSuspend, pager
  <2> QED BY <2>1, <2>2, <2>3 DEF TimerInv, Masked
<1> QED BY <1>1, <1>2

LEMMA TimerStep ==
    ASSUME LifeInv, PanicInv, TimerInv, [Next]_vars
    PROVE  PanicInv' /\ TimerInv'
<1> USE DEF vm, pager, screen, irq, host
<1>1. CASE BootStep
  BY <1>1 DEF BootStep, BootDraw, ReadRom, NoSystem, SetRunning, EnterGuest, Boot,
              PanicInv, TimerInv, Masked, Panicked
<1>2. ASSUME NEW t \in Faulting, RaiseFault(t) PROVE PanicInv' /\ TimerInv'
  BY <1>2 DEF RaiseFault, Runs, PanicInv, TimerInv, Masked, Panicked
<1>3. CASE GuestCall \/ Return \/ Show
  BY <1>3 DEF GuestCall, Return, Show, Working, Runs, PanicInv, TimerInv, Masked, Panicked
<1>4. CASE VmSvc \/ VM_Unconscious
  <2>1. CASE Receive \/ Load
    BY <2>1 DEF Receive, Load, LifeInv, TypeOK, Faulting, None, PanicInv, TimerInv, Masked,
                Panicked
  <2>2. CASE PanicDraw \/ PanicDrawn \/ VM_Unconscious
    BY <2>2 DEF PanicDraw, PanicDrawn, VM_Unconscious, PanicInv, TimerInv, Masked, Panicked
  <2> QED BY <1>4, <2>1, <2>2 DEF VmSvc
<1>5. CASE (\E s \in Senders : Notify(s)) \/ Take \/ Inject
  BY <1>5 DEF Notify, Take, Inject, Runs, PanicInv, TimerInv, Masked, Panicked
<1>6. CASE EnterMenu \/ Pong
  BY <1>6, VMSuspendStops DEF EnterMenu, Pong
<1>7. CASE MenuDraw \/ Reset
  BY <1>7 DEF MenuDraw, Reset, None, PanicInv, TimerInv, Masked, Panicked
<1>8. CASE Host
  BY <1>8 DEF Host, Ping, ResetDbuf, BufChk, WriteData, Progp, MscData, Silenced,
              PanicInv, TimerInv, Masked, Panicked
<1>9. CASE MscDraw \/ MscReady
  BY <1>9 DEF MscDraw, MscReady, PanicInv, TimerInv, Masked, Panicked
<1>10. CASE UNCHANGED vars
  BY <1>10 DEF vars, PanicInv, TimerInv, Masked, Panicked
<1> QED
  BY <1>1, <1>2, <1>3, <1>4, <1>5, <1>6, <1>7, <1>8, <1>9, <1>10 DEF Next, TinyUSB

LEMMA TimerInvariant == Spec => [](PanicInv /\ TimerInv)
<1>1. Init => PanicInv /\ TimerInv
  BY DEF Init, PanicInv, TimerInv, Panicked
<1>2. LifeInv /\ PanicInv /\ TimerInv /\ [Next]_vars => PanicInv' /\ TimerInv'
  BY TimerStep
<1> QED BY <1>1, <1>2, LifeInvariant, PTL DEF Spec
-----------------------------------------------------------------------------
(* The theorems *)

(* The types of what start.c and the host's commands keep.                 *)
THEOREM TypeCorrect == Spec => []TypeOK
<1>1. LifeInv => TypeOK
  BY DEF LifeInv
<1> QED BY <1>1, LifeInvariant, PTL

(* start.c:393-407: after the answer to PING the guest is down, unless VM  *)
(* Svc was serving a fault of it; however many drawings System has still   *)
(* to send, when the display queue takes fewer.                            *)
THEOREM GuestStopped == Spec => []GuestStaysDown
<1>1. LifeInv => GuestStaysDown
  BY DEF LifeInv, DownInv, StopInv, Down, Held, GuestStaysDown
<1> QED BY <1>1, LifeInvariant, PTL

(* llapi.c:148, start.c:286: whatever the lengths of the queues, the timer *)
(* daemon is not left waiting for a LLIRQ_task that VMSuspend has stopped, *)
(* unless the guest panicked or VM Svc was serving a fault of it.          *)
THEOREM TimersGoOn == Spec => []TimerNotStranded
<1>1. TimerInv => TimerNotStranded
  BY DEF TimerInv, TimerNotStranded
<1> QED BY <1>1, TimerInvariant, PTL

(* start.c:410-480: with the guest and VM Svc at rest at PING, no step but *)
(* the host's changes the buffer, and what PROGP programs is what was sent. *)
THEOREM UploadIntact == Spec => ProgrammedAsSent
<1>1. LifeInv /\ [Next]_vars =>
        [flash' \notin {flash, None} /\ quiet /\ binBuf => flash' = wanted]_vars
  <2> SUFFICES ASSUME LifeInv, [Next]_vars, flash' \notin {flash, None}, quiet, binBuf
               PROVE  flash' = wanted
    OBVIOUS
  <2>1. Progp
    BY DEF Next, BootStep, BootDraw, ReadRom, NoSystem, SetRunning, EnterGuest, Boot,
       RaiseFault, GuestCall, Return, Show, VmSvc, Receive, Load, VM_Unconscious,
       PanicDraw, PanicDrawn, Notify, Take, Inject, EnterMenu, MenuDraw, Reset, Host, Ping,
       ResetDbuf, BufChk, WriteData, MscData, TinyUSB, Pong, MscDraw, MscReady, host,
       vars
  <2> QED BY <2>1 DEF Progp, LifeInv, QuietInv
<1> QED BY <1>1, LifeInvariant, PTL DEF Spec, ProgrammedAsSent
=============================================================================
