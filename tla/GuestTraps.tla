----------------------------- MODULE GuestTraps -----------------------------
(***************************************************************************)
(* How the guest's FreeRTOS kernel gets its interrupts and its context     *)
(* switches from OSLoader.  The whole guest is one OSLoader task whose     *)
(* register frame OSLoader rewrites: LLIRQ_task injects an interrupt, the  *)
(* LLAPI task injects the supervisor call a guest task made with SWI 0.    *)
(* Either pushes the frame on vm_saved_context and points it at the        *)
(* guest's handler; the handler fetches the frame with ll_get_context,     *)
(* puts it on the stack of the current guest task, picks the next task and *)
(* hands that one's frame to ll_restore_context.                           *)
(*                                                                         *)
(* A call of the guest is one step: LLAPI has a higher priority than       *)
(* LLIRQ_task and the guest, and whatever it waits for is done by tasks of *)
(* higher priority still, MTD polling its interrupt flag all the while.  A *)
(* frame is a task and a place in its code.                                *)
(***************************************************************************)
EXTENDS Naturals, Sequences

CONSTANTS Tasks,            \* tasks of the guest
          NumPoints,        \* places in the code of a task, run through in turn
          MaxNesting,       \* critical sections nest no deeper
          Senders,          \* OSLoader tasks that queue interrupts: timer, TinyUSB
          QueueLen,         \* length of LLIRQ_Queue
          NoFrame           \* a register frame that holds no guest task

ASSUME TrapsAssumption ==
    /\ Tasks # {}
    /\ NumPoints \in Nat \ {0}
    /\ MaxNesting \in Nat
    /\ QueueLen \in Nat
    /\ NoFrame \notin [task : Tasks, point : 0 .. NumPoints - 1]

VARIABLES cur,          \* pxCurrentTCB of the guest's kernel
          mode,         \* curExp: "task", "irq" or "svc"
          stage,        \* how far the handler is: "get", "switch", "restore"
          regs,         \* register frame of the guest while it runs a task
          contexts,     \* vm_saved_context up to context_ptr
          buffer,       \* irq_saved_context and swi_saved_context
          saved,        \* frame and nesting on top of each task's stack
          nesting,      \* ulCriticalNesting
          stval,        \* vm_temp_storage[0]
          irqEnabled,   \* vm_enable_irq
          inException,  \* vm_in_exception
          inPagefault,  \* g_vm_in_pagefault
          irqs,         \* interrupts in LLIRQ_Queue
          blocked,      \* senders blocked on LLIRQ_Queue
          taken,        \* LLIRQ_task has received an interrupt
          depth,        \* ghost: critical sections each task's code is in
          yielded       \* ghost: tasks that have yielded in the one they are in

guestVars == <<cur, buffer, saved, nesting, stval, depth, yielded>>
frameVars == <<mode, stage, regs, contexts, inException>>
queueVars == <<irqs, blocked, taken>>
vars == <<guestVars, frameVars, queueVars, irqEnabled, inPagefault>>

Points == 0 .. NumPoints - 1
NextPoint(p) == (p + 1) % NumPoints
Frames == [task : Tasks, point : Points]
Handlers == {"irq", "svc"}

\* vPortISRStartFirstTask: the first task runs with interrupts enabled; every
\* other task has the frame pxPortInitialiseStack gave it.
Init ==
    /\ cur \in Tasks
    /\ mode = "task"
    /\ stage = "restore"
    /\ regs = [task |-> cur, point |-> 0]
    /\ contexts = <<>>
    /\ buffer = [h \in Handlers |-> NoFrame]
    /\ saved = [t \in Tasks |->
                  [frame |-> [task |-> t, point |-> 0], nesting |-> 0]]
    /\ nesting = 0
    /\ stval = 0
    /\ irqEnabled = TRUE
    /\ inException = FALSE
    /\ inPagefault \in BOOLEAN
    /\ irqs = 0
    /\ blocked = {}
    /\ taken = FALSE
    /\ depth = [t \in Tasks |-> 0]
    /\ yielded = {}
-----------------------------------------------------------------------------
(***************************************************************************)
(* The guest's tasks                                                       *)
(***************************************************************************)
Advanced == [regs EXCEPT !.point = NextPoint(@)]

Instruction ==
    /\ mode = "task"
    /\ regs' = Advanced
    /\ UNCHANGED <<guestVars, mode, stage, contexts, inException, queueVars,
                   irqEnabled, inPagefault>>

vPortEnterCritical ==
    /\ mode = "task"
    /\ depth[regs.task] < MaxNesting
    /\ irqEnabled' = FALSE
    /\ nesting' = nesting + 1
    /\ depth' = [depth EXCEPT ![regs.task] = @ + 1]
    /\ UNCHANGED <<cur, buffer, saved, stval, yielded, frameVars, queueVars,
                   inPagefault>>

\* The code of the running task leaves a critical section, its outermost one too.
LeaveSection ==
    /\ depth[regs.task] > 0
    /\ depth' = [depth EXCEPT ![regs.task] = @ - 1]
    /\ yielded' = IF depth[regs.task] = 1 THEN yielded \ {regs.task} ELSE yielded

\* Mutants of vPortExitCritical: ulCriticalNesting is decremented without a look
\* at it; leaving an inner critical section enables interrupts.
ExitUnchecked ==
    /\ mode = "task"
    /\ LeaveSection
    /\ nesting' = nesting - 1
    /\ irqEnabled' = (irqEnabled \/ nesting = 1)
    /\ UNCHANGED <<cur, buffer, saved, stval, frameVars, queueVars, inPagefault>>

ExitEnables ==
    /\ mode = "task"
    /\ LeaveSection
    /\ nesting' = IF nesting > 0 THEN nesting - 1 ELSE 0
    /\ irqEnabled' = TRUE
    /\ UNCHANGED <<cur, buffer, saved, stval, frameVars, queueVars, inPagefault>>

vPortExitCritical ==
    /\ mode = "task"
    /\ LeaveSection
    /\ nesting' = IF nesting > 0 THEN nesting - 1 ELSE 0
    /\ irqEnabled' = (irqEnabled \/ nesting = 1)
    /\ UNCHANGED <<cur, buffer, saved, stval, frameVars, queueVars, inPagefault>>

\* vm_save_context, vm_jump_irq and vm_jump_svc.
Jump(handler, frame) ==
    /\ contexts' = Append(contexts, frame)
    /\ mode' = handler
    /\ stage' = "get"
    /\ regs' = NoFrame
    /\ inException' = TRUE

\* SWI 0, which ends in the default case of the LLAPI task.  FreeRTOS's queues
\* and notifications yield inside a critical section when they wake a task.
Yield ==
    /\ mode = "task"
    /\ Jump("svc", Advanced)
    /\ yielded' = IF depth[regs.task] > 0 THEN yielded \cup {regs.task} ELSE yielded
    /\ UNCHANGED <<cur, buffer, saved, nesting, stval, depth, queueVars, irqEnabled,
                   inPagefault>>

(***************************************************************************)
(* The guest's handlers IRQ_ISR and SWI_ISR                                *)
(***************************************************************************)
\* ll_get_context: LL_SWI_GET_CONTEXT, get_saved_context.
GetContext ==
    /\ mode \in Handlers
    /\ stage = "get"
    /\ stage' = "switch"
    /\ IF contexts = <<>>
         THEN UNCHANGED <<contexts, buffer>>
         ELSE /\ contexts' = SubSeq(contexts, 1, Len(contexts) - 1)
              /\ buffer' = [buffer EXCEPT ![mode] = contexts[Len(contexts)]]
    /\ UNCHANGED <<cur, mode, regs, inException, saved, nesting, stval, depth,
                   yielded, queueVars, irqEnabled, inPagefault>>

\* Mutant of StackFrame: SWI_ISR stacks the frame in irq_saved_context.
StackIrqFrame(t) ==
    [saved EXCEPT ![t] = [frame |-> buffer["irq"], nesting |-> stval]]

\* The frame goes on the stack of the current task with the nesting that was
\* stored at the last restore, not with ulCriticalNesting.
StackFrame(t) ==
    [saved EXCEPT ![t] = [frame |-> buffer[mode], nesting |-> stval]]

\* vTaskSwitchContext, or not; then what the chosen task had on its stack.
Reschedule ==
    /\ mode \in Handlers
    /\ stage = "switch"
    /\ saved' = StackFrame(cur)
    /\ cur' \in Tasks
    /\ nesting' = saved'[cur'].nesting
    /\ stval' = nesting'
    /\ stage' = "restore"
    /\ UNCHANGED <<mode, regs, contexts, inException, buffer, depth, yielded,
                   queueVars, irqEnabled, inPagefault>>

\* ll_restore_context: LL_SWI_RESTORE_CONTEXT, vm_load_context.
RestoreContext ==
    /\ mode \in Handlers
    /\ stage = "restore"
    /\ regs' = saved[cur].frame
    /\ irqEnabled' = (nesting = 0)
    /\ inException' = FALSE
    /\ mode' = "task"
    /\ UNCHANGED <<guestVars, stage, contexts, queueVars, inPagefault>>

(***************************************************************************)
(* Page faults, of the guest or on its behalf.  The handler sets the flag, *)
(* VM Svc clears it, except after it has only reloaded a segment.  Neither *)
(* the guest nor LLIRQ_task runs in between.                               *)
(***************************************************************************)
PageLoaded ==
    /\ inPagefault' = FALSE
    /\ UNCHANGED <<guestVars, frameVars, queueVars, irqEnabled>>

SegmentReloaded ==
    /\ inPagefault' = TRUE
    /\ UNCHANGED <<guestVars, frameVars, queueVars, irqEnabled>>

(***************************************************************************)
(* Interrupts                                                              *)
(***************************************************************************)
\* tickTimer, LLIO_NotifySerialRxAvailable.
Notify(s) ==
    /\ irqEnabled
    /\ s \notin blocked
    /\ IF irqs < QueueLen
         THEN irqs' = irqs + 1 /\ UNCHANGED blocked
         ELSE blocked' = blocked \cup {s} /\ UNCHANGED irqs
    /\ UNCHANGED <<guestVars, frameVars, taken, irqEnabled, inPagefault>>

\* LLIRQ_task receives; a blocked sender gets the room at once.
ReceiveIrq ==
    /\ ~taken
    /\ irqs > 0
    /\ taken' = TRUE
    /\ \/ blocked = {} /\ irqs' = irqs - 1 /\ UNCHANGED blocked
       \/ \E s \in blocked : blocked' = blocked \ {s} /\ UNCHANGED irqs
    /\ UNCHANGED <<guestVars, frameVars, irqEnabled, inPagefault>>

\* Mutants of InjectIrq: LLIRQ_task does not wait for the end of an exception;
\* it does not look at vm_enable_irq.
InjectNested ==
    /\ taken
    /\ ~inPagefault
    /\ irqEnabled
    /\ Jump("irq", regs)
    /\ taken' = FALSE
    /\ UNCHANGED <<guestVars, irqs, blocked, irqEnabled, inPagefault>>

InjectMasked ==
    /\ taken
    /\ ~inPagefault
    /\ ~inException
    /\ Jump("irq", regs)
    /\ taken' = FALSE
    /\ UNCHANGED <<guestVars, irqs, blocked, irqEnabled, inPagefault>>

InjectIrq ==
    /\ taken
    /\ ~inPagefault
    /\ irqEnabled
    /\ ~inException
    /\ Jump("irq", regs)
    /\ taken' = FALSE
    /\ UNCHANGED <<guestVars, irqs, blocked, irqEnabled, inPagefault>>
-----------------------------------------------------------------------------
Next ==
    \/ Instruction
    \/ vPortEnterCritical
    \/ vPortExitCritical
    \/ Yield
    \/ GetContext
    \/ Reschedule
    \/ RestoreContext
    \/ PageLoaded
    \/ SegmentReloaded
    \/ \E s \in Senders : Notify(s)
    \/ ReceiveIrq
    \/ InjectIrq

Spec == Init /\ [][Next]_vars
-----------------------------------------------------------------------------
(***************************************************************************)
(* Properties                                                              *)
(***************************************************************************)
Stack == [frame : Frames \cup {NoFrame}, nesting : 0 .. MaxNesting]

\* Every variable keeps its type.
TypeOK ==
    /\ cur \in Tasks
    /\ mode \in Handlers \cup {"task"}
    /\ stage \in {"get", "switch", "restore"}
    /\ regs \in Frames \cup {NoFrame}
    /\ contexts \in Seq(Frames \cup {NoFrame})
    /\ buffer \in [Handlers -> Frames \cup {NoFrame}]
    /\ saved \in [Tasks -> Stack]
    /\ nesting \in 0 .. MaxNesting
    /\ stval \in 0 .. MaxNesting
    /\ irqEnabled \in BOOLEAN
    /\ inException \in BOOLEAN
    /\ inPagefault \in BOOLEAN
    /\ irqs \in 0 .. QueueLen
    /\ blocked \subseteq Senders
    /\ taken \in BOOLEAN
    /\ depth \in [Tasks -> 0 .. MaxNesting]
    /\ yielded \subseteq Tasks

\* vm_saved_context holds at most one frame, so that its five places are never
\* exceeded and get_saved_context never finds it empty: vm_in_exception keeps
\* LLIRQ_task out until the handler has handed its frame back.
ContextsNested ==
    /\ inException <=> mode \in Handlers
    /\ Len(contexts) = IF mode \in Handlers /\ stage = "get" THEN 1 ELSE 0

FramesOf(t) == [task : {t}, point : Points]

\* Wherever the frame of the current task is, in OSLoader, in the handler's
\* buffer or on the stack, it is the frame of that task; so is every other
\* task's: a context switch never resumes one task with the registers of
\* another.
FramesInPlace ==
    /\ mode = "task" => regs \in FramesOf(cur)
    /\ mode \in Handlers /\ stage = "get" =>
          \A i \in DOMAIN contexts : contexts[i] \in FramesOf(cur)
    /\ mode \in Handlers /\ stage = "switch" => buffer[mode] \in FramesOf(cur)
    /\ \A t \in Tasks :
          t # cur \/ (mode \in Handlers /\ stage = "restore")
              => saved[t].frame \in FramesOf(t)

\* A running task is interruptible exactly while ulCriticalNesting is zero, and
\* ulCriticalNesting counts the critical sections it is in: neither is taken from
\* one task to the next by a context switch.  A task that has yielded in a
\* critical section goes on without those it was in then, until it has left
\* them; what other tasks do, in or out of critical sections, never costs it one.
MaskFollowsNesting ==
    mode = "task" =>
        /\ irqEnabled <=> nesting = 0
        /\ nesting <= depth[cur]
        /\ cur \notin yielded => nesting = depth[cur]

\* No interrupt is handled while the current task is in a critical section in
\* which it has not yielded.
CriticalSectionUninterrupted ==
    mode = "irq" /\ stage # "restore" => depth[cur] = 0 \/ cur \in yielded

\* portISR.c:112-115: the nesting "is then saved as part of the stack context",
\* and so a task has it back after every switch (queue.c:839-842: to yield "from
\* within the critical section" is "ok").
NestingIsStacked == mode = "task" => nesting = depth[cur]

Place(t) ==
    IF t # cur \/ (mode \in Handlers /\ stage = "restore") THEN saved[t].frame.point
    ELSE IF mode = "task" THEN regs.point
    ELSE IF stage = "switch" THEN buffer[mode].point
    ELSE contexts[Len(contexts)].point

Abstract == INSTANCE GuestTasks WITH
    running <- cur,
    at <- [t \in Tasks |-> Place(t)],
    released <- yielded,
    yielding <- (mode = "svc" /\ stage # "restore")

\* The frames that OSLoader, the handlers and the stacks pass round make up
\* one processor shared by the guest's tasks.
ImplementsGuestTasks == Abstract!Spec
=============================================================================
