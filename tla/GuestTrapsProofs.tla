-------------------------- MODULE GuestTrapsProofs --------------------------
(***************************************************************************)
(* Proofs about GuestTraps for any number of tasks, places, senders and    *)
(* any queue length.                                                       *)
(***************************************************************************)
EXTENDS GuestTraps, TLAPS

\* The nesting that the handlers stack and restore is always zero, and
\* ulCriticalNesting never exceeds the critical sections of the running task.
NestingSaved ==
    /\ stval = 0
    /\ \A t \in Tasks : saved[t].nesting = 0
    /\ mode \in Handlers /\ stage = "restore" => nesting = 0
    /\ mode = "task" => nesting <= depth[cur]

TrapInv == TypeOK /\ ContextsNested /\ FramesInPlace /\ NestingSaved

\* A task that does not have the processor is in no critical section, or it has
\* yielded in the one it is in.
OthersOutside ==
    \A t \in Tasks : t # cur \/ mode # "task" => depth[t] = 0 \/ t \in yielded

MaskInv == MaskFollowsNesting /\ OthersOutside
-----------------------------------------------------------------------------
(***************************************************************************)
(* Facts about places and frames                                           *)
(***************************************************************************)
\* The next place in a task's code is a place.
LEMMA NextPointType ==
    ASSUME NEW p \in Points
    PROVE  NextPoint(p) \in Points
BY TrapsAssumption, SMT DEF NextPoint, Points

\* The running task's frame, moved on by an instruction, is a frame of it.
LEMMA AdvancedType ==
    ASSUME regs \in FramesOf(cur)
    PROVE  /\ Advanced \in FramesOf(cur)
           /\ Advanced.point = NextPoint(regs.point)
<1>1. regs.point \in Points BY DEF FramesOf
<1>2. NextPoint(regs.point) \in Points BY <1>1, NextPointType
<1> QED BY <1>2 DEF Advanced, FramesOf

\* The frames of a task are frames, and name it.
LEMMA FramesOfType ==
    ASSUME NEW t \in Tasks, NEW f \in FramesOf(t)
    PROVE  f \in Frames /\ f.task = t /\ f.point \in Points
BY DEF FramesOf, Frames

-----------------------------------------------------------------------------
(***************************************************************************)
(* TrapInv is inductive: one lemma for each group of actions               *)
(***************************************************************************)
LEMMA InitTrapInv == Init => TrapInv
<1> SUFFICES ASSUME Init PROVE TrapInv OBVIOUS
<1>1. 0 \in Points BY TrapsAssumption DEF Points
<1>2. \A t \in Tasks : [task |-> t, point |-> 0] \in FramesOf(t)
  BY <1>1 DEF FramesOf
<1>3. regs \in FramesOf(cur) BY <1>2 DEF Init
<1>4. \A t \in Tasks : saved[t].frame \in FramesOf(t) /\ saved[t].nesting = 0
  BY <1>2 DEF Init
<1>5. saved \in [Tasks -> Stack]
  <2>1. \A t \in Tasks :
          [frame |-> [task |-> t, point |-> 0], nesting |-> 0] \in Stack
    BY <1>1, TrapsAssumption DEF Stack, Frames
  <2> QED BY <2>1 DEF Init
<1>6. TypeOK
  <2>1. cur \in Tasks BY DEF Init
  <2>2. regs \in Frames BY <1>3, <2>1, FramesOfType
  <2>3. contexts \in Seq(Frames \cup {NoFrame}) BY DEF Init
  <2>4. buffer \in [Handlers -> Frames \cup {NoFrame}] BY DEF Init
  <2>5. inPagefault \in BOOLEAN BY DEF Init
  <2>6. depth \in [Tasks -> 0 .. MaxNesting] BY TrapsAssumption DEF Init
  <2>7. /\ mode \in Handlers \cup {"task"}
        /\ stage \in {"get", "switch", "restore"}
        /\ irqEnabled \in BOOLEAN
        /\ inException \in BOOLEAN
        /\ blocked \subseteq Senders
        /\ taken \in BOOLEAN
    BY DEF Init
  <2>9. yielded \subseteq Tasks BY DEF Init
  <2>8. /\ nesting \in 0 .. MaxNesting
        /\ stval \in 0 .. MaxNesting
        /\ irqs \in 0 .. QueueLen
    BY TrapsAssumption DEF Init
  <2> QED BY <1>5, <2>1, <2>2, <2>3, <2>4, <2>5, <2>6, <2>7, <2>8, <2>9 DEF TypeOK
<1>7. ContextsNested BY DEF Init, ContextsNested, Handlers
<1>8. FramesInPlace BY <1>3, <1>4 DEF Init, FramesInPlace, Handlers
<1>9. NestingSaved
  BY <1>4, TrapsAssumption DEF Init, NestingSaved, Handlers
<1> QED BY <1>6, <1>7, <1>8, <1>9 DEF TrapInv

\* While a task runs, its frame is in OSLoader and nothing else is under way.
LEMMA TaskRuns ==
    ASSUME TrapInv, mode = "task"
    PROVE  /\ regs \in FramesOf(cur)
           /\ regs \in Frames
           /\ regs.task = cur
           /\ cur \in Tasks
           /\ contexts = <<>>
           /\ mode \notin Handlers
<1>1. contexts \in Seq(Frames \cup {NoFrame}) /\ cur \in Tasks BY DEF TrapInv, TypeOK
<1>2. mode \notin Handlers BY DEF Handlers
<1>3. Len(contexts) = 0 BY <1>2 DEF TrapInv, ContextsNested
<1>4. contexts = <<>> BY <1>1, <1>3
<1>5. regs \in FramesOf(cur) BY DEF TrapInv, FramesInPlace
<1> QED BY <1>1, <1>2, <1>4, <1>5, FramesOfType

LEMMA InstructionTrapInv ==
    ASSUME TrapInv, Instruction
    PROVE  TrapInv'
<1>1. mode = "task" BY DEF Instruction
<1>2. Advanced \in FramesOf(cur) /\ cur \in Tasks BY <1>1, TaskRuns, AdvancedType
<1>3. Advanced \in Frames BY <1>2, FramesOfType
<1> USE DEF Instruction, guestVars, queueVars
<1>4. TypeOK' BY <1>3 DEF TrapInv, TypeOK
<1>5. ContextsNested' BY DEF TrapInv, ContextsNested
<1>6. FramesInPlace' BY <1>1, <1>2 DEF TrapInv, FramesInPlace, Handlers, FramesOf
<1>7. NestingSaved' BY DEF TrapInv, NestingSaved
<1> QED BY <1>4, <1>5, <1>6, <1>7 DEF TrapInv

LEMMA CriticalTrapInv ==
    ASSUME TrapInv, vPortEnterCritical \/ vPortExitCritical
    PROVE  TrapInv'
<1> USE DEF frameVars, queueVars
<1>1. mode = "task" BY DEF vPortEnterCritical, vPortExitCritical, LeaveSection
<1>2. regs.task = cur /\ cur \in Tasks BY <1>1, TaskRuns
<1>3. /\ nesting \in Nat
      /\ depth \in [Tasks -> 0 .. MaxNesting]
      /\ depth[cur] \in 0 .. MaxNesting
      /\ nesting <= depth[cur]
      /\ irqEnabled \in BOOLEAN
  BY <1>1, <1>2, TrapsAssumption DEF TrapInv, TypeOK, NestingSaved
<1>4. /\ nesting' \in 0 .. MaxNesting
      /\ depth' \in [Tasks -> 0 .. MaxNesting]
      /\ nesting' <= depth'[cur]
      /\ irqEnabled' \in BOOLEAN
  <2>1. CASE vPortEnterCritical
    <3>1. depth' = [depth EXCEPT ![cur] = depth[cur] + 1]
      BY <1>2, <2>1 DEF vPortEnterCritical
    <3>2. depth[cur] + 1 \in 0 .. MaxNesting /\ nesting' = nesting + 1
      BY <1>2, <1>3, <2>1, TrapsAssumption DEF vPortEnterCritical
    <3>3. depth'[cur] = depth[cur] + 1 BY <1>2, <1>3, <3>1
    <3>4. depth' \in [Tasks -> 0 .. MaxNesting] BY <1>3, <3>1, <3>2
    <3>5. irqEnabled' \in BOOLEAN BY <2>1 DEF vPortEnterCritical
    <3> QED BY <1>3, <3>2, <3>3, <3>4, <3>5, TrapsAssumption
  <2>2. CASE vPortExitCritical
    <3>1. depth' = [depth EXCEPT ![cur] = depth[cur] - 1]
      BY <1>2, <2>2 DEF vPortExitCritical, LeaveSection
    <3>2. /\ depth[cur] - 1 \in 0 .. MaxNesting
          /\ nesting' = IF nesting > 0 THEN nesting - 1 ELSE 0
      BY <1>2, <1>3, <2>2, TrapsAssumption DEF vPortExitCritical, LeaveSection
    <3>3. depth'[cur] = depth[cur] - 1 BY <1>2, <1>3, <3>1
    <3>4. depth' \in [Tasks -> 0 .. MaxNesting] BY <1>3, <3>1, <3>2
    <3>5. irqEnabled' \in BOOLEAN BY <1>3, <2>2 DEF vPortExitCritical, LeaveSection
    <3> QED BY <1>3, <3>2, <3>3, <3>4, <3>5, TrapsAssumption
  <2> QED BY <2>1, <2>2
<1>5. UNCHANGED <<cur, buffer, saved, stval, frameVars, queueVars, inPagefault>>
  BY DEF vPortEnterCritical, vPortExitCritical, LeaveSection
<1>10. yielded' \subseteq Tasks
  BY <1>2 DEF vPortEnterCritical, vPortExitCritical, LeaveSection, TrapInv, TypeOK
<1>6. TypeOK' BY <1>4, <1>5, <1>10 DEF TrapInv, TypeOK
<1>7. ContextsNested' BY <1>5 DEF TrapInv, ContextsNested
<1>8. FramesInPlace' BY <1>5 DEF TrapInv, FramesInPlace, FramesOf
<1>9. NestingSaved' BY <1>1, <1>4, <1>5 DEF TrapInv, NestingSaved, Handlers
<1> QED BY <1>6, <1>7, <1>8, <1>9 DEF TrapInv

\* Entering a handler of the guest moves the frame on vm_saved_context.
LEMMA JumpTrapInv ==
    ASSUME TrapInv, mode = "task",
           NEW h \in Handlers, NEW f \in FramesOf(cur),
           Jump(h, f), yielded' \subseteq Tasks,
           UNCHANGED <<cur, buffer, saved, nesting, stval, depth, irqEnabled,
                       inPagefault>>,
           irqs' \in 0 .. QueueLen, blocked' \subseteq Senders,
           taken' \in BOOLEAN
    PROVE  /\ TrapInv'
           /\ contexts' = <<f>>
<1>1. contexts = <<>> /\ cur \in Tasks BY TaskRuns
<1>2. contexts' = <<f>> BY <1>1 DEF Jump
<1>3. f \in Frames BY <1>1, FramesOfType
<1>4. contexts' \in Seq(Frames \cup {NoFrame}) BY <1>2, <1>3
<1>5. TypeOK' BY <1>4 DEF TrapInv, TypeOK, Jump
<1>6. ContextsNested' BY <1>2 DEF ContextsNested, Jump
<1>7. FramesInPlace'
  BY <1>2 DEF TrapInv, FramesInPlace, FramesOf, Jump, Handlers
<1>8. NestingSaved' BY DEF TrapInv, NestingSaved, Jump, Handlers
<1> QED BY <1>2, <1>5, <1>6, <1>7, <1>8 DEF TrapInv

LEMMA YieldTrapInv ==
    ASSUME TrapInv, Yield
    PROVE  /\ TrapInv'
           /\ contexts' = <<Advanced>>
<1>1. mode = "task" BY DEF Yield
<1>2. Advanced \in FramesOf(cur) BY <1>1, TaskRuns, AdvancedType
<1>3. irqs' \in 0 .. QueueLen /\ blocked' \subseteq Senders /\ taken' \in BOOLEAN
  BY DEF Yield, queueVars, TrapInv, TypeOK
<1>4. "svc" \in Handlers BY DEF Handlers
<1>5. regs.task \in Tasks BY <1>1, TaskRuns
<1>6. yielded' \subseteq Tasks BY <1>5 DEF Yield, TrapInv, TypeOK
<1> QED BY <1>1, <1>2, <1>3, <1>4, <1>6, JumpTrapInv DEF Yield

LEMMA InjectTrapInv ==
    ASSUME TrapInv, InjectIrq
    PROVE  /\ TrapInv'
           /\ contexts' = <<regs>>
           /\ mode = "task"
<1>1. mode = "task"
  BY DEF InjectIrq, TrapInv, TypeOK, ContextsNested
<1>2. regs \in FramesOf(cur) BY <1>1, TaskRuns
<1>3. irqs' \in 0 .. QueueLen /\ blocked' \subseteq Senders /\ taken' \in BOOLEAN
  BY DEF InjectIrq, TrapInv, TypeOK
<1>4. "irq" \in Handlers BY DEF Handlers
<1>5. yielded' \subseteq Tasks BY DEF InjectIrq, guestVars, TrapInv, TypeOK
<1> QED BY <1>1, <1>2, <1>3, <1>4, <1>5, JumpTrapInv DEF InjectIrq, guestVars

\* ll_get_context finds exactly the frame of the current task.
LEMMA GetContextTakes ==
    ASSUME TrapInv, GetContext
    PROVE  /\ contexts = <<contexts[1]>>
           /\ contexts[1] \in FramesOf(cur)
           /\ contexts' = <<>>
           /\ buffer' = [buffer EXCEPT ![mode] = contexts[1]]
<1>1. contexts \in Seq(Frames \cup {NoFrame}) BY DEF TrapInv, TypeOK
<1>2. Len(contexts) = 1 BY DEF GetContext, TrapInv, ContextsNested
<1>3. contexts = <<contexts[1]>> /\ contexts # <<>> BY <1>1, <1>2
<1>4. 1 \in DOMAIN contexts BY <1>1, <1>2
<1>5. contexts[1] \in FramesOf(cur)
  BY <1>4 DEF GetContext, TrapInv, FramesInPlace
<1>6. SubSeq(contexts, 1, 0) = <<>> BY <1>1
<1> QED BY <1>2, <1>3, <1>5, <1>6 DEF GetContext

LEMMA GetContextTrapInv ==
    ASSUME TrapInv, GetContext
    PROVE  TrapInv'
<1> USE DEF GetContext, queueVars
<1>1. /\ contexts[1] \in FramesOf(cur)
      /\ contexts' = <<>>
      /\ buffer' = [buffer EXCEPT ![mode] = contexts[1]]
  BY GetContextTakes
<1>2. contexts[1] \in Frames BY <1>1, FramesOfType DEF TrapInv, TypeOK
<1>3. buffer' \in [Handlers -> Frames \cup {NoFrame}] /\ buffer'[mode] = contexts[1]
  BY <1>1, <1>2 DEF TrapInv, TypeOK
<1>4. TypeOK' BY <1>1, <1>3 DEF TrapInv, TypeOK
<1>5. ContextsNested' BY <1>1 DEF TrapInv, ContextsNested
<1>6. FramesInPlace'
  BY <1>1, <1>3 DEF TrapInv, FramesInPlace, FramesOf, Handlers
<1>7. NestingSaved' BY DEF TrapInv, NestingSaved, Handlers
<1> QED BY <1>4, <1>5, <1>6, <1>7 DEF TrapInv

\* The frame in the handler's buffer goes on the stack of its own task, and
\* with it a nesting of zero.
LEMMA RescheduleStacks ==
    ASSUME TrapInv, Reschedule
    PROVE  /\ saved' = [saved EXCEPT ![cur] = [frame |-> buffer[mode], nesting |-> 0]]
           /\ saved' \in [Tasks -> Stack]
           /\ \A t \in Tasks :
                saved'[t].frame \in FramesOf(t) /\ saved'[t].nesting = 0
           /\ nesting' = 0
           /\ stval' = 0
<1>1. buffer[mode] \in FramesOf(cur) /\ cur \in Tasks /\ stval = 0
  BY DEF Reschedule, TrapInv, TypeOK, FramesInPlace, NestingSaved
<1>2. buffer[mode] \in Frames BY <1>1, FramesOfType
<1>3. saved' = [saved EXCEPT ![cur] = [frame |-> buffer[mode], nesting |-> 0]]
  BY <1>1 DEF Reschedule, StackFrame
<1>4. [frame |-> buffer[mode], nesting |-> 0] \in Stack
  BY <1>2, TrapsAssumption DEF Stack
<1>5. saved' \in [Tasks -> Stack] BY <1>3, <1>4 DEF TrapInv, TypeOK
<1>6. \A t \in Tasks : saved'[t].frame \in FramesOf(t) /\ saved'[t].nesting = 0
  <2> SUFFICES ASSUME NEW t \in Tasks
               PROVE  saved'[t].frame \in FramesOf(t) /\ saved'[t].nesting = 0
    OBVIOUS
  <2>1. CASE t = cur BY <1>1, <1>3, <2>1 DEF TrapInv, TypeOK
  <2>2. CASE t # cur
    <3>1. saved'[t] = saved[t] BY <1>3, <2>2 DEF TrapInv, TypeOK
    <3> QED BY <2>2, <3>1 DEF TrapInv, FramesInPlace, NestingSaved
  <2> QED BY <2>1, <2>2
<1>7. nesting' = 0 /\ stval' = 0 BY <1>6 DEF Reschedule
<1> QED BY <1>3, <1>5, <1>6, <1>7

LEMMA RescheduleTrapInv ==
    ASSUME TrapInv, Reschedule
    PROVE  TrapInv'
<1> USE DEF Reschedule, queueVars
<1>1. /\ saved' \in [Tasks -> Stack]
      /\ \A t \in Tasks :
           saved'[t].frame \in FramesOf(t) /\ saved'[t].nesting = 0
      /\ nesting' = 0
      /\ stval' = 0
  BY RescheduleStacks
<1>2. TypeOK' BY <1>1, TrapsAssumption DEF TrapInv, TypeOK
<1>3. ContextsNested' BY DEF TrapInv, ContextsNested
<1>4. FramesInPlace' BY <1>1 DEF TrapInv, FramesInPlace, FramesOf, Handlers
<1>5. NestingSaved' BY <1>1 DEF TrapInv, NestingSaved, Handlers
<1> QED BY <1>2, <1>3, <1>4, <1>5 DEF TrapInv

LEMMA RestoreTrapInv ==
    ASSUME TrapInv, RestoreContext
    PROVE  /\ TrapInv'
           /\ nesting = 0
           /\ saved[cur].frame \in FramesOf(cur)
<1> USE DEF RestoreContext, queueVars, guestVars
<1>1. saved[cur].frame \in FramesOf(cur) /\ cur \in Tasks
  BY DEF TrapInv, TypeOK, FramesInPlace
<1>2. saved[cur].frame \in Frames BY <1>1, FramesOfType
<1>3. nesting = 0 BY DEF TrapInv, NestingSaved
<1>4. depth[cur] \in Nat BY <1>1, TrapsAssumption DEF TrapInv, TypeOK
<1>5. TypeOK' BY <1>2 DEF TrapInv, TypeOK
<1>6. ContextsNested' BY DEF TrapInv, ContextsNested, Handlers
<1>7. FramesInPlace' BY <1>1 DEF TrapInv, FramesInPlace, FramesOf, Handlers
<1>8. NestingSaved' BY <1>3, <1>4 DEF TrapInv, NestingSaved, Handlers
<1> QED BY <1>1, <1>3, <1>5, <1>6, <1>7, <1>8 DEF TrapInv

\* Page faults, senders and LLIRQ_task's receive touch no frame.
Bystander ==
    \/ PageLoaded
    \/ SegmentReloaded
    \/ \E s \in Senders : Notify(s)
    \/ ReceiveIrq
    \/ UNCHANGED vars

LEMMA BystanderFrame ==
    ASSUME Bystander
    PROVE  UNCHANGED <<guestVars, frameVars, irqEnabled>>
BY DEF Bystander, PageLoaded, SegmentReloaded, Notify, ReceiveIrq, vars

LEMMA BystanderTrapInv ==
    ASSUME TrapInv, Bystander
    PROVE  TrapInv'
<1>1. UNCHANGED <<guestVars, frameVars, irqEnabled>> BY BystanderFrame
<1>2. /\ irqs' \in 0 .. QueueLen
      /\ blocked' \subseteq Senders
      /\ taken' \in BOOLEAN
      /\ inPagefault' \in BOOLEAN
  <2>1. /\ irqs \in 0 .. QueueLen
        /\ blocked \subseteq Senders
        /\ taken \in BOOLEAN
        /\ inPagefault \in BOOLEAN
    BY DEF TrapInv, TypeOK
  <2> USE <2>1, TrapsAssumption DEF queueVars
  <2>2. CASE PageLoaded \/ SegmentReloaded BY <2>2 DEF PageLoaded, SegmentReloaded
  <2>3. CASE \E s \in Senders : Notify(s) BY <2>3 DEF Notify
  <2>4. CASE ReceiveIrq BY <2>4 DEF ReceiveIrq
  <2>5. CASE UNCHANGED vars BY <2>5 DEF vars
  <2> QED BY <2>2, <2>3, <2>4, <2>5 DEF Bystander
<1> USE DEF guestVars, frameVars
<1>3. TypeOK' BY <1>1, <1>2 DEF TrapInv, TypeOK
<1>4. ContextsNested' BY <1>1 DEF TrapInv, ContextsNested
<1>5. FramesInPlace' BY <1>1 DEF TrapInv, FramesInPlace, FramesOf
<1>6. NestingSaved' BY <1>1 DEF TrapInv, NestingSaved
<1> QED BY <1>3, <1>4, <1>5, <1>6 DEF TrapInv

\* Every step is one of the actions treated above.
LEMMA Steps ==
    ASSUME [Next]_vars
    PROVE  \/ Instruction
           \/ vPortEnterCritical \/ vPortExitCritical
           \/ Yield
           \/ GetContext
           \/ Reschedule
           \/ RestoreContext
           \/ InjectIrq
           \/ Bystander
BY DEF Next, Bystander

LEMMA NextTrapInv == TrapInv /\ [Next]_vars => TrapInv'
<1> SUFFICES ASSUME TrapInv, [Next]_vars PROVE TrapInv' OBVIOUS
<1>1. CASE Instruction BY <1>1, InstructionTrapInv
<1>2. CASE vPortEnterCritical \/ vPortExitCritical BY <1>2, CriticalTrapInv
<1>3. CASE Yield BY <1>3, YieldTrapInv
<1>4. CASE GetContext BY <1>4, GetContextTrapInv
<1>5. CASE Reschedule BY <1>5, RescheduleTrapInv
<1>6. CASE RestoreContext BY <1>6, RestoreTrapInv
<1>7. CASE InjectIrq BY <1>7, InjectTrapInv
<1>8. CASE Bystander BY <1>8, BystanderTrapInv
<1> QED BY <1>1, <1>2, <1>3, <1>4, <1>5, <1>6, <1>7, <1>8, Steps

LEMMA TrapInvariant == Spec => []TrapInv
<1>1. Init => TrapInv BY InitTrapInv
<1>2. TrapInv /\ [Next]_vars => TrapInv' BY NextTrapInv
<1> QED BY <1>1, <1>2, PTL DEF Spec
-----------------------------------------------------------------------------
(***************************************************************************)
(* Theorems                                                                *)
(***************************************************************************)
\* Every variable keeps its type; in particular ulCriticalNesting never leaves
\* its range although it is not saved where it should be.
THEOREM TypeCorrect == Spec => []TypeOK
<1>1. TrapInv => TypeOK BY DEF TrapInv
<1> QED BY <1>1, TrapInvariant, PTL

\* vm_saved_context never holds more than one frame and is never found empty.
THEOREM ContextsStayNested == Spec => []ContextsNested
<1>1. TrapInv => ContextsNested BY DEF TrapInv
<1> QED BY <1>1, TrapInvariant, PTL

\* No context switch gives a task the registers of another one.
THEOREM FramesStayInPlace == Spec => []FramesInPlace
<1>1. TrapInv => FramesInPlace BY DEF TrapInv
<1> QED BY <1>1, TrapInvariant, PTL
-----------------------------------------------------------------------------
(***************************************************************************)
(* Critical sections                                                       *)
(***************************************************************************)
LEMMA InitMaskInv == Init => MaskInv
BY DEF Init, MaskInv, MaskFollowsNesting, OthersOutside

\* The running task enters and leaves critical sections of its own.
LEMMA CriticalMaskInv ==
    ASSUME TrapInv, MaskInv, vPortEnterCritical \/ vPortExitCritical
    PROVE  MaskInv'
<1>1. mode = "task" /\ UNCHANGED <<cur, mode>>
  BY DEF vPortEnterCritical, vPortExitCritical, frameVars
<1>2. regs.task = cur /\ cur \in Tasks BY <1>1, TaskRuns
<1>3. depth \in [Tasks -> 0 .. MaxNesting] BY DEF TrapInv, TypeOK
<1>4. depth[cur] \in Nat /\ nesting \in Nat
  BY <1>2, <1>3, TrapsAssumption DEF TrapInv, TypeOK
<1>5. /\ irqEnabled <=> nesting = 0
      /\ nesting <= depth[cur]
      /\ cur \notin yielded => nesting = depth[cur]
  BY <1>1 DEF MaskInv, MaskFollowsNesting
<1>6. /\ irqEnabled' <=> nesting' = 0
      /\ nesting' <= depth'[cur]
      /\ cur \notin yielded' => nesting' = depth'[cur]
      /\ \A t \in Tasks :
            t # cur => depth'[t] = depth[t] /\ (t \in yielded => t \in yielded')
  <2>1. CASE vPortEnterCritical
    <3>1. depth' = [depth EXCEPT ![cur] = depth[cur] + 1]
      BY <1>2, <2>1 DEF vPortEnterCritical
    <3>2. depth'[cur] = depth[cur] + 1 BY <1>2, <1>3, <3>1
    <3>3. nesting' = nesting + 1 /\ irqEnabled' = FALSE /\ yielded' = yielded
      BY <2>1 DEF vPortEnterCritical
    <3>4. nesting + 1 # 0 BY <1>4
    <3>5. nesting' <= depth'[cur] BY <1>4, <1>5, <3>2, <3>3
    <3> QED BY <1>3, <1>5, <3>1, <3>2, <3>3, <3>4, <3>5
  <2>2. CASE vPortExitCritical
    <3>1. depth' = [depth EXCEPT ![cur] = depth[cur] - 1]
      BY <1>2, <2>2 DEF vPortExitCritical, LeaveSection
    <3>2. depth'[cur] = depth[cur] - 1 BY <1>2, <1>3, <3>1
    <3>3. depth[cur] > 0 BY <1>2, <2>2 DEF vPortExitCritical, LeaveSection
    <3>4. yielded' = IF depth[cur] = 1 THEN yielded \ {cur} ELSE yielded
      BY <1>2, <2>2 DEF vPortExitCritical, LeaveSection
    <3>5. irqEnabled' = (irqEnabled \/ nesting = 1) BY <2>2 DEF vPortExitCritical
    <3>6. CASE nesting = 0
      <4>6. irqEnabled BY <1>5, <3>6
      <4>7. irqEnabled' BY <3>5, <4>6, Zenon
      <4>8. nesting' = 0 BY <2>2, <3>6 DEF vPortExitCritical
      <4>1. nesting' = 0 /\ irqEnabled' BY <4>7, <4>8
      <4>2. cur \in yielded BY <1>5, <3>3, <3>6
      <4>3. cur \notin yielded' => depth[cur] = 1 BY <3>4, <4>2
      <4>4. nesting' <= depth'[cur] BY <1>4, <3>2, <3>3, <4>1
      <4>5. cur \notin yielded' => nesting' = depth'[cur] BY <3>2, <4>1, <4>3
      <4> QED BY <1>3, <3>1, <3>4, <4>1, <4>4, <4>5
    <3>7. CASE nesting # 0
      <4>1. nesting' = nesting - 1 BY <1>4, <2>2, <3>7 DEF vPortExitCritical
      <4>6. ~irqEnabled BY <1>5, <3>7
      <4>7. irqEnabled' <=> nesting = 1 BY <3>5, <4>6, Zenon
      <4>8. nesting' = 0 <=> nesting = 1 BY <1>4, <4>1
      <4>2. irqEnabled' <=> nesting' = 0 BY <4>7, <4>8
      <4>3. nesting' <= depth'[cur] BY <1>4, <1>5, <3>2, <4>1
      <4>4. cur \notin yielded' => nesting = depth[cur]
        BY <1>4, <1>5, <3>4, <3>7
      <4>5. cur \notin yielded' => nesting' = depth'[cur] BY <3>2, <4>1, <4>4
      <4> QED BY <1>3, <3>1, <3>4, <4>2, <4>3, <4>5
    <3> QED BY <3>6, <3>7
  <2> QED BY <2>1, <2>2
<1>7. MaskFollowsNesting' BY <1>1, <1>6 DEF MaskFollowsNesting
<1>8. OthersOutside' BY <1>1, <1>6 DEF MaskInv, OthersOutside
<1> QED BY <1>7, <1>8 DEF MaskInv

\* A task that yields in a critical section joins yielded; an interrupt takes a
\* task whose ulCriticalNesting is zero.
LEMMA YieldMaskInv ==
    ASSUME TrapInv, MaskInv, Yield
    PROVE  MaskInv'
<1>1. mode = "task" /\ mode' # "task" /\ UNCHANGED <<cur, depth>>
  BY DEF Yield, Jump
<1>2. regs.task = cur /\ cur \in Tasks BY <1>1, TaskRuns
<1>3. depth[cur] \in Nat BY <1>2, TrapsAssumption DEF TrapInv, TypeOK
<1>4. yielded' = IF depth[cur] > 0 THEN yielded \cup {cur} ELSE yielded
  BY <1>2 DEF Yield
<1>5. \A t \in Tasks : depth[t] = 0 \/ t \in yielded'
  BY <1>1, <1>3, <1>4 DEF MaskInv, OthersOutside
<1> QED BY <1>1, <1>5 DEF MaskInv, MaskFollowsNesting, OthersOutside

LEMMA InjectMaskInv ==
    ASSUME TrapInv, MaskInv, InjectIrq
    PROVE  MaskInv'
<1>1. mode = "task" BY InjectTrapInv
<1>2. mode' # "task" /\ UNCHANGED <<cur, depth, yielded>>
  BY DEF InjectIrq, Jump, guestVars
<1>3. depth[cur] = 0 \/ cur \in yielded
  BY <1>1 DEF InjectIrq, MaskInv, MaskFollowsNesting
<1>4. \A t \in Tasks : depth[t] = 0 \/ t \in yielded
  BY <1>1, <1>3 DEF MaskInv, OthersOutside
<1> QED BY <1>2, <1>4 DEF MaskInv, MaskFollowsNesting, OthersOutside

LEMMA HandlerMaskInv ==
    ASSUME TrapInv, MaskInv, GetContext \/ Reschedule
    PROVE  MaskInv'
<1>1. mode \in Handlers /\ mode' = mode /\ UNCHANGED <<depth, yielded>>
  BY DEF GetContext, Reschedule
<1>2. mode # "task" BY <1>1 DEF Handlers
<1> QED BY <1>1, <1>2 DEF MaskInv, MaskFollowsNesting, OthersOutside

\* The task that goes on has interrupts enabled and a nesting of zero.
LEMMA RestoreMaskInv ==
    ASSUME TrapInv, MaskInv, RestoreContext
    PROVE  MaskInv'
<1>1. mode # "task" BY DEF RestoreContext, Handlers
<1>2. nesting = 0 BY RestoreTrapInv
<1>3. cur \in Tasks BY DEF TrapInv, TypeOK
<1>4. depth[cur] \in Nat BY <1>3, TrapsAssumption DEF TrapInv, TypeOK
<1>5. depth[cur] = 0 \/ cur \in yielded BY <1>1, <1>3 DEF MaskInv, OthersOutside
<1>6. irqEnabled' /\ UNCHANGED <<cur, depth, nesting, yielded>>
  BY <1>2 DEF RestoreContext, guestVars
<1>7. MaskFollowsNesting' BY <1>2, <1>4, <1>5, <1>6 DEF MaskFollowsNesting
<1>8. OthersOutside' BY <1>1, <1>6 DEF MaskInv, OthersOutside
<1> QED BY <1>7, <1>8 DEF MaskInv

LEMMA NextMaskInv ==
    ASSUME TrapInv, MaskInv, [Next]_vars
    PROVE  MaskInv'
<1>1. CASE Instruction
  <2>1. UNCHANGED <<mode, cur, nesting, irqEnabled, depth, yielded>>
    BY <1>1 DEF Instruction, guestVars
  <2> QED BY <2>1 DEF MaskInv, MaskFollowsNesting, OthersOutside
<1>2. CASE vPortEnterCritical \/ vPortExitCritical BY <1>2, CriticalMaskInv
<1>3. CASE Yield BY <1>3, YieldMaskInv
<1>4. CASE GetContext \/ Reschedule BY <1>4, HandlerMaskInv
<1>5. CASE RestoreContext BY <1>5, RestoreMaskInv
<1>6. CASE InjectIrq BY <1>6, InjectMaskInv
<1>7. CASE Bystander
  <2>1. UNCHANGED <<mode, cur, nesting, irqEnabled, depth, yielded>>
    BY <1>7, BystanderFrame DEF guestVars, frameVars
  <2> QED BY <2>1 DEF MaskInv, MaskFollowsNesting, OthersOutside
<1> QED BY <1>1, <1>2, <1>3, <1>4, <1>5, <1>6, <1>7, Steps

LEMMA MaskInvariant == Spec => []MaskInv
<1>1. Init => MaskInv BY InitMaskInv
<1>2. TrapInv /\ MaskInv /\ [Next]_vars => MaskInv' BY NextMaskInv
<1> QED BY <1>1, <1>2, TrapInvariant, PTL DEF Spec

\* A running task is interruptible exactly while ulCriticalNesting is zero, which
\* counts its critical sections unless it has yielded in the one it is in.
THEOREM MaskStaysWithTask == Spec => []MaskFollowsNesting
<1>1. MaskInv => MaskFollowsNesting BY DEF MaskInv
<1> QED BY <1>1, MaskInvariant, PTL

\* No interrupt is handled while the current task is in a critical section in
\* which it has not yielded.
THEOREM SectionsUninterrupted == Spec => []CriticalSectionUninterrupted
<1>1. TrapInv /\ MaskInv => CriticalSectionUninterrupted
  <2> SUFFICES ASSUME TrapInv, MaskInv, mode = "irq"
               PROVE  depth[cur] = 0 \/ cur \in yielded
    BY DEF CriticalSectionUninterrupted
  <2>1. cur \in Tasks BY DEF TrapInv, TypeOK
  <2> QED BY <2>1 DEF MaskInv, OthersOutside
<1> QED BY <1>1, TrapInvariant, MaskInvariant, PTL
-----------------------------------------------------------------------------
(***************************************************************************)
(* GuestTraps implements GuestTasks                                        *)
(***************************************************************************)
At == [t \in Tasks |-> Place(t)]
Yielding == mode = "svc" /\ stage # "restore"

LEMMA InitRefines == Init => Abstract!Init
<1> SUFFICES ASSUME Init PROVE Abstract!Init OBVIOUS
<1>1. 0 \in Points BY TrapsAssumption DEF Points
<1>2. \A t \in Tasks : Place(t) = 0 BY DEF Init, Place, Handlers
<1>3. At \in [Tasks -> Abstract!Points]
  BY <1>1, <1>2 DEF At, Points, Abstract!Points
<1>4. ~Yielding BY DEF Init, Yielding
<1> QED BY <1>3, <1>4 DEF Init, Abstract!Init, At, Yielding

\* Moving the running task's frame on is the only way a place changes.
LEMMA InstructionRefines ==
    ASSUME TrapInv, Instruction
    PROVE  Abstract!Instruction
<1>1. mode = "task" /\ mode' = mode /\ UNCHANGED <<cur, saved, depth, yielded>>
  BY DEF Instruction, guestVars
<1>2. regs \in FramesOf(cur) /\ cur \in Tasks BY <1>1, TaskRuns
<1>3. regs' = Advanced /\ Advanced.point = NextPoint(regs.point)
  BY <1>2, AdvancedType DEF Instruction
<1>4. \A t \in Tasks :
        Place(t)' = IF t = cur THEN NextPoint(Place(cur)) ELSE Place(t)
  BY <1>1, <1>3 DEF Place, Handlers
<1>5. At' = [At EXCEPT ![cur] = (At[cur] + 1) % NumPoints]
  BY <1>2, <1>4 DEF At, NextPoint
<1>6. ~Yielding /\ ~Yielding' BY <1>1 DEF Yielding
<1> QED BY <1>1, <1>5, <1>6 DEF Abstract!Instruction, Abstract!Advance, At, Yielding

LEMMA CriticalRefines ==
    ASSUME TrapInv, vPortEnterCritical \/ vPortExitCritical
    PROVE  Abstract!EnterCritical \/ Abstract!ExitCritical
<1>1. /\ mode = "task" /\ mode' = mode
      /\ UNCHANGED <<cur, stage, saved, regs, buffer, contexts>>
  BY DEF vPortEnterCritical, vPortExitCritical, LeaveSection, frameVars
<1>2. regs.task = cur BY <1>1, TaskRuns
<1>3. At' = At BY <1>1 DEF At, Place
<1>4. ~Yielding /\ ~Yielding' BY <1>1 DEF Yielding
<1>5. CASE vPortEnterCritical
  BY <1>1, <1>2, <1>3, <1>4, <1>5
  DEF vPortEnterCritical, Abstract!EnterCritical, At, Yielding
<1>6. CASE vPortExitCritical
  BY <1>1, <1>2, <1>3, <1>4, <1>6
  DEF vPortExitCritical, LeaveSection, Abstract!ExitCritical, At, Yielding
<1> QED BY <1>5, <1>6

LEMMA YieldRefines ==
    ASSUME TrapInv, Yield
    PROVE  Abstract!Yield
<1>1. /\ mode = "task" /\ mode' = "svc" /\ stage' = "get"
      /\ UNCHANGED <<cur, saved, depth>>
  BY DEF Yield, Jump
<1>2. regs \in FramesOf(cur) /\ cur \in Tasks BY <1>1, TaskRuns
<1>3. contexts' = <<Advanced>> BY YieldTrapInv
<1>4. contexts'[Len(contexts')].point = NextPoint(regs.point)
  BY <1>2, <1>3, AdvancedType
<1>5. \A t \in Tasks :
        Place(t)' = IF t = cur THEN NextPoint(Place(cur)) ELSE Place(t)
  BY <1>1, <1>4 DEF Place, Handlers
<1>6. At' = [At EXCEPT ![cur] = (At[cur] + 1) % NumPoints]
  BY <1>2, <1>5 DEF At, NextPoint
<1>7. ~Yielding /\ Yielding' = TRUE BY <1>1 DEF Yielding
<1>8. yielded' = IF depth[cur] > 0 THEN yielded \cup {cur} ELSE yielded
  <2>1. regs.task = cur BY <1>1, TaskRuns
  <2> QED BY <2>1 DEF Yield
<1> QED BY <1>1, <1>6, <1>7, <1>8 DEF Abstract!Yield, Abstract!Advance, At, Yielding

LEMMA InjectRefines ==
    ASSUME TrapInv, InjectIrq
    PROVE  UNCHANGED Abstract!vars
<1>1. /\ mode = "task" /\ mode' = "irq" /\ stage' = "get"
      /\ UNCHANGED <<cur, saved, depth, yielded>>
  BY InjectTrapInv DEF InjectIrq, Jump, guestVars
<1>2. contexts' = <<regs>> BY InjectTrapInv
<1>3. contexts'[Len(contexts')].point = regs.point BY <1>2
<1>4. \A t \in Tasks : Place(t)' = Place(t) BY <1>1, <1>3 DEF Place, Handlers
<1>5. At' = At BY <1>4 DEF At
<1>6. Yielding = FALSE /\ Yielding' = FALSE BY <1>1 DEF Yielding
<1> QED BY <1>1, <1>5, <1>6 DEF Abstract!vars, At, Yielding

LEMMA GetContextRefines ==
    ASSUME TrapInv, GetContext
    PROVE  UNCHANGED Abstract!vars
<1>1. /\ mode \in Handlers /\ mode' = mode /\ stage = "get" /\ stage' = "switch"
      /\ UNCHANGED <<cur, saved, depth, yielded>>
  BY DEF GetContext
<1>2. contexts = <<contexts[1]>> /\ buffer' = [buffer EXCEPT ![mode] = contexts[1]]
  BY GetContextTakes
<1>3. buffer'[mode] = contexts[Len(contexts)] BY <1>1, <1>2 DEF TrapInv, TypeOK
<1>4. \A t \in Tasks : Place(t)' = Place(t) BY <1>1, <1>3 DEF Place, Handlers
<1>5. At' = At BY <1>4 DEF At
<1>6. Yielding' = Yielding BY <1>1 DEF Yielding
<1> QED BY <1>1, <1>5, <1>6 DEF Abstract!vars, At, Yielding

\* IRQ_ISR takes the processor from a task outside its critical sections or one
\* that has released them, SWI_ISR from one that asked for the switch.
LEMMA RescheduleRefines ==
    ASSUME TrapInv, MaskInv, Reschedule
    PROVE  Abstract!Interrupt \/ Abstract!Switch
<1>1. /\ mode \in Handlers /\ mode' = mode
      /\ stage = "switch" /\ stage' = "restore"
      /\ cur' \in Tasks /\ UNCHANGED <<depth, yielded>>
  BY DEF Reschedule
<1>2. cur \in Tasks BY DEF TrapInv, TypeOK
<1>3. saved' = [saved EXCEPT ![cur] = [frame |-> buffer[mode], nesting |-> 0]]
  BY RescheduleStacks
<1>4. saved'[cur].frame = buffer[mode] /\ \A t \in Tasks : t # cur => saved'[t] = saved[t]
  BY <1>2, <1>3 DEF TrapInv, TypeOK
<1>5. \A t \in Tasks : Place(t)' = Place(t)
  <2> SUFFICES ASSUME NEW t \in Tasks PROVE Place(t)' = Place(t) OBVIOUS
  <2>1. Place(t)' = saved'[t].frame.point BY <1>1 DEF Place
  <2>2. CASE t = cur BY <1>1, <1>4, <2>1, <2>2 DEF Place, Handlers
  <2>3. CASE t # cur BY <1>4, <2>1, <2>3 DEF Place
  <2> QED BY <2>2, <2>3
<1>6. At' = At BY <1>5 DEF At
<1>7. Yielding' = FALSE BY <1>1 DEF Yielding
<1>8. CASE mode = "svc"
  <2>1. Yielding BY <1>1, <1>8 DEF Yielding
  <2> QED BY <1>1, <1>6, <1>7, <2>1 DEF Abstract!Switch, At, Yielding
<1>9. CASE mode = "irq"
  <2>1. Yielding = FALSE BY <1>9 DEF Yielding
  <2>2. depth[cur] = 0 \/ cur \in yielded BY <1>2, <1>9 DEF MaskInv, OthersOutside
  <2> QED BY <1>1, <1>6, <1>7, <2>1, <2>2 DEF Abstract!Interrupt, At, Yielding
<1> QED BY <1>1, <1>8, <1>9 DEF Handlers

LEMMA RestoreRefines ==
    ASSUME TrapInv, RestoreContext
    PROVE  UNCHANGED Abstract!vars
<1>1. /\ mode \in Handlers /\ mode' = "task" /\ stage = "restore"
      /\ regs' = saved[cur].frame
      /\ UNCHANGED <<cur, stage, saved, depth, yielded>>
  BY DEF RestoreContext, guestVars
<1>2. \A t \in Tasks : Place(t)' = Place(t) BY <1>1 DEF Place, Handlers
<1>3. At' = At BY <1>2 DEF At
<1>4. Yielding = FALSE /\ Yielding' = FALSE BY <1>1 DEF Yielding
<1> QED BY <1>1, <1>3, <1>4 DEF Abstract!vars, At, Yielding

LEMMA BystanderRefines ==
    ASSUME Bystander
    PROVE  UNCHANGED Abstract!vars
<1>1. UNCHANGED <<guestVars, frameVars>> BY BystanderFrame
<1> QED BY <1>1 DEF guestVars, frameVars, Abstract!vars, Place

LEMMA NextRefines ==
    ASSUME TrapInv, MaskInv, [Next]_vars
    PROVE  [Abstract!Next]_(Abstract!vars)
<1>1. CASE Instruction BY <1>1, InstructionRefines DEF Abstract!Next
<1>2. CASE vPortEnterCritical \/ vPortExitCritical
  BY <1>2, CriticalRefines DEF Abstract!Next
<1>3. CASE Yield BY <1>3, YieldRefines DEF Abstract!Next
<1>4. CASE GetContext BY <1>4, GetContextRefines
<1>5. CASE Reschedule BY <1>5, RescheduleRefines DEF Abstract!Next
<1>6. CASE RestoreContext BY <1>6, RestoreRefines
<1>7. CASE InjectIrq BY <1>7, InjectRefines
<1>8. CASE Bystander BY <1>8, BystanderRefines
<1> QED BY <1>1, <1>2, <1>3, <1>4, <1>5, <1>6, <1>7, <1>8, Steps

\* OSLoader's saved contexts, the handlers' buffers, the stacks and the interrupt
\* mask implement one processor shared by the guest's tasks.
THEOREM TrapsImplementTasks == Spec => ImplementsGuestTasks
<1>1. Init => Abstract!Init BY InitRefines
<1>2. TrapInv /\ MaskInv /\ [Next]_vars => [Abstract!Next]_(Abstract!vars)
  BY NextRefines
<1> QED BY <1>1, <1>2, TrapInvariant, MaskInvariant, PTL
        DEF Spec, ImplementsGuestTasks, Abstract!Spec
=============================================================================
