----------------------------- MODULE FtlService -----------------------------
(***************************************************************************)
(* The FTL service (HAL/FTL_up.c): FTL_Task serves the calls FTL_*Sector   *)
(* from a queue, while FTL_Sync and FTL_ClearAllSector work on the same    *)
(* map in their caller's task, and no lock protects it.                    *)
(*                                                                         *)
(* The map is what DharaMap shows it to be, a SectorStore, as long as only *)
(* one task is inside it.  What keeps tasks apart is the scheduler: FTL    *)
(* has a higher priority than its clients, and MTD, which has a higher one *)
(* still, does not block during an operation (MtdService), so nobody of    *)
(* them runs while FTL waits for the flash.  A client that is inside the   *)
(* map can be preempted between two accesses to the flash.                 *)
(*                                                                         *)
(* The clients are known by the names of their tasks.  All of them pass    *)
(* num = 1; none sends FTL_SYNC.                                           *)
(***************************************************************************)
EXTENDS Integers, Sequences, FiniteSets

CONSTANTS
    Sectors, Data, Blank,
    Served,                  \* sectors below max_ftl_pages
    QueueLength,             \* places of FTL_Operates_Queue
    NoRequest, NoReply

Clients == {"VM Svc", "TinyUSB", "LLAPI Svc", "System"}

Priority ==
    [c \in Clients |-> CASE c \in {"VM Svc", "TinyUSB"} -> 6
                         [] c = "LLAPI Svc" -> 5
                         [] c = "System" -> 3]

VARIABLES
    sectors, durable,        \* the map, and what a reset would leave of it
    request, reply,          \* a client's call; its notification, or result
    phase,                   \* idle, called, waiting for FTL, or in the map
    queue,                   \* FTL_Operates_Queue: the tasks of its entries
    ftl, curOpa,             \* FTL_Task: init, receive or map; its client
    boot,                    \* System: start, msc (host's disk), guest
    flushing,                \* the display task reads the guest's memory
    conf,                    \* g_MSC_Configuration
    suspended,               \* VMSuspend has suspended LLAPI
    shared                   \* history: two tasks were inside the map at once

vars == <<sectors, durable, request, reply, phase, queue, ftl, curOpa, boot,
          flushing, conf, suspended, shared>>
disk == <<sectors, durable>>
calls == <<request, reply, phase>>
life == <<boot, flushing, conf, suspended>>

Disk == INSTANCE SectorStore

ASSUME FtlAssumption ==
    /\ Blank \notin Data /\ Served \subseteq Sectors
    /\ QueueLength \in Nat \ {0}
    /\ NoRequest \notin Disk!Requests /\ NoReply \notin Disk!Replies

Init ==
    /\ sectors \in [Sectors -> Disk!Content] /\ durable = sectors
    /\ request = [c \in Clients |-> NoRequest]
    /\ reply = [c \in Clients |-> NoReply]
    /\ phase = [c \in Clients |-> "idle"]
    /\ queue = <<>> /\ ftl = "init" /\ curOpa = NoRequest
    /\ boot = "start" /\ flushing = FALSE /\ conf = "OSLOADER_EDB"
    /\ suspended = FALSE /\ shared = FALSE
-----------------------------------------------------------------------------
(* The scheduler.                                                          *)
Inside == {c \in Clients : phase[c] = "map"}

FtlReady == ftl = "map" \/ (ftl = "receive" /\ queue # <<>>)

Suspended(c) == suspended /\ c = "LLAPI Svc"

Ready(c) ==
    /\ ~Suspended(c)
    /\ \/ phase[c] \in {"called", "map"}
       \/ phase[c] = "wait" /\ reply[c] # NoReply

Outranks(d, c) == Priority[d] > Priority[c]

MayRun(c) ==
    /\ ~Suspended(c) /\ ~FtlReady
    /\ \A d \in Clients : Outranks(d, c) => ~Ready(d)
-----------------------------------------------------------------------------
(* The clients.                                                            *)

(* The host's disk is g_MSC_Configuration's; "clearall" comes over the     *)
(* serial line, which takes longer to open than FTL_init.  System syncs on *)
(* VIEWS.                                                                  *)
HostOccasion(c, op) ==
    \/ c = "TinyUSB" /\ conf = "SYS_DATA" /\ op \in {"read", "write", "sync"}
    \/ c = "TinyUSB" /\ op = "clear" /\ ftl # "init"
    \/ c = "System" /\ boot = "msc" /\ op = "sync"

\* Mutant of Occasion: the guest comes before the display task.
OccasionBeforeDisplay(c, op) ==
    CASE c = "VM Svc" ->
           /\ boot = "guest" /\ (phase["LLAPI Svc"] = "idle" \/ flushing)
           /\ op \in {"read", "write"}
      [] c = "LLAPI Svc" ->
           /\ boot = "guest" /\ phase["VM Svc"] = "idle"
           /\ op \in {"read", "write", "trim", "sync"}
      [] OTHER -> HostOccasion(c, op)

(* When a client calls.  VM Svc swaps when a page fault makes it: of the   *)
(* guest, of LLAPI copying from or to the guest's memory, or of the        *)
(* display task.  The guest is suspended in its faults and in its calls of *)
(* LLAPI, and runs when the display task is through.                       *)
Occasion(c, op) ==
    CASE c = "VM Svc" ->
           /\ boot = "guest" /\ (phase["LLAPI Svc"] = "idle" \/ flushing)
           /\ op \in {"read", "write"}
      [] c = "LLAPI Svc" ->
           /\ boot = "guest" /\ phase["VM Svc"] = "idle" /\ ~flushing
           /\ op \in {"read", "write", "trim", "sync"}
      [] OTHER -> HostOccasion(c, op)

Call(c, r) ==
    /\ phase[c] = "idle" /\ MayRun(c) /\ Occasion(c, r.op)
    /\ request' = [request EXCEPT ![c] = r]
    /\ phase' = [phase EXCEPT ![c] = "called"]
    /\ UNCHANGED <<disk, reply, queue, ftl, curOpa, life, shared>>

Answer(c, a) == reply' = [reply EXCEPT ![c] = a]
Goto(c, p) == phase' = [phase EXCEPT ![c] = p]
Return(c) == Goto(c, "wait")

(* FTL_ReadSector, FTL_WriteSector and FTL_TrimSector.                     *)
InBounds(r) == r.op = "trim" \/ r.sector \in Served

Send(c) ==
    /\ request[c].op \in {"read", "write", "trim"}
    /\ \/ /\ ftl = "init" \/ ~InBounds(request[c])
          /\ Answer(c, Disk!Failure)
          /\ UNCHANGED queue
       \/ /\ ftl # "init" /\ InBounds(request[c])
          /\ Len(queue) < QueueLength
          /\ queue' = Append(queue, c)
          /\ UNCHANGED reply
    /\ Return(c)
    /\ UNCHANGED <<disk, shared>>

\* Mutant of Enter: a spin lock keeps others out.
EnterWhenFree(c) ==
    /\ request[c].op = "sync" /\ Inside = {} /\ ftl # "map"
    /\ IF ftl = "init" THEN Answer(c, Disk!Failure) /\ Return(c)
       ELSE Goto(c, "map") /\ UNCHANGED reply
    /\ UNCHANGED <<disk, queue, shared>>

(* FTL_Sync: the caller enters the map.                                    *)
Enter(c) ==
    /\ request[c].op = "sync"
    /\ IF ftl = "init" THEN Answer(c, Disk!Failure) /\ Return(c) /\ UNCHANGED shared
       ELSE /\ Goto(c, "map") /\ UNCHANGED reply
            /\ shared' = (shared \/ Inside # {} \/ ftl = "map")
    /\ UNCHANGED <<disk, queue>>

\* Mutant of ClearAll: sector by sector, up to the capacity.
ClearServed(c) ==
    /\ request[c].op = "clear"
    /\ sectors' = [s \in Served |-> Blank]
    /\ shared' = (shared \/ Inside # {} \/ ftl = "map")
    /\ Answer(c, Disk!Success(sectors, request[c])) /\ Return(c)
    /\ UNCHANGED <<durable, queue>>

(* FTL_ClearAllSector, which has no access to the flash and no check.      *)
ClearAll(c) ==
    /\ request[c].op = "clear"
    /\ sectors' = [s \in Sectors |-> Blank]
    /\ shared' = (shared \/ Inside # {} \/ ftl = "map")
    /\ Answer(c, Disk!Success(sectors, request[c])) /\ Return(c)
    /\ UNCHANGED <<durable, queue>>

Proceed(c) ==
    /\ phase[c] = "called" /\ MayRun(c)
    /\ Send(c) \/ Enter(c) \/ ClearAll(c)
    /\ UNCHANGED <<request, ftl, curOpa, life>>

(* A call returns.  After the sync on VIEWS the disk is the host's no more.*)
Take(c) ==
    /\ phase[c] = "wait" /\ reply[c] # NoReply /\ MayRun(c)
    /\ request' = [request EXCEPT ![c] = NoRequest]
    /\ reply' = [reply EXCEPT ![c] = NoReply]
    /\ Goto(c, "idle")
    /\ IF c = "System" THEN boot' = "guest" /\ conf' = "OSLOADER_EDB"
       ELSE UNCHANGED <<boot, conf>>
    /\ UNCHANGED <<disk, queue, ftl, curOpa, flushing, suspended, shared>>
-----------------------------------------------------------------------------
(* The map.  A call is carried out, or fails; once two calls have shared   *)
(* the map its contents are not followed any more.                         *)
CarryOut(c) ==
    \/ /\ ~shared
       /\ sectors' = Disk!After(sectors, request[c])
       /\ durable' \in {durable, sectors'}
       /\ request[c].op = "sync" => durable' = sectors'
       /\ Answer(c, Disk!Success(sectors, request[c]))
    \/ ~shared /\ Answer(c, Disk!Failure) /\ UNCHANGED disk
    \/ shared /\ (\E a \in Disk!Replies : Answer(c, a)) /\ UNCHANGED disk

(* A checkpoint is written in the course of a call.                        *)
Checkpoint ==
    /\ Inside # {} \/ ftl = "map"
    /\ ~shared /\ durable' = sectors
    /\ UNCHANGED <<sectors, calls, queue, ftl, curOpa, life, shared>>

(* The rest of FTL_Sync.                                                   *)
SyncEnds(c) ==
    /\ phase[c] = "map" /\ MayRun(c)
    /\ CarryOut(c) /\ Return(c)
    /\ UNCHANGED <<request, queue, ftl, curOpa, life, shared>>

FTL_init ==
    /\ ftl = "init" /\ ftl' = "receive"
    /\ UNCHANGED <<disk, calls, queue, curOpa, life, shared>>

\* Mutant of Receive: the entry stays in the queue.
ReceivePeeks ==
    /\ ftl = "receive" /\ queue # <<>>
    /\ curOpa' = Head(queue) /\ ftl' = "map"
    /\ shared' = (shared \/ Inside # {})
    /\ UNCHANGED <<disk, calls, life, queue>>

(* FTL_task takes an operation and enters the map, leaves it and notifies. *)
Receive ==
    /\ ftl = "receive" /\ queue # <<>>
    /\ curOpa' = Head(queue) /\ queue' = Tail(queue) /\ ftl' = "map"
    /\ shared' = (shared \/ Inside # {})
    /\ UNCHANGED <<disk, calls, life>>

\* Mutant of Notify: dhara's result is not passed on.
NotifySuccess ==
    /\ ftl = "map" /\ ftl' = "receive"
    /\ \/ CarryOut(curOpa)
       \/ UNCHANGED disk /\ Answer(curOpa, Disk!Success(sectors, request[curOpa]))
    /\ curOpa' = NoRequest
    /\ UNCHANGED <<request, phase, queue, life, shared>>

Notify ==
    /\ ftl = "map" /\ ftl' = "receive"
    /\ CarryOut(curOpa) /\ curOpa' = NoRequest
    /\ UNCHANGED <<request, phase, queue, life, shared>>
-----------------------------------------------------------------------------
(* System's way to the guest, with the host's disk on the way or not.      *)
BootDisk ==
    /\ boot = "start" /\ MayRun("System")
    /\ boot' = "msc" /\ conf' = "SYS_DATA"
    /\ UNCHANGED <<disk, calls, queue, ftl, curOpa, flushing, suspended, shared>>

BootGuest ==
    /\ boot = "start" /\ MayRun("System")
    /\ boot' = "guest"
    /\ UNCHANGED <<disk, calls, queue, ftl, curOpa, flushing, conf, suspended,
                   shared>>

(* LLAPI's display flush, and the end of it.                               *)
Flush ==
    /\ boot = "guest" /\ ~suspended /\ MayRun("System")
    /\ phase["LLAPI Svc"] = "idle" /\ phase["VM Svc"] = "idle"
    /\ flushing' = TRUE
    /\ UNCHANGED <<disk, calls, queue, ftl, curOpa, boot, conf, suspended, shared>>

FlushEnds ==
    /\ flushing /\ phase["VM Svc"] = "idle" /\ flushing' = FALSE
    /\ UNCHANGED <<disk, calls, queue, ftl, curOpa, boot, conf, suspended, shared>>

(* The host's commands PING and MSCDATA; VMSuspend, which the maintenance  *)
(* menu calls too.                                                         *)
HostCommand == phase["TinyUSB"] = "idle" /\ MayRun("TinyUSB") /\ conf = "OSLOADER_EDB"

VMSuspend ==
    /\ boot = "guest" /\ ~suspended /\ suspended' = TRUE
    /\ UNCHANGED <<disk, calls, queue, ftl, curOpa, boot, flushing, conf, shared>>

MscData ==
    /\ HostCommand /\ conf' = "SYS_DATA"
    /\ UNCHANGED <<disk, calls, queue, ftl, curOpa, boot, flushing, suspended, shared>>

(* portBoardReset, or the power fails.                                     *)
Working == Inside \cup (IF ftl = "map" THEN {curOpa} ELSE {})

Reset ==
    /\ IF shared THEN UNCHANGED durable
       ELSE durable' \in {durable, sectors}
                \cup {Disk!After(sectors, request[c]) : c \in Working}
    /\ sectors' = durable'
    /\ request' = [c \in Clients |-> NoRequest]
    /\ reply' = [c \in Clients |-> NoReply]
    /\ phase' = [c \in Clients |-> "idle"]
    /\ queue' = <<>> /\ ftl' = "init" /\ curOpa' = NoRequest
    /\ boot' = "start" /\ flushing' = FALSE /\ conf' = "OSLOADER_EDB"
    /\ suspended' = FALSE
    /\ UNCHANGED shared

Client(c) == Proceed(c) \/ SyncEnds(c) \/ Take(c)

FtlTask == FTL_init \/ Receive \/ Notify

Next ==
    \/ \E c \in Clients : (\E r \in Disk!Requests : Call(c, r)) \/ Client(c)
    \/ FtlTask \/ Checkpoint
    \/ BootDisk \/ BootGuest \/ Flush \/ FlushEnds \/ VMSuspend \/ MscData \/ Reset

(* A task that is ready runs when no other is ready that comes first, and  *)
(* tasks of the same priority take turns.  The host pauses: nothing keeps  *)
(* TinyUSB ready for ever.                                                 *)
Fairness ==
    /\ WF_vars(FtlTask)
    /\ \A c \in Clients : SF_vars(Client(c))

Spec == Init /\ [][Next]_vars
FairSpec == Spec /\ Fairness
-----------------------------------------------------------------------------
TypeOK ==
    /\ sectors \in [Sectors -> Disk!Content]
    /\ durable \in [Sectors -> Disk!Content]
    /\ request \in [Clients -> Disk!Requests \cup {NoRequest}]
    /\ reply \in [Clients -> Disk!Replies \cup {NoReply}]
    /\ phase \in [Clients -> {"idle", "called", "wait", "map"}]
    /\ queue \in Seq(Clients)
    /\ ftl \in {"init", "receive", "map"}
    /\ curOpa \in Clients \cup {NoRequest}
    /\ boot \in {"start", "msc", "guest"}
    /\ flushing \in BOOLEAN /\ conf \in {"OSLOADER_EDB", "SYS_DATA"}
    /\ suspended \in BOOLEAN /\ shared \in BOOLEAN

(* FTL_up.c:415 runs dhara_map_sync beside FTL_task without a lock.  While *)
(* g_MSC_Configuration does not make the disk the host's, two tasks are    *)
(* never inside the map at once: LLAPI's sync, which every other client of *)
(* the FTL could preempt, finds them all at rest.                          *)
MapExclusive ==
    conf = "OSLOADER_EDB" =>
      (\A c, d \in Inside : c = d) /\ (ftl = "map" => Inside = {})

(* A client that waits, FTL_up.c:343, is in exactly one place: its request *)
(* in the queue, its request in FTL_task, or its notification: no call is  *)
(* forgotten, answered twice or answered to somebody else.                 *)
Queued(c) == \E i \in DOMAIN queue : queue[i] = c
InService(c) == ftl = "map" /\ curOpa = c

RequestsAccounted ==
    /\ \A i, k \in DOMAIN queue : queue[i] = queue[k] => i = k
    /\ \A c \in Clients :
          /\ ~(Queued(c) /\ InService(c))
          /\ reply[c] # NoReply => ~Queued(c) /\ ~InService(c)
          /\ phase[c] = "wait" <=> Queued(c) \/ InService(c) \/ reply[c] # NoReply

(* Each call takes effect at once or not at all, is answered truly, and    *)
(* what FTL_Sync has returned for outlives a reset, as long as no two have *)
(* shared the map.                                                         *)
ImplementsSectorStore ==
    Disk!Init /\ [][Disk!Next \/ shared']_<<sectors, durable, request, reply>>

(* FTL_up.c:343,373,401 wait with portMAX_DELAY, the flash may be busy     *)
(* with others: every call returns, unless LLAPI was suspended in it.      *)
EveryCallReturns ==
    \A c \in Clients : phase[c] # "idle" ~> phase[c] = "idle" \/ Suspended(c)
=============================================================================
