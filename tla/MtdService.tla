---------------------------- MODULE MtdService -----------------------------
(***************************************************************************)
(* The MTD service: requests of tasks for the NAND flash (HAL/mtd_up.c),   *)
(* the GPMI driver below it (drivers/stmp_gpmi.c) and its two interrupts.  *)
(*                                                                         *)
(* A caller posts its request in MTD_Operates_Queue and waits for a task   *)
(* notification.  MTD_Task carries out one request at a time: it starts a  *)
(* DMA chain and polls mtd_opa_done, which the interrupt handlers set, and *)
(* starts over when it has polled for two seconds.  A read is over when    *)
(* the error correction is; a write or an erase when the chain is.         *)
(*                                                                         *)
(* The chip is external: a chain of a read ends before its page has been   *)
(* corrected, a chain ends in 80 ms (DEVICE_BUSY_TIMEOUT), a chip that     *)
(* fails makes the chain branch to its error descriptor, and an interrupt  *)
(* may get lost, at most MaxLost times.  An interrupt is taken before the  *)
(* next step of a task.                                                    *)
(***************************************************************************)
EXTENDS NandFlash, Sequences

CONSTANTS
    Clients,   \* the tasks that use the service
    Asked,     \* what they ask for
    QueueLen,  \* entries of MTD_Operates_Queue
    MaxRetry,  \* initial value of retry_cnt
    MaxLost,   \* interrupts that may be lost
    FailOps,   \* the kinds of operation in which the chip may fail
    NoRequest, NoReply, NoNotice, NoOpa

VARIABLES
    phase,      \* what a caller does: "idle", "sending", "waiting"
    newOpa,     \* the request of each caller that is not idle
    notice,     \* its task notification: NoNotice or the pending value
    buf,        \* content of its buffer during a call
    queue,      \* MTD_Operates_Queue
    task,       \* where MTD_Task is
    curOpa, retryCnt, opaDone, eccResult, pageBuffer,
    gpmiOpa, eccFin, aux,
    probe,      \* probe[16] still holds 0x23
    chain,      \* the DMA chain that runs, or NoOpa
    curcmd,     \* the descriptor in which the last chain ended
    ecc,        \* the error correction: "idle", "busy", "landed"
    irq,        \* pending interrupts
    flash, lost

callers == <<phase, newOpa, notice>>
driver  == <<gpmiOpa, eccFin, probe>>
chip    == <<chain, curcmd, ecc, irq, flash, lost>>
mtd     == <<task, curOpa, retryCnt, opaDone, eccResult>>
buffers == <<buf, pageBuffer, aux>>
vars    == <<callers, queue, mtd, driver, chip, buffers>>

(* An MTD_Operates: the request and the task to notify.                    *)
Operates == [request : Requests, task : Clients]

ASSUME MtdAssumption ==
    /\ Asked \subseteq Requests
    /\ QueueLen \in Nat \ {0} /\ MaxRetry \in Nat \ {0} /\ MaxLost \in Nat
    /\ FailOps \subseteq Reads \cup Writes \cup {"ERASE"}
    /\ NoRequest \notin Requests /\ NoOpa \notin Operates /\ NoNotice \notin Int
    /\ NoReply \notin [status : Int, content : Content]

(* ECC8_STATUS1 has a nibble for each quarter of a page: 0xF for an erased *)
(* one, 0xE for one that is beyond repair, else the bits it corrected.     *)
AllEmpty == 252645135   \* 0x0F0F0F0F
AllBad   == 235802126   \* 0x0E0E0E0E
EccOf(content) == CASE content = Empty -> AllEmpty
                    [] content = Torn  -> AllBad
                    [] OTHER           -> 0

Codes == {0, 1, AllEmpty, AllBad}

(* What MTD_Task makes of ECCResult after a read.                          *)
ReadStatus(code) == CASE code = AllBad   -> -1
                      [] code = AllEmpty -> 1
                      [] OTHER           -> 0

MtdInit ==
    /\ phase = [c \in Clients |-> "idle"]
    /\ newOpa = [c \in Clients |-> NoRequest]
    /\ notice = [c \in Clients |-> NoNotice]
    /\ buf = [c \in Clients |-> Empty]
    /\ queue = <<>> /\ task = "receive" /\ curOpa = NoOpa
    /\ retryCnt = 0 /\ opaDone = FALSE /\ eccResult = 0
    /\ pageBuffer = Empty /\ aux = Empty
    /\ gpmiOpa = "NONE" /\ eccFin = TRUE /\ probe = FALSE
    /\ chain = NoOpa /\ curcmd = "end" /\ ecc = "idle" /\ irq = {}
    /\ flash \in [Pages -> Content] /\ lost = 0

(* A task takes no step while an interrupt is pending.                     *)
Running == irq = {}
-----------------------------------------------------------------------------
(* The callers.                                                            *)

(* Only erased pages are written, and a page that is written or a block    *)
(* that is erased belongs to one caller: Dhara serves one request at a     *)
(* time, and the other writers work while Dhara does not run.              *)
Disciplined(r) ==
    \/ r.opa \in Reads
    \/ /\ r.opa \in Writes => flash[r.page] = Empty
       /\ \A c \in Clients, p \in Pages :
             phase[c] # "idle" /\ newOpa[c].opa \notin Reads
                => ~(Touches(r, p) /\ Touches(newOpa[c], p))

(* A call of one of the MTD_*Phy* functions; xTaskNotifyStateClear.        *)
Call(c, r) ==
    /\ Running /\ phase[c] = "idle" /\ Disciplined(r)
    /\ phase' = [phase EXCEPT ![c] = "sending"]
    /\ newOpa' = [newOpa EXCEPT ![c] = r]
    /\ notice' = [notice EXCEPT ![c] = NoNotice]
    /\ UNCHANGED <<queue, mtd, driver, chip, buffers>>

\* Mutant of Send: the request is queued whether there is room or not.
SendAnyway(c) ==
    /\ Running /\ phase[c] = "sending"
    /\ queue' = Append(queue, [request |-> newOpa[c], task |-> c])
    /\ phase' = [phase EXCEPT ![c] = "waiting"]
    /\ UNCHANGED <<newOpa, notice, mtd, driver, chip, buffers>>

(* xQueueSend, which waits for room.                                       *)
Send(c) ==
    /\ Running /\ phase[c] = "sending" /\ Len(queue) < QueueLen
    /\ queue' = Append(queue, [request |-> newOpa[c], task |-> c])
    /\ phase' = [phase EXCEPT ![c] = "waiting"]
    /\ UNCHANGED <<newOpa, notice, mtd, driver, chip, buffers>>

(* xTaskNotifyWait returns, and so does the call.  What the caller does    *)
(* with its buffer afterwards is its own affair: the model forgets it.     *)
Wake(c) ==
    /\ Running /\ phase[c] = "waiting" /\ notice[c] # NoNotice
    /\ notice' = [notice EXCEPT ![c] = NoNotice]
    /\ phase' = [phase EXCEPT ![c] = "idle"]
    /\ newOpa' = [newOpa EXCEPT ![c] = NoRequest]
    /\ buf' = [buf EXCEPT ![c] = Empty]
    /\ UNCHANGED <<queue, mtd, driver, chip, pageBuffer, aux>>
-----------------------------------------------------------------------------
(* MTD_Task.                                                               *)

Receive ==
    /\ Running /\ task = "receive" /\ queue # <<>>
    /\ curOpa' = Head(queue) /\ queue' = Tail(queue)
    /\ retryCnt' = MaxRetry /\ task' = "retry"
    /\ UNCHANGED <<callers, opaDone, eccResult, driver, chip, buffers>>

\* Mutant of Retry: mtd_opa_done is left as the last operation set it.
RetryKeepsDone ==
    LET r == curOpa.request IN
    /\ Running /\ task = "retry" /\ task' = "start"
    /\ pageBuffer' = IF r.opa \in Writes /\ r.place = "pageBuffer"
                     THEN r.data ELSE pageBuffer
    /\ aux' = IF r.opa = "WRITE_META" THEN r.data ELSE aux
    /\ UNCHANGED <<callers, queue, curOpa, retryCnt, opaDone, eccResult, driver,
                   chip, buf>>

(* The label retry, up to the wait for the channel.  The data of a write   *)
(* that must be moved goes to MTD_PageBuffer, its metadata to the          *)
(* auxiliary buffer.                                                       *)
Retry ==
    LET r == curOpa.request IN
    /\ Running /\ task = "retry"
    /\ opaDone' = FALSE /\ task' = "start"
    /\ pageBuffer' = IF r.opa \in Writes /\ r.place = "pageBuffer"
                     THEN r.data ELSE pageBuffer
    /\ aux' = IF r.opa = "WRITE_META" THEN r.data ELSE aux
    /\ UNCHANGED <<callers, queue, curOpa, retryCnt, eccResult, driver, chip, buf>>

(* The chain is handed to the channel.                                     *)
Kick(opa) ==
    /\ gpmiOpa' = opa /\ chain' = curOpa
    /\ UNCHANGED <<curcmd, ecc, irq, flash, lost>>

(* GPMI_ReadPage: it stays until the page's metadata has arrived.          *)
StartRead ==
    /\ Running /\ task = "start" /\ curOpa.request.opa \in Reads
    /\ chain = NoOpa \/ eccFin
    /\ probe' = TRUE /\ eccFin' = FALSE
    /\ Kick("READ") /\ task' = "probe"
    /\ UNCHANGED <<callers, queue, curOpa, retryCnt, opaDone, eccResult, buffers>>

ProbeSeen ==
    /\ Running /\ task = "probe" /\ ~probe
    /\ task' = "poll"
    /\ UNCHANGED <<callers, queue, curOpa, retryCnt, opaDone, eccResult,
                   driver, chip, buffers>>

(* GPMI_WritePage; without metadata the auxiliary buffer is all ones.      *)
StartWrite ==
    /\ Running /\ task = "start" /\ curOpa.request.opa \in Writes
    /\ chain = NoOpa
    /\ Kick("WRITE") /\ task' = "poll"
    /\ aux' = IF curOpa.request.opa = "WRITE" THEN Empty ELSE aux
    /\ UNCHANGED <<callers, queue, curOpa, retryCnt, opaDone, eccResult,
                   eccFin, probe, buf, pageBuffer>>

(* GPMI_EraseBlock.                                                        *)
StartErase ==
    /\ Running /\ task = "start" /\ curOpa.request.opa = "ERASE"
    /\ chain = NoOpa \/ eccFin
    /\ Kick("ERASE") /\ task' = "poll"
    /\ UNCHANGED <<callers, queue, curOpa, retryCnt, opaDone, eccResult,
                   eccFin, probe, buffers>>

(* The chip has nothing left to do or to say.                              *)
Silent == chain = NoOpa /\ ecc = "idle" /\ irq = {}

\* Mutants of Timeout: the request is given up without a notification; the
\* task polls on.
TimeoutGivesUp ==
    /\ Running /\ task = "poll" /\ ~opaDone /\ Silent
    /\ task' = "receive"
    /\ UNCHANGED <<callers, queue, curOpa, retryCnt, opaDone, eccResult, driver,
                   chip, buffers>>

TimeoutPollsOn ==
    /\ Running /\ task = "poll" /\ ~opaDone /\ Silent
    /\ UNCHANGED vars

(* Two seconds have passed.  The code jumps before it decrements retry_cnt.*)
Timeout ==
    /\ Running /\ task = "poll" /\ ~opaDone /\ Silent
    /\ IF retryCnt # 0
       THEN task' = "retry" /\ UNCHANGED <<opaDone, eccResult>>
       ELSE opaDone' = TRUE /\ eccResult' = AllBad /\ UNCHANGED task
    /\ UNCHANGED <<callers, queue, curOpa, retryCnt, driver, chip, buffers>>

(* The request is over: its data is moved to the caller, who is notified.  *)
Finish ==
    LET r == curOpa.request
        c == curOpa.task
    IN
    /\ Running /\ task = "poll" /\ opaDone
    /\ buf' = CASE r.opa = "READ_META" -> [buf EXCEPT ![c] = aux]
                [] r.opa = "READ" /\ r.place = "pageBuffer" ->
                       [buf EXCEPT ![c] = pageBuffer]
                [] OTHER -> buf
    /\ notice' = [notice EXCEPT ![c] =
                     IF r.opa \in Reads THEN ReadStatus(eccResult) ELSE eccResult]
    /\ task' = "receive"
    /\ UNCHANGED <<phase, newOpa, queue, curOpa, retryCnt, opaDone, eccResult,
                   driver, chip, pageBuffer, aux>>
-----------------------------------------------------------------------------
(* The chip and the DMA channel (external).                                *)

(* An interrupt is raised, or lost.                                        *)
Raise(i) ==
    \/ irq' = irq \cup {i} /\ UNCHANGED lost
    \/ lost < MaxLost /\ lost' = lost + 1 /\ UNCHANGED irq

(* The data that a chain writes is taken from where the driver put it.     *)
Transferred(r) ==
    IF r.opa \in Writes /\ r.place = "pageBuffer"
    THEN [r EXCEPT !.data = pageBuffer] ELSE r

ChainEnds ==
    /\ chain # NoOpa
    /\ chain' = NoOpa /\ curcmd' = "end"
    /\ flash' = After(flash, Transferred(chain.request))
    /\ ecc' = IF chain.request.opa \in Reads THEN "busy" ELSE ecc
    /\ Raise("dma")
    /\ UNCHANGED <<callers, queue, mtd, driver, buffers>>

(* A sense descriptor branches to the last one of the chain's array:       *)
(* chains_read[8], chains_write[10] or chains_erase[8].                    *)
ChainFails ==
    /\ chain # NoOpa /\ chain.request.opa \in FailOps
    /\ chain' = NoOpa
    /\ curcmd' = CASE chain.request.opa \in Reads  -> "chains_read[8]"
                   [] chain.request.opa \in Writes -> "chains_write[10]"
                   [] OTHER                        -> "chains_erase[8]"
    /\ flash' = AfterFailure(flash, chain.request)
    /\ Raise("dma")
    /\ UNCHANGED <<callers, queue, mtd, driver, buffers, ecc>>

(* The corrected page and its metadata arrive in memory.                   *)
PageLands ==
    LET r == curOpa.request IN
    /\ ecc = "busy" /\ ecc' = "landed" /\ probe' = FALSE
    /\ aux' = flash[r.page]
    /\ buf' = IF r.opa = "READ" /\ r.place = "buf"
              THEN [buf EXCEPT ![curOpa.task] = flash[r.page]] ELSE buf
    /\ pageBuffer' = IF r.place = "pageBuffer" THEN flash[r.page] ELSE pageBuffer
    /\ UNCHANGED <<callers, queue, mtd, gpmiOpa, eccFin, chain, curcmd, irq,
                   flash, lost>>

EccEnds ==
    /\ ecc = "landed" /\ ecc' = "idle"
    /\ Raise("ecc")
    /\ UNCHANGED <<callers, queue, mtd, driver, chain, curcmd, flash, buffers>>
-----------------------------------------------------------------------------
(* The interrupt handlers.                                                 *)

MTD_upOpaFin(code) == eccResult' = code /\ opaDone' = TRUE

\* Mutant of DmaIsr: the end of a read's chain ends the operation.
DmaEndsReads ==
    /\ "dma" \in irq /\ irq' = irq \ {"dma"}
    /\ MTD_upOpaFin(IF curcmd = "chains_read[8]" THEN 1 ELSE 0)
    /\ gpmiOpa' = "NONE"
    /\ UNCHANGED <<callers, queue, task, curOpa, retryCnt, eccFin, probe, chain,
                   curcmd, ecc, flash, lost, buffers>>

(* portMTD_DMA_ISR compares with chains_read[8] whatever the operation is. *)
DmaIsr ==
    /\ "dma" \in irq /\ irq' = irq \ {"dma"}
    /\ IF gpmiOpa \in {"WRITE", "ERASE"}
       THEN MTD_upOpaFin(IF curcmd = "chains_read[8]" THEN 1 ELSE 0)
       ELSE UNCHANGED <<eccResult, opaDone>>
    /\ gpmiOpa' = "NONE"
    /\ UNCHANGED <<callers, queue, task, curOpa, retryCnt, eccFin, probe, chain,
                   curcmd, ecc, flash, lost, buffers>>

(* portMTD_ECC_ISR reads the status of the page that was corrected last.   *)
EccIsr ==
    /\ "ecc" \in irq /\ irq' = irq \ {"ecc"}
    /\ eccFin' = TRUE
    /\ MTD_upOpaFin(EccOf(aux))
    /\ UNCHANGED <<callers, queue, task, curOpa, retryCnt, gpmiOpa, probe, chain,
                   curcmd, ecc, flash, lost, buffers>>
-----------------------------------------------------------------------------
Caller(c) == (\E r \in Asked : Call(c, r)) \/ Send(c) \/ Wake(c)

Task == Receive \/ Retry \/ StartRead \/ ProbeSeen \/ StartWrite \/ StartErase
        \/ Timeout \/ Finish

Chip == ChainEnds \/ PageLands \/ EccEnds

Isr == DmaIsr \/ EccIsr

Next == (\E c \in Clients : Caller(c)) \/ Task \/ Chip \/ ChainFails \/ Isr

Spec == MtdInit /\ [][Next]_vars

(* MTD_Task and the callers are scheduled, the chip works and interrupts   *)
(* are taken.  An interrupt postpones the step of a caller, it does not    *)
(* cancel it: strong fairness.  A caller need not call.                    *)
FairSpec ==
    /\ Spec
    /\ WF_vars(Task) /\ WF_vars(Chip) /\ WF_vars(Isr)
    /\ \A c \in Clients : SF_vars(Send(c)) /\ SF_vars(Wake(c))
-----------------------------------------------------------------------------
(* The states of the service (types of all variables).                     *)
TypeOK ==
    /\ phase \in [Clients -> {"idle", "sending", "waiting"}]
    /\ newOpa \in [Clients -> Requests \cup {NoRequest}]
    /\ notice \in [Clients -> Codes \cup {-1, NoNotice}]
    /\ buf \in [Clients -> Content]
    /\ queue \in Seq(Operates) /\ Len(queue) <= QueueLen
    /\ task \in {"receive", "retry", "start", "probe", "poll"}
    /\ curOpa \in Operates \cup {NoOpa}
    /\ retryCnt \in 0..MaxRetry /\ opaDone \in BOOLEAN /\ eccResult \in Codes
    /\ pageBuffer \in Content /\ aux \in Content
    /\ gpmiOpa \in {"NONE", "READ", "WRITE", "ERASE"}
    /\ eccFin \in BOOLEAN /\ probe \in BOOLEAN
    /\ chain \in Operates \cup {NoOpa}
    /\ curcmd \in {"end", "chains_read[8]", "chains_write[10]", "chains_erase[8]"}
    /\ ecc \in {"idle", "busy", "landed"} /\ irq \subseteq {"dma", "ecc"}
    /\ flash \in [Pages -> Content] /\ lost \in 0..MaxLost

Queued(c) == \E i \in DOMAIN queue : queue[i].task = c

InService(c) == task # "receive" /\ curOpa.task = c

(* A caller that waits is in the queue, in service or notified, in exactly *)
(* one of the three; one that does not wait is in none, and what is queued *)
(* or served is what its caller asked for.  So no answer goes to a caller  *)
(* that did not ask, and no caller is forgotten (MTD_Task's retry and the  *)
(* notifications of mtd_up.c).                                             *)
RequestsAccounted ==
    /\ \A i, j \in DOMAIN queue : queue[i].task = queue[j].task => i = j
    /\ \A i \in DOMAIN queue : queue[i].request = newOpa[queue[i].task]
    /\ \A c \in Clients :
          /\ InService(c) => curOpa.request = newOpa[c] /\ ~Queued(c)
          /\ notice[c] # NoNotice => ~Queued(c) /\ ~InService(c)
          /\ phase[c] = "waiting" <=>
                Queued(c) \/ InService(c) \/ notice[c] # NoNotice

(* While a chain or the error correction is at work it is for the request  *)
(* in service, and mtd_opa_done is not yet set: no buffer is written after *)
(* its owner's call returned, and no operation ends with another one's     *)
(* interrupt (portMTD_DMA_ISR, portMTD_ECC_ISR against MTD_Task).          *)
ChipServesCurrent ==
    chain # NoOpa \/ ecc # "idle" =>
        /\ task \in {"probe", "poll"} /\ ~opaDone
        /\ chain # NoOpa => chain = curOpa
        /\ ecc # "idle" => curOpa.request.opa \in Reads

(* Every answer is true: the calls implement FlashStore.  A pending        *)
(* notification is the reply, with the content of the caller's buffer.     *)
Store == INSTANCE FlashStore WITH
    request <- newOpa,
    reply <- [c \in Clients |->
                 IF notice[c] = NoNotice THEN NoReply
                 ELSE [status |-> notice[c], content |-> buf[c]]]

ImplementsFlashStore == Store!Spec

(* Every call returns, although interrupts may get lost: MTD_Task starts   *)
(* over when it has polled in vain.                                        *)
EveryCallReturns == \A c \in Clients : phase[c] = "waiting" ~> phase[c] = "idle"

(* A write or an erase that the chip could not do is not reported as a     *)
(* success.  nand.h asks for it: "The status reported by the chip should   *)
(* be checked" (dhara_nand_erase, dhara_nand_prog).                        *)
FailuresAreReported ==
    [][Finish /\ curOpa.request.opa \notin Reads
          => \/ notice'[curOpa.task] # 0
             \/ \A p \in Pages : Touches(curOpa.request, p) => flash[p] # Torn]_vars
=============================================================================
