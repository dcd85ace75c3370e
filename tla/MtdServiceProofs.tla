-------------------------- MODULE MtdServiceProofs --------------------------
(***************************************************************************)
(* Proofs about MtdService for any number of callers, pages and blocks,    *)
(* any queue length and any number of lost interrupts.                     *)
(***************************************************************************)
EXTENDS MtdService, SequenceTheorems, TLAPS

\* MTD_Task has a request, which it has not yet answered.
Serving == task # "receive"

\* MTD_Task has started an operation and waits for it.
Started == task \in {"probe", "poll"}

\* A caller has a request exactly while it is not idle, and MTD_Task has one
\* with all its retries before it while it serves.
RequestsTyped ==
    /\ \A c \in Clients : newOpa[c] \in Requests <=> phase[c] # "idle"
    /\ Serving => curOpa \in Operates /\ retryCnt = MaxRetry

\* Interrupts are pending only for a started operation and only when its chain
\* is over; the kind in GPMI_curOpa, once taken for an operation, fits it.
InterruptsFit ==
    /\ irq # {} => Started /\ chain = NoOpa
    /\ "ecc" \in irq => ecc = "idle" /\ curOpa.request.opa \in Reads
    /\ Started => gpmiOpa \in {"NONE", IF curOpa.request.opa \in Reads THEN "READ"
                                 ELSE IF curOpa.request.opa \in Writes THEN "WRITE"
                                 ELSE "ERASE"}
    /\ chain # NoOpa => ecc = "idle"
    /\ task = "start" => ~opaDone

MtdInv ==
    TypeOK /\ RequestsAccounted /\ ChipServesCurrent /\ RequestsTyped /\ InterruptsFit

\* If the chip never fails: a page to be written is empty until it holds the
\* data, and no two callers change the same page.
WritersApart ==
    /\ \A c \in Clients :
          newOpa[c] \in Requests /\ newOpa[c].opa \in Writes
             => flash[newOpa[c].page] \in {Empty, newOpa[c].data}
    /\ \A c, d \in Clients, p \in Pages :
          /\ newOpa[c] \in Requests /\ newOpa[c].opa \notin Reads
          /\ newOpa[d] \in Requests /\ newOpa[d].opa \notin Reads
          /\ Touches(newOpa[c], p) /\ Touches(newOpa[d], p)
          => c = d

\* The data of a write is where the chain takes it from.
DataInPlace ==
    /\ task \notin {"receive", "retry"} /\ curOpa.request.opa \in Writes
    /\ curOpa.request.place = "pageBuffer"
    => pageBuffer = curOpa.request.data

\* When the chip has finished, the flash and the buffers are as the request
\* wants them, and so is the result when it has been reported.
EffectDone ==
    LET r == curOpa.request IN
    /\ curcmd = "end"
    /\ Started /\ chain = NoOpa /\ ecc # "busy" =>
         /\ r.opa \in Reads =>
              /\ aux = flash[r.page]
              /\ r.place = "pageBuffer" => pageBuffer = flash[r.page]
              /\ r.opa = "READ" /\ r.place = "buf" => buf[curOpa.task] = flash[r.page]
         /\ r.opa \in Writes => flash[r.page] = r.data
         /\ r.opa = "ERASE" => \A p \in Pages : Touches(r, p) => flash[p] = Empty
    /\ Started /\ opaDone =>
         eccResult = IF r.opa \in Reads THEN EccOf(flash[r.page]) ELSE 0

StoreInv == WritersApart /\ DataInPlace /\ EffectDone
-----------------------------------------------------------------------------
(* Requests and the flash *)

LEMMA RequestShape ==
    ASSUME NEW r \in Requests
    PROVE  /\ r.opa \in Reads \cup Writes \cup {"ERASE"}
           /\ r.data \in Content
           /\ r.opa \in Reads \cup Writes => r.page \in Pages
           /\ r.opa \in Writes => r.data \in Data
           /\ \A d : /\ [r EXCEPT !.data = d].opa = r.opa
                    /\ [r EXCEPT !.data = d].page = r.page
                    /\ [r EXCEPT !.data = d].place = r.place
                    /\ [r EXCEPT !.data = d].data = d
<1>1. CASE r \in [opa : {"READ"}, page : Pages, data : {Empty},
                  place : {"buf", "pageBuffer", "null"}]
  BY <1>1 DEF Reads, Writes, Content
<1>2. CASE r \in [opa : {"READ_META"}, page : Pages, data : {Empty}, place : {"null"}]
  BY <1>2 DEF Reads, Writes, Content
<1>3. CASE r \in [opa : Writes, page : Pages, data : Data, place : {"buf", "pageBuffer"}]
  BY <1>3 DEF Reads, Writes, Content
<1>4. CASE r \in [opa : {"ERASE"}, page : Blocks, data : {Empty}, place : {"null"}]
  BY <1>4 DEF Reads, Writes, Content
<1> QED BY <1>1, <1>2, <1>3, <1>4 DEF Requests

LEMMA OperatesShape ==
    ASSUME NEW o \in Operates
    PROVE  o.request \in Requests /\ o.task \in Clients /\ o # NoOpa
BY MtdAssumption DEF Operates

LEMMA OpaKinds ==
    /\ Reads = {"READ", "READ_META"} /\ Writes = {"WRITE", "WRITE_META"}
    /\ Reads \cap Writes = {} /\ "ERASE" \notin Reads \cup Writes
BY DEF Reads, Writes

LEMMA AfterTyped ==
    ASSUME NEW store \in [Pages -> Content], NEW r, r.data \in Content
    PROVE  /\ After(store, r) \in [Pages -> Content]
           /\ AfterFailure(store, r) \in [Pages -> Content]
BY DEF After, AfterFailure, Programmed, Content

-----------------------------------------------------------------------------
(* MtdInv *)

LEMMA SameAccounts ==
    ASSUME RequestsAccounted, UNCHANGED <<callers, queue, curOpa>>,
           task' = "receive" <=> task = "receive"
    PROVE  RequestsAccounted'
BY DEF RequestsAccounted, Queued, InService, callers

LEMMA InitInv == MtdInit => MtdInv
<1> SUFFICES ASSUME MtdInit PROVE MtdInv
  OBVIOUS
<1>1. TypeOK
  <2>1. queue \in Seq(Operates) /\ Len(queue) <= QueueLen
    <3>1. <<>> \in Seq(Operates) /\ Len(<<>>) = 0
      BY EmptySeq
    <3> QED BY <3>1, MtdAssumption DEF MtdInit
  <2>2. retryCnt \in 0 .. MaxRetry /\ lost \in 0 .. MaxLost /\ eccResult \in Codes
    BY MtdAssumption DEF MtdInit, Codes
  <2> QED BY <2>1, <2>2 DEF MtdInit, TypeOK, Content
<1>2. RequestsAccounted
  BY DEF MtdInit, RequestsAccounted, Queued, InService
<1>3. ChipServesCurrent /\ RequestsTyped /\ InterruptsFit
  BY MtdAssumption DEF MtdInit, ChipServesCurrent, RequestsTyped, InterruptsFit,
                       Serving, Started
<1> QED BY <1>1, <1>2, <1>3 DEF MtdInv

LEMMA CallerCases ==
    ASSUME NEW c \in Clients, Caller(c)
    PROVE  (\E r \in Requests : Call(c, r)) \/ Send(c) \/ Wake(c)
BY MtdAssumption DEF Caller

LEMMA CallKeeps ==
    ASSUME MtdInv, NEW c \in Clients, NEW r \in Requests, Call(c, r)
    PROVE  MtdInv'
<1> USE DEF MtdInv
<1>1. TypeOK'
  BY DEF Call, TypeOK, mtd, driver, chip, buffers
<1>2. RequestsAccounted'
  <2>1. ~Queued(c) /\ ~InService(c) /\ notice[c] = NoNotice
    BY DEF Call, RequestsAccounted
  <2>2. /\ \A d \in Clients : d # c => /\ newOpa'[d] = newOpa[d]
                                     /\ notice'[d] = notice[d]
                                     /\ phase'[d] = phase[d]
        /\ phase'[c] = "sending" /\ notice'[c] = NoNotice
    BY DEF Call, TypeOK
  <2>3. \A d \in Clients : /\ Queued(d)' = Queued(d) /\ InService(d)' = InService(d)
    BY DEF Call, Queued, InService, mtd
  <2>4. \A i \in DOMAIN queue : queue[i].task \in Clients /\ queue[i].task # c
    BY <2>1, ElementOfSeq, OperatesShape DEF Queued, TypeOK
  <2>5. queue' = queue /\ curOpa' = curOpa
    BY DEF Call, mtd
  <2> QED BY <2>1, <2>2, <2>3, <2>4, <2>5 DEF RequestsAccounted
<1>3. ChipServesCurrent' /\ InterruptsFit'
  BY DEF Call, ChipServesCurrent, InterruptsFit, Started, mtd, driver, chip
<1>4. RequestsTyped'
  BY DEF Call, RequestsTyped, Serving, mtd, TypeOK
<1> QED BY <1>1, <1>2, <1>3, <1>4

LEMMA SendKeeps ==
    ASSUME MtdInv, NEW c \in Clients, Send(c)
    PROVE  MtdInv'
<1> USE DEF MtdInv
<1> DEFINE o == [request |-> newOpa[c], task |-> c]
<1>0. newOpa[c] \in Requests /\ o \in Operates
  BY DEF Send, RequestsTyped, Operates
<1>1. /\ queue' = Append(queue, o) /\ queue' \in Seq(Operates)
      /\ Len(queue) \in Nat /\ Len(queue') = Len(queue) + 1
      /\ DOMAIN queue = 1 .. Len(queue) /\ DOMAIN queue' = 1 .. Len(queue) + 1
      /\ \A i \in 1 .. Len(queue) : queue'[i] = queue[i]
      /\ queue'[Len(queue) + 1] = o
  BY <1>0 DEF Send, TypeOK
<1>2. TypeOK'
  BY <1>1, MtdAssumption DEF Send, TypeOK, mtd, driver, chip, buffers
<1>3. RequestsAccounted'
  <2>1. ~Queued(c) /\ ~InService(c) /\ notice[c] = NoNotice
    BY DEF Send, RequestsAccounted
  <2>2. /\ \A d \in Clients : d # c => phase'[d] = phase[d]
        /\ phase'[c] = "waiting" /\ newOpa' = newOpa /\ notice' = notice
    BY DEF Send, TypeOK
  <2>3. \A d \in Clients : InService(d)' = InService(d)
    BY DEF Send, InService, mtd
  <2>4. \A i \in 1 .. Len(queue) : queue[i].task # c
    BY <2>1, <1>1 DEF Queued
  <2>5. \A d \in Clients : Queued(d)' <=> Queued(d) \/ d = c
    <3> TAKE d \in Clients
    <3>1. Queued(d)' <=> \E i \in 1 .. Len(queue) + 1 : queue'[i].task = d
      BY <1>1 DEF Queued
    <3>2. Queued(d) <=> \E i \in 1 .. Len(queue) : queue[i].task = d
      BY <1>1 DEF Queued
    <3> QED BY <1>1, <3>1, <3>2
  <2>6. curOpa' = curOpa
    BY DEF Send, mtd
  <2>7. \A i, j \in DOMAIN queue' : queue'[i].task = queue'[j].task => i = j
    BY <1>1, <2>4 DEF RequestsAccounted
  <2>8. \A i \in DOMAIN queue' : queue'[i].request = newOpa'[queue'[i].task]
    BY <1>1, <2>2 DEF RequestsAccounted
  <2> QED BY <2>1, <2>2, <2>3, <2>5, <2>6, <2>7, <2>8 DEF RequestsAccounted
<1>4. ChipServesCurrent' /\ InterruptsFit'
  BY DEF Send, ChipServesCurrent, InterruptsFit, Started, mtd, driver, chip
<1>5. RequestsTyped'
  BY DEF Send, RequestsTyped, Serving, mtd, TypeOK
<1> QED BY <1>2, <1>3, <1>4, <1>5

LEMMA WakeKeeps ==
    ASSUME MtdInv, NEW c \in Clients, Wake(c)
    PROVE  MtdInv'
<1> USE DEF MtdInv
<1>1. TypeOK'
  BY DEF Wake, TypeOK, Content, mtd, driver, chip
<1>2. RequestsAccounted'
  <2>1. ~Queued(c) /\ ~InService(c)
    BY DEF Wake, RequestsAccounted
  <2>2. /\ \A d \in Clients : d # c => /\ newOpa'[d] = newOpa[d]
                                     /\ notice'[d] = notice[d]
                                     /\ phase'[d] = phase[d]
        /\ phase'[c] = "idle" /\ notice'[c] = NoNotice
    BY DEF Wake, TypeOK
  <2>3. \A d \in Clients : /\ Queued(d)' = Queued(d) /\ InService(d)' = InService(d)
    BY DEF Wake, Queued, InService, mtd
  <2>4. \A i \in DOMAIN queue : queue[i].task \in Clients /\ queue[i].task # c
    BY <2>1, ElementOfSeq, OperatesShape DEF Queued, TypeOK
  <2>5. queue' = queue /\ curOpa' = curOpa
    BY DEF Wake, mtd
  <2> QED BY <2>1, <2>2, <2>3, <2>4, <2>5 DEF RequestsAccounted
<1>3. ChipServesCurrent' /\ InterruptsFit'
  BY DEF Wake, ChipServesCurrent, InterruptsFit, Started, mtd, driver, chip
<1>4. RequestsTyped'
  BY MtdAssumption DEF Wake, RequestsTyped, Serving, mtd, TypeOK
<1> QED BY <1>1, <1>2, <1>3, <1>4

LEMMA ReceiveKeeps == MtdInv /\ Receive => MtdInv'
<1> SUFFICES ASSUME MtdInv, Receive PROVE MtdInv'
  OBVIOUS
<1> USE DEF MtdInv
<1>1. /\ queue \in Seq(Operates) /\ Len(queue) \in Nat \ {0}
      /\ DOMAIN queue = 1 .. Len(queue) /\ curOpa' = queue[1] /\ queue' = Tail(queue)
  BY EmptySeq DEF Receive, TypeOK
<1>2. /\ queue' \in Seq(Operates) /\ Len(queue') = Len(queue) - 1
      /\ DOMAIN queue' = 1 .. Len(queue) - 1
      /\ \A i \in 1 .. Len(queue) - 1 : queue'[i] = queue[i + 1]
  BY <1>1, HeadTailProperties
<1>3. curOpa' \in Operates
  BY <1>1, ElementOfSeq
<1>4. TypeOK'
  <2>1. Len(queue') <= QueueLen
    BY <1>1, <1>2, MtdAssumption DEF TypeOK
  <2>2. retryCnt' \in 0 .. MaxRetry
    BY MtdAssumption DEF Receive
  <2> QED BY <1>2, <1>3, <2>1, <2>2 DEF Receive, TypeOK, callers, driver, chip, buffers
<1>5. RequestsAccounted'
  <2> DEFINE c == queue[1].task
  <2>1. c \in Clients /\ Queued(c) /\ queue[1].request = newOpa[c]
    BY <1>1, <1>3, OperatesShape DEF Queued, RequestsAccounted
  <2>2. /\ phase' = phase /\ newOpa' = newOpa /\ notice' = notice
        /\ task = "receive" /\ task' = "retry"
    BY DEF Receive, callers
  <2>3. \A d \in Clients : ~InService(d) /\ (InService(d)' <=> d = c)
    BY <1>1, <2>2 DEF InService
  <2>4. \A d \in Clients : Queued(d)' <=> Queued(d) /\ d # c
    <3> TAKE d \in Clients
    <3>1. Queued(d)' <=> \E i \in 1 .. Len(queue) - 1 : queue[i + 1].task = d
      BY <1>2 DEF Queued
    <3>2. Queued(d) <=> \E i \in 1 .. Len(queue) : queue[i].task = d
      BY <1>1 DEF Queued
    <3>3. \A i \in 1 .. Len(queue) - 1 : i + 1 \in DOMAIN queue /\ i + 1 # 1
      BY <1>1
    <3>4. \A i \in 1 .. Len(queue) : i = 1 \/ i - 1 \in 1 .. Len(queue) - 1
      BY <1>1
    <3>5. \A i \in 1 .. Len(queue) - 1 : queue[i + 1].task # c
      BY <1>1, <3>3 DEF RequestsAccounted
    <3>6. CASE d = c
      BY <3>1, <3>5, <3>6
    <3>7. CASE d # c
      <4>1. ASSUME Queued(d) PROVE Queued(d)'
        <5>1. PICK i \in 1 .. Len(queue) : queue[i].task = d
          BY <3>2, <4>1
        <5>2. i - 1 \in 1 .. Len(queue) - 1 /\ (i - 1) + 1 = i
          BY <3>4, <3>7, <5>1
        <5> QED BY <3>1, <5>1, <5>2
      <4> QED BY <1>1, <3>1, <3>2, <3>3, <3>7, <4>1
    <3> QED BY <3>6, <3>7
  <2>5. \A i, j \in DOMAIN queue' : queue'[i].task = queue'[j].task => i = j
    <3> TAKE i, j \in DOMAIN queue'
    <3>1. i + 1 \in DOMAIN queue /\ j + 1 \in DOMAIN queue
      BY <1>1, <1>2
    <3>2. queue'[i] = queue[i + 1] /\ queue'[j] = queue[j + 1]
      BY <1>2
    <3>3. queue[i + 1].task = queue[j + 1].task => i + 1 = j + 1
      BY <3>1 DEF RequestsAccounted
    <3> QED BY <1>2, <3>2, <3>3
  <2>6. \A i \in DOMAIN queue' : queue'[i].request = newOpa'[queue'[i].task]
    <3> TAKE i \in DOMAIN queue'
    <3>1. i + 1 \in DOMAIN queue /\ queue'[i] = queue[i + 1]
      BY <1>1, <1>2
    <3> QED BY <2>2, <3>1 DEF RequestsAccounted
  <2>7. curOpa'.request = newOpa'[c]
    BY <1>1, <2>1, <2>2
  <2>8. \A d \in Clients :
           phase'[d] = "waiting" <=> Queued(d)' \/ InService(d)' \/ notice'[d] # NoNotice
    BY <2>1, <2>2, <2>3, <2>4 DEF RequestsAccounted
  <2>9. \A d \in Clients :
           /\ InService(d)' => curOpa'.request = newOpa'[d] /\ ~Queued(d)'
           /\ notice'[d] # NoNotice => ~Queued(d)' /\ ~InService(d)'
    BY <2>1, <2>2, <2>3, <2>4, <2>7 DEF RequestsAccounted
  <2> QED BY <2>5, <2>6, <2>8, <2>9 DEF RequestsAccounted
<1>6. ChipServesCurrent' /\ InterruptsFit'
  BY DEF Receive, ChipServesCurrent, InterruptsFit, Started, Running, driver, chip
<1>7. RequestsTyped'
  BY <1>3 DEF Receive, RequestsTyped, Serving, callers
<1> QED BY <1>4, <1>5, <1>6, <1>7

LEMMA RetryKeeps == MtdInv /\ Retry => MtdInv'
<1> SUFFICES ASSUME MtdInv, Retry PROVE MtdInv'
  OBVIOUS
<1> USE DEF MtdInv
<1>1. curOpa \in Operates /\ curOpa.request.data \in Content
  BY OperatesShape, RequestShape DEF Retry, RequestsTyped, Serving
<1>2. TypeOK'
  BY <1>1 DEF Retry, TypeOK, callers, driver, chip
<1>3. RequestsAccounted'
  BY SameAccounts DEF Retry
<1>4. ChipServesCurrent' /\ InterruptsFit' /\ RequestsTyped'
  BY DEF Retry, ChipServesCurrent, InterruptsFit, RequestsTyped, Serving, Started,
         Running, callers, driver, chip
<1> QED BY <1>2, <1>3, <1>4

LEMMA StartKeeps == MtdInv /\ (StartRead \/ StartWrite \/ StartErase) => MtdInv'
<1> SUFFICES ASSUME MtdInv, StartRead \/ StartWrite \/ StartErase PROVE MtdInv'
  OBVIOUS
<1> USE DEF MtdInv
<1>1. curOpa \in Operates /\ task = "start" /\ irq = {} /\ ecc = "idle" /\ chain = NoOpa
  <2>1. task = "start" /\ irq = {}
    BY DEF StartRead, StartWrite, StartErase, Running
  <2> QED BY <2>1 DEF RequestsTyped, Serving, ChipServesCurrent
<1>2. /\ UNCHANGED <<callers, queue, curOpa, retryCnt, opaDone, eccResult, curcmd, ecc,
                     irq, flash, lost>>
      /\ chain' = curOpa /\ task' \in {"probe", "poll"}
  BY DEF StartRead, StartWrite, StartErase, Kick, buffers
<1>3. TypeOK'
  <2>1. /\ aux' \in Content /\ buf' \in [Clients -> Content] /\ pageBuffer' \in Content
        /\ eccFin' \in BOOLEAN /\ probe' \in BOOLEAN
        /\ gpmiOpa' \in {"NONE", "READ", "WRITE", "ERASE"}
    BY DEF StartRead, StartWrite, StartErase, Kick, buffers, TypeOK, Content
  <2> QED BY <1>1, <1>2, <2>1 DEF TypeOK, callers
<1>4. RequestsAccounted'
  BY <1>1, <1>2, SameAccounts
<1>5. opaDone = FALSE
  BY <1>1 DEF InterruptsFit
<1>6. ChipServesCurrent'
  BY <1>1, <1>2, <1>5, OperatesShape DEF ChipServesCurrent
<1>7. InterruptsFit'
  <2>1. gpmiOpa' = IF curOpa.request.opa \in Reads THEN "READ"
                   ELSE IF curOpa.request.opa \in Writes THEN "WRITE" ELSE "ERASE"
    BY OpaKinds DEF StartRead, StartWrite, StartErase, Kick
  <2> QED BY <1>1, <1>2, <2>1 DEF InterruptsFit
<1>8. RequestsTyped'
  BY <1>1, <1>2 DEF RequestsTyped, Serving, callers
<1> QED BY <1>3, <1>4, <1>6, <1>7, <1>8

LEMMA WaitKeeps == MtdInv /\ (ProbeSeen \/ Timeout) => MtdInv'
<1> SUFFICES ASSUME MtdInv, ProbeSeen \/ Timeout PROVE MtdInv'
  OBVIOUS
<1> USE DEF MtdInv
<1>1. CASE ProbeSeen
  <2>1. TypeOK'
    BY <1>1 DEF ProbeSeen, TypeOK, callers, driver, chip, buffers
  <2>2. RequestsAccounted'
    BY <1>1, SameAccounts DEF ProbeSeen
  <2>3. ChipServesCurrent' /\ InterruptsFit' /\ RequestsTyped'
    BY <1>1 DEF ProbeSeen, ChipServesCurrent, InterruptsFit, RequestsTyped, Serving,
                Started, callers, driver, chip
  <2> QED BY <2>1, <2>2, <2>3
<1>2. CASE Timeout
  <2>1. retryCnt # 0
    BY <1>2, MtdAssumption DEF Timeout, RequestsTyped, Serving
  <2>2. task = "poll" /\ task' = "retry" /\ chain = NoOpa /\ ecc = "idle" /\ irq = {}
    BY <1>2, <2>1 DEF Timeout, Silent
  <2>3. UNCHANGED <<callers, queue, curOpa, retryCnt, opaDone, eccResult, driver, chip,
                    buffers>>
    BY <1>2, <2>1 DEF Timeout
  <2>4. TypeOK'
    BY <2>2, <2>3 DEF TypeOK, callers, driver, chip, buffers
  <2>5. RequestsAccounted'
    BY <2>2, <2>3, SameAccounts
  <2>6. ChipServesCurrent' /\ InterruptsFit' /\ RequestsTyped'
    BY <2>2, <2>3 DEF ChipServesCurrent, InterruptsFit, RequestsTyped, Serving,
                Started, callers, driver, chip
  <2> QED BY <2>4, <2>5, <2>6
<1> QED BY <1>1, <1>2

LEMMA FinishKeeps == MtdInv /\ Finish => MtdInv'
<1> SUFFICES ASSUME MtdInv, Finish PROVE MtdInv'
  OBVIOUS
<1> USE DEF MtdInv
<1> DEFINE c == curOpa.task
           code == IF curOpa.request.opa \in Reads THEN ReadStatus(eccResult) ELSE eccResult
<1>1. /\ task = "poll" /\ task' = "receive" /\ opaDone /\ irq = {}
      /\ notice' = [notice EXCEPT ![c] = code]
      /\ UNCHANGED <<phase, newOpa, queue, curOpa, retryCnt, opaDone, eccResult, driver,
                     chip, pageBuffer, aux>>
  BY DEF Finish, Running
<1>2. c \in Clients /\ chain = NoOpa /\ ecc = "idle"
  BY <1>1, OperatesShape DEF RequestsTyped, Serving, ChipServesCurrent
<1>3. code \in Codes \cup {-1} /\ code # NoNotice
  <2>1. eccResult \in Codes
    BY DEF TypeOK
  <2>2. code \in Codes \cup {-1}
    BY <2>1 DEF ReadStatus, Codes
  <2>3. Codes \cup {-1} \subseteq Int
    BY DEF Codes, AllEmpty, AllBad
  <2>4. NoNotice \notin Int
    BY MtdAssumption
  <2> HIDE DEF code
  <2> QED BY <2>2, <2>3, <2>4
<1>4. TypeOK'
  <2>1. buf' \in [Clients -> Content]
    BY DEF Finish, TypeOK
  <2>2. notice' \in [Clients -> Codes \cup {-1, NoNotice}]
    BY <1>1, <1>3 DEF TypeOK
  <2> QED BY <1>1, <2>1, <2>2 DEF TypeOK, driver, chip
<1>5. RequestsAccounted'
  <2>1. InService(c) /\ phase[c] = "waiting" /\ ~Queued(c)
    BY <1>1, <1>2 DEF InService, RequestsAccounted
  <2>2. \A d \in Clients : /\ Queued(d)' <=> Queued(d)
                          /\ ~InService(d)' /\ (InService(d) <=> d = c)
    BY <1>1 DEF Queued, InService
  <2>3. notice'[c] # NoNotice /\ \A d \in Clients : d # c => notice'[d] = notice[d]
    BY <1>1, <1>2, <1>3 DEF TypeOK
  <2> QED BY <1>1, <1>2, <2>1, <2>2, <2>3 DEF RequestsAccounted
<1>6. ChipServesCurrent' /\ InterruptsFit' /\ RequestsTyped'
  BY <1>1, <1>2 DEF ChipServesCurrent, InterruptsFit, RequestsTyped, Serving, Started,
                   driver, chip
<1> QED BY <1>4, <1>5, <1>6

LEMMA ChainKeeps == MtdInv /\ (ChainEnds \/ ChainFails) => MtdInv'
<1> SUFFICES ASSUME MtdInv, ChainEnds \/ ChainFails PROVE MtdInv'
  OBVIOUS
<1> USE DEF MtdInv
<1> DEFINE r == chain.request
<1>1. /\ chain # NoOpa /\ chain = curOpa /\ Started /\ ~opaDone /\ ecc = "idle"
      /\ chain \in Operates /\ r \in Requests
  BY OperatesShape DEF ChainEnds, ChainFails, ChipServesCurrent, Started, InterruptsFit, TypeOK
<1>2. /\ UNCHANGED <<callers, queue, mtd, driver, buffers>> /\ chain' = NoOpa
      /\ ecc' \in {"idle", "busy"} /\ (ecc' = "busy" => r.opa \in Reads)
      /\ irq' \subseteq irq \cup {"dma"} /\ lost' \in {lost, lost + 1} /\ lost' <= MaxLost
      /\ curcmd' \in {"end", "chains_read[8]", "chains_write[10]", "chains_erase[8]"}
  BY <1>1, MtdAssumption DEF ChainEnds, ChainFails, Raise, TypeOK
<1>3. flash' \in [Pages -> Content]
  <2>1. flash \in [Pages -> Content] /\ r.data \in Content
    BY <1>1, RequestShape DEF TypeOK
  <2>2. Transferred(r).data \in Content
    BY <1>1, <2>1, RequestShape DEF Transferred, TypeOK
  <2>3. flash' = After(flash, Transferred(r)) \/ flash' = AfterFailure(flash, r)
    BY DEF ChainEnds, ChainFails
  <2> QED BY <2>1, <2>2, <2>3, AfterTyped
<1>4. TypeOK'
  BY <1>2, <1>3 DEF TypeOK, callers, mtd, driver, buffers
<1>5. RequestsAccounted'
  BY <1>2, SameAccounts DEF mtd
<1>6. ChipServesCurrent' /\ InterruptsFit' /\ RequestsTyped'
  BY <1>1, <1>2 DEF ChipServesCurrent, InterruptsFit, RequestsTyped, Serving, Started,
                   callers, mtd, driver
<1> QED BY <1>4, <1>5, <1>6

LEMMA EccKeeps == MtdInv /\ (PageLands \/ EccEnds) => MtdInv'
<1> SUFFICES ASSUME MtdInv, PageLands \/ EccEnds PROVE MtdInv'
  OBVIOUS
<1> USE DEF MtdInv
<1>1. /\ Started /\ ~opaDone /\ ecc # "idle" /\ chain = NoOpa
      /\ curOpa \in Operates /\ curOpa.request.opa \in Reads
      /\ UNCHANGED <<callers, queue, mtd, gpmiOpa, eccFin, chain, curcmd, flash>>
      /\ ((ecc' = "landed" /\ UNCHANGED irq) \/ (ecc' = "idle" /\ irq' \subseteq irq \cup {"ecc"}))
  BY DEF PageLands, EccEnds, Raise, ChipServesCurrent, Started, Serving, InterruptsFit,
         RequestsTyped, driver
<1>2. TypeOK'
  <2>1. curOpa.request.page \in Pages /\ curOpa.task \in Clients
    BY <1>1, OperatesShape, RequestShape
  <2>2. /\ aux' \in Content /\ buf' \in [Clients -> Content] /\ pageBuffer' \in Content
        /\ probe' \in BOOLEAN /\ lost' \in 0 .. MaxLost
    <3>1. CASE PageLands
      BY <2>1, <3>1 DEF PageLands, TypeOK
    <3>2. CASE EccEnds
      BY <3>2, MtdAssumption DEF EccEnds, Raise, TypeOK, driver, buffers
    <3> QED BY <3>1, <3>2
  <2> QED BY <1>1, <2>2 DEF TypeOK, callers, mtd
<1>3. RequestsAccounted'
  BY <1>1, SameAccounts DEF mtd
<1>4. ChipServesCurrent' /\ InterruptsFit' /\ RequestsTyped'
  BY <1>1 DEF ChipServesCurrent, InterruptsFit, RequestsTyped, Serving, Started,
              callers, mtd
<1> QED BY <1>2, <1>3, <1>4

LEMMA IsrKeeps == MtdInv /\ Isr => MtdInv'
<1> SUFFICES ASSUME MtdInv, Isr PROVE MtdInv'
  OBVIOUS
<1> USE DEF MtdInv
<1>1. Started /\ chain = NoOpa /\ irq # {} /\ curOpa \in Operates
  BY DEF Isr, DmaIsr, EccIsr, InterruptsFit, Started, RequestsTyped, Serving
<1>2. CASE DmaIsr
  <2>1. /\ UNCHANGED <<callers, queue, task, curOpa, retryCnt, eccFin, probe, chain, curcmd,
                       ecc, flash, lost, buffers>>
        /\ gpmiOpa' = "NONE" /\ irq' \subseteq irq
    BY <1>2 DEF DmaIsr
  <2>2. eccResult' \in Codes /\ opaDone' \in BOOLEAN
    BY <1>2 DEF DmaIsr, MTD_upOpaFin, Codes, TypeOK
  <2>3. opaDone' # opaDone => ecc = "idle"
    BY <1>1, <1>2, OpaKinds DEF DmaIsr, InterruptsFit, ChipServesCurrent
  <2>4. TypeOK'
    BY <2>1, <2>2 DEF TypeOK, callers, buffers
  <2>5. RequestsAccounted'
    BY <2>1, SameAccounts
  <2>6. ChipServesCurrent' /\ RequestsTyped'
    BY <1>1, <2>1, <2>2, <2>3 DEF ChipServesCurrent, RequestsTyped, Serving, Started,
                             callers, TypeOK
  <2>7. InterruptsFit'
    BY <1>1, <2>1 DEF InterruptsFit, Started
  <2> QED BY <2>4, <2>5, <2>6, <2>7
<1>3. CASE EccIsr
  <2>1. /\ UNCHANGED <<callers, queue, task, curOpa, retryCnt, gpmiOpa, probe, chain, curcmd,
                       ecc, flash, lost, buffers>>
        /\ eccFin' \in BOOLEAN /\ irq' \subseteq irq
    BY <1>3 DEF EccIsr
  <2>2. eccResult' \in Codes /\ opaDone' = TRUE
    BY <1>3 DEF EccIsr, MTD_upOpaFin, Codes, EccOf
  <2>3. ecc = "idle"
    BY <1>3 DEF EccIsr, InterruptsFit
  <2>4. TypeOK'
    BY <2>1, <2>2 DEF TypeOK, callers, buffers
  <2>5. RequestsAccounted'
    BY <2>1, SameAccounts
  <2>6. ChipServesCurrent' /\ RequestsTyped'
    BY <1>1, <2>1, <2>2, <2>3 DEF ChipServesCurrent, RequestsTyped, Serving, Started,
                             callers
  <2>7. InterruptsFit'
    BY <1>1, <2>1 DEF InterruptsFit, Started
  <2> QED BY <2>4, <2>5, <2>6, <2>7
<1> QED BY <1>2, <1>3 DEF Isr

LEMMA StepKeeps == MtdInv /\ [Next]_vars => MtdInv'
<1> SUFFICES ASSUME MtdInv, [Next]_vars PROVE MtdInv'
  OBVIOUS
<1>1. CASE \E c \in Clients : Caller(c)
  BY <1>1, CallerCases, CallKeeps, SendKeeps, WakeKeeps
<1>2. CASE Task
  BY <1>2, ReceiveKeeps, RetryKeeps, StartKeeps, WaitKeeps, FinishKeeps DEF Task
<1>3. CASE Chip \/ ChainFails
  BY <1>3, ChainKeeps, EccKeeps DEF Chip
<1>4. CASE Isr
  BY <1>4, IsrKeeps
<1>5. CASE UNCHANGED vars
  <2>1. TypeOK'
    BY <1>5 DEF MtdInv, TypeOK, vars, callers, mtd, driver, chip, buffers
  <2>2. RequestsAccounted'
    BY <1>5, SameAccounts DEF MtdInv, vars, mtd
  <2>3. ChipServesCurrent' /\ InterruptsFit' /\ RequestsTyped'
    BY <1>5 DEF MtdInv, ChipServesCurrent, InterruptsFit, RequestsTyped, Serving, Started,
                vars, callers, mtd, driver, chip
  <2> QED BY <2>1, <2>2, <2>3 DEF MtdInv
<1> QED BY <1>1, <1>2, <1>3, <1>4, <1>5 DEF Next

LEMMA AlwaysInv == Spec => []MtdInv
BY InitInv, StepKeeps, PTL DEF Spec

(* The variables of the service keep their types.                          *)
THEOREM ServiceTyped == Spec => []TypeOK
BY AlwaysInv, PTL DEF MtdInv

(* For any number of callers no request is forgotten or answered twice     *)
(* (MTD_Task, mtd_up.c).                                                   *)
THEOREM RequestsStayAccounted == Spec => []RequestsAccounted
BY AlwaysInv, PTL DEF MtdInv

(* No operation ends with the interrupt of another one, and no buffer is   *)
(* written for a call that has returned, however many interrupts get lost  *)
(* (portMTD_DMA_ISR, portMTD_ECC_ISR, stmp_gpmi.c).                        *)
THEOREM ChipStaysWithCurrent == Spec => []ChipServesCurrent
BY AlwaysInv, PTL DEF MtdInv
-----------------------------------------------------------------------------
(* StoreInv, as long as the chip does not fail                             *)

LEMMA CarriedOut ==
    ASSUME NEW store \in [Pages -> Content], NEW r \in Requests, NEW q,
           q.opa = r.opa, q.page = r.page, q.data = r.data
    PROVE  /\ After(store, q) = After(store, r)
           /\ \A p \in Pages : r.opa \in Reads \/ ~Touches(r, p) => After(store, r)[p] = store[p]
           /\ r.opa = "ERASE" => \A p \in Pages : Touches(r, p) => After(store, r)[p] = Empty
           /\ r.opa \in Writes =>
                \A p \in Pages : Touches(r, p) => After(store, r)[p] = Programmed(store[p], r.data)
<1>1. r.opa \in Reads \cup Writes \cup {"ERASE"}
  BY RequestShape
<1>2. \A p : Touches(q, p) <=> Touches(r, p)
  BY DEF Touches
<1>3. After(store, q) = After(store, r)
  BY <1>2 DEF After
<1>4. \A p \in Pages : r.opa \in Reads \/ ~Touches(r, p) => After(store, r)[p] = store[p]
  BY DEF After
<1>5. r.opa = "ERASE" => \A p \in Pages : Touches(r, p) => After(store, r)[p] = Empty
  BY OpaKinds DEF After
<1>6. r.opa \in Writes =>
        \A p \in Pages : Touches(r, p) => After(store, r)[p] = Programmed(store[p], r.data)
  BY OpaKinds DEF After
<1> QED BY <1>3, <1>4, <1>5, <1>6

LEMMA InitStore == MtdInit => StoreInv
BY MtdAssumption DEF MtdInit, StoreInv, WritersApart, DataInPlace, EffectDone, Started

LEMMA CallerKeepsStore ==
    ASSUME MtdInv, StoreInv, NEW c \in Clients, Caller(c)
    PROVE  StoreInv'
<1> USE DEF StoreInv, MtdInv
<1>1. UNCHANGED <<mtd, driver, chip, pageBuffer, aux>>
  BY DEF Caller, Call, Send, Wake, buffers
<1>2. \A d \in Clients : InService(d) => buf'[d] = buf[d]
  BY DEF Caller, Call, Send, Wake, buffers, RequestsAccounted, TypeOK
<1>3. Started => curOpa.task \in Clients /\ InService(curOpa.task)
  BY OperatesShape DEF Started, RequestsTyped, Serving, InService
<1>4. DataInPlace' /\ EffectDone'
  BY <1>1, <1>2, <1>3 DEF DataInPlace, EffectDone, Started, mtd, chip
<1>5. WritersApart'
  <2>1. CASE \E r \in Requests : Call(c, r)
    <3>1. PICK r \in Requests : Call(c, r)
      BY <2>1
    <3>2. /\ newOpa'[c] = r /\ \A d \in Clients : d # c => newOpa'[d] = newOpa[d]
          /\ flash' = flash /\ Disciplined(r) /\ phase[c] = "idle"
      BY <3>1 DEF Call, TypeOK, chip
    <3>3. ASSUME NEW d \in Clients, newOpa'[d] \in Requests, newOpa'[d].opa \in Writes
          PROVE  flash'[newOpa'[d].page] \in {Empty, newOpa'[d].data}
      BY <3>2, <3>3, OpaKinds DEF WritersApart, Disciplined
    <3>4. ASSUME NEW d \in Clients, d # c, newOpa[d] \in Requests, newOpa[d].opa \notin Reads,
                 r.opa \notin Reads, NEW p \in Pages, Touches(r, p)
          PROVE  ~Touches(newOpa[d], p)
      BY <3>2, <3>4 DEF Disciplined, RequestsTyped
    <3> QED BY <3>2, <3>3, <3>4 DEF WritersApart
  <2>2. CASE Send(c)
    BY <2>2 DEF Send, WritersApart, chip
  <2>3. CASE Wake(c)
    <3>1. /\ newOpa'[c] = NoRequest /\ \A d \in Clients : d # c => newOpa'[d] = newOpa[d]
          /\ flash' = flash
      BY <2>3 DEF Wake, TypeOK, chip
    <3>2. newOpa'[c] \notin Requests
      BY <3>1, MtdAssumption
    <3> QED BY <3>1, <3>2 DEF WritersApart
  <2> QED BY <2>1, <2>2, <2>3, CallerCases
<1> QED BY <1>4, <1>5

LEMMA TaskKeepsStore == MtdInv /\ StoreInv /\ Task => StoreInv'
<1> SUFFICES ASSUME MtdInv, StoreInv, Task PROVE StoreInv'
  OBVIOUS
<1> USE DEF StoreInv, MtdInv
<1>1. flash' = flash /\ newOpa' = newOpa /\ curcmd' = curcmd
  BY DEF Task, Receive, Retry, StartRead, ProbeSeen, StartWrite, StartErase, Kick, Timeout,
         Finish, callers, chip
<1>2. WritersApart'
  BY <1>1 DEF WritersApart
<1>3. CASE Receive \/ Finish
  BY <1>1, <1>2, <1>3 DEF Receive, Finish, DataInPlace, EffectDone, Started
<1>4. CASE Retry
  BY <1>1, <1>2, <1>4 DEF Retry, DataInPlace, EffectDone, Started
<1>5. CASE StartRead \/ StartWrite \/ StartErase
  <2>1. /\ task = "start" /\ task' \in {"probe", "poll"} /\ chain' # NoOpa /\ ~opaDone'
        /\ UNCHANGED <<curOpa, pageBuffer>>
    <3>1. task = "start" /\ curOpa # NoOpa /\ ~opaDone
      BY <1>5, OperatesShape DEF StartRead, StartWrite, StartErase, RequestsTyped, Serving,
                                 InterruptsFit
    <3> QED BY <1>5, <3>1 DEF StartRead, StartWrite, StartErase, Kick, buffers
  <2> QED BY <1>1, <1>2, <2>1 DEF DataInPlace, EffectDone, Started
<1>6. CASE ProbeSeen
  BY <1>1, <1>2, <1>6 DEF ProbeSeen, DataInPlace, EffectDone, Started, chip, buffers
<1>7. CASE Timeout
  <2>1. task' = "retry"
    BY <1>7, MtdAssumption DEF Timeout, RequestsTyped, Serving
  <2> QED BY <1>1, <1>2, <2>1 DEF DataInPlace, EffectDone, Started
<1> QED BY <1>3, <1>4, <1>5, <1>6, <1>7 DEF Task
LEMMA ChipKeepsStore ==
    ASSUME MtdInv, StoreInv, Chip
    PROVE  StoreInv'
<1> USE DEF StoreInv, MtdInv
<1>0. /\ Started /\ ~opaDone /\ curOpa \in Operates
      /\ UNCHANGED <<callers, queue, mtd>> /\ flash \in [Pages -> Content]
  BY DEF Chip, ChainEnds, PageLands, EccEnds, ChipServesCurrent, Started, RequestsTyped,
         Serving, TypeOK
<1> DEFINE r == curOpa.request
           c == curOpa.task
<1>1. /\ c \in Clients /\ InService(c) /\ newOpa[c] = r /\ r \in Requests
      /\ task \notin {"receive", "retry"}
  BY <1>0, OperatesShape DEF InService, RequestsAccounted, Started
<1>2. CASE ChainEnds
  <2>1. /\ chain = curOpa /\ curcmd' = "end" /\ flash' = After(flash, Transferred(r))
        /\ (r.opa \in Reads => ecc' = "busy") /\ UNCHANGED <<driver, buffers>>
    BY <1>2 DEF ChainEnds, ChipServesCurrent
  <2>2. /\ Transferred(r).opa = r.opa /\ Transferred(r).page = r.page
        /\ Transferred(r).data = r.data
    BY <1>1, RequestShape DEF Transferred, DataInPlace
  <2>3. flash' = After(flash, r)
    BY <1>0, <1>1, <2>1, <2>2, CarriedOut
  <2>4. r.opa \in Writes => flash'[r.page] = r.data
    <3> SUFFICES ASSUME r.opa \in Writes PROVE flash'[r.page] = r.data
      OBVIOUS
    <3>1. r.page \in Pages /\ Touches(r, r.page)
      BY <1>1, RequestShape, OpaKinds DEF Touches
    <3>2. flash[r.page] \in {Empty, r.data}
      BY <1>1 DEF WritersApart
    <3> QED BY <1>0, <1>1, <2>3, <3>1, <3>2, CarriedOut DEF Programmed
  <2>5. r.opa = "ERASE" => \A p \in Pages : Touches(r, p) => flash'[p] = Empty
    BY <1>0, <1>1, <2>3, CarriedOut
  <2>6. EffectDone'
    BY <1>0, <2>1, <2>4, <2>5, OpaKinds DEF EffectDone, mtd
  <2>7. DataInPlace'
    BY <1>0, <2>1 DEF DataInPlace, mtd, buffers
  <2>8. WritersApart'
    <3>1. newOpa' = newOpa
      BY <1>0 DEF callers
    <3>2. ASSUME NEW d \in Clients, newOpa[d] \in Requests, newOpa[d].opa \in Writes
          PROVE  flash'[newOpa[d].page] \in {Empty, newOpa[d].data}
      <4> DEFINE p == newOpa[d].page
      <4>1. p \in Pages /\ Touches(newOpa[d], p) /\ newOpa[d].opa \notin Reads
        BY <3>2, RequestShape, OpaKinds DEF Touches
      <4>2. flash[p] \in {Empty, newOpa[d].data}
        BY <3>2 DEF WritersApart
      <4>3. CASE r.opa \in Reads \/ ~Touches(r, p)
        BY <1>0, <1>1, <2>3, <4>1, <4>2, <4>3, CarriedOut
      <4>4. CASE r.opa \notin Reads /\ Touches(r, p)
        <5>1. d = c
          BY <1>1, <3>2, <4>1, <4>4 DEF WritersApart
        <5> QED BY <1>1, <2>4, <3>2, <5>1
      <4> QED BY <4>3, <4>4
    <3> QED BY <3>1, <3>2 DEF WritersApart
  <2> QED BY <2>6, <2>7, <2>8
<1>3. CASE PageLands
  <2>1. /\ r.opa \in Reads /\ r.page \in Pages /\ aux' = flash[r.page]
        /\ (r.place = "pageBuffer" => pageBuffer' = flash[r.page])
        /\ (r.opa = "READ" /\ r.place = "buf" => buf'[c] = flash[r.page])
        /\ UNCHANGED <<chain, curcmd, flash>>
    BY <1>1, <1>3, RequestShape DEF PageLands, ChipServesCurrent, TypeOK
  <2>2. EffectDone'
    BY <1>0, <2>1, OpaKinds DEF EffectDone, mtd
  <2>3. DataInPlace'
    BY <1>0, <2>1, OpaKinds DEF DataInPlace, mtd
  <2>4. WritersApart'
    BY <1>0, <2>1 DEF WritersApart, callers
  <2> QED BY <2>2, <2>3, <2>4
<1>4. CASE EccEnds
  <2>1. ecc = "landed" /\ UNCHANGED <<chain, curcmd, flash, buffers>>
    BY <1>4 DEF EccEnds
  <2>2. EffectDone'
    BY <1>0, <2>1 DEF EffectDone, Started, mtd, buffers
  <2>3. DataInPlace' /\ WritersApart'
    BY <1>0, <2>1 DEF DataInPlace, WritersApart, mtd, callers, buffers
  <2> QED BY <2>2, <2>3
<1> QED BY <1>2, <1>3, <1>4 DEF Chip

LEMMA IsrKeepsStore == MtdInv /\ StoreInv /\ Isr => StoreInv'
<1> SUFFICES ASSUME MtdInv, StoreInv, Isr PROVE StoreInv'
  OBVIOUS
<1> USE DEF StoreInv, MtdInv
<1>1. UNCHANGED <<callers, task, curOpa, chain, curcmd, ecc, flash, buffers>>
  BY DEF Isr, DmaIsr, EccIsr
<1>2. WritersApart' /\ DataInPlace'
  BY <1>1 DEF WritersApart, DataInPlace, callers, buffers
<1>3. Started /\ chain = NoOpa
  BY DEF Isr, DmaIsr, EccIsr, InterruptsFit, Started
<1>4. opaDone' => eccResult' = IF curOpa.request.opa \in Reads
                               THEN EccOf(flash[curOpa.request.page]) ELSE 0
  <2>1. CASE DmaIsr
    BY <1>3, <2>1, OpaKinds DEF DmaIsr, MTD_upOpaFin, EffectDone, InterruptsFit
  <2>2. CASE EccIsr
    <3>1. ecc = "idle" /\ curOpa.request.opa \in Reads /\ eccResult' = EccOf(aux)
      BY <2>2 DEF EccIsr, MTD_upOpaFin, InterruptsFit
    <3> QED BY <1>3, <3>1 DEF EffectDone
  <2> QED BY <2>1, <2>2 DEF Isr
<1>5. EffectDone'
  BY <1>1, <1>3, <1>4 DEF EffectDone, Started, buffers
<1> QED BY <1>2, <1>5

LEMMA StepKeepsStore ==
    ASSUME FailOps = {}, MtdInv, StoreInv, [Next]_vars
    PROVE  StoreInv'
<1>1. CASE \E c \in Clients : Caller(c)
  BY <1>1, CallerKeepsStore
<1>2. ~ChainFails
  BY DEF ChainFails
<1>3. CASE UNCHANGED vars
  BY <1>3 DEF StoreInv, WritersApart, DataInPlace, EffectDone, Started, vars, callers, mtd,
              driver, chip, buffers
<1> QED BY <1>1, <1>2, <1>3, TaskKeepsStore, ChipKeepsStore, IsrKeepsStore DEF Next
-----------------------------------------------------------------------------
(* The service implements FlashStore                                       *)

\* The reply that FlashStore sees.
Reply == [c \in Clients |-> IF notice[c] = NoNotice THEN NoReply
                           ELSE [status |-> notice[c], content |-> buf[c]]]

LEMMA ReplySeen ==
    ASSUME TypeOK, NEW c \in Clients
    PROVE  Reply[c] = NoReply <=> notice[c] = NoNotice
<1>1. notice[c] # NoNotice => [status |-> notice[c], content |-> buf[c]]
                                 \in [status : Int, content : Content]
  BY DEF TypeOK, Codes, AllEmpty, AllBad
<1> QED BY <1>1, MtdAssumption DEF Reply

\* FlashStore means the same flash.
LEMMA SameFlash ==
    /\ Store!Content = Content /\ Store!Reads = Reads /\ Store!Writes = Writes
    /\ Store!Requests = Requests
    /\ \A r, p : Store!Touches(r, p) = Touches(r, p)
    /\ \A x : Store!StatusOf(x) = StatusOf(x)
    /\ \A x, r : Store!After(x, r) = After(x, r)
<1>1. Store!Content = Content /\ Store!Reads = Reads /\ Store!Writes = Writes
  BY DEF Store!Content, Content, Store!Reads, Reads, Store!Writes, Writes
<1>2. Store!Requests = Requests
  BY <1>1 DEF Store!Requests, Requests
<1>3. \A r, p : Store!Touches(r, p) = Touches(r, p)
  BY DEF Store!Touches, Touches
<1>4. \A x : Store!StatusOf(x) = StatusOf(x)
  BY DEF Store!StatusOf, StatusOf
<1>5. \A x, y : Store!Programmed(x, y) = Programmed(x, y)
  BY DEF Store!Programmed, Programmed
<1>6. \A x, r : Store!After(x, r) = After(x, r)
  BY <1>1, <1>3, <1>5 DEF Store!After, After
<1> QED BY <1>1, <1>2, <1>3, <1>4, <1>6

LEMMA InitStored == MtdInit => Store!Init
BY SameFlash DEF MtdInit, Store!Init

LEMMA CallerStep ==
    ASSUME MtdInv, NEW c \in Clients, Caller(c)
    PROVE  [Store!Next]_Store!vars
<1> USE DEF MtdInv
<1>1. flash' = flash
  BY DEF Caller, Call, Send, Wake, chip
<1>2. CASE \E r \in Requests : Call(c, r)
  <2>1. PICK r \in Requests : Call(c, r)
    BY <1>2
  <2>2. newOpa[c] = NoRequest /\ notice[c] = NoNotice
    BY <2>1 DEF Call, RequestsTyped, RequestsAccounted, TypeOK
  <2>3. newOpa' = [newOpa EXCEPT ![c] = r] /\ notice' = notice /\ buf' = buf
    BY <2>1, <2>2 DEF Call, TypeOK, buffers
  <2>4. Reply' = Reply
    BY <2>3 DEF Reply
  <2>5. Store!Ask(c)
    BY <1>1, <2>2, <2>3, <2>4, SameFlash DEF Store!Ask, Reply
  <2> QED BY <2>5 DEF Store!Next
<1>3. CASE Send(c)
  BY <1>1, <1>3 DEF Send, buffers, Store!vars
<1>4. CASE Wake(c)
  <2>1. /\ notice[c] # NoNotice /\ notice'[c] = NoNotice
        /\ newOpa' = [newOpa EXCEPT ![c] = NoRequest]
        /\ \A d \in Clients : d # c => notice'[d] = notice[d] /\ buf'[d] = buf[d]
    BY <1>4 DEF Wake, TypeOK
  <2>2. Reply' = [Reply EXCEPT ![c] = NoReply] /\ Reply[c] # NoReply
    BY <2>1, ReplySeen DEF Reply
  <2>3. Store!Take(c)
    BY <1>1, <2>1, <2>2 DEF Store!Take, Reply
  <2> QED BY <2>3 DEF Store!Next
<1> QED BY <1>2, <1>3, <1>4, CallerCases

LEMMA FinishStep ==
    ASSUME MtdInv, StoreInv, Finish, NEW c \in Clients, c = curOpa.task
    PROVE  Store!Next
<1> USE DEF MtdInv
<1> DEFINE r == curOpa.request
           code == IF r.opa \in Reads THEN ReadStatus(eccResult) ELSE eccResult
<1>1. /\ task = "poll" /\ opaDone /\ curOpa \in Operates
      /\ newOpa[c] = r /\ r \in Requests /\ notice[c] = NoNotice
  <2>1. task = "poll" /\ opaDone /\ curOpa \in Operates
    BY DEF Finish, RequestsTyped, Serving
  <2> QED BY <2>1, OperatesShape DEF RequestsAccounted, InService
<1>2. /\ chain = NoOpa /\ ecc = "idle" /\ Started
      /\ eccResult = IF r.opa \in Reads THEN EccOf(flash[r.page]) ELSE 0
  BY <1>1 DEF ChipServesCurrent, StoreInv, EffectDone, Started
<1>3. /\ notice' = [notice EXCEPT ![c] = code] /\ flash' = flash /\ newOpa' = newOpa
      /\ \A d \in Clients : d # c => buf'[d] = buf[d]
      /\ buf'[c] \in Content
      /\ r.opa = "READ_META" => buf'[c] = aux
      /\ r.opa = "READ" /\ r.place = "pageBuffer" => buf'[c] = pageBuffer
      /\ r.opa = "READ" /\ r.place = "buf" => buf'[c] = buf[c]
  BY <1>1 DEF Finish, TypeOK, chip
<1>4. code = IF r.opa \in Reads THEN StatusOf(flash[r.page]) ELSE 0
  BY <1>2, FlashAssumption DEF ReadStatus, EccOf, StatusOf, AllEmpty, AllBad
<1>5. code \in {-1, 0, 1} /\ code # NoNotice
  <2>1. code \in {-1, 0, 1}
    BY <1>4 DEF StatusOf
  <2>2. NoNotice \notin Int
    BY MtdAssumption
  <2> HIDE DEF code
  <2> QED BY <2>1, <2>2
<1>6. r.opa = "READ" => r.place \in {"buf", "pageBuffer", "null"}
  BY <1>1, OpaKinds DEF Requests
<1> HIDE DEF code
<1>7. PICK k \in {-1, 0, 1} : k = code
  BY <1>5
<1>8. PICK d \in Content : d = buf'[c]
  BY <1>3
<1>9. Store!True(flash, newOpa[c], [status |-> k, content |-> d])
  <2>1. r.opa \in Reads =>
           /\ k = StatusOf(flash[r.page])
           /\ r.opa = "READ_META" \/ r.place # "null" => d = flash[r.page]
    BY <1>2, <1>3, <1>4, <1>6, <1>7, <1>8, OpaKinds DEF StoreInv, EffectDone
  <2>2. r.opa \in Writes => flash[r.page] = r.data
    BY <1>2 DEF StoreInv, EffectDone
  <2>3. r.opa = "ERASE" => \A p \in Pages : Touches(r, p) => flash[p] = Empty
    BY <1>2 DEF StoreInv, EffectDone
  <2>4. newOpa[c] = r
    BY <1>1
  <2> HIDE DEF r
  <2> QED BY <2>1, <2>2, <2>3, <2>4, SameFlash DEF Store!True
<1>10. Reply' = [Reply EXCEPT ![c] = [status |-> k, content |-> d]]
  <2>1. notice'[c] = k /\ \A e \in Clients : e # c => notice'[e] = notice[e]
    BY <1>1, <1>3, <1>7 DEF TypeOK
  <2> QED BY <1>1, <1>3, <1>5, <1>7, <1>8, <2>1 DEF Reply
<1>11. Reply[c] = NoReply
  BY <1>1, ReplySeen
<1>12. newOpa[c] # NoRequest
  BY <1>1, MtdAssumption
<1>13. Store!Answer(c)
  BY <1>3, <1>9, <1>10, <1>11, <1>12, SameFlash DEF Store!Answer, Reply
<1> QED BY <1>13 DEF Store!Next

LEMMA ChainStep ==
    ASSUME MtdInv, StoreInv, ChainEnds
    PROVE  Store!Next
<1> USE DEF MtdInv
<1> DEFINE r == curOpa.request
           c == curOpa.task
<1>1. /\ chain = curOpa /\ Started /\ curOpa \in Operates
      /\ flash' = After(flash, Transferred(r)) /\ flash \in [Pages -> Content]
      /\ newOpa' = newOpa /\ notice' = notice /\ buf' = buf
  BY DEF ChainEnds, ChipServesCurrent, Started, RequestsTyped, Serving, TypeOK, callers,
         buffers
<1>2. c \in Clients /\ newOpa[c] = r /\ r \in Requests /\ notice[c] = NoNotice
  BY <1>1, OperatesShape DEF RequestsAccounted, InService, Started
<1>3. /\ Transferred(r).opa = r.opa /\ Transferred(r).page = r.page
      /\ Transferred(r).data = r.data
  BY <1>1, <1>2, RequestShape DEF Transferred, StoreInv, DataInPlace, Started
<1>4. flash' = After(flash, r)
  BY <1>1, <1>2, <1>3, CarriedOut
<1>5. Reply' = Reply /\ Reply[c] = NoReply
  BY <1>1, <1>2, ReplySeen DEF Reply
<1>6. Store!CarryOut(c)
  <2>1. newOpa[c] # NoRequest
    BY <1>2, MtdAssumption
  <2> QED BY <1>1, <1>2, <1>4, <1>5, <2>1, SameFlash DEF Store!CarryOut, Reply
<1> QED BY <1>2, <1>6 DEF Store!Next

LEMMA StepStored ==
    ASSUME FailOps = {}, MtdInv, StoreInv, [Next]_vars
    PROVE  [Store!Next]_Store!vars
<1>1. CASE \E c \in Clients : Caller(c)
  BY <1>1, CallerStep
<1>2. CASE Task
  <2>1. CASE Finish
    <3>1. curOpa.task \in Clients
      BY <2>1, OperatesShape DEF Finish, MtdInv, RequestsTyped, Serving
    <3> QED BY <2>1, <3>1, FinishStep
  <2>2. CASE Task /\ ~Finish
    BY <2>2 DEF Task, Receive, Retry, StartRead, ProbeSeen, StartWrite, StartErase, Kick,
                Timeout, callers, chip, buffers, Store!vars
  <2> QED BY <1>2, <2>1, <2>2
<1>3. CASE Chip
  <2>1. CASE ChainEnds
    BY <2>1, ChainStep
  <2>2. CASE PageLands
    <3>1. /\ newOpa' = newOpa /\ notice' = notice /\ flash' = flash
          /\ \A c \in Clients : c # curOpa.task => buf'[c] = buf[c]
      BY <2>2 DEF PageLands, callers, MtdInv, TypeOK
    <3>2. \A c \in Clients : c = curOpa.task => notice[c] = NoNotice
      BY <2>2 DEF PageLands, MtdInv, ChipServesCurrent, RequestsAccounted, InService
    <3>3. Reply' = Reply
      BY <3>1, <3>2 DEF Reply
    <3> QED BY <3>1, <3>3 DEF Store!vars, Reply
  <2>3. CASE EccEnds
    BY <2>3 DEF EccEnds, callers, buffers, Store!vars
  <2> QED BY <1>3, <2>1, <2>2, <2>3 DEF Chip
<1>4. CASE Isr
  BY <1>4 DEF Isr, DmaIsr, EccIsr, callers, buffers, Store!vars
<1>5. ~ChainFails
  BY DEF ChainFails
<1>6. CASE UNCHANGED vars
  BY <1>6 DEF vars, callers, chip, buffers, Store!vars
<1> QED BY <1>1, <1>2, <1>3, <1>4, <1>5, <1>6 DEF Next

(* As long as the chip does not fail, every answer is true, whatever       *)
(* interrupts get lost and operations are repeated: the MTD_*Phy* calls    *)
(* of mtd_up.c implement FlashStore.                                       *)
THEOREM AnswersAreTrue ==
    ASSUME FailOps = {}
    PROVE  Spec => ImplementsFlashStore
<1>1. MtdInit => StoreInv
  BY InitStore
<1>2. MtdInv /\ StoreInv /\ [Next]_vars => StoreInv'
  BY StepKeepsStore
<1>3. MtdInv /\ StoreInv /\ [Next]_vars => [Store!Next]_Store!vars
  BY StepStored
<1> QED
  BY <1>1, <1>2, <1>3, InitStored, AlwaysInv, PTL DEF Spec, ImplementsFlashStore, Store!Spec
=============================================================================
