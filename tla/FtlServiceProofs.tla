-------------------------- MODULE FtlServiceProofs --------------------------
(***************************************************************************)
(* Proofs about FtlService for any sectors, data and queue length: types,  *)
(* the whereabouts of requests, who can be inside the map with whom, and   *)
(* that the calls implement SectorStore.                                   *)
(***************************************************************************)
EXTENDS FtlService, SequenceTheorems, TLAPS

\* What a client asks for, and where.  While the disk is not the host's, the
\* host only clears, which it does without the queue.
RequestsFit ==
    /\ \A c \in Clients :
         /\ phase[c] = "idle" <=> request[c] = NoRequest
         /\ phase[c] = "map" => request[c].op = "sync"
         /\ Queued(c) \/ InService(c) => request[c].op \in {"read", "write", "trim"}
    /\ phase["VM Svc"] # "idle" => request["VM Svc"].op \in {"read", "write"}
    /\ phase["TinyUSB"] # "idle" /\ conf = "OSLOADER_EDB"
         => request["TinyUSB"].op = "clear"

\* The guest is blocked in a call of LLAPI, which it makes when no fault is
\* served and the display task is through; System becomes the guest.
GuestBlocked ==
    /\ phase["LLAPI Svc"] # "idle" => ~flushing /\ phase["VM Svc"] = "idle"
    /\ boot # "guest" => phase["LLAPI Svc"] = "idle" /\ phase["VM Svc"] = "idle"
    /\ phase["System"] # "idle" => boot = "msc"
    /\ boot = "msc" => conf = "SYS_DATA"

\* FTL_Task has a client while it is in the map, and no requests come before
\* it is ready for them.
TaskFits ==
    /\ ftl = "map" => curOpa \in Clients
    /\ ftl = "init" => queue = <<>>

FtlInv == TypeOK /\ RequestsAccounted /\ RequestsFit /\ GuestBlocked /\ TaskFits
-----------------------------------------------------------------------------
(* Requests and their effect *)

LEMMA RequestShape ==
    ASSUME NEW r \in Disk!Requests
    PROVE  /\ r.op \in {"read", "write", "trim", "sync", "clear"}
           /\ r.op \in {"read", "write", "trim"} => r.sector \in Sectors
           /\ r.data \in Disk!Content
           /\ r # NoRequest
BY FtlAssumption DEF Disk!Requests, Disk!Content

LEMMA EffectTyped ==
    ASSUME NEW sec \in [Sectors -> Disk!Content], NEW r \in Disk!Requests
    PROVE  /\ Disk!After(sec, r) \in [Sectors -> Disk!Content]
           /\ Disk!Success(sec, r) \in Disk!Replies
           /\ Disk!Failure \in Disk!Replies
           /\ Disk!Success(sec, r) # NoReply /\ Disk!Failure # NoReply
<1>1. Blank \in Disk!Content
  BY DEF Disk!Content
<1>2. Disk!After(sec, r) \in [Sectors -> Disk!Content]
  BY <1>1, RequestShape DEF Disk!After
<1>3. Disk!Success(sec, r) \in Disk!Replies /\ Disk!Failure \in Disk!Replies
  BY <1>1, RequestShape DEF Disk!Success, Disk!Failure, Disk!Replies
<1> QED BY <1>2, <1>3, FtlAssumption

LEMMA CarryOutTyped ==
    ASSUME TypeOK, NEW c \in Clients, request[c] \in Disk!Requests, CarryOut(c)
    PROVE  /\ sectors' \in [Sectors -> Disk!Content]
           /\ durable' \in [Sectors -> Disk!Content]
           /\ \E a \in Disk!Replies : a # NoReply /\ reply' = [reply EXCEPT ![c] = a]
<1>1. \A a \in Disk!Replies : a # NoReply
  BY FtlAssumption
<1> QED BY <1>1, EffectTyped DEF CarryOut, Answer, TypeOK, disk
-----------------------------------------------------------------------------
(* FtlInv *)

LEMMA InitInv == Init => FtlInv
<1> SUFFICES ASSUME Init PROVE FtlInv
  OBVIOUS
<1>1. <<>> \in Seq(Clients) /\ DOMAIN <<>> = {}
  OBVIOUS
<1>2. TypeOK
  BY <1>1 DEF Init, TypeOK
<1>3. RequestsAccounted /\ RequestsFit /\ GuestBlocked /\ TaskFits
  BY <1>1 DEF Init, RequestsAccounted, RequestsFit, GuestBlocked, TaskFits, Queued,
              InService, Clients
<1> QED BY <1>2, <1>3 DEF FtlInv

LEMMA ResetKeeps == FtlInv /\ Reset => FtlInv'
<1> SUFFICES ASSUME FtlInv, Reset PROVE FtlInv'
  OBVIOUS
<1>1. <<>> \in Seq(Clients) /\ DOMAIN <<>> = {}
  OBVIOUS
<1>2. durable' \in [Sectors -> Disk!Content]
  <2>1. \A c \in Working : c \in Clients /\ request[c] \in Disk!Requests
    BY ZenonT(40) DEF Working, Inside, FtlInv, TaskFits, TypeOK, RequestsFit, RequestsAccounted,
           InService
  <2> QED BY <2>1, EffectTyped DEF Reset, FtlInv, TypeOK
<1>3. TypeOK'
  BY <1>1, <1>2 DEF Reset, FtlInv, TypeOK
<1>4. RequestsAccounted' /\ RequestsFit' /\ GuestBlocked' /\ TaskFits'
  BY <1>1 DEF Reset, RequestsAccounted, RequestsFit, GuestBlocked, TaskFits, Queued,
              InService, Clients
<1> QED BY <1>3, <1>4 DEF FtlInv

LEMMA CallKeeps ==
    ASSUME FtlInv, NEW c \in Clients, NEW r \in Disk!Requests, Call(c, r)
    PROVE  FtlInv'
<1> USE DEF FtlInv
<1>1. TypeOK'
  BY DEF Call, TypeOK, disk, life
<1>2. /\ queue' = queue /\ curOpa' = curOpa /\ ftl' = ftl /\ reply' = reply
      /\ phase[c] = "idle" /\ phase'[c] = "called" /\ request'[c] = r
      /\ \A d \in Clients : d # c => phase'[d] = phase[d] /\ request'[d] = request[d]
  BY DEF Call, TypeOK
<1>3. \A d \in Clients : Queued(d)' = Queued(d) /\ InService(d)' = InService(d)
  BY <1>2 DEF Queued, InService
<1>4. RequestsAccounted'
  BY <1>2, <1>3 DEF RequestsAccounted
<1>5. RequestsFit'
  <2>1. ~Queued(c) /\ ~InService(c)
    BY <1>2 DEF RequestsAccounted
  <2>2. c = "VM Svc" => r.op \in {"read", "write"}
    BY DEF Call, Occasion
  <2>3. c = "TinyUSB" /\ conf = "OSLOADER_EDB" => r.op = "clear"
    BY DEF Call, Occasion, HostOccasion
  <2>4. r # NoRequest
    BY FtlAssumption
  <2>5. conf' = conf
    BY DEF Call, life
  <2>6. \A d \in Clients :
          /\ phase'[d] = "idle" <=> request'[d] = NoRequest
          /\ phase'[d] = "map" => request'[d].op = "sync"
          /\ Queued(d)' \/ InService(d)' => request'[d].op \in {"read", "write", "trim"}
    BY <1>2, <1>3, <2>1, <2>4 DEF RequestsFit
  <2>7. "VM Svc" \in Clients /\ "TinyUSB" \in Clients
    BY DEF Clients
  <2>8. phase'["VM Svc"] # "idle" => request'["VM Svc"].op \in {"read", "write"}
    BY <1>2, <2>2, <2>7 DEF RequestsFit
  <2>9. phase'["TinyUSB"] # "idle" /\ conf' = "OSLOADER_EDB"
           => request'["TinyUSB"].op = "clear"
    BY <1>2, <2>3, <2>5, <2>7 DEF RequestsFit
  <2> QED BY <2>6, <2>8, <2>9 DEF RequestsFit
<1>6. GuestBlocked'
  <2>1. c = "LLAPI Svc" => boot = "guest" /\ phase["VM Svc"] = "idle" /\ ~flushing
    BY DEF Call, Occasion
  <2>2. c = "VM Svc" => boot = "guest" /\ (phase["LLAPI Svc"] = "idle" \/ flushing)
    BY DEF Call, Occasion
  <2>3. c = "System" => boot = "msc"
    BY DEF Call, Occasion, HostOccasion
  <2> QED BY <1>2, <2>1, <2>2, <2>3 DEF GuestBlocked, Call, life, Clients
<1>7. TaskFits'
  BY <1>2 DEF TaskFits
<1> QED BY <1>1, <1>4, <1>5, <1>6, <1>7

\* A client that has called is nowhere yet.
LEMMA CalledAlone ==
    ASSUME FtlInv, NEW c \in Clients, phase[c] \in {"called", "map"}
    PROVE  /\ ~Queued(c) /\ ~InService(c) /\ reply[c] = NoReply
           /\ request[c] \in Disk!Requests /\ request[c] # NoRequest
BY DEF FtlInv, RequestsAccounted, RequestsFit, TypeOK

\* It goes on with the same request.
LEMMA SameRequests ==
    ASSUME FtlInv, NEW c \in Clients, phase[c] \in {"called", "map"},
           phase'[c] \in {"map", "wait"},
           phase'[c] = "map" => request[c].op = "sync",
           Queued(c)' => request[c].op \in {"read", "write", "trim"}, ~InService(c)',
           \A d \in Clients : d # c => /\ phase'[d] = phase[d]
                                      /\ Queued(d)' = Queued(d)
                                      /\ InService(d)' = InService(d),
           UNCHANGED <<request, conf>>
    PROVE  RequestsFit'
<1> USE DEF FtlInv
<1>1. \A d \in Clients :
        /\ phase'[d] = "idle" <=> request'[d] = NoRequest
        /\ phase'[d] = "map" => request'[d].op = "sync"
        /\ Queued(d)' \/ InService(d)' => request'[d].op \in {"read", "write", "trim"}
  <2> TAKE d \in Clients
  <2>1. CASE d = c
    BY <2>1, CalledAlone
  <2>2. CASE d # c
    BY <2>2 DEF RequestsFit
  <2> QED BY <2>1, <2>2
<1>2. "VM Svc" \in Clients /\ "TinyUSB" \in Clients
  BY DEF Clients
<1>3. \A d \in Clients : phase'[d] # "idle" => phase[d] # "idle"
  OBVIOUS
<1>4. phase'["VM Svc"] # "idle" => request'["VM Svc"].op \in {"read", "write"}
  BY <1>2, <1>3 DEF RequestsFit
<1>5. phase'["TinyUSB"] # "idle" /\ conf' = "OSLOADER_EDB"
         => request'["TinyUSB"].op = "clear"
  BY <1>2, <1>3 DEF RequestsFit
<1> QED BY <1>1, <1>4, <1>5 DEF RequestsFit

\* It is answered without the queue.
LEMMA AnsweredKeeps ==
    ASSUME FtlInv, NEW c \in Clients, phase[c] \in {"called", "map"},
           sectors' \in [Sectors -> Disk!Content],
           durable' \in [Sectors -> Disk!Content],
           NEW a \in Disk!Replies, reply' = [reply EXCEPT ![c] = a],
           phase' = [phase EXCEPT ![c] = "wait"], shared' \in BOOLEAN,
           UNCHANGED <<request, queue, ftl, curOpa, life>>
    PROVE  FtlInv'
<1> USE DEF FtlInv
<1>0. a # NoReply
  BY FtlAssumption
<1>1. TypeOK'
  BY DEF TypeOK, life
<1>2. /\ reply'[c] = a /\ phase'[c] = "wait"
      /\ \A d \in Clients : d # c => phase'[d] = phase[d] /\ reply'[d] = reply[d]
  BY DEF TypeOK
<1>3. \A d \in Clients : Queued(d)' = Queued(d) /\ InService(d)' = InService(d)
  BY DEF Queued, InService
<1>4. RequestsAccounted'
  BY <1>0, <1>2, <1>3, CalledAlone DEF RequestsAccounted
<1>5. RequestsFit'
  BY <1>2, <1>3, CalledAlone, SameRequests DEF life
<1>6. GuestBlocked' /\ TaskFits'
  BY <1>2 DEF GuestBlocked, TaskFits, life, Clients
<1> QED BY <1>1, <1>4, <1>5, <1>6

LEMMA SendKeeps ==
    ASSUME FtlInv, NEW c \in Clients, phase[c] = "called", Send(c),
           UNCHANGED <<request, ftl, curOpa, life>>
    PROVE  FtlInv'
<1>1. CASE Answer(c, Disk!Failure) /\ UNCHANGED queue
  <2>1. Disk!Failure \in Disk!Replies
    BY EffectTyped, CalledAlone DEF FtlInv, TypeOK
  <2> QED BY <1>1, <2>1, AnsweredKeeps
       DEF Send, Answer, Return, Goto, disk, FtlInv, TypeOK
<1>2. CASE ftl # "init" /\ queue' = Append(queue, c) /\ UNCHANGED reply
  <2> USE DEF FtlInv
  <2>1. /\ queue' \in Seq(Clients) /\ Len(queue) \in Nat
        /\ DOMAIN queue = 1 .. Len(queue) /\ DOMAIN queue' = 1 .. Len(queue) + 1
        /\ \A i \in 1 .. Len(queue) : queue'[i] = queue[i]
        /\ queue'[Len(queue) + 1] = c
    BY <1>2 DEF TypeOK
  <2>2. TypeOK'
    BY <1>2, <2>1 DEF Send, Return, Goto, TypeOK, disk, life
  <2>3. /\ phase'[c] = "wait" /\ reply' = reply
        /\ \A d \in Clients : d # c => phase'[d] = phase[d]
    BY <1>2 DEF Send, Return, Goto, TypeOK
  <2>4. \A d \in Clients : InService(d)' = InService(d)
    BY DEF InService
  <2>5. \A d \in Clients : Queued(d)' <=> Queued(d) \/ d = c
    BY <2>1 DEF Queued
  <2>6. \A i \in 1 .. Len(queue) : queue[i] # c
    BY <2>1, CalledAlone DEF Queued
  <2>7. \A i, k \in DOMAIN queue' : queue'[i] = queue'[k] => i = k
    BY <2>1, <2>6 DEF RequestsAccounted
  <2>8. RequestsAccounted'
    BY <2>3, <2>4, <2>5, <2>7, CalledAlone DEF RequestsAccounted
  <2>9. RequestsFit'
    <3>1. request[c].op \in {"read", "write", "trim"} /\ conf' = conf
      BY DEF Send, life
    <3>2. ~InService(c)'
      BY <2>4, CalledAlone
    <3>3. \A d \in Clients : d # c => Queued(d)' = Queued(d)
      BY <2>5 DEF Queued
    <3> QED BY <2>3, <2>4, <3>1, <3>2, <3>3, SameRequests
  <2>10. GuestBlocked' /\ TaskFits'
    BY <1>2, <2>3 DEF GuestBlocked, TaskFits, life, Clients
  <2> QED BY <2>2, <2>8, <2>9, <2>10
<1> QED BY <1>1, <1>2 DEF Send

LEMMA EnterKeeps ==
    ASSUME FtlInv, NEW c \in Clients, phase[c] = "called", Enter(c),
           UNCHANGED <<request, ftl, curOpa, life>>
    PROVE  FtlInv'
<1>1. CASE ftl = "init"
  <2>1. Disk!Failure \in Disk!Replies
    BY EffectTyped, CalledAlone DEF FtlInv, TypeOK
  <2> QED BY <1>1, <2>1, AnsweredKeeps
       DEF Enter, Answer, Return, Goto, disk, FtlInv, TypeOK
<1>2. CASE ftl # "init"
  <2> USE DEF FtlInv
  <2>1. /\ phase' = [phase EXCEPT ![c] = "map"] /\ reply' = reply /\ queue' = queue
        /\ shared' \in BOOLEAN /\ UNCHANGED disk
    BY <1>2 DEF Enter, Goto, TypeOK
  <2>2. TypeOK'
    BY <2>1 DEF TypeOK, disk, life
  <2>3. phase'[c] = "map" /\ \A d \in Clients : d # c => phase'[d] = phase[d]
    BY <2>1 DEF TypeOK
  <2>4. \A d \in Clients : Queued(d)' = Queued(d) /\ InService(d)' = InService(d)
    BY <2>1 DEF Queued, InService
  <2>5. RequestsAccounted'
    BY <2>1, <2>3, <2>4, CalledAlone DEF RequestsAccounted
  <2>6. RequestsFit'
    BY <2>3, <2>4, CalledAlone, SameRequests DEF Enter, life
  <2>7. GuestBlocked' /\ TaskFits'
    BY <2>1, <2>3 DEF GuestBlocked, TaskFits, life, Clients
  <2> QED BY <2>2, <2>5, <2>6, <2>7
<1> QED BY <1>1, <1>2

LEMMA ClearKeeps ==
    ASSUME FtlInv, NEW c \in Clients, phase[c] = "called", ClearAll(c),
           UNCHANGED <<request, ftl, curOpa, life>>
    PROVE  FtlInv'
<1>1. Disk!Success(sectors, request[c]) \in Disk!Replies
  BY EffectTyped, CalledAlone DEF FtlInv, TypeOK
<1>2. sectors' \in [Sectors -> Disk!Content]
  BY DEF ClearAll, Disk!Content
<1> QED BY <1>1, <1>2, AnsweredKeeps
     DEF ClearAll, Answer, Return, Goto, FtlInv, TypeOK

LEMMA SyncEndsKeeps ==
    ASSUME FtlInv, NEW c \in Clients, SyncEnds(c)
    PROVE  FtlInv'
<1>1. phase[c] = "map" /\ request[c] \in Disk!Requests
  BY CalledAlone DEF SyncEnds
<1> QED BY <1>1, CarryOutTyped, AnsweredKeeps
     DEF SyncEnds, Return, Goto, FtlInv, TypeOK

\* Nobody is ready who comes before System while System runs.
LEMMA SystemRunsAlone ==
    ASSUME FtlInv, MayRun("System")
    PROVE  phase["TinyUSB"] = "idle"
<1> USE DEF FtlInv
<1>1. "TinyUSB" \in Clients /\ Outranks("TinyUSB", "System")
  BY DEF Clients, Outranks, Priority
<1>2. ~Ready("TinyUSB") /\ ~FtlReady
  BY <1>1 DEF MayRun
<1>3. phase["TinyUSB"] \notin {"called", "map"}
  BY <1>2 DEF Ready, Suspended
<1>4. phase["TinyUSB"] # "wait"
  <2>1. ~Queued("TinyUSB")
    <3>1. queue = <<>> => DOMAIN queue = {}
      OBVIOUS
    <3> QED BY <1>2, <3>1 DEF FtlReady, Queued, TaskFits, TypeOK
  <2>2. ~InService("TinyUSB")
    BY <1>2 DEF FtlReady, InService
  <2>3. phase["TinyUSB"] = "wait" => reply["TinyUSB"] = NoReply
    BY <1>2 DEF Ready, Suspended
  <2> QED BY <1>1, <2>1, <2>2, <2>3 DEF RequestsAccounted
<1> QED BY <1>1, <1>3, <1>4 DEF TypeOK

LEMMA TakeKeeps ==
    ASSUME FtlInv, NEW c \in Clients, Take(c)
    PROVE  FtlInv'
<1> USE DEF FtlInv
<1>1. TypeOK'
  BY DEF Take, Goto, TypeOK, disk
<1>2. /\ queue' = queue /\ curOpa' = curOpa /\ ftl' = ftl /\ flushing' = flushing
      /\ phase[c] = "wait" /\ reply[c] # NoReply
      /\ phase'[c] = "idle" /\ request'[c] = NoRequest /\ reply'[c] = NoReply
      /\ \A d \in Clients : d # c => /\ phase'[d] = phase[d] /\ reply'[d] = reply[d]
                                     /\ request'[d] = request[d]
  BY DEF Take, Goto, TypeOK
<1>3. \A d \in Clients : Queued(d)' = Queued(d) /\ InService(d)' = InService(d)
  BY <1>2 DEF Queued, InService
<1>4. ~Queued(c) /\ ~InService(c)
  BY <1>2 DEF RequestsAccounted
<1>5. RequestsAccounted'
  BY <1>2, <1>3, <1>4 DEF RequestsAccounted
<1>6. {"VM Svc", "TinyUSB", "LLAPI Svc", "System"} \subseteq Clients
  BY DEF Clients
<1>7. RequestsFit'
  <2>1. \A d \in Clients :
          /\ phase'[d] = "idle" <=> request'[d] = NoRequest
          /\ phase'[d] = "map" => request'[d].op = "sync"
          /\ Queued(d)' \/ InService(d)' => request'[d].op \in {"read", "write", "trim"}
    BY <1>2, <1>3, <1>4, ZenonT(40) DEF RequestsFit
  <2>2. phase'["VM Svc"] # "idle" => request'["VM Svc"].op \in {"read", "write"}
    BY <1>2, <1>6 DEF RequestsFit
  <2>3. CASE c = "System"
    <3>1. phase["TinyUSB"] = "idle"
      BY <2>3, SystemRunsAlone DEF Take
    <3>2. phase'["TinyUSB"] = "idle"
      BY <1>2, <1>6, <2>3, <3>1
    <3> QED BY <2>1, <2>2, <3>2 DEF RequestsFit
  <2>4. CASE c # "System"
    <3>1. conf' = conf
      BY <2>4 DEF Take
    <3> QED BY <1>2, <1>6, <2>1, <2>2, <3>1 DEF RequestsFit
  <2> QED BY <2>3, <2>4
<1>8. GuestBlocked'
  <2>1. CASE c = "System"
    <3>1. phase["System"] # "idle"
      BY <1>2, <2>1
    <3>2. boot' = "guest"
      BY <2>1 DEF Take
    <3> QED BY <1>2, <1>6, <2>1, <3>1, <3>2 DEF GuestBlocked
  <2>2. CASE c # "System"
    <3>1. boot' = boot /\ conf' = conf
      BY <2>2 DEF Take
    <3> QED BY <1>2, <1>6, <2>2, <3>1 DEF GuestBlocked
  <2> QED BY <2>1, <2>2
<1>9. TaskFits'
  BY <1>2 DEF TaskFits
<1> QED BY <1>1, <1>5, <1>7, <1>8, <1>9

LEMMA ReceiveKeeps == FtlInv /\ Receive => FtlInv'
<1> SUFFICES ASSUME FtlInv, Receive PROVE FtlInv'
  OBVIOUS
<1> USE DEF FtlInv
<1>1. /\ queue \in Seq(Clients) /\ Len(queue) \in Nat \ {0}
      /\ DOMAIN queue = 1 .. Len(queue) /\ curOpa' = queue[1] /\ queue' = Tail(queue)
      /\ ftl = "receive" /\ ftl' = "map"
  BY EmptySeq DEF Receive, TypeOK
<1>2. /\ queue' \in Seq(Clients) /\ DOMAIN queue' = 1 .. Len(queue) - 1
      /\ \A i \in 1 .. Len(queue) - 1 : queue'[i] = queue[i + 1]
  BY <1>1, HeadTailProperties
<1>3. curOpa' \in Clients /\ Queued(curOpa')
  BY <1>1, ElementOfSeq DEF Queued
<1>4. UNCHANGED <<request, reply, phase, boot, flushing, conf>>
  BY DEF Receive, calls, life
<1>5. TypeOK'
  BY <1>1, <1>2, <1>3 DEF Receive, TypeOK, disk, calls, life
<1>6. \A d \in Clients : ~InService(d) /\ (InService(d)' <=> d = curOpa')
  BY <1>1 DEF InService
<1>7. \A d \in Clients : Queued(d)' <=> Queued(d) /\ d # curOpa'
  <2> TAKE d \in Clients
  <2>1. Queued(d)' <=> \E i \in 1 .. Len(queue) - 1 : queue[i + 1] = d
    BY <1>2 DEF Queued
  <2>2. Queued(d) <=> \E i \in 1 .. Len(queue) : queue[i] = d
    BY <1>1 DEF Queued
  <2>3. \A i \in 1 .. Len(queue) - 1 : i + 1 \in DOMAIN queue /\ i + 1 # 1
    BY <1>1
  <2>4. \A i \in 1 .. Len(queue) : i = 1 \/ i - 1 \in 1 .. Len(queue) - 1
    BY <1>1
  <2>5. \A i \in 1 .. Len(queue) - 1 : queue[i + 1] # queue[1]
    BY <1>1, <2>3 DEF RequestsAccounted
  <2>6. CASE d = curOpa'
    BY <1>1, <2>1, <2>5, <2>6
  <2>7. ASSUME Queued(d), d # curOpa' PROVE Queued(d)'
    <3>1. PICK i \in 1 .. Len(queue) : queue[i] = d
      BY <2>2, <2>7
    <3>2. i - 1 \in 1 .. Len(queue) - 1 /\ (i - 1) + 1 = i
      BY <1>1, <2>4, <2>7, <3>1
    <3> QED BY <2>1, <3>1, <3>2
  <2>8. ASSUME Queued(d)' PROVE Queued(d)
    BY <1>1, <2>1, <2>2, <2>3, <2>8
  <2> QED BY <2>6, <2>7, <2>8
<1>8. \A i, k \in DOMAIN queue' : queue'[i] = queue'[k] => i = k
  <2> TAKE i, k \in DOMAIN queue'
  <2>1. i + 1 \in DOMAIN queue /\ k + 1 \in DOMAIN queue
    BY <1>1, <1>2
  <2>2. queue'[i] = queue[i + 1] /\ queue'[k] = queue[k + 1]
    BY <1>2
  <2>3. queue[i + 1] = queue[k + 1] => i + 1 = k + 1
    BY <2>1 DEF RequestsAccounted
  <2> QED BY <1>2, <2>2, <2>3
<1>9. RequestsAccounted'
  BY <1>3, <1>4, <1>6, <1>7, <1>8 DEF RequestsAccounted
<1>10. RequestsFit'
  BY <1>3, <1>4, <1>6, <1>7 DEF RequestsFit
<1>11. GuestBlocked' /\ TaskFits'
  BY <1>1, <1>3, <1>4 DEF GuestBlocked, TaskFits
<1> QED BY <1>5, <1>9, <1>10, <1>11

LEMMA NotifyKeeps == FtlInv /\ Notify => FtlInv'
<1> SUFFICES ASSUME FtlInv, Notify PROVE FtlInv'
  OBVIOUS
<1> USE DEF FtlInv
<1>1. /\ curOpa \in Clients /\ InService(curOpa) /\ phase[curOpa] = "wait"
      /\ request[curOpa] \in Disk!Requests
  BY DEF Notify, TaskFits, InService, RequestsAccounted, RequestsFit, TypeOK
<1>2. /\ ftl' = "receive" /\ curOpa' = NoRequest
      /\ UNCHANGED <<request, phase, queue, boot, flushing, conf, suspended, shared>>
  BY DEF Notify, life
<1>3. /\ sectors' \in [Sectors -> Disk!Content]
      /\ durable' \in [Sectors -> Disk!Content]
      /\ \E a \in Disk!Replies : a # NoReply /\ reply' = [reply EXCEPT ![curOpa] = a]
  BY <1>1, CarryOutTyped DEF Notify
<1>4. TypeOK'
  BY <1>1, <1>2, <1>3 DEF TypeOK
<1>5. /\ reply'[curOpa] # NoReply
      /\ \A d \in Clients : d # curOpa => reply'[d] = reply[d]
  BY <1>1, <1>3 DEF TypeOK
<1>6. /\ \A d \in Clients : Queued(d)' = Queued(d) /\ ~InService(d)'
      /\ \A d \in Clients : d # curOpa => ~InService(d)
  BY <1>1, <1>2 DEF Queued, InService
<1>7. RequestsAccounted'
  <2>1. ASSUME NEW d \in Clients
        PROVE  /\ reply'[d] # NoReply => ~Queued(d)' /\ ~InService(d)'
               /\ phase'[d] = "wait" <=> Queued(d)' \/ InService(d)' \/ reply'[d] # NoReply
    <3>1. CASE d = curOpa
      BY <1>1, <1>2, <1>5, <1>6, <3>1 DEF RequestsAccounted
    <3>2. CASE d # curOpa
      BY <1>2, <1>5, <1>6, <3>2 DEF RequestsAccounted
    <3> QED BY <3>1, <3>2
  <2>2. \A i, k \in DOMAIN queue' : queue'[i] = queue'[k] => i = k
    BY <1>2 DEF RequestsAccounted
  <2> QED BY <1>6, <2>1, <2>2 DEF RequestsAccounted
<1>8. RequestsFit'
  <2>1. \A d \in Clients : Queued(d)' \/ InService(d)'
                               => request'[d].op \in {"read", "write", "trim"}
    BY <1>2, <1>6 DEF RequestsFit
  <2> QED BY <1>2, <2>1 DEF RequestsFit
<1>9. GuestBlocked' /\ TaskFits'
  BY <1>2 DEF GuestBlocked, TaskFits
<1> QED BY <1>4, <1>7, <1>8, <1>9

LEMMA LifeKeeps ==
    ASSUME FtlInv,
           FTL_init \/ Checkpoint \/ BootDisk \/ BootGuest \/ Flush \/ FlushEnds
             \/ VMSuspend \/ MscData
    PROVE  FtlInv'
<1> USE DEF FtlInv
<1>1. UNCHANGED <<request, reply, phase, queue, curOpa>>
  BY DEF FTL_init, Checkpoint, BootDisk, BootGuest, Flush, FlushEnds, VMSuspend,
         MscData, calls
<1>2. TypeOK'
  BY ZenonT(40) DEF FTL_init, Checkpoint, BootDisk, BootGuest, Flush, FlushEnds, VMSuspend,
         MscData, calls, disk, life, TypeOK
<1>3. (ftl = "map" <=> ftl' = "map") /\ (ftl' = "init" => ftl = "init")
  BY DEF FTL_init, Checkpoint, BootDisk, BootGuest, Flush, FlushEnds, VMSuspend, MscData
<1>4. \A d \in Clients : Queued(d)' = Queued(d) /\ InService(d)' = InService(d)
  BY <1>1, <1>3 DEF Queued, InService
<1>5. conf' = "OSLOADER_EDB" => conf = "OSLOADER_EDB"
  BY DEF FTL_init, Checkpoint, BootDisk, BootGuest, Flush, FlushEnds, VMSuspend,
         MscData, life
<1>6. RequestsAccounted' /\ RequestsFit' /\ TaskFits'
  BY <1>1, <1>3, <1>4, <1>5 DEF RequestsAccounted, RequestsFit, TaskFits
<1>7. GuestBlocked'
  <2>1. CASE BootDisk \/ BootGuest
    BY <1>1, <2>1 DEF BootDisk, BootGuest, GuestBlocked
  <2>2. CASE Flush \/ FlushEnds
    BY <1>1, <2>2 DEF Flush, FlushEnds, GuestBlocked
  <2>3. CASE FTL_init \/ Checkpoint \/ VMSuspend \/ MscData
    <3>1. boot' = boot /\ flushing' = flushing /\ (conf' = conf \/ conf' = "SYS_DATA")
      BY <2>3 DEF FTL_init, Checkpoint, VMSuspend, MscData, life
    <3> QED BY <1>1, <3>1 DEF GuestBlocked
  <2>4. FTL_init \/ Checkpoint \/ BootDisk \/ BootGuest \/ Flush \/ FlushEnds
          \/ VMSuspend \/ MscData
    OBVIOUS
  <2> QED BY <2>1, <2>2, <2>3, <2>4
<1> QED BY <1>2, <1>6, <1>7

LEMMA StepKeeps == FtlInv /\ [Next]_vars => FtlInv'
<1> SUFFICES ASSUME FtlInv, [Next]_vars PROVE FtlInv'
  OBVIOUS
<1>1. ASSUME NEW c \in Clients, NEW r \in Disk!Requests, Call(c, r) PROVE FtlInv'
  BY <1>1, CallKeeps
<1>2. ASSUME NEW c \in Clients, Proceed(c) PROVE FtlInv'
  BY <1>2, SendKeeps, EnterKeeps, ClearKeeps DEF Proceed
<1>3. ASSUME NEW c \in Clients, SyncEnds(c) \/ Take(c) PROVE FtlInv'
  BY <1>3, SyncEndsKeeps, TakeKeeps
<1>4. CASE Receive \/ Notify
  BY <1>4, ReceiveKeeps, NotifyKeeps
<1>5. CASE FTL_init \/ Checkpoint \/ BootDisk \/ BootGuest \/ Flush \/ FlushEnds
             \/ VMSuspend \/ MscData
  BY <1>5, LifeKeeps
<1>6. CASE Reset
  BY <1>6, ResetKeeps
<1>7. CASE UNCHANGED vars
  <2>1. \A d \in Clients : Queued(d)' = Queued(d) /\ InService(d)' = InService(d)
    BY <1>7 DEF vars, Queued, InService
  <2>2. TypeOK' /\ GuestBlocked' /\ TaskFits'
    BY <1>7 DEF vars, FtlInv, TypeOK, GuestBlocked, TaskFits
  <2>3. RequestsAccounted' /\ RequestsFit'
    BY <1>7, <2>1 DEF vars, FtlInv, RequestsAccounted, RequestsFit
  <2> QED BY <2>2, <2>3 DEF FtlInv
<1> QED BY <1>1, <1>2, <1>3, <1>4, <1>5, <1>6, <1>7 DEF Next, Client, FtlTask

LEMMA AlwaysInv == Spec => []FtlInv
BY InitInv, StepKeeps, PTL DEF Spec
-----------------------------------------------------------------------------
(* Every variable of FtlService keeps its type.                            *)
THEOREM TypeCorrect == Spec => []TypeOK
<1>1. FtlInv => TypeOK
  BY DEF FtlInv
<1> QED BY <1>1, AlwaysInv, PTL

(* A client that waits is in exactly one of the queue, the service and the *)
(* notifications, also when clients share a priority or are suspended.     *)
THEOREM CallsStayAccounted == Spec => []RequestsAccounted
<1>1. FtlInv => RequestsAccounted
  BY DEF FtlInv
<1> QED BY <1>1, AlwaysInv, PTL

(* While the disk is not the host's, tasks are inside the map one by one,  *)
(* although FTL_Sync takes no lock.                                        *)
THEOREM MapStaysExclusive == Spec => []MapExclusive
<1>1. ASSUME FtlInv PROVE MapExclusive
  <2> SUFFICES ASSUME conf = "OSLOADER_EDB"
               PROVE  /\ \A c, d \in Inside : c = d
                      /\ ftl = "map" => Inside = {}
    BY DEF MapExclusive
  <2> USE <1>1 DEF FtlInv
  <2>1. \A c \in Inside : c \in Clients /\ phase[c] = "map" /\ request[c].op = "sync"
    BY DEF Inside, RequestsFit
  <2>2. Inside \subseteq {"LLAPI Svc"}
    <3>1. "VM Svc" \notin Inside /\ "TinyUSB" \notin Inside
      BY <2>1 DEF RequestsFit
    <3>2. "System" \notin Inside
      BY <2>1 DEF GuestBlocked
    <3> QED BY <2>1, <3>1, <3>2 DEF Clients
  <2>3. ASSUME ftl = "map", "LLAPI Svc" \in Inside PROVE FALSE
    <3>1. curOpa \in Clients /\ InService(curOpa) /\ phase[curOpa] = "wait"
      BY <2>3 DEF TaskFits, InService, RequestsAccounted
    <3>2. request[curOpa].op \in {"read", "write", "trim"}
      BY <3>1 DEF RequestsFit
    <3>3. phase["VM Svc"] = "idle" /\ boot = "guest" /\ phase["System"] = "idle"
      BY <2>1, <2>3 DEF GuestBlocked
    <3>4. curOpa # "TinyUSB"
      BY <3>1, <3>2 DEF RequestsFit
    <3> QED BY <2>1, <2>3, <3>1, <3>3, <3>4 DEF Clients
  <2> QED BY <2>2, <2>3
<1> QED BY <1>1, AlwaysInv, PTL
-----------------------------------------------------------------------------
(* The calls implement SectorStore *)

\* The map carries out a call that is pending, or refuses it.
LEMMA CarryOutImplements ==
    ASSUME NEW c \in Clients, ~shared, CarryOut(c), UNCHANGED request,
           request[c] # NoRequest, reply[c] = NoReply
    PROVE  Disk!Next
<1>1. CASE Answer(c, Disk!Failure) /\ UNCHANGED disk
  <2>1. Disk!Refuse(c)
    BY <1>1 DEF Disk!Refuse, Disk!Pending, Answer, disk
  <2> QED BY <2>1 DEF Disk!Next
<1>2. CASE /\ sectors' = Disk!After(sectors, request[c])
           /\ durable' \in {durable, sectors'}
           /\ request[c].op = "sync" => durable' = sectors'
           /\ Answer(c, Disk!Success(sectors, request[c]))
  <2>1. Disk!CarryOut(c)
    BY <1>2 DEF Disk!CarryOut, Disk!Pending, Answer
  <2> QED BY <2>1 DEF Disk!Next
<1> QED BY <1>1, <1>2 DEF CarryOut

LEMMA ProceedImplements ==
    ASSUME FtlInv, NEW c \in Clients, Proceed(c)
    PROVE  Disk!Next \/ UNCHANGED <<sectors, durable, request, reply>>
<1>0. request[c] # NoRequest /\ reply[c] = NoReply /\ request' = request
  BY CalledAlone DEF Proceed
<1>1. CASE Answer(c, Disk!Failure) /\ UNCHANGED disk
  <2>1. Disk!Refuse(c)
    BY <1>0, <1>1 DEF Disk!Refuse, Disk!Pending, Answer, disk
  <2> QED BY <2>1 DEF Disk!Next
<1>2. CASE UNCHANGED reply /\ UNCHANGED disk
  BY <1>0, <1>2 DEF disk
<1>3. CASE ClearAll(c)
  <2>1. sectors' = Disk!After(sectors, request[c])
    BY <1>3 DEF ClearAll, Disk!After
  <2>2. Disk!CarryOut(c)
    BY <1>0, <1>3, <2>1 DEF Disk!CarryOut, Disk!Pending, ClearAll, Answer
  <2> QED BY <2>2 DEF Disk!Next
<1> QED BY <1>1, <1>2, <1>3 DEF Proceed, Send, Enter

LEMMA ResetImplements ==
    ASSUME FtlInv, ~shared, Reset
    PROVE  Disk!Next
<1>1. \A c \in Working : /\ c \in Clients
                        /\ request[c] # NoRequest /\ reply[c] = NoReply
  <2>1. ASSUME NEW c \in Inside PROVE c \in Clients /\ phase[c] = "map"
    BY DEF Inside
  <2>2. ASSUME ftl = "map"
        PROVE  /\ curOpa \in Clients /\ phase[curOpa] = "wait"
               /\ reply[curOpa] = NoReply
    BY <2>2 DEF FtlInv, TaskFits, RequestsAccounted, InService
  <2> QED BY <2>1, <2>2, CalledAlone DEF Working, FtlInv, RequestsFit
<1>2. durable' \in {durable, sectors}
          \cup {Disk!After(sectors, request[c]) : c \in {d \in Clients : Disk!Pending(d)}}
  BY <1>1 DEF Reset, Disk!Pending
<1>3. Disk!Reset
  BY <1>2 DEF Disk!Reset, Reset
<1> QED BY <1>3 DEF Disk!Next

LEMMA StepImplements ==
    ASSUME FtlInv, [Next]_vars
    PROVE  [Disk!Next \/ shared']_<<sectors, durable, request, reply>>
<1> SUFFICES ASSUME ~shared'
             PROVE  Disk!Next \/ UNCHANGED <<sectors, durable, request, reply>>
  OBVIOUS
<1>1. ASSUME NEW c \in Clients, NEW r \in Disk!Requests, Call(c, r) PROVE Disk!Next
  <2>1. Disk!Ask(c)
    BY <1>1 DEF Disk!Ask, Call, disk, FtlInv, RequestsFit
  <2> QED BY <2>1 DEF Disk!Next
<1>2. ASSUME NEW c \in Clients, Proceed(c)
      PROVE  Disk!Next \/ UNCHANGED <<sectors, durable, request, reply>>
  BY <1>2, ProceedImplements
<1>3. ASSUME NEW c \in Clients, SyncEnds(c) PROVE Disk!Next
  <2>1. request[c] # NoRequest /\ reply[c] = NoReply /\ ~shared
    BY <1>3, CalledAlone DEF SyncEnds
  <2> QED BY <1>3, <2>1, CarryOutImplements DEF SyncEnds
<1>4. ASSUME NEW c \in Clients, Take(c) PROVE Disk!Next
  <2>1. Disk!Take(c)
    BY <1>4 DEF Take, Disk!Take, disk
  <2> QED BY <2>1 DEF Disk!Next
<1>5. CASE Notify
  <2>1. /\ curOpa \in Clients /\ reply[curOpa] = NoReply /\ phase[curOpa] = "wait"
    BY <1>5 DEF Notify, FtlInv, TaskFits, RequestsAccounted, InService
  <2>2. request[curOpa] # NoRequest /\ ~shared
    BY <1>5, <2>1 DEF Notify, FtlInv, RequestsFit
  <2> QED BY <1>5, <2>1, <2>2, CarryOutImplements DEF Notify
<1>6. CASE Checkpoint
  <2>1. Disk!Checkpoint
    BY <1>6 DEF Checkpoint, Disk!Checkpoint, calls
  <2> QED BY <2>1 DEF Disk!Next
<1>7. CASE Reset
  BY <1>7, ResetImplements DEF Reset
<1>8. CASE FTL_init \/ Receive \/ BootDisk \/ BootGuest \/ Flush \/ FlushEnds
             \/ VMSuspend \/ MscData
  BY <1>8 DEF FTL_init, Receive, BootDisk, BootGuest, Flush, FlushEnds, VMSuspend,
              MscData, disk, calls
<1>9. CASE UNCHANGED vars
  BY <1>9 DEF vars
<1> QED BY <1>1, <1>2, <1>3, <1>4, <1>5, <1>6, <1>7, <1>8, <1>9
     DEF Next, Client, FtlTask

(* What the FTL service promises: until two tasks have shared the map,     *)
(* calls take effect at once or not at all, are answered truly, and are    *)
(* undone by a reset only back to the last sync.                           *)
THEOREM CallsImplementStore == Spec => ImplementsSectorStore
<1>1. Init => Disk!Init
  BY DEF Init, Disk!Init
<1>2. FtlInv /\ [Next]_vars => [Disk!Next \/ shared']_<<sectors, durable, request, reply>>
  BY StepImplements
<1> QED BY <1>1, <1>2, AlwaysInv, PTL DEF Spec, ImplementsSectorStore
=============================================================================
