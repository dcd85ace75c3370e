------------------------------ MODULE DharaMap ------------------------------
(***************************************************************************)
(* The operations of Dhara's map (Component3rd/dhara/map.c) as the FTL     *)
(* service calls them, step by step between one use of the flash and the   *)
(* next, with resets at any of these steps.                                *)
(*                                                                         *)
(* A worker is a task inside a dhara_map_* call.  All of them are done by  *)
(* FTL_Task, except sync, which FTL_Sync does in its caller's task.  No    *)
(* lock protects the map: FtlService says when calls do not overlap.       *)
(***************************************************************************)
EXTENDS DharaJournal

CONSTANTS
    Sectors, Data, Blank,
    Workers, Syncer,         \* Syncer: the worker whose only request is sync
    Exclusive,               \* calls do not overlap
    Ops,                     \* what is asked for, after the past
    NoRequest, NoReply,
    Pasts,                   \* sequences of requests, one of which is served first
    MaxOps, MaxCrashes       \* bounds: further requests, resets

Requests ==
    [op : {"read", "trim"}, sector : Sectors, data : {Blank}]
    \cup [op : {"write"}, sector : Sectors, data : Data]
    \cup [op : {"sync", "clear"}, sector : {NoRequest}, data : {Blank}]
Replies == [ok : BOOLEAN, data : Data \cup {Blank}]

(* A sector number has as many bits as the tree has levels.                *)
ASSUME SectorAssumption ==
    /\ Sectors \subseteq Nat /\ IsFiniteSet(Sectors)
    /\ \A s \in Sectors, d \in 1..Depth : Bit(s, d) \in {0, 1}
    /\ \A s, t \in Sectors : s # t => \E d \in 1..Depth : Bit(s, d) # Bit(t, d)

ASSUME DataAssumption == Blank \notin Data /\ Unreadable \notin Data \cup {Blank}

ASSUME ClientAssumption ==
    /\ NoRequest \notin Requests
    /\ NoReply \notin Replies

VARIABLES
    nand, j,
    sectors,     \* history: what reads find; what they would find after a reset
    durable,
    proc,        \* a worker's place in the code and its local variables
    request, reply,
    past, ops, crashes

vars == <<nand, j, sectors, durable, proc, request, reply, past, ops, crashes>>

Idle == [at |-> "idle"]
Pages == 0..NumPages - 1
Contents(n, jj) == [s \in Sectors |-> ReadSector(n, jj, s, Blank)]
Remember == sectors' = Contents(nand', j')
OnFlash(n) == nand' = n /\ durable' = Contents(n, Resume(n))

Init ==
    /\ nand = [p \in Pages |-> Free] /\ j = Resume(nand)
    /\ sectors = Contents(nand, j) /\ durable = sectors
    /\ proc = [w \in Workers |-> Idle]
    /\ request = [w \in Workers |-> NoRequest]
    /\ reply = [w \in Workers |-> NoReply]
    /\ past \in Pasts /\ ops = 0 /\ crashes = 0
-----------------------------------------------------------------------------
(* What a worker does next.                                                *)
Goto(w, there) == proc' = [proc EXCEPT ![w] = there]

Answer(w, ok, data) ==
    /\ reply' = [reply EXCEPT ![w] = [ok |-> ok, data |-> data]]
    /\ Goto(w, Idle)

Succeed(w) == Answer(w, TRUE, Blank)
Fail(w) == Answer(w, FALSE, Blank)

Collect(left) == [at |-> "gc", left |-> left]
Serve == [at |-> "serve"]
SyncLoop == [at |-> "sync"]

(* dhara_journal_enqueue and dhara_journal_copy: a page with the content   *)
(* of `source', or none at all, and metadata and count for the checkpoint. *)
(* The caller goes on at `then', having dequeued the tail if `moved', or   *)
(* restores the count to `old' if the page cannot be appended.             *)
Enqueue(source, meta, count, then, moved, old) ==
    [at |-> "head", source |-> source, meta |-> meta, count |-> count,
     then |-> then, moved |-> moved, old |-> old, oldHead |-> None]

Blankness == [kind |-> "none"]
FromPage(p) == [kind |-> "copy", page |-> p]
FromUser(d) == [kind |-> "user", data |-> d]

\* Mutant of Rounds: no garbage is collected.
NoRounds == 0

Rounds == IF JournalSize(j) < MapCapacity(j) THEN 0 ELSE GcRatio + 1

Entry(r) ==
    CASE r.op \in {"read", "clear"} -> Serve
      [] r.op = "sync" -> SyncLoop
      [] OTHER -> Collect(Rounds)

Quiet == \A w \in Workers : proc[w] = Idle

(* Requests come from the past, then from the clients' imagination; a      *)
(* write changes what the sector holds.                                    *)
MayAsk(w, r) ==
    /\ Workers = {w} \/ (w = Syncer <=> r.op = "sync")
    /\ IF past # <<>> THEN Quiet /\ r = past[1]
       ELSE /\ ops < MaxOps /\ r.op \in Ops
            /\ r.op = "write" => r.data # sectors[r.sector]

Ask(w, r) ==
    /\ request[w] = NoRequest /\ MayAsk(w, r)
    /\ Exclusive => Quiet
    /\ request' = [request EXCEPT ![w] = r]
    /\ Goto(w, Entry(r))
    /\ IF past # <<>> THEN past' = Tail(past) /\ UNCHANGED ops
       ELSE /\ ops' = IF r.op = "read" THEN ops ELSE ops + 1
            /\ UNCHANGED past
    /\ UNCHANGED <<nand, j, sectors, durable, reply, crashes>>

Take(w) ==
    /\ reply[w] # NoReply
    /\ request' = [request EXCEPT ![w] = NoRequest]
    /\ reply' = [reply EXCEPT ![w] = NoReply]
    /\ UNCHANGED <<nand, j, sectors, durable, proc, past, ops, crashes>>

(* FTL_Task has a higher priority than the task that syncs.                *)
At(w, place) ==
    /\ proc[w].at = place
    /\ w = Syncer => \A v \in Workers \ {w} : proc[v] = Idle
    /\ UNCHANGED <<request, past, ops, crashes>>
-----------------------------------------------------------------------------
(* dhara_map_gc and its like in dhara_map_sync: the page at the tail is    *)
(* dropped, or moved to the head if the tree still leads to it.            *)
MoveTail(w, peeked, then) ==
    LET p       == peeked.tail
        verdict == Verdict(nand, peeked, p)
        s       == ReadMeta(nand, peeked, p).id
        meta    == MetaFor(s, TracePath(nand, peeked, s))
    IN  \/ /\ verdict = "garbage"
           /\ j' = Dequeue(peeked) /\ Goto(w, then) /\ UNCHANGED reply
        \/ /\ verdict = "live"
           /\ Goto(w, Enqueue(FromPage(p), meta, j.count, then, TRUE, j.count))
           /\ j' = peeked /\ UNCHANGED reply
        \/ verdict = "error" /\ j' = peeked /\ Fail(w)

Gc(w) ==
    /\ At(w, "gc")
    /\ IF proc[w].left = 0 \/ j.count = 0 \/ j.head = j.tail
       THEN Goto(w, Serve) /\ UNCHANGED <<j, reply>>
       ELSE MoveTail(w, Peek(nand, j), Collect(proc[w].left - 1))
    /\ UNCHANGED <<nand, durable>> /\ Remember

ReadStep(w) ==
    LET d == ReadSector(nand, j, request[w].sector, Blank)
    IN  /\ request[w].op = "read"
        /\ IF d = Unreadable THEN Fail(w) ELSE Answer(w, TRUE, d)
        /\ UNCHANGED j

ClearStep(w) ==
    /\ request[w].op = "clear"
    /\ j' = IF j.count = 0 THEN j ELSE Clear(j)
    /\ Succeed(w)

WriteStep(w) ==
    LET path  == TracePath(nand, j, request[w].sector)
        count == IF path.page = None THEN j.count + 1 ELSE j.count
        full  == path.page = None /\ j.count >= MapCapacity(j)
    IN  /\ request[w].op = "write"
        /\ IF path.page = Unreadable \/ full
           THEN Fail(w) /\ UNCHANGED j
           ELSE /\ j' = [j EXCEPT !.count = count]
                /\ Goto(w, Enqueue(FromUser(request[w].data),
                                  MetaFor(request[w].sector, path),
                                  count, Idle, FALSE, j.count))
                /\ UNCHANGED reply

TrimStep(w) ==
    LET path == TracePath(nand, j, request[w].sector)
        del  == Deletion(nand, j, path)
    IN  /\ request[w].op = "trim"
        /\ CASE path.page = None -> Succeed(w) /\ UNCHANGED j
             [] path.page = Unreadable -> Fail(w) /\ UNCHANGED j
             [] path.page >= 0 /\ Cousins(path) = {} ->
                  Succeed(w) /\ j' = Clear(j)
             [] path.page >= 0 /\ Cousins(path) # {} ->
                  IF del.meta.id = Unreadable
                  THEN Fail(w) /\ UNCHANGED j
                  ELSE /\ Goto(w, Enqueue(FromPage(del.page), del.meta,
                                         j.count - 1, Idle, FALSE, j.count))
                       /\ UNCHANGED <<j, reply>>

Carry(w) ==
    /\ At(w, "serve")
    /\ ReadStep(w) \/ ClearStep(w) \/ WriteStep(w) \/ TrimStep(w)
    /\ UNCHANGED <<nand, durable>> /\ Remember

(* The loop of dhara_map_sync, with pad_queue.                             *)
Pad(w) ==
    LET meta == IF j.root = None THEN NoMeta ELSE ReadMeta(nand, j, j.root)
        from == IF j.root = None THEN Blankness ELSE FromPage(j.root)
    IN  /\ j.head = j.tail
        /\ IF meta.id = Unreadable THEN Fail(w)
           ELSE /\ Goto(w, Enqueue(from, meta, j.count, SyncLoop, FALSE, j.count))
                /\ UNCHANGED reply
        /\ UNCHANGED j

Sync(w) ==
    /\ At(w, "sync")
    /\ \/ ~j.dirty /\ Succeed(w) /\ UNCHANGED j
       \/ j.dirty /\ Pad(w)
       \/ j.dirty /\ j.head # j.tail /\ MoveTail(w, Peek(nand, j), SyncLoop)
    /\ UNCHANGED <<nand, durable>> /\ Remember
-----------------------------------------------------------------------------
(* A page is appended.                                                     *)

(* The loop of prepare_head: bad blocks are skipped, but not up to the     *)
(* block of the last-synced tail.                                          *)
SkipBad(jj) ==
    LET b       == Block(jj.head)
        good(i) == ~IsBad(nand, (b + i) % NumBlocks)
        stop(i) == (b + i + 1) % NumBlocks = Block(jj.tailSync)
        ends    == {i \in 0..MaxRetries - 1 : good(i) \/ stop(i)}
        i       == IF ends = {} THEN MaxRetries
                   ELSE CHOOSE k \in ends : \A m \in ends : k <= m
        ok      == i < MaxRetries /\ good(i)
        skipped == [jj EXCEPT !.bbCurrent = @ + i,
                              !.head = FirstOf((b + i) % NumBlocks)]
        turned  == IF b + i >= NumBlocks
                   THEN [skipped EXCEPT !.bbLast = jj.bbCurrent + NumBlocks - b,
                                        !.bbCurrent = b + i - NumBlocks,
                                        !.epoch = @ + 1]
                   ELSE skipped
    IN  [ok |-> ok,
         j  |-> IF ok \/ i = MaxRetries THEN turned
                ELSE [turned EXCEPT !.bbCurrent = @ + 1]]

PrepareHead(w) ==
    LET next  == NextUpage(j.head)
        full  == /\ Block(next) = Block(j.tailSync)
                 /\ Block(next) # Block(j.head)
        dirty == [j EXCEPT !.dirty = TRUE]
        found == SkipBad(dirty)
        give(jj) == [jj EXCEPT !.count = proc[w].old]
    IN  /\ At(w, "head") /\ UNCHANGED <<nand, durable>>
        /\ IF full THEN j' = give(j) /\ Fail(w)
           ELSE IF j.head % Ppb # 0
           THEN /\ j' = dirty /\ UNCHANGED reply
                /\ Goto(w, [proc[w] EXCEPT !.at = "program"])
           ELSE IF found.ok
           THEN /\ j' = found.j /\ UNCHANGED reply
                /\ Goto(w, [proc[w] EXCEPT !.at = "erase"])
           ELSE j' = give(found.j) /\ Fail(w)
        /\ Remember

Erased(n, b) == [p \in Pages |-> IF Block(p) = b THEN Free ELSE n[p]]
Ruined(n, b) == [p \in Pages |-> IF Block(p) = b THEN Torn ELSE n[p]]
Programmed(n, p, content) ==
    [n EXCEPT ![p] = IF @ = Free THEN content ELSE Torn]

Erase(w) ==
    /\ At(w, "erase")
    /\ OnFlash(Erased(nand, Block(j.head)))
    /\ Goto(w, [proc[w] EXCEPT !.at = "program"])
    /\ UNCHANGED <<j, reply>> /\ Remember

(* dhara_nand_copy takes an empty page for one full of ones.               *)
Content(source) ==
    CASE source.kind = "copy" ->
           IF nand[source.page] = Free THEN FromUser(Blank) ELSE nand[source.page]
      [] OTHER -> source

AfterData(w) ==
    IF proc[w].source = Blankness THEN nand
    ELSE Programmed(nand, j.head, Content(proc[w].source))

(* push_meta and what its callers do after it.                             *)
Proceed(w, jj) ==
    LET k == proc[w]
    IN  /\ j' = IF k.moved THEN Dequeue(jj)
                ELSE [jj EXCEPT !.count = IF request[w].op = "trim" THEN @ - 1
                                          ELSE @]
        /\ IF k.then = Idle THEN Succeed(w) ELSE Goto(w, k.then) /\ UNCHANGED reply

Pushed(w) == [j EXCEPT !.metas[j.head % Ppc] = proc[w].meta]

Program(w) ==
    /\ At(w, "program")
    /\ IF Content(proc[w].source).kind = "torn"
       THEN /\ Fail(w) /\ j' = [j EXCEPT !.count = proc[w].old]
            /\ UNCHANGED <<nand, durable>>
       ELSE /\ OnFlash(AfterData(w))
            /\ IF (j.head + 2) % Ppc # 0
               THEN Proceed(w, [Pushed(w) EXCEPT !.root = j.head,
                                                 !.head = @ + 1])
               ELSE /\ Goto(w, [proc[w] EXCEPT !.at = "check",
                                           !.oldHead = j.head])
                    /\ j' = Pushed(w) /\ UNCHANGED reply
    /\ Remember

Checkpoint(w) ==
    [kind |-> "checkpoint", epoch |-> j.epoch, tail |-> j.tail,
     bbCurrent |-> j.bbCurrent, bbLast |-> j.bbLast,
     count |-> proc[w].count, metas |-> j.metas]

AfterCheckpoint(w) == Programmed(nand, j.head + 1, Checkpoint(w))

PushMeta(w) ==
    LET rolled == RollStats([j EXCEPT !.dirty = FALSE, !.root = proc[w].oldHead,
                                      !.head = NextUpage(@)])
    IN  /\ At(w, "check")
        /\ OnFlash(AfterCheckpoint(w))
        /\ Proceed(w, [rolled EXCEPT !.tailSync = j.tail])
        /\ Remember
-----------------------------------------------------------------------------
(* A reset.  A page that was being programmed, a block that was being      *)
(* erased, is as before, as wanted, or cannot be read.                     *)
InFlight(w) ==
    CASE proc[w].at = "erase" ->
           {Erased(nand, Block(j.head)), Ruined(nand, Block(j.head))}
      [] proc[w].at = "program" /\ proc[w].source # Blankness ->
           {AfterData(w), [nand EXCEPT ![j.head] = Torn]}
      [] proc[w].at = "check" ->
           {AfterCheckpoint(w), [nand EXCEPT ![j.head + 1] = Torn]}
      [] OTHER -> {}

Crash ==
    /\ past = <<>> /\ crashes < MaxCrashes /\ crashes' = crashes + 1
    /\ \E n \in {nand} \cup UNION {InFlight(w) : w \in Workers} :
          OnFlash(n) /\ j' = Resume(n)
    /\ Remember
    /\ proc' = [w \in Workers |-> Idle]
    /\ request' = [w \in Workers |-> NoRequest]
    /\ reply' = [w \in Workers |-> NoReply]
    /\ UNCHANGED <<past, ops>>

Work(w) ==
    Gc(w) \/ Carry(w) \/ Sync(w) \/ PrepareHead(w) \/ Erase(w) \/ Program(w)
    \/ PushMeta(w)

Next ==
    \/ \E w \in Workers : (\E r \in Requests : Ask(w, r)) \/ Take(w) \/ Work(w)
    \/ Crash

Spec == Init /\ [][Next]_vars
-----------------------------------------------------------------------------
(* The promise of the FTL service: a disk that loses nothing, that a reset *)
(* takes back at most to its last sync, and that has only whole writes.    *)
Disk == INSTANCE SectorStore
          WITH Clients <- Workers
ImplementsSectorStore == Disk!Spec
-----------------------------------------------------------------------------
TypeOK ==
    /\ \A p \in Pages : nand[p].kind \in {"free", "torn", "user", "checkpoint"}
    /\ j.head \in Pages /\ j.tail \in Pages /\ j.tailSync \in Pages
    /\ j.root \in Pages \cup {None} /\ j.dirty \in BOOLEAN
    /\ j.count \in 0..Cardinality(Sectors)
    /\ sectors \in [Sectors -> Data \cup {Blank}]
    /\ durable \in [Sectors -> Data \cup {Blank}]
    /\ \A w \in Workers :
         /\ proc[w].at \in {"idle", "gc", "serve", "sync", "head", "erase",
                            "program", "check"}
         /\ request[w] \in Requests \cup {NoRequest}

(* map.c keeps a count of the sectors beside the tree, in RAM, in each     *)
(* checkpoint, and takes it back when a page cannot be appended.  It       *)
(* decides whether the map is full and is cleared with the tree: between   *)
(* two calls it is the number of sectors the tree leads to.                *)
CountIsRight ==
    Quiet => j.count = Cardinality({s \in Sectors : sectors[s] # Blank})

(* The reserve of dhara_map_capacity and the garbage collection before     *)
(* each write keep prepare_head from meeting the last-synced tail: as long *)
(* as no page is unreadable, only a write to a new sector of a full map is *)
(* refused.                                                                *)
Refused(w) == reply[w] = NoReply /\ reply'[w] # NoReply /\ ~reply'[w].ok
MapFull(w) == request[w].op = "write" /\ j.count >= MapCapacity(j)
NeverJournalFull ==
    [][\A w \in Workers : Refused(w) =>
         MapFull(w) \/ \E p \in Pages : nand[p] = Torn]_vars

(* README:17-20 of Dhara: if the power fails, the state rolls back to the  *)
(* last synchronization point.  A store that took writes then takes them   *)
(* after the reset.                                                        *)
RefusedOnlyWhenFull == [][\A w \in Workers : Refused(w) => MapFull(w)]_vars

(* Pages are appended to a log that runs round the chip.  Nothing between  *)
(* the tail of the last checkpoint and the head is touched, for a reset    *)
(* goes back to it.  nand.h:78: pages are programmed sequentially within a *)
(* block and not reprogrammed, whatever resume made of a torn block.       *)
Within(t, h, p) ==
    IF t <= h THEN t <= p /\ p < h ELSE t <= p \/ p < h

InLog(p) == Within(j.tailSync, j.head, p)

FreeOn(n, p) == \A q \in Pages : Block(q) = Block(p) /\ p <= q => n[q] = Free

AppendsOnly ==
    [][\A p \in Pages : nand'[p] # nand[p] =>
         /\ ~InLog(p)
         /\ \/ FreeOn(nand, p)
            \/ \E page \in {Free, Torn} : \A q \in Pages :
                  Block(q) = Block(p) => nand'[q] = page]_vars

(* map.h:102: once sync returns successfully, all changes to date are      *)
(* persistent and durable.                                                 *)
SyncIsDurable ==
    [][\A w \in Workers :
         /\ request[w] # NoRequest /\ request[w].op = "sync"
         /\ reply[w] = NoReply /\ reply'[w] # NoReply /\ reply'[w].ok
         => durable' = sectors']_vars
=============================================================================
