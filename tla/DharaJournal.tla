---------------------------- MODULE DharaJournal ----------------------------
(***************************************************************************)
(* The journal and the radix tree of Dhara (Component3rd/dhara), which     *)
(* keeps the sectors of the FTL service on the NAND flash, as pure         *)
(* operators on the flash n and on the journal j in RAM.                   *)
(*                                                                         *)
(* The flash is a circular log of user pages.  Ppc pages make a group; the *)
(* last page of a group is its checkpoint and holds the metadata of the    *)
(* others.  The metadata of a user page names its sector and, for every    *)
(* bit of the sector number, the latest page of the other half of the      *)
(* tree; the root is the latest user page.                                 *)
(*                                                                         *)
(* A program or an erase never reports a failure (MtdService,              *)
(* FailuresAreReported), so the recovery from bad blocks is never entered  *)
(* and is left out; a block counts as bad when its first page cannot be    *)
(* read.                                                                   *)
(***************************************************************************)
EXTENDS Integers, Sequences, FiniteSets

CONSTANTS
    NumBlocks, Ppb,   \* blocks of the chip, pages of a block
    Ppc,              \* pages of a checkpoint group
    Depth,            \* bits of a sector number, DHARA_RADIX_DEPTH
    GcRatio,
    MaxRetries        \* DHARA_MAX_RETRIES

ASSUME GeometryAssumption ==
    /\ NumBlocks \in Nat \ {0, 1} /\ Ppc \in Nat \ {0, 1, 2}
    /\ Ppb \in Nat \ {0} /\ Ppb % Ppc = 0
    /\ Depth \in Nat \ {0} /\ GcRatio \in Nat \ {0} /\ MaxRetries \in Nat \ {0}

NumPages == NumBlocks * Ppb
None == -1         \* DHARA_PAGE_NONE, DHARA_SECTOR_NONE
Unreadable == -2   \* in place of a page or a sector when a read fails

Block(p) == p \div Ppb
Group(p) == p \div Ppc
FirstOf(b) == b * Ppb
NextBlock(b) == (b + 1) % NumBlocks

\* Mutant of NextUpage: the end of the chip is forgotten.
NextUpageRunsOn(p) == IF (p + 2) % Ppc = 0 THEN p + 2 ELSE p + 1

NextUpage(p) ==
    LET q == IF (p + 2) % Ppc = 0 THEN p + 2 ELSE p + 1
    IN  IF q >= NumPages THEN 0 ELSE q
CheckpointOf(g) == (g + 1) * Ppc - 1

(* What a page can hold beside user data.                                  *)
Free == [kind |-> "free"]
Torn == [kind |-> "torn"]
NoMeta == [id |-> None, alt |-> [d \in 1..Depth |-> None]]
NoMetas == [i \in 0..Ppc - 2 |-> NoMeta]

IsCheckpoint(n, p) == n[p].kind = "checkpoint"

(* dhara_nand_is_bad: the metadata of the first page cannot be read.       *)
IsBad(n, b) == n[FirstOf(b)].kind = "torn"

(* Bit d of a sector number, from the highest.                             *)
Bit(s, d) == (s \div 2 ^ (Depth - d)) % 2
-----------------------------------------------------------------------------
(* Capacity and size, in user pages.                                       *)

JournalCapacity(j) ==
    LET maxBad == IF j.bbLast > j.bbCurrent THEN j.bbLast ELSE j.bbCurrent
    IN  (NumBlocks - maxBad - 1) * (Ppb \div Ppc) * (Ppc - 1)

MapCapacity(j) ==
    LET cap == JournalCapacity(j)
        reserved == cap \div (GcRatio + 1) + MaxRetries * Ppb
    IN  IF reserved >= cap THEN 0 ELSE cap - reserved

JournalSize(j) ==
    LET wrap == IF j.head < j.tailSync THEN 1 ELSE 0
    IN  (j.head + wrap * NumPages - j.tailSync)
          - (Group(j.head) + wrap * Group(NumPages) - Group(j.tailSync))

(* A full turn of the log.                                                 *)
RollStats(j) ==
    IF j.head = 0
    THEN [j EXCEPT !.bbLast = j.bbCurrent, !.bbCurrent = 0, !.epoch = @ + 1]
    ELSE j
-----------------------------------------------------------------------------
(* The tail.                                                               *)

(* The first of the blocks from b on, as many as are tried, that is good.  *)
FirstBlock(b, blocks) ==
    LET good == {i \in 0..MaxRetries - 1 : (b + i) % NumBlocks \in blocks}
    IN  IF good = {} THEN None
        ELSE (b + CHOOSE i \in good : \A k \in good : i <= k) % NumBlocks

(* The tail may stand on the head's block, be it bad.                      *)
TailBlock(n, j) ==
    FirstBlock(Block(j.tail),
               {b \in 0..NumBlocks - 1 : b = Block(j.head) \/ ~IsBad(n, b)})

Peek(n, j) ==
    LET b == TailBlock(n, j)
    IN  IF j.head = j.tail \/ j.tail % Ppb # 0 \/ b = None THEN j
        ELSE [j EXCEPT !.tail = FirstOf(b),
                       !.root = IF FirstOf(b) = j.head THEN None ELSE @]

Wrapped(a) == IF a >= NumPages THEN a - NumPages ELSE a

Dequeue(j) ==
    IF j.head = j.tail THEN j
    ELSE LET t == NextUpage(j.tail)
             size == Wrapped(j.head + NumPages - t)
         IN  [j EXCEPT !.tail = t,
                       !.tailSync = IF j.dirty THEN @ ELSE t,
                       !.root = IF Wrapped(j.head + NumPages - @) > size
                                THEN None ELSE @]

\* Mutant of Clear: the tree goes, the count stays.
ClearTreeOnly(j) ==
    [j EXCEPT !.tail = j.head, !.root = None, !.dirty = TRUE, !.metas = NoMetas]

(* dhara_journal_clear, and the count with it.                             *)
Clear(j) ==
    [j EXCEPT !.tail = j.head, !.root = None, !.dirty = TRUE,
              !.metas = NoMetas, !.count = 0]
-----------------------------------------------------------------------------
(* The tree.                                                               *)

(* dhara_journal_read_meta.                                                *)
ReadMeta(n, j, p) ==
    LET c == CheckpointOf(Group(p))
    IN  IF Group(p) = Group(j.head) THEN j.metas[p % Ppc]
        ELSE IF IsCheckpoint(n, c) THEN n[c].metas[p % Ppc]
        ELSE IF n[c] = Free THEN NoMeta
        ELSE [NoMeta EXCEPT !.id = Unreadable]

(* trace_path.  On level d of the tree the walk to sector s stays on its   *)
(* page p, or turns to the other half.                                     *)
Turns(n, j, s, p, d) == Bit(s, d) # Bit(ReadMeta(n, j, p).id, d)

Descend(n, j, s, p, d) ==
    LET meta == ReadMeta(n, j, p)
    IN  IF p < 0 THEN p
        ELSE IF meta.id < 0 THEN meta.id
        ELSE IF Turns(n, j, s, p, d) THEN meta.alt[d] ELSE p

(* The pages the walk stands on, level by level, and where it arrives.     *)
Walk(n, j, s) ==
    LET page[d \in 1..Depth + 1] ==
          IF d = 1 THEN j.root ELSE Descend(n, j, s, page[d - 1], d - 1)
    IN  page

(* The page that the walk ends on, if it can be read.                      *)
Arrival(n, j, p) ==
    IF p >= 0 /\ ReadMeta(n, j, p).id = Unreadable THEN Unreadable ELSE p

(* The latest page of the half of the tree that the walk leaves on page p. *)
OtherHalf(n, j, s, p, d) ==
    LET meta == ReadMeta(n, j, p)
    IN  IF p < 0 \/ meta.id < 0 THEN None
        ELSE IF Turns(n, j, s, p, d) THEN p ELSE meta.alt[d]

(* The page of sector s, or None, and the pointers that a new page gets.   *)
TracePath(n, j, s) ==
    LET walk == Walk(n, j, s)
    IN  [page |-> Arrival(n, j, walk[Depth + 1]),
         alt  |-> [d \in 1..Depth |-> OtherHalf(n, j, s, walk[d], d)]]

MetaFor(s, path) == [id |-> s, alt |-> path.alt]

(* raw_gc's verdict on page p: it is garbage unless the tree leads from    *)
(* its sector to it.                                                       *)
Verdict(n, j, p) ==
    LET s == ReadMeta(n, j, p).id
        q == TracePath(n, j, s).page
    IN  IF s = None THEN "garbage"
        ELSE IF s = Unreadable \/ q = Unreadable THEN "error"
        ELSE IF p = q THEN "live" ELSE "garbage"

(* dhara_map_read; what a page holds that is not user data is not told     *)
(* apart from one that cannot be read.                                     *)
ReadSector(n, j, s, blank) ==
    LET p == TracePath(n, j, s).page
    IN  IF p = None THEN blank
        ELSE IF p = Unreadable \/ n[p].kind # "user" THEN Unreadable
        ELSE n[p].data

(* try_delete: the page that is rewritten without its pointer to sector s, *)
(* the closest cousin, and its new metadata.                               *)
Cousins(path) == {d \in 1..Depth : path.alt[d] # None}

Deletion(n, j, path) ==
    LET level  == CHOOSE d \in Cousins(path) : \A e \in Cousins(path) : e <= d
        cousin == path.alt[level]
        meta   == ReadMeta(n, j, cousin)
    IN  [page |-> cousin,
         meta |-> [id  |-> meta.id,
                   alt |-> [d \in 1..Depth |->
                              IF d < level THEN path.alt[d]
                              ELSE IF d = level THEN None ELSE meta.alt[d]]]]
-----------------------------------------------------------------------------
(* Resuming after a reset.  Each search follows its code: a checkpoint in  *)
(* the first group of a block, the last block of the epoch, the last       *)
(* programmed group of it, its last valid checkpoint, the next free page.  *)

EmptyJournal ==
    [head |-> 0, tail |-> 0, tailSync |-> 0, root |-> None, dirty |-> FALSE,
     epoch |-> 0, bbLast |-> NumBlocks \div 64, bbCurrent |-> 0,
     metas |-> NoMetas, count |-> 0]

FirstCheckpoint(b) == CheckpointOf(Group(FirstOf(b)))

FindCheckblock(n, b) ==
    LET found == {c \in b..b + MaxRetries - 1 :
                     /\ c < NumBlocks /\ ~IsBad(n, c)
                     /\ IsCheckpoint(n, FirstCheckpoint(c))}
    IN  IF found = {} THEN None
        ELSE CHOOSE c \in found : \A d \in found : c <= d

\* Mutant of InEpoch: the epoch is not compared.
InAnyEpoch(n, b, epoch) == FindCheckblock(n, b) # None

(* A checkpoint block of the epoch from b on.                              *)
InEpoch(n, b, epoch) ==
    LET c == FindCheckblock(n, b)
    IN  c # None /\ n[FirstCheckpoint(c)].epoch = epoch

\* The two searches halve low..high until they find something.
Between(low, high) == [low |-> low, high |-> high, found |-> None]
Middle(range) == (range.low + range.high) \div 2
Over(range) == range.low > range.high \/ range.found # None

CheckblockStep(n, epoch, first, range) ==
    LET mid   == Middle(range)
        found == FindCheckblock(n, mid)
    IN  IF Over(range) THEN range
        ELSE IF ~InEpoch(n, mid, epoch)
        THEN IF mid = 0 THEN [range EXCEPT !.found = first]
             ELSE [range EXCEPT !.high = mid - 1]
        ELSE IF found + 1 >= NumBlocks \/ ~InEpoch(n, found + 1, epoch)
        THEN [range EXCEPT !.found = found]
        ELSE [range EXCEPT !.low = FindCheckblock(n, found + 1)]

LastCheckblock(n, epoch, first) ==
    LET range[k \in 0..NumBlocks] ==
          IF k = 0 THEN Between(first, NumBlocks - 1)
          ELSE CheckblockStep(n, epoch, first, range[k - 1])
        last == range[NumBlocks].found
    IN  IF last = None THEN first ELSE last

GroupFree(n, g) == \A i \in 0..Ppc - 1 : n[g * Ppc + i] = Free

(* Groups are numbered over the chip here.                                 *)
GroupStep(n, b, range) ==
    LET mid == Middle(range)
    IN  IF Over(range) THEN range
        ELSE IF GroupFree(n, mid) THEN [range EXCEPT !.high = mid - 1]
        ELSE IF Block((mid + 1) * Ppc) # b \/ GroupFree(n, mid + 1)
        THEN [range EXCEPT !.found = mid]
        ELSE [range EXCEPT !.low = mid + 1]

LastGroup(n, b) ==
    LET range[k \in 0..Ppb] ==
          IF k = 0 THEN Between(Group(FirstOf(b)), Group(FirstOf(b + 1)) - 1)
          ELSE GroupStep(n, b, range[k - 1])
        last == range[Ppb].found
    IN  IF last = None THEN FirstOf(b) ELSE last * Ppc

(* The checkpoint of the epoch at or before the group, in its block.       *)
RootCheckpoint(n, start, epoch) ==
    LET valid == {p \in FirstOf(Block(start))..start + Ppc - 1 :
                     /\ p % Ppc = Ppc - 1 /\ IsCheckpoint(n, p)
                     /\ n[p].epoch = epoch}
    IN  IF valid = {} THEN None
        ELSE CHOOSE p \in valid : \A q \in valid : q <= p

(* The head is the first free user page from the group on, in its block,   *)
(* or the next block, which must not be the tail's.                        *)
\* Mutant of FreeFrom: the first free page, whatever is behind it.
FirstFree(n, g) ==
    LET free == {i \in 0..Ppc - 1 : n[g * Ppc + i] = Free}
    IN  IF free = {} THEN Ppc ELSE CHOOSE i \in free : \A k \in free : i <= k

FreeFrom(n, g) ==
    LET used == {i \in 0..Ppc - 1 : n[g * Ppc + i] # Free}
    IN  IF used = {} THEN 0 ELSE 1 + CHOOSE i \in used : \A k \in used : k <= i

FindHead(n, j, group) ==
    LET groups == {g \in Group(group)..Group(group) + Ppb \div Ppc - 1 :
                     /\ Block(g * Ppc) = Block(group)
                     /\ FreeFrom(n, g) <= Ppc - 2}
        first  == CHOOSE g \in groups : \A h \in groups : g <= h
        next   == NextBlock(Block(group))
    IN  IF groups # {} THEN [j EXCEPT !.head = first * Ppc + FreeFrom(n, first)]
        ELSE [RollStats([j EXCEPT !.head = FirstOf(next)])
              EXCEPT !.tail = IF Block(@) = next THEN FirstOf(NextBlock(next))
                              ELSE @]

(* The checkpoint's settings, and the head behind the group.               *)
Restored(n, epoch, group, check) ==
    LET found == [EmptyJournal EXCEPT
                    !.epoch = epoch, !.root = check - 1, !.tail = n[check].tail,
                    !.bbCurrent = n[check].bbCurrent, !.bbLast = n[check].bbLast,
                    !.count = n[check].count]
        j     == FindHead(n, found, group)
    IN  [j EXCEPT !.tailSync = j.tail]

ResumeIn(n, epoch, group) ==
    LET check == RootCheckpoint(n, group, epoch)
    IN  IF check = None THEN EmptyJournal ELSE Restored(n, epoch, group, check)

ResumeFrom(n, epoch, first) ==
    ResumeIn(n, epoch, LastGroup(n, LastCheckblock(n, epoch, first)))

Resume(n) ==
    LET first == FindCheckblock(n, 0)
    IN  IF first = None THEN EmptyJournal
        ELSE ResumeFrom(n, n[FirstCheckpoint(first)].epoch, first)
=============================================================================
