----------------------------- MODULE CacheList -----------------------------
(***************************************************************************)
(* The doubly linked list that orders the frames of one page cache         *)
(* (vmMgr.c).  A list is a record of the two file-scope pointers and the    *)
(* two pointer fields of every CachePageInfo_t:                             *)
(*                                                                         *)
(*    l.head, l.tail   CachePageV*Head, CachePageV*Tail                     *)
(*    l.prev, l.next   [frames -> frames \cup {Null}]                       *)
(*                                                                         *)
(* The frame at the head is the next victim, the frame at the tail the one *)
(* loaded or first written last.  The operators are pure functions of such *)
(* a record, each one a C function, assignment for assignment.             *)
(***************************************************************************)
EXTENDS Naturals, Sequences, FiniteSets

CONSTANT Null            \* the C null pointer

\* The list records over a set of frames.
ListType(frames) == [head : frames, tail : frames,
                     prev : [frames -> frames \cup {Null}],
                     next : [frames -> frames \cup {Null}]]

\* Mutants of the operator below: the new head keeps its predecessor; the
\* frame moved keeps its successor.
HeadKeepsPrev(l) ==
    LET cur == l.head
    IN  [head |-> l.next[cur],
         tail |-> cur,
         prev |-> [l.prev EXCEPT ![cur] = l.tail],
         next |-> [l.next EXCEPT ![l.tail] = cur, ![cur] = Null]]

TailKeepsNext(l) ==
    LET cur == l.head
        hd  == l.next[cur]
    IN  [head |-> hd,
         tail |-> cur,
         prev |-> [l.prev EXCEPT ![hd] = Null, ![cur] = l.tail],
         next |-> [l.next EXCEPT ![l.tail] = cur]]

(***************************************************************************)
(* get_vrom_page_and_move_to_tail / get_vram_page_and_move_to_tail: the     *)
(* head frame becomes the tail.  The frame handed out, CachePageV*Cur, is   *)
(* the old l.head.                                                          *)
(***************************************************************************)
GetPageAndMoveToTail(l) ==
    LET cur == l.head
        hd  == l.next[cur]
    IN  [head |-> hd,
         tail |-> cur,
         prev |-> [l.prev EXCEPT ![hd] = Null, ![cur] = l.tail],
         next |-> [l.next EXCEPT ![l.tail] = cur, ![cur] = Null]]

(***************************************************************************)
(* The middle case of move_vram_cache_page_to_tail: unlink the frame and    *)
(* append it.  item->next is not cleared, so the tail may keep a stale      *)
(* successor until the next append overwrites it.                           *)
(***************************************************************************)
UnlinkAndAppend(l, item) ==
    [head |-> l.head,
     tail |-> item,
     prev |-> [l.prev EXCEPT ![l.next[item]] = l.prev[item], ![item] = l.tail],
     next |-> [l.next EXCEPT ![l.prev[item]] = l.next[item], ![l.tail] = item]]

\* move_vram_cache_page_to_tail (its VROM twin is never called)
MoveToTail(l, item) ==
    CASE l.prev[item] # Null /\ l.next[item] = Null -> l
      [] l.prev[item] # Null /\ l.next[item] # Null -> UnlinkAndAppend(l, item)
      [] l.prev[item] = Null /\ l.next[item] # Null -> GetPageAndMoveToTail(l)
      [] l.prev[item] = Null /\ l.next[item] = Null -> l

\* The list vmMgr_ReleaseAllPage builds over the frames in array order.
ReleaseAll(order) ==
    LET n == Len(order)
        frames == {order[i] : i \in 1 .. n}
        At(f) == CHOOSE i \in 1 .. n : order[i] = f
    IN  [head |-> order[1],
         tail |-> order[n],
         prev |-> [f \in frames |-> IF At(f) = 1 THEN Null ELSE order[At(f) - 1]],
         next |-> [f \in frames |-> IF At(f) = n THEN Null ELSE order[At(f) + 1]]]

(***************************************************************************)
(* What the list is meant to be: the n frames in the order s, each once,   *)
(* linked both ways.  The successor of the tail is left open.              *)
(***************************************************************************)
InOrder(l, n, s, frames) ==
    /\ l.head = s[1]
    /\ l.tail = s[n]
    /\ l.prev[s[1]] = Null
    /\ \A i \in 1 .. n - 1 : l.next[s[i]] = s[i + 1] /\ l.prev[s[i + 1]] = s[i]
    /\ \A f \in frames : \E i \in 1 .. n : s[i] = f
    /\ \A i, j \in 1 .. n : s[i] = s[j] => i = j

Ordered(l, n, frames) == \E s \in [1 .. n -> frames] : InOrder(l, n, s, frames)

\* The walk of search_vram_cache_page_by_vaddr: from the tail along prev,
\* Null once it has left the list.
Walk(l) ==
    LET w[k \in Nat] ==
            IF k = 0 THEN l.tail
            ELSE IF w[k - 1] = Null THEN Null ELSE l.prev[w[k - 1]]
    IN  w

(***************************************************************************)
(* search_vram_cache_page_by_vaddr: the frame nearest the tail that caches *)
(* page p, Null if the walk meets none.                                    *)
(***************************************************************************)
SearchByVaddr(l, frames, mapTo, p) ==
    LET w    == Walk(l)
        hits == {k \in 0 .. Cardinality(frames) - 1 :
                    w[k] \in frames /\ mapTo[w[k]] = p}
    IN  IF hits = {} THEN Null
        ELSE w[CHOOSE k \in hits : \A j \in hits : k <= j]
=============================================================================
