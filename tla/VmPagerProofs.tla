--------------------------- MODULE VmPagerProofs ---------------------------
(***************************************************************************)
(* For every number of pages, frames, segments and movable entries, the    *)
(* second-level tables and the cache bookkeeping of VmPager agree, a page  *)
(* is writable only while its frame is dirty, and both frame lists stay    *)
(* well formed.                                                            *)
(***************************************************************************)
EXTENDS VmPager, WellFoundedInduction, TLAPS

-----------------------------------------------------------------------------
(* The list operations of vmMgr.c keep the frames of a cache in one order, *)
(* whatever the number of frames.                                          *)

\* The order after the head has become the tail.
Rotated(s, n) == [i \in 1 .. n |-> IF i = n THEN s[1] ELSE s[i + 1]]

\* The order after the k-th frame has become the tail.
MovedToEnd(s, n, k) ==
    [i \in 1 .. n |-> IF i < k THEN s[i] ELSE IF i = n THEN s[k] ELSE s[i + 1]]

(***************************************************************************)
(* get_vrom_page_and_move_to_tail and get_vram_page_and_move_to_tail turn  *)
(* the order around by one frame and leave the new tail without successor. *)
(***************************************************************************)
LEMMA RotateInOrder ==
    ASSUME NEW frames, Null \notin frames,
           NEW n \in Nat, n > 1,
           NEW s \in [1 .. n -> frames],
           NEW l \in ListType(frames),
           InOrder(l, n, s, frames)
    PROVE  /\ GetPageAndMoveToTail(l) \in ListType(frames)
           /\ InOrder(GetPageAndMoveToTail(l), n, Rotated(s, n), frames)
           /\ GetPageAndMoveToTail(l).next[GetPageAndMoveToTail(l).tail] = Null
<1> DEFINE cur == l.head
           hd  == l.next[cur]
           g   == GetPageAndMoveToTail(l)
           t   == Rotated(s, n)
<1>1. /\ cur = s[1] /\ hd = s[2] /\ l.tail = s[n]
      /\ cur \in frames /\ hd \in frames /\ l.tail \in frames
      /\ cur # hd /\ cur # l.tail
  BY DEF InOrder, ListType
<1>2. /\ g.head = hd /\ g.tail = cur
      /\ g.prev = [l.prev EXCEPT ![hd] = Null, ![cur] = l.tail]
      /\ g.next = [l.next EXCEPT ![l.tail] = cur, ![cur] = Null]
  BY DEF GetPageAndMoveToTail
<1>3. g \in ListType(frames)
  BY <1>1 DEF GetPageAndMoveToTail, ListType
<1>4. g.next[g.tail] = Null
  BY <1>1, <1>2 DEF ListType
<1>5. InOrder(g, n, t, frames)
  <2>1. t[1] = s[2] /\ t[n] = s[1]
    BY DEF Rotated
  <2>2. g.head = t[1] /\ g.tail = t[n]
    BY <1>1, <1>2, <2>1
  <2>3. g.prev[t[1]] = Null
    BY <1>1, <1>2, <2>1 DEF ListType
  <2>4. ASSUME NEW i \in 1 .. n - 1
        PROVE  g.next[t[i]] = t[i + 1] /\ g.prev[t[i + 1]] = t[i]
    <3>1. CASE i < n - 1
      <4>1. t[i] = s[i + 1] /\ t[i + 1] = s[i + 2]
        BY <3>1 DEF Rotated
      <4>2. /\ l.next[s[i + 1]] = s[i + 2] /\ l.prev[s[i + 2]] = s[i + 1]
            /\ s[i + 1] \in frames /\ s[i + 2] \in frames
        BY <3>1 DEF InOrder
      <4>3. /\ s[i + 1] # l.tail /\ s[i + 1] # cur
            /\ s[i + 2] # hd /\ s[i + 2] # cur
        BY <1>1, <3>1 DEF InOrder
      <4> QED BY <1>2, <4>1, <4>2, <4>3, <1>1 DEF ListType
    <3>2. CASE i = n - 1
      <4>1. t[i] = s[n] /\ t[i + 1] = s[1]
        BY <3>2 DEF Rotated
      <4> QED BY <1>1, <1>2, <4>1 DEF ListType
    <3> QED BY <3>1, <3>2
  <2>5. ASSUME NEW f \in frames PROVE \E i \in 1 .. n : t[i] = f
    <3>1. PICK j \in 1 .. n : s[j] = f
      BY DEF InOrder
    <3>2. CASE j = 1
      BY <2>1, <3>1, <3>2
    <3>3. CASE j # 1
      <4>1. j - 1 \in 1 .. n /\ t[j - 1] = f
        BY <3>1, <3>3 DEF Rotated
      <4> QED BY <4>1
    <3> QED BY <3>2, <3>3
  <2>6. ASSUME NEW i \in 1 .. n, NEW j \in 1 .. n, t[i] = t[j] PROVE i = j
    BY <2>6 DEF Rotated, InOrder
  <2> QED BY <2>2, <2>3, <2>4, <2>5, <2>6 DEF InOrder
<1> QED BY <1>3, <1>4, <1>5

(***************************************************************************)
(* The middle case of move_vram_cache_page_to_tail: the frame at place k   *)
(* goes to the end, the others keep their order.                           *)
(***************************************************************************)
LEMMA UnlinkInOrder ==
    ASSUME NEW frames, Null \notin frames,
           NEW n \in Nat, n > 1,
           NEW s \in [1 .. n -> frames],
           NEW l \in ListType(frames),
           InOrder(l, n, s, frames),
           NEW k \in 2 .. n - 1
    PROVE  /\ UnlinkAndAppend(l, s[k]) \in ListType(frames)
           /\ InOrder(UnlinkAndAppend(l, s[k]), n, MovedToEnd(s, n, k), frames)
<1> DEFINE item == s[k]
           u    == UnlinkAndAppend(l, item)
           t    == MovedToEnd(s, n, k)
           p    == s[k - 1]
           x    == s[k + 1]
<1>1. /\ item \in frames /\ p \in frames /\ x \in frames /\ l.tail \in frames
      /\ l.next[item] = x /\ l.prev[item] = p /\ l.tail = s[n] /\ l.head = s[1]
      /\ item # l.tail /\ item # p /\ item # x /\ p # x /\ p # l.tail
      /\ item # l.head /\ x # l.head
  BY DEF InOrder, ListType
<1>2. /\ u.head = l.head /\ u.tail = item
      /\ u.prev = [l.prev EXCEPT ![x] = p, ![item] = l.tail]
      /\ u.next = [l.next EXCEPT ![p] = x, ![l.tail] = item]
  BY <1>1 DEF UnlinkAndAppend
<1>3. u \in ListType(frames)
  BY <1>1 DEF UnlinkAndAppend, ListType
<1>4. InOrder(u, n, t, frames)
  <2>1. t[1] = s[1] /\ t[n] = item
    BY DEF MovedToEnd
  <2>2. u.head = t[1] /\ u.tail = t[n]
    BY <1>1, <1>2, <2>1
  <2>3. u.prev[t[1]] = Null
    BY <1>1, <1>2, <2>1 DEF ListType, InOrder
  <2>4. ASSUME NEW i \in 1 .. n - 1
        PROVE  u.next[t[i]] = t[i + 1] /\ u.prev[t[i + 1]] = t[i]
    <3>1. CASE i < k - 1
      <4>1. t[i] = s[i] /\ t[i + 1] = s[i + 1]
        BY <3>1 DEF MovedToEnd
      <4>2. /\ l.next[s[i]] = s[i + 1] /\ l.prev[s[i + 1]] = s[i]
            /\ s[i] \in frames /\ s[i + 1] \in frames
            /\ s[i] # p /\ s[i] # l.tail /\ s[i + 1] # x /\ s[i + 1] # item
        BY <1>1, <3>1, SMTT(30) DEF InOrder
      <4> QED BY <1>1, <1>2, <4>1, <4>2 DEF ListType
    <3>2. CASE i = k - 1
      <4>1. t[i] = p /\ t[i + 1] = x
        BY <3>2 DEF MovedToEnd
      <4> QED BY <1>1, <1>2, <4>1 DEF ListType
    <3>3. CASE i >= k /\ i < n - 1
      <4>1. t[i] = s[i + 1] /\ t[i + 1] = s[i + 2]
        BY <3>3 DEF MovedToEnd
      <4>2. /\ l.next[s[i + 1]] = s[i + 2] /\ l.prev[s[i + 2]] = s[i + 1]
            /\ s[i + 1] \in frames /\ s[i + 2] \in frames
        BY <3>3 DEF InOrder
      <4>3. /\ s[i + 1] # p /\ s[i + 1] # l.tail
            /\ s[i + 2] # x /\ s[i + 2] # item
        BY <1>1, <3>3 DEF InOrder
      <4> QED BY <1>1, <1>2, <4>1, <4>2, <4>3 DEF ListType
    <3>4. CASE i >= k /\ i = n - 1
      <4>1. t[i] = s[n] /\ t[i + 1] = item
        BY <3>4 DEF MovedToEnd
      <4> QED BY <1>1, <1>2, <4>1 DEF ListType
    <3> QED BY <3>1, <3>2, <3>3, <3>4
  <2>5. ASSUME NEW f \in frames PROVE \E i \in 1 .. n : t[i] = f
    <3>1. PICK j \in 1 .. n : s[j] = f
      BY DEF InOrder
    <3>2. CASE j < k
      BY <3>1, <3>2 DEF MovedToEnd
    <3>3. CASE j = k
      BY <2>1, <3>1, <3>3
    <3>4. CASE j > k
      <4>1. j - 1 \in 1 .. n /\ t[j - 1] = f
        BY <3>1, <3>4 DEF MovedToEnd
      <4> QED BY <4>1
    <3> QED BY <3>2, <3>3, <3>4
  <2>6. ASSUME NEW i \in 1 .. n, NEW j \in 1 .. n, t[i] = t[j] PROVE i = j
    BY <2>6 DEF MovedToEnd, InOrder
  <2> QED BY <2>2, <2>3, <2>4, <2>5, <2>6 DEF InOrder
<1> QED BY <1>3, <1>4

(***************************************************************************)
(* move_vram_cache_page_to_tail keeps the frames in an order and makes the *)
(* frame the tail, provided a frame that is the tail already has no stale  *)
(* successor.                                                              *)
(***************************************************************************)
LEMMA MoveToTailOrdered ==
    ASSUME NEW frames, Null \notin frames,
           NEW n \in Nat, n > 1,
           NEW l \in ListType(frames), Ordered(l, n, frames),
           NEW f \in frames,
           f = l.tail => l.next[f] = Null
    PROVE  /\ MoveToTail(l, f) \in ListType(frames)
           /\ Ordered(MoveToTail(l, f), n, frames)
           /\ MoveToTail(l, f).tail = f
<1>1. PICK s \in [1 .. n -> frames] : InOrder(l, n, s, frames)
  BY DEF Ordered
<1>2. PICK k \in 1 .. n : s[k] = f
  BY <1>1 DEF InOrder
<1>3. CASE k = n
  <2>1. l.tail = f /\ l.next[f] = Null
    BY <1>1, <1>2, <1>3 DEF InOrder
  <2>2. n - 1 \in 1 .. n - 1 /\ l.prev[s[(n - 1) + 1]] = s[n - 1]
    BY <1>1 DEF InOrder
  <2>3. l.prev[f] # Null
    BY <1>2, <1>3, <2>2
  <2>4. MoveToTail(l, f) = l
    BY <2>1, <2>3 DEF MoveToTail
  <2> QED BY <2>1, <2>4
<1>4. CASE k = 1
  <2>1. l.head = f /\ l.prev[f] = Null /\ l.next[f] # Null
    BY <1>1, <1>2, <1>4 DEF InOrder
  <2>2. MoveToTail(l, f) = GetPageAndMoveToTail(l)
    BY <2>1 DEF MoveToTail
  <2>3. GetPageAndMoveToTail(l).tail = f
    BY <2>1 DEF GetPageAndMoveToTail
  <2>4. Rotated(s, n) \in [1 .. n -> frames]
    BY DEF Rotated
  <2> QED BY <1>1, <2>2, <2>3, <2>4, RotateInOrder DEF Ordered
<1>5. CASE k \in 2 .. n - 1
  <2>1. l.next[s[k]] = s[k + 1] /\ l.prev[s[(k - 1) + 1]] = s[k - 1]
    BY <1>1, <1>5 DEF InOrder
  <2>2. l.next[f] # Null /\ l.prev[f] # Null
    BY <1>2, <1>5, <2>1
  <2>3. MoveToTail(l, f) = UnlinkAndAppend(l, f)
    BY <2>2 DEF MoveToTail
  <2>4. UnlinkAndAppend(l, f).tail = f
    BY DEF UnlinkAndAppend
  <2>5. MovedToEnd(s, n, k) \in [1 .. n -> frames]
    BY <1>5 DEF MovedToEnd
  <2> QED BY <1>1, <1>2, <1>5, <2>3, <2>4, <2>5, UnlinkInOrder DEF Ordered
<1> QED BY <1>3, <1>4, <1>5

(***************************************************************************)
(* Taking the victim from the head keeps the frames in an order; the new   *)
(* tail is the victim, without successor.                                  *)
(***************************************************************************)
LEMMA GetPageOrdered ==
    ASSUME NEW frames, Null \notin frames,
           NEW n \in Nat, n > 1,
           NEW l \in ListType(frames), Ordered(l, n, frames)
    PROVE  /\ GetPageAndMoveToTail(l) \in ListType(frames)
           /\ Ordered(GetPageAndMoveToTail(l), n, frames)
           /\ GetPageAndMoveToTail(l).tail = l.head
           /\ GetPageAndMoveToTail(l).next[l.head] = Null
<1>1. PICK s \in [1 .. n -> frames] : InOrder(l, n, s, frames)
  BY DEF Ordered
<1>2. Rotated(s, n) \in [1 .. n -> frames]
  BY DEF Rotated
<1>3. GetPageAndMoveToTail(l).tail = l.head
  BY DEF GetPageAndMoveToTail
<1> QED BY <1>1, <1>2, <1>3, RotateInOrder DEF Ordered

(***************************************************************************)
(* The list that vmMgr_ReleaseAllPage builds is in array order.            *)
(***************************************************************************)
LEMMA ReleaseAllOrdered ==
    ASSUME NEW frames, Null \notin frames,
           NEW order \in Seq(frames), Len(order) > 1,
           frames = {order[i] : i \in 1 .. Len(order)},
           \A i, j \in 1 .. Len(order) : order[i] = order[j] => i = j
    PROVE  /\ ReleaseAll(order) \in ListType(frames)
           /\ Ordered(ReleaseAll(order), Len(order), frames)
           /\ ReleaseAll(order).next[ReleaseAll(order).tail] = Null
<1> DEFINE n == Len(order)
           At(f) == CHOOSE i \in 1 .. n : order[i] = f
           l == ReleaseAll(order)
<1>1. n \in Nat /\ n > 1 /\ order \in [1 .. n -> frames]
  OBVIOUS
<1>2. \A i \in 1 .. n : At(order[i]) = i
  OBVIOUS
<1>3. \A f \in frames : At(f) \in 1 .. n /\ order[At(f)] = f
  OBVIOUS
<1>4. /\ l.head = order[1] /\ l.tail = order[n]
      /\ l.prev = [f \in frames |-> IF At(f) = 1 THEN Null ELSE order[At(f) - 1]]
      /\ l.next = [f \in frames |-> IF At(f) = n THEN Null ELSE order[At(f) + 1]]
      /\ l = [head |-> l.head, tail |-> l.tail, prev |-> l.prev, next |-> l.next]
  BY DEF ReleaseAll
<1> HIDE DEF At, l
<1>5. l.prev \in [frames -> frames \cup {Null}]
  <2>1. \A f \in frames : At(f) # 1 => order[At(f) - 1] \in frames
    BY <1>1, <1>3
  <2> QED BY <1>4, <2>1
<1>6. l.next \in [frames -> frames \cup {Null}]
  <2>1. \A f \in frames : At(f) # n => order[At(f) + 1] \in frames
    BY <1>1, <1>3
  <2> QED BY <1>4, <2>1
<1>7. l \in ListType(frames)
  <2>1. order[1] \in frames /\ order[n] \in frames
    BY <1>1
  <2> QED BY <2>1, <1>4, <1>5, <1>6 DEF ListType
<1>8. l.next[l.tail] = Null
  <2>1. order[n] \in frames /\ At(order[n]) = n
    BY <1>1, <1>2
  <2> QED BY <2>1, <1>4
<1>9. InOrder(l, n, order, frames)
  <2>1. l.prev[order[1]] = Null
    BY <1>1, <1>2, <1>4
  <2>2. ASSUME NEW i \in 1 .. n - 1
        PROVE  l.next[order[i]] = order[i + 1] /\ l.prev[order[i + 1]] = order[i]
    BY <1>1, <1>2, <1>4
  <2>3. \A f \in frames : \E i \in 1 .. n : order[i] = f
    OBVIOUS
  <2> QED BY <1>4, <2>1, <2>2, <2>3 DEF InOrder
<1>10. Ordered(l, n, frames)
  BY <1>1, <1>9 DEF Ordered
<1> QED BY <1>7, <1>8, <1>10 DEF l

\* A nonempty set of naturals has a least element.
LEMMA LeastNatural ==
    ASSUME NEW S, S \subseteq Nat, S # {}
    PROVE  \E k \in S : \A j \in S : k <= j
<1>1. \E k \in S : \A j \in S : ~(<<j, k>> \in OpToRel(<, Nat))
  BY NatLessThanWellFounded, WFMin
<1>2. PICK k \in S : \A j \in S : ~(<<j, k>> \in OpToRel(<, Nat))
  BY <1>1
<1>3. k \in Nat /\ \A j \in S : j \in Nat /\ ~(j < k)
  BY <1>2, ZenonT(20) DEF OpToRel
<1>4. \A j \in S : k <= j
  BY <1>3
<1> QED BY <1>4

(***************************************************************************)
(* search_vram_cache_page_by_vaddr finds nothing or a frame of the cache   *)
(* that holds the page.                                                    *)
(***************************************************************************)
LEMMA SearchFindsCached ==
    ASSUME NEW l, NEW frames, NEW mapTo, NEW p, Null \notin frames
    PROVE  LET f == SearchByVaddr(l, frames, mapTo, p)
           IN  f # Null => f \in frames /\ mapTo[f] = p
<1> DEFINE w == Walk(l)
           hits == {k \in 0 .. Cardinality(frames) - 1 :
                       w[k] \in frames /\ mapTo[w[k]] = p}
           f == SearchByVaddr(l, frames, mapTo, p)
<1> SUFFICES ASSUME f # Null PROVE f \in frames /\ mapTo[f] = p
  OBVIOUS
<1>1. hits # {} /\ f = w[CHOOSE k \in hits : \A j \in hits : k <= j]
  BY DEF SearchByVaddr
<1>2. hits \subseteq Nat
  OBVIOUS
<1> HIDE DEF hits, w, f
<1>3. \E k \in hits : \A j \in hits : k <= j
  BY <1>1, <1>2, LeastNatural
<1>4. (CHOOSE k \in hits : \A j \in hits : k <= j) \in hits
  BY <1>3
<1> QED BY <1>1, <1>4 DEF hits

-----------------------------------------------------------------------------
(* The inductive invariant.                                                *)

MpteType == [loc : [Slots -> Segments], ptr : Slots]
Distinct(m) == \A i, j \in Slots : m.loc[i] = m.loc[j] => i = j

(***************************************************************************)
(* None of the properties below is inductive alone.  A fault that is still *)
(* current is what keeps LoadRamPage from caching a page twice; the dirty  *)
(* flags are what keeps a stale tail away from MoveToTail.                 *)
(***************************************************************************)
PagerInv ==
    /\ TypeOK
    /\ CacheCoherent
    /\ DirtyIffWritable
    /\ ListsInOrder
    /\ StaleTailIsWritable
    /\ SlotsDistinct
    /\ FaultIsCurrent

-----------------------------------------------------------------------------
(* The movable first-level entries *)

LEMMA HostKeepsDistinct ==
    ASSUME NEW m \in MpteType, Distinct(m), NEW seg
    PROVE  Host(m, seg) \in MpteType /\ Distinct(Host(m, seg))
<1>1. CASE ~Hosted(m, seg) /\ seg \in Segments
  <2>1. Host(m, seg) = [loc |-> [m.loc EXCEPT ![m.ptr] = seg], ptr |-> NextSlot(m.ptr)]
    BY <1>1 DEF Host, Park
  <2>2. NextSlot(m.ptr) \in Slots
    BY MmuAssumption DEF MpteType, NextSlot, Slots
  <2>3. Host(m, seg) \in MpteType
    BY <1>1, <2>1, <2>2 DEF MpteType
  <2>4. \A i \in Slots : m.loc[i] # seg
    BY <1>1 DEF Hosted
  <2> QED BY <2>1, <2>3, <2>4 DEF Distinct, MpteType
<1>2. CASE ~(~Hosted(m, seg) /\ seg \in Segments)
  BY <1>2 DEF Host
<1> QED BY <1>1, <1>2

LEMMA ParkKeepsDistinct ==
    ASSUME NEW m \in MpteType, Distinct(m), NEW seg, ReloadResult(m, seg) = 2
    PROVE  Park(m, seg) \in MpteType /\ Distinct(Park(m, seg))
<1>1. ~Hosted(m, seg) /\ seg \in Segments
  BY DEF ReloadResult
<1>2. Park(m, seg) = Host(m, seg)
  BY <1>1 DEF Host
<1> QED BY <1>2, HostKeepsDistinct

(***************************************************************************)
(* Unmapping the victim and mapping the new page changes two descriptors.  *)
(***************************************************************************)
LEMMA RemapTables ==
    ASSUME mpte \in MpteType, Distinct(mpte),
           l2 \in [Pages -> Descriptors \cup {Null}],
           NEW old \in Pages \cup {Null}, NEW p \in Pages,
           NEW f \in RomFrames \cup RamFrames, NEW ap \in {"RO", "RW"},
           Remap(old, p, f, ap)
    PROVE  /\ mpte' \in MpteType /\ Distinct(mpte')
           /\ l2' \in [Pages -> Descriptors \cup {Null}]
           /\ l2'[p] = [frame |-> f, ap |-> ap]
           /\ \A q \in Pages : q # p /\ q = old => l2'[q] = Null
           /\ \A q \in Pages : q # p /\ q # old => l2'[q] = l2[q]
<1>1. CASE old = Null
  <2>1. mpte' = Host(mpte, SegOf[p]) /\ l2' = [l2 EXCEPT ![p] = [frame |-> f, ap |-> ap]]
    BY <1>1 DEF Remap
  <2>2. mpte' \in MpteType /\ Distinct(mpte')
    BY <2>1, HostKeepsDistinct
  <2>3. [frame |-> f, ap |-> ap] \in Descriptors
    BY DEF Descriptors
  <2>4. Null \notin Pages
    BY PagerAssumption
  <2> QED BY <1>1, <2>1, <2>2, <2>3, <2>4
<1>2. CASE old # Null
  <2> DEFINE m0 == Host(mpte, SegOf[old])
  <2>1. /\ mpte' = Host(m0, SegOf[p])
        /\ l2' = [[l2 EXCEPT ![old] = Null] EXCEPT ![p] = [frame |-> f, ap |-> ap]]
    BY <1>2 DEF Remap
  <2>2. m0 \in MpteType /\ Distinct(m0)
    BY HostKeepsDistinct
  <2>3. mpte' \in MpteType /\ Distinct(mpte')
    BY <2>1, <2>2, HostKeepsDistinct
  <2>4. [frame |-> f, ap |-> ap] \in Descriptors
    BY DEF Descriptors
  <2> QED BY <1>2, <2>1, <2>3, <2>4
<1> QED BY <1>1, <1>2

-----------------------------------------------------------------------------
(* The initial state *)

LEMMA RegisteredDistinct == Registered \in MpteType /\ Distinct(Registered)
<1> DEFINE n == Len(SegOrder)
           Visits(k) == {i \in 1 .. n : (i - 1) % NumSlots = k - 1}
           LastOf(S) == CHOOSE i \in S : \A j \in S : j <= i
<1>1. n \in Nat /\ NumSlots \in Nat \ {0} /\ n >= NumSlots
  BY MmuAssumption
<1>2. ASSUME NEW k \in Slots
      PROVE  LastOf(Visits(k)) \in Visits(k)
  <2> DEFINE V == Visits(k)
  <2>1. k \in V
    <3>1. k \in 1 .. n /\ k - 1 \in 0 .. NumSlots - 1
      BY <1>1 DEF Slots
    <3>2. (k - 1) % NumSlots = k - 1
      BY <1>1, <3>1
    <3> QED BY <3>1, <3>2
  <2>2. V \subseteq 1 .. n
    OBVIOUS
  <2> HIDE DEF V
  <2>3. \E t \in {n - i : i \in V} : \A u \in {n - i : i \in V} : t <= u
    <3>1. {n - i : i \in V} \subseteq Nat /\ {n - i : i \in V} # {}
      BY <1>1, <2>1, <2>2
    <3> QED BY <3>1, LeastNatural
  <2>4. \E i \in V : \A j \in V : n - i <= n - j
    BY <2>3
  <2>5. PICK i \in V : \A j \in V : n - i <= n - j
    BY <2>4
  <2>6. i \in 1 .. n /\ \A j \in V : j \in 1 .. n /\ n - i <= n - j
    BY <2>2, <2>5
  <2>7. \A j \in V : j <= i
    BY <1>1, <2>6
  <2>8. LastOf(V) \in V
    BY <2>5, <2>7
  <2> QED BY <2>8 DEF V
<1>3. /\ Registered = [loc |-> Registered.loc, ptr |-> (n % NumSlots) + 1]
      /\ Registered.loc = [k \in Slots |-> SegOrder[LastOf(Visits(k))]]
  BY DEF Registered
<1>4. (n % NumSlots) + 1 \in Slots
  BY <1>1 DEF Slots
<1>5. \A k \in Slots : SegOrder[LastOf(Visits(k))] \in Segments
  BY <1>2 DEF Segments
<1>6. Registered \in MpteType
  <2> DEFINE F == [k \in Slots |-> SegOrder[LastOf(Visits(k))]]
  <2>1. F \in [Slots -> Segments]
    BY <1>5
  <2> HIDE DEF F
  <2>2. Registered = [loc |-> F, ptr |-> (n % NumSlots) + 1]
    BY DEF Registered, F
  <2> QED BY <2>1, <2>2, <1>4 DEF MpteType
<1>7. ASSUME NEW i \in Slots, NEW j \in Slots, Registered.loc[i] = Registered.loc[j]
      PROVE  i = j
  <2> DEFINE a == LastOf(Visits(i))
             b == LastOf(Visits(j))
  <2>1. a \in Visits(i) /\ b \in Visits(j)
    BY <1>2
  <2>2. SegOrder[a] = SegOrder[b]
    BY <1>3, <1>7
  <2> HIDE DEF a, b
  <2>3. a = b
    BY <2>1, <2>2, MmuAssumption
  <2>4. i - 1 = (a - 1) % NumSlots /\ j - 1 = (b - 1) % NumSlots
    BY <2>1
  <2> QED BY <2>3, <2>4, <1>1 DEF Slots
<1> QED BY <1>6, <1>7 DEF Distinct

(***************************************************************************)
(* The recursion of InitMpte is well founded: a function that satisfies it *)
(* exists on every initial segment of its domain.                          *)
(***************************************************************************)
Unmapping(g, j) ==
    /\ g = [k \in 0 .. j |-> g[k]]
    /\ \A k \in 0 .. j : g[k] = IF k = 0 THEN Registered ELSE Host(g[k - 1], SegOrder[k])

LEMMA UnmappingExists ==
    ASSUME NEW n \in Nat
    PROVE  \E g : Unmapping(g, n)
<1> DEFINE Bad == {j \in Nat : ~ \E g : Unmapping(g, j)}
<1> SUFFICES Bad = {}
  OBVIOUS
<1> SUFFICES ASSUME Bad # {} PROVE FALSE
  OBVIOUS
<1>1. \E j \in Bad : \A i \in Bad : j <= i
  BY LeastNatural
<1>2. PICK j \in Nat : (~ \E g : Unmapping(g, j)) /\ (\A i \in Bad : j <= i)
  BY <1>1
<1>3. CASE j = 0
  <2>1. Unmapping([k \in 0 .. 0 |-> Registered], 0)
    BY DEF Unmapping
  <2> QED BY <1>2, <1>3, <2>1
<1>4. CASE j # 0
  <2>1. j - 1 \in Nat /\ j - 1 \notin Bad
    BY <1>2, <1>4
  <2>2. PICK g : Unmapping(g, j - 1)
    BY <2>1
  <2> DEFINE h == [k \in 0 .. j |->
                      IF k < j THEN g[k] ELSE Host(g[j - 1], SegOrder[j])]
  <2>3. h = [k \in 0 .. j |-> h[k]]
    OBVIOUS
  <2>4. ASSUME NEW k \in 0 .. j
        PROVE  h[k] = IF k = 0 THEN Registered ELSE Host(h[k - 1], SegOrder[k])
    <3>1. CASE k = 0
      <4>1. h[k] = g[k] /\ 0 \in 0 .. j - 1
        BY <1>4, <3>1
      <4> QED BY <2>2, <3>1, <4>1 DEF Unmapping
    <3>2. CASE k # 0 /\ k < j
      <4>1. h[k] = g[k] /\ h[k - 1] = g[k - 1] /\ k \in 0 .. j - 1
        BY <3>2
      <4> QED BY <2>2, <3>2, <4>1 DEF Unmapping
    <3>3. CASE k # 0 /\ k = j
      <4>1. h[k] = Host(g[j - 1], SegOrder[j]) /\ h[k - 1] = g[j - 1]
        BY <1>4, <3>3
      <4> QED BY <3>3, <4>1
    <3> QED BY <3>1, <3>2, <3>3
  <2> HIDE DEF h
  <2>5. Unmapping(h, j)
    BY <2>3, <2>4 DEF Unmapping
  <2> QED BY <1>2, <2>5
<1> QED BY <1>3, <1>4

LEMMA InitMpteDistinct == InitMpte \in MpteType /\ Distinct(InitMpte)
<1> DEFINE A == CHOOSE g : g = [k \in 0 .. NumPaged |->
                    IF k = 0 THEN Registered ELSE Host(g[k - 1], SegOrder[k])]
           Bad == {k \in 0 .. NumPaged : ~(A[k] \in MpteType /\ Distinct(A[k]))}
<1>1. InitMpte = A[NumPaged]
  BY DEF InitMpte
<1>2. NumPaged \in Nat
  BY MmuAssumption
<1>3. \E g : g = [k \in 0 .. NumPaged |->
                    IF k = 0 THEN Registered ELSE Host(g[k - 1], SegOrder[k])]
  <2>1. PICK g : Unmapping(g, NumPaged)
    BY <1>2, UnmappingExists
  <2> QED BY <2>1 DEF Unmapping
<1>4. A = [k \in 0 .. NumPaged |->
             IF k = 0 THEN Registered ELSE Host(A[k - 1], SegOrder[k])]
  BY <1>3
<1> HIDE DEF A
<1>5. Bad = {}
  <2> SUFFICES ASSUME Bad # {} PROVE FALSE
    OBVIOUS
  <2> Bad \subseteq Nat
    BY <1>2
  <2>1. \E k \in Bad : \A i \in Bad : k <= i
    BY LeastNatural
  <2>2. PICK k \in 0 .. NumPaged : /\ ~(A[k] \in MpteType /\ Distinct(A[k]))
                                   /\ \A i \in Bad : k <= i
    BY <2>1
  <2>3. k # 0
    BY <1>4, <2>2, RegisteredDistinct
  <2>4. k - 1 \in 0 .. NumPaged /\ k - 1 \notin Bad
    BY <1>2, <2>2, <2>3
  <2>5. A[k] = Host(A[k - 1], SegOrder[k])
    BY <1>4, <2>3
  <2> QED BY <2>2, <2>4, <2>5, HostKeepsDistinct
<1> QED BY <1>1, <1>2, <1>5

LEMMA PagerInit == Init => PagerInv
<1> SUFFICES ASSUME Init PROVE PagerInv
  OBVIOUS
<1> USE PagerAssumption
<1>1. /\ romList \in ListType(RomFrames) /\ Ordered(romList, Len(RomOrder), RomFrames)
  BY ReleaseAllOrdered DEF Init, RomFrames
<1>2. /\ ramList \in ListType(RamFrames) /\ Ordered(ramList, Len(RamOrder), RamFrames)
      /\ ramList.next[ramList.tail] = Null
  BY ReleaseAllOrdered DEF Init, RamFrames
<1>3. mpte \in MpteType /\ Distinct(mpte)
  BY InitMpteDistinct DEF Init
<1>4. TypeOK
  <2>1. /\ mpte \in [loc : [Slots -> Segments], ptr : Slots]
        /\ l2 \in [Pages -> Descriptors \cup {Null}]
        /\ romList \in ListType(RomFrames) /\ ramList \in ListType(RamFrames)
    BY <1>1, <1>2, <1>3 DEF Init, MpteType
  <2>2. /\ romTo \in [RomFrames -> RomPages \cup {Null}]
        /\ romData \in [RomFrames -> RomPages \cup {Undef}]
        /\ ramTo \in [RamFrames -> RamPages \cup {Null}]
        /\ dirty \in [RamFrames -> BOOLEAN] /\ data \in [RamFrames -> Vals]
    BY DEF Init
  <2>3. /\ zram \in [ZramPages -> Vals \cup {Null}] /\ swap \in [SwapPages -> Vals]
        /\ swapOn \in BOOLEAN /\ touched \subseteq RamPages
    BY DEF Init
  <2>5. zsize \in [ZramPages -> 0 .. MaxBlocks] /\ zused \in Int
    BY DEF Init
  <2>4. /\ req \in [Tasks -> Requests \cup {Null}]
        /\ status \in [Tasks -> {"ready", "faulted", "lost"}]
        /\ fault \in Faults \cup {Null} /\ svc \in {"run", "drawing"}
    BY DEF Init
  <2> QED BY <2>1, <2>2, <2>3, <2>4, <2>5 DEF TypeOK
<1>5. CacheCoherent
  BY DEF Init, CacheCoherent, Coherent, Pages
<1>6. DirtyIffWritable
  BY DEF Init, DirtyIffWritable, Pages, MappedPages
<1>7. FaultIsCurrent
  BY DEF Init, FaultIsCurrent
<1> QED BY <1>1, <1>2, <1>3, <1>4, <1>5, <1>6, <1>7
        DEF PagerInv, ListsInOrder, StaleTailIsWritable, SlotsDistinct, Distinct

-----------------------------------------------------------------------------
(* Tables and bookkeeping *)

\* The bookkeeping `to` of a cache of `frames` agrees with the table t.
Agree(frames, to, t) ==
    \A f \in frames, p \in Pages : to[f] = p <=> t[p] # Null /\ t[p].frame = f

LEMMA CoherentIsAgree ==
    ASSUME TypeOK
    PROVE  CacheCoherent <=> Agree(RomFrames, romTo, l2) /\ Agree(RamFrames, ramTo, l2)
BY DEF TypeOK, CacheCoherent, Coherent, Agree

(***************************************************************************)
(* A frame that changes from its old page to an uncached page keeps the    *)
(* bookkeeping of its own cache in agreement with the tables, and that of  *)
(* the other cache too.                                                    *)
(***************************************************************************)
LEMMA LoadAgrees ==
    ASSUME NEW frames, NEW to \in [frames -> Pages \cup {Null}],
           NEW t, NEW t2, NEW f \in frames, NEW p \in Pages, NEW ap,
           Agree(frames, to, t), t[p] = Null,
           t2[p] = [frame |-> f, ap |-> ap], t2[p] # Null,
           \A q \in Pages : q # p /\ q = to[f] => t2[q] = Null,
           \A q \in Pages : q # p /\ q # to[f] => t2[q] = t[q]
    PROVE  Agree(frames, [to EXCEPT ![f] = p], t2)
<1> SUFFICES ASSUME NEW g \in frames, NEW q \in Pages
             PROVE  [to EXCEPT ![f] = p][g] = q <=> t2[q] # Null /\ t2[q].frame = g
  BY DEF Agree
<1>1. /\ to[g] = q <=> t[q] # Null /\ t[q].frame = g
      /\ to[f] = q <=> t[q] # Null /\ t[q].frame = f
  BY DEF Agree
<1>2. CASE g = f
  BY <1>1, <1>2
<1>3. CASE g # f
  <2>1. CASE q = p
    BY <1>1, <1>3, <2>1
  <2>2. CASE q # p
    BY <1>1, <1>3, <2>2
  <2> QED BY <2>1, <2>2
<1> QED BY <1>2, <1>3

LEMMA LoadAgreesElsewhere ==
    ASSUME NEW frames, NEW to, NEW others, NEW from \in [others -> Pages \cup {Null}],
           NEW t, NEW t2, NEW f \in others, f \notin frames, NEW p \in Pages, NEW ap,
           Agree(frames, to, t), Agree(others, from, t), t[p] = Null,
           t2[p] = [frame |-> f, ap |-> ap], t2[p] # Null,
           \A q \in Pages : q # p /\ q = from[f] => t2[q] = Null,
           \A q \in Pages : q # p /\ q # from[f] => t2[q] = t[q]
    PROVE  Agree(frames, to, t2)
<1> SUFFICES ASSUME NEW g \in frames, NEW q \in Pages
             PROVE  to[g] = q <=> t2[q] # Null /\ t2[q].frame = g
  BY DEF Agree
<1>1. /\ to[g] = q <=> t[q] # Null /\ t[q].frame = g
      /\ from[f] = q <=> t[q] # Null /\ t[q].frame = f
  BY DEF Agree
<1>2. CASE q = p
  BY <1>1, <1>2
<1>3. CASE q # p
  BY <1>1, <1>3
<1> QED BY <1>2, <1>3

\* A RAM page is mapped to a VRAM frame only, a ROM page to a VROM frame.
LEMMA FrameOfPage ==
    ASSUME TypeOK, CacheCoherent, NEW p \in Pages, l2[p] # Null
    PROVE  /\ p \in RamPages => l2[p].frame \in RamFrames /\ ramTo[l2[p].frame] = p
           /\ p \in RomPages => l2[p].frame \in RomFrames /\ romTo[l2[p].frame] = p
<1>1. l2[p].frame \in RomFrames \cup RamFrames
  BY DEF TypeOK, Descriptors
<1>2. /\ \A f \in RomFrames : l2[p].frame = f => romTo[f] = p /\ romTo[f] \in RomPages \cup {Null}
      /\ \A f \in RamFrames : l2[p].frame = f => ramTo[f] = p /\ ramTo[f] \in RamPages \cup {Null}
  BY CoherentIsAgree DEF TypeOK, Agree
<1> QED BY <1>1, <1>2, PagerAssumption DEF Pages, MappedPages

-----------------------------------------------------------------------------
(* The guest and the display task *)

\* Everything the paging properties look at, apart from the fault queue.
cacheState == <<mpte, l2, romList, romTo, ramList, ramTo, dirty>>

LEMMA CacheUnchanged ==
    ASSUME PagerInv, UNCHANGED cacheState
    PROVE  /\ CacheCoherent' /\ DirtyIffWritable' /\ ListsInOrder'
           /\ StaleTailIsWritable' /\ SlotsDistinct'
BY DEF PagerInv, cacheState, CacheCoherent, Coherent, DirtyIffWritable,
       ListsInOrder, StaleTailIsWritable, SlotsDistinct

LEMMA IssueKeeps ==
    ASSUME PagerInv,
           NEW code \in CodePages, NEW op \in {"load", "store"}, NEW p \in Pages,
           Issue(code, op, p)
    PROVE  PagerInv'
<1>1. Request(code, op, p) \in Requests
  BY DEF Request, Requests
<1>2. TypeOK'
  BY <1>1 DEF PagerInv, TypeOK, Issue, tables, romVars, ramVars, backing
<1>3. FaultIsCurrent'
  BY DEF PagerInv, FaultIsCurrent, Present, Issue, tables
<1> QED BY <1>2, <1>3, CacheUnchanged
        DEF PagerInv, Issue, cacheState, tables, romVars, ramVars

LEMMA DisplayFlushKeeps ==
    ASSUME PagerInv, NEW p \in FlushPages, DisplayFlush(p)
    PROVE  PagerInv'
<1>1. Request(Null, "load", p) \in Requests
  BY PagerAssumption DEF Request, Requests, Pages
<1>2. TypeOK'
  BY <1>1 DEF PagerInv, TypeOK, DisplayFlush, tables, romVars, ramVars, backing
<1>3. FaultIsCurrent'
  BY DEF PagerInv, FaultIsCurrent, Present, DisplayFlush, tables
<1> QED BY <1>2, <1>3, CacheUnchanged
        DEF PagerInv, DisplayFlush, cacheState, tables, romVars, ramVars

LEMMA CompleteKeeps ==
    ASSUME PagerInv, NEW t \in Tasks, Complete(t)
    PROVE  PagerInv'
<1>1. UNCHANGED cacheState
  BY DEF Complete, cacheState, tables, romVars
<1>2. data' \in [RamFrames -> Vals]
  <2>1. data \in [RamFrames -> Vals]
    BY DEF PagerInv, TypeOK
  <2>2. UNCHANGED data \/ \E v \in Vals : data' = [data EXCEPT ![l2[req[t].page].frame] = v]
    BY DEF Complete
  <2> QED BY <2>1, <2>2
<1>3. TypeOK'
  BY <1>1, <1>2 DEF PagerInv, TypeOK, Complete, cacheState, backing, romVars
<1>4. FaultIsCurrent'
  BY <1>1 DEF PagerInv, FaultIsCurrent, Present, Complete, cacheState
<1> QED BY <1>1, <1>3, <1>4, CacheUnchanged DEF PagerInv

LEMMA RaiseFaultKeeps ==
    ASSUME PagerInv, NEW t \in Tasks, RaiseFault(t)
    PROVE  PagerInv'
<1> DEFINE r == req[t]
           F == Faulting(r)
<1>1. UNCHANGED cacheState
  BY DEF RaiseFault, cacheState, tables, romVars, ramVars
<1>2. /\ r \in Requests /\ r.code \in Pages \cup {Null} /\ r.page \in Pages
  BY PagerAssumption DEF RaiseFault, PagerInv, TypeOK, Requests, Pages
<1>3. \/ F = <<r.code, "PAB">> /\ r.code # Null /\ ~Present(r.code)
      \/ F = <<r.page, "DAB">> /\ ~Present(r.page)
      \/ F = <<r.page, "WR">> /\ Present(r.page) /\ l2[r.page].ap = "RO"
  BY DEF RaiseFault, Faulting
<1>4. /\ F[1] \in Pages /\ F[2] \in {"PAB", "DAB", "WR"}
      /\ F[2] \in {"PAB", "DAB"} => ~Present(F[1])
      /\ F[2] = "WR" => Present(F[1]) /\ l2[F[1]].ap = "RO"
  BY <1>2, <1>3
<1> HIDE DEF F
<1>5. /\ fault' = [task |-> t, page |-> F[1], kind |-> F[2]]
      /\ status' = [status EXCEPT ![t] = "faulted"]
  BY DEF RaiseFault, F
<1>6. fault' \in Faults
  BY <1>4, <1>5 DEF Faults
<1>7. TypeOK'
  BY <1>5, <1>6 DEF PagerInv, TypeOK, RaiseFault, tables, romVars, ramVars, backing
<1>8. FaultIsCurrent'
  <2>1. \A u \in Tasks : status[u] # "faulted"
    BY PagerAssumption DEF RaiseFault, Runs, PagerInv, FaultIsCurrent
  <2>2. \A p : Present(p)' = Present(p)
    BY <1>1 DEF cacheState, Present
  <2>3. \A u \in Tasks : status'[u] = "faulted" => u = t
    BY <1>5, <2>1 DEF PagerInv, TypeOK
  <2> QED BY <1>1, <1>4, <1>5, <1>6, <2>2, <2>3, PagerAssumption DEF FaultIsCurrent, cacheState
<1> QED BY <1>1, <1>7, <1>8, CacheUnchanged DEF PagerInv

LEMMA EnableSwapKeeps ==
    ASSUME PagerInv, NEW on \in BOOLEAN, EnableSwap(on)
    PROVE  PagerInv'
<1>1. TypeOK'
  BY DEF PagerInv, TypeOK, EnableSwap, tables, romVars, ramVars, backing, tasks
<1>2. FaultIsCurrent'
  BY DEF PagerInv, FaultIsCurrent, Present, EnableSwap, tables, tasks
<1> QED BY <1>1, <1>2, CacheUnchanged
        DEF PagerInv, EnableSwap, cacheState, tables, romVars, ramVars

LEMMA DrawPanicScreenKeeps ==
    ASSUME PagerInv, DrawPanicScreen
    PROVE  PagerInv'
<1>1. TypeOK'
  BY DEF PagerInv, TypeOK, DrawPanicScreen, tables, romVars, ramVars, backing
<1>2. FaultIsCurrent'
  BY DEF PagerInv, FaultIsCurrent, Present, DrawPanicScreen, tables
<1> QED BY <1>1, <1>2, CacheUnchanged
        DEF PagerInv, DrawPanicScreen, cacheState, tables, romVars, ramVars

LEMMA StutterKeeps ==
    ASSUME PagerInv, UNCHANGED vars
    PROVE  PagerInv'
<1>1. TypeOK'
  BY DEF PagerInv, TypeOK, vars
<1>2. FaultIsCurrent'
  BY DEF PagerInv, FaultIsCurrent, Present, vars
<1> QED BY <1>1, <1>2, CacheUnchanged DEF PagerInv, vars, cacheState

-----------------------------------------------------------------------------
(* VM Svc *)

\* How a service ends: the queue is empty and no task is left waiting.
LEMMA FaultDone ==
    ASSUME PagerInv, Receive, Resume \/ VM_Unconscious
    PROVE  /\ FaultIsCurrent'
           /\ status' \in [Tasks -> {"ready", "faulted", "lost"}]
           /\ fault' = Null /\ svc' \in {"run", "drawing"} /\ req' = req
<1>1. fault \in Faults /\ fault.task \in Tasks
  BY DEF Receive, PagerInv, TypeOK, Faults
<1>2. fault' = Null /\ req' = req
  BY DEF Resume, VM_Unconscious
<1>3. \E st \in {"ready", "lost"} : status' = [status EXCEPT ![fault.task] = st]
  BY DEF Resume, VM_Unconscious
<1>4. status' \in [Tasks -> {"ready", "faulted", "lost"}]
  BY <1>1, <1>3 DEF PagerInv, TypeOK
<1>5. svc' \in {"run", "drawing"}
  BY DEF Resume, VM_Unconscious, PagerInv, TypeOK
<1>6. ASSUME NEW t \in Tasks PROVE status'[t] # "faulted"
  <2>1. CASE t = fault.task
    BY <1>3, <2>1 DEF PagerInv, TypeOK
  <2>2. CASE t # fault.task
    BY <1>3, <2>2 DEF PagerInv, TypeOK, FaultIsCurrent
  <2> QED BY <2>1, <2>2
<1>7. FaultIsCurrent'
  BY <1>2, <1>6 DEF FaultIsCurrent
<1> QED BY <1>2, <1>4, <1>5, <1>7

LEMMA ReloadSegmentKeeps ==
    ASSUME PagerInv, ReloadSegment
    PROVE  PagerInv'
<1>1. mpte' \in MpteType /\ Distinct(mpte')
  BY ParkKeepsDistinct DEF PagerInv, TypeOK, MpteType, SlotsDistinct, Distinct, ReloadSegment
<1>2. TypeOK' /\ FaultIsCurrent'
  BY <1>1, FaultDone DEF PagerInv, TypeOK, MpteType, ReloadSegment, romVars, ramVars, backing
<1>3. CacheCoherent' /\ DirtyIffWritable' /\ ListsInOrder' /\ StaleTailIsWritable'
  BY DEF PagerInv, CacheCoherent, Coherent, DirtyIffWritable, ListsInOrder,
         StaleTailIsWritable, ReloadSegment, romVars, ramVars
<1> QED BY <1>1, <1>2, <1>3 DEF PagerInv, SlotsDistinct, Distinct

LEMMA CrashKeeps ==
    ASSUME PagerInv, InvalidAddress \/ WriteToRom
    PROVE  PagerInv'
<1>1. /\ Receive /\ VM_Unconscious
      /\ UNCHANGED <<tables, romVars, ramVars, backing, swapOn, touched, obs>>
  BY DEF InvalidAddress, WriteToRom, Serve
<1>2. TypeOK' /\ FaultIsCurrent'
  BY <1>1, FaultDone DEF PagerInv, TypeOK, tables, romVars, ramVars, backing
<1> QED BY <1>1, <1>2, CacheUnchanged DEF PagerInv, cacheState, tables, romVars, ramVars

\* A fault on an unmapped page whose segment is hosted finds no descriptor.
LEMMA FaultedPageUnmapped ==
    ASSUME PagerInv, Serve, fault.kind \in {"PAB", "DAB"}, fault.page \in MappedPages
    PROVE  fault.page \in Pages /\ l2[fault.page] = Null
<1>1. fault.page \in Pages /\ ~Present(fault.page)
  BY DEF Pages, Serve, Receive, PagerInv, FaultIsCurrent
<1>2. SegOf[fault.page] \in Segments
  BY PagerAssumption
<1>3. Hosted(mpte, SegOf[fault.page])
  BY <1>2 DEF Serve, ReloadResult
<1> QED BY <1>1, <1>3 DEF Present

LEMMA LoadRomPageKeeps ==
    ASSUME PagerInv, LoadRomPage
    PROVE  PagerInv'
<1> DEFINE cur == romList.head
           p == fault.page
<1>1. /\ Receive /\ Serve /\ Resume
      /\ romList' = GetPageAndMoveToTail(romList)
      /\ romTo' = [romTo EXCEPT ![cur] = p]
      /\ \E c \in {p, Undef} : romData' = [romData EXCEPT ![cur] = c]
      /\ Remap(romTo[cur], p, cur, "RO")
      /\ UNCHANGED <<ramVars, backing, swapOn, touched>>
  BY DEF LoadRomPage, Serve
<1>2. /\ cur \in RomFrames /\ p \in RomPages /\ p \in Pages /\ l2[p] = Null
      /\ romTo[cur] \in Pages \cup {Null} /\ cur \notin RamFrames
  BY FaultedPageUnmapped, PagerAssumption
     DEF LoadRomPage, PagerInv, TypeOK, ListType, Pages, MappedPages
<1>3. /\ mpte' \in MpteType /\ Distinct(mpte')
      /\ l2' \in [Pages -> Descriptors \cup {Null}]
      /\ l2'[p] = [frame |-> cur, ap |-> "RO"]
      /\ \A q \in Pages : q # p /\ q = romTo[cur] => l2'[q] = Null
      /\ \A q \in Pages : q # p /\ q # romTo[cur] => l2'[q] = l2[q]
  <2>1. /\ mpte \in MpteType /\ Distinct(mpte)
        /\ l2 \in [Pages -> Descriptors \cup {Null}]
    BY DEF PagerInv, TypeOK, MpteType, SlotsDistinct, Distinct
  <2>2. cur \in RomFrames \cup RamFrames /\ "RO" \in {"RO", "RW"}
    BY <1>2
  <2> HIDE DEF cur, p
  <2> QED BY <1>1, <1>2, <2>1, <2>2, RemapTables, ZenonT(40)
<1>4. l2'[p] # Null
  <2>1. [frame |-> cur, ap |-> "RO"] \in Descriptors
    BY <1>2 DEF Descriptors
  <2> QED BY <2>1, <1>3, PagerAssumption
<1>5. romList' \in ListType(RomFrames) /\ Ordered(romList', Len(RomOrder), RomFrames)
  <2>1. /\ romList \in ListType(RomFrames) /\ Ordered(romList, Len(RomOrder), RomFrames)
        /\ Null \notin RomFrames /\ Len(RomOrder) \in Nat /\ Len(RomOrder) > 1
    BY PagerAssumption DEF PagerInv, TypeOK, ListsInOrder
  <2> QED BY <1>1, <2>1, GetPageOrdered
<1>6. TypeOK' /\ FaultIsCurrent'
  <2>1. /\ romTo' \in [RomFrames -> RomPages \cup {Null}]
        /\ romData' \in [RomFrames -> RomPages \cup {Undef}]
    BY <1>1, <1>2 DEF PagerInv, TypeOK
  <2>2. /\ FaultIsCurrent' /\ fault' = Null /\ req' = req /\ svc' \in {"run", "drawing"}
        /\ status' \in [Tasks -> {"ready", "faulted", "lost"}]
    BY <1>1, FaultDone
  <2> QED BY <1>1, <1>3, <1>5, <2>1, <2>2 DEF PagerInv, TypeOK, MpteType, ramVars, backing
<1>7. CacheCoherent'
  <2>1. /\ Agree(RomFrames, romTo, l2) /\ Agree(RamFrames, ramTo, l2)
        /\ romTo \in [RomFrames -> Pages \cup {Null}]
    BY CoherentIsAgree DEF PagerInv, TypeOK, Pages, MappedPages
  <2>2. Agree(RomFrames, romTo', l2')
    <3> HIDE DEF cur, p
    <3>1. Agree(RomFrames, [romTo EXCEPT ![cur] = p], l2')
      BY <1>2, <1>3, <1>4, <2>1, LoadAgrees
    <3> QED BY <3>1, <1>1
  <2>3. Agree(RamFrames, ramTo', l2')
    <3>1. Agree(RamFrames, ramTo, l2')
      BY <1>2, <1>3, <1>4, <2>1, LoadAgreesElsewhere
    <3> QED BY <3>1, <1>1 DEF ramVars
  <2> QED BY <1>6, <2>2, <2>3 DEF TypeOK, CacheCoherent, Coherent, Agree
<1>8. DirtyIffWritable'
  <2> SUFFICES ASSUME NEW q \in RamPages, l2'[q] # Null
               PROVE  dirty'[l2'[q].frame] <=> l2'[q].ap = "RW"
    BY DEF DirtyIffWritable
  <2>1. q # p /\ q \in Pages
    BY <1>2, PagerAssumption DEF Pages, MappedPages
  <2>2. l2'[q] = l2[q]
    BY <1>3, <2>1
  <2> QED BY <1>1, <2>2 DEF PagerInv, DirtyIffWritable, ramVars
<1>9. ListsInOrder' /\ StaleTailIsWritable' /\ SlotsDistinct'
  BY <1>1, <1>3, <1>5
     DEF PagerInv, ListsInOrder, StaleTailIsWritable, SlotsDistinct, Distinct, ramVars
<1> QED BY <1>6, <1>7, <1>8, <1>9 DEF PagerInv

\* Whatever save_cache_page does, the backing store keeps its type.
LEMMA SaveTyped ==
    ASSUME TypeOK, NEW f \in RamFrames, NEW read, NEW written,
           SaveSucceeds(f, read, written) \/ SaveFails(f)
    PROVE  /\ zram' \in [ZramPages -> Vals \cup {Null}]
           /\ swap' \in [SwapPages -> Vals]
           /\ zsize' \in [ZramPages -> 0 .. MaxBlocks] /\ zused' \in Int
<1> DEFINE q == ramTo[f]
<1>1. /\ zram \in [ZramPages -> Vals \cup {Null}] /\ swap \in [SwapPages -> Vals]
      /\ zsize \in [ZramPages -> 0 .. MaxBlocks] /\ zused \in Int
      /\ data[f] \in Vals /\ MaxBlocks \in Nat
  BY PagerAssumption DEF TypeOK
<1>2. CASE UNCHANGED backing
  BY <1>1, <1>2 DEF backing
<1>3. CASE q \in ZramPages /\ SaveToZram(f)
  <2>1. PICK sz \in 1 .. MaxBlocks :
           /\ zram' = [zram EXCEPT ![q] = data[f]]
           /\ zsize' = [zsize EXCEPT ![q] = sz]
           /\ zused' = zused - zsize[q] + sz
           /\ UNCHANGED swap
    BY <1>3 DEF SaveToZram
  <2>2. zsize[q] \in Int /\ sz \in 0 .. MaxBlocks
    BY <1>1, <1>3
  <2>3. zused' \in Int
    BY <1>1, <2>1, <2>2
  <2>4. zsize' \in [ZramPages -> 0 .. MaxBlocks]
    BY <1>1, <2>1, <2>2
  <2>5. zram' \in [ZramPages -> Vals \cup {Null}]
    BY <1>1, <2>1
  <2> QED BY <1>1, <2>1, <2>3, <2>4, <2>5
<1>4. CASE q \in ZramPages /\ ZramOutOfMemory(f)
  BY <1>1, <1>4 DEF ZramOutOfMemory
<1>5. CASE q \in SwapPages /\ SaveToSwap(f, read, written)
  <2>1. PICK buffer \in [SectorPages(q) -> Vals] :
           swap' = [p \in SwapPages |-> IF written /\ p \in SectorPages(q) THEN buffer[p]
                                        ELSE swap[p]]
    BY <1>5 DEF SaveToSwap
  <2>2. swap' \in [SwapPages -> Vals]
    BY <1>1, <2>1
  <2> QED BY <1>1, <1>5, <2>2 DEF SaveToSwap
<1> QED BY <1>2, <1>3, <1>4, <1>5 DEF SaveSucceeds, SaveFails

LEMMA LoadRamPageKeeps ==
    ASSUME PagerInv, LoadRamPage
    PROVE  PagerInv'
<1> DEFINE cur == ramList.head
           p == fault.page
<1>1. /\ Receive /\ Serve /\ Resume
      /\ \E read, written : SaveSucceeds(cur, read, written)
      /\ ramList' = GetPageAndMoveToTail(ramList)
      /\ ramTo' = [ramTo EXCEPT ![cur] = p]
      /\ dirty' = [dirty EXCEPT ![cur] = FALSE]
      /\ \E read : \E v \in Loaded(p, cur, read) : data' = [data EXCEPT ![cur] = v]
      /\ Remap(ramTo[cur], p, cur, "RO")
      /\ touched' \subseteq touched
      /\ UNCHANGED <<romVars, swapOn>>
  <2>1. PICK read \in Outcomes("READ"), loaded \in Outcomes("READ"),
             written \in Outcomes("WRITE") :
           /\ ramList' = GetPageAndMoveToTail(ramList)
           /\ SaveSucceeds(cur, read, written)
           /\ ramTo' = [ramTo EXCEPT ![cur] = p]
           /\ dirty' = [dirty EXCEPT ![cur] = FALSE]
           /\ \E v \in Loaded(p, cur, loaded) : data' = [data EXCEPT ![cur] = v]
           /\ Remap(ramTo[cur], p, cur, "RO")
           /\ touched' = touched \ (SpoiltBySave(cur, read, written)
                                        \cup UnloadedPage(p, loaded))
    BY DEF LoadRamPage
  <2>2. Receive /\ Serve /\ Resume /\ UNCHANGED <<romVars, swapOn>>
    BY DEF LoadRamPage, Serve
  <2> QED BY <2>1, <2>2
<1>2. /\ cur \in RamFrames /\ p \in RamPages /\ p \in Pages /\ l2[p] = Null
      /\ ramTo[cur] \in Pages \cup {Null} /\ cur \notin RomFrames
  BY FaultedPageUnmapped, PagerAssumption
     DEF LoadRamPage, PagerInv, TypeOK, ListType, Pages, MappedPages
<1>3. /\ mpte' \in MpteType /\ Distinct(mpte')
      /\ l2' \in [Pages -> Descriptors \cup {Null}]
      /\ l2'[p] = [frame |-> cur, ap |-> "RO"]
      /\ \A q \in Pages : q # p /\ q = ramTo[cur] => l2'[q] = Null
      /\ \A q \in Pages : q # p /\ q # ramTo[cur] => l2'[q] = l2[q]
  <2>1. /\ mpte \in MpteType /\ Distinct(mpte)
        /\ l2 \in [Pages -> Descriptors \cup {Null}]
    BY DEF PagerInv, TypeOK, MpteType, SlotsDistinct, Distinct
  <2>2. cur \in RomFrames \cup RamFrames /\ "RO" \in {"RO", "RW"}
    BY <1>2
  <2> HIDE DEF cur, p
  <2> QED BY <1>1, <1>2, <2>1, <2>2, RemapTables, ZenonT(40)
<1>4. l2'[p] # Null
  <2>1. [frame |-> cur, ap |-> "RO"] \in Descriptors
    BY <1>2 DEF Descriptors
  <2> QED BY <2>1, <1>3, PagerAssumption
<1>5. /\ ramList' \in ListType(RamFrames) /\ Ordered(ramList', Len(RamOrder), RamFrames)
      /\ ramList'.next[ramList'.tail] = Null
  <2>1. /\ ramList \in ListType(RamFrames) /\ Ordered(ramList, Len(RamOrder), RamFrames)
        /\ Null \notin RamFrames /\ Len(RamOrder) \in Nat /\ Len(RamOrder) > 1
    BY PagerAssumption DEF PagerInv, TypeOK, ListsInOrder
  <2> QED BY <1>1, <2>1, GetPageOrdered
<1>6. TypeOK' /\ FaultIsCurrent'
  <2>1. /\ zram' \in [ZramPages -> Vals \cup {Null}] /\ swap' \in [SwapPages -> Vals]
        /\ zsize' \in [ZramPages -> 0 .. MaxBlocks] /\ zused' \in Int
    BY <1>1, <1>2, SaveTyped DEF PagerInv
  <2>2. \A read : Loaded(p, cur, read) \subseteq Vals
    <3>1. data[cur] \in Vals
      BY <1>2 DEF PagerInv, TypeOK
    <3>2. p \in ZramPages /\ zram'[p] # Null => zram'[p] \in Vals
      BY <2>1
    <3>3. p \in SwapPages => swap'[p] \in Vals
      BY <2>1
    <3> QED BY <3>1, <3>2, <3>3 DEF Loaded
  <2>3. /\ ramTo' \in [RamFrames -> RamPages \cup {Null}]
        /\ dirty' \in [RamFrames -> BOOLEAN] /\ data' \in [RamFrames -> Vals]
    BY <1>1, <1>2, <2>2 DEF PagerInv, TypeOK
  <2>4. /\ FaultIsCurrent' /\ fault' = Null /\ req' = req /\ svc' \in {"run", "drawing"}
        /\ status' \in [Tasks -> {"ready", "faulted", "lost"}]
    BY <1>1, FaultDone
  <2> QED BY <1>1, <1>3, <1>5, <2>1, <2>3, <2>4 DEF PagerInv, TypeOK, MpteType, romVars
<1>7. CacheCoherent'
  <2>1. /\ Agree(RomFrames, romTo, l2) /\ Agree(RamFrames, ramTo, l2)
        /\ ramTo \in [RamFrames -> Pages \cup {Null}]
    BY CoherentIsAgree DEF PagerInv, TypeOK, Pages, MappedPages
  <2>2. Agree(RamFrames, ramTo', l2')
    <3> HIDE DEF cur, p
    <3>1. Agree(RamFrames, [ramTo EXCEPT ![cur] = p], l2')
      BY <1>2, <1>3, <1>4, <2>1, LoadAgrees, ZenonT(40)
    <3> QED BY <3>1, <1>1
  <2>3. Agree(RomFrames, romTo', l2')
    <3>1. Agree(RomFrames, romTo, l2')
      BY <1>2, <1>3, <1>4, <2>1, LoadAgreesElsewhere
    <3> QED BY <3>1, <1>1 DEF romVars
  <2> QED BY <1>6, <2>2, <2>3 DEF TypeOK, CacheCoherent, Coherent, Agree
<1>8. DirtyIffWritable'
  <2> SUFFICES ASSUME NEW q \in RamPages, l2'[q] # Null
               PROVE  dirty'[l2'[q].frame] <=> l2'[q].ap = "RW"
    BY DEF DirtyIffWritable
  <2>1. CASE q = p
    BY <1>1, <1>2, <1>3, <2>1 DEF PagerInv, TypeOK
  <2>2. CASE q # p
    <3>1. q \in Pages
      BY DEF Pages, MappedPages
    <3>2. q # ramTo[cur] /\ l2'[q] = l2[q]
      BY <1>3, <2>2, <3>1
    <3>3. l2[q].frame # cur
      BY <3>1, <3>2, FrameOfPage DEF PagerInv
    <3> QED BY <1>1, <3>2, <3>3 DEF PagerInv, DirtyIffWritable, TypeOK
  <2> QED BY <2>1, <2>2
<1>9. ListsInOrder' /\ StaleTailIsWritable' /\ SlotsDistinct'
  BY <1>1, <1>3, <1>5
     DEF PagerInv, ListsInOrder, StaleTailIsWritable, SlotsDistinct, Distinct, romVars
<1> QED BY <1>6, <1>7, <1>8, <1>9 DEF PagerInv

LEMMA EvictionFailsKeeps ==
    ASSUME PagerInv, EvictionFails
    PROVE  PagerInv'
<1>1. /\ Receive /\ VM_Unconscious /\ SaveFails(ramList.head)
      /\ ramList' = GetPageAndMoveToTail(ramList)
      /\ UNCHANGED <<tables, romVars, ramTo, dirty, data, swapOn, touched, obs>>
  BY DEF EvictionFails, Serve
<1>2. /\ ramList' \in ListType(RamFrames) /\ Ordered(ramList', Len(RamOrder), RamFrames)
      /\ ramList'.next[ramList'.tail] = Null
  <2>1. /\ ramList \in ListType(RamFrames) /\ Ordered(ramList, Len(RamOrder), RamFrames)
        /\ Null \notin RamFrames /\ Len(RamOrder) \in Nat /\ Len(RamOrder) > 1
    BY PagerAssumption DEF PagerInv, TypeOK, ListsInOrder
  <2> QED BY <1>1, <2>1, GetPageOrdered
<1>3. TypeOK' /\ FaultIsCurrent'
  <2>1. ramList.head \in RamFrames
    BY DEF PagerInv, TypeOK, ListType
  <2>2. /\ zram' \in [ZramPages -> Vals \cup {Null}] /\ swap' \in [SwapPages -> Vals]
        /\ zsize' \in [ZramPages -> 0 .. MaxBlocks] /\ zused' \in Int
    BY <1>1, <2>1, SaveTyped DEF PagerInv
  <2> QED BY <1>1, <1>2, <2>2, FaultDone DEF PagerInv, TypeOK, tables, romVars
<1>4. CacheCoherent' /\ DirtyIffWritable' /\ SlotsDistinct'
  BY <1>1 DEF PagerInv, CacheCoherent, Coherent, DirtyIffWritable, SlotsDistinct, tables, romVars
<1>5. ListsInOrder' /\ StaleTailIsWritable'
  BY <1>1, <1>2 DEF PagerInv, ListsInOrder, StaleTailIsWritable, romVars
<1> QED BY <1>3, <1>4, <1>5 DEF PagerInv

LEMMA GrantWriteKeeps ==
    ASSUME PagerInv, GrantWrite
    PROVE  PagerInv'
<1> DEFINE p == fault.page
           f == SearchByVaddr(ramList, RamFrames, ramTo, p)
<1>1. /\ Receive /\ p \in RamPages /\ p \in Pages /\ fault.kind = "WR"
      /\ UNCHANGED <<romVars, ramTo, data, backing, swapOn, obs>>
  BY DEF GrantWrite, Serve, Pages, MappedPages
<1>2. l2[p] # Null /\ l2[p].ap = "RO"
  BY <1>1 DEF Receive, PagerInv, FaultIsCurrent, Present
<1>3. f # Null => f \in RamFrames /\ ramTo[f] = p
  BY SearchFindsCached, PagerAssumption
<1> HIDE DEF f, p
<1>4. CASE f = Null
  <2>1. /\ status' = [status EXCEPT ![fault.task] = "lost"]
        /\ fault' = Null /\ UNCHANGED <<req, svc>>
        /\ UNCHANGED <<dirty, ramList, tables, touched>>
    BY <1>4 DEF GrantWrite, f, p
  <2>2. UNCHANGED cacheState
    BY <1>1, <2>1 DEF cacheState, tables, romVars
  <2>3. fault.task \in Tasks /\ fault' = Null /\ req' = req /\ svc' \in {"run", "drawing"}
    BY <1>1, <2>1 DEF Receive, PagerInv, TypeOK, Faults
  <2>4. status' = [status EXCEPT ![fault.task] = "lost"]
    BY <2>1
  <2>5. status' \in [Tasks -> {"ready", "faulted", "lost"}]
    BY <2>3, <2>4 DEF PagerInv, TypeOK
  <2>6. TypeOK'
    BY <1>1, <2>1, <2>2, <2>3, <2>5 DEF PagerInv, TypeOK, cacheState, backing, romVars
  <2>7. FaultIsCurrent'
    BY <2>3, <2>4 DEF PagerInv, TypeOK, FaultIsCurrent
  <2> QED BY <2>2, <2>6, <2>7, CacheUnchanged DEF PagerInv
<1>5. CASE f # Null
  <2>1. /\ dirty' = [dirty EXCEPT ![f] = TRUE]
        /\ ramList' = MoveToTail(ramList, f)
        /\ Remap(p, p, f, "RW")
        /\ touched' = touched \cup {p}
        /\ Resume
    BY <1>5 DEF GrantWrite, f, p
  <2>2. f \in RamFrames /\ ramTo[f] = p /\ l2[p].frame = f
    BY <1>1, <1>3, <1>5, CoherentIsAgree DEF PagerInv, Agree
  <2>3. ~dirty[f]
    BY <1>1, <1>2, <2>2 DEF PagerInv, DirtyIffWritable
  <2>4. f = ramList.tail => ramList.next[f] = Null
    BY <2>3 DEF PagerInv, StaleTailIsWritable
  <2>5. /\ ramList' \in ListType(RamFrames) /\ Ordered(ramList', Len(RamOrder), RamFrames)
        /\ ramList'.tail = f
    <3>1. /\ ramList \in ListType(RamFrames) /\ Ordered(ramList, Len(RamOrder), RamFrames)
          /\ Null \notin RamFrames /\ Len(RamOrder) \in Nat /\ Len(RamOrder) > 1
      BY PagerAssumption DEF PagerInv, TypeOK, ListsInOrder
    <3> QED BY <2>1, <2>2, <2>4, <3>1, MoveToTailOrdered
  <2>6. /\ mpte' \in MpteType /\ Distinct(mpte')
        /\ l2' \in [Pages -> Descriptors \cup {Null}]
        /\ l2'[p] = [frame |-> f, ap |-> "RW"]
        /\ \A q \in Pages : q # p => l2'[q] = l2[q]
    <3>1. /\ mpte \in MpteType /\ Distinct(mpte)
          /\ l2 \in [Pages -> Descriptors \cup {Null}]
      BY DEF PagerInv, TypeOK, MpteType, SlotsDistinct, Distinct
    <3>2. f \in RomFrames \cup RamFrames /\ "RW" \in {"RO", "RW"} /\ p \in Pages \cup {Null}
      BY <1>1, <2>2
    <3> QED BY <1>1, <2>1, <3>1, <3>2, RemapTables
  <2>7. l2'[p] # Null
    <3>1. [frame |-> f, ap |-> "RW"] \in Descriptors
      BY <2>2 DEF Descriptors
    <3> QED BY <3>1, <2>6, PagerAssumption
  <2>8. TypeOK' /\ FaultIsCurrent'
    <3>1. dirty' \in [RamFrames -> BOOLEAN] /\ touched' \subseteq RamPages
      BY <1>1, <2>1 DEF PagerInv, TypeOK
    <3>2. /\ FaultIsCurrent' /\ fault' = Null /\ req' = req /\ svc' \in {"run", "drawing"}
          /\ status' \in [Tasks -> {"ready", "faulted", "lost"}]
      BY <1>1, <2>1, FaultDone
    <3> QED BY <1>1, <2>5, <2>6, <3>1, <3>2 DEF PagerInv, TypeOK, MpteType, romVars, backing
  <2>9. CacheCoherent'
    <3>1. Agree(RomFrames, romTo, l2) /\ Agree(RamFrames, ramTo, l2)
      BY CoherentIsAgree DEF PagerInv
    <3>2. \A q \in Pages : /\ l2'[q] # Null <=> l2[q] # Null
                           /\ l2[q] # Null => l2'[q].frame = l2[q].frame
      BY <1>2, <2>2, <2>6, <2>7
    <3>3. Agree(RomFrames, romTo', l2') /\ Agree(RamFrames, ramTo', l2')
      BY <1>1, <3>1, <3>2 DEF Agree, romVars
    <3> QED BY <2>8, <3>3 DEF TypeOK, CacheCoherent, Coherent, Agree
  <2>10. DirtyIffWritable'
    <3> SUFFICES ASSUME NEW q \in RamPages, l2'[q] # Null
                 PROVE  dirty'[l2'[q].frame] <=> l2'[q].ap = "RW"
      BY DEF DirtyIffWritable
    <3>1. q \in Pages
      BY DEF Pages, MappedPages
    <3>2. CASE q = p
      BY <2>1, <2>2, <2>6, <3>2 DEF PagerInv, TypeOK
    <3>3. CASE q # p
      <4>1. l2'[q] = l2[q] /\ l2[q] # Null
        BY <2>6, <3>1, <3>3
      <4>2. l2[q].frame # f
        BY <2>2, <3>1, <3>3, <4>1, FrameOfPage DEF PagerInv
      <4> QED BY <2>1, <4>1, <4>2 DEF PagerInv, DirtyIffWritable, TypeOK
    <3> QED BY <3>2, <3>3
  <2>11. ListsInOrder' /\ StaleTailIsWritable' /\ SlotsDistinct'
    <3>1. dirty'[ramList'.tail]
      BY <2>1, <2>2, <2>5 DEF PagerInv, TypeOK
    <3> QED BY <1>1, <2>5, <2>6, <3>1
            DEF PagerInv, ListsInOrder, StaleTailIsWritable, SlotsDistinct, Distinct, romVars
  <2> QED BY <2>8, <2>9, <2>10, <2>11 DEF PagerInv
<1> QED BY <1>4, <1>5

-----------------------------------------------------------------------------
(* The theorems *)

LEMMA PagerStep == PagerInv /\ [Next]_vars => PagerInv'
<1> SUFFICES ASSUME PagerInv, [Next]_vars PROVE PagerInv'
  OBVIOUS
<1>1. ASSUME NEW code \in CodePages, NEW op \in {"load", "store"}, NEW p \in Pages,
             Issue(code, op, p)
      PROVE  PagerInv'
  BY <1>1, IssueKeeps
<1>3. ASSUME NEW p \in FlushPages, DisplayFlush(p) PROVE PagerInv'
  BY <1>3, DisplayFlushKeeps
<1>4. ASSUME NEW t \in Tasks, Complete(t) \/ RaiseFault(t) PROVE PagerInv'
  BY <1>4, CompleteKeeps, RaiseFaultKeeps
<1>5. ASSUME NEW on \in BOOLEAN, EnableSwap(on) PROVE PagerInv'
  BY <1>5, EnableSwapKeeps
<1>6. CASE ReloadSegment
  BY <1>6, ReloadSegmentKeeps
<1>7. CASE InvalidAddress \/ WriteToRom
  BY <1>7, CrashKeeps
<1>8. CASE LoadRomPage
  BY <1>8, LoadRomPageKeeps
<1>9. CASE LoadRamPage
  BY <1>9, LoadRamPageKeeps
<1>10. CASE EvictionFails
  BY <1>10, EvictionFailsKeeps
<1>11. CASE GrantWrite
  BY <1>11, GrantWriteKeeps
<1>12. CASE DrawPanicScreen
  BY <1>12, DrawPanicScreenKeeps
<1>13. CASE Stopped \/ UNCHANGED vars
  BY <1>13, StutterKeeps DEF Stopped
<1> QED BY <1>1, <1>3, <1>4, <1>5, <1>6, <1>7, <1>8, <1>9, <1>10, <1>11,
           <1>12, <1>13 DEF Next

LEMMA PagerInvariant == Spec => []PagerInv
BY PagerInit, PagerStep, PTL DEF Spec

\* Every variable keeps its type, for every size of the machine.
THEOREM TypeCorrect == Spec => []TypeOK
<1>1. PagerInv => TypeOK
  BY DEF PagerInv
<1> QED BY <1>1, PagerInvariant, PTL

(***************************************************************************)
(* The second-level tables and mapToVirtAddr of both caches always agree:  *)
(* no page is cached twice and no frame is visible at two addresses.       *)
(***************************************************************************)
THEOREM CachesCoherent == Spec => []CacheCoherent
<1>1. PagerInv => CacheCoherent
  BY DEF PagerInv
<1> QED BY <1>1, PagerInvariant, PTL

\* No store slips past the dirty flag that save_cache_page looks at.
THEOREM WritableIsDirty == Spec => []DirtyIffWritable
<1>1. PagerInv => DirtyIffWritable
  BY DEF PagerInv
<1> QED BY <1>1, PagerInvariant, PTL

(***************************************************************************)
(* The lists of get_*_page_and_move_to_tail and move_vram_cache_page_to_   *)
(* tail stay well formed, although the latter leaves stale pointers.       *)
(***************************************************************************)
THEOREM ListsStayInOrder == Spec => []ListsInOrder
<1>1. PagerInv => ListsInOrder
  BY DEF PagerInv
<1> QED BY <1>1, PagerInvariant, PTL

\* move_vram_cache_page_to_tail is never called on a tail with a stale next.
THEOREM StaleTailsAreWritable == Spec => []StaleTailIsWritable
<1>1. PagerInv => StaleTailIsWritable
  BY DEF PagerInv
<1> QED BY <1>1, PagerInvariant, PTL

\* The movable entries are never parked twice on one segment.
THEOREM EntriesDistinct == Spec => []SlotsDistinct
<1>1. PagerInv => SlotsDistinct
  BY DEF PagerInv
<1> QED BY <1>1, PagerInvariant, PTL

\* A queued fault is never out of date when VM Svc serves it.
THEOREM FaultsAreCurrent == Spec => []FaultIsCurrent
<1>1. PagerInv => FaultIsCurrent
  BY DEF PagerInv
<1> QED BY <1>1, PagerInvariant, PTL

-----------------------------------------------------------------------------
(* A clean frame can be dropped without loss, and VmPager implements the   *)
(* flat memory of GuestMemory, for every number of pages, frames, segments *)
(* and movable entries, whichever storage calls fail and whenever the      *)
(* guest switches swapping on and off.                                     *)
(*                                                                         *)
(* What is needed beside PagerInv: only pages that have been touched are   *)
(* writable, no ROM page is, a mapped ROM page shows its own content or    *)
(* what a failed read left, and a touched page whose frame may be dropped  *)
(* has been saved somewhere.  A page that was loaded while swapping was    *)
(* off does not break this: it is writable, or untouched.                  *)
RomReadOnly == \A p \in RomPages : l2[p] # Null => l2[p].ap = "RO"

RomHeld == \A p \in RomPages : l2[p] # Null => romData[l2[p].frame] \in {p, Undef}

WritableIsTouched ==
    \A p \in RamPages : l2[p] # Null /\ l2[p].ap = "RW" => p \in touched

Droppable(p) == l2[p] = Null \/ ~dirty[l2[p].frame]

IsSaved(p) == p \in ZramPages => zram[p] # Null

Kept == \A p \in touched : Droppable(p) => IsSaved(p)

MemoryInv == RomReadOnly /\ RomHeld /\ WritableIsTouched /\ Kept /\ CleanIsSaved

\* The display only reads, and the task a fault is queued for waits for it.
TaskInv ==
    /\ req["display"] # Null => req["display"].op = "load"
    /\ fault # Null => status[fault.task] = "faulted"

LEMMA ContentsIs ==
    /\ Contents = [p \in MappedPages |-> Content(p)]
    /\ \A p \in RomPages : Content(p) = RomContent(p)
    /\ \A p \in RamPages : Content(p) = RamContent(p)
<1>1. \A p \in RamPages : p \notin RomPages
  BY PagerAssumption
<1> QED BY <1>1 DEF Contents, Content

LEMMA ContentsAfter ==
    /\ Contents' = [p \in MappedPages |-> Content(p)']
    /\ \A p \in RomPages : Content(p)' = RomContent(p)'
    /\ \A p \in RamPages : Content(p)' = RamContent(p)'
<1>1. \A p \in RamPages : p \notin RomPages
  BY PagerAssumption
<1> QED BY <1>1 DEF Contents, Content

\* Two memories are compared page by page.
LEMMA SameContents ==
    ASSUME \A p \in RomPages : RomContent(p)' = RomContent(p),
           \A p \in RamPages : RamContent(p)' = RamContent(p)
    PROVE  Contents' = Contents
<1>1. \A p \in MappedPages : Content(p)' = Content(p)
  BY ContentsIs, ContentsAfter DEF MappedPages
<1> QED BY <1>1, ContentsIs, ContentsAfter

\* The memory after a step is a memory again.
LEMMA ContentsTyped ==
    ASSUME PagerInv', MemoryInv'
    PROVE  Contents' \in Flat!Memories
<1>1. ASSUME NEW p \in RomPages PROVE Content(p)' \in {p, Undef}
  BY ContentsAfter DEF RomContent, MemoryInv, RomHeld
<1>2. ASSUME NEW p \in RamPages PROVE Content(p)' \in Vals \cup {Undef}
  <2>1. Content(p)' = RamContent(p)'
    BY ContentsAfter
  <2>2. CASE p \notin touched'
    BY <2>1, <2>2 DEF RamContent
  <2>3. CASE p \in touched' /\ l2'[p] # Null
    <3>1. p \in Pages
      BY DEF Pages, MappedPages
    <3>2. l2'[p] \in Descriptors /\ data' \in [RamFrames -> Vals]
      BY <2>3, <3>1 DEF PagerInv, TypeOK
    <3>3. l2'[p].frame \in RamFrames
      <4>1. l2'[p].frame \in RomFrames \cup RamFrames
        BY <3>2 DEF Descriptors
      <4>2. l2'[p].frame \notin RomFrames
        <5> SUFFICES ASSUME l2'[p].frame \in RomFrames PROVE FALSE
          OBVIOUS
        <5>1. romTo'[l2'[p].frame] = p
          BY <2>3, <3>1 DEF PagerInv, TypeOK, CacheCoherent, Coherent
        <5>2. romTo'[l2'[p].frame] \in RomPages \cup {Null}
          BY DEF PagerInv, TypeOK
        <5> QED BY <3>1, <5>1, <5>2, PagerAssumption
      <4> QED BY <4>1, <4>2
    <3>4. Content(p)' = data'[l2'[p].frame]
      BY <2>1, <2>3 DEF RamContent
    <3> QED BY <3>2, <3>3, <3>4
  <2>4. CASE p \in touched' /\ l2'[p] = Null
    <3>1. Content(p)' = Saved(p)'
      BY <2>1, <2>4 DEF RamContent
    <3>2. p \in ZramPages => zram'[p] # Null
      BY <2>4 DEF MemoryInv, Kept, Droppable, IsSaved
    <3>3. zram' \in [ZramPages -> Vals \cup {Null}] /\ swap' \in [SwapPages -> Vals]
      BY DEF PagerInv, TypeOK
    <3> QED BY <3>1, <3>2, <3>3 DEF Saved, RamPages
  <2> QED BY <2>2, <2>3, <2>4
<1>3. \A p \in MappedPages : Content(p)' \in Flat!Holds(p) \cup {Undef}
  BY <1>1, <1>2, PagerAssumption DEF Flat!Holds, MappedPages
<1>4. \A p \in MappedPages : Content(p)' \in RomPages \cup Vals \cup {Undef}
  BY <1>1, <1>2 DEF MappedPages
<1>5. Contents' \in [MappedPages -> RomPages \cup Vals \cup {Undef}]
  BY <1>4, ContentsAfter
<1>6. \A p \in MappedPages : Contents'[p] = Content(p)'
  BY ContentsAfter
<1> QED BY <1>3, <1>5, <1>6 DEF Flat!Memories, Flat!Pages, MappedPages

-----------------------------------------------------------------------------
(* Steps that leave the memory alone *)

flat == <<Contents, Shown, obs>>
memory == <<l2, romData, dirty, data, zram, swap, touched>>

LEMMA MemoryUnchanged ==
    ASSUME MemoryInv, UNCHANGED memory
    PROVE  MemoryInv' /\ Contents' = Contents
<1>1. RomReadOnly' /\ RomHeld' /\ WritableIsTouched'
  BY DEF MemoryInv, memory, RomReadOnly, RomHeld, WritableIsTouched
<1>2. Kept'
  BY DEF MemoryInv, memory, Kept, Droppable, IsSaved
<1>3. CleanIsSaved'
  BY DEF MemoryInv, memory, CleanIsSaved, Saved
<1>4. Contents' = Contents
  BY SameContents DEF memory, RomContent, RamContent, Saved
<1> QED BY <1>1, <1>2, <1>3, <1>4 DEF MemoryInv

LEMMA ObserveNothing ==
    ASSUME Contents' = Contents, Shown' = Shown, obs' = obs \/ obs' = NoAccess
    PROVE  [Flat!Next]_flat
<1>1. CASE obs' = obs
  BY <1>1 DEF flat
<1>2. CASE obs' = NoAccess
  BY <1>2 DEF Flat!Next, Flat!Forget, Flat!NoAccess, Flat!Access, NoAccess, Access
<1> QED BY <1>1, <1>2

LEMMA DisplayGone ==
    ASSUME Contents' = Contents, Shown' \in {Shown, Undef}, obs' = obs
    PROVE  [Flat!Next]_flat
<1>1. CASE Shown' = Shown
  BY <1>1 DEF flat
<1>2. CASE Shown' = Undef
  BY <1>2 DEF Flat!Next, Flat!Hide
<1> QED BY <1>1, <1>2

\* Undefined contents get fixed, and nothing else changes.
LEMMA Settles ==
    ASSUME PagerInv', MemoryInv', Shown' = Shown, obs' = obs,
           \A p \in MappedPages : Content(p)' # Content(p) => Content(p) = Undef
    PROVE  [Flat!Next]_flat
<1>1. Contents' \in Flat!Memories
  BY ContentsTyped
<1>2. \A p \in MappedPages : Contents'[p] # Contents[p] => Contents[p] = Undef
  BY ContentsIs, ContentsAfter
<1>3. Flat!Settle
  BY <1>1, <1>2 DEF Flat!Settle, Flat!Pages, MappedPages
<1> QED BY <1>3 DEF Flat!Next

\* Storage calls fail for the pages in R, and only their neighbourhood suffers.
LEMMA Refuses ==
    ASSUME PagerInv', MemoryInv', Shown' = Shown,
           NEW R \in SUBSET MappedPages, obs' = Refusal(R),
           \A p \in MappedPages :
              Content(p)' # Content(p) =>
                 \/ Content(p) = Undef
                 \/ p \in Flat!Near(R) /\ Content(p)' = Undef
    PROVE  [Flat!Next]_flat
<1>1. Contents' \in Flat!Memories
  BY ContentsTyped
<1>2. \A p \in MappedPages :
         Contents'[p] # Contents[p] =>
            Contents[p] = Undef \/ (p \in Flat!Near(R) /\ Contents'[p] = Undef)
  BY ContentsIs, ContentsAfter
<1>3. obs' = Flat!Access("refused", R, Undef)
  BY DEF Refusal, Access, Flat!Access
<1>4. Flat!Pages = MappedPages
  BY DEF Flat!Pages, MappedPages
<1>5. Flat!Refuse(R)
  BY <1>1, <1>2, <1>3, <1>4 DEF Flat!Refuse
<1>6. R \in SUBSET Flat!Pages
  BY <1>4
<1> QED BY <1>5, <1>6 DEF Flat!Next

-----------------------------------------------------------------------------
(* The tasks *)

LEMMA TaskStep ==
    ASSUME PagerInv, TaskInv, [Next]_vars
    PROVE  TaskInv'
<1> USE DEF TaskInv
<1>1. ASSUME UNCHANGED tasks PROVE TaskInv'
  BY <1>1 DEF tasks
<1>2. ASSUME Resume \/ VM_Unconscious PROVE TaskInv'
  BY <1>2 DEF Resume, VM_Unconscious
<1>3. ASSUME NEW code \in CodePages, NEW op, NEW p \in Pages, Issue(code, op, p)
      PROVE  TaskInv'
  <2>1. req'["display"] = req["display"]
    BY <1>3 DEF Issue, PagerInv, TypeOK, Tasks
  <2> QED BY <1>3, <2>1 DEF Issue
<1>4. ASSUME NEW p \in FlushPages, DisplayFlush(p) PROVE TaskInv'
  <2>1. req'["display"] = Request(Null, "load", p)
    BY <1>4 DEF DisplayFlush, PagerInv, TypeOK, Tasks
  <2> QED BY <1>4, <2>1 DEF DisplayFlush, Request
<1>5. ASSUME NEW t \in Tasks, Complete(t) PROVE TaskInv'
  <2>1. req'["display"] \in {req["display"], Null}
    BY <1>5 DEF Complete, PagerInv, TypeOK, Tasks
  <2> QED BY <1>5, <2>1 DEF Complete
<1>6. ASSUME NEW t \in Tasks, RaiseFault(t) PROVE TaskInv'
  <2>1. fault'.task = t /\ status'[t] = "faulted" /\ req' = req
    BY <1>6 DEF RaiseFault, PagerInv, TypeOK
  <2> QED BY <2>1
<1>7. ASSUME NEW on \in BOOLEAN, EnableSwap(on) PROVE TaskInv'
  BY <1>1, <1>7 DEF EnableSwap
<1>8. CASE ReloadSegment \/ InvalidAddress \/ LoadRomPage \/ LoadRamPage
             \/ EvictionFails \/ WriteToRom
  BY <1>2, <1>8 DEF ReloadSegment, InvalidAddress, LoadRomPage, LoadRamPage,
                    EvictionFails, WriteToRom
<1>9. CASE GrantWrite
  <2>1. fault' = Null /\ req' = req
    BY <1>9 DEF GrantWrite, Resume
  <2> QED BY <2>1
<1>10. CASE DrawPanicScreen
  BY <1>10 DEF DrawPanicScreen
<1>11. CASE Stopped \/ UNCHANGED vars
  BY <1>11 DEF Stopped, vars
<1> QED BY <1>3, <1>4, <1>5, <1>6, <1>7, <1>8, <1>9, <1>10, <1>11 DEF Next

\* A task that VM Svc resumes has been waiting; one that crashes is gone.
LEMMA ShownService ==
    ASSUME PagerInv, TaskInv, Receive
    PROVE  /\ Resume => Shown' = Shown
           /\ VM_Unconscious => Shown' \in {Shown, Undef}
<1>1. /\ status \in [Tasks -> {"ready", "faulted", "lost"}]
      /\ fault # Null /\ status[fault.task] = "faulted"
  BY DEF PagerInv, TypeOK, Receive, TaskInv
<1>2. ASSUME Resume PROVE Shown' = Shown
  <2>1. status'["display"] = "lost" <=> status["display"] = "lost"
    BY <1>1, <1>2 DEF Resume, Tasks
  <2> QED BY <1>2, <2>1 DEF Resume, Shown
<1>3. ASSUME VM_Unconscious PROVE Shown' \in {Shown, Undef}
  <2>1. req' = req /\ (status'["display"] = status["display"] \/ status'["display"] = "lost")
    BY <1>1, <1>3 DEF VM_Unconscious, Tasks
  <2> QED BY <2>1 DEF Shown
<1> QED BY <1>2, <1>3

-----------------------------------------------------------------------------
(* The accesses *)

\* A mapped page is a ROM page or a RAM page.
LEMMA MappedPage ==
    ASSUME PagerInv, NEW p \in Pages, l2[p] # Null
    PROVE  /\ l2[p] \in Descriptors
           /\ \/ p \in RomPages /\ l2[p].frame \in RomFrames /\ romTo[l2[p].frame] = p
              \/ p \in RamPages /\ l2[p].frame \in RamFrames /\ ramTo[l2[p].frame] = p
<1>1. l2[p] \in Descriptors
  BY DEF PagerInv, TypeOK
<1>2. l2[p].frame \in RomFrames \cup RamFrames
  BY <1>1 DEF Descriptors
<1>3. /\ \A f \in RomFrames : l2[p].frame = f => romTo[f] = p /\ romTo[f] \in RomPages \cup {Null}
      /\ \A f \in RamFrames : l2[p].frame = f => ramTo[f] = p /\ ramTo[f] \in RamPages \cup {Null}
  BY CoherentIsAgree DEF PagerInv, TypeOK, Agree
<1> QED BY <1>1, <1>2, <1>3, PagerAssumption

\* The guest runs only when no flush is waiting; a flush that completes is the
\* one that waits.
LEMMA ShownComplete ==
    ASSUME PagerInv, NEW t \in Tasks, Complete(t)
    PROVE  /\ t = "system" => Shown = Undef /\ Shown' = Shown
           /\ t = "display" => Shown = req[t].page /\ Shown' = Undef
<1>1. /\ req' = [req EXCEPT ![t] = Null] /\ UNCHANGED status
      /\ Runs(t) /\ req[t] # Null /\ req \in [Tasks -> Requests \cup {Null}]
      /\ status \in [Tasks -> {"ready", "faulted", "lost"}]
  BY DEF Complete, PagerInv, TypeOK
<1>2. CASE t = "system"
  <2>1. req'["display"] = req["display"]
    BY <1>1, <1>2 DEF Tasks
  <2>2. req["display"] = Null \/ status["display"] = "lost"
    BY <1>1, <1>2 DEF Runs, PagerInv, FaultIsCurrent, Tasks
  <2> QED BY <1>1, <1>2, <2>1, <2>2 DEF Shown
<1>3. CASE t = "display"
  <2>1. req'["display"] = Null
    BY <1>1, <1>3 DEF Tasks
  <2> QED BY <1>1, <1>3, <2>1 DEF Shown, Runs
<1> QED BY <1>2, <1>3 DEF Tasks

LEMMA CompleteStep ==
    ASSUME PagerInv, MemoryInv, TaskInv, NEW t \in Tasks, Complete(t)
    PROVE  MemoryInv' /\ [Flat!Next]_flat
<1> DEFINE r == req[t]
           p == r.page
           f == l2[p].frame
<1>1. r \in Requests /\ p \in Pages /\ r.op \in {"load", "store"}
  BY DEF Complete, PagerInv, TypeOK, Requests
<1>2. /\ Faulting(r) = <<>>
      /\ UNCHANGED <<l2, dirty, zram, swap, swapOn, touched, romTo, romData>>
  BY DEF Complete, tables, backing, romVars
<1>3. Present(p) /\ (r.op = "store" => l2[p].ap # "RO")
  <2>1. \A x, y : <<x, y>> # <<>>
    OBVIOUS
  <2> QED BY <1>2, <2>1 DEF Faulting
<1>4. l2[p] # Null
  BY <1>3 DEF Present
<1>5. /\ l2[p] \in Descriptors
      /\ \/ p \in RomPages /\ f \in RomFrames /\ romTo[f] = p
         \/ p \in RamPages /\ f \in RamFrames /\ ramTo[f] = p
  BY <1>1, <1>4, MappedPage
<1>6. CASE r.op = "load"
  <2>1. /\ UNCHANGED data
        /\ obs' = Access("load", p, IF p \in RomPages THEN romData[f] ELSE data[f])
    BY <1>6 DEF Complete
  <2>2. MemoryInv' /\ Contents' = Contents
    BY <1>2, <2>1, MemoryUnchanged DEF memory
  <2>3. Shown' = Shown \/ (Shown = p /\ Shown' = Undef)
    BY ShownComplete DEF Tasks
  <2>4. ASSUME NEW v \in Flat!Holds(p) \cup {Undef}, Contents[p] \in {Undef, v},
               obs' = Access("load", p, v), p \in MappedPages
        PROVE  [Flat!Next]_flat
    <3>1. obs' = Flat!Access("load", p, v)
      BY <2>4 DEF Access, Flat!Access
    <3>2. Flat!Load(p)
      BY <2>2, <2>3, <2>4, <3>1 DEF Flat!Load
    <3> QED BY <2>4, <3>2 DEF Flat!Next, Flat!Pages, MappedPages
  <2>5. CASE p \in RomPages
    <3>1. obs' = Access("load", p, romData[f]) /\ p \in MappedPages
      BY <2>1, <2>5 DEF MappedPages
    <3>2. romData[f] \in {p, Undef}
      BY <1>4, <2>5 DEF MemoryInv, RomHeld
    <3>3. Contents[p] = romData[f]
      BY <1>4, <2>5, <3>1, ContentsIs DEF RomContent
    <3>4. romData[f] \in Flat!Holds(p) \cup {Undef}
      BY <2>5, <3>2 DEF Flat!Holds
    <3> QED BY <2>2, <2>4, <3>1, <3>3, <3>4
  <2>6. CASE p \in RamPages
    <3>1. f \in RamFrames /\ p \notin RomPages /\ p \in MappedPages
      BY <1>5, <2>6, PagerAssumption DEF MappedPages
    <3>2. data[f] \in Vals
      BY <3>1 DEF PagerInv, TypeOK
    <3>3. obs' = Access("load", p, data[f])
      BY <2>1, <3>1
    <3>4. Contents[p] \in {Undef, data[f]}
      BY <1>4, <2>6, <3>1, ContentsIs DEF RamContent
    <3>5. data[f] \in Flat!Holds(p) \cup {Undef}
      BY <3>1, <3>2 DEF Flat!Holds
    <3> QED BY <2>2, <2>4, <3>1, <3>3, <3>4, <3>5
  <2> QED BY <1>5, <2>5, <2>6
<1>7. CASE r.op = "store"
  <2>1. PICK v \in Vals : data' = [data EXCEPT ![f] = v] /\ obs' = Access("store", p, v)
    BY <1>7 DEF Complete
  <2>2. l2[p].ap = "RW"
    BY <1>3, <1>5, <1>7 DEF Descriptors
  <2>3. p \in RamPages /\ f \in RamFrames
    BY <1>4, <1>5, <2>2 DEF MemoryInv, RomReadOnly
  <2>4. p \in touched /\ dirty[f]
    BY <1>4, <2>2, <2>3 DEF MemoryInv, WritableIsTouched, PagerInv, DirtyIffWritable
  <2>5. ASSUME NEW q \in RamPages, q # p, l2[q] # Null
        PROVE  l2[q].frame # f /\ data'[l2[q].frame] = data[l2[q].frame]
    <3>1. q \in Pages
      BY DEF Pages, MappedPages
    <3>2. l2[q].frame \in RamFrames /\ ramTo[l2[q].frame] = q
      BY <2>5, <3>1, FrameOfPage DEF PagerInv
    <3>3. ramTo[f] = p
      BY <1>5, <2>3, PagerAssumption
    <3> QED BY <2>1, <2>5, <3>2, <3>3 DEF PagerInv, TypeOK
  <2>6. data'[f] = v
    BY <2>1, <2>3 DEF PagerInv, TypeOK
  <2>7. t = "system"
    BY <1>7 DEF TaskInv, Complete, Tasks
  <2>8. Shown = Undef /\ Shown' = Shown
    BY <2>7, ShownComplete
  <2> HIDE DEF r, p, f
  <2>9. ASSUME NEW q \in RamPages
        PROVE  RamContent(q)' = IF q = p THEN v ELSE RamContent(q)
    <3>1. CASE q = p
      BY <1>2, <1>4, <2>4, <2>6, <3>1 DEF RamContent, f
    <3>2. CASE q # p
      BY <1>2, <2>5, <3>2 DEF RamContent, Saved
    <3> QED BY <3>1, <3>2
  <2>10. ASSUME NEW q \in RomPages PROVE RomContent(q)' = RomContent(q) /\ q # p
    BY <1>2, <2>3, PagerAssumption DEF RomContent
  <2>11. \A q \in MappedPages : Content(q)' = IF q = p THEN v ELSE Content(q)
    BY <2>9, <2>10, ContentsIs, ContentsAfter DEF MappedPages
  <2>12. Contents' = [Contents EXCEPT ![p] = v]
    BY <2>11, ContentsIs, ContentsAfter
  <2>13. RomReadOnly' /\ RomHeld' /\ WritableIsTouched' /\ Kept'
    BY <1>2 DEF MemoryInv, RomReadOnly, RomHeld, WritableIsTouched, Kept, Droppable, IsSaved
  <2>14. CleanIsSaved'
    <3> SUFFICES ASSUME NEW q \in touched, l2[q] # Null, ~dirty[l2[q].frame]
                 PROVE  data'[l2[q].frame] = Saved(q)'
      BY <1>2 DEF CleanIsSaved
    <3>1. q # p
      BY <2>4 DEF f
    <3>2. q \in RamPages
      BY DEF PagerInv, TypeOK
    <3>3. data[l2[q].frame] = Saved(q)
      BY DEF MemoryInv, CleanIsSaved
    <3>4. Saved(q)' = Saved(q)
      BY <1>2 DEF Saved
    <3> QED BY <2>5, <3>1, <3>2, <3>3, <3>4
  <2>15. Flat!Store(p, v)
    <3>1. p # Undef
      BY <2>3, PagerAssumption DEF MappedPages
    <3> QED BY <2>1, <2>8, <2>12, <3>1 DEF Flat!Store, Access, Flat!Access
  <2> QED BY <2>3, <2>13, <2>14, <2>15 DEF MemoryInv, Flat!Next
<1> QED BY <1>1, <1>6, <1>7

-----------------------------------------------------------------------------
(* The services of VM Svc *)

\* Loading a ROM page changes descriptors of ROM pages only.  The page that
\* leaves its frame is whole again; the one that is loaded is, if the read
\* succeeds.
LEMMA LoadRomPageStep ==
    ASSUME PagerInv, MemoryInv, TaskInv, LoadRomPage, PagerInv'
    PROVE  MemoryInv' /\ [Flat!Next]_flat
<1>1. /\ romList.head \in RomFrames /\ fault.page \in RomPages /\ fault.page \in Pages
      /\ l2[fault.page] = Null /\ romTo[romList.head] \in RomPages \cup {Null}
  BY FaultedPageUnmapped
     DEF LoadRomPage, PagerInv, TypeOK, ListType, Pages, MappedPages
<1>2. PICK p \in RomPages, cur \in RomFrames, q \in RomPages \cup {Null} :
         /\ p = fault.page /\ cur = romList.head /\ q = romTo[cur]
         /\ p \in Pages /\ l2[p] = Null
  BY <1>1
<1>3. PICK read \in Outcomes("ROM") :
         /\ romData' = [romData EXCEPT ![cur] = IF read THEN p ELSE Undef]
         /\ NoteRefusal(IF read THEN {} ELSE {p})
  BY <1>2 DEF LoadRomPage
<1>4. /\ Remap(q, p, cur, "RO") /\ Resume /\ Receive
      /\ UNCHANGED <<dirty, data, zram, swap, touched>>
  BY <1>2 DEF LoadRomPage, ramVars, backing, Serve
<1>5. /\ l2'[p] = [frame |-> cur, ap |-> "RO"]
      /\ \A x \in Pages : x # p /\ x = q => l2'[x] = Null
      /\ \A x \in Pages : x # p /\ x # q => l2'[x] = l2[x]
  <2>1. /\ mpte \in MpteType /\ Distinct(mpte)
        /\ l2 \in [Pages -> Descriptors \cup {Null}]
    BY DEF PagerInv, TypeOK, MpteType, SlotsDistinct, Distinct
  <2>2. /\ cur \in RomFrames \cup RamFrames /\ "RO" \in {"RO", "RW"}
        /\ q \in Pages \cup {Null} /\ p \in Pages
    BY <1>2 DEF Pages, MappedPages
  <2> QED BY <1>4, <2>1, <2>2, RemapTables
<1>6. l2'[p] # Null /\ l2'[p].frame = cur /\ l2'[p].ap = "RO"
  <2>1. [frame |-> cur, ap |-> "RO"] \in Descriptors
    BY <1>2 DEF Descriptors
  <2> QED BY <1>5, <2>1, PagerAssumption
<1>7. romData'[cur] = IF read THEN p ELSE Undef
  BY <1>2, <1>3 DEF PagerInv, TypeOK
<1>8. ASSUME NEW x \in RamPages PROVE l2'[x] = l2[x]
  <2>1. x \in Pages /\ x # p /\ x # q
    BY <1>2, PagerAssumption DEF Pages, MappedPages
  <2> QED BY <1>5, <2>1
\* A ROM page in another frame stays there.
<1>9. ASSUME NEW x \in RomPages, x # p, x # q
      PROVE  /\ l2'[x] = l2[x]
             /\ l2[x] # Null => romData'[l2[x].frame] = romData[l2[x].frame]
  <2>1. x \in Pages
    BY DEF Pages, MappedPages
  <2>2. l2'[x] = l2[x]
    BY <1>5, <1>9, <2>1
  <2>3. l2[x] # Null => l2[x].frame \in RomFrames /\ l2[x].frame # cur
    BY <1>2, <1>9, <2>1, MappedPage, PagerAssumption
  <2> QED BY <1>3, <2>2, <2>3 DEF PagerInv, TypeOK
<1>10. RomReadOnly' /\ RomHeld'
  <2> SUFFICES ASSUME NEW x \in RomPages, l2'[x] # Null
               PROVE  l2'[x].ap = "RO" /\ romData'[l2'[x].frame] \in {x, Undef}
    BY DEF RomReadOnly, RomHeld
  <2>1. CASE x = p
    BY <1>6, <1>7, <2>1
  <2>2. CASE x # p /\ x = q
    <3>1. x \in Pages
      BY DEF Pages, MappedPages
    <3> QED BY <1>5, <2>2, <3>1
  <2>3. CASE x # p /\ x # q
    BY <1>9, <2>3 DEF MemoryInv, RomReadOnly, RomHeld
  <2> QED BY <2>1, <2>2, <2>3
<1>11. touched \subseteq RamPages
  BY DEF PagerInv, TypeOK
<1>12. WritableIsTouched'
  BY <1>4, <1>8 DEF MemoryInv, WritableIsTouched
<1>13. Kept' /\ CleanIsSaved'
  BY <1>4, <1>8, <1>11 DEF MemoryInv, Kept, Droppable, IsSaved, CleanIsSaved, Saved
<1>14. MemoryInv'
  BY <1>10, <1>12, <1>13 DEF MemoryInv
<1>15. Shown' = Shown
  BY <1>4, ShownService
<1>16. ASSUME NEW x \in MappedPages, Content(x)' # Content(x)
       PROVE  Content(x) = Undef \/ (x = p /\ ~read /\ Content(x)' = Undef)
  <2>1. x \notin RamPages
    BY <1>4, <1>8, <1>16, ContentsIs, ContentsAfter DEF RamContent, Saved
  <2>2. x \in RomPages /\ Content(x) = RomContent(x) /\ Content(x)' = RomContent(x)'
    BY <2>1, ContentsIs, ContentsAfter DEF MappedPages
  <2>3. x = p \/ x = q
    BY <1>9, <1>16, <2>2 DEF RomContent
  <2>4. CASE x = p
    <3>1. Content(x) = p
      BY <1>2, <2>2, <2>4 DEF RomContent
    <3>2. Content(x)' = IF read THEN p ELSE Undef
      BY <1>6, <1>7, <2>2, <2>4 DEF RomContent
    <3> QED BY <1>16, <2>4, <3>1, <3>2
  <2>5. CASE x # p /\ x = q
    <3>1. l2'[x] = Null
      BY <1>5, <2>2, <2>5 DEF Pages, MappedPages
    <3>2. Content(x)' = x
      BY <2>2, <3>1 DEF RomContent
    <3>3. Content(x) \in {x, Undef}
      BY <2>2 DEF RomContent, MemoryInv, RomHeld
    <3> QED BY <1>16, <3>2, <3>3
  <2> QED BY <2>3, <2>4, <2>5
<1>17. CASE read
  <2>1. obs' = obs
    BY <1>3, <1>17 DEF NoteRefusal
  <2> QED BY <1>14, <1>15, <1>16, <1>17, <2>1, Settles
<1>18. CASE ~read
  <2>1. obs' = Refusal({p}) /\ {p} \in SUBSET MappedPages
    BY <1>3, <1>18 DEF NoteRefusal, MappedPages
  <2>2. p \in Flat!Near({p})
    BY DEF Flat!Near
  <2>3. \A x \in MappedPages :
           Content(x)' # Content(x) =>
              Content(x) = Undef \/ (x \in Flat!Near({p}) /\ Content(x)' = Undef)
    BY <1>16, <2>2
  <2> QED BY <1>14, <1>15, <2>1, <2>3, Refuses
<1> QED BY <1>17, <1>18

(***************************************************************************)
(* What save_cache_page does to the other pages.  A page whose frame can   *)
(* be dropped keeps what was saved for it unless the ghost says otherwise. *)
(***************************************************************************)
LEMMA SaveKeepsOthers ==
    ASSUME PagerInv, NEW f \in RamFrames, NEW read, NEW written,
           SaveSucceeds(f, read, written), NEW x \in RamPages, x # ramTo[f]
    PROVE  /\ x \in ZramPages => zram'[x] = zram[x]
           /\ Droppable(x) /\ x \notin SpoiltBySave(f, read, written)
                 => Saved(x)' = Saved(x)
<1> DEFINE q == ramTo[f]
<1>1. zram \in [ZramPages -> Vals \cup {Null}] /\ swap \in [SwapPages -> Vals]
  BY DEF PagerInv, TypeOK
<1>2. CASE UNCHANGED backing
  BY <1>2 DEF backing, Saved
<1>3. CASE SaveToZram(f)
  <2>1. (\E v : zram' = [zram EXCEPT ![q] = v]) /\ UNCHANGED swap
    BY <1>3 DEF SaveToZram
  <2> QED BY <1>1, <2>1 DEF Saved
<1>4. CASE dirty[f] /\ q \in SwapPages /\ SaveToSwap(f, read, written)
  <2>1. UNCHANGED zram
    BY <1>4 DEF SaveToSwap
  <2>2. PICK buffer \in [SectorPages(q) -> Vals] :
           /\ read => \A p \in SectorPages(q) \ {q} : buffer[p] = swap[p]
           /\ swap' = [p \in SwapPages |->
                          IF written /\ p \in SectorPages(q) THEN buffer[p] ELSE swap[p]]
    BY <1>4 DEF SaveToSwap
  <2>3. ASSUME x \in SwapPages, Droppable(x), x \notin SpoiltBySave(f, read, written)
        PROVE  swap'[x] = swap[x]
    <3>1. CASE written /\ x \in SectorPages(q)
      <4>1. read
        BY <1>4, <2>3, <3>1 DEF SpoiltBySave, ToSwap, Droppable
      <4> QED BY <2>2, <2>3, <3>1, <4>1
    <3>2. CASE ~(written /\ x \in SectorPages(q))
      BY <2>2, <2>3, <3>2
    <3> QED BY <3>1, <3>2
  <2>4. x \notin ZramPages => x \in SwapPages
    BY DEF RamPages
  <2> QED BY <2>1, <2>3, <2>4 DEF Saved
<1> QED BY <1>2, <1>3, <1>4 DEF SaveSucceeds

\* A save that fails spoils nothing: the blocks of its page are lost to it alone.
LEMMA FailKeepsOthers ==
    ASSUME PagerInv, NEW f \in RamFrames, SaveFails(f), NEW x \in RamPages, x # ramTo[f]
    PROVE  Saved(x)' = Saved(x) /\ (x \in ZramPages => zram'[x] = zram[x])
<1>1. zram \in [ZramPages -> Vals \cup {Null}]
  BY DEF PagerInv, TypeOK
<1>2. CASE UNCHANGED backing
  BY <1>2 DEF backing, Saved
<1>3. CASE ZramOutOfMemory(f)
  <2>1. zram' = [zram EXCEPT ![ramTo[f]] = Null] /\ UNCHANGED swap
    BY <1>3 DEF ZramOutOfMemory
  <2> QED BY <1>1, <2>1 DEF Saved
<1> QED BY <1>2, <1>3 DEF SaveFails

LEMMA VictimIsSaved ==
    ASSUME PagerInv, MemoryInv, NEW f \in RamFrames, NEW read, NEW written,
           SaveSucceeds(f, read, written),
           NEW q \in touched, q = ramTo[f], q \notin SpoiltBySave(f, read, written)
    PROVE  Saved(q)' = data[f] /\ IsSaved(q)'
<1>1. q \in RamPages /\ q \in Pages /\ data[f] \in Vals
  BY DEF PagerInv, TypeOK, Pages, MappedPages
<1>2. l2[q] # Null /\ l2[q].frame = f
  BY <1>1, CoherentIsAgree DEF PagerInv, Agree
<1>3. CASE ~dirty[f] /\ UNCHANGED backing
  <2>1. data[f] = Saved(q) /\ IsSaved(q)
    BY <1>2, <1>3 DEF MemoryInv, CleanIsSaved, Kept, Droppable
  <2> QED BY <1>3, <2>1 DEF backing, Saved, IsSaved
<1>4. CASE q \in ZramPages /\ SaveToZram(f)
  <2>1. zram' = [zram EXCEPT ![q] = data[f]]
    BY <1>4 DEF SaveToZram
  <2>2. zram'[q] = data[f] /\ zram'[q] # Null
    BY <1>1, <1>4, <2>1, PagerAssumption DEF PagerInv, TypeOK
  <2> QED BY <1>4, <2>2 DEF Saved, IsSaved
<1>5. CASE dirty[f] /\ q \in SwapPages /\ SaveToSwap(f, read, written)
  <2>1. q \in SectorPages(q)
    BY <1>5 DEF SectorPages
  <2>2. written
    BY <1>5, <2>1 DEF SpoiltBySave, ToSwap
  <2>3. PICK buffer \in [SectorPages(q) -> Vals] :
           /\ buffer[q] = data[f]
           /\ swap' = [p \in SwapPages |->
                          IF written /\ p \in SectorPages(q) THEN buffer[p] ELSE swap[p]]
    BY <1>5 DEF SaveToSwap
  <2>4. swap'[q] = data[f]
    BY <1>5, <2>1, <2>2, <2>3
  <2>5. q \notin ZramPages
    BY <1>5, PagerAssumption
  <2> QED BY <2>4, <2>5 DEF Saved, IsSaved
<1> QED BY <1>3, <1>4, <1>5 DEF SaveSucceeds

\* The pages a service spoils are near those its calls have failed for.
LEMMA SpoiltIsNear ==
    ASSUME NEW f \in RamFrames, ramTo[f] \in RamPages \cup {Null},
           NEW read, NEW written, NEW x \in SpoiltBySave(f, read, written)
    PROVE  /\ x \in Flat!Near(UnsavedPage(f, read, written))
           /\ UnsavedPage(f, read, written) # {}
<1>1. /\ x \in SwapPages /\ ToSwap(f) /\ SectorOf[x] = SectorOf[ramTo[f]]
      /\ ~(read /\ written)
  BY DEF SpoiltBySave, SectorPages
<1>2. ramTo[f] \in UnsavedPage(f, read, written) \cap SwapPages
  BY <1>1 DEF UnsavedPage, ToSwap
<1> QED BY <1>1, <1>2 DEF Flat!Near


\* The victim leaves with its content saved and the page comes back with what
\* was saved for it, unless a call fails for one of them.
LEMMA LoadRamPageStep ==
    ASSUME PagerInv, MemoryInv, TaskInv, LoadRamPage, PagerInv'
    PROVE  MemoryInv' /\ [Flat!Next]_flat
<1>1. /\ fault.page \in RamPages /\ fault.page \in Pages /\ l2[fault.page] = Null
      /\ ramList.head \in RamFrames /\ ramTo[ramList.head] \in RamPages \cup {Null}
  BY FaultedPageUnmapped
     DEF LoadRamPage, PagerInv, TypeOK, ListType, Pages, MappedPages
<1>2. PICK p \in RamPages, cur \in RamFrames, q \in RamPages \cup {Null} :
         /\ p = fault.page /\ cur = ramList.head /\ q = ramTo[cur]
         /\ p \in Pages /\ l2[p] = Null
  BY <1>1
<1>3. PICK read \in Outcomes("READ"), loaded \in Outcomes("READ"),
           written \in Outcomes("WRITE") :
         /\ SaveSucceeds(cur, read, written) /\ Remap(q, p, cur, "RO")
         /\ dirty' = [dirty EXCEPT ![cur] = FALSE]
         /\ \E v \in Loaded(p, cur, loaded) : data' = [data EXCEPT ![cur] = v]
         /\ touched' = touched \ (SpoiltBySave(cur, read, written)
                                      \cup UnloadedPage(p, loaded))
         /\ NoteRefusal(UnsavedPage(cur, read, written) \cup UnloadedPage(p, loaded))
  BY <1>2 DEF LoadRamPage
<1>4. UNCHANGED romData /\ Resume /\ Receive
  BY DEF LoadRamPage, romVars, Serve
<1> DEFINE spoilt == SpoiltBySave(cur, read, written)
           unsaved == UnsavedPage(cur, read, written)
           unloaded == UnloadedPage(p, loaded)
           refused == unsaved \cup unloaded
<1>5. /\ l2'[p] = [frame |-> cur, ap |-> "RO"]
      /\ \A x \in Pages : x # p /\ x = q => l2'[x] = Null
      /\ \A x \in Pages : x # p /\ x # q => l2'[x] = l2[x]
  <2>1. /\ mpte \in MpteType /\ Distinct(mpte)
        /\ l2 \in [Pages -> Descriptors \cup {Null}]
    BY DEF PagerInv, TypeOK, MpteType, SlotsDistinct, Distinct
  <2>2. /\ cur \in RomFrames \cup RamFrames /\ "RO" \in {"RO", "RW"}
        /\ q \in Pages \cup {Null} /\ p \in Pages
    BY <1>2 DEF Pages, MappedPages
  <2> HIDE DEF spoilt, unsaved, unloaded, refused
  <2> QED BY <1>3, <2>1, <2>2, RemapTables
<1>6. /\ l2'[p] # Null /\ l2'[p].frame = cur /\ l2'[p].ap = "RO" /\ q # p
      /\ ~dirty'[cur] /\ data'[cur] \in Loaded(p, cur, loaded)
  <2>1. [frame |-> cur, ap |-> "RO"] \in Descriptors
    BY <1>2 DEF Descriptors
  <2>2. q = p => l2[p] # Null
    BY <1>2, CoherentIsAgree DEF PagerInv, Agree
  <2>3. ~dirty'[cur] /\ data'[cur] \in Loaded(p, cur, loaded)
    BY <1>2, <1>3 DEF PagerInv, TypeOK
  <2> QED BY <2>1, <2>2, <2>3, <1>2, <1>5, PagerAssumption
\* The other pages keep their frame, or stay where they were saved.
<1>7. ASSUME NEW x \in RamPages, x # p, x # q
      PROVE  /\ l2'[x] = l2[x]
             /\ l2[x] # Null => /\ data'[l2[x].frame] = data[l2[x].frame]
                                /\ dirty'[l2[x].frame] = dirty[l2[x].frame]
  <2>1. x \in Pages
    BY DEF Pages, MappedPages
  <2>2. l2'[x] = l2[x]
    BY <1>5, <1>7, <2>1
  <2>3. l2[x] # Null => l2[x].frame \in RamFrames /\ l2[x].frame # cur
    BY <1>2, <1>7, <2>1, FrameOfPage DEF PagerInv
  <2> QED BY <1>3, <2>2, <2>3 DEF PagerInv, TypeOK
<1>8. ASSUME NEW x \in RamPages, x # q
      PROVE  /\ IsSaved(x)' <=> IsSaved(x)
             /\ Droppable(x) /\ x \notin spoilt => Saved(x)' = Saved(x)
  BY <1>2, <1>3, <1>8, SaveKeepsOthers DEF IsSaved
<1>9. touched \subseteq RamPages /\ touched' = touched \ (spoilt \cup unloaded)
  BY <1>3 DEF PagerInv, TypeOK
<1>10. ASSUME q \in touched
       PROVE  /\ l2[q] # Null /\ l2[q].frame = cur /\ l2'[q] = Null
              /\ q \notin spoilt => Saved(q)' = data[cur] /\ IsSaved(q)'
  <2>1. q \in RamPages /\ q \in Pages
    BY <1>9, <1>10 DEF Pages, MappedPages
  <2>2. l2[q] # Null /\ l2[q].frame = cur
    BY <1>2, <2>1, CoherentIsAgree DEF PagerInv, Agree
  <2>3. l2'[q] = Null
    BY <1>5, <1>6, <2>1
  <2>4. q \notin spoilt => Saved(q)' = data[cur] /\ IsSaved(q)'
    BY <1>2, <1>3, <1>10, VictimIsSaved
  <2> QED BY <2>2, <2>3, <2>4
<1>11. ASSUME p \in touched'
       PROVE  IsSaved(p)' /\ Saved(p)' = Saved(p) /\ data'[cur] = Saved(p)'
  <2>1. p \in touched /\ p \notin spoilt /\ p \notin unloaded
    BY <1>9, <1>11
  <2>2. Droppable(p) /\ IsSaved(p)
    BY <1>2, <2>1 DEF MemoryInv, Kept, Droppable
  <2>3. IsSaved(p)' /\ Saved(p)' = Saved(p)
    BY <1>6, <1>8, <2>1, <2>2
  <2>4. p \in SwapPages => swapOn /\ loaded
    BY <2>1 DEF UnloadedPage
  <2>5. Loaded(p, cur, loaded) = {Saved(p)'}
    BY <1>2, <2>3, <2>4, PagerAssumption DEF Loaded, Saved, IsSaved, RamPages
  <2> QED BY <1>6, <2>3, <2>5
<1> HIDE DEF spoilt, unsaved, unloaded, refused
\* What a failed call spoils is neither mapped writable nor the page's own.
<1>12. ASSUME NEW x \in RamPages, x # q, x # p, l2[x] # Null, l2[x].ap = "RW"
       PROVE  x \in touched'
  <2>1. x \in touched
    BY <1>12 DEF MemoryInv, WritableIsTouched
  <2>2. dirty[l2[x].frame]
    BY <1>12 DEF PagerInv, DirtyIffWritable
  <2>3. x \notin unloaded
    BY <1>12 DEF unloaded, UnloadedPage
  <2>4. x \notin spoilt
    BY <1>2, <1>12, <2>2 DEF spoilt, SpoiltBySave
  <2> QED BY <1>9, <2>1, <2>3, <2>4
<1>13. RomReadOnly' /\ RomHeld'
  <2> SUFFICES ASSUME NEW x \in RomPages PROVE l2'[x] = l2[x]
    BY <1>4 DEF MemoryInv, RomReadOnly, RomHeld
  <2>1. x \in Pages /\ x # p /\ x # q
    BY <1>2, PagerAssumption DEF Pages, MappedPages
  <2> QED BY <1>5, <2>1
<1>14. WritableIsTouched'
  <2> SUFFICES ASSUME NEW x \in RamPages, l2'[x] # Null, l2'[x].ap = "RW"
               PROVE  x \in touched'
    BY DEF WritableIsTouched
  <2>1. x # p
    BY <1>6
  <2>2. x # q
    <3>1. x \in Pages
      BY DEF Pages, MappedPages
    <3> QED BY <1>5, <2>1, <3>1
  <2> QED BY <1>7, <1>12, <2>1, <2>2
<1>15. Kept'
  <2> SUFFICES ASSUME NEW x \in touched', Droppable(x)' PROVE IsSaved(x)'
    BY DEF Kept
  <2>1. x \in touched /\ x \in RamPages /\ x \notin spoilt
    BY <1>9
  <2>2. CASE x = p
    BY <1>11, <2>2
  <2>3. CASE x = q
    BY <1>10, <2>1, <2>3
  <2>4. CASE x # p /\ x # q
    <3>1. Droppable(x)
      BY <1>7, <2>1, <2>4 DEF Droppable
    <3> QED BY <1>8, <2>1, <2>4, <3>1 DEF MemoryInv, Kept
  <2> QED BY <2>2, <2>3, <2>4
<1>16. CleanIsSaved'
  <2> SUFFICES ASSUME NEW x \in touched', l2'[x] # Null, ~dirty'[l2'[x].frame]
               PROVE  data'[l2'[x].frame] = Saved(x)'
    BY DEF CleanIsSaved
  <2>1. x \in touched /\ x \in RamPages /\ x \notin spoilt
    BY <1>9
  <2>2. CASE x = p
    BY <1>6, <1>11, <2>2
  <2>3. CASE x = q
    BY <1>10, <2>1, <2>3
  <2>4. CASE x # p /\ x # q
    <3>1. l2[x] # Null /\ ~dirty[l2[x].frame] /\ data'[l2'[x].frame] = data[l2[x].frame]
      BY <1>7, <2>1, <2>4
    <3>2. Saved(x)' = Saved(x)
      BY <1>8, <2>1, <2>4, <3>1 DEF Droppable
    <3> QED BY <2>1, <3>1, <3>2 DEF MemoryInv, CleanIsSaved
  <2> QED BY <2>2, <2>3, <2>4
<1>17. MemoryInv'
  BY <1>13, <1>14, <1>15, <1>16 DEF MemoryInv
<1>18. Shown' = Shown
  BY <1>4, ShownService
<1>19. ASSUME NEW x \in touched' PROVE RamContent(x)' = RamContent(x)
  <2>1. x \in touched /\ x \in RamPages /\ x \notin spoilt
    BY <1>9
  <2>2. CASE x = p
    BY <1>2, <1>6, <1>11, <2>1, <2>2 DEF RamContent
  <2>3. CASE x = q
    BY <1>10, <2>1, <2>3 DEF RamContent
  <2>4. CASE x # p /\ x # q
    <3>1. l2[x] = Null => Saved(x)' = Saved(x)
      BY <1>8, <2>1, <2>4 DEF Droppable
    <3> QED BY <1>7, <2>1, <2>4, <3>1 DEF RamContent
  <2> QED BY <2>2, <2>3, <2>4
<1>20. ASSUME NEW x \in touched, x \notin touched' PROVE x \in Flat!Near(refused)
  <2>1. CASE x \in unloaded
    BY <2>1 DEF refused, Flat!Near
  <2>2. CASE x \in spoilt
    <3>1. ramTo[cur] \in RamPages \cup {Null}
      BY <1>2
    <3>2. x \in SpoiltBySave(cur, read, written)
      BY <2>2 DEF spoilt
    <3>3. x \in Flat!Near(unsaved)
      BY <3>1, <3>2, SpoiltIsNear DEF unsaved
    <3> QED BY <3>3 DEF refused, Flat!Near
  <2> QED BY <1>9, <1>20, <2>1, <2>2
<1>21. refused = {} => touched' = touched
  <2> SUFFICES ASSUME refused = {}, NEW x \in spoilt PROVE FALSE
    BY <1>9 DEF refused
  <2>1. ramTo[cur] \in RamPages \cup {Null}
    BY <1>2
  <2>2. x \in SpoiltBySave(cur, read, written)
    BY DEF spoilt
  <2>3. unsaved # {}
    BY <2>1, <2>2, SpoiltIsNear DEF unsaved
  <2> QED BY <2>3 DEF refused
<1>22. ASSUME NEW x \in MappedPages, Content(x)' # Content(x)
       PROVE  \/ Content(x) = Undef
              \/ x \in Flat!Near(refused) /\ Content(x)' = Undef
  <2>1. CASE x \in RomPages
    <3>1. x \in Pages /\ x # p /\ x # q
      BY <1>2, <2>1, PagerAssumption DEF Pages, MappedPages
    <3>2. RomContent(x)' = RomContent(x)
      BY <1>4, <1>5, <3>1 DEF RomContent
    <3> QED BY <1>22, <2>1, <3>2, ContentsIs, ContentsAfter
  <2>2. CASE x \in RamPages
    <3>1. Content(x) = RamContent(x) /\ Content(x)' = RamContent(x)'
      BY <2>2, ContentsIs, ContentsAfter
    <3>2. x \notin touched'
      BY <1>19, <1>22, <3>1
    <3>3. x \notin touched => RamContent(x) = Undef
      BY DEF RamContent
    <3>4. RamContent(x)' = Undef
      BY <3>2 DEF RamContent
    <3> QED BY <1>20, <3>1, <3>2, <3>3, <3>4
  <2> QED BY <2>1, <2>2 DEF MappedPages
<1>23. NoteRefusal(refused)
  BY <1>3 DEF refused, unsaved, unloaded
<1>24. CASE refused = {}
  <2>1. obs' = obs
    BY <1>23, <1>24 DEF NoteRefusal
  <2>2. \A x \in MappedPages : Content(x)' # Content(x) => Content(x) = Undef
    BY <1>22, <1>24 DEF Flat!Near
  <2> QED BY <1>17, <1>18, <2>1, <2>2, Settles
<1>25. CASE refused # {}
  <2>1. obs' = Refusal(refused)
    BY <1>23, <1>25 DEF NoteRefusal
  <2>2. refused \in SUBSET MappedPages
    BY DEF refused, unsaved, unloaded, UnsavedPage, UnloadedPage, MappedPages, RamPages
  <2> QED BY <1>17, <1>18, <1>22, <2>1, <2>2, Refuses
<1> QED BY <1>24, <1>25

\* A victim that cannot be saved is dirty, and stays where it is.
LEMMA EvictionFailsStep ==
    ASSUME PagerInv, MemoryInv, TaskInv, EvictionFails
    PROVE  MemoryInv' /\ [Flat!Next]_flat
<1>1. PICK f \in RamFrames, q \in RamPages \cup {Null} :
         f = ramList.head /\ q = ramTo[f]
  BY DEF PagerInv, TypeOK, ListType
<1>2. /\ SaveFails(f) /\ VM_Unconscious /\ Receive
      /\ UNCHANGED <<l2, romData, dirty, data, touched, obs>>
  BY <1>1 DEF EvictionFails, tables, romVars, Serve
<1>3. dirty[f]
  BY <1>2 DEF SaveFails
<1>4. ASSUME NEW x \in RamPages, x # q
      PROVE  Saved(x)' = Saved(x) /\ (IsSaved(x)' <=> IsSaved(x))
  BY <1>1, <1>2, <1>4, FailKeepsOthers DEF IsSaved
<1>5. ASSUME NEW x \in RamPages, x = q
      PROVE  l2[x] # Null /\ dirty[l2[x].frame]
  <2>1. x \in Pages
    BY DEF Pages, MappedPages
  <2>2. l2[x] # Null /\ l2[x].frame = f
    BY <1>1, <1>5, <2>1, CoherentIsAgree DEF PagerInv, Agree
  <2> QED BY <1>3, <2>2
<1>6. touched \subseteq RamPages
  BY DEF PagerInv, TypeOK
<1>7. RomReadOnly' /\ RomHeld' /\ WritableIsTouched'
  BY <1>2 DEF MemoryInv, RomReadOnly, RomHeld, WritableIsTouched
<1>8. Kept'
  BY <1>2, <1>4, <1>5, <1>6 DEF MemoryInv, Kept, Droppable
<1>9. CleanIsSaved'
  BY <1>2, <1>4, <1>5, <1>6 DEF MemoryInv, CleanIsSaved
<1>10. \A x \in RamPages : RamContent(x)' = RamContent(x)
  BY <1>2, <1>4, <1>5 DEF RamContent
<1>11. \A x \in RomPages : RomContent(x)' = RomContent(x)
  BY <1>2 DEF RomContent
<1>12. Contents' = Contents
  BY <1>10, <1>11, SameContents
<1>13. Shown' \in {Shown, Undef}
  BY <1>2, ShownService
<1> QED BY <1>2, <1>7, <1>8, <1>9, <1>12, <1>13, DisplayGone DEF MemoryInv

(***************************************************************************)
(* The first store to a page since it was loaded makes it dirty.  If its   *)
(* content was not defined, it is defined from this moment on.             *)
(***************************************************************************)
LEMMA GrantWriteStep ==
    ASSUME PagerInv, MemoryInv, TaskInv, GrantWrite, PagerInv'
    PROVE  MemoryInv' /\ [Flat!Next]_flat
<1>1. PICK p \in RamPages : p = fault.page /\ p \in Pages
  BY DEF GrantWrite, Pages, MappedPages
<1>2. /\ Receive /\ fault.kind = "WR"
      /\ UNCHANGED <<romVars, ramTo, data, backing, swapOn, obs>>
  BY DEF GrantWrite, Serve
<1>3. l2[p] # Null
  BY <1>1, <1>2 DEF Receive, PagerInv, FaultIsCurrent, Present
<1>4. CASE SearchByVaddr(ramList, RamFrames, ramTo, p) = Null
  <2>1. UNCHANGED memory
    BY <1>1, <1>2, <1>4 DEF GrantWrite, memory, tables, romVars, backing
  <2>2. /\ req' = req /\ status' = [status EXCEPT ![fault.task] = "lost"]
        /\ status \in [Tasks -> {"ready", "faulted", "lost"}]
    BY <1>1, <1>4 DEF GrantWrite, PagerInv, TypeOK
  <2>3. status'["display"] = status["display"] \/ status'["display"] = "lost"
    BY <2>2 DEF Tasks
  <2>4. Shown' \in {Shown, Undef}
    BY <2>2, <2>3 DEF Shown
  <2> QED BY <1>2, <2>1, <2>4, MemoryUnchanged, DisplayGone
<1>5. CASE SearchByVaddr(ramList, RamFrames, ramTo, p) # Null
  <2>1. PICK f : f = SearchByVaddr(ramList, RamFrames, ramTo, p)
    OBVIOUS
  <2>2. f \in RamFrames /\ ramTo[f] = p
    BY <1>5, <2>1, SearchFindsCached, PagerAssumption
  <2>3. l2[p].frame = f
    BY <1>1, <2>2, CoherentIsAgree DEF PagerInv, Agree
  <2>4. /\ dirty' = [dirty EXCEPT ![f] = TRUE] /\ Remap(p, p, f, "RW")
        /\ touched' = touched \cup {p} /\ Resume
    BY <1>1, <1>5, <2>1 DEF GrantWrite
  <2>5. /\ l2'[p] = [frame |-> f, ap |-> "RW"]
        /\ \A x \in Pages : x # p => l2'[x] = l2[x]
    <3>1. /\ mpte \in MpteType /\ Distinct(mpte)
          /\ l2 \in [Pages -> Descriptors \cup {Null}]
      BY DEF PagerInv, TypeOK, MpteType, SlotsDistinct, Distinct
    <3>2. f \in RomFrames \cup RamFrames /\ "RW" \in {"RO", "RW"} /\ p \in Pages \cup {Null}
      BY <1>1, <2>2
    <3> QED BY <1>1, <2>4, <3>1, <3>2, RemapTables, ZenonT(40)
  <2>6. l2'[p] # Null /\ l2'[p].frame = f /\ dirty'[f]
    <3>1. [frame |-> f, ap |-> "RW"] \in Descriptors
      BY <2>2 DEF Descriptors
    <3> QED BY <2>2, <2>4, <2>5, <3>1, PagerAssumption DEF PagerInv, TypeOK
  <2>7. ASSUME NEW x \in RamPages, x # p
        PROVE  /\ l2'[x] = l2[x] /\ (x \in touched' <=> x \in touched)
               /\ l2[x] # Null => dirty'[l2[x].frame] = dirty[l2[x].frame]
    <3>1. x \in Pages
      BY DEF Pages, MappedPages
    <3>2. l2[x] # Null => l2[x].frame \in RamFrames /\ l2[x].frame # f
      BY <2>2, <2>7, <3>1, FrameOfPage DEF PagerInv
    <3> QED BY <2>4, <2>5, <2>7, <3>1, <3>2 DEF PagerInv, TypeOK
  <2>8. UNCHANGED <<romData, data, zram, swap, obs>>
    BY <1>2 DEF backing, romVars
  <2>9. touched' \subseteq RamPages
    BY <2>4 DEF PagerInv, TypeOK
  <2>10. ASSUME NEW x \in RomPages PROVE l2'[x] = l2[x]
    <3>1. x \in Pages /\ x # p
      BY PagerAssumption DEF Pages, MappedPages
    <3> QED BY <2>5, <3>1
  <2>11. RomReadOnly' /\ RomHeld'
    BY <2>8, <2>10 DEF MemoryInv, RomReadOnly, RomHeld
  <2>12. WritableIsTouched'
    BY <2>4, <2>7 DEF MemoryInv, WritableIsTouched
  <2>13. Kept'
    <3> SUFFICES ASSUME NEW x \in touched', Droppable(x)' PROVE IsSaved(x)'
      BY DEF Kept
    <3>1. x # p
      BY <2>6 DEF Droppable
    <3> QED BY <2>7, <2>8, <2>9, <3>1 DEF MemoryInv, Kept, Droppable, IsSaved
  <2>14. CleanIsSaved'
    <3> SUFFICES ASSUME NEW x \in touched', l2'[x] # Null, ~dirty'[l2'[x].frame]
                 PROVE  data'[l2'[x].frame] = Saved(x)'
      BY DEF CleanIsSaved
    <3>1. x # p
      BY <2>6
    <3> QED BY <2>7, <2>8, <2>9, <3>1 DEF MemoryInv, CleanIsSaved, Saved
  <2>15. MemoryInv'
    BY <2>11, <2>12, <2>13, <2>14 DEF MemoryInv
  <2>16. ASSUME NEW x \in MappedPages, Content(x)' # Content(x)
         PROVE  Content(x) = Undef
    <3>1. x \in RamPages
      BY <2>8, <2>10, <2>16, ContentsIs, ContentsAfter DEF RomContent, MappedPages
    <3>2. RamContent(x)' # RamContent(x)
      BY <2>16, <3>1, ContentsIs, ContentsAfter
    <3>3. x = p
      BY <2>7, <2>8, <3>1, <3>2 DEF RamContent, Saved
    <3>4. x \notin touched
      BY <1>3, <2>3, <2>4, <2>6, <2>8, <3>2, <3>3 DEF RamContent
    <3> QED BY <3>1, <3>4, ContentsIs DEF RamContent
  <2>17. Shown' = Shown
    BY <1>2, <2>4, ShownService
  <2> QED BY <2>8, <2>15, <2>16, <2>17, Settles
<1> QED BY <1>4, <1>5

-----------------------------------------------------------------------------
(* The theorems *)

LEMMA MemoryInit == Init => MemoryInv /\ TaskInv /\ Flat!Init
<1> SUFFICES ASSUME Init PROVE MemoryInv /\ TaskInv /\ Flat!Init
  OBVIOUS
<1>1. /\ \A p \in Pages : l2[p] = Null
      /\ touched = {} /\ obs = NoAccess
      /\ fault = Null /\ req["display"] = Null
  BY DEF Init, Tasks
<1>2. MemoryInv /\ TaskInv
  BY <1>1 DEF MemoryInv, TaskInv, RomReadOnly, RomHeld, WritableIsTouched, Kept,
              CleanIsSaved, Pages, MappedPages
<1>3. \A p \in MappedPages : Content(p) = IF p \in RomPages THEN p ELSE Undef
  BY <1>1 DEF Content, RomContent, RamContent, Pages, MappedPages
<1>4. Contents = [p \in MappedPages |-> IF p \in RomPages THEN p ELSE Undef]
  BY <1>3, ContentsIs
<1>5. Shown = Undef
  BY <1>1 DEF Shown
<1>6. obs = Flat!NoAccess
  BY <1>1 DEF Flat!NoAccess, Flat!Access, NoAccess, Access
<1>7. Flat!Init
  BY <1>4, <1>5, <1>6 DEF Flat!Init, Flat!Pages, MappedPages
<1> QED BY <1>2, <1>7

LEMMA MemoryStep ==
    ASSUME PagerInv, MemoryInv, TaskInv, [Next]_vars
    PROVE  MemoryInv' /\ TaskInv' /\ [Flat!Next]_flat
<1>1. PagerInv' /\ TaskInv'
  BY PagerStep, TaskStep
<1>2. ASSUME UNCHANGED memory, Shown' = Shown, obs' = obs \/ obs' = NoAccess
      PROVE  MemoryInv' /\ [Flat!Next]_flat
  BY <1>2, MemoryUnchanged, ObserveNothing
<1>3. /\ req \in [Tasks -> Requests \cup {Null}]
      /\ status \in [Tasks -> {"ready", "faulted", "lost"}]
  BY DEF PagerInv, TypeOK
<1>4. ASSUME NEW code \in CodePages, NEW op, NEW p \in Pages, Issue(code, op, p)
      PROVE  MemoryInv' /\ [Flat!Next]_flat
  <2>1. UNCHANGED memory /\ obs' = NoAccess
    BY <1>4 DEF Issue, memory, tables, romVars, ramVars, backing
  <2>2. req'["display"] = req["display"] /\ status' = status
    BY <1>3, <1>4 DEF Issue, Tasks
  <2> QED BY <1>2, <2>1, <2>2 DEF Shown
<1>5. ASSUME NEW p \in FlushPages, DisplayFlush(p)
      PROVE  MemoryInv' /\ [Flat!Next]_flat
  <2>1. UNCHANGED memory /\ obs' = NoAccess
    BY <1>5 DEF DisplayFlush, memory, tables, romVars, ramVars, backing
  <2>2. /\ req["display"] = Null /\ status' = status
        /\ req'["display"] = Request(Null, "load", p)
    BY <1>3, <1>5 DEF DisplayFlush, Tasks
  <2>3. Request(Null, "load", p).page = p
    BY DEF Request
  <2>4. Shown = Undef /\ (Shown' = Undef \/ Shown' = p)
    BY <2>2, <2>3 DEF Shown
  <2>5. p \in Flat!Pages /\ Contents' = Contents /\ MemoryInv'
    BY <2>1, MemoryUnchanged, PagerAssumption DEF Flat!Pages, MappedPages
  <2>6. CASE Shown' = Undef
    BY <1>2, <2>1, <2>4, <2>6
  <2>7. CASE Shown' = p
    <3>1. Flat!Show(p)
      BY <2>1, <2>4, <2>5, <2>7
         DEF Flat!Show, Flat!NoAccess, Flat!Access, NoAccess, Access
    <3> QED BY <2>5, <3>1 DEF Flat!Next
  <2> QED BY <2>4, <2>6, <2>7
<1>6. ASSUME NEW t \in Tasks, Complete(t)
      PROVE  MemoryInv' /\ [Flat!Next]_flat
  BY <1>6, CompleteStep
<1>7. ASSUME NEW t \in Tasks, RaiseFault(t)
      PROVE  MemoryInv' /\ [Flat!Next]_flat
  <2>1. UNCHANGED memory /\ obs' = obs /\ req' = req
    BY <1>7 DEF RaiseFault, memory, tables, romVars, ramVars, backing
  <2>2. status'["display"] = "lost" <=> status["display"] = "lost"
    BY <1>3, <1>7 DEF RaiseFault, Runs, Tasks
  <2>3. Shown' = Shown
    BY <2>1, <2>2 DEF Shown
  <2> QED BY <1>2, <2>1, <2>3
<1>8. ASSUME NEW on \in BOOLEAN, EnableSwap(on)
      PROVE  MemoryInv' /\ [Flat!Next]_flat
  <2>1. UNCHANGED memory /\ obs' = NoAccess /\ UNCHANGED tasks
    BY <1>8 DEF EnableSwap, memory, tables, romVars, ramVars, backing
  <2> QED BY <1>2, <2>1 DEF Shown, tasks
<1>9. CASE ReloadSegment
  <2>1. UNCHANGED memory /\ obs' = obs /\ Resume /\ Receive
    BY <1>9 DEF ReloadSegment, memory, tables, romVars, ramVars, backing
  <2>2. Shown' = Shown
    BY <2>1, ShownService
  <2> QED BY <1>1, <1>2, <2>1, <2>2
<1>10. CASE InvalidAddress \/ WriteToRom
  <2>1. UNCHANGED memory /\ obs' = obs /\ VM_Unconscious /\ Receive
    BY <1>10 DEF InvalidAddress, WriteToRom, Serve, memory, tables, romVars, ramVars,
                 backing
  <2>2. Shown' \in {Shown, Undef}
    BY <2>1, ShownService
  <2> QED BY <1>1, <2>1, <2>2, MemoryUnchanged, DisplayGone
<1>11. CASE LoadRomPage
  BY <1>1, <1>11, LoadRomPageStep
<1>12. CASE LoadRamPage
  BY <1>1, <1>12, LoadRamPageStep
<1>13. CASE EvictionFails
  BY <1>1, <1>13, EvictionFailsStep
<1>14. CASE GrantWrite
  BY <1>1, <1>14, GrantWriteStep
<1>15. CASE DrawPanicScreen \/ Stopped \/ UNCHANGED vars
  <2>1. UNCHANGED memory /\ obs' = obs /\ UNCHANGED <<req, status>>
    BY <1>15 DEF DrawPanicScreen, Stopped, vars, memory, tables, romVars, ramVars, backing
  <2>2. Shown' = Shown
    BY <2>1 DEF Shown
  <2> QED BY <1>1, <1>2, <2>1, <2>2
<1> QED
  BY <1>1, <1>4, <1>5, <1>6, <1>7, <1>8, <1>9, <1>10, <1>11, <1>12, <1>13, <1>14, <1>15
     DEF Next

LEMMA MemoryInvariant == Spec => [](MemoryInv /\ TaskInv)
<1>1. Init => MemoryInv /\ TaskInv
  BY MemoryInit
<1>2. PagerInv /\ MemoryInv /\ TaskInv /\ [Next]_vars => MemoryInv' /\ TaskInv'
  BY MemoryStep
<1> QED BY <1>1, <1>2, PagerInvariant, PTL DEF Spec

(***************************************************************************)
(* A clean frame may be dropped: its page can be loaded again as it was.   *)
(* Swapping may be switched on and off at any time and any call of the     *)
(* storage layers may fail; only the pages such a call was for, and those  *)
(* that share their sector, are lost by it.                                *)
(***************************************************************************)
THEOREM CleanPagesAreSaved == Spec => []CleanIsSaved
<1>1. MemoryInv => CleanIsSaved
  BY DEF MemoryInv
<1> QED BY <1>1, MemoryInvariant, PTL

(***************************************************************************)
(* The paging of vmMgr.c, with eviction, compression, shared sectors, two  *)
(* tasks that fault and a storage that may refuse any call, is to its      *)
(* guest the flat memory of GuestMemory.                                   *)
(***************************************************************************)
THEOREM PagingIsMemory == Spec => ImplementsGuestMemory
<1>1. Init => Flat!Init
  BY MemoryInit
<1>2. PagerInv /\ MemoryInv /\ TaskInv /\ [Next]_vars => [Flat!Next]_flat
  BY MemoryStep
<1> QED BY <1>1, <1>2, PagerInvariant, MemoryInvariant, PTL
        DEF Spec, ImplementsGuestMemory, Flat!Spec, flat
=============================================================================
