-------------------------- MODULE DharaResetProofs --------------------------
(***************************************************************************)
(* Proofs about what Dhara finds after a reset: the searches of            *)
(* dhara_journal_resume, and the first reset of a chip of any geometry.    *)
(***************************************************************************)
EXTENDS DharaMapProofs, TLAPS

-----------------------------------------------------------------------------
(* journal.c:318: if a checkpoint group is completely unprogrammed,        *)
(* everything following it in its block is too.  The binary search of      *)
(* find_last_group rests on it.                                            *)
GroupsOf(b) == Group(FirstOf(b))..Group(FirstOf(b + 1)) - 1

FreeGroupsLast(n, b) ==
    \A g, h \in GroupsOf(b) : g <= h /\ GroupFree(n, g) => GroupFree(n, h)

\* The last programmed group of the block is found: none behind it is in use.
LastGroupFound(n, b) ==
    LET g == Group(LastGroup(n, b))
    IN  /\ g \in GroupsOf(b)
        /\ g = Group(FirstOf(b)) \/ ~GroupFree(n, g)
        /\ \A h \in GroupsOf(b) : h > g => GroupFree(n, h)

LEMMA FilledGroups ==
    ASSUME NEW n, Filled(n), NEW b \in Blocks
    PROVE  FreeGroupsLast(n, b)
<1> SUFFICES ASSUME NEW g \in GroupsOf(b), NEW h \in GroupsOf(b), g <= h,
                    GroupFree(n, g)
             PROVE  GroupFree(n, h)
  BY DEF FreeGroupsLast
<1>1. /\ Ppc \in Nat \ {0, 1, 2} /\ g \in Int /\ h \in Int
      /\ Group(FirstOf(b)) \in Int /\ Group(FirstOf(b + 1)) \in Int
  BY GroupsOfBlock, Geometry DEF Blocks, GroupsOf
<1>2. CASE g = h
  BY <1>2
<1>3. CASE g < h
  <2>1. PICK last \in 0..Ppc - 1, before \in 0..Ppc - 1 :
           last = Ppc - 1 /\ before = Ppc - 2
    BY <1>1
  <2>2. PICK p \in Int, q \in Int : p = g * Ppc /\ q = h * Ppc
    BY <1>1
  <2>3. PICK c : c = p + last
    OBVIOUS
  <2>4. n[c] = Free /\ n[p + before] = Free
    BY <2>1, <2>2, <2>3 DEF GroupFree
  <2>5. c - 1 = p + before /\ c \in Int
    BY <1>1, <2>1, <2>2, <2>3
  <2>6. Block(p) = b /\ Block(q) = b
    BY <2>2, GroupsOfBlock DEF GroupsOf
  <2>7. c % Ppc = Ppc - 1 /\ Block(c) = b
    BY <1>1, <2>1, <2>2, <2>3, <2>6, GroupPage
  <2>8. c \in Checkpoints
    BY <2>5, <2>7, PageOfBlock DEF Blocks, Checkpoints
  <2>9. FreeOn(n, c)
    BY <2>4, <2>5, <2>8 DEF Filled, Open
  <2>10. c < q
    <3>1. g + 1 <= h
      BY <1>1, <1>3
    <3>2. (g + 1) * Ppc <= h * Ppc
      BY <1>1, <3>1
    <3>3. (g + 1) * Ppc = p + Ppc
      BY <1>1, <2>2
    <3> QED BY <1>1, <2>1, <2>2, <2>3, <3>2, <3>3
  <2>11. ASSUME NEW i \in 0..Ppc - 1 PROVE n[q + i] = Free
    <3>1. Block(q + i) = b
      BY <1>1, <2>2, <2>6, GroupPage
    <3>2. q + i \in Pages
      BY <1>1, <3>1, PageOfBlock DEF Blocks
    <3>3. c <= q + i
      BY <1>1, <2>5, <2>10
    <3> QED BY <2>7, <2>9, <3>1, <3>2, <3>3 DEF FreeOn
  <2> QED BY <2>2, <2>11 DEF GroupFree
<1> QED BY <1>1, <1>2, <1>3

\* What the search knows of the groups out of its range, and how large the
\* range is after k steps.
Searched(n, b, r, k) ==
    /\ r \in GroupRanges(n, b) /\ r.low \in GroupsOf(b)
    /\ r.low = Group(FirstOf(b)) \/ ~GroupFree(n, r.low)
    /\ \A g \in GroupsOf(b) :
         (r.high < g \/ (r.found # None /\ r.found < g)) => GroupFree(n, g)
    /\ Over(r) \/ r.high - r.low < Ppb - k

LEMMA SearchStep ==
    ASSUME NEW n, NEW b \in Blocks, FreeGroupsLast(n, b), NEW r, NEW k \in Nat,
           Searched(n, b, r, k)
    PROVE  Searched(n, b, GroupStep(n, b, r), k + 1)
<1> DEFINE mid == Middle(r)
           s == GroupStep(n, b, r)
<1>1. PICK lo \in Int, hi \in Int :
         lo = Group(FirstOf(b)) /\ hi = Group(FirstOf(b + 1)) - 1
  BY GroupsOfBlock, Geometry DEF Blocks
<1>2. GroupsOf(b) = lo..hi /\ Ppb \in Nat
  BY <1>1, GeometryAssumption DEF GroupsOf
<1>3. /\ r \in GroupRanges(n, b) /\ r.low \in lo..hi /\ r.high \in Int
      /\ r.high <= hi /\ r.found \in {None} \cup lo..hi
      /\ r.low = lo \/ ~GroupFree(n, r.low)
      /\ \A g \in lo..hi : r.high < g => GroupFree(n, g)
      /\ Over(r) \/ r.high - r.low < Ppb - k
  BY <1>1, <1>2 DEF Searched, GroupRanges
<1>4. s \in GroupRanges(n, b)
  BY <1>3, GroupStepType
<1> HIDE DEF s
<1> DEFINE Low == s.low \in lo..hi /\ (s.low = lo \/ ~GroupFree(n, s.low))
           High == \A g \in lo..hi : s.high < g => GroupFree(n, g)
           Found == \A g \in lo..hi :
                      s.found # None /\ s.found < g => GroupFree(n, g)
           Closer == Over(s) \/ s.high - s.low < Ppb - (k + 1)
<1>7. Low /\ High /\ Found /\ Closer => Searched(n, b, s, k + 1)
  <2>1. Low /\ High /\ Found =>
           /\ s.low \in GroupsOf(b)
           /\ s.low = Group(FirstOf(b)) \/ ~GroupFree(n, s.low)
           /\ \A g \in GroupsOf(b) :
                (s.high < g \/ (s.found # None /\ s.found < g)) => GroupFree(n, g)
    BY <1>1, <1>2
  <2> QED BY <1>4, <2>1 DEF Searched
<1>5. CASE Over(r)
  <2>1. s = r
    BY <1>5 DEF GroupStep, s
  <2> QED BY <1>5, <2>1 DEF Searched, s
<1>6. CASE ~Over(r)
  <2>1. r.low <= r.high /\ r.found = None
    BY <1>3, <1>6 DEF Over
  <2>2. mid \in Int /\ r.low <= mid /\ mid <= r.high /\ mid \in lo..hi
    BY <1>3, <2>1 DEF Middle
  <2>3. s = IF GroupFree(n, mid) THEN [r EXCEPT !.high = mid - 1]
            ELSE IF Block((mid + 1) * Ppc) # b \/ GroupFree(n, mid + 1)
            THEN [r EXCEPT !.found = mid]
            ELSE [r EXCEPT !.low = mid + 1]
    BY <1>6 DEF GroupStep, s
  <2> HIDE DEF mid
  <2>4. CASE GroupFree(n, mid)
    <3>1. s.high = mid - 1 /\ s.low = r.low /\ s.found = None
      BY <1>3, <2>1, <2>3, <2>4 DEF GroupRanges
    <3>2. \A g \in lo..hi : mid <= g => GroupFree(n, g)
      BY <1>2, <2>2, <2>4 DEF FreeGroupsLast
    <3>3. \A g \in lo..hi : s.high < g => mid <= g
      BY <2>2, <3>1
    <3>4. s.high - s.low < Ppb - (k + 1)
      BY <1>2, <1>3, <1>6, <2>2, <3>1
    <3>5. Low
      BY <1>3, <3>1
    <3>6. High
      BY <3>2, <3>3
    <3>7. Found
      BY <3>1
    <3>8. Closer
      BY <3>4
    <3> QED BY ONLY <1>7, <3>5, <3>6, <3>7, <3>8 DEF s
  <2>5. CASE /\ ~GroupFree(n, mid)
             /\ Block((mid + 1) * Ppc) # b \/ GroupFree(n, mid + 1)
    <3>1. s.high = r.high /\ s.low = r.low /\ s.found = mid
      BY <1>3, <2>3, <2>5 DEF GroupRanges
    <3>2. PICK m \in Int : m = mid + 1
      BY <2>2
    <3>3. m \in lo..hi => GroupFree(n, m)
      <4>1. m \in lo..hi => Block(m * Ppc) = b
        BY <1>1, GroupsOfBlock
      <4> QED BY <2>5, <3>2, <4>1
    <3>4. \A g \in lo..hi : mid < g => GroupFree(n, g)
      <4>1. \A g \in lo..hi : mid < g => m <= g /\ m \in lo..hi
        BY <1>1, <2>2, <3>2
      <4> QED BY <1>2, <3>3, <4>1 DEF FreeGroupsLast
    <3>5. Over(s)
      <4>1. mid # None
        <5>1. lo >= 0
          BY <1>1, GroupsOfBlock, Geometry DEF Blocks
        <5> QED BY <1>1, <2>2, <5>1 DEF None
      <4> QED BY <3>1, <4>1 DEF Over
    <3>6. Low
      BY <1>3, <3>1
    <3>7. High
      BY <1>3, <3>1
    <3>8. Found
      BY <3>1, <3>4
    <3>9. Closer
      BY <3>5
    <3> QED BY ONLY <1>7, <3>6, <3>7, <3>8, <3>9 DEF s
  <2>6. CASE /\ ~GroupFree(n, mid) /\ ~GroupFree(n, mid + 1)
             /\ Block((mid + 1) * Ppc) = b
    <3>1. PICK m \in Int : m = mid + 1
      BY <2>2
    <3>2. s.high = r.high /\ s.low = m /\ s.found = None
      BY <1>3, <2>1, <2>3, <2>6, <3>1 DEF GroupRanges
    <3>3. m \in lo..hi
      <4>1. m <= hi
        <5> SUFFICES ASSUME m > hi PROVE FALSE
          BY <1>1, <3>1
        <5>1. m = hi + 1
          BY <1>1, <2>2, <3>1
        <5>2. m = (b + 1) * (Ppb \div Ppc)
          <6>1. PICK e \in Int : e = Group(FirstOf(b + 1))
            BY GroupsOfBlock, Geometry DEF Blocks
          <6>2. m = e
            BY <1>1, <5>1, <6>1
          <6> QED BY <6>1, <6>2, GroupsOfBlock
        <5>3. m * Ppc = (b + 1) * Ppb
          <6>1. b \in Int /\ Ppc \in Int /\ Ppb \div Ppc \in Int
                /\ Ppb = Ppc * (Ppb \div Ppc)
            BY Geometry DEF Blocks
          <6>2. PICK G \in Int, c \in Int : G = Ppb \div Ppc /\ c = b + 1
            BY <6>1
          <6>3. m = c * G /\ Ppb = Ppc * G
            BY <5>2, <6>1, <6>2
          <6>4. (c * G) * Ppc = c * (Ppc * G)
            BY <6>1, <6>2
          <6> QED BY <6>2, <6>3, <6>4
        <5>4. PICK p \in Int, c \in Int : p = m * Ppc /\ c = b + 1
          BY <3>1, GeometryAssumption DEF Blocks
        <5>5. c * Ppb <= p /\ p < c * Ppb + Ppb
          BY <5>3, <5>4, GeometryAssumption
        <5>6. Block(p) = c
          BY <5>4, <5>5, BlockIs
        <5> QED BY <2>6, <3>1, <5>4, <5>6 DEF Blocks
      <4> QED BY <1>1, <2>2, <3>1, <4>1
    <3>4. s.high - s.low < Ppb - (k + 1)
      BY <1>2, <1>3, <1>6, <2>2, <3>1, <3>2
    <3>5. ~GroupFree(n, m)
      BY <2>6, <3>1
    <3>6. Low
      BY <3>2, <3>3, <3>5
    <3>7. High
      BY <1>3, <3>2
    <3>8. Found
      BY <3>2
    <3>9. Closer
      BY <3>4
    <3> QED BY ONLY <1>7, <3>6, <3>7, <3>8, <3>9 DEF s
  <2> QED BY <2>4, <2>5, <2>6
<1> QED BY <1>5, <1>6 DEF s

LEMMA LastGroupIsLast ==
    ASSUME NEW n, NEW b \in Blocks, FreeGroupsLast(n, b)
    PROVE  LastGroupFound(n, b)
<1>1. PICK lo \in Int, hi \in Int :
         lo = Group(FirstOf(b)) /\ hi = Group(FirstOf(b + 1)) - 1
  BY GroupsOfBlock, Geometry DEF Blocks
<1>2. GroupsOf(b) = lo..hi /\ Ppb \in Nat \ {0}
  BY <1>1, GeometryAssumption DEF GroupsOf
<1>3. 0 <= lo /\ lo <= hi /\ hi - lo < Ppb
  <2>1. PICK G \in Nat \ {0} : G = Ppb \div Ppc /\ Ppb = Ppc * G
    BY Geometry
  <2>2. lo = b * G /\ hi = (b + 1) * G - 1
    BY <1>1, <2>1, GroupsOfBlock
  <2>3. PICK c \in Nat, x \in Int : c = b /\ x = c * G
    BY <2>1, Geometry DEF Blocks
  <2>4. 0 <= x /\ (c + 1) * G = x + G
    <3>1. (c + 1) * G = c * G + G
      BY ONLY <2>1, <2>3
    <3>2. c * G \in Nat
      BY ONLY <2>1, <2>3
    <3> QED BY ONLY <2>3, <3>1, <3>2
  <2>5. lo = x /\ hi = x + G - 1
    BY <2>2, <2>3, <2>4
  <2>6. G <= Ppb
    <3>1. PICK q \in Nat \ {0} : q = Ppc
      BY Geometry
    <3>2. G <= q * G
      BY ONLY <2>1, <3>1
    <3> QED BY ONLY <2>1, <3>1, <3>2
  <2>7. G \in Int /\ x \in Int /\ Ppb \in Int /\ G > 0
    BY <1>2, <2>1, <2>3
  <2>8. 0 <= lo
    BY ONLY <2>4, <2>5
  <2>9. lo <= hi
    BY ONLY <2>5, <2>7
  <2>10. hi - lo < Ppb
    BY ONLY <2>5, <2>6, <2>7
  <2> QED BY ONLY <2>8, <2>9, <2>10
<1>4. PICK run : GroupSearch(n, b, run)
  BY GroupSearchRuns
<1>5. Searched(n, b, run[0], 0)
  <2>1. run[0] = [low |-> lo, high |-> hi, found |-> None]
    BY <1>1, <1>4 DEF GroupSearch, Between
  <2>2. run[0] \in GroupRanges(n, b)
    BY <1>1, <2>1 DEF GroupRanges
  <2> QED BY <1>1, <1>2, <1>3, <2>1, <2>2 DEF Searched
<1> DEFINE P == {k \in 0..Ppb : Searched(n, b, run[k], k)}
<1>6. 0 \in P /\ \A k \in 0..Ppb - 1 : k \in P => k + 1 \in P
  <2>1. ASSUME NEW k \in 0..Ppb - 1, Searched(n, b, run[k], k)
        PROVE  Searched(n, b, run[k + 1], k + 1)
    <3>1. k \in Nat /\ run[k + 1] = GroupStep(n, b, run[k])
      BY <1>2, <1>4, <2>1 DEF GroupSearch
    <3> QED BY <2>1, <3>1, SearchStep
  <2>2. \A k \in 0..Ppb - 1 : k \in 0..Ppb /\ k + 1 \in 0..Ppb
    BY <1>2
  <2> QED BY <1>2, <1>5, <2>1, <2>2
<1>7. 0..Ppb \subseteq P
  <2> HIDE DEF P
  <2>1. Ppb \in Int /\ 0 \in Int
    BY <1>2
  <2> QED BY <1>6, <2>1, UpTo
<1>8. PICK r : r = run[Ppb]
  OBVIOUS
<1>9. Searched(n, b, r, Ppb)
  BY <1>2, <1>7, <1>8
<1>10. /\ r.low \in lo..hi /\ r.high \in Int
       /\ r.found \in {None} \cup lo..hi
       /\ r.found # None => ~GroupFree(n, r.found)
       /\ r.low = lo \/ ~GroupFree(n, r.low)
       /\ \A g \in lo..hi : (r.high < g \/ (r.found # None /\ r.found < g))
                               => GroupFree(n, g)
       /\ Over(r) \/ r.high - r.low < 0
  BY <1>1, <1>2, <1>9 DEF Searched, GroupRanges
<1>11. r.low > r.high \/ r.found # None
  BY <1>1, <1>10 DEF Over
<1>12. CASE r.found = None
  <2>1. LastGroup(n, b) = FirstOf(b)
    BY <1>4, <1>8, <1>12 DEF GroupSearch
  <2>2. r.low > r.high
    BY <1>11, <1>12
  <2>3. GroupFree(n, r.low)
    BY <1>10, <2>2
  <2>4. r.low = lo
    BY <1>10, <2>3
  <2>5. \A g \in lo..hi : g > lo => GroupFree(n, g)
    BY <1>1, <1>10, <2>2, <2>4
  <2> QED BY <1>1, <1>2, <1>3, <2>1, <2>5 DEF LastGroupFound
<1>13. CASE r.found # None
  <2>1. PICK g \in lo..hi : g = r.found
    BY <1>10, <1>13
  <2>2. LastGroup(n, b) = g * Ppc
    BY <1>4, <1>8, <1>13, <2>1 DEF GroupSearch
  <2>3. Group(g * Ppc) = g
    <3>1. 0 \in 0..Ppc - 1 /\ g \in Int
      BY <1>1, Geometry
    <3> QED BY <3>1, GroupPage
  <2>4. ~GroupFree(n, g) /\ \A h \in lo..hi : h > g => GroupFree(n, h)
    BY <1>1, <1>10, <1>13, <2>1
  <2> QED BY <1>2, <2>1, <2>2, <2>3, <2>4 DEF LastGroupFound
<1> QED BY <1>12, <1>13

\* The binary search that a reset resumes with is right in every state that a
\* reset can find, pages that a reset has torn included: it finds the last
\* group of a block that was programmed, and the head is set behind it.
THEOREM LastGroupIsFound ==
    ASSUME Exclusive
    PROVE  Spec => [](\A b \in Blocks : FreeGroupsLast(nand, b)
                                        /\ LastGroupFound(nand, b))
<1>1. Inv => \A b \in Blocks : FreeGroupsLast(nand, b) /\ LastGroupFound(nand, b)
  BY FilledGroups, LastGroupIsLast DEF Inv, LogInv, FlashOK
<1> QED BY <1>1, LogInOrder, PTL

-----------------------------------------------------------------------------
(* The search of find_last_checkblock.  It rests on the order of the       *)
(* epochs on the chip: from the first block to the last of the epoch each  *)
(* has a checkpoint of it, and no block behind the last does.              *)
Epochal(n, e, first, last) ==
    /\ first \in Blocks /\ last \in Blocks /\ first <= last
    /\ \A b \in first..last : FindCheckblock(n, b) = b /\ InEpoch(n, b, e)
    /\ \A b \in last + 1..NumBlocks - 1 : ~InEpoch(n, b, e)

\* What the search knows of its range after k steps.
Halved(r, first, last, k) ==
    /\ r \in BlockRanges /\ r.found \in {None, last}
    /\ r.found = None => /\ first <= r.low /\ r.low <= last /\ last <= r.high
                         /\ r.high < NumBlocks /\ r.high - r.low < NumBlocks - k

LEMMA HalvedStep ==
    ASSUME NEW n, NEW e, NEW first, NEW last, Epochal(n, e, first, last),
           NEW r, NEW k \in Nat, Halved(r, first, last, k)
    PROVE  Halved(CheckblockStep(n, e, first, r), first, last, k + 1)
<1> DEFINE mid == Middle(r)
           s == CheckblockStep(n, e, first, r)
<1>1. /\ first \in Int /\ last \in Int /\ 0 <= first /\ first <= last
      /\ last < NumBlocks /\ NumBlocks \in Nat /\ last # None
  BY Geometry DEF Epochal, Blocks, None
<1>2. /\ r \in BlockRanges /\ r.low \in Nat /\ r.high \in Int
      /\ r = [low |-> r.low, high |-> r.high, found |-> r.found]
  BY DEF Halved, BlockRanges
<1>3. s \in BlockRanges
  BY <1>2, CheckblockStepType DEF Epochal
<1>4. CASE r.found # None
  <2>1. s = r
    BY <1>4 DEF CheckblockStep, Over
  <2> HIDE DEF s
  <2> QED BY <1>4, <2>1 DEF Halved, s
<1>5. CASE r.found = None
  <2>1. /\ first <= r.low /\ r.low <= last /\ last <= r.high
        /\ r.high < NumBlocks /\ r.high - r.low < NumBlocks - k
    BY <1>5 DEF Halved
  <2>2. /\ mid \in Int /\ r.low <= mid /\ mid <= r.high /\ first <= mid /\ 0 <= mid
        /\ mid < NumBlocks
    BY <1>1, <1>2, <2>1 DEF Middle
  <2>3. ~Over(r)
    BY <1>1, <1>2, <1>5, <2>1 DEF Over
  <2> HIDE DEF mid
  <2>4. s = IF ~InEpoch(n, mid, e)
            THEN IF mid = 0 THEN [r EXCEPT !.found = first]
                 ELSE [r EXCEPT !.high = mid - 1]
            ELSE IF \/ FindCheckblock(n, mid) + 1 >= NumBlocks
                    \/ ~InEpoch(n, FindCheckblock(n, mid) + 1, e)
            THEN [r EXCEPT !.found = FindCheckblock(n, mid)]
            ELSE [r EXCEPT !.low = FindCheckblock(n, FindCheckblock(n, mid) + 1)]
    BY <2>3 DEF CheckblockStep, mid
  <2> HIDE DEF s
  <2>5. CASE mid > last
    <3>1. ~InEpoch(n, mid, e)
      <4>1. mid \in last + 1..NumBlocks - 1
        BY <1>1, <2>2, <2>5
      <4> QED BY <4>1 DEF Epochal
    <3>2. s = [r EXCEPT !.high = mid - 1]
      BY <1>1, <2>2, <2>4, <2>5, <3>1
    <3>3. s.low = r.low /\ s.high = mid - 1 /\ s.found = None
      BY <1>2, <1>5, <3>2
    <3>4. /\ first <= s.low /\ s.low <= last /\ last <= s.high
          /\ s.high < NumBlocks /\ s.high - s.low < NumBlocks - (k + 1)
      BY <1>1, <1>2, <2>1, <2>2, <2>5, <3>3
    <3> QED BY ONLY <1>3, <3>3, <3>4 DEF Halved, s
  <2>6. CASE mid <= last
    <3>1. FindCheckblock(n, mid) = mid /\ InEpoch(n, mid, e)
      <4>1. mid \in first..last
        BY <1>1, <2>2, <2>6
      <4> QED BY <4>1 DEF Epochal
    <3>2. CASE mid = last
      <4>1. mid + 1 >= NumBlocks \/ ~InEpoch(n, mid + 1, e)
        <5>1. CASE mid + 1 < NumBlocks
          <6>1. PICK m \in last + 1..NumBlocks - 1 : m = mid + 1
            BY <1>1, <3>2, <5>1
          <6> QED BY <6>1 DEF Epochal
        <5> QED BY <1>1, <2>2, <5>1
      <4>2. s = [r EXCEPT !.found = mid]
        BY <2>4, <3>1, <4>1
      <4>3. s.found = last
        BY <1>2, <3>2, <4>2
      <4> QED BY <1>1, <1>3, <4>3 DEF Halved, s
    <3>3. CASE mid < last
      <4>1. PICK m \in first..last : m = mid + 1
        BY <1>1, <2>2, <3>3
      <4>2. FindCheckblock(n, m) = m /\ InEpoch(n, m, e) /\ m < NumBlocks
        BY <1>1, <4>1 DEF Epochal
      <4>3. s = [r EXCEPT !.low = m]
        BY <1>1, <2>2, <2>4, <3>1, <4>1, <4>2
      <4>4. s.low = m /\ s.high = r.high /\ s.found = None
        BY <1>2, <1>5, <4>3
      <4>5. /\ first <= s.low /\ s.low <= last /\ last <= s.high
            /\ s.high < NumBlocks /\ s.high - s.low < NumBlocks - (k + 1)
        BY <1>1, <1>2, <2>1, <2>2, <4>1, <4>4
      <4> QED BY ONLY <1>3, <4>4, <4>5 DEF Halved, s
    <3> QED BY <1>1, <2>2, <2>6, <3>2, <3>3
  <2> QED BY <1>1, <2>2, <2>5, <2>6
<1> QED BY <1>4, <1>5

\* It finds the last block of the epoch.
LEMMA LastCheckblockIsLast ==
    ASSUME NEW n, NEW e, NEW first, NEW last, Epochal(n, e, first, last)
    PROVE  LastCheckblock(n, e, first) = last
<1>1. NumBlocks \in Nat \ {0, 1} /\ first \in Blocks /\ last \in Blocks
      /\ first \in Int /\ last \in Int /\ 0 <= first /\ first <= last
      /\ last < NumBlocks
  BY Geometry DEF Epochal, Blocks
<1>2. PICK run : CheckblockSearch(n, e, first, run)
  BY <1>1, CheckblockSearchRuns
<1>3. Halved(run[0], first, last, 0)
  <2>1. run[0] = [low |-> first, high |-> NumBlocks - 1, found |-> None]
    BY <1>2 DEF CheckblockSearch, Between
  <2>2. run[0] \in BlockRanges
    BY <1>1, <2>1 DEF BlockRanges
  <2> QED BY <1>1, <2>1, <2>2 DEF Halved
<1> DEFINE P == {k \in 0..NumBlocks : Halved(run[k], first, last, k)}
<1>4. 0 \in P /\ \A k \in 0..NumBlocks - 1 : k \in P => k + 1 \in P
  <2>1. ASSUME NEW k \in 0..NumBlocks - 1, Halved(run[k], first, last, k)
        PROVE  Halved(run[k + 1], first, last, k + 1)
    <3>1. k \in Nat /\ run[k + 1] = CheckblockStep(n, e, first, run[k])
      BY <1>1, <1>2 DEF CheckblockSearch
    <3> QED BY <2>1, <3>1, HalvedStep
  <2>2. \A k \in 0..NumBlocks - 1 : k \in 0..NumBlocks /\ k + 1 \in 0..NumBlocks
    BY <1>1
  <2> QED BY <1>1, <1>3, <2>1, <2>2
<1>5. 0..NumBlocks \subseteq P
  <2> HIDE DEF P
  <2> QED BY <1>1, <1>4, UpTo
<1>6. PICK r : r = run[NumBlocks]
  OBVIOUS
<1>7. Halved(r, first, last, NumBlocks)
  BY <1>1, <1>5, <1>6
<1>8. r.found = last
  BY <1>1, <1>7 DEF Halved, BlockRanges
<1>9. last # None
  BY <1>1 DEF None
<1> QED BY <1>2, <1>6, <1>8, <1>9 DEF CheckblockSearch

-----------------------------------------------------------------------------
(* The layout of the chip until the first reset.  The head's group is the  *)
(* one without a checkpoint; the last checkpoint is before it.             *)
Start(h) == Group(h) * Ppc
LastCheck(h) == IF Start(h) = 0 THEN NumPages - 1 ELSE Start(h) - 1

(* A checkpoint has been written in this epoch or before it.               *)
Written(h, e) == e > 0 \/ Start(h) > 0

(* Every group before the head's has a checkpoint of epoch e, the groups   *)
(* behind the head's block have one of the epoch before, if there was one, *)
(* and what else is a checkpoint is of that epoch too.  A block is bad     *)
(* only if its first group was to be written.                              *)
Arranged(n, h, e) ==
    /\ e \in Nat
    /\ \A c \in Checkpoints :
         c < Start(h) => n[c].kind = "checkpoint" /\ n[c].epoch = e
    /\ \A c \in Checkpoints : c >= Start(h) /\ n[c].kind = "checkpoint"
                                => e > 0 /\ n[c].epoch = e - 1
    /\ \A c \in Checkpoints : e > 0 /\ Block(c) > Block(h)
                                => n[c].kind = "checkpoint"
    /\ \A b \in Blocks : IsBad(n, b) => Start(h) = FirstOf(b)

LEMMA StartIs ==
    ASSUME NEW p \in Pages
    PROVE  /\ Start(p) \in UserPages /\ Start(p) \in Int /\ 0 <= Start(p)
           /\ Start(p) <= p /\ p = Start(p) + (p % Ppc) /\ p <= Start(p) + (Ppc - 1)
           /\ Block(Start(p)) = Block(p) /\ Group(Start(p)) = Group(p)
           /\ Start(p) % Ppc = 0 /\ FirstOf(Block(p)) <= Start(p)
           /\ CheckpointOf(Group(p)) = Start(p) + (Ppc - 1)
<1>1. p \in Int /\ 0 <= p /\ Ppc \in Nat \ {0, 1, 2} /\ NumPages \in Int
  BY Geometry DEF Pages
<1>2. PICK g \in Int, i \in 0..Ppc - 1 : g = Group(p) /\ i = p % Ppc /\ p = g * Ppc + i
  BY <1>1, GroupOf
<1>3. PICK s \in Int : s = g * Ppc
  BY <1>1, <1>2
<1>4. Start(p) = s
  BY <1>2, <1>3 DEF Start
<1>5. Block(s) = Block(p) /\ Group(s) = g /\ s % Ppc = 0
  BY <1>2, <1>3, GroupPage
<1>6. s \in Pages
  BY <1>5, BlockOf, PageOfBlock
<1>7. s \in UserPages
  BY <1>1, <1>5, <1>6 DEF UserPages
<1>8. FirstOf(Block(p)) <= s
  BY <1>5, <1>6, BlockOf DEF FirstOf
<1>9. CheckpointOf(Group(p)) = s + (Ppc - 1)
  <2>1. CheckpointOf(Group(p)) = p - i + Ppc - 1
    BY <1>1, <1>2, GroupOf
  <2>2. p = s + i
    BY ONLY <1>2, <1>3
  <2>3. p - i + Ppc - 1 = s + (Ppc - 1)
    <3>1. i \in Int /\ Ppc \in Int /\ s \in Int
      BY <1>1
    <3> QED BY ONLY <2>2, <3>1
  <2>4. p - i + Ppc - 1 = CheckpointOf(Group(p))
    BY <1>2, <2>1
  <2> QED BY <2>3, <2>4
<1>10. 0 <= s
  BY <1>6, <1>1 DEF Pages
<1>11. s <= p /\ p = s + (p % Ppc) /\ p <= s + (Ppc - 1)
  <2>1. p = s + i
    BY ONLY <1>2, <1>3
  <2>2. i \in Int /\ 0 <= i /\ i <= Ppc - 1 /\ Ppc \in Int /\ s \in Int
    BY <1>1
  <2>3. s <= p /\ p <= s + (Ppc - 1)
    BY ONLY <2>1, <2>2
  <2> QED BY <1>2, <2>1, <2>3
<1> QED BY <1>2, <1>3, <1>4, <1>5, <1>7, <1>8, <1>9, <1>10, <1>11

LEMMA LastPage ==
    /\ NumPages - 1 \in Checkpoints /\ Block(NumPages - 1) = NumBlocks - 1
    /\ NumPages - 1 \in Int
<1>1. PICK G \in Nat \ {0} : G = Ppb \div Ppc /\ Ppb = Ppc * G
  BY Geometry
<1>2. /\ NumBlocks \in Nat \ {0, 1} /\ Ppc \in Nat \ {0, 1, 2} /\ Ppb \in Nat \ {0}
      /\ NumPages \in Nat \ {0}
  BY Geometry
<1>3. PICK m \in Nat : m = (NumBlocks - 1) * Ppb
  <2>1. NumBlocks - 1 \in Nat
    BY <1>2
  <2> QED BY <1>2, <2>1
<1>4. NumPages = m + Ppb
  BY <1>2, <1>3 DEF NumPages
<1>5. Block(NumPages - 1) = NumBlocks - 1
  <2>1. PICK b \in Int : b = NumBlocks - 1
    BY <1>2
  <2>2. PICK p \in Int : p = NumPages - 1
    BY <1>2
  <2>3. b * Ppb <= p /\ p < b * Ppb + Ppb
    BY <1>2, <1>3, <1>4, <2>1, <2>2
  <2> QED BY <2>1, <2>2, <2>3, BlockIs
<1>6. PICK k \in Int : k = NumBlocks * G
  BY <1>1, <1>2
<1>7. NumPages = Ppc * k
  <2>1. NumPages = NumBlocks * (Ppc * G)
    BY <1>1 DEF NumPages
  <2>2. NumBlocks * (Ppc * G) = Ppc * (NumBlocks * G)
    BY <1>1, <1>2
  <2> QED BY <1>6, <2>1, <2>2
<1>8. (NumPages - 1) % Ppc = Ppc - 1
  <2>1. PICK i \in Int, r \in 0..Ppc - 1 : i = k - 1 /\ r = Ppc - 1
    BY <1>2
  <2>2. Ppc * i = Ppc * k - Ppc
    BY <1>2, <2>1
  <2>3. PICK p \in Int : p = NumPages - 1
    BY <1>2
  <2>4. p = (Ppc * i) + r
    BY <1>2, <1>7, <2>1, <2>2, <2>3
  <2>5. Ppc \in Nat \ {0} /\ p \in Int /\ i \in Int /\ r \in 0..Ppc - 1
    BY <1>2
  <2>6. p % Ppc = r
    BY ONLY <2>4, <2>5, Remainder
  <2> QED BY <2>1, <2>3, <2>6
<1> QED BY <1>2, <1>5, <1>8 DEF Checkpoints, Pages

LEMMA LastCheckIs ==
    ASSUME NEW h \in UserPages
    PROVE  LET l == LastCheck(h)
           IN  /\ l \in Checkpoints /\ l \in Int
               /\ Start(h) > 0 => l = Start(h) - 1
               /\ Start(h) = 0 => l = NumPages - 1 /\ Block(l) = NumBlocks - 1
                                  /\ Block(h) = 0
               /\ Start(h) # FirstOf(Block(h)) => Block(l) = Block(h) /\ Start(h) > 0
               /\ Start(h) = FirstOf(Block(h)) => NextBlock(Block(l)) = Block(h)
<1> DEFINE l == LastCheck(h)
<1>1. /\ h \in Pages /\ Ppc \in Nat \ {0, 1, 2} /\ Ppb \in Nat \ {0}
      /\ NumBlocks \in Nat \ {0, 1} /\ NumPages \in Nat
  BY UserPage, Geometry
<1>2. PICK s \in UserPages : s = Start(h)
  BY <1>1, StartIs
<1>3. /\ s \in Int /\ 0 <= s /\ s \in Pages /\ s % Ppc = 0 /\ Block(s) = Block(h)
      /\ FirstOf(Block(h)) <= s
  BY <1>1, <1>2, StartIs, UserPage
<1>4. PICK b \in 0..NumBlocks - 1 : b = Block(h)
  BY <1>1, BlockOf
<1>5. PICK f \in Int : f = FirstOf(b) /\ f = b * Ppb /\ 0 <= f
  <2>1. b * Ppb \in Nat
    BY <1>1
  <2> QED BY <2>1 DEF FirstOf
<1>6. f <= s /\ s < f + Ppb
  BY <1>1, <1>3, <1>4, <1>5, BlockOf
<1>7. CASE s > 0
  <2>1. l = s - 1
    BY <1>2, <1>7 DEF LastCheck
  <2>2. PICK p \in Int : p = s - 1
    BY <1>3
  <2>3. p \in Pages
    BY <1>1, <1>3, <1>7, <2>2 DEF Pages
  <2>4. p % Ppc = Ppc - 1
    <3>1. PICK g \in Int : s = Ppc * g
      <4>1. s = (Ppc * (s \div Ppc)) + (s % Ppc) /\ s \div Ppc \in Int
        BY <1>1, <1>3, DivMod
      <4>2. PICK g \in Int : g = s \div Ppc
        BY <4>1
      <4>3. s = Ppc * g + 0
        BY <1>3, <4>1, <4>2
      <4>4. Ppc * g \in Int
        BY <1>1
      <4> QED BY <4>2, <4>3, <4>4
    <3>2. PICK i \in Int, r \in 0..Ppc - 1 : i = g - 1 /\ r = Ppc - 1
      BY <1>1
    <3>3. Ppc * i = Ppc * g - Ppc
      BY <1>1, <3>2
    <3>4. p = (Ppc * i) + r
      BY <1>1, <2>2, <3>1, <3>2, <3>3
    <3>5. Ppc \in Nat \ {0} /\ p \in Int /\ i \in Int /\ r \in 0..Ppc - 1
      BY <1>1
    <3>6. p % Ppc = r
      BY ONLY <3>4, <3>5, Remainder
    <3> QED BY <3>2, <3>6
  <2>5. p \in Checkpoints
    BY <2>3, <2>4 DEF Checkpoints
  <2>6. s # f => Block(p) = b
    <3> SUFFICES ASSUME s # f PROVE Block(p) = b
      OBVIOUS
    <3>1. b * Ppb <= p /\ p < b * Ppb + Ppb /\ b \in Int
      BY <1>1, <1>3, <1>5, <1>6, <2>2
    <3> QED BY <3>1, BlockIs
  <2>7. s = f => NextBlock(Block(p)) = b
    <3> SUFFICES ASSUME s = f PROVE NextBlock(Block(p)) = b
      OBVIOUS
    <3>1. b # 0
      <4>1. 0 * Ppb = 0
        BY <1>1
      <4> QED BY <1>5, <1>7, <4>1
    <3>2. PICK a \in 0..NumBlocks - 1 : a = b - 1
      BY <1>1, <3>1
    <3>3. a * Ppb = f - Ppb
      <4>1. b = a + 1 /\ a \in Int /\ Ppb \in Int
        BY <1>1, <3>2
      <4>2. (a + 1) * Ppb = a * Ppb + Ppb /\ a * Ppb \in Int
        BY ONLY <4>1
      <4> QED BY <1>5, <4>1, <4>2
    <3>4. a * Ppb <= p /\ p < a * Ppb + Ppb /\ a \in Int
      BY <1>1, <1>3, <2>2, <3>3
    <3>5. Block(p) = a
      BY <3>4, BlockIs
    <3>6. (a + 1) % NumBlocks = a + 1
      <4>1. 1 \in 0..NumBlocks /\ a + 1 < NumBlocks
        BY <1>1, <3>2
      <4> QED BY <4>1, Around
    <3> QED BY <1>1, <3>2, <3>5, <3>6 DEF NextBlock
  <2> QED BY <1>2, <1>4, <1>5, <1>7, <2>1, <2>2, <2>5, <2>6, <2>7
<1>8. CASE s = 0
  <2>1. l = NumPages - 1
    BY <1>2, <1>8 DEF LastCheck
  <2>2. f = 0 /\ b = 0
    <3>1. f = 0
      BY <1>5, <1>6, <1>8
    <3>2. CASE b > 0
      <4>1. b * Ppb >= Ppb
        BY <1>1, <3>2
      <4> QED BY <1>1, <1>5, <3>1, <4>1
    <3> QED BY <3>1, <3>2
  <2>3. NextBlock(NumBlocks - 1) = 0
    <3>1. PICK a \in 0..NumBlocks - 1 : a = NumBlocks - 1
      BY <1>1
    <3>2. 1 \in 0..NumBlocks /\ a + 1 >= NumBlocks
      BY <1>1, <3>1
    <3>3. (a + 1) % NumBlocks = a + 1 - NumBlocks
      BY <3>2, Around
    <3> QED BY <1>1, <3>1, <3>3 DEF NextBlock
  <2> QED BY <1>2, <1>4, <1>5, <1>8, <2>1, <2>2, <2>3, LastPage
<1> QED BY <1>3, <1>7, <1>8

\* The checkpoints before the head's group.
LEMMA UpToLastCheck ==
    ASSUME NEW h \in UserPages, NEW c \in Checkpoints, c < Start(h)
    PROVE  Start(h) > 0 /\ c <= LastCheck(h) /\ Block(c) <= Block(LastCheck(h))
<1>1. Start(h) \in Int /\ c \in Int /\ 0 <= c /\ c \in Pages
  BY UserPage, StartIs, Geometry DEF Checkpoints, Pages
<1>2. Start(h) > 0 /\ LastCheck(h) = Start(h) - 1
  BY <1>1, LastCheckIs
<1>3. LastCheck(h) \in Pages
  BY LastCheckIs DEF Checkpoints
<1> QED BY <1>1, <1>2, <1>3, BlockOrder

\* find_checkblock stops at once at a good block with a checkpoint.
LEMMA FindHere ==
    ASSUME NEW n, NEW b \in Blocks, ~IsBad(n, b), IsCheckpoint(n, FirstCheckpoint(b))
    PROVE  FindCheckblock(n, b) = b
<1> DEFINE found == {c \in b..b + MaxRetries - 1 :
                       /\ c < NumBlocks /\ ~IsBad(n, c)
                       /\ IsCheckpoint(n, FirstCheckpoint(c))}
           least == CHOOSE c \in found : \A d \in found : c <= d
<1>1. MaxRetries \in Nat \ {0} /\ NumBlocks \in Nat /\ b \in Int /\ b < NumBlocks
      /\ 0 <= b
  BY GeometryAssumption DEF Blocks
<1>2. b \in found /\ found \subseteq Nat /\ \A d \in found : b <= d
  BY <1>1
<1>3. FindCheckblock(n, b) = least
  BY <1>2 DEF FindCheckblock
<1>4. least \in found /\ \A d \in found : least <= d
  <2> HIDE DEF found
  <2> QED BY <1>2, LeastNatural
<1>5. least \in Nat /\ b <= least /\ least <= b
  <2> HIDE DEF found, least
  <2> QED BY <1>2, <1>4
<1> QED BY <1>1, <1>3, <1>5

\* The first checkpoint of a block is not behind a checkpoint of the block.
LEMMA FirstCheckpointFirst ==
    ASSUME NEW b \in Blocks, NEW c \in Checkpoints, b <= Block(c)
    PROVE  FirstCheckpoint(b) <= c
<1>1. /\ c \in Pages /\ c % Ppc = Ppc - 1 /\ c \in Int /\ Ppc \in Nat \ {0, 1, 2}
      /\ Block(c) \in Blocks
  BY Geometry, BlockOf DEF Checkpoints, Pages, Blocks
<1>2. PICK f \in Pages : f = FirstCheckpoint(b)
  BY FirstCheckpointIs DEF Blocks, Checkpoints
<1>3. Block(f) = b /\ f \in Int
  BY <1>2, FirstCheckpointIs, Geometry DEF Blocks, Pages
<1>4. CASE Block(c) # b
  <2>1. ~(c <= f)
    BY <1>1, <1>2, <1>3, <1>4, BlockOrder DEF Blocks
  <2> QED BY <1>1, <1>2, <1>3, <2>1
<1>5. CASE Block(c) = b
  <2>1. c = Start(c) + (Ppc - 1) /\ FirstOf(b) <= Start(c) /\ Start(c) \in Int
    BY <1>1, <1>5, StartIs
  <2>2. f = FirstOf(b) + (Ppc - 1) /\ FirstOf(b) \in Int
    <3>1. PICK p \in Pages : p = FirstOf(b) /\ p % Ppc = 0
      BY FirstOfBlock DEF Blocks
    <3>2. p \in Int /\ CheckpointOf(Group(p)) = Start(p) + (Ppc - 1)
          /\ p = Start(p) + (p % Ppc) /\ Start(p) \in Int
      BY <3>1, StartIs, Geometry DEF Pages
    <3> QED BY <1>2, <3>1, <3>2 DEF FirstCheckpoint
  <2> QED BY <1>1, <1>2, <2>1, <2>2
<1> QED BY <1>4, <1>5

\* The epoch of the last checkpoint.
LastEpoch(h, e) == IF Start(h) = 0 THEN e - 1 ELSE e

LEMMA EpochInHand ==
    ASSUME NEW n, NEW h \in UserPages, NEW e, Arranged(n, h, e), Start(h) > 0
    PROVE  Epochal(n, e, 0, Block(LastCheck(h)))
<1> DEFINE l == LastCheck(h)
<1>1. /\ l \in Checkpoints /\ l \in Pages /\ l = Start(h) - 1 /\ Start(h) \in Int
      /\ l \in Int /\ Block(l) \in Blocks /\ e \in Int /\ NumBlocks \in Nat \ {0, 1}
  BY LastCheckIs, StartIs, UserPage, BlockOf, Geometry
     DEF Checkpoints, Arranged, Blocks
<1> HIDE DEF l
<1>2. ASSUME NEW b \in 0..Block(l)
      PROVE  FindCheckblock(n, b) = b /\ InEpoch(n, b, e)
  <2>1. b \in Blocks /\ b <= Block(l)
    BY <1>1 DEF Blocks
  <2>2. FirstCheckpoint(b) \in Checkpoints /\ FirstCheckpoint(b) <= l
        /\ FirstCheckpoint(b) \in Int
    BY <1>1, <2>1, FirstCheckpointFirst, FirstCheckpointIs, Geometry
       DEF Blocks, Checkpoints, Pages
  <2>3. n[FirstCheckpoint(b)].kind = "checkpoint" /\ n[FirstCheckpoint(b)].epoch = e
    BY <1>1, <2>2 DEF Arranged
  <2>4. ~IsBad(n, b)
    <3>1. FirstOf(b) <= FirstCheckpoint(b) /\ FirstOf(b) \in Int
      <4>1. PICK f \in Pages : f = FirstCheckpoint(b)
        BY <2>2 DEF Checkpoints
      <4>2. FirstOf(Block(f)) <= Start(f) /\ Start(f) <= f /\ Start(f) \in Int
            /\ Block(f) = b /\ f \in Int
        BY <4>1, <2>1, StartIs, FirstCheckpointIs, Geometry DEF Blocks, Pages
      <4>3. FirstOf(b) \in Int
        BY <2>1, FirstOfBlock, Geometry DEF Blocks, Pages
      <4> QED BY <4>1, <4>2, <4>3
    <3>2. FirstOf(b) # Start(h)
      BY <1>1, <2>2, <3>1
    <3> QED BY <2>1, <3>2 DEF Arranged
  <2>5. FindCheckblock(n, b) = b
    BY <2>1, <2>3, <2>4, FindHere DEF IsCheckpoint
  <2>6. b # None
    BY <2>1 DEF Blocks, None
  <2> QED BY <2>3, <2>5, <2>6 DEF InEpoch
<1>3. ASSUME NEW b \in Block(l) + 1..NumBlocks - 1, InEpoch(n, b, e)
      PROVE  FALSE
  <2>1. b \in Nat /\ b > Block(l)
    BY <1>1 DEF Blocks
  <2>2. PICK c \in Blocks : /\ c = FindCheckblock(n, b) /\ b <= c
                            /\ n[FirstCheckpoint(c)].kind = "checkpoint"
                            /\ n[FirstCheckpoint(c)].epoch = e
    BY <1>3, <2>1, FindCheckblockIs DEF InEpoch, Blocks
  <2>3. PICK f \in Checkpoints : f = FirstCheckpoint(c) /\ Block(f) = c
    BY <2>2, FirstCheckpointIs DEF Blocks
  <2>4. f \in Int
    BY Geometry DEF Checkpoints, Pages
  <2>5. ~(f < Start(h))
    <3> SUFFICES ASSUME f < Start(h) PROVE FALSE
      OBVIOUS
    <3>1. Block(f) <= Block(l)
      BY UpToLastCheck DEF l
    <3> QED BY <1>1, <2>1, <2>2, <2>3, <3>1 DEF Blocks
  <2>6. n[f].epoch = e - 1
    BY <1>1, <2>2, <2>3, <2>4, <2>5 DEF Arranged
  <2> QED BY <1>1, <2>2, <2>3, <2>6
<1>4. 0 \in Blocks /\ 0 <= Block(l)
  BY <1>1 DEF Blocks
<1>5. Epochal(n, e, 0, Block(l))
  BY <1>1, <1>2, <1>3, <1>4 DEF Epochal
<1> QED BY <1>5 DEF l

LEMMA EpochBefore ==
    ASSUME NEW n, NEW h \in UserPages, NEW e, Arranged(n, h, e), Start(h) = 0,
           e > 0, MaxRetries > 1
    PROVE  /\ FindCheckblock(n, 0) \in {0, 1}
           /\ Epochal(n, e - 1, FindCheckblock(n, 0), NumBlocks - 1)
<1> DEFINE first == FindCheckblock(n, 0)
<1>1. /\ NumBlocks \in Nat \ {0, 1} /\ MaxRetries \in Nat \ {0, 1} /\ e \in Int
      /\ Block(h) = 0
  BY LastCheckIs, Geometry, GeometryAssumption DEF Arranged
<1>2. ASSUME NEW b \in Blocks, b # 0
      PROVE  ~IsBad(n, b) /\ IsCheckpoint(n, FirstCheckpoint(b))
  <2>1. FirstOf(b) # 0
    <3>1. FirstOf(0) = 0 /\ 0 \in Blocks
      BY Geometry DEF FirstOf, Blocks
    <3>2. Block(FirstOf(b)) = b /\ Block(FirstOf(0)) = 0
      BY <3>1, FirstOfBlock DEF Blocks
    <3> QED BY <1>2, <3>1, <3>2
  <2>2. ~IsBad(n, b)
    BY <2>1 DEF Arranged
  <2>3. FirstCheckpoint(b) \in Checkpoints /\ Block(FirstCheckpoint(b)) > Block(h)
    BY <1>1, <1>2, FirstCheckpointIs DEF Blocks
  <2>4. n[FirstCheckpoint(b)].kind = "checkpoint"
    BY <2>3 DEF Arranged
  <2> QED BY <2>2, <2>4 DEF IsCheckpoint
<1>3. ASSUME NEW b \in Blocks, IsCheckpoint(n, FirstCheckpoint(b))
      PROVE  n[FirstCheckpoint(b)].epoch = e - 1
  <2>1. FirstCheckpoint(b) \in Checkpoints /\ FirstCheckpoint(b) >= 0
    BY FirstCheckpointIs, Geometry DEF Blocks, Checkpoints, Pages
  <2> QED BY <1>3, <2>1 DEF Arranged, IsCheckpoint
<1>4. first \in {0, 1} /\ (first = 0 => IsCheckpoint(n, FirstCheckpoint(0)))
  <2> DEFINE found == {c \in 0..0 + MaxRetries - 1 :
                         /\ c < NumBlocks /\ ~IsBad(n, c)
                         /\ IsCheckpoint(n, FirstCheckpoint(c))}
             least == CHOOSE c \in found : \A d \in found : c <= d
  <2>1. 1 \in Blocks /\ 1 \in 0..0 + MaxRetries - 1 /\ 1 < NumBlocks
    BY <1>1 DEF Blocks
  <2>2. 1 \in found /\ found \subseteq Nat
    BY <1>1, <1>2, <2>1
  <2>3. first = least
    BY <2>2 DEF FindCheckblock
  <2>4. least \in found /\ \A d \in found : least <= d
    <3> HIDE DEF found
    <3> QED BY <2>2, LeastNatural
  <2>5. least \in Nat /\ least <= 1
    <3> HIDE DEF found, least
    <3> QED BY <2>2, <2>4
  <2>6. IsCheckpoint(n, FirstCheckpoint(least))
    <3>1. \A c \in found : IsCheckpoint(n, FirstCheckpoint(c))
      OBVIOUS
    <3> HIDE DEF found, least
    <3> QED BY <2>4, <3>1
  <2> HIDE DEF found, least, first
  <2>7. least \in {0, 1}
    BY <2>5
  <2> QED BY <2>3, <2>6, <2>7
<1> HIDE DEF first
<1>5. first \in Blocks /\ NumBlocks - 1 \in Blocks /\ first <= NumBlocks - 1
  BY <1>1, <1>4 DEF Blocks
<1>6. ASSUME NEW b \in first..NumBlocks - 1
      PROVE  FindCheckblock(n, b) = b /\ InEpoch(n, b, e - 1)
  <2>1. b \in Blocks /\ b # None
    BY <1>1, <1>4 DEF Blocks, None
  <2>2. FindCheckblock(n, b) = b /\ IsCheckpoint(n, FirstCheckpoint(b))
    <3>1. CASE b = 0
      BY <1>1, <1>4, <3>1 DEF first
    <3>2. CASE b # 0
      BY <1>2, <2>1, <3>2, FindHere
    <3> QED BY <3>1, <3>2
  <2>3. n[FirstCheckpoint(b)].epoch = e - 1
    BY <1>3, <2>1, <2>2
  <2> QED BY <2>1, <2>2, <2>3 DEF InEpoch
<1>7. Epochal(n, e - 1, first, NumBlocks - 1)
  <2>1. \A b \in (NumBlocks - 1) + 1..NumBlocks - 1 : FALSE
    BY <1>1
  <2> QED BY <1>5, <1>6, <2>1 DEF Epochal
<1> QED BY <1>4, <1>7 DEF first

LEMMA InGroupsOf ==
    ASSUME NEW p \in Pages
    PROVE  Group(p) \in GroupsOf(Block(p)) /\ Group(p) \in Int
<1>1. /\ p \in Int /\ Ppc \in Nat \ {0, 1, 2} /\ Ppb \in Nat \ {0}
      /\ Ppb \div Ppc \in Nat \ {0} /\ Ppb = Ppc * (Ppb \div Ppc)
  BY Geometry DEF Pages
<1>2. PICK b \in Blocks : b = Block(p)
  BY BlockOf DEF Blocks
<1>3. b * Ppb <= p /\ p < b * Ppb + Ppb /\ b \in Int
  BY <1>2, BlockOf, Geometry DEF Blocks
<1>4. PICK g \in Int, i \in 0..Ppc - 1 : g = Group(p) /\ p = g * Ppc + i
  BY <1>1, GroupOf
<1>5. PICK G \in Nat \ {0}, c \in Int : G = Ppb \div Ppc /\ c = b + 1
  BY <1>1, <1>3
<1>6. PICK k \in Int, m \in Int : k = b * G /\ m = c * G
  BY <1>3, <1>5
<1>7. Group(FirstOf(b)) = k /\ Group(FirstOf(b + 1)) = m
  BY <1>5, <1>6, GroupsOfBlock
<1>8. b * Ppb = k * Ppc /\ b * Ppb + Ppb = m * Ppc
  <2>1. Ppb = Ppc * G /\ c = b + 1 /\ k = b * G /\ m = c * G
    BY <1>1, <1>5, <1>6
  <2>2. Ppc \in Int /\ G \in Int /\ b \in Int
    BY <1>1, <1>3
  <2>3. b * (Ppc * G) = (b * G) * Ppc
        /\ b * (Ppc * G) + Ppc * G = ((b + 1) * G) * Ppc
    BY ONLY <2>2
  <2> QED BY ONLY <2>1, <2>3
<1>9. k <= g
  <2> SUFFICES ASSUME g + 1 <= k PROVE FALSE
    BY <1>4, <1>6
  <2>1. (g + 1) * Ppc <= k * Ppc /\ (g + 1) * Ppc = g * Ppc + Ppc
        /\ g * Ppc \in Int /\ k * Ppc \in Int
    BY <1>1
  <2> QED BY <1>1, <1>3, <1>4, <1>8, <2>1
<1>10. g <= m - 1
  <2> SUFFICES ASSUME m <= g PROVE FALSE
    BY <1>4, <1>6
  <2>1. m * Ppc <= g * Ppc /\ g * Ppc \in Int /\ m * Ppc \in Int
    BY <1>1
  <2> QED BY <1>1, <1>3, <1>4, <1>8, <2>1
<1> QED BY <1>2, <1>4, <1>6, <1>7, <1>9, <1>10 DEF GroupsOf

\* find_root finds the last checkpoint.
LEMMA RootIsLast ==
    ASSUME NEW n \in Flash, Filled(n), NEW h \in UserPages, NEW e,
           Arranged(n, h, e), Written(h, e)
    PROVE  LET l == LastCheck(h)
           IN  /\ RootCheckpoint(n, LastGroup(n, Block(l)), LastEpoch(h, e)) = l
               /\ n[l].kind = "checkpoint"
               /\ Group(l) <= Group(LastGroup(n, Block(l)))
<1> DEFINE start == LastGroup(n, Block(LastCheck(h)))
           d == LastEpoch(h, e)
<1>1. PICK l \in Checkpoints : l = LastCheck(h)
  BY LastCheckIs
<1>2. PICK b \in Blocks : b = Block(l)
  BY BlockOf DEF Blocks, Checkpoints
<1>3. /\ l \in Pages /\ l \in Int /\ Start(h) \in Int /\ 0 <= Start(h)
      /\ Ppc \in Nat \ {0, 1, 2} /\ e \in Int /\ NumPages \in Int
      /\ Start(h) > 0 => l = Start(h) - 1
      /\ Start(h) = 0 => l = NumPages - 1 /\ e > 0
  <2>1. l \in Pages /\ l \in Int /\ Ppc \in Nat \ {0, 1, 2} /\ NumPages \in Int
    BY Geometry DEF Checkpoints, Pages
  <2>2. Start(h) \in Int /\ 0 <= Start(h)
    BY UserPage, StartIs
  <2>3. e \in Int /\ (Start(h) = 0 => e > 0)
    BY <2>2 DEF Arranged, Written
  <2>4. /\ Start(h) > 0 => l = Start(h) - 1
        /\ Start(h) = 0 => l = NumPages - 1
    BY <1>1, LastCheckIs
  <2> QED BY <2>1, <2>2, <2>3, <2>4
<1>4. n[l].kind = "checkpoint" /\ n[l].epoch = d
  <2>1. CASE Start(h) > 0
    <3>1. l < Start(h)
      BY <1>3, <2>1
    <3> QED BY <2>1, <3>1 DEF Arranged, LastEpoch
  <2>2. CASE Start(h) = 0
    <3>1. Block(h) = 0 /\ Block(l) = NumBlocks - 1
      BY <1>1, <2>2, LastCheckIs
    <3>2. e > 0 /\ Block(l) > Block(h)
      BY <1>3, <2>2, <3>1, Geometry
    <3>3. n[l].kind = "checkpoint"
      BY <3>2 DEF Arranged
    <3>4. l >= Start(h)
      BY <1>3, <2>2 DEF Pages
    <3> QED BY <2>2, <3>3, <3>4 DEF Arranged, LastEpoch
  <2> QED BY <1>3, <2>1, <2>2
<1>5. PICK s \in Pages : s = start
  BY <1>1, <1>2, LastGroupIs
<1>6. Block(s) = b /\ s % Ppc = 0 /\ s \in Int
  BY <1>1, <1>2, <1>5, LastGroupIs, Geometry DEF Pages
<1>7. LastGroupFound(n, b)
  BY FilledGroups, LastGroupIsLast
<1>8. Group(l) <= Group(s)
  <2>1. Group(l) \in GroupsOf(b) /\ Group(l) \in Int
    BY <1>2, <1>3, InGroupsOf
  <2>2. ~GroupFree(n, Group(l))
    <3>1. PICK i \in 0..Ppc - 1, g \in Int :
             i = l % Ppc /\ g = Group(l) /\ l = g * Ppc + i
      BY <1>3, GroupOf
    <3>2. n[l] # Free
      BY <1>4, FreeHasNoFields
    <3> QED BY <3>1, <3>2 DEF GroupFree
  <2>3. Group(s) \in Int
    BY <1>6, GroupOf
  <2> QED BY <1>1, <1>2, <1>5, <1>7, <2>1, <2>2, <2>3 DEF LastGroupFound
<1>9. l <= s + (Ppc - 1) /\ FirstOf(b) <= l /\ FirstOf(b) \in Int
  <2>1. PICK g \in Int, k \in Int : g = Group(l) /\ k = Group(s)
    BY <1>3, <1>6, GroupOf
  <2>2. PICK x \in Int, y \in Int : x = g * Ppc /\ y = k * Ppc
    BY <1>3
  <2>3. x <= y
    BY <1>3, <1>8, <2>1, <2>2
  <2>4. Start(l) = x /\ Start(s) = y
    BY <2>1, <2>2 DEF Start
  <2>5. l <= x + (Ppc - 1) /\ y <= s /\ FirstOf(b) <= x
    BY <1>2, <1>3, <2>4, StartIs
  <2>6. x <= l
    BY <1>3, <2>4, StartIs
  <2>7. FirstOf(b) \in Int
    BY FirstOfBlock, Geometry DEF Blocks, Pages
  <2> QED BY <1>3, <1>6, <2>3, <2>5, <2>6, <2>7
<1> DEFINE valid == {p \in FirstOf(Block(s))..s + Ppc - 1 :
                       /\ p % Ppc = Ppc - 1 /\ IsCheckpoint(n, p)
                       /\ n[p].epoch = d}
           top == CHOOSE p \in valid : \A q \in valid : q <= p
<1>10. l \in valid
  <2>1. l % Ppc = Ppc - 1
    BY DEF Checkpoints
  <2>2. s + Ppc - 1 = s + (Ppc - 1)
    BY <1>3, <1>6
  <2> QED BY <1>3, <1>4, <1>6, <1>9, <2>1, <2>2 DEF IsCheckpoint
<1>11. ASSUME NEW q \in valid PROVE q <= l /\ q \in Int
  <2>1. /\ q \in Int /\ q <= s + Ppc - 1 /\ FirstOf(b) <= q /\ q % Ppc = Ppc - 1
        /\ n[q].kind = "checkpoint" /\ n[q].epoch = d
    BY <1>3, <1>6, <1>9 DEF IsCheckpoint
  <2>2. q \in Checkpoints
    <3>1. PICK i \in 0..Ppc - 1 : i = Ppc - 1
      BY <1>3
    <3>2. s = Group(s) * Ppc /\ Group(s) * Ppc + i \in Pages
      BY <1>6, <3>1, PageOfGroup
    <3>3. s + i < NumPages /\ 0 <= FirstOf(b)
      <4>1. FirstOf(b) \in Pages
        BY FirstOfBlock DEF Blocks
      <4> QED BY <1>3, <1>6, <3>2, <4>1 DEF Pages
    <3>4. q \in Pages
      BY <1>3, <1>6, <1>9, <2>1, <3>1, <3>3 DEF Pages
    <3> QED BY <2>1, <3>4 DEF Checkpoints
  <2>3. CASE Start(h) = 0
    BY <1>3, <2>1, <2>2, <2>3 DEF Checkpoints, Pages
  <2>4. CASE Start(h) > 0
    <3>1. ~(q >= Start(h))
      <4> SUFFICES ASSUME q >= Start(h) PROVE FALSE
        OBVIOUS
      <4>1. n[q].epoch = e - 1
        BY <2>1, <2>2 DEF Arranged
      <4>2. d = e
        BY <2>4, <1>3 DEF LastEpoch
      <4>3. e - 1 # e
        BY <1>3
      <4> HIDE DEF d
      <4> QED BY <2>1, <4>1, <4>2, <4>3
    <3> QED BY <1>3, <2>1, <2>4, <3>1
  <2> QED BY <1>3, <2>1, <2>3, <2>4
<1>12. RootCheckpoint(n, s, d) = top
  BY <1>10 DEF RootCheckpoint
<1>13. top = l
  <2>1. l \in valid /\ \A q \in valid : q <= l /\ q \in Int
    BY <1>10, <1>11
  <2> HIDE DEF valid
  <2>2. top \in valid /\ \A q \in valid : q <= top
    BY <2>1
  <2>3. top <= l /\ l <= top /\ top \in Int
    BY <2>1, <2>2
  <2> QED BY <1>3, <2>3
<1> QED BY <1>1, <1>4, <1>5, <1>2, <1>8, <1>12, <1>13

\* A group of the block whose last pages are free, with all behind them, is
\* one that find_head may choose.
HeadGroups(n, group) ==
    {g \in Group(group)..Group(group) + Ppb \div Ppc - 1 :
       /\ Block(g * Ppc) = Block(group)
       /\ FreeFrom(n, g) <= Ppc - 2}

LEMMA RoomInBlock ==
    ASSUME NEW n, NEW s \in Pages, s % Ppc = 0,
           s = FirstOf(Block(s)) \/ ~GroupFree(n, Group(s)),
           NEW x \in GroupsOf(Block(s)), NEW f \in 0..Ppc - 2,
           FreeOn(n, x * Ppc + f)
    PROVE  x \in HeadGroups(n, s)
<1>1. PICK b \in Blocks : b = Block(s)
  BY BlockOf DEF Blocks
<1>2. PICK G \in Nat \ {0} : G = Ppb \div Ppc
  BY Geometry
<1>3. PICK lo \in Int, hi \in Int :
         /\ lo = Group(FirstOf(b)) /\ hi = Group(FirstOf(b + 1)) - 1
         /\ hi = lo + G - 1
  <2>1. PICK c \in Int, u \in Int, v \in Int : c = b + 1 /\ u = b * G /\ v = c * G
    BY <1>2 DEF Blocks
  <2>2. Group(FirstOf(b)) = u /\ Group(FirstOf(b + 1)) = v
    BY <1>2, <2>1, GroupsOfBlock
  <2>3. v = u + G
    <3>1. b \in Int /\ G \in Int
      BY <1>2, Geometry DEF Blocks
    <3>2. (b + 1) * G = b * G + G
      BY ONLY <3>1
    <3> QED BY <2>1, <3>2
  <2>4. PICK w \in Int : w = v - 1
    BY <2>1
  <2>5. w = u + G - 1
    BY <1>2, <2>1, <2>3, <2>4
  <2> QED BY <2>1, <2>2, <2>4, <2>5
<1>4. GroupsOf(b) = lo..hi /\ Ppc \in Nat \ {0, 1, 2} /\ f \in Int /\ f \in 0..Ppc - 1
  BY <1>3, Geometry DEF GroupsOf
<1>5. x \in Int /\ lo <= x /\ x <= hi /\ Block(x * Ppc) = b
  BY <1>1, <1>3, <1>4, GroupsOfBlock
<1>6. PICK k \in Int : k = Group(s) /\ s = k * Ppc /\ lo <= k /\ k <= hi
  <2>1. s \in Int
    BY Geometry DEF Pages
  <2>2. Group(s) \in Int
    BY <2>1, GroupOf
  <2>3. Group(s) \in lo..hi
    BY <1>1, <1>4, InGroupsOf
  <2>4. PICK i \in 0..Ppc - 1 : i = 0
    BY <1>4
  <2>5. s = Group(s) * Ppc
    BY <2>4, PageOfGroup
  <2> QED BY <1>3, <2>2, <2>3, <2>5
<1>7. PICK m \in Int : m = x * Ppc
  BY <1>4, <1>5
<1>8. ASSUME NEW g \in Int, x <= g, Block(g * Ppc) = b, NEW i \in 0..Ppc - 1,
             g > x \/ f <= i
      PROVE  n[g * Ppc + i] = Free
  <2>1. PICK p \in Int : p = g * Ppc
    BY <1>4
  <2>2. Block(p + i) = b
    BY <1>4, <1>8, <2>1, GroupPage
  <2>3. p + i \in Pages
    BY <1>4, <2>1, <2>2, PageOfBlock DEF Blocks
  <2>4. Block(m + f) = b
    BY <1>4, <1>5, <1>7, GroupPage
  <2>5. m + f <= p + i
    <3>1. CASE g = x
      BY <1>4, <1>7, <1>8, <2>1, <3>1
    <3>2. CASE g > x
      <4>1. (x + 1) * Ppc <= g * Ppc
        BY <1>4, <1>5, <3>2
      <4>2. (x + 1) * Ppc = x * Ppc + Ppc
        BY <1>4, <1>5
      <4> QED BY <1>4, <1>7, <2>1, <4>1, <4>2
    <3> QED BY <1>5, <1>8, <3>1, <3>2
  <2> QED BY <1>7, <2>1, <2>2, <2>3, <2>4, <2>5 DEF FreeOn
<1>9. k <= x
  <2> SUFFICES ASSUME k > x PROVE FALSE
    BY <1>5
  <2>1. Block(k * Ppc) = b /\ x <= k
    BY <1>1, <1>5, <1>6
  <2>2. GroupFree(n, k)
    BY <1>6, <1>8, <2>1 DEF GroupFree
  <2>3. s = FirstOf(b)
    BY <1>1, <1>6, <2>2
  <2>4. k = lo
    BY <1>3, <1>6, <2>3
  <2> QED BY <1>5, <2>4
<1>10. FreeFrom(n, x) <= f
  <2>1. PICK y \in 0..Ppc : y = FreeFrom(n, x)
    BY FreeFromIs
  <2>2. y # 0 => n[x * Ppc + (y - 1)] # Free
    BY <2>1, FreeFromIs
  <2> SUFFICES ASSUME y > f PROVE FALSE
    BY <1>4, <2>1
  <2>3. PICK i \in 0..Ppc - 1 : i = y - 1 /\ f <= i
    BY <1>4, <2>1
  <2>4. n[x * Ppc + i] = Free
    BY <1>5, <1>8, <2>3
  <2> QED BY <1>4, <2>2, <2>3, <2>4
<1>11. FreeFrom(n, x) <= Ppc - 2
  <2>1. PICK y \in 0..Ppc : y = FreeFrom(n, x)
    BY FreeFromIs
  <2> QED BY <1>4, <1>10, <2>1
<1>12. x \in k..k + G - 1
  BY <1>2, <1>3, <1>5, <1>6, <1>9
<1> QED BY <1>1, <1>2, <1>5, <1>6, <1>11, <1>12 DEF HeadGroups

\* The head is the first free page of the first such group, or on the first
\* page of the next block.
LEMMA FindHeadChooses ==
    ASSUME NEW n, NEW jj \in Journal, NEW s \in Pages, s % Ppc = 0
    PROVE  LET f    == FindHead(n, jj, s)
               next == NextBlock(Block(s))
           IN  /\ f \in Journal => f.root = jj.root
               /\ HeadGroups(n, s) # {} =>
                    \E g \in HeadGroups(n, s) :
                       /\ g \in Int /\ f.head = g * Ppc + FreeFrom(n, g)
                       /\ FreeFrom(n, g) \in 0..Ppc - 2
                       /\ f.tail = jj.tail /\ f.root = jj.root
               /\ HeadGroups(n, s) = {} =>
                    /\ f.head = FirstOf(next) /\ f.root = jj.root
                    /\ Block(jj.tail) # next => f.tail = jj.tail
                    /\ Block(jj.tail) = next => f.tail = FirstOf(NextBlock(next))
<1> DEFINE groups == {g \in Group(s)..Group(s) + Ppb \div Ppc - 1 :
                        /\ Block(g * Ppc) = Block(s)
                        /\ FreeFrom(n, g) <= Ppc - 2}
           first == CHOOSE g \in groups : \A h \in groups : g <= h
           next == NextBlock(Block(s))
           f == FindHead(n, jj, s)
<1>1. groups = HeadGroups(n, s)
  BY DEF HeadGroups
<1>2. /\ Ppc \in Nat \ {0, 1, 2} /\ Ppb \div Ppc \in Nat \ {0} /\ s \in Int /\ 0 <= s
  BY Geometry DEF Pages
<1>3. Group(s) \in Nat
  <2>1. PICK g \in Int : g = Group(s) /\ s = g * Ppc
    BY <1>2, PageOfGroup, GroupOf
  <2>2. g >= 0
    BY <1>2, <2>1
  <2> QED BY <2>1, <2>2
<1>4. CASE groups # {}
  <2>1. f = [jj EXCEPT !.head = first * Ppc + FreeFrom(n, first)]
    BY <1>4 DEF FindHead
  <2>2. groups \subseteq Nat
    BY <1>2, <1>3
  <2>3. first \in groups
    <3> HIDE DEF groups
    <3> QED BY <1>4, <2>2, LeastNatural
  <2>4. FreeFrom(n, first) <= Ppc - 2
    <3>1. \A g \in groups : FreeFrom(n, g) <= Ppc - 2
      OBVIOUS
    <3> HIDE DEF groups, first
    <3> QED BY <2>3, <3>1
  <2> HIDE DEF groups, first, f
  <2>5. PICK g \in groups : g = first
    BY <2>3
  <2>6. g \in Int /\ FreeFrom(n, g) \in 0..Ppc - 2
    <3>1. FreeFrom(n, g) \in 0..Ppc
      BY FreeFromIs
    <3> QED BY <1>2, <2>2, <2>4, <2>5, <3>1
  <2>7. f.head = g * Ppc + FreeFrom(n, g) /\ f.tail = jj.tail /\ f.root = jj.root
    BY <2>1, <2>5 DEF Journal
  <2> QED BY <1>1, <1>4, <2>6, <2>7 DEF f
<1>5. CASE groups = {}
  <2> DEFINE k == RollStats([jj EXCEPT !.head = FirstOf(next)])
  <2>1. Block(s) \in 0..NumBlocks - 1 /\ next \in 0..NumBlocks - 1
    <3>1. Block(s) \in 0..NumBlocks - 1
      BY BlockOf
    <3>2. (Block(s) + 1) % NumBlocks \in 0..NumBlocks - 1
      <4>1. PICK c \in Int : c = Block(s) + 1
        BY <3>1, Geometry
      <4>2. NumBlocks \in Nat \ {0}
        BY Geometry
      <4> QED BY <4>1, <4>2, DivMod
    <3> QED BY <3>1, <3>2 DEF NextBlock
  <2>2. FirstOf(next) \in UserPages
    BY <2>1, FirstOrder, Geometry
  <2>3. k \in Journal /\ k.head = FirstOf(next) /\ k.tail = jj.tail /\ k.root = jj.root
    BY <2>2, RollStatsType DEF Journal
  <2>4. f = [k EXCEPT !.tail = IF Block(@) = next THEN FirstOf(NextBlock(next)) ELSE @]
    BY <1>5 DEF FindHead
  <2> HIDE DEF k, f, next
  <2>5. f.head = FirstOf(next) /\ f.root = jj.root
        /\ f.tail = IF Block(jj.tail) = next THEN FirstOf(NextBlock(next)) ELSE jj.tail
    BY <2>3, <2>4 DEF Journal
  <2> QED BY <1>1, <1>5, <2>5 DEF next, f
<1> QED BY <1>4, <1>5

-----------------------------------------------------------------------------
(* Resuming finds the last checkpoint, until the first reset.              *)
LEMMA ResumeFinds ==
    ASSUME NEW n \in Flash, Filled(n), NEW h \in UserPages, NEW e,
           Arranged(n, h, e), Written(h, e), MaxRetries > 1
    PROVE  LET l == LastCheck(h)
           IN  Resume(n) = Restored(n, LastEpoch(h, e), LastGroup(n, Block(l)), l)
<1>1. PICK l : l = LastCheck(h)
  OBVIOUS
<1>2. PICK d : d = LastEpoch(h, e)
  OBVIOUS
<1>3. PICK first : first = FindCheckblock(n, 0)
  OBVIOUS
<1>4. l \in Checkpoints /\ Block(l) \in Blocks /\ 0 <= Start(h) /\ Start(h) \in Int
  BY <1>1, LastCheckIs, BlockOf, StartIs, UserPage DEF Blocks, Checkpoints
<1>5. Epochal(n, d, first, Block(l))
  <2>1. CASE Start(h) > 0
    <3>1. Epochal(n, e, 0, Block(l)) /\ d = e
      BY <1>1, <1>2, <1>4, <2>1, EpochInHand DEF LastEpoch
    <3>2. 0 \in 0..Block(l)
      BY <1>4 DEF Blocks
    <3>3. first = 0
      BY <1>3, <3>1, <3>2 DEF Epochal
    <3> QED BY <3>1, <3>3
  <2>2. CASE Start(h) = 0
    <3>1. e > 0 /\ d = e - 1 /\ Block(l) = NumBlocks - 1
      BY <1>1, <1>2, <2>2, LastCheckIs DEF Written, LastEpoch
    <3> QED BY <1>3, <2>2, <3>1, EpochBefore
  <2> QED BY <1>4, <2>1, <2>2
<1>6. first # None /\ n[FirstCheckpoint(first)].epoch = d
  <2>1. first \in Blocks /\ first \in first..Block(l)
    BY <1>5 DEF Epochal, Blocks
  <2>2. InEpoch(n, first, d) /\ FindCheckblock(n, first) = first
    BY <1>5, <2>1 DEF Epochal
  <2> QED BY <2>2 DEF InEpoch
<1>7. LastCheckblock(n, d, first) = Block(l)
  BY <1>5, LastCheckblockIsLast
<1>8. RootCheckpoint(n, LastGroup(n, Block(l)), d) = l
  BY <1>1, <1>2, RootIsLast
<1>9. l # None
  BY <1>4, Geometry DEF None, Checkpoints, Pages
<1> QED BY <1>1, <1>2, <1>3, <1>6, <1>7, <1>8, <1>9 DEF Resume, ResumeFrom, ResumeIn

\* Without a checkpoint it finds nothing.
LEMMA NothingToFind ==
    ASSUME NEW n, NEW h \in UserPages, NEW e, Arranged(n, h, e), ~Written(h, e)
    PROVE  Resume(n) = EmptyJournal
<1>1. Start(h) = 0 /\ ~(e > 0)
  <2>1. Start(h) \in Int /\ 0 <= Start(h)
    BY StartIs, UserPage
  <2> QED BY <2>1 DEF Written
<1>2. FindCheckblock(n, 0) = None
  <2> SUFFICES ASSUME FindCheckblock(n, 0) # None PROVE FALSE
    OBVIOUS
  <2>1. 0 \in Nat
    OBVIOUS
  <2>2. PICK c \in Blocks : n[FirstCheckpoint(c)].kind = "checkpoint"
    BY <2>1, FindCheckblockIs DEF Blocks
  <2>3. FirstCheckpoint(c) \in Checkpoints
    BY FirstCheckpointIs DEF Blocks
  <2>4. FirstCheckpoint(c) >= 0
    BY <2>3, Geometry DEF Checkpoints, Pages
  <2> QED BY <1>1, <2>2, <2>3, <2>4 DEF Arranged
<1> QED BY <1>2 DEF Resume

\* A group behind a checkpoint's.
LEMMA GroupBehind ==
    ASSUME NEW c \in Checkpoints, NEW g \in Int, g > Group(c)
    PROVE  c + 1 <= g * Ppc
<1>1. c \in Int /\ c % Ppc = Ppc - 1 /\ Ppc \in Nat \ {0, 1, 2}
  BY Geometry DEF Checkpoints, Pages
<1>2. PICK k \in Int : k = Group(c) /\ c = k * Ppc + (Ppc - 1)
  BY <1>1, GroupOf
<1>3. k + 1 <= g /\ k + 1 \in Int
  BY <1>2
<1>4. (k + 1) * Ppc <= g * Ppc
  BY <1>1, <1>3
<1>5. (k + 1) * Ppc = k * Ppc + Ppc /\ k * Ppc \in Int /\ g * Ppc \in Int
  BY <1>1, <1>2
<1> QED BY <1>1, <1>2, <1>4, <1>5

LEMMA NextBlockIs ==
    ASSUME NEW b \in Blocks
    PROVE  /\ NextBlock(b) \in Blocks /\ NextBlock(b) # b
           /\ b + 1 < NumBlocks => NextBlock(b) = b + 1
           /\ b + 1 >= NumBlocks => NextBlock(b) = 0 /\ b = NumBlocks - 1
<1>1. NumBlocks \in Nat \ {0, 1} /\ b \in Int /\ 0 <= b /\ b <= NumBlocks - 1
  BY Geometry DEF Blocks
<1>2. PICK i \in 0..NumBlocks : i = 1
  BY <1>1
<1>3. /\ b + i < NumBlocks => (b + i) % NumBlocks = b + i
      /\ b + i >= NumBlocks => (b + i) % NumBlocks = b + i - NumBlocks
  BY <1>1, Around DEF Blocks
<1>4. NextBlock(b) = (b + i) % NumBlocks
  BY <1>2 DEF NextBlock
<1> QED BY <1>1, <1>2, <1>3, <1>4 DEF Blocks

\* From the head's group, or from a page of it, or from the group after it,
\* the block is free, or the head is about to leave it.
Resumable(n, jj) ==
    Start(jj.head) # FirstOf(Block(jj.head)) =>
      \/ \E f \in 0..Ppc - 2 : FreeOn(n, Start(jj.head) + f)
      \/ /\ Room(jj) /\ (jj.head + 2) % Ppc = 0
         /\ Block(NextUpage(jj.head)) = Block(jj.head)
              => FreeOn(n, NextUpage(jj.head))

\* Where find_head puts the head, and the tail with it.
InHeadsBlock(h, F, f) ==
    Block(f.head) = Block(h) /\ Start(h) <= f.head /\ f.tail = F.tail
OnBlock(b, F, f) ==
    /\ f.head = FirstOf(b)
    /\ Block(F.tail) # b => f.tail = F.tail
    /\ Block(F.tail) = b => f.tail = FirstOf(NextBlock(b))

LEMMA ChosenGroup ==
    ASSUME NEW n \in Flash, NEW h \in UserPages, NEW l, l = LastCheck(h),
           n[l].kind = "checkpoint", NEW s \in Pages, Block(s) = Block(l),
           Group(l) <= Group(s), NEW g \in HeadGroups(n, s)
    PROVE  /\ Start(h) # FirstOf(Block(h)) /\ Block(s) = Block(h)
           /\ g \in Int /\ Start(h) <= g * Ppc /\ Block(g * Ppc) = Block(h)
<1>1. /\ l \in Checkpoints /\ l \in Pages /\ l \in Int /\ Ppc \in Nat \ {0, 1, 2}
      /\ s \in Int /\ Group(s) \in Int /\ Group(l) \in Int /\ Start(h) \in Int
      /\ 0 <= Start(h) /\ NumPages \in Int
  <2>1. l \in Checkpoints /\ l \in Int
    BY LastCheckIs
  <2>2. l \in Pages /\ s \in Int /\ Ppc \in Nat \ {0, 1, 2} /\ NumPages \in Int
    BY <2>1, Geometry DEF Checkpoints, Pages
  <2> QED BY <2>1, <2>2, GroupOf, StartIs, UserPage
<1>2. g \in Int /\ Group(s) <= g /\ Block(g * Ppc) = Block(s)
      /\ FreeFrom(n, g) <= Ppc - 2
  <2>1. g \in Group(s)..Group(s) + Ppb \div Ppc - 1
    BY DEF HeadGroups
  <2>2. Group(s) + Ppb \div Ppc - 1 \in Int
    BY <1>1, Geometry
  <2>3. g \in Int /\ Group(s) <= g
    BY <1>1, <2>1, <2>2
  <2> QED BY <2>3 DEF HeadGroups
<1>3. g # Group(l)
  <2> SUFFICES ASSUME g = Group(l) PROVE FALSE
    OBVIOUS
  <2>1. l = g * Ppc + (Ppc - 1)
    <3>1. l % Ppc = Ppc - 1
      BY <1>1 DEF Checkpoints
    <3> QED BY <1>1, <3>1, GroupOf
  <2>2. PICK i \in 0..Ppc - 1 : i = Ppc - 1
    BY <1>1
  <2>3. n[g * Ppc + i] = Free
    <3>1. FreeFrom(n, g) \in Int
      BY FreeFromIs
    <3>2. FreeFrom(n, g) <= i
      BY <1>1, <1>2, <2>2, <3>1
    <3> QED BY <3>2, FreeFromIs
  <2> QED BY <1>1, <2>1, <2>2, <2>3, CheckpointPage
<1>4. PICK x \in Int : x = g * Ppc
  BY <1>1, <1>2
<1>5. x \in Pages
  BY <1>1, <1>2, <1>4, BlockOf, PageOfBlock
<1>6. l + 1 <= x
  <2>1. g > Group(l)
    BY <1>1, <1>2, <1>3
  <2> QED BY <1>1, <1>2, <1>4, <2>1, GroupBehind
<1>7. Start(h) > 0 /\ Start(h) = l + 1
  <2>1. Start(h) # 0
    BY <1>1, <1>5, <1>6, LastCheckIs DEF Pages
  <2> QED BY <1>1, <2>1, LastCheckIs
<1>8. Start(h) # FirstOf(Block(h))
  <2> SUFFICES ASSUME Start(h) = FirstOf(Block(h)) PROVE FALSE
    OBVIOUS
  <2>1. NextBlock(Block(l)) = Block(h)
    BY LastCheckIs
  <2>2. Start(h) \in Pages /\ Block(Start(h)) = Block(h)
    BY StartIs, UserPage
  <2>3. Block(h) <= Block(s) /\ Block(l) <= Block(h)
    BY <1>1, <1>2, <1>4, <1>5, <1>6, <1>7, <2>2, BlockOrder
  <2>4. Block(l) \in Blocks /\ Block(h) \in Blocks
    BY <1>1, <2>2, BlockOf DEF Blocks
  <2>5. Block(l) = Block(h)
    BY <2>3, <2>4, Geometry DEF Blocks
  <2> QED BY <2>1, <2>4, <2>5, NextBlockIs
<1>9. Block(s) = Block(h)
  BY <1>8, LastCheckIs
<1> QED BY <1>2, <1>4, <1>6, <1>7, <1>8, <1>9

\* The head's last user page before its checkpoint, at the end of a block.
LEMMA LeavesBlock ==
    ASSUME NEW h \in UserPages, (h + 2) % Ppc = 0,
           Block(NextUpage(h)) # Block(h)
    PROVE  NextUpage(h) = FirstOf(NextBlock(Block(h)))
<1>1. PICK k \in UserPages : k = NextUpage(h)
  BY NextUserPage
<1>2. h \in Pages /\ h \in Int /\ k \in Pages /\ Block(h) \in Blocks
      /\ Block(k) \in Blocks /\ NumBlocks \in Nat \ {0, 1}
  BY <1>1, UserPage, BlockOf, Geometry DEF Blocks
<1>3. \/ k = h + 2 /\ Block(k) = Block(h) + 1 /\ k % Ppb = 0
      \/ k = 0 /\ h + 2 = NumPages /\ Block(h + 1) = Block(h)
  BY <1>1, <1>2, NextUserPage
<1>4. CASE k = h + 2 /\ Block(k) = Block(h) + 1 /\ k % Ppb = 0
  <2>1. k = FirstOf(Block(k))
    BY <1>2, <1>4, Aligned
  <2>2. Block(k) = NextBlock(Block(h))
    BY <1>2, <1>4, NextBlockIs DEF Blocks
  <2> QED BY <1>1, <2>1, <2>2
<1>5. CASE k = 0 /\ h + 2 = NumPages /\ Block(h + 1) = Block(h)
  <2>1. NumPages - 1 = h + 1
    BY <1>2, <1>5
  <2>2. Block(h) = NumBlocks - 1
    BY <1>5, <2>1, LastPage
  <2>3. NextBlock(Block(h)) = 0
    BY <1>2, <2>2, NextBlockIs
  <2>4. FirstOf(0) = 0
    BY Geometry DEF FirstOf
  <2> QED BY <1>1, <1>5, <2>3, <2>4
<1> QED BY <1>3, <1>4, <1>5

LEMMA NoChosenGroup ==
    ASSUME NEW n, NEW jj \in Journal, Resumable(n, jj),
           NEW s \in Pages, s % Ppc = 0, Block(s) = Block(jj.head),
           s = FirstOf(Block(s)) \/ ~GroupFree(n, Group(s)),
           HeadGroups(n, s) = {}, Start(jj.head) # FirstOf(Block(jj.head))
    PROVE  /\ Room(jj) /\ (jj.head + 2) % Ppc = 0
           /\ NextUpage(jj.head) = FirstOf(NextBlock(Block(jj.head)))
<1>1. PICK h \in UserPages : h = jj.head
  BY DEF Journal
<1>2. Ppc \in Nat \ {0, 1, 2} /\ h \in Pages /\ h \in Int
  BY Geometry, UserPage
<1>3. ASSUME NEW p \in Pages, Block(p) = Block(s), NEW f \in 0..Ppc - 2
      PROVE  ~FreeOn(n, Start(p) + f)
  <2>1. Group(p) \in GroupsOf(Block(s))
    BY <1>3, InGroupsOf
  <2>2. Start(p) = Group(p) * Ppc
    BY DEF Start
  <2> QED BY <2>1, <2>2, RoomInBlock
<1>4. ~ \E f \in 0..Ppc - 2 : FreeOn(n, Start(h) + f)
  BY <1>1, <1>2, <1>3
<1>5. /\ Room(jj) /\ (h + 2) % Ppc = 0
      /\ Block(NextUpage(h)) = Block(h) => FreeOn(n, NextUpage(h))
  BY <1>1, <1>4 DEF Resumable
<1>6. Block(NextUpage(h)) # Block(h)
  <2> SUFFICES ASSUME Block(NextUpage(h)) = Block(h) PROVE FALSE
    OBVIOUS
  <2>1. PICK k \in UserPages : k = NextUpage(h)
    BY NextUserPage
  <2>2. k \in Pages /\ k \in Int /\ k % Ppc = 0
    BY <1>5, <2>1, UserPage, NextGroup
  <2>3. Start(k) = k
    <3>1. k = Start(k) + (k % Ppc) /\ Start(k) \in Int
      BY <2>2, StartIs
    <3> QED BY <2>2, <3>1
  <2>4. PICK f \in 0..Ppc - 2 : f = 0
    BY <1>2
  <2>5. ~FreeOn(n, Start(k) + f)
    BY <1>1, <1>3, <2>1, <2>2
  <2>6. Start(k) + f = k
    BY <2>2, <2>3, <2>4
  <2> QED BY <1>5, <2>1, <2>5, <2>6
<1> QED BY <1>1, <1>5, <1>6, LeavesBlock

\* What resume makes of the head, given the last checkpoint.
HeadFound(n, jj, F, f) ==
    LET h == jj.head
    IN  /\ f.root = F.root
        /\ \/ InHeadsBlock(h, F, f)
           \/ /\ Start(h) # FirstOf(Block(h)) /\ Room(jj)
              /\ NextUpage(h) = FirstOf(NextBlock(Block(h)))
              /\ OnBlock(NextBlock(Block(h)), F, f)
           \/ Start(h) = FirstOf(Block(h)) /\ OnBlock(Block(h), F, f)

LEMMA HeadIsFound ==
    ASSUME NEW n \in Flash, Filled(n), NEW jj \in Journal, NEW e,
           Arranged(n, jj.head, e), Written(jj.head, e), Resumable(n, jj),
           NEW F \in Journal
    PROVE  HeadFound(n, jj, F,
                     FindHead(n, F, LastGroup(n, Block(LastCheck(jj.head)))))
<1>1. PICK h \in UserPages : h = jj.head
  BY DEF Journal
<1>2. PICK l \in Checkpoints : l = LastCheck(h)
  BY LastCheckIs
<1>3. Block(l) \in Blocks /\ Block(h) \in Blocks /\ h \in Pages /\ h \in Int
  BY BlockOf, UserPage DEF Blocks, Checkpoints
<1>4. PICK s \in Pages : /\ s = LastGroup(n, Block(l)) /\ Block(s) = Block(l)
                         /\ s % Ppc = 0
                         /\ s = FirstOf(Block(s)) \/ ~GroupFree(n, Group(s))
  BY <1>3, LastGroupIs
<1>5. n[l].kind = "checkpoint" /\ Group(l) <= Group(s)
  BY <1>1, <1>2, <1>4, RootIsLast
<1>6. PICK f : f = FindHead(n, F, s)
  OBVIOUS
<1>7. CASE HeadGroups(n, s) # {}
  <2>1. PICK g \in HeadGroups(n, s) :
           /\ g \in Int /\ f.head = g * Ppc + FreeFrom(n, g)
           /\ FreeFrom(n, g) \in 0..Ppc - 2
           /\ f.tail = F.tail /\ f.root = F.root
    BY <1>4, <1>6, <1>7, FindHeadChooses
  <2>2. /\ Start(h) <= g * Ppc /\ Block(g * Ppc) = Block(h)
    BY <1>2, <1>4, <1>5, ChosenGroup
  <2>3. PICK i \in 0..Ppc - 1 : i = FreeFrom(n, g)
    BY <2>1, Geometry
  <2>4. Block(g * Ppc + i) = Block(h)
    BY <2>1, <2>2, GroupPage
  <2>5. Start(h) <= g * Ppc + i
    <3>1. g * Ppc \in Int /\ Start(h) \in Int /\ i \in Nat
      BY <1>3, <2>1, <2>3, StartIs, Geometry
    <3> QED BY <2>2, <3>1
  <2> QED BY <1>1, <1>2, <1>4, <1>6, <2>1, <2>3, <2>4, <2>5
          DEF HeadFound, InHeadsBlock
<1>8. CASE HeadGroups(n, s) = {}
  <2>1. /\ f.head = FirstOf(NextBlock(Block(l))) /\ f.root = F.root
        /\ Block(F.tail) # NextBlock(Block(l)) => f.tail = F.tail
        /\ Block(F.tail) = NextBlock(Block(l))
             => f.tail = FirstOf(NextBlock(NextBlock(Block(l))))
    BY <1>4, <1>6, <1>8, FindHeadChooses
  <2>2. OnBlock(NextBlock(Block(l)), F, f)
    BY <2>1 DEF OnBlock
  <2>3. CASE Start(h) = FirstOf(Block(h))
    <3>1. NextBlock(Block(l)) = Block(h)
      BY <1>2, <2>3, LastCheckIs
    <3> QED BY <1>1, <1>2, <1>4, <1>6, <2>1, <2>2, <2>3, <3>1 DEF HeadFound
  <2>4. CASE Start(h) # FirstOf(Block(h))
    <3>1. Block(l) = Block(h)
      BY <1>2, <2>4, LastCheckIs
    <3>2. Room(jj) /\ NextUpage(h) = FirstOf(NextBlock(Block(h)))
      BY <1>1, <1>4, <1>8, <2>4, <3>1, NoChosenGroup
    <3> QED BY <1>1, <1>2, <1>4, <1>6, <2>1, <2>2, <2>4, <3>1, <3>2 DEF HeadFound
  <2> QED BY <2>3, <2>4
<1> QED BY <1>7, <1>8

-----------------------------------------------------------------------------
(* The tree of the last checkpoint, until the first reset.                 *)
Snap(n, h) ==
    [EmptyJournal EXCEPT !.head = Start(h), !.tail = n[LastCheck(h)].tail,
                         !.tailSync = n[LastCheck(h)].tail,
                         !.root = LastCheck(h) - 1]

\* Its pages are not among those from the head's group on in its block.
LEMMA BeforeStart ==
    ASSUME NEW h \in UserPages, NEW t \in UserPages, Behind(t, Start(h)),
           NEW p \in Pages, Within(t, Start(h), p)
    PROVE  (Block(p) # Block(h) \/ p < Start(h)) /\ Group(p) # Group(h)
<1>1. PICK s \in Pages : s = Start(h) /\ Block(s) = Block(h) /\ s \in Int
  BY StartIs, UserPage
<1>2. t \in Pages /\ t \in Int /\ p \in Int /\ h \in Pages
  BY UserPage, Geometry DEF Pages
<1>3. Block(p) # Block(h) \/ p < s
  <2> SUFFICES ASSUME Block(p) = Block(h), p >= s PROVE FALSE
    BY <1>1, <1>2
  <2>1. s < t /\ t <= p
    BY <1>1, <1>2 DEF Within
  <2>2. Block(s) <= Block(t) /\ Block(t) <= Block(p)
    BY <1>1, <1>2, <2>1, BlockOrder
  <2>3. Block(s) \in Int /\ Block(t) \in Int
    BY <1>1, <1>2, BlockOf
  <2>4. Block(t) = Block(s)
    BY <1>1, <2>2, <2>3
  <2> QED BY <1>1, <1>2, <2>1, <2>4 DEF Behind
<1>4. Group(p) # Group(h)
  <2> SUFFICES ASSUME Group(p) = Group(h) PROVE FALSE
    OBVIOUS
  <2>1. Block(p) = Block(h)
    BY <1>2, GroupInBlock, UserPage
  <2>2. Start(p) = s /\ Start(p) <= p
    BY <1>1, <1>2, StartIs DEF Start
  <2> QED BY <1>1, <1>2, <1>3, <2>1, <2>2
<1> QED BY <1>1, <1>3, <1>4

\* The head further on in the block.
LEMMA InBlockFound ==
    ASSUME NEW h \in UserPages, NEW t \in UserPages, Behind(t, Start(h)),
           NEW p \in Pages, Within(t, Start(h), p),
           NEW k \in UserPages, Block(k) = Block(h), Start(h) <= k
    PROVE  Within(t, k, p) /\ Group(p) # Group(k)
<1>1. PICK s \in Pages : /\ s = Start(h) /\ Block(s) = Block(h) /\ s \in Int
                         /\ Group(s) = Group(h)
  BY StartIs, UserPage
<1>2. /\ t \in Pages /\ t \in Int /\ p \in Int /\ h \in Pages /\ k \in Pages
      /\ k \in Int
  BY UserPage, Geometry DEF Pages
<1>3. s < t => k < t
  <2> SUFFICES ASSUME s < t, t <= k PROVE FALSE
    BY <1>2
  <2>1. Block(s) <= Block(t) /\ Block(t) <= Block(k)
    BY <1>1, <1>2, BlockOrder
  <2>2. Block(t) = Block(s)
    BY <1>1, <1>2, <2>1, BlockOf
  <2> QED BY <1>1, <1>2, <2>2 DEF Behind
<1>4. Within(t, k, p)
  BY <1>1, <1>2, <1>3 DEF Within
<1>5. Group(p) # Group(k)
  <2> SUFFICES ASSUME Group(p) = Group(k) PROVE FALSE
    OBVIOUS
  <2>1. Block(p) = Block(k)
    BY <1>2, GroupInBlock
  <2>2. p < s
    BY <1>1, <2>1, BeforeStart
  <2>3. Group(p) <= Group(s) /\ Group(s) <= Group(k)
    <3>1. p <= s /\ s <= k /\ Ppc \in Nat \ {0}
      BY <1>1, <1>2, <2>2, Geometry
    <3>2. p \div Ppc <= s \div Ppc /\ s \div Ppc <= k \div Ppc
      BY <1>1, <1>2, <3>1, DivOrder
    <3> QED BY <3>2 DEF Group
  <2>4. Group(p) \in Int /\ Group(s) \in Int /\ Group(k) \in Int
    BY <1>1, <1>2, GroupOf
  <2>5. Group(p) = Group(h)
    BY <1>1, <2>3, <2>4
  <2> QED BY <2>5, BeforeStart
<1> QED BY <1>4, <1>5

\* What lies behind the last-synced tail is not on the next block, if the
\* head may go there.
LEMMA NotOnNext ==
    ASSUME NEW h \in UserPages, NEW t \in UserPages, Behind(t, Start(h)),
           NEW p \in Pages, Within(t, Start(h), p),
           Block(t) # NextBlock(Block(h))
    PROVE  Block(p) # NextBlock(Block(h))
<1>1. PICK s \in Pages : s = Start(h) /\ Block(s) = Block(h) /\ s \in Int
  BY StartIs, UserPage
<1>2. PICK b \in Blocks : b = Block(h)
  BY BlockOf, UserPage DEF Blocks
<1>3. PICK c \in Blocks : c = NextBlock(b)
  BY NextBlockIs
<1>4. /\ t \in Pages /\ t \in Int /\ p \in Int /\ b \in Int /\ 0 <= b
      /\ c \in Int
      /\ b + 1 < NumBlocks => c = b + 1
      /\ b + 1 >= NumBlocks => c = 0 /\ b = NumBlocks - 1
      /\ NumBlocks \in Nat \ {0, 1} /\ Block(t) \in Blocks /\ Block(t) \in Int
      /\ 0 <= Block(t) /\ Block(t) <= NumBlocks - 1 /\ Block(p) \in Int
  <2>1. /\ t \in Pages /\ t \in Int /\ p \in Int
    BY UserPage, Geometry DEF Pages
  <2>2. /\ NumBlocks \in Nat \ {0, 1} /\ Block(t) \in Blocks /\ Block(t) \in Int
        /\ 0 <= Block(t) /\ Block(t) <= NumBlocks - 1 /\ Block(p) \in Int
        /\ b \in Int /\ 0 <= b /\ c \in Int
    BY <2>1, BlockOf, Geometry DEF Blocks
  <2>3. /\ b + 1 < NumBlocks => c = b + 1
        /\ b + 1 >= NumBlocks => c = 0 /\ b = NumBlocks - 1
    BY <1>3, NextBlockIs
  <2> QED BY <2>1, <2>2, <2>3
<1> SUFFICES ASSUME Block(p) = c PROVE FALSE
  BY <1>2, <1>3
<1>5. Block(t) # c
  BY <1>2, <1>3
<1>6. t <= p => Block(t) <= c
  BY <1>4, BlockOrder
<1>7. p < s => c <= b
  BY <1>1, <1>2, <1>4, BlockOrder
<1>8. s < t => b < Block(t)
  <2> SUFFICES ASSUME s < t PROVE b < Block(t)
    OBVIOUS
  <2>1. b <= Block(t)
    BY <1>1, <1>2, <1>4, BlockOrder
  <2>2. b # Block(t)
    BY <1>1, <1>2, <1>4 DEF Behind
  <2> QED BY <1>4, <2>1, <2>2
<1>9. (t <= s => t <= p /\ p < s) /\ (~(t <= s) => t <= p \/ p < s)
  BY <1>1 DEF Within
<1>10. b # c
  BY <1>2, <1>3, NextBlockIs
<1>11. CASE t <= s
  BY <1>4, <1>5, <1>6, <1>7, <1>9, <1>10, <1>11
<1>12. CASE s < t
  BY <1>1, <1>4, <1>5, <1>6, <1>7, <1>8, <1>9, <1>10, <1>12
<1> QED BY <1>1, <1>4, <1>11, <1>12

\* The head on the next block.
LEMMA OnNextFound ==
    ASSUME NEW h \in UserPages, NEW t \in UserPages, Behind(t, Start(h)),
           NEW p \in Pages, Within(t, Start(h), p),
           NEW c, c = NextBlock(Block(h)), Block(p) # c, NEW u,
           Block(t) # c => u = t, Block(t) = c => u = FirstOf(NextBlock(c))
    PROVE  Within(u, FirstOf(c), p) /\ Group(p) # Group(FirstOf(c))
<1>1. PICK s \in Pages : s = Start(h) /\ Block(s) = Block(h) /\ s \in Int
  BY StartIs, UserPage
<1>2. PICK b \in Blocks : b = Block(h)
  BY BlockOf, UserPage DEF Blocks
<1>3. c \in Blocks /\ NextBlock(c) \in Blocks /\ NextBlock(c) # c
  BY <1>2, NextBlockIs
<1>4. PICK k \in Pages : k = FirstOf(c) /\ Block(k) = c /\ k \in Int
  BY <1>3, FirstOfBlock, Geometry DEF Blocks, Pages
<1>5. PICK m \in Pages : m = FirstOf(NextBlock(c)) /\ Block(m) = NextBlock(c) /\ m \in Int
  BY <1>3, FirstOfBlock, Geometry DEF Blocks, Pages
<1>6. t \in Pages /\ t \in Int /\ p \in Int
  BY UserPage, Geometry DEF Pages
<1>7. \A x \in Pages : x \in Int /\ (Block(x) < c => x < k) /\ (Block(x) > c => k < x)
                       /\ (x < k => Block(x) < c) /\ Block(x) \in Int
  <2> SUFFICES ASSUME NEW x \in Pages
               PROVE  /\ x \in Int /\ Block(x) \in Int /\ (Block(x) < c => x < k)
                      /\ (Block(x) > c => k < x) /\ (x < k => Block(x) < c)
    OBVIOUS
  <2>1. x \in Int /\ Block(x) \in Int /\ c \in Int
    BY <1>3, BlockOf, Geometry DEF Pages, Blocks
  <2>2. x < k => Block(x) < c
    <3> SUFFICES ASSUME x < k PROVE Block(x) < c
      OBVIOUS
    <3>1. Block(x) <= c
      BY <1>4, <2>1, BlockOrder
    <3>2. Block(x) # c
      <4>1. FirstOf(Block(x)) <= x
        BY BlockOf DEF FirstOf
      <4> QED BY <1>4, <2>1, <4>1
    <3> QED BY <2>1, <3>1, <3>2
  <2>3. k <= x => c <= Block(x)
    BY <1>4, BlockOrder
  <2> QED BY <1>4, <2>1, <2>2, <2>3
<1>8. Group(p) # Group(k)
  BY <1>4, <1>6, GroupInBlock
<1>9. Within(u, k, p)
  <2>1. CASE Block(t) = c
    <3>1. u = m
      BY <1>5, <2>1
    <3>2. CASE c + 1 < NumBlocks
      <4>1. NextBlock(c) = c + 1
        BY <1>3, <3>2, NextBlockIs
      <4>2. Block(p) > c => m <= p
        <5> SUFFICES ASSUME Block(p) > c PROVE m <= p
          OBVIOUS
        <5>1. Block(p) >= c + 1 /\ c \in Int /\ Block(p) \in 0..NumBlocks - 1
              /\ c + 1 \in 0..NumBlocks - 1
          BY <1>3, <1>7, <4>1, BlockOf DEF Blocks
        <5>2. FirstOf(c + 1) <= FirstOf(Block(p))
          BY <5>1, FirstOrder
        <5>3. FirstOf(Block(p)) <= p /\ FirstOf(Block(p)) \in Int
          BY <5>1, BlockOf, FirstOfBlock, Geometry DEF FirstOf, Pages
        <5> QED BY <1>5, <1>6, <4>1, <5>2, <5>3
      <4>3. k < m
        BY <1>3, <1>5, <1>7, <4>1 DEF Blocks
      <4>4. Block(p) < c => p < k
        BY <1>7
      <4>5. Block(p) < c \/ Block(p) > c
        BY <1>3, <1>7 DEF Blocks
      <4> QED BY <1>4, <1>5, <1>6, <3>1, <4>2, <4>3, <4>4, <4>5 DEF Within
    <3>3. CASE c + 1 >= NumBlocks
      <4>1. NextBlock(c) = 0 /\ c = NumBlocks - 1
        BY <1>3, <3>3, NextBlockIs
      <4>2. m = 0
        BY <1>5, <4>1, Geometry DEF FirstOf
      <4>3. Block(p) < c
        BY <4>1, BlockOf, Geometry
      <4>4. p < k /\ 0 <= p
        BY <1>7, <4>3, Geometry DEF Pages
      <4> QED BY <1>4, <1>6, <3>1, <4>2, <4>4 DEF Within
    <3> QED BY <1>3, <3>2, <3>3, Geometry DEF Blocks
  <2>2. CASE Block(t) # c
    <3>1. u = t
      BY <2>2
    <3>2. /\ b \in Int /\ c \in Int
          /\ b + 1 < NumBlocks => c = b + 1
          /\ b + 1 >= NumBlocks => c = 0 /\ b = NumBlocks - 1
          /\ NumBlocks \in Nat /\ Block(t) \in 0..NumBlocks - 1
          /\ Block(p) \in 0..NumBlocks - 1 /\ 0 <= b
      BY <1>2, <1>3, <1>6, BlockOf, NextBlockIs, Geometry DEF Blocks
    <3>3. (t <= s => t <= p /\ p < s) /\ (~(t <= s) => t <= p \/ p < s)
      BY <1>1 DEF Within
    <3>4. t <= p => Block(t) <= Block(p)
      BY <1>6, BlockOrder
    <3>5. (p < s => Block(p) <= b) /\ (t <= s => Block(t) <= b)
      BY <1>1, <1>2, <1>6, BlockOrder
    <3>6. s < t => b < Block(t)
      <4> SUFFICES ASSUME s < t PROVE b < Block(t)
        OBVIOUS
      <4>1. b <= Block(t)
        BY <1>1, <1>2, <1>6, BlockOrder
      <4>2. b # Block(t)
        BY <1>1, <1>2, <1>6 DEF Behind
      <4> QED BY <3>2, <4>1, <4>2
    <3>7. /\ t < k \/ k < t
          /\ t < k => Block(t) < c
          /\ p < k \/ k < p
          /\ Block(p) < c => p < k
      BY <1>4, <1>6, <1>7, <2>2
    <3>8. CASE t <= s
      <4>1. CASE b + 1 < NumBlocks
        <5>1. Block(t) < c /\ Block(p) < c
          BY <3>2, <3>3, <3>5, <3>8, <4>1
        <5>2. t < k /\ p < k
          BY <1>6, <1>7, <5>1
        <5> QED BY <1>4, <1>6, <3>1, <3>3, <3>8, <5>2 DEF Within
      <4>2. CASE b + 1 >= NumBlocks
        <5>1. Block(t) > c
          BY <2>2, <3>2, <4>2
        <5>2. k < t
          BY <1>6, <1>7, <5>1
        <5> QED BY <1>4, <1>6, <3>1, <3>3, <3>8, <5>2 DEF Within
      <4> QED BY <3>2, <4>1, <4>2
    <3>9. CASE s < t
      <4>1. b + 1 < NumBlocks /\ c = b + 1 /\ Block(t) > c
        BY <2>2, <3>2, <3>6, <3>9
      <4>2. k < t
        BY <1>6, <1>7, <4>1
      <4>3. p < s => p < k
        BY <3>2, <3>5, <3>7, <4>1
      <4> QED BY <1>1, <1>4, <1>6, <3>1, <3>3, <3>9, <4>2, <4>3 DEF Within
    <3> QED BY <1>1, <1>6, <3>8, <3>9
  <2> QED BY <2>1, <2>2
<1> QED BY <1>4, <1>8, <1>9

LEMMA SnapIs ==
    ASSUME NEW n \in Flash, Filled(n), NEW h \in UserPages, NEW e,
           Arranged(n, h, e), Written(h, e)
    PROVE  LET l == LastCheck(h)
               S == Snap(n, h)
           IN  /\ l \in Checkpoints /\ n[l] \in CheckpointData
               /\ S \in Journal /\ S.head = Start(h) /\ S.tail = n[l].tail
               /\ S.tailSync = S.tail /\ S.root = l - 1 /\ S.metas = NoMetas
<1> DEFINE S == Snap(n, h)
<1>1. PICK l \in Checkpoints : l = LastCheck(h)
  BY LastCheckIs
<1>2. n[l].kind = "checkpoint" /\ l \in Pages
  BY <1>1, RootIsLast DEF Checkpoints
<1>3. n[l] \in CheckpointData
  BY <1>2, CheckpointPage
<1>4. n[l].tail \in UserPages
  BY <1>3 DEF CheckpointData
<1>5. l - 1 \in UserPages /\ Start(h) \in UserPages
  BY PageBefore, StartIs, UserPage
<1>6. EmptyJournal \in Journal /\ EmptyJournal.metas = NoMetas
  BY EmptyJournalOK DEF JournalOK, EmptyJournal
<1>7. S \in Journal
  BY <1>1, <1>4, <1>5, <1>6 DEF Snap, Journal
<1>8. /\ S.head = Start(h) /\ S.tail = n[l].tail /\ S.tailSync = n[l].tail
      /\ S.root = l - 1 /\ S.metas = NoMetas
  BY <1>1, <1>6 DEF Snap, Journal
<1> HIDE DEF S
<1> QED BY <1>1, <1>3, <1>7, <1>8 DEF S

(* What the last checkpoint keeps is d; the pages of the sectors are       *)
(* behind the last-synced tail, too.                                       *)
SnapOK(n, jj) ==
    LET S == Snap(n, jj.head)
    IN  /\ TreeOK(n, S) /\ Behind(S.tail, S.head)
        /\ \A s \in Sectors :
             TracePath(n, S, s).page # None
               => Within(jj.tailSync, S.head, TracePath(n, S, s).page)

Saved(n, jj, d) ==
    /\ Behind(jj.tailSync, Start(jj.head))
    /\ Written(jj.head, jj.epoch)
         => SnapOK(n, jj) /\ Contents(n, Snap(n, jj.head)) = d
    /\ ~Written(jj.head, jj.epoch) => d = [s \in Sectors |-> Blank]

\* The pages of the tree are the root or belong to a sector.
LEMMA RootOrSector ==
    ASSUME NEW n \in Flash, NEW jj \in Journal, TreeOK(n, jj),
           NEW p \in UserPages, OnTree(n, jj, p)
    PROVE  \/ p = jj.root
           \/ \E s \in Sectors : TracePath(n, jj, s).page = p
<1> SUFFICES ASSUME p # jj.root
             PROVE  ReadMeta(n, jj, p).id \in Sectors
  BY OnTreeFound
<1>1. PICK s \in Sectors, d \in 1..Depth + 1 : p = Walk(n, jj, s)[d]
  BY DEF OnTree
<1>2. p # None
  BY UserPage DEF None
<1>3. Stands(n, jj, s, d, p)
  BY <1>1, <1>2 DEF TreeOK
<1>4. d # 1
  BY <1>1, WalkIs
<1> QED BY <1>3, <1>4 DEF Stands, Node

\* The pages of the last checkpoint's tree are in the log that resume finds.
LEMMA PageFound ==
    ASSUME NEW n, NEW jj \in Journal, NEW F, NEW f,
           HeadFound(n, jj, F, f), f.head \in UserPages, F.tail \in UserPages,
           Behind(F.tail, Start(jj.head)), Behind(jj.tailSync, Start(jj.head)),
           NEW p \in UserPages, Within(F.tail, Start(jj.head), p),
           \/ p = LastCheck(jj.head) - 1
           \/ Within(jj.tailSync, Start(jj.head), p)
    PROVE  Within(f.tail, f.head, p) /\ Group(p) # Group(f.head)
<1>1. PICK h \in UserPages : h = jj.head
  BY DEF Journal
<1>2. PICK b \in Blocks : b = Block(h)
  BY BlockOf, UserPage DEF Blocks
<1>3. h \in Pages /\ p \in Pages /\ p \in Int /\ jj.tailSync \in UserPages
  BY UserPage DEF Journal
<1>4. CASE InHeadsBlock(h, F, f)
  <2>1. Block(f.head) = Block(h) /\ Start(h) <= f.head /\ f.tail = F.tail
    BY <1>4 DEF InHeadsBlock
  <2> QED BY <1>1, <1>3, <2>1, InBlockFound
<1>5. CASE /\ Start(h) # FirstOf(Block(h)) /\ Room(jj)
           /\ NextUpage(h) = FirstOf(NextBlock(Block(h)))
           /\ OnBlock(NextBlock(Block(h)), F, f)
  <2>1. PICK c \in Blocks : c = NextBlock(b) /\ c # b
    BY NextBlockIs
  <2>2. Block(NextUpage(h)) = c
    BY <1>2, <1>5, <2>1, FirstOfBlock DEF Blocks
  <2>3. Block(jj.tailSync) # c
    BY <1>1, <1>2, <1>5, <2>1, <2>2 DEF Room
  <2>4. Block(p) # c
    <3>1. CASE p = LastCheck(h) - 1
      <4>1. LastCheck(h) \in Checkpoints /\ Block(LastCheck(h)) = Block(h)
        BY <1>5, LastCheckIs
      <4>2. Block(p) = Block(h)
        BY <3>1, <4>1, PageBefore
      <4> QED BY <1>2, <2>1, <4>2
    <3>2. CASE Within(jj.tailSync, Start(h), p)
      BY <1>1, <1>2, <1>3, <2>1, <2>3, <3>2, NotOnNext
    <3> QED BY <1>1, <3>1, <3>2
  <2>6. /\ f.head = FirstOf(c)
        /\ Block(F.tail) # c => f.tail = F.tail
        /\ Block(F.tail) = c => f.tail = FirstOf(NextBlock(c))
    BY <1>2, <1>5, <2>1 DEF OnBlock
  <2>7. Within(f.tail, FirstOf(c), p) /\ Group(p) # Group(FirstOf(c))
    <3>1. PICK t, u : t \in UserPages /\ t = F.tail /\ u = f.tail
      OBVIOUS
    <3>2. /\ Behind(t, Start(h)) /\ Within(t, Start(h), p)
          /\ c = NextBlock(Block(h)) /\ Block(p) # c
      BY <1>1, <1>2, <2>1, <2>4, <3>1
    <3>3. /\ Block(t) # c => u = t
          /\ Block(t) = c => u = FirstOf(NextBlock(c))
      BY <2>6, <3>1
    <3>4. p \in Pages
      BY <1>3
    <3>5. Within(u, FirstOf(c), p) /\ Group(p) # Group(FirstOf(c))
      BY <3>1, <3>2, <3>3, <3>4, OnNextFound
    <3> QED BY <3>1, <3>5
  <2> QED BY <2>6, <2>7
<1>6. CASE Start(h) = FirstOf(Block(h)) /\ OnBlock(Block(h), F, f)
  <2>1. f.head = Start(h) /\ Block(f.head) = Block(h) /\ Start(h) <= f.head
        /\ f.head \in Int
    BY <1>3, <1>6, StartIs DEF OnBlock
  <2>2. Block(F.tail) # Block(h)
    <3> SUFFICES ASSUME Block(F.tail) = Block(h) PROVE FALSE
      OBVIOUS
    <3>1. F.tail \in Pages /\ F.tail \in Int
      BY UserPage
    <3>2. F.tail <= Start(h)
      BY <1>1, <1>6, <2>1 DEF Behind
    <3>3. FirstOf(Block(F.tail)) <= F.tail
      BY <3>1, BlockOf DEF FirstOf
    <3>4. F.tail = Start(h)
      BY <1>6, <2>1, <3>1, <3>2, <3>3
    <3> QED BY <1>1, <1>3, <2>1, <3>4 DEF Within
  <2>3. f.tail = F.tail
    BY <1>6, <2>2 DEF OnBlock
  <2> QED BY <1>1, <1>3, <2>1, <2>3, InBlockFound
<1> QED BY <1>1, <1>4, <1>5, <1>6 DEF HeadFound

LEMMA FoundKeeps ==
    ASSUME NEW n \in Flash, Filled(n), NEW jj \in Journal,
           Arranged(n, jj.head, jj.epoch), Written(jj.head, jj.epoch),
           SnapOK(n, jj), Behind(jj.tailSync, Start(jj.head)),
           NEW S, S = Snap(n, jj.head),
           NEW f, HeadFound(n, jj, S, f),
           NEW R \in Journal, R.head = f.head, R.tail = f.tail
    PROVE  Keeps(n, S, n, R)
<1>1. PICK h \in UserPages : h = jj.head
  BY DEF Journal
<1>2. S \in Journal /\ S.head = Start(h) /\ S.root = LastCheck(h) - 1
      /\ S.tail \in UserPages
  <2>1. S \in Journal /\ S.head = Start(h) /\ S.root = LastCheck(h) - 1
    BY <1>1, SnapIs
  <2> QED BY <2>1 DEF Journal
<1>3. TreeOK(n, S) /\ Behind(S.tail, Start(h))
  BY <1>1, <1>2 DEF SnapOK
<1>4. ASSUME NEW s \in Sectors, TracePath(n, S, s).page # None
      PROVE  Within(jj.tailSync, Start(h), TracePath(n, S, s).page)
  BY <1>1, <1>2, <1>4 DEF SnapOK
<1>5. f.head \in UserPages
  BY DEF Journal
<1> SUFFICES ASSUME NEW p \in UserPages, OnTree(n, S, p)
             PROVE  /\ ReadMeta(n, R, p) = ReadMeta(n, S, p)
                    /\ Within(R.tail, R.head, p)
  BY DEF Keeps
<1>6. Within(S.tail, Start(h), p) /\ p \in Pages
  <2>1. Within(S.tail, S.head, p)
    BY <1>3, OnTreeInLog
  <2> QED BY <1>2, <2>1, UserPage
<1>7. p = LastCheck(h) - 1 \/ Within(jj.tailSync, Start(h), p)
  <2>1. p # None
    BY UserPage DEF None
  <2>2. p = S.root \/ \E s \in Sectors : TracePath(n, S, s).page = p
    BY <1>2, <1>3, RootOrSector
  <2> QED BY <1>2, <1>4, <2>1, <2>2
<1>8. Within(f.tail, f.head, p) /\ Group(p) # Group(f.head)
  BY <1>1, <1>2, <1>3, <1>5, <1>6, <1>7, PageFound
<1>9. Group(p) # Group(S.head)
  <2>1. Group(p) # Group(h)
    BY <1>2, <1>3, <1>6, BeforeStart
  <2>2. Group(S.head) = Group(h)
    BY <1>2, StartIs, UserPage
  <2> QED BY <2>1, <2>2
<1>10. ReadMeta(n, R, p) = ReadMeta(n, S, p)
  BY <1>8, <1>9 DEF ReadMeta
<1> QED BY <1>8, <1>10

\* Until the first reset, resume gives back what was last saved.
LEMMA ResumeReads ==
    ASSUME NEW n, FlashOK(n), NEW jj \in Journal,
           Arranged(n, jj.head, jj.epoch), NEW d, Saved(n, jj, d),
           Resumable(n, jj), MaxRetries > 1
    PROVE  Contents(n, Resume(n)) = d
<1> DEFINE h == jj.head
           e == jj.epoch
           l == LastCheck(h)
           group == LastGroup(n, Block(l))
           found == [EmptyJournal EXCEPT
                       !.epoch = LastEpoch(h, e), !.root = l - 1, !.tail = n[l].tail,
                       !.bbCurrent = n[l].bbCurrent, !.bbLast = n[l].bbLast,
                       !.count = n[l].count]
           f == FindHead(n, found, group)
           R == Resume(n)
           S == Snap(n, h)
<1>1. h \in UserPages /\ n \in Flash /\ Filled(n)
  BY DEF FlashOK, Journal
<1>2. R \in Journal
  BY ResumeOK DEF JournalOK
<1>3. CASE ~Written(h, e)
  <2>1. R = EmptyJournal
    BY <1>1, <1>3, NothingToFind
  <2>2. R.root = None
    BY <2>1 DEF EmptyJournal
  <2>3. TreeOK(n, R) /\ \A s \in Sectors : TracePath(n, R, s).page = None
    BY <1>1, <1>2, <2>2, EmptyTree
  <2> HIDE DEF R
  <2>4. \A s \in Sectors : ReadSector(n, R, s, Blank) = Blank
    BY <1>1, <1>2, <2>3, ReadIs
  <2>5. Contents(n, R) = [s \in Sectors |-> Blank]
    BY <2>4 DEF Contents
  <2> QED BY <1>3, <2>5 DEF Saved, R
<1>4. CASE Written(h, e)
  <2>1. R = [f EXCEPT !.tailSync = f.tail]
    BY <1>1, <1>4, ResumeFinds DEF Restored
  <2>2. /\ S \in Journal /\ S.tail = n[l].tail /\ S.root = l - 1
        /\ l \in Checkpoints /\ n[l] \in CheckpointData
    BY <1>1, <1>4, SnapIs
  <2>3. LastEpoch(h, e) \in Int
    <3>1. e \in Int
      BY DEF Journal
    <3> QED BY <3>1 DEF LastEpoch
  <2>4. found \in Journal /\ found.tail = n[l].tail /\ found.root = l - 1
    <3>1. l - 1 \in UserPages
      BY <2>2, PageBefore
    <3> HIDE DEF l
    <3> QED BY <2>2, <2>3, <3>1, EmptyJournalOK DEF Journal, CheckpointData, JournalOK
  <2> HIDE DEF found
  <2>5. HeadFound(n, jj, found, f)
    BY <1>1, <1>4, <2>4, HeadIsFound
  <2>6. f \in Journal
    <3>1. Block(l) \in Blocks
      BY <2>2, BlockOf DEF Checkpoints, Blocks
    <3>2. /\ group \in Pages /\ group % Ppc = 0
          /\ group = FirstOf(Block(group)) \/ ~GroupFree(n, Group(group))
      BY <3>1, LastGroupIs
    <3> HIDE DEF group
    <3> QED BY <2>4, <3>2, FindHeadIs
  <2> HIDE DEF f
  <2>7. HeadFound(n, jj, S, f)
    BY <2>2, <2>4, <2>5 DEF HeadFound, InHeadsBlock, OnBlock
  <2>8. R.head = f.head /\ R.tail = f.tail /\ R.root = S.root
    <3>1. f.root = S.root
      BY <2>7 DEF HeadFound
    <3>2. R.head = f.head /\ R.tail = f.tail /\ R.root = f.root
      BY <2>1, <2>6 DEF Journal
    <3> QED BY <3>1, <3>2
  <2>9. SnapOK(n, jj) /\ Behind(jj.tailSync, Start(h)) /\ Contents(n, S) = d
    BY <1>4 DEF Saved
  <2> HIDE DEF R, S
  <2>10. S = Snap(n, jj.head)
    BY DEF S
  <2>11. Keeps(n, S, n, R)
    BY <1>1, <1>2, <1>4, <2>7, <2>8, <2>9, <2>10, FoundKeeps
  <2>12. TreeOK(n, S)
    BY <2>9, <2>10 DEF SnapOK
  <2>13. \A t \in Sectors : ReadSector(n, R, t, Blank) = ReadSector(n, S, t, Blank)
    BY <1>1, <1>2, <2>2, <2>8, <2>11, <2>12, SameTree
  <2>14. Contents(n, R) = Contents(n, S)
    BY <2>13 DEF Contents
  <2> QED BY <2>9, <2>14 DEF R
<1> QED BY <1>3, <1>4

\* The checkpoint of a page before the head's group is before it too.
LEMMA CheckpointBefore ==
    ASSUME NEW h \in Pages, NEW p \in Pages, p < Start(h), Group(p) # Group(h)
    PROVE  CheckpointOf(Group(p)) < Start(h)
<1>1. PICK c \in Checkpoints : c = CheckpointOf(Group(p)) /\ Group(c) = Group(p)
  BY CheckpointInGroup DEF Checkpoints
<1>2. h \in Int /\ p \in Int /\ Group(h) \in Int /\ Group(p) \in Int /\ c \in Int
      /\ Start(h) \in Int /\ Start(p) \in Int
  BY <1>1, GroupOf, StartIs, Geometry DEF Pages, Checkpoints
<1>3. Group(p) < Group(h)
  <2> SUFFICES ASSUME Group(p) > Group(h) PROVE FALSE
    BY <1>2
  <2>1. PICK c2 \in Checkpoints : c2 = CheckpointOf(Group(h)) /\ Group(c2) = Group(h)
    BY CheckpointInGroup DEF Checkpoints
  <2>2. PICK g \in Int : g = Group(p)
    BY <1>2
  <2>3. g > Group(c2)
    BY <2>1, <2>2
  <2>4. c2 + 1 <= g * Ppc
    BY <2>3, GroupBehind
  <2>5. c2 + 1 <= Start(p)
    BY <2>2, <2>4 DEF Start
  <2>6. Start(p) <= p /\ c2 = Start(h) + (Ppc - 1)
    BY <2>1, StartIs
  <2> QED BY <1>2, <2>5, <2>6, Geometry
<1>4. PICK g \in Int : g = Group(h)
  BY <1>2
<1>5. g > Group(c)
  BY <1>1, <1>2, <1>3, <1>4
<1>6. c + 1 <= g * Ppc
  BY <1>5, GroupBehind
<1>7. c + 1 <= Start(h)
  BY <1>4, <1>6 DEF Start
<1> QED BY <1>1, <1>2, <1>7

(* Flash n2 is n but from the head's group on in its block.                *)
Before(h, p) == Block(p) # Block(h) \/ p < Start(h)
SameBefore(n, n2, h) == \A p \in Pages : Before(h, p) => n2[p] = n[p]

\* What happens there is nothing to the last checkpoint.
LEMMA SnapKept ==
    ASSUME NEW n, FlashOK(n), NEW n2, FlashOK(n2), NEW jj \in Journal,
           Arranged(n, jj.head, jj.epoch), Arranged(n2, jj.head, jj.epoch),
           SameBefore(n, n2, jj.head), NEW d, Saved(n, jj, d)
    PROVE  Saved(n2, jj, d)
<1>1. PICK h \in UserPages : h = jj.head
  BY DEF Journal
<1>2. PICK l \in Checkpoints : l = LastCheck(h)
  BY LastCheckIs
<1>3. /\ n \in Flash /\ Filled(n) /\ n2 \in Flash /\ h \in Pages /\ l \in Pages
  BY <1>1, UserPage DEF FlashOK, Checkpoints
<1>4. n2[l] = n[l]
  <2>1. Before(h, l)
    <3>1. Start(h) \in Int /\ 0 <= Start(h) /\ l \in Int
      BY <1>2, <1>3, StartIs, LastCheckIs
    <3>2. CASE Start(h) > 0
      BY <1>2, <3>1, <3>2, LastCheckIs DEF Before
    <3>3. CASE Start(h) = 0
      <4>1. Block(l) = NumBlocks - 1 /\ Block(h) = 0
        BY <1>2, <3>3, LastCheckIs
      <4> QED BY <4>1, Geometry DEF Before
    <3> QED BY <3>1, <3>2, <3>3
  <2> QED BY <1>1, <1>3, <2>1 DEF SameBefore
<1>5. Snap(n2, h) = Snap(n, h)
  BY <1>2, <1>4 DEF Snap
<1> SUFFICES ASSUME Written(h, jj.epoch)
             PROVE  /\ SnapOK(n2, jj) /\ Contents(n2, Snap(n2, h)) = d
  BY <1>1 DEF Saved
<1>6. SnapOK(n, jj) /\ Contents(n, Snap(n, h)) = d
  BY <1>1 DEF Saved
<1>7. PICK S \in Journal : S = Snap(n, h) /\ S.head = Start(h)
  BY <1>1, <1>3, SnapIs
<1>8. TreeOK(n, S) /\ Behind(S.tail, Start(h)) /\ S.tail \in UserPages
  BY <1>1, <1>6, <1>7 DEF SnapOK, Journal
<1>9. ASSUME NEW p \in UserPages, OnTree(n, S, p)
      PROVE  /\ n2[p] = n[p] /\ ReadMeta(n2, S, p) = ReadMeta(n, S, p)
             /\ Within(S.tail, S.head, p)
  <2>1. Within(S.tail, S.head, p) /\ p \in Pages
    BY <1>8, <1>9, OnTreeInLog, UserPage
  <2>2. Before(h, p) /\ Group(p) # Group(h)
    BY <1>7, <1>8, <2>1, BeforeStart DEF Before
  <2>3. PICK c \in Pages : c = CheckpointOf(Group(p)) /\ Block(c) = Block(p)
    BY <2>1, CheckpointInGroup
  <2>4. Before(h, c)
    <3>1. p < Start(h) => c < Start(h)
      BY <1>3, <2>1, <2>2, <2>3, CheckpointBefore
    <3> QED BY <2>2, <2>3, <3>1 DEF Before
  <2>5. n2[p] = n[p] /\ n2[c] = n[c]
    BY <1>1, <2>1, <2>2, <2>4 DEF SameBefore
  <2> QED BY <2>1, <2>3, <2>5 DEF ReadMeta, IsCheckpoint
<1>10. Keeps(n, S, n2, S)
  BY <1>9 DEF Keeps
<1>11. /\ TreeOK(n2, S)
       /\ \A t \in Sectors :
            /\ TracePath(n2, S, t) = TracePath(n, S, t)
            /\ ReadSector(n2, S, t, Blank) = ReadSector(n, S, t, Blank)
  BY <1>3, <1>8, <1>10, SameTree
<1>12. Contents(n2, S) = Contents(n, S)
  BY <1>11 DEF Contents
<1>13. SnapOK(n2, jj)
  BY <1>1, <1>5, <1>6, <1>7, <1>11 DEF SnapOK
<1> QED BY <1>5, <1>6, <1>7, <1>12, <1>13

LEMMA ArrangedKept ==
    ASSUME NEW n, NEW n2, NEW h \in UserPages, NEW e, Arranged(n, h, e),
           SameBefore(n, n2, h),
           \A c \in Checkpoints :
             ~Before(h, c) /\ n2[c].kind = "checkpoint" => n2[c] = n[c],
           \A b \in Blocks : IsBad(n2, b) => Start(h) = FirstOf(b)
    PROVE  Arranged(n2, h, e)
<1>1. e \in Nat
  BY DEF Arranged
<1>2. \A c \in Checkpoints : n2[c].kind = "checkpoint" => n2[c] = n[c]
  BY DEF SameBefore, Checkpoints
<1>3. \A c \in Checkpoints : c < Start(h) => n2[c] = n[c]
  BY DEF SameBefore, Before, Checkpoints
<1>4. ASSUME NEW c \in Checkpoints, Block(c) > Block(h) PROVE n2[c] = n[c]
  <2>1. Block(c) \in Int /\ Block(h) \in Int /\ c \in Pages
    BY BlockOf, UserPage DEF Checkpoints
  <2>2. Block(c) # Block(h)
    BY <1>4, <2>1
  <2> QED BY <2>1, <2>2 DEF SameBefore, Before
<1>5. \A c \in Checkpoints :
        c < Start(h) => n2[c].kind = "checkpoint" /\ n2[c].epoch = e
  BY <1>3 DEF Arranged
<1>6. \A c \in Checkpoints : c >= Start(h) /\ n2[c].kind = "checkpoint"
                               => e > 0 /\ n2[c].epoch = e - 1
  BY <1>2 DEF Arranged
<1>7. \A c \in Checkpoints : e > 0 /\ Block(c) > Block(h)
                               => n2[c].kind = "checkpoint"
  BY <1>4 DEF Arranged
<1> QED BY <1>1, <1>5, <1>6, <1>7 DEF Arranged

\* The next user page of the block is further on in it.
LEMMA NextInBlock ==
    ASSUME NEW h \in UserPages, Block(NextUpage(h)) = Block(h)
    PROVE  h + 1 <= NextUpage(h) /\ NextUpage(h) % Ppb # 0
<1>1. PICK k \in UserPages : k = NextUpage(h)
  BY NextUserPage
<1>2. k \in Int /\ h \in Int /\ k \in Pages /\ h \in Pages
  BY UserPage
<1>3. h + 1 <= k
  BY <1>1, <1>2, Onward
<1>4. PICK f : f = FirstOf(Block(h))
  OBVIOUS
<1>5. f <= h /\ f \in Int
  BY <1>2, <1>4, BlockOf, Geometry DEF FirstOf
<1>6. k # FirstOf(Block(k))
  BY <1>1, <1>2, <1>3, <1>4, <1>5
<1> QED BY <1>1, <1>2, <1>3, <1>6, Aligned

LEMMA FreeFurther ==
    ASSUME NEW n, NEW p \in Pages, FreeOn(n, p), NEW q \in Pages, p <= q,
           Block(q) = Block(p)
    PROVE  FreeOn(n, q)
BY DEF FreeOn, Pages

\* The ways the flash can be resumed from.
LEMMA FirstGroupResumes ==
    ASSUME NEW n, NEW jj \in Journal, jj.head % Ppb = 0
    PROVE  Resumable(n, jj) /\ Start(jj.head) = FirstOf(Block(jj.head))
<1>1. PICK h \in Pages : h = jj.head /\ h \in Int
  BY UserPage DEF Journal
<1>2. h = FirstOf(Block(h)) /\ h % Ppc = 0
  BY <1>1, Aligned
<1>3. Start(h) = h
  BY <1>1, <1>2, StartIs
<1> QED BY <1>1, <1>2, <1>3 DEF Resumable

LEMMA HeadResumes ==
    ASSUME NEW n, NEW jj \in Journal, FreeOn(n, jj.head)
    PROVE  Resumable(n, jj)
<1>1. PICK h \in UserPages : h = jj.head
  BY DEF Journal
<1>2. PICK f \in 0..Ppc - 2 : f = h % Ppc
  BY <1>1, UserPage
<1>3. h = Start(h) + f
  BY <1>2, StartIs, UserPage
<1>4. FreeOn(n, Start(h) + f)
  BY <1>1, <1>3
<1> QED BY <1>1, <1>4 DEF Resumable

LEMMA NextResumes ==
    ASSUME NEW n, NEW jj \in Journal, Room(jj), FreeOn(n, jj.head + 1)
    PROVE  Resumable(n, jj)
<1>1. PICK h \in UserPages : h = jj.head
  BY DEF Journal
<1>2. h \in Pages /\ h \in Int
  BY UserPage
<1>3. CASE (h + 2) % Ppc # 0
  <2>1. PICK k \in UserPages : k = h + 1 /\ Group(k) = Group(h)
    BY <1>3, NextUserPage
  <2>2. PICK f \in 0..Ppc - 2 : f = k % Ppc
    BY UserPage
  <2>3. k = Start(k) + f /\ Start(k) = Start(h)
    BY <2>1, <2>2, StartIs, UserPage DEF Start
  <2>4. FreeOn(n, Start(h) + f)
    BY <1>1, <2>1, <2>3
  <2> QED BY <1>1, <2>4 DEF Resumable
<1>4. CASE (h + 2) % Ppc = 0
  <2>1. ASSUME Block(NextUpage(h)) = Block(h) PROVE FreeOn(n, NextUpage(h))
    <3>1. PICK c \in Pages : c = h + 1 /\ Block(c) = Block(h)
      BY <1>4, NextUserPage DEF Checkpoints
    <3>2. PICK k \in Pages : k = NextUpage(h)
      BY NextUserPage, UserPage
    <3>3. c <= k /\ Block(k) = Block(c)
      BY <2>1, <3>1, <3>2, NextInBlock
    <3>4. FreeOn(n, c)
      BY <1>1, <3>1
    <3> QED BY <3>2, <3>3, <3>4, FreeFurther
  <2> QED BY <1>1, <1>4, <2>1 DEF Resumable
<1> QED BY <1>3, <1>4

(* The chip and what resume makes of it, as long as nothing resets it.     *)
Keeping(d) == Arranged(nand, j.head, j.epoch) /\ Saved(nand, j, d)

\* What the worker does to the chip up to the next checkpoint, finished or
\* not, is nothing to what a reset goes back to.
LEMMA ChangeKept ==
    ASSUME Inv, MaxRetries > 1, NEW d, Keeping(d),
           NEW n2, FlashOK(n2), SameBefore(nand, n2, j.head),
           \A c \in Checkpoints :
             ~Before(j.head, c) /\ n2[c].kind = "checkpoint" => n2[c] = nand[c],
           \A b \in Blocks : IsBad(n2, b) => Start(j.head) = FirstOf(b),
           Resumable(n2, j)
    PROVE  /\ Arranged(n2, j.head, j.epoch) /\ Saved(n2, j, d)
           /\ Contents(n2, Resume(n2)) = d
<1>1. /\ FlashOK(nand) /\ j \in Journal /\ j.head \in UserPages
      /\ Arranged(nand, j.head, j.epoch) /\ Saved(nand, j, d)
  BY DEF Inv, LogInv, JournalOK, Journal, Keeping
<1>2. Arranged(n2, j.head, j.epoch)
  BY <1>1, ArrangedKept
<1>3. Saved(n2, j, d)
  BY <1>1, <1>2, SnapKept
<1> QED BY <1>1, <1>2, <1>3, ResumeReads

LEMMA EraseKept ==
    ASSUME Inv, Clean(nand), MaxRetries > 1, NEW d, Keeping(d),
           NEW w \in Workers, proc[w].at = "erase",
           NEW n2, n2 = Erased(nand, Block(j.head)) \/ n2 = Ruined(nand, Block(j.head))
    PROVE  /\ Arranged(n2, j.head, j.epoch) /\ Saved(n2, j, d)
           /\ Contents(n2, Resume(n2)) = d
<1>1. j \in Journal /\ j.head \in UserPages /\ nand \in Flash
  BY DEF Inv, LogInv, JournalOK, FlashOK, Journal
<1>2. n2 \in InFlight(w)
  BY DEF InFlight
<1>3. FlashOK(n2)
  BY <1>2, InFlightOK
<1>4. j.head % Ppb = 0
  BY AppendingAt DEF Fits
<1>5. Resumable(n2, j) /\ Start(j.head) = FirstOf(Block(j.head))
  BY <1>1, <1>4, FirstGroupResumes
<1>6. \A p \in Pages : /\ Block(p) # Block(j.head) => n2[p] = nand[p]
                       /\ Block(p) = Block(j.head) => n2[p] \in {Free, Torn}
  BY DEF Erased, Ruined
<1>7. SameBefore(nand, n2, j.head)
  <2> SUFFICES ASSUME NEW p \in Pages, p < Start(j.head), Block(p) = Block(j.head)
               PROVE  FALSE
    BY <1>6 DEF SameBefore, Before
  <2>1. FirstOf(Block(p)) <= p
    BY BlockOf, Geometry DEF FirstOf, Pages
  <2>2. PICK f : f = FirstOf(Block(p))
    OBVIOUS
  <2>3. f = Start(j.head) /\ f <= p
    BY <1>5, <2>1, <2>2
  <2>4. PICK h \in Pages : h = j.head
    BY <1>1, UserPage
  <2>5. Start(h) \in Int
    BY <2>4, StartIs
  <2>6. p \in Int
    BY Geometry DEF Pages
  <2> QED BY <2>3, <2>4, <2>5, <2>6
<1>8. \A c \in Checkpoints :
        ~Before(j.head, c) /\ n2[c].kind = "checkpoint" => n2[c] = nand[c]
  BY <1>6, FreeHasNoFields DEF Before, Checkpoints
<1>9. \A b \in Blocks : IsBad(n2, b) => Start(j.head) = FirstOf(b)
  <2> SUFFICES ASSUME NEW b \in Blocks, IsBad(n2, b), b # Block(j.head) PROVE FALSE
    BY <1>5
  <2>1. FirstOf(b) \in Pages /\ Block(FirstOf(b)) = b
    BY FirstOfBlock DEF Blocks
  <2>2. IsBad(nand, b)
    BY <1>6, <2>1 DEF IsBad
  <2> QED BY <2>2, CleanBlock DEF Blocks
<1> QED BY <1>3, <1>5, <1>7, <1>8, <1>9, ChangeKept

LEMMA ProgramKept ==
    ASSUME Inv, Clean(nand), MaxRetries > 1, NEW d, Keeping(d),
           NEW w \in Workers, proc[w].at = "program",
           NEW n2, n2 = AfterData(w) \/ n2 = [nand EXCEPT ![j.head] = Torn]
    PROVE  /\ Arranged(n2, j.head, j.epoch) /\ Saved(n2, j, d)
           /\ Contents(n2, Resume(n2)) = d
<1>1. j \in Journal /\ j.head \in UserPages /\ nand \in Flash
  BY DEF Inv, LogInv, JournalOK, FlashOK, Journal
<1>2. /\ FlashOK(n2) /\ Ready(n2, j.head, j.head + 1)
      /\ \A p \in Pages \ {j.head} : n2[p] = nand[p]
  BY DataProgrammed
<1>3. Room(j)
  BY AppendingAt DEF Fits
<1>4. Resumable(n2, j)
  BY <1>1, <1>2, <1>3, NextResumes DEF Ready
<1>5. /\ j.head \in Pages /\ Block(j.head) = Block(Start(j.head))
      /\ Start(j.head) <= j.head /\ Start(j.head) \in Int /\ j.head \in Int
      /\ j.head \notin Checkpoints
  BY <1>1, StartIs, UserPage DEF UserPages, Checkpoints
<1>6. SameBefore(nand, n2, j.head)
  <2>1. ~Before(j.head, j.head)
    BY <1>5 DEF Before
  <2> QED BY <1>2, <2>1 DEF SameBefore
<1>7. \A c \in Checkpoints :
        ~Before(j.head, c) /\ n2[c].kind = "checkpoint" => n2[c] = nand[c]
  BY <1>2, <1>5 DEF Checkpoints
<1>8. \A b \in Blocks : IsBad(n2, b) => Start(j.head) = FirstOf(b)
  <2> SUFFICES ASSUME NEW b \in Blocks, IsBad(n2, b)
               PROVE  Start(j.head) = FirstOf(b)
    OBVIOUS
  <2>1. FirstOf(b) \in Pages /\ FirstOf(b) % Ppb = 0 /\ Block(FirstOf(b)) = b
    BY FirstOfBlock DEF Blocks
  <2>2. ~IsBad(nand, b)
    BY CleanBlock DEF Blocks
  <2>3. FirstOf(b) = j.head
    BY <1>2, <2>1, <2>2 DEF IsBad
  <2> QED BY <1>1, <2>1, <2>3, FirstGroupResumes
<1> QED BY <1>2, <1>4, <1>6, <1>7, <1>8, ChangeKept

\* A checkpoint that was not finished.
LEMMA TornCheckpointKept ==
    ASSUME Inv, Clean(nand), MaxRetries > 1, NEW d, Keeping(d),
           NEW w \in Workers, proc[w].at = "check",
           NEW n2, n2 = [nand EXCEPT ![j.head + 1] = Torn]
    PROVE  Contents(n2, Resume(n2)) = d
<1>1. j \in Journal /\ j.head \in UserPages /\ nand \in Flash
  BY DEF Inv, LogInv, JournalOK, FlashOK, Journal
<1>2. /\ FlashOK(n2)
      /\ NextUpage(j.head) % Ppb # 0 => Ready(n2, NextUpage(j.head), NextUpage(j.head))
      /\ \A p \in Pages \ {j.head + 1} : n2[p] = nand[p]
      /\ j.head + 1 \in Pages
  BY CheckpointProgrammed
<1>3. Room(j) /\ (j.head + 2) % Ppc = 0
  BY AppendingAt DEF Fits
<1>4. Block(NextUpage(j.head)) = Block(j.head) => FreeOn(n2, NextUpage(j.head))
  BY <1>1, <1>2, NextInBlock DEF Ready
<1>5. Resumable(n2, j)
  BY <1>3, <1>4 DEF Resumable
<1>6. /\ Start(j.head) <= j.head /\ Start(j.head) \in Int /\ j.head \in Int
      /\ j.head + 1 \in Checkpoints /\ Block(j.head + 1) = Block(j.head)
  BY <1>1, <1>3, StartIs, UserPage, NextUserPage
<1>7. SameBefore(nand, n2, j.head)
  <2>1. ~Before(j.head, j.head + 1)
    BY <1>6 DEF Before
  <2> QED BY <1>2, <2>1 DEF SameBefore
<1>8. \A c \in Checkpoints :
        ~Before(j.head, c) /\ n2[c].kind = "checkpoint" => n2[c] = nand[c]
  <2>1. n2[j.head + 1] = Torn
    BY <1>1, <1>2 DEF Flash
  <2> QED BY <1>2, <2>1, FreeHasNoFields DEF Checkpoints
<1>9. \A b \in Blocks : IsBad(n2, b) => Start(j.head) = FirstOf(b)
  <2> SUFFICES ASSUME NEW b \in Blocks, IsBad(n2, b) PROVE FALSE
    OBVIOUS
  <2>1. FirstOf(b) \in UserPages
    BY FirstOrder DEF Blocks
  <2>2. FirstOf(b) # j.head + 1 /\ FirstOf(b) \in Pages
    BY <1>6, <2>1 DEF UserPages, Checkpoints
  <2>3. IsBad(nand, b)
    BY <1>2, <2>2 DEF IsBad
  <2> QED BY <2>3, CleanBlock DEF Blocks
<1> QED BY <1>2, <1>5, <1>7, <1>8, <1>9, ChangeKept

\* The chip as it is.
LEMMA AsItIs ==
    ASSUME Inv, MaxRetries > 1, NEW d, Keeping(d)
    PROVE  Contents(nand, Resume(nand)) = d
<1>1. j \in Journal /\ FlashOK(nand) /\ j.head \in UserPages
  BY DEF Inv, LogInv, JournalOK, Journal
<1>2. Resumable(nand, j)
  <2>1. CASE j.head % Ppb = 0
    BY <1>1, <2>1, FirstGroupResumes
  <2>2. CASE FreeOn(nand, j.head)
    BY <1>1, <2>2, HeadResumes
  <2>3. CASE Room(j) /\ FreeOn(nand, j.head + 1)
    BY <1>1, <2>3, NextResumes
  <2>4. CASE Quiet
    BY <2>1, <2>2, <2>4 DEF Inv, LogInv, Settled, Ready
  <2>5. ASSUME NEW w \in Workers, proc[w] # Idle PROVE Resumable(nand, j)
    <3>1. Fits(nand, j, proc[w])
      BY <2>5 DEF Inv, LogInv
    <3> QED BY <2>1, <2>2, <2>3, <3>1 DEF Fits, Settled, Ready
  <2> QED BY <2>4, <2>5 DEF Quiet
<1> QED BY <1>1, <1>2, ResumeReads DEF Keeping

\* Once the checkpoint is written, everything before the next group is of the
\* epoch.
LEMMA CheckpointArranges ==
    ASSUME NEW n, NEW n2, Clean(n2), NEW h \in UserPages, (h + 2) % Ppc = 0,
           NEW e, Arranged(n, h, e),
           \A p \in Pages \ {h + 1} : n2[p] = n[p],
           n2[h + 1].kind = "checkpoint", n2[h + 1].epoch = e,
           NEW k, k = NextUpage(h), NEW e2, k = 0 => e2 = e + 1, k # 0 => e2 = e
    PROVE  /\ Arranged(n2, k, e2) /\ Written(k, e2)
           /\ Start(k) = k /\ LastCheck(k) = h + 1
<1>1. /\ h \in Pages /\ h \in Int /\ 0 <= h /\ e \in Nat /\ k \in UserPages
      /\ k \in Pages /\ k \in Int /\ 0 <= k
  BY NextUserPage, UserPage DEF Arranged
<1>2. PICK c \in Checkpoints : /\ c = h + 1 /\ Block(c) = Block(h)
                               /\ c = CheckpointOf(Group(h))
  BY NextUserPage
<1>3. \/ k = h + 2 /\ Block(k) \in {Block(h), Block(h) + 1}
      \/ k = 0 /\ h + 2 = NumPages
  BY NextUserPage
<1>4. Start(k) = k
  <2>1. k % Ppc = 0
    BY NextGroup
  <2> QED BY <1>1, <2>1, StartIs
<1>5. LastCheck(k) = h + 1
  BY <1>1, <1>3, <1>4 DEF LastCheck
<1>6. ASSUME NEW q \in Checkpoints, q < h + 2
      PROVE  n2[q].kind = "checkpoint" /\ n2[q].epoch = e
  <2>1. q \in Pages /\ q \in Int
    BY Geometry DEF Checkpoints, Pages
  <2>2. CASE q = c
    BY <1>2, <2>2
  <2>3. CASE q # c
    <3>1. q <= h
      BY <1>1, <1>2, <1>6, <2>1, <2>3
    <3>2. Group(q) <= Group(h) /\ Group(q) \in Int /\ Group(h) \in Int
      <4>1. q \div Ppc <= h \div Ppc
        BY <1>1, <2>1, <3>1, DivOrder, Geometry
      <4> QED BY <1>1, <2>1, <4>1, GroupOf DEF Group
    <3>3. q = CheckpointOf(Group(q))
      BY <2>1, GroupOf, Geometry DEF Checkpoints
    <3>4. Group(q) # Group(h)
      BY <1>2, <2>3, <3>3
    <3>5. PICK g \in Int : g = Group(h)
      BY <3>2
    <3>6. q + 1 <= g * Ppc
      BY <3>2, <3>4, <3>5, GroupBehind
    <3>7. q < Start(h)
      <4>1. q + 1 <= Start(h) /\ Start(h) \in Int
        BY <1>1, <3>5, <3>6, StartIs DEF Start
      <4> QED BY <2>1, <4>1
    <3>8. n2[q] = n[q]
      BY <1>2, <2>1, <2>3
    <3> QED BY <3>7, <3>8 DEF Arranged
  <2> QED BY <2>2, <2>3
<1>7. \A b \in Blocks : ~IsBad(n2, b)
  BY CleanBlock DEF Blocks
<1>8. CASE k = h + 2 /\ Block(k) \in {Block(h), Block(h) + 1}
  <2>1. e2 = e /\ k > 0
    BY <1>1, <1>8
  <2>2. ASSUME NEW q \in Checkpoints, q >= k \/ Block(q) > Block(k)
        PROVE  n2[q] = n[q] /\ (Block(q) > Block(k) => Block(q) > Block(h))
    <3>1. q \in Pages /\ q \in Int /\ Block(q) \in Int /\ Block(h) \in Int
          /\ Block(k) \in Int
      <4>1. q \in Pages /\ q \in Int
        BY Geometry DEF Checkpoints, Pages
      <4> QED BY <1>1, <4>1, BlockOf
    <3>2. q # h + 1
      BY <1>1, <1>2, <1>8, <2>2, <3>1
    <3> QED BY <1>8, <3>1, <3>2
  <2>3. ASSUME NEW q \in Checkpoints, q >= k, n2[q].kind = "checkpoint"
        PROVE  e > 0 /\ n2[q].epoch = e - 1
    <3>1. q >= Start(h)
      <4>1. Start(h) <= h /\ Start(h) \in Int /\ q \in Int
        BY <1>1, StartIs, Geometry DEF Checkpoints, Pages
      <4> QED BY <1>1, <1>8, <2>3, <4>1
    <3> QED BY <2>2, <2>3, <3>1 DEF Arranged
  <2>4. ASSUME NEW q \in Checkpoints, e > 0, Block(q) > Block(k)
        PROVE  n2[q].kind = "checkpoint"
    BY <2>2, <2>4 DEF Arranged
  <2>5. Arranged(n2, k, e2)
    BY <1>1, <1>4, <1>6, <1>7, <1>8, <2>1, <2>3, <2>4 DEF Arranged
  <2> QED BY <1>4, <1>5, <2>1, <2>5 DEF Written
<1>9. CASE k = 0 /\ h + 2 = NumPages
  <2>1. e2 = e + 1 /\ e2 \in Nat /\ e2 > 0 /\ e2 - 1 = e
    BY <1>1, <1>9
  <2>2. \A q \in Checkpoints : q < h + 2 /\ q >= 0 /\ ~(q < 0)
    BY <1>9, Geometry DEF Checkpoints, Pages
  <2>3. \A q \in Checkpoints : n2[q].kind = "checkpoint" /\ n2[q].epoch = e
    BY <1>6, <2>2
  <2>4. Start(k) = 0
    BY <1>4, <1>9
  <2>5. Arranged(n2, k, e2)
    BY <1>7, <2>1, <2>2, <2>3, <2>4 DEF Arranged
  <2> QED BY <1>4, <1>5, <2>1, <2>5 DEF Written
<1> QED BY <1>3, <1>8, <1>9

(* A map with nothing to sync has the tree of the last checkpoint.         *)
Synced(n, jj) == jj.dirty \/
    /\ jj.head % Ppc = 0 /\ jj.tail = jj.tailSync
    /\ Written(jj.head, jj.epoch) => \A s \in Sectors :
         TracePath(n, jj, s).page = TracePath(n, Snap(n, jj.head), s).page
    /\ ~Written(jj.head, jj.epoch) => \A s \in Sectors :
         TracePath(n, jj, s).page = None

\* The tree l of the flash is the one that a reset finds with the head at k.
LEMMA SnapOfTree ==
    ASSUME NEW n \in Flash, Filled(n), NEW l, JournalOK(l), TreeOK(n, l),
           NEW k \in UserPages, NEW e, l.head = k, l.tailSync = l.tail,
           Arranged(n, k, e), Written(k, e), Start(k) = k,
           n[LastCheck(k)].tail = l.tail, l.root = LastCheck(k) - 1
    PROVE  /\ TreeOK(n, Snap(n, k)) /\ Snap(n, k).tail = l.tail
           /\ Snap(n, k).head = k /\ Behind(l.tail, k) /\ Snap(n, k) \in Journal
           /\ \A s \in Sectors :
                TracePath(n, Snap(n, k), s).page = TracePath(n, l, s).page
<1>1. PICK S \in Journal : /\ S = Snap(n, k) /\ S.head = k /\ S.tail = l.tail
                           /\ S.root = l.root
  BY SnapIs
<1>2. l \in Journal /\ l.tail \in UserPages /\ Behind(l.tail, k)
  BY DEF JournalOK, Journal, InOrder
<1>3. ASSUME NEW p \in UserPages, OnTree(n, l, p)
      PROVE  ReadMeta(n, S, p) = ReadMeta(n, l, p) /\ Within(S.tail, S.head, p)
  <2>1. Within(l.tail, k, p) /\ p \in Pages
    <3>1. Within(l.tail, l.head, p)
      BY <1>2, <1>3, OnTreeInLog
    <3> QED BY <3>1, UserPage
  <2>2. Group(p) # Group(k)
    BY <1>2, <2>1, BeforeStart
  <2> QED BY <1>1, <2>1, <2>2 DEF ReadMeta
<1>4. Keeps(n, l, n, S)
  BY <1>3 DEF Keeps
<1>5. TreeOK(n, S) /\ \A s \in Sectors : TracePath(n, S, s) = TracePath(n, l, s)
  BY <1>1, <1>2, <1>4, SameTree
<1> QED BY <1>1, <1>2, <1>5

\* What the checkpoint saves.
LEMMA CheckpointSaves ==
    ASSUME NEW w, At0(w), proc[w].at = "check", Arranged(nand, j.head, j.epoch),
           NEW n2, n2 = AfterCheckpoint(w), NEW l, l = Checkpointed(w),
           NEW m, Finished(l, proc[w], request[w], m)
    PROVE  /\ FlashOK(n2) /\ m \in Journal /\ Arranged(n2, m.head, m.epoch)
           /\ Saved(n2, m, Contents(n2, m)) /\ Synced(n2, m) /\ m.dirty = FALSE
           /\ Resumable(n2, m)
<1>1. /\ FlashOK(n2) /\ n2 \in Flash /\ Clean(n2)
      /\ \A p \in Pages \ {j.head + 1} : n2[p] = nand[p]
      /\ n2[j.head + 1] = Checkpoint(w)
      /\ JournalOK(l) /\ l \in Journal /\ l.head = NextUpage(j.head)
      /\ l.tail = j.tail /\ l.tailSync = j.tail /\ l.root = j.head
      /\ l.dirty = FALSE
      /\ l.head = 0 => l.epoch = j.epoch + 1
      /\ l.head # 0 => l.epoch = j.epoch
      /\ Lands(nand, j, n2, l, proc[w])
  BY CheckpointLands
<1>2. /\ JournalOK(j) /\ TreeOK(nand, j) /\ nand \in Flash /\ w \in Workers /\ Inv
      /\ j.head \in UserPages /\ request[w] \in Requests
      /\ Half(nand, j, proc[w], request[w])
  BY Known DEF Counted, Appending
<1>3. /\ TreeOK(n2, m) /\ TreeOK(n2, l)
      /\ \A s \in Sectors : TracePath(n2, m, s).page = TracePath(n2, l, s).page
  BY <1>1, <1>2, Landed
<1>4. /\ m \in Journal /\ JournalOK(m) /\ m.head = l.head /\ m.epoch = l.epoch
      /\ m.dirty = FALSE /\ m.tail = m.tailSync
  <2>1. CASE proc[w].moved
    <3>1. m = Dequeue(l)
      BY <2>1 DEF Finished
    <3>2. JournalOK(m) /\ m.head = l.head /\ m.dirty = FALSE /\ m.epoch = l.epoch
      BY <1>1, <3>1, DequeueType
    <3>3. m.tail = m.tailSync
      BY <1>1, <3>1 DEF Dequeue, Journal
    <3> QED BY <3>2, <3>3 DEF JournalOK
  <2>2. CASE ~proc[w].moved
    <3>1. PICK c \in Int : m = [l EXCEPT !.count = c]
      <4>1. l.count \in Int /\ l.count - 1 \in Int
        BY <1>1 DEF Journal
      <4> QED BY <2>2, <4>1 DEF Finished
    <3>2. JournalOK(m)
      BY <1>1, <3>1, CountKept
    <3> QED BY <1>1, <3>1, <3>2 DEF Journal, JournalOK
  <2> QED BY <2>1, <2>2
<1>5. PICK k \in UserPages : k = NextUpage(j.head) /\ k = l.head /\ k = m.head
  BY <1>1, <1>4 DEF Journal
<1>6. (j.head + 2) % Ppc = 0
  BY <1>2, AppendingAt DEF Fits
<1>7. n2[j.head + 1].kind = "checkpoint" /\ n2[j.head + 1].epoch = j.epoch
      /\ n2[j.head + 1].tail = j.tail
  BY <1>1 DEF Checkpoint
<1>8. /\ Arranged(n2, k, l.epoch) /\ Written(k, l.epoch)
      /\ Start(k) = k /\ LastCheck(k) = j.head + 1
  <2>1. PICK h, e, e2 : h \in UserPages /\ h = j.head /\ e = j.epoch /\ e2 = l.epoch
    BY <1>2
  <2>2. /\ (h + 2) % Ppc = 0 /\ Arranged(nand, h, e) /\ k = NextUpage(h)
        /\ \A p \in Pages \ {h + 1} : n2[p] = nand[p]
        /\ n2[h + 1].kind = "checkpoint" /\ n2[h + 1].epoch = e
        /\ k = 0 => e2 = e + 1
        /\ k # 0 => e2 = e
    BY <1>1, <1>5, <1>6, <1>7, <2>1
  <2>3. /\ Arranged(n2, k, e2) /\ Written(k, e2)
        /\ Start(k) = k /\ LastCheck(k) = h + 1
    BY <1>1, <2>1, <2>2, CheckpointArranges
  <2> QED BY <2>1, <2>3
<1>9. PICK S \in Journal :
        /\ S = Snap(n2, k) /\ TreeOK(n2, S) /\ S.tail = l.tail /\ S.head = k
        /\ Behind(l.tail, k)
        /\ \A s \in Sectors : TracePath(n2, S, s).page = TracePath(n2, l, s).page
  <2>1. n2[LastCheck(k)].tail = l.tail
    BY <1>1, <1>7, <1>8
  <2>2. l.root = LastCheck(k) - 1
    <3>1. j.head \in Int
      BY <1>2, UserPage
    <3> QED BY <1>1, <1>8, <3>1
  <2>3. l.head = k /\ l.tailSync = l.tail /\ Filled(n2)
    BY <1>1, <1>5 DEF FlashOK
  <2> QED BY <1>1, <1>3, <1>8, <2>1, <2>2, <2>3, SnapOfTree
<1>10. \A s \in Sectors : TracePath(n2, m, s).page = TracePath(n2, S, s).page
  BY <1>3, <1>9
<1>11. Contents(n2, S) = Contents(n2, m)
  BY <1>1, <1>3, <1>4, <1>9, <1>10, SamePages
<1>12. SnapOK(n2, m)
  <2>1. \A s \in Sectors : TracePath(n2, S, s).page # None
                             => Within(m.tailSync, S.head, TracePath(n2, S, s).page)
    <3> SUFFICES ASSUME NEW s \in Sectors, TracePath(n2, S, s).page # None
                 PROVE  Within(m.tailSync, S.head, TracePath(n2, S, s).page)
      OBVIOUS
    <3>1. Within(m.tail, m.head, TracePath(n2, m, s).page)
      BY <1>1, <1>3, <1>4, <1>10, SectorPage
    <3> QED BY <1>4, <1>5, <1>9, <1>10, <3>1
  <2> QED BY <1>5, <1>9, <2>1 DEF SnapOK
<1>13. Saved(n2, m, Contents(n2, m))
  <2>1. Behind(m.tailSync, k)
    BY <1>4, <1>5 DEF JournalOK, InOrder
  <2> QED BY <1>4, <1>5, <1>8, <1>9, <1>11, <1>12, <2>1 DEF Saved
<1>14. Synced(n2, m)
  <2>1. k % Ppc = 0
    BY <1>2, <1>5, <1>6, NextGroup
  <2> QED BY <1>4, <1>5, <1>8, <1>9, <1>10, <2>1 DEF Synced
<1>15. Resumable(n2, m)
  <2>1. CASE k % Ppb = 0
    BY <1>4, <1>5, <2>1, FirstGroupResumes
  <2>2. CASE k % Ppb # 0
    <3>1. Ready(n2, k, k)
      BY <1>2, <1>5, <2>2, CheckpointProgrammed
    <3> QED BY <1>4, <1>5, <3>1, HeadResumes DEF Ready
  <2> QED BY <2>1, <2>2
<1> QED BY <1>1, <1>4, <1>5, <1>8, <1>13, <1>14, <1>15

(* What a reset goes back to is d, and the map knows if there is more.     *)
Kept(n, jj, d) ==
    Arranged(n, jj.head, jj.epoch) /\ Saved(n, jj, d) /\ Synced(n, jj)

\* A step within a group, or on a tree that is saved, changes nothing of it.
LEMMA Unseen ==
    ASSUME NEW n \in Flash, Filled(n), NEW jj \in Journal, NEW d, Kept(n, jj, d),
           NEW kk, JournalOK(kk), kk.epoch = jj.epoch,
           \/ /\ kk.dirty /\ kk.tailSync = jj.tailSync
              /\ Group(kk.head) = Group(jj.head)
           \/ /\ kk.head = jj.head /\ ~jj.dirty /\ TreeOK(n, kk)
              /\ jj.tail = jj.tailSync => kk.tail = kk.tailSync
              /\ \A s \in Sectors :
                   TracePath(n, kk, s).page = TracePath(n, jj, s).page
    PROVE  Kept(n, kk, d)
<1>1. PICK h, k, e :
        h \in UserPages /\ k \in UserPages
        /\ h = jj.head /\ k = kk.head /\ e = jj.epoch
  BY DEF JournalOK, Journal
<1>2. Arranged(n, h, e) /\ Saved(n, jj, d) /\ Synced(n, jj) /\ kk \in Journal
  BY <1>1 DEF Kept, JournalOK
<1>3. CASE kk.dirty /\ kk.tailSync = jj.tailSync /\ Group(kk.head) = Group(jj.head)
  <2>1. Start(k) = Start(h) /\ LastCheck(k) = LastCheck(h)
    BY <1>1, <1>3 DEF Start, LastCheck
  <2>2. Block(k) = Block(h)
    BY <1>1, <1>3, GroupInBlock, UserPage
  <2>3. Snap(n, k) = Snap(n, h) /\ (Written(k, e) <=> Written(h, e))
    BY <2>1 DEF Snap, Written
  <2>4. Arranged(n, k, e)
    BY <1>2, <2>1, <2>2 DEF Arranged
  <2>5. SnapOK(n, jj) => SnapOK(n, kk)
    BY <1>1, <1>3, <2>3 DEF SnapOK
  <2>6. Saved(n, kk, d)
    BY <1>1, <1>2, <1>3, <2>1, <2>3, <2>5 DEF Saved
  <2>7. Synced(n, kk)
    BY <1>3 DEF Synced
  <2> QED BY <1>1, <2>4, <2>6, <2>7 DEF Kept
<1>4. CASE /\ kk.head = jj.head /\ ~jj.dirty /\ TreeOK(n, kk)
           /\ jj.tail = jj.tailSync => kk.tail = kk.tailSync
           /\ \A s \in Sectors :
                TracePath(n, kk, s).page = TracePath(n, jj, s).page
  <2>1. /\ h % Ppc = 0 /\ kk.tail = kk.tailSync /\ k = h
        /\ Written(h, e) => \A s \in Sectors :
             TracePath(n, kk, s).page = TracePath(n, Snap(n, h), s).page
        /\ ~Written(h, e) => \A s \in Sectors : TracePath(n, kk, s).page = None
    BY <1>1, <1>2, <1>4 DEF Synced
  <2>2. Start(h) = h
    BY <1>1, <2>1, StartIs, UserPage
  <2>3. Behind(kk.tailSync, Start(h))
    BY <1>1, <2>1, <2>2 DEF JournalOK, InOrder
  <2>4. ASSUME Written(h, e)
        PROVE  SnapOK(n, kk) /\ Contents(n, Snap(n, h)) = d
    <3>1. SnapOK(n, jj) /\ Contents(n, Snap(n, h)) = d
      BY <1>1, <1>2, <2>4 DEF Saved
    <3>2. PICK S \in Journal : S = Snap(n, h) /\ S.head = h
      BY <1>1, <1>2, <2>2, <2>4, SnapIs
    <3>3. ASSUME NEW s \in Sectors, TracePath(n, S, s).page # None
          PROVE  Within(kk.tailSync, S.head, TracePath(n, S, s).page)
      <4>1. TracePath(n, kk, s).page = TracePath(n, S, s).page
        BY <2>1, <2>4, <3>2
      <4>2. Within(kk.tail, kk.head, TracePath(n, kk, s).page)
        BY <1>2, <1>4, <3>3, <4>1, SectorPage
      <4> QED BY <1>1, <2>1, <3>2, <4>1, <4>2
    <3> QED BY <1>1, <2>1, <3>1, <3>2, <3>3 DEF SnapOK
  <2>5. Saved(n, kk, d)
    BY <1>1, <1>2, <2>1, <2>3, <2>4 DEF Saved
  <2>6. Synced(n, kk)
    BY <1>1, <2>1 DEF Synced
  <2> QED BY <1>1, <1>2, <2>1, <2>5, <2>6 DEF Kept
<1> QED BY <1>3, <1>4

\* The changes that the journal sees between two appended pages.
LEMMA RelabelledKept ==
    ASSUME NEW n \in Flash, Filled(n), NEW jj \in Journal, NEW d, Kept(n, jj, d),
           TreeOK(n, jj), NEW kk, JournalOK(kk), kk.epoch = jj.epoch,
           kk.head = jj.head, kk.tail = jj.tail, kk.tailSync = jj.tailSync,
           kk.root = jj.root, kk.metas = jj.metas, jj.dirty => kk.dirty
    PROVE  Kept(n, kk, d)
<1>1. CASE kk.dirty
  BY <1>1, Unseen
<1>2. CASE ~jj.dirty
  <2>1. TreeOK(n, kk) /\ \A s \in Sectors : TracePath(n, kk, s) = TracePath(n, jj, s)
    BY Recounted DEF JournalOK
  <2>2. \A s \in Sectors : TracePath(n, kk, s).page = TracePath(n, jj, s).page
    BY <2>1
  <2> QED BY <1>2, <2>1, <2>2, Unseen
<1> QED BY <1>1, <1>2

LEMMA ClearedKept ==
    ASSUME NEW n \in Flash, Filled(n), NEW jj, JournalOK(jj), NEW d, Kept(n, jj, d)
    PROVE  Kept(n, Clear(jj), d)
<1>1. PICK kk : kk = Clear(jj)
  OBVIOUS
<1>2. /\ JournalOK(kk) /\ kk.head = jj.head /\ kk.tailSync = jj.tailSync
      /\ kk.dirty = TRUE /\ kk.epoch = jj.epoch
  BY <1>1, ClearType
<1>3. jj \in Journal
  BY DEF JournalOK
<1>4. Kept(n, kk, d)
  BY <1>2, <1>3, Unseen
<1> QED BY <1>1, <1>4

LEMMA DequeuedKept ==
    ASSUME NEW n \in Flash, Filled(n), NEW jj, JournalOK(jj), NEW d, Kept(n, jj, d),
           TreeOK(n, jj), jj.head # jj.tail,
           ~OnTree(n, jj, jj.tail) \/ ReadMeta(n, jj, jj.tail).id = None
    PROVE  Kept(n, Dequeue(jj), d)
<1>1. PICK kk : kk = Dequeue(jj)
  OBVIOUS
<1>2. jj \in Journal
  BY DEF JournalOK
<1>3. /\ JournalOK(kk) /\ kk.head = jj.head /\ kk.dirty = jj.dirty
      /\ kk.epoch = jj.epoch
  BY <1>1, DequeueType
<1>4. /\ jj.dirty => kk.tailSync = jj.tailSync
      /\ ~jj.dirty => kk.tailSync = kk.tail
  BY <1>1, <1>2 DEF Dequeue, Journal
<1>5. TreeOK(n, kk) /\ \A s \in Sectors :
        TracePath(n, kk, s).page = TracePath(n, jj, s).page
  BY <1>1, DequeueTree
<1>6. ASSUME jj.dirty = TRUE PROVE Kept(n, kk, d)
  <2>1. kk.dirty /\ kk.tailSync = jj.tailSync /\ Group(kk.head) = Group(jj.head)
    BY <1>3, <1>4, <1>6
  <2> QED BY <1>2, <1>3, <2>1, Unseen
<1>7. ASSUME jj.dirty = FALSE PROVE Kept(n, kk, d)
  <2>1. ~jj.dirty /\ kk.tail = kk.tailSync
    BY <1>4, <1>7
  <2> QED BY <1>2, <1>3, <1>5, <2>1, Unseen
<1>8. jj.dirty \in BOOLEAN
  BY <1>2 DEF Journal
<1> QED BY <1>1, <1>6, <1>7, <1>8

(* The chip is programmed or erased on behalf of the worker.               *)
Programming == {"erase", "program", "check"}

Saves == /\ Kept(nand, j, durable)
         /\ \A w \in Workers : proc[w].at \in Programming => j.dirty = TRUE

\* What a worker's step does to what a reset goes back to.
SavedBy(w) ==
    /\ \E k : Goto(w, k) /\ (k.at \in Programming => j'.dirty = TRUE)
    /\ Kept(nand', j', durable')
    /\ durable' = durable \/ (PushMeta(w) /\ durable' = Contents(nand', j'))

\* What a worker knows before its step, that it has to change.
At1(w) == At0(w) /\ Saves

LEMMA Known1 ==
    ASSUME NEW w, At1(w)
    PROVE  /\ At0(w) /\ nand \in Flash /\ Filled(nand) /\ JournalOK(j)
           /\ j \in Journal /\ TreeOK(nand, j) /\ Clean(nand) /\ Inv /\ w \in Workers
           /\ Kept(nand, j, durable)
           /\ proc[w].at \in Programming => j.dirty = TRUE
BY Known DEF At1, Saves, FlashOK

LEMMA QuietSaves ==
    ASSUME NEW w, nand' = nand, durable' = durable, Kept(nand, j', durable),
           NEW k, Goto(w, k), k.at \in Programming => j'.dirty = TRUE
    PROVE  SavedBy(w)
BY DEF SavedBy

LEMMA AnswerGoes ==
    ASSUME NEW w, Succeed(w) \/ Fail(w) \/ \E ok, d : Answer(w, ok, d)
    PROVE  Goto(w, Idle) /\ Idle.at \notin Programming
BY DEF Succeed, Fail, Answer, Idle, Programming

LEMMA MoveTailSaves ==
    ASSUME NEW w, At1(w), nand' = nand, durable' = durable, j.head # j.tail,
           NEW then, then.at \notin Programming, MoveTail(w, j, then)
    PROVE  SavedBy(w)
<1> DEFINE s == ReadMeta(nand, j, j.tail).id
           meta == MetaFor(s, TracePath(nand, j, s))
           moving == Enqueue(FromPage(j.tail), meta, j.count, then, TRUE, j.count)
<1>1. /\ nand \in Flash /\ Filled(nand) /\ j \in Journal /\ JournalOK(j)
      /\ Clean(nand) /\ TreeOK(nand, j) /\ Kept(nand, j, durable)
      /\ j.tail \in UserPages
  BY Known1 DEF Journal
<1>2. CASE /\ Verdict(nand, j, j.tail) = "garbage"
           /\ j' = Dequeue(j) /\ Goto(w, then)
  <2>1. ReadMeta(nand, j, j.tail) \in Meta
    BY <1>1, CleanMeta
  <2>2. s \in Sectors \cup {None}
    BY <2>1 DEF Meta
  <2>3. ~OnTree(nand, j, j.tail) \/ ReadMeta(nand, j, j.tail).id = None
    <3>1. s # None => TracePath(nand, j, s).page # j.tail
      BY <1>2 DEF Verdict
    <3>2. OnTree(nand, j, j.tail) /\ s \in Sectors
            => TracePath(nand, j, s).page = j.tail
      BY <1>1, OnTreeFound
    <3> QED BY <2>2, <3>1, <3>2
  <2>4. Kept(nand, Dequeue(j), durable)
    BY <1>1, <2>3, DequeuedKept
  <2>5. Kept(nand, j', durable)
    BY <1>2, <2>4
  <2> QED BY <1>2, <2>5, QuietSaves
<1>3. CASE Goto(w, moving) /\ j' = j
  <2>1. moving.at = "head" /\ moving.at \notin Programming
    BY DEF Enqueue, Programming
  <2> HIDE DEF moving
  <2>2. Kept(nand, j', durable)
    BY <1>1, <1>3
  <2> QED BY <1>3, <2>1, <2>2, QuietSaves
<1>4. CASE j' = j /\ Fail(w)
  <2>1. Kept(nand, j', durable)
    BY <1>1, <1>4
  <2> QED BY <1>4, <2>1, AnswerGoes, QuietSaves
<1> QED BY <1>2, <1>3, <1>4 DEF MoveTail

LEMMA GcSaves ==
    ASSUME NEW w, At1(w), Gc(w)
    PROVE  SavedBy(w)
<1>1. Clean(nand) /\ j \in Journal /\ Kept(nand, j, durable)
  BY Known1
<1>2. nand' = nand /\ durable' = durable
  BY DEF Gc
<1>3. CASE Goto(w, Serve) /\ UNCHANGED j
  <2>1. Serve.at \notin Programming
    BY DEF Serve, Programming
  <2>2. Kept(nand, j', durable)
    BY <1>1, <1>3
  <2> QED BY <1>2, <1>3, <2>1, <2>2, QuietSaves
<1>4. CASE /\ j.head # j.tail
           /\ MoveTail(w, Peek(nand, j), Collect(proc[w].left - 1))
  <2>1. PICK then : then = Collect(proc[w].left - 1)
    OBVIOUS
  <2>2. then.at \notin Programming
    BY <2>1 DEF Collect, Programming
  <2>3. MoveTail(w, j, then)
    <3>1. Peek(nand, j) = j
      BY <1>1, CleanPeek
    <3> QED BY <1>4, <2>1, <3>1
  <2> HIDE DEF MoveTail
  <2> QED BY <1>2, <1>4, <2>2, <2>3, MoveTailSaves
<1> QED BY <1>3, <1>4 DEF Gc

LEMMA SyncSaves ==
    ASSUME NEW w, At1(w), Sync(w)
    PROVE  SavedBy(w)
<1>1. Clean(nand) /\ j \in Journal /\ Kept(nand, j, durable)
  BY Known1
<1>2. nand' = nand /\ durable' = durable
  BY DEF Sync
<1>3. CASE (Succeed(w) \/ Fail(w)) /\ UNCHANGED j
  <2>1. Kept(nand, j', durable)
    BY <1>1, <1>3
  <2> QED BY <1>2, <1>3, <2>1, AnswerGoes, QuietSaves
<1>4. CASE Pad(w)
  <2>1. UNCHANGED j /\ (Fail(w) \/ \E k : Goto(w, k) /\ k.at \notin Programming)
    <3>1. \A from, meta :
            Enqueue(from, meta, j.count, SyncLoop, FALSE, j.count).at \notin Programming
      BY DEF Enqueue, Programming
    <3> QED BY <1>4, <3>1 DEF Pad
  <2>2. Kept(nand, j', durable)
    BY <1>1, <2>1
  <2>3. CASE Fail(w)
    BY <1>3, <2>1, <2>3
  <2> QED BY <1>2, <2>1, <2>2, <2>3, QuietSaves
<1>5. CASE j.head # j.tail /\ MoveTail(w, Peek(nand, j), SyncLoop)
  <2>1. SyncLoop.at \notin Programming
    BY DEF SyncLoop, Programming
  <2>2. MoveTail(w, j, SyncLoop)
    <3>1. Peek(nand, j) = j
      BY <1>1, CleanPeek
    <3> QED BY <1>5, <3>1
  <2> HIDE DEF MoveTail
  <2> QED BY <1>2, <1>5, <2>1, <2>2, MoveTailSaves
<1> QED BY <1>3, <1>4, <1>5 DEF Sync

\* A change of the count, and no other.
LEMMA CountSaves ==
    ASSUME NEW w, At1(w), nand' = nand, durable' = durable,
           NEW count \in Int, j' = [j EXCEPT !.count = count],
           NEW k, Goto(w, k), k.at \notin Programming
    PROVE  SavedBy(w)
<1>1. /\ nand \in Flash /\ Filled(nand) /\ JournalOK(j) /\ j \in Journal
      /\ TreeOK(nand, j) /\ Kept(nand, j, durable)
  BY Known1
<1>2. PICK kk : kk = [j EXCEPT !.count = count]
  OBVIOUS
<1>3. /\ JournalOK(kk) /\ kk.epoch = j.epoch /\ kk.head = j.head /\ kk.tail = j.tail
      /\ kk.tailSync = j.tailSync /\ kk.root = j.root /\ kk.metas = j.metas
      /\ kk.dirty = j.dirty
  <2>1. JournalOK(kk)
    BY <1>1, <1>2, CountKept
  <2> QED BY <1>1, <1>2, <2>1 DEF Journal
<1>4. Kept(nand, kk, durable)
  BY <1>1, <1>3, RelabelledKept
<1>5. Kept(nand, j', durable)
  BY <1>2, <1>4
<1> QED BY <1>5, QuietSaves

LEMMA CarrySaves ==
    ASSUME NEW w, At1(w), Carry(w)
    PROVE  SavedBy(w)
<1>1. /\ Clean(nand) /\ j \in Journal /\ Kept(nand, j, durable) /\ nand \in Flash
      /\ Filled(nand) /\ JournalOK(j)
  BY Known1
<1>2. nand' = nand /\ durable' = durable
  BY DEF Carry
<1>3. Kept(nand, Clear(j), durable)
  BY <1>1, ClearedKept
<1>4. \A source, meta, count, old :
        Enqueue(source, meta, count, Idle, FALSE, old).at \notin Programming
  BY DEF Enqueue, Programming
<1>5. CASE ReadStep(w)
  <2>1. j' = j /\ (Fail(w) \/ \E ok, d : Answer(w, ok, d))
    BY <1>5 DEF ReadStep
  <2>2. Kept(nand, j', durable)
    BY <1>1, <2>1
  <2> QED BY <1>2, <2>1, <2>2, AnswerGoes, QuietSaves
<1>6. CASE ClearStep(w)
  <2>1. Succeed(w) /\ (j' = j \/ j' = Clear(j))
    BY <1>6 DEF ClearStep
  <2>2. Kept(nand, j', durable)
    BY <1>1, <1>3, <2>1
  <2> QED BY <1>2, <2>1, <2>2, AnswerGoes, QuietSaves
<1>7. CASE WriteStep(w)
  <2>1. CASE Fail(w) /\ UNCHANGED j
    <3>1. Kept(nand, j', durable)
      BY <1>1, <2>1
    <3> QED BY <1>2, <2>1, <3>1, AnswerGoes, QuietSaves
  <2>2. CASE \E count \in Int : \E k : /\ j' = [j EXCEPT !.count = count]
                                       /\ Goto(w, k) /\ k.at \notin Programming
    BY <1>2, <2>2, CountSaves
  <2>3. j.count \in Int /\ j.count + 1 \in Int
    BY <1>1 DEF Journal
  <2> QED BY <1>4, <1>7, <2>1, <2>2, <2>3 DEF WriteStep
<1>8. CASE TrimStep(w)
  <2>1. (j' = j \/ j' = Clear(j)) /\ (Succeed(w) \/ Fail(w)
          \/ \E k : Goto(w, k) /\ k.at \notin Programming)
    <3>1. PICK path : path = TracePath(nand, j, request[w].sector)
      OBVIOUS
    <3>2. PICK del : del = Deletion(nand, j, path)
      OBVIOUS
    <3>3. path.page \in Stops
      BY <1>1, <3>1, TracePathType
    <3>4. path.page = None \/ path.page = Unreadable \/ path.page >= 0
      BY <3>3, UserPage DEF Stops
    <3>5. \/ Succeed(w) /\ UNCHANGED j
          \/ Fail(w) /\ UNCHANGED j
          \/ Succeed(w) /\ j' = Clear(j)
          \/ /\ Goto(w, Enqueue(FromPage(del.page), del.meta,
                                j.count - 1, Idle, FALSE, j.count))
             /\ UNCHANGED <<j, reply>>
      BY <1>8, <3>1, <3>2, <3>4 DEF TrimStep
    <3> QED BY <1>4, <3>5
  <2>2. Kept(nand, j', durable)
    BY <1>1, <1>3, <2>1
  <2> QED BY <1>2, <2>1, <2>2, AnswerGoes, QuietSaves
<1> QED BY <1>5, <1>6, <1>7, <1>8 DEF Carry

LEMMA PrepareHeadSaves ==
    ASSUME NEW w, At1(w), PrepareHead(w)
    PROVE  SavedBy(w)
<1> DEFINE dirty == [j EXCEPT !.dirty = TRUE]
           found == SkipBad(dirty)
           program == [proc[w] EXCEPT !.at = "program"]
           erase == [proc[w] EXCEPT !.at = "erase"]
<1>1. /\ nand \in Flash /\ Filled(nand) /\ JournalOK(j) /\ j \in Journal /\ Inv
      /\ TreeOK(nand, j) /\ Kept(nand, j, durable) /\ Clean(nand) /\ w \in Workers
  BY Known1
<1>2. nand' = nand /\ durable' = durable /\ proc[w].at = "head"
  BY DEF PrepareHead, At
<1>3. proc[w] \in Appends
  BY <1>1, <1>2, AppendingAt
<1>4. /\ JournalOK(dirty) /\ dirty.head = j.head /\ dirty.tail = j.tail
      /\ dirty.tailSync = j.tailSync /\ dirty.root = j.root
      /\ dirty.metas = j.metas /\ dirty.dirty = TRUE /\ dirty.epoch = j.epoch
  BY <1>1, DirtyType DEF Journal
<1>5. j.head % Ppb = 0 =>
        /\ found.ok /\ JournalOK(found.j) /\ found.j.head = j.head
        /\ found.j.tail = j.tail /\ found.j.tailSync = j.tailSync
        /\ found.j.root = j.root /\ found.j.metas = j.metas
        /\ found.j.dirty = TRUE /\ found.j.epoch = j.epoch
  <2> HIDE DEF dirty
  <2>1. dirty \in Journal
    BY <1>4 DEF JournalOK
  <2>2. j.head % Ppb = 0 => /\ found.ok /\ found.j.head = dirty.head
                            /\ found.j.epoch = dirty.epoch
    BY <1>1, <1>4, <2>1, CleanSkip
  <2>3. j.head % Ppb = 0 =>
          /\ JournalOK(found.j) /\ found.j.tail = dirty.tail
          /\ found.j.tailSync = dirty.tailSync
          /\ found.j.root = dirty.root /\ found.j.metas = dirty.metas
          /\ found.j.dirty = dirty.dirty
    BY <1>4, SkipBadType
  <2> QED BY <1>4, <2>2, <2>3
<1>6. \/ j' = [j EXCEPT !.count = proc[w].old] /\ Fail(w)
      \/ j' = dirty /\ Goto(w, program)
      \/ j.head % Ppb = 0 /\ j' = found.j /\ Goto(w, erase)
      \/ j.head % Ppb = 0 /\ ~found.ok
  BY DEF PrepareHead
<1> HIDE DEF dirty, found, program, erase
<1>7. CASE j' = [j EXCEPT !.count = proc[w].old] /\ Fail(w)
  <2>1. proc[w].old \in Int
    BY <1>3 DEF Appends
  <2> QED BY <1>2, <1>7, <2>1, AnswerGoes, CountSaves
<1>8. ASSUME NEW kk, j' = kk, NEW k, Goto(w, k), JournalOK(kk), kk.epoch = j.epoch,
             kk.head = j.head, kk.tail = j.tail, kk.tailSync = j.tailSync,
             kk.root = j.root, kk.metas = j.metas, kk.dirty = TRUE
      PROVE  SavedBy(w)
  <2>1. Kept(nand, kk, durable)
    BY <1>1, <1>8, RelabelledKept
  <2>2. Kept(nand, j', durable) /\ j'.dirty = TRUE
    BY <1>8, <2>1
  <2> QED BY <1>2, <1>8, <2>2, QuietSaves
<1>9. CASE j' = dirty /\ Goto(w, program)
  BY <1>4, <1>8, <1>9
<1>10. CASE j.head % Ppb = 0 /\ j' = found.j /\ Goto(w, erase)
  BY <1>5, <1>8, <1>10
<1> QED BY <1>5, <1>6, <1>7, <1>9, <1>10

LEMMA EraseSaves ==
    ASSUME NEW w, At1(w), MaxRetries > 1, Erase(w)
    PROVE  SavedBy(w)
<1>1. Inv /\ Clean(nand) /\ Kept(nand, j, durable) /\ w \in Workers
  BY Known1
<1>2. /\ proc[w].at = "erase" /\ j' = j
      /\ nand' = Erased(nand, Block(j.head)) /\ durable' = Contents(nand', Resume(nand'))
  BY DEF Erase, At, OnFlash
<1>3. j.dirty = TRUE
  BY <1>2, Known1 DEF Programming
<1>4. PICK n2, d : n2 = nand' /\ d = durable
  OBVIOUS
<1>5. Keeping(d)
  BY <1>1, <1>4 DEF Kept, Keeping
<1>6. /\ Arranged(n2, j.head, j.epoch) /\ Saved(n2, j, d)
      /\ Contents(n2, Resume(n2)) = d
  BY <1>1, <1>2, <1>4, <1>5, EraseKept
<1>7. Synced(n2, j)
  BY <1>3 DEF Synced
<1>8. Kept(nand', j', durable') /\ durable' = durable
  BY <1>2, <1>4, <1>6, <1>7 DEF Kept
<1>9. \E k : Goto(w, k)
  BY DEF Erase
<1> QED BY <1>2, <1>3, <1>8, <1>9 DEF SavedBy

\* What push_meta and its callers leave alone.
LEMMA ProceedLeaves ==
    ASSUME NEW w, NEW l, JournalOK(l), proc[w] \in Appends, Proceed(w, l)
    PROVE  /\ j'.head = l.head /\ j'.epoch = l.epoch /\ j'.dirty = l.dirty
           /\ l.dirty = TRUE => j'.tailSync = l.tailSync
           /\ \E k : Goto(w, k) /\ k.at \notin Programming
<1>1. l \in Journal /\ l.count \in Int
  BY DEF JournalOK, Journal
<1>2. /\ j'.head = l.head /\ j'.epoch = l.epoch /\ j'.dirty = l.dirty
      /\ l.dirty = TRUE => j'.tailSync = l.tailSync
  <2>1. CASE j' = Dequeue(l)
    <3>1. PICK m : m = Dequeue(l)
      OBVIOUS
    <3>2. m.head = l.head /\ m.epoch = l.epoch /\ m.dirty = l.dirty
      BY <3>1, DequeueType
    <3>3. l.dirty = TRUE => m.tailSync = l.tailSync
      BY <1>1, <3>1 DEF Dequeue, Journal
    <3> QED BY <2>1, <3>1, <3>2, <3>3
  <2>2. CASE \E c \in Int : j' = [l EXCEPT !.count = c]
    <3>1. PICK c \in Int : j' = [l EXCEPT !.count = c]
      BY <2>2
    <3>2. PICK m : m = [l EXCEPT !.count = c]
      OBVIOUS
    <3>3. /\ m.head = l.head /\ m.epoch = l.epoch /\ m.dirty = l.dirty
          /\ m.tailSync = l.tailSync
      BY <1>1, <3>2 DEF Journal
    <3> QED BY <3>1, <3>2, <3>3
  <2>3. \/ j' = Dequeue(l)
        \/ j' = [l EXCEPT !.count = IF request[w].op = "trim" THEN l.count - 1
                                    ELSE l.count]
    BY DEF Proceed
  <2>4. PICK c \in Int : c = IF request[w].op = "trim" THEN l.count - 1 ELSE l.count
    BY <1>1
  <2>5. j' = Dequeue(l) \/ j' = [l EXCEPT !.count = c]
    BY <2>3, <2>4
  <2> QED BY <2>1, <2>2, <2>5
<1>3. \E k : Goto(w, k) /\ k.at \notin Programming
  <2>1. proc[w].then \in Thens
    BY DEF Appends
  <2>2. proc[w].then.at \notin Programming
    BY <2>1 DEF Thens, Idle, SyncLoop, Programming
  <2>3. Goto(w, proc[w].then) \/ Succeed(w)
    BY DEF Proceed
  <2> QED BY <2>2, <2>3, AnswerGoes
<1> QED BY <1>2, <1>3

LEMMA ProgramSaves ==
    ASSUME NEW w, At1(w), MaxRetries > 1, Inv', Program(w)
    PROVE  SavedBy(w)
<1> DEFINE h == j.head
           pushed == Pushed(w)
           moved == [pushed EXCEPT !.root = h, !.head = @ + 1]
           check == [proc[w] EXCEPT !.at = "check", !.oldHead = h]
<1>1. /\ Inv /\ Clean(nand) /\ Kept(nand, j, durable) /\ w \in Workers
      /\ JournalOK(j) /\ j \in Journal /\ h \in UserPages
  BY Known1 DEF Journal
<1>2. proc[w].at = "program"
  BY DEF Program, At
<1>3. j.dirty = TRUE
  BY <1>2, Known1 DEF Programming
<1>4. proc[w] \in Appends /\ Room(j)
  BY <1>1, <1>2, AppendingAt DEF Fits
<1>5. /\ JournalOK(pushed) /\ pushed.head = h /\ pushed.tail = j.tail
      /\ pushed.tailSync = j.tailSync
  BY <1>1, <1>4, PushedType
<1>6. pushed.dirty = TRUE /\ pushed.epoch = j.epoch
  BY <1>1, <1>3 DEF Pushed, Journal
<1> HIDE DEF pushed
<1>7. CASE Fail(w) /\ j' = [j EXCEPT !.count = proc[w].old] /\ nand' = nand
           /\ durable' = durable
  <2>1. proc[w].old \in Int
    BY <1>4 DEF Appends
  <2> QED BY <1>7, <2>1, AnswerGoes, CountSaves
<1>8. ASSUME nand' = AfterData(w), durable' = Contents(nand', Resume(nand'))
      PROVE  /\ nand' \in Flash /\ Filled(nand') /\ Kept(nand', j, durable)
             /\ durable' = durable
  <2>1. PICK n2, d : n2 = nand' /\ d = durable
    OBVIOUS
  <2>2. Keeping(d)
    BY <1>1, <2>1 DEF Kept, Keeping
  <2>3. /\ Arranged(n2, h, j.epoch) /\ Saved(n2, j, d)
        /\ Contents(n2, Resume(n2)) = d
    BY <1>1, <1>2, <1>8, <2>1, <2>2, ProgramKept
  <2>4. Synced(n2, j)
    BY <1>3 DEF Synced
  <2>5. FlashOK(n2)
    BY <1>1, <1>2, <1>8, <2>1, DataProgrammed
  <2> QED BY <1>8, <2>1, <2>3, <2>4, <2>5 DEF Kept, FlashOK
<1>9. JournalOK(j')
  BY DEF Inv, LogInv
<1>10. ASSUME nand' = AfterData(w), durable' = Contents(nand', Resume(nand')),
              Group(j'.head) = Group(h), j'.epoch = j.epoch, j'.dirty = TRUE,
              j'.tailSync = j.tailSync, \E k : Goto(w, k)
       PROVE  SavedBy(w)
  <2>1. PICK kk : kk = j'
    OBVIOUS
  <2>2. PICK n2 : n2 = nand'
    OBVIOUS
  <2>3. n2 \in Flash /\ Filled(n2) /\ Kept(n2, j, durable) /\ durable' = durable
    BY <1>8, <1>10, <2>2
  <2>4. JournalOK(kk) /\ kk.epoch = j.epoch
        /\ kk.dirty /\ kk.tailSync = j.tailSync /\ Group(kk.head) = Group(j.head)
    BY <1>9, <1>10, <2>1
  <2>5. Kept(n2, kk, durable)
    BY <1>1, <2>3, <2>4, Unseen
  <2> QED BY <1>10, <2>1, <2>2, <2>3, <2>5 DEF SavedBy
<1>11. CASE /\ nand' = AfterData(w) /\ durable' = Contents(nand', Resume(nand'))
            /\ (h + 2) % Ppc # 0 /\ Proceed(w, moved)
  <2>1. NextUpage(h) = h + 1 /\ Block(h + 1) = Block(h) /\ Group(h + 1) = Group(h)
    BY <1>1, <1>11, NextUserPage
  <2>2. moved = [pushed EXCEPT !.root = h, !.head = NextUpage(pushed.head)]
    BY <1>5, <2>1
  <2>3. moved.dirty = TRUE /\ moved.epoch = j.epoch /\ moved.tailSync = j.tailSync
    BY <1>5, <1>6 DEF JournalOK, Journal
  <2> HIDE DEF moved
  <2>4. JournalOK(moved) /\ moved.head = h + 1
    BY <1>1, <1>4, <1>5, <2>1, <2>2, HeadMoved DEF Room
  <2>5. /\ j'.head = h + 1 /\ j'.epoch = j.epoch /\ j'.dirty = TRUE
        /\ j'.tailSync = j.tailSync /\ \E k : Goto(w, k)
    BY <1>4, <1>11, <2>3, <2>4, ProceedLeaves
  <2> QED BY <1>10, <1>11, <2>1, <2>5
<1>12. CASE /\ nand' = AfterData(w) /\ durable' = Contents(nand', Resume(nand'))
            /\ Goto(w, check) /\ j' = pushed
  <2> HIDE DEF check
  <2> QED BY <1>5, <1>6, <1>10, <1>12
<1> QED BY <1>7, <1>11, <1>12 DEF Program, OnFlash, pushed

LEMMA PushMetaSaves ==
    ASSUME NEW w, At1(w), MaxRetries > 1, PushMeta(w)
    PROVE  SavedBy(w) /\ durable' = Contents(nand', j')
<1>1. At0(w) /\ Kept(nand, j, durable) /\ w \in Workers /\ Inv
  BY Known1
<1>2. /\ proc[w].at = "check" /\ nand' = AfterCheckpoint(w)
      /\ durable' = Contents(nand', Resume(nand')) /\ Proceed(w, Checkpointed(w))
  BY DEF PushMeta, At, OnFlash, Checkpointed
<1>3. Arranged(nand, j.head, j.epoch)
  BY <1>1 DEF Kept
<1>4. PICK n2, l, m : n2 = nand' /\ l = Checkpointed(w) /\ m = j'
  OBVIOUS
<1>5. Finished(l, proc[w], request[w], m)
  BY <1>2, <1>4 DEF Proceed, Finished
<1>6. /\ FlashOK(n2) /\ m \in Journal /\ Arranged(n2, m.head, m.epoch)
      /\ Saved(n2, m, Contents(n2, m)) /\ Synced(n2, m) /\ m.dirty = FALSE
      /\ Resumable(n2, m)
  BY <1>1, <1>2, <1>3, <1>4, <1>5, CheckpointSaves
<1>7. Contents(n2, Resume(n2)) = Contents(n2, m)
  BY <1>6, ResumeReads
<1>8. Kept(nand', j', durable') /\ durable' = Contents(nand', j')
  BY <1>2, <1>4, <1>6, <1>7 DEF Kept
<1>9. \E k : Goto(w, k) /\ k.at \notin Programming
  <2>1. JournalOK(l)
    BY <1>1, <1>2, <1>4, CheckpointLands
  <2>2. proc[w] \in Appends
    BY <1>1, <1>2, AppendingAt
  <2> QED BY <1>2, <1>4, <2>1, <2>2, ProceedLeaves
<1> QED BY <1>8, <1>9 DEF SavedBy

LEMMA WorkSaves ==
    ASSUME NEW w \in Workers, Inv, Untouched, Saves, Inv', MaxRetries > 1, Work(w)
    PROVE  SavedBy(w) /\ Saves'
<1>1. proc[w] # Idle
  BY WorkStepExists
<1>2. At1(w)
  BY <1>1 DEF At0, At1
<1>3. SavedBy(w)
  BY <1>2, GcSaves, CarrySaves, SyncSaves, PrepareHeadSaves, EraseSaves,
     ProgramSaves, PushMetaSaves DEF Work
<1>4. PICK k : Goto(w, k) /\ (k.at \in Programming => j'.dirty = TRUE)
  BY <1>3 DEF SavedBy
<1>5. ASSUME NEW v \in Workers, proc'[v].at \in Programming
      PROVE  j'.dirty = TRUE
  <2>1. proc' = [proc EXCEPT ![w] = k]
    BY <1>4 DEF Goto
  <2>2. CASE v = w
    BY <1>4, <1>5, <2>1, <2>2 DEF Inv, TypeInv
  <2>3. CASE v # w
    <3>1. proc'[v] = proc[v]
      BY <2>1, <2>3 DEF Inv, TypeInv
    <3>2. proc[v] = Idle
      BY <1>1, <2>3 DEF Inv, CallInv
    <3> QED BY <1>5, <3>1, <3>2 DEF Idle, Programming
  <2> QED BY <2>2, <2>3
<1> QED BY <1>3, <1>5 DEF Saves, SavedBy

LEMMA AskSaves ==
    ASSUME NEW w \in Workers, Inv, Saves,
           Take(w) \/ \E r \in Requests : Ask(w, r)
    PROVE  Saves' /\ durable' = durable
<1>1. nand' = nand /\ j' = j /\ durable' = durable
  BY DEF Take, Ask
<1>2. ASSUME NEW v \in Workers, proc'[v].at \in Programming
      PROVE  j'.dirty = TRUE
  <2>1. CASE proc'[v] = proc[v]
    BY <1>1, <1>2, <2>1 DEF Saves
  <2>2. ASSUME NEW r, proc' = [proc EXCEPT ![w] = Entry(r)], v = w
        PROVE  FALSE
    <3>1. proc'[v] = Entry(r)
      BY <2>2 DEF Inv, TypeInv
    <3>2. Entry(r) = Serve \/ Entry(r) = SyncLoop \/ Entry(r) = Collect(Rounds)
      BY DEF Entry
    <3>3. Entry(r).at \in {"serve", "sync", "gc"}
      BY <3>2 DEF Serve, SyncLoop, Collect
    <3> QED BY <1>2, <3>1, <3>3 DEF Programming
  <2>3. proc' = proc \/ \E r : proc' = [proc EXCEPT ![w] = Entry(r)]
    BY DEF Take, Ask, Goto
  <2>4. v # w => proc'[v] = proc[v]
    BY <2>3 DEF Inv, TypeInv
  <2> QED BY <2>1, <2>2, <2>3, <2>4
<1> QED BY <1>1, <1>2 DEF Saves

LEMMA InitSaves == Init => Saves
<1> SUFFICES ASSUME Init PROVE Saves
  OBVIOUS
<1>1. /\ j = EmptyJournal /\ nand \in Flash /\ \A p \in Pages : nand[p] = Free
      /\ durable = Contents(nand, j) /\ proc = [w \in Workers |-> Idle]
  BY InitEmpty DEF Init
<1>2. /\ j.head = 0 /\ j.tail = 0 /\ j.tailSync = 0 /\ j.epoch = 0
      /\ j.root = None /\ j \in Journal
  BY <1>1, EmptyJournalOK DEF EmptyJournal, JournalOK
<1>3. 0 \in Pages /\ 0 \in UserPages
  BY <1>2, UserPage DEF Journal
<1>4. Start(0) = 0 /\ 0 % Ppc = 0
  <2>1. PICK s \in Int : s = Start(0) /\ 0 <= s /\ s <= 0
    BY <1>3, StartIs
  <2>2. 0 % Ppc = 0
    BY Geometry
  <2> QED BY <2>1, <2>2
<1>5. ~Written(0, 0)
  BY <1>4 DEF Written
<1>6. TreeOK(nand, j) /\ \A t \in Sectors : TracePath(nand, j, t).page = None
  BY <1>1, <1>2, EmptyTree
<1>7. durable = [s \in Sectors |-> Blank]
  BY <1>1, <1>2, <1>6, EmptyContents
<1>8. Arranged(nand, 0, 0)
  <2>1. \A c \in Checkpoints : c \in Int /\ c >= 0 /\ nand[c].kind # "checkpoint"
    BY <1>1, FreeHasNoFields, Geometry DEF Checkpoints, Pages
  <2>2. \A b \in Blocks : ~IsBad(nand, b)
    BY <1>1, FirstOfBlock, FreeHasNoFields DEF Blocks, IsBad
  <2> QED BY <1>4, <2>1, <2>2 DEF Arranged
<1>9. Saved(nand, j, durable)
  BY <1>2, <1>4, <1>5, <1>7 DEF Saved, Behind
<1>10. Synced(nand, j)
  BY <1>2, <1>4, <1>5, <1>6 DEF Synced
<1>11. \A w \in Workers : proc[w].at \notin Programming
  BY <1>1 DEF Idle, Programming
<1> QED BY <1>2, <1>8, <1>9, <1>10, <1>11 DEF Saves, Kept

\* With nothing to sync, a reset goes back to what is there.
LEMMA NothingToSync ==
    ASSUME NEW n \in Flash, NEW jj \in Journal, TreeOK(n, jj), Filled(n), NEW d,
           Kept(n, jj, d), ~jj.dirty
    PROVE  d = Contents(n, jj)
<1>1. PICK h, e : h \in UserPages /\ h = jj.head /\ e = jj.epoch
  BY DEF Journal
<1>2. /\ Arranged(n, h, e) /\ Saved(n, jj, d)
      /\ Written(h, e) => \A s \in Sectors :
           TracePath(n, jj, s).page = TracePath(n, Snap(n, h), s).page
      /\ ~Written(h, e) => \A s \in Sectors : TracePath(n, jj, s).page = None
  BY <1>1 DEF Kept, Synced
<1>3. CASE Written(h, e)
  <2>1. PICK S \in Journal : S = Snap(n, h)
    BY <1>1, <1>2, <1>3, SnapIs
  <2>2. TreeOK(n, S) /\ Contents(n, S) = d
    BY <1>1, <1>2, <1>3, <2>1 DEF Saved, SnapOK
  <2>3. \A s \in Sectors : TracePath(n, jj, s).page = TracePath(n, S, s).page
    BY <1>2, <1>3, <2>1
  <2>4. Contents(n, jj) = Contents(n, S)
    BY <2>2, <2>3, SamePages
  <2> QED BY <2>2, <2>4
<1>4. CASE ~Written(h, e)
  <2>1. Contents(n, jj) = [s \in Sectors |-> Blank]
    BY <1>2, <1>4, EmptyContents
  <2> QED BY <1>1, <1>2, <1>4, <2>1 DEF Saved
<1> QED BY <1>3, <1>4

\* A sync is answered when nothing is left that a reset would undo.
LEMMA SyncAnswered ==
    ASSUME NEW w, At1(w), MaxRetries > 1, Work(w), request[w].op = "sync",
           reply'[w] # NoReply, reply'[w].ok = TRUE
    PROVE  durable' = Contents(nand', j')
<1>1. /\ nand \in Flash /\ Filled(nand) /\ j \in Journal /\ TreeOK(nand, j)
      /\ Kept(nand, j, durable) /\ Inv /\ w \in Workers /\ At0(w)
  BY Known1
<1>2. reply[w] = NoReply
  BY <1>1, Known
<1>3. ~UNCHANGED reply
  BY <1>2
<1>4. ~Fail(w)
  BY <1>1 DEF Fail, Answer, Inv, TypeInv
<1>5. ~Gc(w)
  BY <1>3, <1>4 DEF Gc, MoveTail
<1>6. ~Carry(w)
  BY DEF Carry, ReadStep, ClearStep, WriteStep, TrimStep
<1>7. ~PrepareHead(w) /\ ~Erase(w)
  BY <1>3, <1>4 DEF PrepareHead, Erase
<1>8. CASE Sync(w)
  <2>1. nand' = nand /\ durable' = durable /\ j' = j /\ ~j.dirty
    BY <1>3, <1>4, <1>8 DEF Sync, Pad, MoveTail
  <2>2. durable = Contents(nand, j)
    BY <1>1, <2>1, NothingToSync
  <2> QED BY <2>1, <2>2
<1>9. CASE Program(w)
  <2>1. proc[w].at = "program"
    BY <1>9 DEF Program, At
  <2>2. PICK l : Proceed(w, l)
    BY <1>3, <1>4, <1>9 DEF Program
  <2>3. proc[w].then = Idle
    BY <1>3, <2>2 DEF Proceed
  <2>4. Half(nand, j, proc[w], request[w])
    BY <1>1, <2>1, Known DEF Counted, Appending
  <2> QED BY <2>3, <2>4 DEF Half, Moves, Writes, Trims, Pads, Idle, SyncLoop
<1>10. CASE PushMeta(w)
  BY <1>10, PushMetaSaves
<1> QED BY <1>5, <1>6, <1>7, <1>8, <1>9, <1>10 DEF Work

-----------------------------------------------------------------------------
(* Every step is one of the disk, down to and including the first reset.   *)

LEMMA WorkIsDisk ==
    ASSUME NEW w \in Workers, Inv, Untouched, Saves, Inv', MaxRetries > 1, Work(w)
    PROVE  \/ Disk!CarryOut(w) \/ Disk!Refuse(w) \/ Disk!Checkpoint
           \/ UNCHANGED Disk!vars
<1>1. proc[w] # Idle
  BY WorkStepExists
<1>2. At1(w)
  BY <1>1 DEF At0, At1
<1>3. Service(w)
  BY WorkMaps
<1>4. SavedBy(w)
  BY WorkSaves
<1>5. sectors' = Contents(nand', j')
  BY DEF Work, Gc, Carry, Sync, PrepareHead, Erase, Program, PushMeta, Remember
<1>6. durable' = durable \/ durable' = sectors'
  BY <1>4, <1>5 DEF SavedBy
<1>7. reply \in [Workers -> Replies \cup {NoReply}] /\ reply[w] = NoReply
  BY <1>1 DEF Inv, TypeInv, CallInv
<1>8. CASE Volatile!CarryOut(w)
  <2>1. /\ Volatile!Pending(w) /\ sectors' = Volatile!After(sectors, request[w])
        /\ reply' = [reply EXCEPT ![w] = Volatile!Success(sectors, request[w])]
        /\ UNCHANGED request
    BY <1>8 DEF Volatile!CarryOut
  <2>2. reply'[w].ok = TRUE /\ reply'[w] # NoReply
    <3>1. reply'[w].ok = TRUE
      BY <1>7, <2>1 DEF Volatile!Success
    <3>2. reply' \in [Workers -> Replies \cup {NoReply}]
      BY DEF Inv, TypeInv
    <3>3. reply'[w] # reply[w]
      <4>1. reply'[w] = Volatile!Success(sectors, request[w])
        BY <1>7, <2>1
      <4>2. Volatile!Success(sectors, request[w]) \in Replies
        <5>1. sectors = Contents(nand, j) /\ TreeOK(nand, j) /\ nand \in Flash
              /\ j \in Journal
          BY <1>2, Known1 DEF Untouched
        <5>2. sectors \in [Sectors -> Data \cup {Blank}]
          BY <5>1, ContentsType
        <5>3. request[w] \in Requests
          BY <1>1 DEF Inv, CallInv
        <5>4. request[w].op = "read" => request[w].sector \in Sectors
          BY <5>3 DEF Requests
        <5> QED BY <5>2, <5>4 DEF Volatile!Success, Replies
      <4> QED BY <1>7, <4>1, <4>2, ClientAssumption
    <3> QED BY <1>7, <3>1, <3>3
  <2>3. request[w].op = "sync" => durable' = sectors'
    BY <1>2, <1>5, <2>2, SyncAnswered
  <2>4. /\ Disk!Pending(w) /\ sectors' = Disk!After(sectors, request[w])
        /\ reply' = [reply EXCEPT ![w] = Disk!Success(sectors, request[w])]
    BY <2>1 DEF Volatile!Pending, Disk!Pending, Volatile!After, Disk!After,
       Volatile!Success, Disk!Success
  <2> QED BY <1>6, <2>1, <2>3, <2>4 DEF Disk!CarryOut
<1>9. CASE Volatile!Refuse(w)
  <2>1. /\ Volatile!Pending(w) /\ reply' = [reply EXCEPT ![w] = Volatile!Failure]
        /\ UNCHANGED <<sectors, request>>
    BY <1>9 DEF Volatile!Refuse
  <2>2. ~PushMeta(w)
    <3>1. reply'[w].ok = FALSE
      BY <1>7, <2>1 DEF Volatile!Failure
    <3>2. reply'[w] # reply[w]
      <4>1. reply'[w] = [ok |-> FALSE, data |-> Blank]
        BY <1>7, <2>1 DEF Volatile!Failure
      <4>2. reply'[w] \in Replies
        BY <4>1 DEF Replies
      <4> QED BY <1>7, <4>2, ClientAssumption
    <3>3. PushMeta(w) => Succeed(w) \/ UNCHANGED reply
      BY DEF PushMeta, Proceed
    <3> QED BY <1>7, <3>1, <3>2, <3>3 DEF Succeed, Answer
  <2>3. durable' = durable
    BY <1>4, <2>2 DEF SavedBy
  <2> QED BY <2>1, <2>3 DEF Disk!Refuse, Volatile!Pending, Disk!Pending,
          Volatile!Failure, Disk!Failure
<1>10. CASE UNCHANGED <<sectors, request, reply>>
  BY <1>6, <1>10 DEF Disk!Checkpoint, Disk!vars
<1> QED BY <1>3, <1>8, <1>9, <1>10 DEF Service

LEMMA CrashIsDisk ==
    ASSUME Inv, Untouched, Saves, MaxRetries > 1, Crash
    PROVE  Disk!Reset
<1>1. PICK n \in {nand} \cup UNION {InFlight(w) : w \in Workers} :
            OnFlash(n) /\ j' = Resume(n)
  BY DEF Crash
<1>2. /\ request' = [w \in Workers |-> NoRequest]
      /\ reply' = [w \in Workers |-> NoReply]
  BY DEF Crash
<1>3. durable' = Contents(n, Resume(n)) /\ sectors' = durable'
  BY <1>1 DEF Crash, OnFlash, Remember
<1>4. Clean(nand) /\ Kept(nand, j, durable) /\ sectors = Contents(nand, j)
  BY DEF Untouched, MapOK, Saves
<1>5. Keeping(durable)
  BY <1>4 DEF Kept, Keeping
<1>6. PICK d : d = durable
  OBVIOUS
<1>7. Keeping(d)
  BY <1>5, <1>6
<1>8. ASSUME NEW w \in Workers, n \in InFlight(w)
      PROVE  \/ durable' \in {durable, sectors}
             \/ Disk!Pending(w) /\ durable' = Disk!After(sectors, request[w])
  <2>1. CASE proc[w].at = "erase"
    <3>1. n = Erased(nand, Block(j.head)) \/ n = Ruined(nand, Block(j.head))
      BY <1>8, <2>1 DEF InFlight
    <3>2. Contents(n, Resume(n)) = d
      BY <1>4, <1>7, <2>1, <3>1, EraseKept
    <3> QED BY <1>3, <1>6, <3>2
  <2>2. CASE proc[w].at = "program"
    <3>1. n = AfterData(w) \/ n = [nand EXCEPT ![j.head] = Torn]
      BY <1>8, <2>2 DEF InFlight
    <3>2. Contents(n, Resume(n)) = d
      BY <1>4, <1>7, <2>2, <3>1, ProgramKept
    <3> QED BY <1>3, <1>6, <3>2
  <2>3. CASE proc[w].at = "check" /\ n = [nand EXCEPT ![j.head + 1] = Torn]
    <3>1. Contents(n, Resume(n)) = d
      BY <1>4, <1>7, <2>3, TornCheckpointKept
    <3> QED BY <1>3, <1>6, <3>1
  <2>4. CASE proc[w].at = "check" /\ n = AfterCheckpoint(w)
    <3>1. At0(w)
      BY <2>4 DEF At0, Idle
    <3>2. PICK l : l = Checkpointed(w)
      OBVIOUS
    <3>3. PICK k, r : k = proc[w] /\ r = request[w]
      OBVIOUS
    <3>4. \E m : Finished(l, k, r, m)
      BY DEF Finished
    <3>5. PICK m : Finished(l, k, r, m)
      BY <3>4
    <3>6. Finished(l, proc[w], request[w], m)
      BY <3>3, <3>5
    <3>7. Arranged(nand, j.head, j.epoch)
      BY <1>4 DEF Kept
    <3>8. /\ FlashOK(n) /\ m \in Journal /\ Arranged(n, m.head, m.epoch)
          /\ Saved(n, m, Contents(n, m)) /\ Resumable(n, m)
      BY <2>4, <3>1, <3>2, <3>6, <3>7, CheckpointSaves
    <3>9. Contents(n, Resume(n)) = Contents(n, m)
      BY <3>8, ResumeReads
    <3>10. n \in Flash /\ JournalOK(l) /\ Lands(nand, j, n, l, k)
      BY <2>4, <3>1, <3>2, <3>3, CheckpointLands
    <3>11. /\ nand \in Flash /\ JournalOK(j) /\ TreeOK(nand, j) /\ r \in Requests
           /\ Half(nand, j, k, r) /\ reply[w] = NoReply
      BY <2>4, <3>1, <3>3, Known DEF Counted, Appending
    <3>12. /\ k.then # Idle => Contents(n, m) = Contents(nand, j)
           /\ k.then = Idle =>
                Contents(n, m) = Volatile!After(Contents(nand, j), r)
      BY <3>5, <3>10, <3>11, Landed
    <3>13. Disk!Pending(w)
      BY <3>3, <3>11, ClientAssumption DEF Disk!Pending
    <3> QED BY <1>3, <1>4, <3>3, <3>9, <3>12, <3>13 DEF Volatile!After, Disk!After
  <2> QED BY <1>8, <2>1, <2>2, <2>3, <2>4 DEF InFlight
<1>9. ASSUME n = nand
      PROVE  durable' = durable
  BY <1>3, <1>6, <1>7, <1>9, AsItIs
<1>10. durable' \in {durable, sectors}
         \cup {Disk!After(sectors, request[c]) :
                 c \in {d1 \in Workers : Disk!Pending(d1)}}
  BY <1>1, <1>8, <1>9
<1> QED BY <1>2, <1>3, <1>10 DEF Disk!Reset

LEMMA DiskNext ==
    ASSUME Exclusive, MaxRetries > 1, Inv, MapInv, Inv', crashes = 0 => Saves,
           [Next]_vars
    PROVE  /\ crashes' = 0 => Saves'
           /\ crashes = 0 => [Disk!Next]_(Disk!vars)
<1>1. CASE UNCHANGED vars
  <2>1. crashes' = 0 => Saves'
    BY <1>1 DEF vars, Saves
  <2>2. UNCHANGED Disk!vars
    BY <1>1 DEF vars, Disk!vars
  <2> QED BY <2>1, <2>2
<1>2. CASE Crash
  <2>1. crashes' # 0
    BY <1>2 DEF Crash, MapInv
  <2>2. crashes = 0 => Disk!Reset
    BY <1>2, CrashIsDisk DEF MapInv
  <2> QED BY <2>1, <2>2 DEF Disk!Next
<1>3. ASSUME NEW w \in Workers,
             Work(w) \/ Take(w) \/ \E r \in Requests : Ask(w, r)
      PROVE  /\ crashes' = 0 => Saves'
             /\ crashes = 0 => [Disk!Next]_(Disk!vars)
  <2>1. crashes' = crashes
    BY <1>3 DEF Work, Gc, Carry, Sync, PrepareHead, Erase, Program, PushMeta, At,
       Take, Ask
  <2>2. CASE crashes = 0
    <3>1. Untouched /\ Saves
      BY <2>2 DEF MapInv
    <3>2. CASE Work(w)
      <4>1. Saves' /\ (\/ Disk!CarryOut(w) \/ Disk!Refuse(w) \/ Disk!Checkpoint
                       \/ UNCHANGED Disk!vars)
        BY <3>1, <3>2, WorkSaves, WorkIsDisk
      <4> QED BY <4>1 DEF Disk!Next
    <3>3. CASE Take(w)
      <4>1. Saves' /\ durable' = durable
        BY <3>1, <3>3, AskSaves
      <4>2. Volatile!Take(w)
        BY <3>1, <3>3, TakeMaps
      <4>3. Disk!Take(w)
        BY <4>1, <4>2 DEF Volatile!Take, Disk!Take
      <4> QED BY <4>1, <4>3 DEF Disk!Next
    <3>4. CASE \E r \in Requests : Ask(w, r)
      <4>1. Saves' /\ durable' = durable
        BY <3>1, <3>4, AskSaves
      <4>2. Volatile!Ask(w)
        BY <3>1, <3>4, AskMaps
      <4>3. Disk!Ask(w)
        BY <4>1, <4>2 DEF Volatile!Ask, Disk!Ask, Volatile!Requests, Disk!Requests
      <4> QED BY <4>1, <4>3 DEF Disk!Next
    <3> QED BY <1>3, <3>2, <3>3, <3>4
  <2> QED BY <2>1, <2>2
<1> QED BY <1>1, <1>2, <1>3 DEF Next

LEMMA DiskInit == Init => Disk!Init
<1> SUFFICES ASSUME Init PROVE Disk!Init
  OBVIOUS
<1>1. durable = sectors
  BY DEF Init
<1>2. Volatile!Init
  BY MapInit
<1> QED BY <1>1, <1>2 DEF Volatile!Init, Disk!Init, Volatile!Content, Disk!Content

\* What holds until the first reset.
Intact == Inv /\ MapInv /\ (crashes = 0 => Saves)

LEMMA IntactInit == Init => Intact
BY InitInv, MapInit, InitSaves DEF Intact

LEMMA IntactNext ==
    ASSUME Exclusive, MaxRetries > 1, Intact, [Next]_vars
    PROVE  Intact' /\ (crashes = 0 => [Disk!Next]_(Disk!vars))
<1>1. Inv'
  BY NextInv DEF Intact
<1>2. MapInv'
  BY <1>1, MapNext DEF Intact
<1>3. /\ crashes' = 0 => Saves'
      /\ crashes = 0 => [Disk!Next]_(Disk!vars)
  BY <1>1, DiskNext DEF Intact
<1> QED BY <1>1, <1>2, <1>3 DEF Intact

\* Dhara's promise, up to and including the first reset: every call takes
\* effect at once or not at all and is answered truly; and a reset at any
\* step of any call, be it in the middle of erasing a block or programming a
\* page, takes the disk back as a whole to its last checkpoint, or to one
\* that was just being written: what was written before the last answered
\* sync is there, and no sector is a mixture.  This goes through
\* dhara_journal_resume, which finds the last checkpoint by binary search.
\* Prepare_head may skip a bad block: more than one is tried.
THEOREM DiskThroughFirstReset ==
    ASSUME Exclusive, MaxRetries > 1
    PROVE  Spec => Disk!Init /\ [][crashes = 0 => [Disk!Next]_(Disk!vars)]_vars
<1>1. Init => Intact /\ Disk!Init
  BY IntactInit, DiskInit
<1>2. Intact /\ [Next]_vars
        => Intact' /\ (crashes = 0 => [Disk!Next]_(Disk!vars))
  BY IntactNext
<1> QED BY <1>1, <1>2, PTL DEF Spec

LEMMA NoResetNext ==
    ASSUME Exclusive, MaxRetries > 1, MaxCrashes = 0, Intact, crashes = 0,
           [Next]_vars
    PROVE  Intact' /\ crashes' = 0 /\ [Disk!Next]_(Disk!vars)
<1>1. ~Crash
  BY DEF Crash
<1>2. crashes' = crashes
  BY <1>1 DEF Next, Work, Gc, Carry, Sync, PrepareHead, Erase, Program, PushMeta,
     At, Take, Ask, vars
<1> QED BY <1>2, IntactNext

\* A board that is never reset has the disk that OSLoader expects.
THEOREM SectorStoreWithoutResets ==
    ASSUME Exclusive, MaxRetries > 1, MaxCrashes = 0
    PROVE  Spec => ImplementsSectorStore
<1>1. Init => Intact /\ crashes = 0 /\ Disk!Init
  BY IntactInit, DiskInit, MapInit
<1>2. (Intact /\ crashes = 0) /\ [Next]_vars
        => (Intact /\ crashes = 0)' /\ [Disk!Next]_(Disk!vars)
  BY NoResetNext
<1> QED BY <1>1, <1>2, PTL DEF Spec, ImplementsSectorStore, Disk!Spec

LEMMA SyncedStep ==
    ASSUME Exclusive, MaxRetries > 1, Intact, crashes = 0, [Next]_vars,
           NEW w \in Workers, request[w] # NoRequest, request[w].op = "sync",
           reply[w] = NoReply, reply'[w] # NoReply, reply'[w].ok
    PROVE  durable' = sectors'
<1>1. /\ Inv /\ Untouched /\ Saves /\ Inv'
      /\ reply \in [Workers -> Replies \cup {NoReply}]
  <2>1. Inv /\ Untouched /\ Saves
    BY DEF Intact, MapInv
  <2>2. Inv'
    BY <2>1, NextInv
  <2> QED BY <2>1, <2>2 DEF Inv, TypeInv
<1>2. reply' \in [Workers -> Replies \cup {NoReply}]
  BY <1>1 DEF Inv, TypeInv
<1>3. reply'[w].ok = TRUE
  <2>1. reply'[w] \in Replies
    BY <1>2
  <2> QED BY <2>1 DEF Replies
<1>4. ~UNCHANGED vars
  BY DEF vars
<1>5. ~Crash
  BY DEF Crash
<1>6. PICK v \in Workers : Work(v) \/ Take(v) \/ \E r \in Requests : Ask(v, r)
  BY <1>4, <1>5 DEF Next
<1>7. Work(v)
  BY <1>1, <1>6 DEF Take, Ask
<1>8. PICK k : StepsTo(v, k)
  BY <1>1, <1>7, WorkStepExists
<1>9. v = w
  BY <1>1, <1>8 DEF StepsTo
<1>10. At1(w)
  BY <1>1, <1>7, <1>9, WorkStepExists DEF At0, At1
<1>11. durable' = Contents(nand', j')
  BY <1>3, <1>7, <1>9, <1>10, SyncAnswered
<1>12. sectors' = Contents(nand', j')
  BY <1>7 DEF Work, Gc, Carry, Sync, PrepareHead, Erase, Program, PushMeta, Remember
<1> QED BY <1>11, <1>12

\* map.h:102: once sync returns successfully, all changes to date are
\* persistent and durable.  The proof goes through the loop of dhara_map_sync:
\* it ends when no page is dirty, and then the last checkpoint has the tree.
THEOREM SyncIsDurableWithoutResets ==
    ASSUME Exclusive, MaxRetries > 1, MaxCrashes = 0
    PROVE  Spec => SyncIsDurable
<1>1. Init => Intact /\ crashes = 0
  BY IntactInit, MapInit
<1>2. (Intact /\ crashes = 0) /\ [Next]_vars => (Intact /\ crashes = 0)'
  BY NoResetNext
<1>3. Intact /\ crashes = 0 /\ [Next]_vars
        => [\A w \in Workers :
              /\ request[w] # NoRequest /\ request[w].op = "sync"
              /\ reply[w] = NoReply /\ reply'[w] # NoReply /\ reply'[w].ok
              => durable' = sectors']_vars
  <2> SUFFICES ASSUME Intact, crashes = 0, [Next]_vars, NEW w \in Workers,
                      request[w] # NoRequest, request[w].op = "sync",
                      reply[w] = NoReply, reply'[w] # NoReply, reply'[w].ok
               PROVE  durable' = sectors'
    OBVIOUS
  <2> QED BY SyncedStep
<1> QED BY <1>1, <1>2, <1>3, PTL DEF Spec, SyncIsDurable

LEMMA CountInRange ==
    ASSUME NEW c \in [Sectors -> Data \cup {Blank}]
    PROVE  /\ Count(c) \in 0..Cardinality(Sectors) /\ Cardinality(Sectors) \in Nat
           /\ \A s \in Sectors : c[s] = Blank => Count(c) + 1 \in 0..Cardinality(Sectors)
<1> DEFINE Kept1 == {t \in Sectors : c[t] # Blank}
<1>1. IsFiniteSet(Sectors) /\ Cardinality(Sectors) \in Nat
  BY SectorAssumption, FS_CardinalityType
<1>2. IsFiniteSet(Kept1) /\ Cardinality(Kept1) \in Nat
      /\ Cardinality(Kept1) <= Cardinality(Sectors)
  BY <1>1, FS_Subset, FS_CardinalityType
<1>3. ASSUME NEW s \in Sectors, c[s] = Blank
      PROVE  Cardinality(Kept1) + 1 <= Cardinality(Sectors)
  <2>1. Kept1 \in SUBSET Sectors /\ Kept1 # Sectors
    BY <1>3
  <2>2. Cardinality(Kept1) # Cardinality(Sectors)
    BY <1>1, <2>1, FS_Subset
  <2> QED BY <1>1, <1>2, <2>2
<1> QED BY <1>1, <1>2, <1>3 DEF Count

LEMMA SavedType ==
    ASSUME NEW n \in Flash, NEW jj \in Journal, Filled(n), NEW d, Kept(n, jj, d)
    PROVE  d \in [Sectors -> Data \cup {Blank}]
<1>1. PICK h, e : h \in UserPages /\ h = jj.head /\ e = jj.epoch
  BY DEF Journal
<1>2. Arranged(n, h, e) /\ Saved(n, jj, d)
  BY <1>1 DEF Kept
<1>3. CASE Written(h, e)
  <2>1. PICK S \in Journal : S = Snap(n, h)
    BY <1>1, <1>2, <1>3, SnapIs
  <2>2. TreeOK(n, S) /\ Contents(n, S) = d
    BY <1>1, <1>2, <1>3, <2>1 DEF Saved, SnapOK
  <2> QED BY <2>2, ContentsType
<1>4. CASE ~Written(h, e)
  BY <1>1, <1>2, <1>4 DEF Saved
<1> QED BY <1>3, <1>4

LEMMA CountFits ==
    ASSUME Intact, crashes = 0
    PROVE  j.count \in 0..Cardinality(Sectors)
<1>1. /\ nand \in Flash /\ j \in Journal /\ TreeOK(nand, j) /\ Untouched /\ Inv
  BY DEF Intact, MapInv, Untouched, MapOK, Inv, LogInv, FlashOK, JournalOK
<1>2. PICK c \in [Sectors -> Data \cup {Blank}] : c = Contents(nand, j)
  BY <1>1, ContentsType
<1>3. Count(c) \in 0..Cardinality(Sectors)
  BY CountInRange
<1>4. CASE Quiet
  BY <1>1, <1>2, <1>3, <1>4 DEF Untouched
<1>5. CASE ~Quiet
  <2>1. PICK w \in Workers : proc[w] # Idle
    BY <1>5 DEF Quiet
  <2>2. Counted(nand, j, proc[w], request[w]) /\ request[w] \in Requests
    BY <1>1, <2>1 DEF Untouched, Inv, CallInv
  <2>3. CASE j.count = Count(c)
    BY <1>3, <2>3
  <2>4. CASE Writes(nand, j, proc[w], request[w])
    <3>1. PICK s \in Sectors : s = request[w].sector
      BY <2>2, <2>4 DEF Writes, Requests
    <3>2. TracePath(nand, j, s).page = None => c[s] = Blank
      BY <1>1, <1>2, <3>1, ContentsType
    <3>3. j.count = Count(c) \/ (c[s] = Blank /\ j.count = Count(c) + 1)
      BY <1>2, <2>4, <3>1, <3>2 DEF Writes
    <3> QED BY <1>3, <3>3, CountInRange
  <2> QED BY <1>2, <2>2, <2>3, <2>4 DEF Counted, Half, Moves, Trims, Pads
<1> QED BY <1>4, <1>5

LEMMA IntactTypeOK == Intact /\ crashes = 0 => TypeOK
<1> SUFFICES ASSUME Intact, crashes = 0 PROVE TypeOK
  OBVIOUS
<1>1. /\ nand \in Flash /\ Filled(nand) /\ j \in Journal /\ TreeOK(nand, j)
      /\ Kept(nand, j, durable) /\ sectors = Contents(nand, j) /\ TypeInv
  BY DEF Intact, MapInv, Saves, Untouched, MapOK, Inv, LogInv, FlashOK, JournalOK
<1>2. \A p \in Pages : nand[p].kind \in {"free", "torn", "user", "checkpoint"}
  BY <1>1 DEF Flash, Free, Torn, UserData, CheckpointData
<1>3. /\ j.head \in Pages /\ j.tail \in Pages /\ j.tailSync \in Pages
      /\ j.root \in Pages \cup {None} /\ j.dirty \in BOOLEAN
  BY <1>1, UserPage DEF Journal
<1>4. j.count \in 0..Cardinality(Sectors)
  BY CountFits
<1>5. sectors \in [Sectors -> Data \cup {Blank}]
  BY <1>1, ContentsType
<1>6. durable \in [Sectors -> Data \cup {Blank}]
  BY <1>1, SavedType
<1>7. ASSUME NEW w \in Workers
      PROVE  /\ proc[w].at \in {"idle", "gc", "serve", "sync", "head", "erase",
                                "program", "check"}
             /\ request[w] \in Requests \cup {NoRequest}
  <2>1. proc[w] \in Places
    BY <1>1 DEF TypeInv
  <2> QED BY <1>1, <2>1 DEF TypeInv, Places, Thens, Appends, Idle, SyncLoop, Serve
<1> QED BY <1>2, <1>3, <1>4, <1>5, <1>6, <1>7 DEF TypeOK

\* No sector becomes unreadable, now or for a reset, and the count never
\* exceeds the number of sectors, until the first reset.
THEOREM TypesUntilReset ==
    ASSUME Exclusive, MaxRetries > 1
    PROVE  Spec => [](crashes = 0 => TypeOK)
<1>1. Init => Intact
  BY IntactInit
<1>2. Intact /\ [Next]_vars => Intact'
  BY IntactNext
<1>3. Intact => (crashes = 0 => TypeOK)
  BY IntactTypeOK
<1> QED BY <1>1, <1>2, <1>3, PTL DEF Spec
=============================================================================
