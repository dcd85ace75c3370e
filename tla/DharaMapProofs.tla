--------------------------- MODULE DharaMapProofs ---------------------------
(***************************************************************************)
(* Proofs about Dhara's map, for chips of any geometry.                    *)
(***************************************************************************)
EXTENDS DharaMap, FiniteSetTheorems, NaturalsInduction, WellFoundedInduction, TLAPS

-----------------------------------------------------------------------------
(* Induction over an interval.                                             *)

\* A nonempty set of naturals has a least element.
LEMMA LeastNatural ==
    ASSUME NEW S, S \subseteq Nat, S # {}
    PROVE  \E k \in S : \A i \in S : k <= i
<1>1. \E k \in S : \A i \in S : ~(<<i, k>> \in OpToRel(<, Nat))
  BY NatLessThanWellFounded, WFMin
<1>2. PICK k \in S : \A i \in S : ~(<<i, k>> \in OpToRel(<, Nat))
  BY <1>1
<1>3. k \in Nat /\ \A i \in S : i \in Nat /\ ~(i < k)
  BY <1>2, ZenonT(20) DEF OpToRel
<1>4. \A i \in S : k <= i
  BY <1>3
<1> QED BY <1>4

\* What holds at a and is handed on up to b holds from a to b.
LEMMA UpTo ==
    ASSUME NEW a \in Int, NEW b \in Int, NEW P, a \in P,
           \A k \in a..b - 1 : k \in P => k + 1 \in P
    PROVE  a..b \subseteq P
<1> SUFFICES ASSUME NEW k \in a..b, k \notin P PROVE FALSE
  OBVIOUS
<1> DEFINE missing == {i \in Nat : a + i <= b /\ a + i \notin P}
<1>1. k - a \in missing
  OBVIOUS
<1>2. PICK i \in missing : \A m \in missing : i <= m
  BY <1>1, LeastNatural
<1>3. i # 0
  OBVIOUS
<1>4. i - 1 \notin missing /\ i - 1 \in Nat
  BY <1>2, <1>3
<1>5. a + (i - 1) \in P /\ a + (i - 1) \in a..b - 1
  BY <1>4, <1>2
<1>6. a + i \in P
  BY <1>5
<1> QED BY <1>6, <1>2

\* A loop that is written as a recursive function has its run.
Runs(f, a, b, first, step) ==
    f[a] = first /\ \A k \in a..b - 1 : f[k + 1] = step[k][f[k]]

LEMMA Iterates ==
    ASSUME NEW a \in Int, NEW b \in Int, a <= b, NEW S, NEW first \in S,
           NEW step \in [a..b -> [S -> S]]
    PROVE  \E f \in [a..b -> S] : Runs(f, a, b, first, step)
<1> DEFINE Made(f, m) == \A k \in a..m : f[k] = IF k = a THEN first ELSE step[k - 1][f[k - 1]]
           P == {m \in a..b : \E f \in [a..m -> S] : Made(f, m)}
<1>1. a \in P
  <2> DEFINE f == [k \in a..a |-> first]
  <2>1. f \in [a..a -> S] /\ Made(f, a)
    OBVIOUS
  <2> HIDE DEF f, Made
  <2> QED BY <2>1
<1>2. ASSUME NEW m \in a..b - 1, m \in P PROVE m + 1 \in P
  <2>1. PICK f \in [a..m -> S] : Made(f, m)
    BY <1>2
  <2> DEFINE g == [k \in a..m + 1 |-> IF k = m + 1 THEN step[m][f[m]] ELSE f[k]]
  <2>2. g \in [a..m + 1 -> S]
    OBVIOUS
  <2>3. Made(g, m + 1)
    <3> SUFFICES ASSUME NEW k \in a..m + 1
                 PROVE  g[k] = IF k = a THEN first ELSE step[k - 1][g[k - 1]]
      OBVIOUS
    <3>1. CASE k = m + 1
      BY <3>1
    <3>2. CASE k # m + 1
      <4>1. k \in a..m /\ g[k] = f[k]
        BY <3>2
      <4>2. k # a => k - 1 \in a..m /\ g[k - 1] = f[k - 1]
        BY <4>1
      <4> QED BY <4>1, <4>2, <2>1
    <3> QED BY <3>1, <3>2
  <2> HIDE DEF g, Made
  <2> QED BY <2>2, <2>3
<1>3. b \in P
  <2> HIDE DEF P
  <2>1. a..b \subseteq P
    BY <1>1, <1>2, UpTo
  <2> QED BY <2>1
<1>4. PICK f \in [a..b -> S] : Made(f, b)
  BY <1>3
<1>5. Runs(f, a, b, first, step)
  BY <1>4 DEF Runs
<1> QED BY <1>5
-----------------------------------------------------------------------------
(* Blocks, groups and pages.                                               *)

LEMMA DivMod ==
    ASSUME NEW n \in Int, NEW k \in Nat \ {0}
    PROVE  /\ n = (k * (n \div k)) + (n % k)
           /\ n % k \in 0..k - 1 /\ n \div k \in Int
OBVIOUS

\* A quotient is known by the multiples on both sides.
LEMMA DivIs ==
    ASSUME NEW n \in Int, NEW k \in Nat \ {0}, NEW q \in Int,
           k * q <= n, n < k * q + k
    PROVE  n \div k = q /\ n % k = n - (k * q)
<1>1. n \div k = q
  BY DivMod
<1>2. n = (k * (n \div k)) + (n % k) /\ n % k \in 0..k - 1
  BY DivMod
<1>3. n = (k * q) + (n % k) /\ k * q \in Int /\ n % k \in Int
  BY <1>1, <1>2
<1> QED BY <1>1, <1>3

LEMMA Remainder ==
    ASSUME NEW n \in Int, NEW k \in Nat \ {0}, NEW q \in Int, NEW r \in 0..k - 1,
           n = (k * q) + r
    PROVE  n \div k = q /\ n % k = r
<1>1. k * q \in Int /\ k * q <= n /\ n < k * q + k
  OBVIOUS
<1>2. n \div k = q /\ n % k = n - (k * q)
  BY <1>1, DivIs
<1> QED BY <1>1, <1>2

LEMMA DivOrder ==
    ASSUME NEW m \in Int, NEW n \in Int, NEW k \in Nat \ {0}, m <= n
    PROVE  m \div k <= n \div k
BY DivMod

LEMMA Geometry ==
    /\ NumBlocks \in Nat \ {0, 1} /\ Ppc \in Nat \ {0, 1, 2}
    /\ Ppb \in Nat \ {0} /\ Ppb \div Ppc \in Nat \ {0}
    /\ Ppb = Ppc * (Ppb \div Ppc) /\ NumPages \in Nat \ {0}
<1>1. Ppb = Ppc * (Ppb \div Ppc) /\ Ppb \div Ppc \in Int
  BY GeometryAssumption, DivMod
<1>2. Ppb \div Ppc > 0
  BY <1>1, GeometryAssumption
<1>3. NumPages \in Nat \ {0}
  BY GeometryAssumption DEF NumPages
<1> QED BY <1>1, <1>2, <1>3, GeometryAssumption

LEMMA BlockOf ==
    ASSUME NEW p \in Pages
    PROVE  /\ Block(p) \in 0..NumBlocks - 1
           /\ Block(p) * Ppb <= p /\ p < Block(p) * Ppb + Ppb
           /\ p % Ppb = p - (Block(p) * Ppb)
<1>1. p = (Ppb * Block(p)) + (p % Ppb) /\ p % Ppb \in 0..Ppb-1 /\ Block(p) \in Int
  BY DivMod, Geometry DEF NumPages, Block, Pages
<1>2. Block(p) < NumBlocks
  BY <1>1, Geometry DEF NumPages, Pages
<1>3. Block(p) >= 0
  BY <1>1, Geometry DEF NumPages, Pages
<1> QED BY <1>1, <1>2, <1>3, Geometry

LEMMA BlockIs ==
    ASSUME NEW p \in Int, NEW b \in Int, b * Ppb <= p, p < b * Ppb + Ppb
    PROVE  Block(p) = b
BY DivIs, Geometry DEF Block

LEMMA FirstOfBlock ==
    ASSUME NEW b \in 0..NumBlocks - 1
    PROVE  /\ FirstOf(b) \in Pages /\ Block(FirstOf(b)) = b
           /\ FirstOf(b) % Ppb = 0 /\ FirstOf(b) % Ppc = 0
           /\ FirstOf(b) + Ppb <= NumPages
<1>1. FirstOf(b) \in Int /\ FirstOf(b) >= 0
  BY Geometry DEF FirstOf
<1>2. FirstOf(b) + Ppb <= NumPages
  BY Geometry DEF FirstOf, NumPages
<1>3. Block(FirstOf(b)) = b /\ FirstOf(b) % Ppb = 0
  BY <1>1, DivIs, Geometry DEF FirstOf, Block
<1>4. FirstOf(b) = Ppc * (b * (Ppb \div Ppc))
  BY Geometry DEF FirstOf
<1>5. b * (Ppb \div Ppc) \in Int
  BY Geometry
<1>6. FirstOf(b) % Ppc = 0
  <2> DEFINE q == b * (Ppb \div Ppc)
             f == FirstOf(b)
  <2>1. q \in Int /\ f \in Int /\ f = Ppc * q /\ Ppc \in Nat \ {0}
    BY <1>1, <1>4, <1>5, Geometry
  <2> HIDE DEF q, f
  <2>2. Ppc * q <= f /\ f < Ppc * q + Ppc /\ f - (Ppc * q) = 0
    BY <2>1
  <2>3. f % Ppc = 0
    BY <2>1, <2>2, DivIs
  <2> QED BY <2>3 DEF f
<1> QED BY <1>1, <1>2, <1>3, <1>6, Geometry DEF Pages

LEMMA CheckpointIs ==
    ASSUME NEW g \in Int
    PROVE  /\ CheckpointOf(g) = (Ppc * g) + (Ppc - 1) /\ CheckpointOf(g) \in Int
           /\ Group(CheckpointOf(g)) = g /\ CheckpointOf(g) % Ppc = Ppc - 1
<1> DEFINE c == CheckpointOf(g)
<1>1. c = (Ppc * g) + (Ppc - 1) /\ c \in Int /\ Ppc * g \in Int
  <2>1. (g + 1) * Ppc = (Ppc * g) + Ppc /\ Ppc * g \in Int /\ Ppc \in Nat
    BY Geometry
  <2> QED BY <2>1 DEF CheckpointOf
<1> HIDE DEF c
<1>2. Ppc * g <= c /\ c < (Ppc * g) + Ppc
  BY <1>1, Geometry
<1>3. c \div Ppc = g /\ c % Ppc = c - (Ppc * g)
  BY <1>1, <1>2, DivIs, Geometry
<1> QED BY <1>1, <1>3, Geometry DEF Group, c

LEMMA GroupOf ==
    ASSUME NEW p \in Int
    PROVE  /\ Group(p) \in Int
           /\ p = Group(p) * Ppc + (p % Ppc)
           /\ p % Ppc \in 0..Ppc - 1
           /\ CheckpointOf(Group(p)) = p - (p % Ppc) + Ppc - 1
<1> DEFINE g == p \div Ppc
<1>1. p = (Ppc * g) + (p % Ppc) /\ p % Ppc \in 0..Ppc - 1 /\ g \in Int
  BY DivMod, Geometry
<1> HIDE DEF g
<1>2. CheckpointOf(g) = p - (p % Ppc) + Ppc - 1 /\ p = g * Ppc + (p % Ppc)
  BY <1>1, Geometry DEF CheckpointOf
<1> QED BY <1>1, <1>2 DEF Group, g

\* A group lies in one block.
LEMMA GroupInBlock ==
    ASSUME NEW p \in Int, NEW q \in Int, Group(p) = Group(q)
    PROVE  Block(p) = Block(q)
<1> DEFINE G == Ppb \div Ppc
<1>1. /\ p = (Ppb * Block(p)) + (p % Ppb) /\ p % Ppb \in 0..Ppb-1
      /\ Block(p) \in Int
  BY DivMod, Geometry DEF Block
<1>2. /\ p = Group(p) * Ppc + (p % Ppc) /\ p % Ppc \in 0..Ppc - 1
      /\ Group(p) \in Int
  BY GroupOf
<1>3. q = Group(p) * Ppc + (q % Ppc) /\ q % Ppc \in 0..Ppc - 1
  BY GroupOf
<1>4. Ppb = Ppc * G /\ G \in Nat \ {0} /\ Ppc \in Nat \ {0}
  BY Geometry
<1> HIDE DEF G
<1>5. Ppc * (G * Block(p)) <= Group(p) * Ppc + (p % Ppc)
  BY <1>1, <1>2, <1>4
<1>6. G * Block(p) <= Group(p)
  BY <1>5, <1>2, <1>4, <1>1
<1>7. Group(p) * Ppc + (p % Ppc) < Ppc * (G * Block(p) + G)
  BY <1>1, <1>2, <1>4
<1>8. Group(p) < G * Block(p) + G
  BY <1>7, <1>2, <1>4, <1>1
<1>9. Group(p) + 1 <= G * Block(p) + G
  BY <1>8, <1>1, <1>2, <1>4
<1>10. Group(p) * Ppc + Ppc <= Ppc * (G * Block(p) + G)
  BY <1>9, <1>1, <1>2, <1>4
<1>11. Ppc * (G * Block(p)) <= Group(p) * Ppc
  BY <1>6, <1>1, <1>2, <1>4
<1>12. /\ Ppc * (G * Block(p)) = Block(p) * Ppb
       /\ Ppc * (G * Block(p) + G) = Block(p) * Ppb + Ppb
  BY <1>1, <1>4
<1>13. Block(p) * Ppb <= q /\ q < Block(p) * Ppb + Ppb
  BY <1>1, <1>2, <1>3, <1>4, <1>10, <1>11, <1>12
<1> QED BY <1>1, <1>13, BlockIs

LEMMA CheckpointInGroup ==
    ASSUME NEW p \in Pages
    PROVE  /\ CheckpointOf(Group(p)) \in Pages
           /\ CheckpointOf(Group(p)) % Ppc = Ppc - 1
           /\ Group(CheckpointOf(Group(p))) = Group(p)
           /\ Block(CheckpointOf(Group(p))) = Block(p)
<1> DEFINE c == CheckpointOf(Group(p))
<1>1. p \in Int
  BY Geometry DEF Pages
<1>2. /\ Group(p) \in Int /\ p = Group(p) * Ppc + (p % Ppc)
      /\ p % Ppc \in 0..Ppc - 1
  BY <1>1, GroupOf
<1>0. c = (Ppc * Group(p)) + (Ppc - 1) /\ c \in Int
  BY <1>2, CheckpointIs
<1>3. Group(c) = Group(p) /\ c % Ppc = Ppc - 1
  BY <1>2, CheckpointIs
<1> HIDE DEF c
<1>4. Block(c) = Block(p) /\ c \in Int
  BY <1>0, <1>1, <1>3, GroupInBlock
<1>5. /\ c = (Ppb * Block(c)) + (c % Ppb) /\ c % Ppb \in 0..Ppb-1
  BY <1>4, DivMod, Geometry DEF Block
<1>6. Block(p) \in 0..NumBlocks - 1
  BY BlockOf
<1>7. Ppb * Block(p) + Ppb <= NumPages
  BY <1>6, FirstOfBlock, Geometry DEF FirstOf
<1>8. c < NumPages /\ c >= 0
  <2>1. Ppb * Block(c) + Ppb <= NumPages
    BY <1>4, <1>7
  <2>2. p <= c
    BY <1>0, <1>2, <1>1, Geometry
  <2> DEFINE x == Ppb * Block(c)
             r == c % Ppb
  <2>3. x \in Int /\ c = x + r /\ r \in 0..Ppb - 1 /\ x + Ppb <= NumPages
    BY <2>1, <1>4, <1>5, <1>6, Geometry
  <2> HIDE DEF x, r
  <2>4. c < NumPages
    BY <2>3, Geometry
  <2> QED BY <2>2, <2>4, <1>1, <1>0, Geometry DEF Pages
<1> QED BY <1>3, <1>4, <1>8, Geometry DEF Pages, c
-----------------------------------------------------------------------------
(* What the flash and the journal hold.                                    *)

UserPages == {p \in Pages : p % Ppc # Ppc - 1}
Checkpoints == {p \in Pages : p % Ppc = Ppc - 1}

Pointers == [1..Depth -> UserPages \cup {None}]
Meta == [id : Sectors \cup {None}, alt : Pointers]
ReadableMeta == [id : Sectors \cup {None, Unreadable}, alt : Pointers]
Metas == [0..Ppc - 2 -> Meta]

UserData == [kind : {"user"}, data : Data \cup {Blank}]
CheckpointData ==
    [kind : {"checkpoint"}, epoch : Int, tail : UserPages, bbCurrent : Int,
     bbLast : Int, count : Int, metas : Metas]
Flash == [Pages -> {Free, Torn} \cup UserData \cup CheckpointData]

Journal ==
    [head : UserPages, tail : UserPages, tailSync : UserPages,
     root : UserPages \cup {None}, dirty : BOOLEAN, epoch : Int, bbLast : Int,
     bbCurrent : Int, metas : Metas, count : Int]

LEMMA UserPage ==
    ASSUME NEW p \in UserPages
    PROVE  p \in Pages /\ p \in Int /\ p >= 0 /\ p % Ppc \in 0..Ppc - 2
<1>1. p \in Int /\ p >= 0 /\ p % Ppc # Ppc - 1
  BY Geometry DEF UserPages, Pages
<1>2. p % Ppc \in 0..Ppc - 1
  BY <1>1, GroupOf
<1>3. p % Ppc \in 0..Ppc - 2
  BY <1>1, <1>2, Geometry
<1> QED BY <1>1, <1>3 DEF UserPages

LEMMA ReadMetaType ==
    ASSUME NEW n \in Flash, NEW jj \in Journal, NEW p \in UserPages
    PROVE  ReadMeta(n, jj, p) \in ReadableMeta
<1> DEFINE c == CheckpointOf(Group(p))
<1>1. p \in Pages /\ p % Ppc \in 0..Ppc - 2
  BY UserPage
<1>2. jj.metas[p % Ppc] \in Meta
  BY <1>1 DEF Journal, Metas
<1>3. c \in Pages
  BY <1>1, CheckpointInGroup
<1> HIDE DEF c
<1>4. n[c].kind = "checkpoint" => n[c].metas[p % Ppc] \in Meta
  <2>1. n[c] \in {Free, Torn} \cup UserData \cup CheckpointData
    BY <1>3 DEF Flash
  <2>2. n[c].kind = "checkpoint" => n[c] \in CheckpointData
    BY <2>1 DEF Free, Torn, UserData
  <2> QED BY <2>2, <1>1 DEF CheckpointData, Metas
<1>5. NoMeta \in Meta /\ [NoMeta EXCEPT !.id = Unreadable] \in ReadableMeta
  BY DEF NoMeta, Meta, ReadableMeta, Pointers
<1>6. Meta \subseteq ReadableMeta
  BY DEF Meta, ReadableMeta
<1> QED BY <1>2, <1>4, <1>5, <1>6 DEF ReadMeta, IsCheckpoint, c

Stops == UserPages \cup {None, Unreadable}

LEMMA DescendType ==
    ASSUME NEW n \in Flash, NEW jj \in Journal, NEW s,
           NEW p \in Stops, NEW d \in 1..Depth
    PROVE  Descend(n, jj, s, p, d) \in Stops
<1>1. CASE p \in UserPages
  <2>1. ReadMeta(n, jj, p) \in ReadableMeta
    BY <1>1, ReadMetaType
  <2>2. ReadMeta(n, jj, p).id < 0 => ReadMeta(n, jj, p).id \in {None, Unreadable}
    <3> DEFINE id == ReadMeta(n, jj, p).id
    <3>1. id \in Sectors \cup {None, Unreadable}
      BY <2>1 DEF ReadableMeta
    <3> HIDE DEF id
    <3>2. id \in Sectors => ~(id < 0)
      BY SectorAssumption
    <3>3. id < 0 => id \in {None, Unreadable}
      BY <3>1, <3>2
    <3> QED BY <3>3 DEF id
  <2>3. ReadMeta(n, jj, p).alt[d] \in Stops
    BY <2>1 DEF ReadableMeta, Pointers, Stops
  <2> QED BY <1>1, <2>2, <2>3 DEF Descend, Stops
<1>2. CASE p \in {None, Unreadable}
  BY <1>2 DEF Descend, Stops, None, Unreadable
<1> QED BY <1>1, <1>2 DEF Stops

\* The walk to a sector follows its pointers from the root down.
LEMMA WalkIs ==
    ASSUME NEW n \in Flash, NEW jj \in Journal, NEW s
    PROVE  /\ Walk(n, jj, s) \in [1..Depth + 1 -> Stops]
           /\ Walk(n, jj, s)[1] = jj.root
           /\ \A d \in 1..Depth :
                Walk(n, jj, s)[d + 1] = Descend(n, jj, s, Walk(n, jj, s)[d], d)
<1> DEFINE Steps(f) == f = [d \in 1..Depth + 1 |->
                              IF d = 1 THEN jj.root
                              ELSE Descend(n, jj, s, f[d - 1], d - 1)]
           w == Walk(n, jj, s)
<1>1. Depth \in Nat \ {0} /\ jj.root \in Stops
  BY GeometryAssumption DEF Journal, Stops
<1>2. \E f : Steps(f)
  <2> DEFINE step == [d \in 1..Depth + 1 |-> [p \in Stops |->
                        IF d = Depth + 1 THEN p ELSE Descend(n, jj, s, p, d)]]
  <2>1. step \in [1..Depth + 1 -> [Stops -> Stops]]
    BY <1>1, DescendType
  <2> HIDE DEF step
  <2>2. \E f \in [1..Depth + 1 -> Stops] : Runs(f, 1, Depth + 1, jj.root, step)
    <3>1. 1 \in Int /\ Depth + 1 \in Int /\ 1 <= Depth + 1
      BY <1>1
    <3> HIDE DEF Stops
    <3> QED BY ONLY <1>1, <2>1, <3>1, Iterates
  <2>6. PICK f \in [1..Depth + 1 -> Stops] : Runs(f, 1, Depth + 1, jj.root, step)
    BY <2>2
  <2>7. f[1] = jj.root /\ \A d \in 1..(Depth + 1) - 1 : f[d + 1] = step[d][f[d]]
    BY <2>6 DEF Runs
  <2>3. \A d \in 1..Depth : step[d][f[d]] = Descend(n, jj, s, f[d], d)
    BY <1>1, <2>6 DEF step
  <2>4. \A d \in 1..Depth + 1 :
          f[d] = IF d = 1 THEN jj.root ELSE Descend(n, jj, s, f[d - 1], d - 1)
    <3> SUFFICES ASSUME NEW d \in 1..Depth + 1, d # 1
                 PROVE  f[d] = Descend(n, jj, s, f[d - 1], d - 1)
      BY <2>7
    <3>1. d - 1 \in 1..Depth /\ d = (d - 1) + 1 /\ d - 1 \in 1..(Depth + 1) - 1
      BY <1>1
    <3> QED BY <3>1, <2>7, <2>3
  <2>5. Steps(f)
    BY <2>6, <2>4
  <2> QED BY <2>5
<1>3. Steps(w)
  <2>1. w = CHOOSE f : Steps(f)
    BY DEF Walk
  <2> HIDE DEF Steps, w
  <2> QED BY <2>1, <1>2
<1> HIDE DEF w
<1>4. /\ DOMAIN w = 1..Depth + 1 /\ w[1] = jj.root
      /\ \A d \in 1..Depth : w[d + 1] = Descend(n, jj, s, w[d], d)
  BY <1>1, <1>3
<1> DEFINE P == {d \in 1..Depth + 1 : w[d] \in Stops}
<1>5. 1 \in P
  BY <1>1, <1>4
<1>6. ASSUME NEW d \in 1..(Depth + 1) - 1, d \in P PROVE d + 1 \in P
  BY <1>1, <1>4, <1>6, DescendType
<1>7. 1..Depth + 1 \subseteq P
  <2> HIDE DEF P
  <2> QED BY <1>1, <1>5, <1>6, UpTo
<1>8. w \in [1..Depth + 1 -> Stops]
  BY <1>3, <1>4, <1>7
<1> QED BY <1>4, <1>8 DEF w

LEMMA Aligned ==
    ASSUME NEW p \in Pages
    PROVE  /\ p % Ppb = 0 <=> p = FirstOf(Block(p))
           /\ p % Ppb = 0 => p % Ppc = 0
<1>1. Block(p) \in 0..NumBlocks - 1 /\ p % Ppb = p - (Block(p) * Ppb)
  BY BlockOf
<1>2. FirstOf(Block(p)) % Ppc = 0 /\ FirstOf(Block(p)) \in Pages
  BY <1>1, FirstOfBlock
<1>3. p % Ppb = 0 <=> p = FirstOf(Block(p))
  BY <1>1, <1>2, Geometry DEF FirstOf, Pages
<1> QED BY <1>2, <1>3

LEMMA BlockOrder ==
    ASSUME NEW p \in Pages, NEW q \in Pages, p <= q
    PROVE  Block(p) <= Block(q)
BY DivOrder, Geometry DEF Block, Pages

LEMMA NextUserPage ==
    ASSUME NEW p \in UserPages
    PROVE  /\ NextUpage(p) \in UserPages
           /\ \/ /\ (p + 2) % Ppc # 0 /\ NextUpage(p) = p + 1
                 /\ Group(p + 1) = Group(p) /\ Block(p + 1) = Block(p)
                 /\ (p + 1) % Ppb # 0
              \/ /\ (p + 2) % Ppc = 0 /\ p % Ppb # 0
                 /\ p + 1 \in Checkpoints /\ Block(p + 1) = Block(p)
                 /\ p + 1 = CheckpointOf(Group(p))
                 /\ \/ NextUpage(p) = p + 2 /\ Block(p + 2) = Block(p)
                    \/ /\ NextUpage(p) = p + 2 /\ Block(p + 2) = Block(p) + 1
                       /\ (p + 2) % Ppb = 0
                    \/ NextUpage(p) = 0 /\ p + 2 = NumPages
<1> DEFINE g == Group(p)
           r == p % Ppc
           c == CheckpointOf(g)
<1>1. p \in Pages /\ p \in Int /\ p >= 0 /\ r \in 0..Ppc - 2
  BY UserPage
<1>2. g \in Int /\ p = g * Ppc + r
  BY <1>1, GroupOf
<1>3. /\ c \in Pages /\ c % Ppc = Ppc - 1 /\ Group(c) = g /\ Block(c) = Block(p)
      /\ c = (Ppc * g) + (Ppc - 1)
  BY <1>1, <1>2, CheckpointInGroup, CheckpointIs
<1>4. Ppc \in Nat \ {0, 1, 2} /\ NumPages \in Nat \ {0} /\ Ppb \in Nat \ {0}
  BY Geometry
<1> HIDE DEF g, r, c
<1>5. c \in Int /\ c < NumPages /\ c = p - r + (Ppc - 1) /\ Ppc * g \in Int
  BY <1>1, <1>2, <1>3, <1>4 DEF Pages
<1>6. CASE r # Ppc - 2
  <2>1. ASSUME NEW i \in {1, 2}, NEW m \in Int, m = p + i
        PROVE  m \div Ppc = g /\ m % Ppc = r + i
    <3>1. m = (Ppc * g) + (r + i) /\ r + i \in 0..Ppc - 1
      BY <2>1, <1>1, <1>2, <1>4, <1>6
    <3> QED BY <3>1, <1>2, <1>4, Remainder
  <2>2. (p + 2) % Ppc = r + 2
    BY <2>1, <1>1
  <2>4. (p + 1) \div Ppc = g /\ (p + 1) % Ppc = r + 1
    BY <2>1, <1>1
  <2>5. p + 1 \in Pages /\ Group(p + 1) = g /\ p + 1 <= c
    BY <2>4, <1>1, <1>4, <1>5, <1>6 DEF Pages, Group
  <2>6. NextUpage(p) = p + 1
    BY <2>2, <2>5, <1>1, <1>4, <1>5 DEF NextUpage
  <2>7. Block(p + 1) = Block(p)
    BY <2>5, <1>1, GroupInBlock DEF g
  <2>8. (p + 1) % Ppb # 0
    BY <2>4, <2>5, Aligned, <1>1
  <2>9. p + 1 \in UserPages
    BY <2>4, <2>5, <1>1, <1>6, <1>4 DEF UserPages
  <2>10. (p + 2) % Ppc # 0
    BY <2>2, <1>1
  <2> QED BY <2>5, <2>6, <2>7, <2>8, <2>9, <2>10 DEF g
<1>7. CASE r = Ppc - 2
  <2>1. p + 1 = c /\ p + 2 = Ppc * (g + 1) /\ g + 1 \in Int
    BY <1>1, <1>2, <1>3, <1>4, <1>5, <1>7
  <2>2. (p + 2) % Ppc = 0
    <3>1. PICK m \in Int, h \in Int : m = p + 2 /\ m = (Ppc * h) + 0
      BY <2>1, <1>1, <1>4
    <3>3. Ppc * h <= m /\ m < Ppc * h + Ppc /\ m - (Ppc * h) = 0
      BY <3>1, <1>4
    <3>2. m % Ppc = 0
      BY <3>1, <3>3, <1>4, DivIs
    <3> QED BY <3>1, <3>2
  <2>3. p % Ppb # 0
    BY <1>1, <1>4, <1>7, Aligned DEF r
  <2>4. p + 1 \in Checkpoints /\ Block(p + 1) = Block(p)
    BY <2>1, <1>3 DEF Checkpoints
  <2>5. CASE p + 2 = NumPages
    <3>1. NextUpage(p) = 0
      BY <2>5, <2>2, <1>4 DEF NextUpage
    <3>2. 0 \in Pages /\ FirstOf(0) = 0
      BY <1>4 DEF Pages, FirstOf
    <3>3. 0 % Ppc = 0
      BY <3>2, FirstOfBlock, Geometry
    <3>4. 0 \in UserPages
      BY <3>2, <3>3, <1>4 DEF UserPages
    <3> QED BY <3>1, <3>4, <2>1, <2>2, <2>3, <2>4, <2>5 DEF c, g
  <2>6. CASE p + 2 # NumPages
    <3>1. p + 2 \in Pages
      BY <2>1, <2>6, <1>1, <1>4, <1>5 DEF Pages
    <3>2. NextUpage(p) = p + 2
      BY <2>2, <3>1, <1>4 DEF NextUpage, Pages
    <3>3. NextUpage(p) \in UserPages
      BY <3>1, <3>2, <2>2, <1>4 DEF UserPages
    <3>4. /\ Block(p) \in 0..NumBlocks - 1 /\ Block(p) * Ppb <= p
          /\ p + 1 < Block(p) * Ppb + Ppb
      BY <1>1, <2>1, <1>3, BlockOf
    <3>5. CASE p + 2 < Block(p) * Ppb + Ppb
      <4>1. Block(p + 2) = Block(p)
        BY <3>4, <3>5, <1>1, <1>4, BlockIs
      <4> QED BY <4>1, <3>2, <3>3, <2>1, <2>2, <2>3, <2>4 DEF c, g
    <3>6. CASE p + 2 >= Block(p) * Ppb + Ppb
      <4>1. p + 2 = (Block(p) + 1) * Ppb /\ Block(p) + 1 \in Int
        BY <3>4, <3>6, <1>1, <1>4
      <4>2. Block(p + 2) = Block(p) + 1
        BY <4>1, <1>1, <1>4, BlockIs
      <4>3. (p + 2) % Ppb = 0
        BY <4>1, <4>2, <3>1, Aligned DEF FirstOf
      <4> QED BY <4>2, <4>3, <3>2, <3>3, <2>1, <2>2, <2>3, <2>4 DEF c, g
    <3> QED BY <3>4, <3>5, <3>6, <1>1, <1>4
  <2> QED BY <2>5, <2>6
<1> QED BY <1>6, <1>7

-----------------------------------------------------------------------------
(* The order of the last-synced tail ts, the tail t and the head h on the  *)
(* way round the chip.                                                     *)

Behind(t, h) == Block(t) = Block(h) => t <= h
InOrder(h, ts, t) == Behind(ts, h) /\ (t = h \/ Within(ts, h, t))

LEMMA TailBehind ==
    ASSUME NEW h \in Pages, NEW ts \in Pages, NEW t \in Pages, InOrder(h, ts, t)
    PROVE  InOrder(h, t, t)
<1>1. Block(h) \in Int /\ Block(ts) \in Int /\ Block(t) \in Int
  BY BlockOf
<1>2. CASE Block(t) = Block(h) /\ h < t
  <2>1. h < ts /\ ts <= t
    BY <1>2, Geometry DEF InOrder, Within, Pages
  <2>2. Block(h) <= Block(ts) /\ Block(ts) <= Block(t)
    BY <2>1, BlockOrder, Geometry DEF Pages
  <2>3. Block(ts) = Block(h)
    BY <2>2, <1>1, <1>2
  <2> QED BY <2>1, <2>3, Geometry DEF InOrder, Behind, Pages
<1> QED BY <1>2, Geometry DEF InOrder, Behind, Within, Pages

\* Between the tail and the head is also between the last-synced tail and it.
LEMMA FurtherOn ==
    ASSUME NEW h \in Pages, NEW ts \in Pages, NEW t \in Pages, NEW u \in Pages,
           InOrder(h, ts, t), u = h \/ Within(t, h, u)
    PROVE  InOrder(h, ts, u)
BY Geometry DEF InOrder, Within, Pages

\* The last block is not the first one.
LEMMA EndOfChip ==
    ASSUME NEW p \in Pages, Block(p) = Block(NumPages - 1)
    PROVE  Block(0) = 0 /\ 0 \in Pages /\ Block(p) # 0
<1>1. 0 * Ppb <= 0 /\ 0 < 0 * Ppb + Ppb
  BY Geometry
<1>2. (NumBlocks - 1) * Ppb <= NumPages - 1
  BY Geometry DEF NumPages
<1>3. NumPages - 1 < (NumBlocks - 1) * Ppb + Ppb
  BY Geometry DEF NumPages
<1>4. Block(0) = 0 /\ Block(NumPages - 1) = NumBlocks - 1
  BY <1>1, <1>2, <1>3, BlockIs, Geometry
<1> QED BY <1>4, Geometry DEF Pages

\* The cases of NextUserPage, as the head or the tail moves.
LEMMA Onward ==
    ASSUME NEW h \in UserPages, NEW t \in UserPages
    PROVE  LET k == NextUpage(h)
           IN  \/ k = h + 1 /\ Block(k) = Block(h)
               \/ k = h + 2 /\ Block(k) = Block(h) /\ t # h + 1
               \/ k = h + 2 /\ Block(k) = Block(h) + 1 /\ t # h + 1
               \/ k = 0 /\ h + 2 = NumPages /\ t # h + 1 /\ Block(k) # Block(h)
<1>1. t \notin Checkpoints
  BY DEF UserPages, Checkpoints
<1>2. h + 2 = NumPages /\ Block(h + 1) = Block(h) => Block(0) # Block(h)
  <2>1. h \in Pages /\ h \in Int
    BY UserPage
  <2>2. h + 2 = NumPages => NumPages - 1 = h + 1
    BY <2>1
  <2> QED BY <2>1, <2>2, EndOfChip
<1> QED BY <1>1, <1>2, NextUserPage

LEMMA DequeueOrder ==
    ASSUME NEW h \in UserPages, NEW t \in UserPages, t # h
    PROVE  NextUpage(t) = h \/ Within(t, h, NextUpage(t))
<1> DEFINE k == NextUpage(t)
<1>1. \/ k = t + 1
      \/ k = t + 2 /\ h # t + 1
      \/ k = 0 /\ t + 2 = NumPages /\ h # t + 1
  BY Onward
<1>2. h \in Int /\ t \in Int /\ 0 <= h /\ h < NumPages /\ NumPages \in Int
  BY UserPage, Geometry DEF Pages
<1> HIDE DEF k
<1>3. k = h \/ Within(t, h, k)
  BY <1>1, <1>2 DEF Within
<1> QED BY <1>3 DEF k

LEMMA PushOrder ==
    ASSUME NEW h \in UserPages, NEW ts \in UserPages, NEW t \in UserPages,
           InOrder(h, ts, t),
           \/ Block(NextUpage(h)) = Block(h)
           \/ Block(NextUpage(h)) # Block(ts)
    PROVE  InOrder(NextUpage(h), ts, t)
<1> DEFINE k == NextUpage(h)
<1>1. k \in UserPages
  BY NextUserPage
<1>2. \A p \in UserPages : p \in Int /\ p >= 0 /\ p < NumPages /\ NumPages \in Int
  BY UserPage, Geometry DEF Pages
<1>4. \/ k = h + 1 /\ Block(k) = Block(h)
      \/ k = h + 2 /\ Block(k) = Block(h) /\ ts # h + 1 /\ t # h + 1
      \/ k = h + 2 /\ Block(k) = Block(h) + 1 /\ ts # h + 1 /\ t # h + 1
      \/ k = 0 /\ h + 2 = NumPages /\ ts # h + 1 /\ t # h + 1 /\ Block(k) # Block(h)
  BY Onward
<1> HIDE DEF k
<1>5. Behind(ts, k)
  <2>1. CASE Block(k) = Block(h)
    BY <2>1, <1>1, <1>2, <1>4 DEF InOrder, Behind
  <2>2. CASE Block(k) # Block(h)
    BY <2>2 DEF Behind, k
  <2> QED BY <2>1, <2>2
<1>6. t = k \/ Within(ts, k, t)
  <2>1. CASE ts <= h
    <3>1. ts <= t /\ t <= h
      BY <2>1, <1>2 DEF InOrder, Within
    <3>2. CASE k > h
      BY <3>1, <3>2, <2>1, <1>1, <1>2 DEF Within
    <3>3. CASE k = 0
      <4>1. ts # k
        BY <3>3, <1>2, <1>4 DEF k
      <4> QED BY <3>1, <3>3, <4>1, <1>2 DEF Within
    <3> QED BY <3>2, <3>3, <1>2, <1>4
  <2>2. CASE h < ts
    <3>1. Block(ts) # Block(h)
      BY <2>2, <1>2 DEF InOrder, Behind
    <3>2. k <= ts /\ k # ts
      BY <2>2, <3>1, <1>2, <1>4 DEF k
    <3>3. h <= k => t = k \/ Within(ts, k, t)
      BY <2>2, <3>2, <1>1, <1>2 DEF InOrder, Within
    <3>4. k = 0 => FALSE
      BY <2>2, <3>2, <1>2, <1>4
    <3> QED BY <3>3, <3>4, <1>2, <1>4
  <2> QED BY <2>1, <2>2, <1>2
<1> QED BY <1>5, <1>6 DEF InOrder, k

LEMMA FirstOrder ==
    ASSUME NEW a \in 0..NumBlocks - 1, NEW b \in 0..NumBlocks - 1, a <= b
    PROVE  FirstOf(a) <= FirstOf(b) /\ FirstOf(a) \in UserPages
<1>1. FirstOf(a) <= FirstOf(b)
  BY Geometry DEF FirstOf
<1>2. FirstOf(a) \in UserPages
  BY FirstOfBlock, Geometry DEF UserPages
<1> QED BY <1>1, <1>2

LEMMA Around ==
    ASSUME NEW b \in 0..NumBlocks - 1, NEW i \in 0..NumBlocks
    PROVE  /\ b + i < NumBlocks => (b + i) % NumBlocks = b + i
           /\ b + i >= NumBlocks => (b + i) % NumBlocks = b + i - NumBlocks
<1>1. PICK m \in Int, N \in Nat \ {0} : m = b + i /\ N = NumBlocks
  BY Geometry
<1>2. ASSUME m < N PROVE m % N = m
  BY <1>1, <1>2
<1>3. ASSUME m >= N PROVE m % N = m - N
  <2>1. PICK q \in Int : q = 1
    OBVIOUS
  <2>2. N * q <= m /\ m < (N * q) + N /\ m - (N * q) = m - N
    BY <1>1, <1>3, <2>1
  <2> QED BY <2>1, <2>2, <1>1, DivIs
<1> QED BY <1>1, <1>2, <1>3

LEMMA FirstBlockIs ==
    ASSUME NEW b \in 0..NumBlocks - 1, NEW blocks, FirstBlock(b, blocks) # None
    PROVE  \E i \in Nat : /\ FirstBlock(b, blocks) = (b + i) % NumBlocks
                          /\ (b + i) % NumBlocks \in blocks
                          /\ \A k \in 0..i - 1 : (b + k) % NumBlocks \notin blocks
<1> DEFINE good == {i \in 0..MaxRetries - 1 : (b + i) % NumBlocks \in blocks}
           i == CHOOSE k \in good : \A m \in good : k <= m
<1>1. MaxRetries \in Nat \ {0}
  BY GeometryAssumption
<1>2. good # {} /\ FirstBlock(b, blocks) = (b + i) % NumBlocks
  BY DEF FirstBlock
<1>3. good \subseteq Nat
  BY <1>1
<1>4. i \in good /\ \A m \in good : i <= m
  <2> HIDE DEF good
  <2> QED BY <1>2, <1>3, LeastNatural
<1> HIDE DEF i
<1>5. \A k \in 0..i - 1 : (b + k) % NumBlocks \notin blocks
  BY <1>1, <1>4
<1> QED BY <1>2, <1>3, <1>4, <1>5

\* The tail moves to the next good block, and not past the head.
LEMMA PeekOrder ==
    ASSUME NEW n, NEW jj \in Journal, InOrder(jj.head, jj.tail, jj.tail)
    PROVE  /\ Peek(n, jj).tail \in UserPages
           /\ \/ Peek(n, jj).tail = jj.head
              \/ jj.head # jj.tail /\ Within(jj.tail, jj.head, Peek(n, jj).tail)
<1> DEFINE h == jj.head
           t == jj.tail
           b == Block(t)
           blocks == {c \in 0..NumBlocks - 1 : c = Block(h) \/ ~IsBad(n, c)}
           r == TailBlock(n, jj)
<1>1. h \in UserPages /\ t \in UserPages
  BY DEF Journal
<1>2. \A p \in UserPages : p \in Pages /\ p \in Int /\ p >= 0 /\ p < NumPages
  BY UserPage, Geometry DEF Pages
<1>3. b \in 0..NumBlocks - 1 /\ Block(h) \in 0..NumBlocks - 1
  BY <1>1, <1>2, BlockOf
<1>4. CASE h = t \/ t % Ppb # 0 \/ r = None
  <2>1. Peek(n, jj) = jj
    BY <1>4 DEF Peek
  <2> QED BY <2>1, <1>1, <1>2 DEF Within
<1>5. CASE ~(h = t \/ t % Ppb # 0 \/ r = None)
  <2>1. Peek(n, jj).tail = FirstOf(r)
    BY <1>5 DEF Peek, Journal
  <2>2. t = FirstOf(b)
    BY <1>1, <1>2, <1>5, Aligned
  <2>3. r = FirstBlock(b, blocks) /\ r # None
    BY <1>5 DEF TailBlock
  <2> HIDE DEF blocks, r
  <2>4. PICK i \in Nat : /\ r = (b + i) % NumBlocks
                         /\ r \in blocks
                         /\ \A k \in 0..i - 1 : (b + k) % NumBlocks \notin blocks
    BY <2>3, <1>3, FirstBlockIs
  <2>5. Block(h) \in blocks /\ r \in 0..NumBlocks - 1
    BY <1>3, <2>4 DEF blocks
  <2>6. ASSUME NEW d \in 0..NumBlocks, (b + d) % NumBlocks = Block(h)
        PROVE  i <= d
    BY <2>4, <2>5, <2>6, Geometry
  <2>7. FirstOf(Block(h)) <= h /\ FirstOf(r) \in UserPages
    BY <1>1, <1>2, <1>3, <2>5, BlockOf, FirstOrder DEF FirstOf
  <2>8. ASSUME b <= Block(h) PROVE b <= r /\ r <= Block(h)
    <3>1. Block(h) - b \in 0..NumBlocks /\ b + (Block(h) - b) = Block(h)
      BY <2>8, <1>3, Geometry
    <3>2. (b + (Block(h) - b)) % NumBlocks = Block(h)
      BY <3>1, <1>3, Around, Geometry
    <3>3. i <= Block(h) - b
      BY <3>1, <3>2, <2>6
    <3>4. r = b + i
      <4>1. i \in 0..NumBlocks /\ b + i < NumBlocks
        <5>1. i \in Nat /\ NumBlocks \in Nat
          BY <2>4, Geometry
        <5>2. PICK e \in Int : e = Block(h)
          BY <1>3
        <5>3. e \in 0..NumBlocks - 1 /\ b \in 0..NumBlocks - 1 /\ i <= e - b
          BY <1>3, <3>3, <5>2
        <5> QED BY ONLY <5>1, <5>3
      <4> QED BY <4>1, <2>4, <1>3, Around
    <3> QED BY <3>3, <3>4, <1>3
  <2>9. ASSUME Block(h) < b PROVE b <= r \/ r <= Block(h)
    <3>1. PICK d \in 0..NumBlocks : d = NumBlocks - b + Block(h)
      BY <2>9, <1>3, Geometry
    <3>2. (b + d) % NumBlocks = Block(h)
      BY <3>1, <1>3, Around, Geometry
    <3>3. i <= d
      BY <3>2, <2>6
    <3>4. i \in 0..NumBlocks
      BY <3>3, <2>4, Geometry
    <3>5. r = b + i \/ r = b + i - NumBlocks
      <4>1. \/ (b + i) % NumBlocks = b + i
            \/ (b + i) % NumBlocks = b + i - NumBlocks
        <5>1. CASE b + i < NumBlocks
          BY <5>1, <3>4, <1>3, Around
        <5>2. CASE b + i >= NumBlocks
          BY <5>2, <3>4, <1>3, Around
        <5> QED BY <5>1, <5>2, <1>3, <3>4, Geometry
      <4> QED BY <4>1, <2>4
    <3> QED BY <3>1, <3>3, <3>5, <2>4, <1>3, Geometry
  <2>10. t # h /\ (b = Block(h) => t < h)
    BY <1>1, <1>2, <1>5 DEF InOrder, Behind
  <2>11. CASE b <= Block(h)
    <3>1. t < h
      BY <2>10, <2>11, <1>1, <1>2, <1>3, BlockOrder
    <3>2. t <= FirstOf(r) /\ FirstOf(r) <= h
      <4>1. FirstOf(b) <= FirstOf(r) /\ FirstOf(r) <= FirstOf(Block(h))
        BY <2>8, <2>11, <1>3, <2>5, FirstOrder
      <4>2. FirstOf(Block(h)) \in UserPages
        BY <1>3, FirstOrder
      <4> QED BY <4>1, <4>2, <2>2, <2>7, <1>1, <1>2
    <3> QED BY <3>1, <3>2, <2>1, <2>7, <2>10, <1>1, <1>2 DEF Within
  <2>12. CASE Block(h) < b
    <3>1. h < t
      BY <2>10, <2>12, <1>1, <1>2, <1>3, BlockOrder
    <3>2. t <= FirstOf(r) \/ FirstOf(r) <= h
      <4>1. CASE b <= r
        BY <4>1, <2>2, <1>3, <2>5, FirstOrder
      <4>2. CASE r <= Block(h)
        <5>1. FirstOf(r) <= FirstOf(Block(h)) /\ FirstOf(Block(h)) \in UserPages
          BY <4>2, <1>3, <2>5, FirstOrder
        <5> QED BY <5>1, <2>7, <1>1, <1>2
      <4> QED BY <4>1, <4>2, <2>9, <2>12
    <3> QED BY <3>1, <3>2, <2>1, <2>7, <2>10, <1>1, <1>2 DEF Within
  <2> QED BY <2>11, <2>12, <1>3
<1> QED BY <1>4, <1>5

\* The head skips blocks, and not the block of the last-synced tail.
LEMMA SkipOrder ==
    ASSUME NEW h \in Pages, NEW ts \in Pages, NEW t \in Pages, InOrder(h, ts, t),
           h % Ppb = 0, NEW i \in Nat,
           \A k \in 0..i - 1 : (Block(h) + k + 1) % NumBlocks # Block(ts)
    PROVE  LET b == (Block(h) + i) % NumBlocks
           IN  b \in 0..NumBlocks - 1 /\ InOrder(FirstOf(b), ts, t)
<1> DEFINE B == Block(h)
           c == Block(ts)
           b == (B + i) % NumBlocks
           f == FirstOf(b)
<1>1. B \in 0..NumBlocks - 1 /\ c \in 0..NumBlocks - 1 /\ h = FirstOf(B)
  BY BlockOf, Aligned
<1>2. NumBlocks \in Nat \ {0, 1} /\ NumPages \in Int
  BY Geometry
<1>3. \A p \in Pages : p \in Int /\ p >= 0
  BY <1>2 DEF Pages
<1> HIDE DEF B, c
<1>4. ASSUME NEW m \in 1..NumBlocks, (B + m) % NumBlocks = c
      PROVE  i < m
  <2>1. m - 1 \in Nat /\ B + (m - 1) + 1 = B + m
    BY <1>1, <1>2
  <2>2. ~(m - 1 \in 0..i - 1)
    BY <2>1, <1>4 DEF B, c
  <2> QED BY <2>1, <2>2, <1>2
<1>5. ASSUME B < c PROVE i < c - B
  <2>1. PICK m \in 1..NumBlocks : m = c - B /\ B + m = c
    BY <1>1, <1>2, <1>5
  <2>3. B + m < NumBlocks
    BY <2>1, <1>1, <1>2
  <2>4. (B + m) % NumBlocks = B + m
    BY <2>3, <1>1, <1>2, Around
  <2>2. (B + m) % NumBlocks = c
    BY <2>1, <2>4
  <2> QED BY <2>1, <2>2, <1>4
<1>6. ASSUME c <= B PROVE i < NumBlocks - B + c
  <2>1. PICK m \in 1..NumBlocks : m = NumBlocks - B + c
    BY <1>1, <1>2, <1>6
  <2>3. B + m >= NumBlocks
    BY <2>1, <1>1, <1>2
  <2>2. (B + m) % NumBlocks = B + m - NumBlocks
    <3>1. m \in 0..NumBlocks
      BY <1>2
    <3> QED BY ONLY <2>3, <3>1, <1>1, Around
  <2> QED BY <2>1, <2>2, <1>1, <1>2, <1>4
<1>7. i \in 0..NumBlocks /\ i < NumBlocks
  BY <1>1, <1>2, <1>5, <1>6
<1>8. \/ B + i < NumBlocks /\ b = B + i
      \/ B + i >= NumBlocks /\ b = B + i - NumBlocks
  <2>1. CASE B + i < NumBlocks
    BY <2>1, <1>1, <1>7, Around
  <2>2. CASE B + i >= NumBlocks
    BY <2>2, <1>1, <1>7, Around
  <2> QED BY <2>1, <2>2, <1>1, <1>2
<1> HIDE DEF b, f
<1>9. b \in 0..NumBlocks - 1
  BY <1>1, <1>2, <1>7, <1>8
<1>10. f \in Pages /\ Block(f) = b
  BY <1>9, FirstOfBlock DEF f
<1>11. CASE B + i < NumBlocks
  <2>1. b = B + i /\ h <= f
    BY <1>1, <1>2, <1>7, <1>8, <1>9, <1>11, FirstOrder DEF f
  <2>2. CASE c <= B
    <3>1. ts <= h
      <4>1. CASE c = B
        BY <4>1 DEF InOrder, Behind, c, B
      <4>2. CASE c # B
        BY <4>2, <2>2, <1>1, <1>3, BlockOrder DEF c, B
      <4> QED BY <4>1, <4>2
    <3>2. ts <= t /\ t <= h
      BY <3>1, <1>3 DEF InOrder, Within
    <3>3. Behind(ts, f) /\ (t = f \/ Within(ts, f, t))
      BY <2>1, <3>1, <3>2, <1>3, <1>10 DEF Behind, Within
    <3> QED BY <3>3, <1>9 DEF InOrder, b, f, B
  <2>3. CASE B < c
    <3>1. b < c
      BY <2>1, <2>3, <1>5, <1>7, <1>1, <1>2
    <3>2. f < ts
      BY <3>1, <1>9, <1>1, <1>3, <1>10, BlockOrder DEF c
    <3>3. Behind(ts, f) /\ (t = f \/ Within(ts, f, t))
      BY <2>1, <3>1, <3>2, <1>1, <1>3, <1>9, <1>10 DEF InOrder, Behind, Within, c
    <3> QED BY <3>3, <1>9 DEF InOrder, b, f, B
  <2> QED BY <2>2, <2>3, <1>1, <1>2
<1>12. CASE B + i >= NumBlocks
  <2>1. b = B + i - NumBlocks /\ c <= B /\ b < c
    BY <1>1, <1>2, <1>5, <1>6, <1>7, <1>8, <1>12
  <2>2. ts <= h
    <3>1. CASE c = B
      BY <3>1 DEF InOrder, Behind, c, B
    <3>2. CASE c # B
      BY <3>2, <2>1, <1>1, <1>3, BlockOrder DEF c, B
    <3> QED BY <3>1, <3>2
  <2>3. f < ts
    BY <2>1, <1>9, <1>1, <1>3, <1>10, BlockOrder DEF c
  <2>4. ts <= t
    BY <2>2, <1>3 DEF InOrder, Within
  <2>5. Behind(ts, f) /\ (t = f \/ Within(ts, f, t))
    BY <2>1, <2>3, <2>4, <1>1, <1>3, <1>9, <1>10 DEF Behind, Within, c
  <2> QED BY <2>5, <1>9 DEF InOrder, b, f, B
<1> QED BY <1>11, <1>12, <1>1, <1>2

-----------------------------------------------------------------------------
(* What holds of the flash and of the journal whenever resume may meet     *)
(* them.  A group is open if its last two pages are free: the head may     *)
(* return to it.                                                           *)

Open(n, c) == n[c] = Free /\ n[c - 1] = Free

(* A checkpoint's tail is behind it.                                       *)
Described(n) ==
    \A c \in Checkpoints :
      n[c].kind = "checkpoint" /\ Block(n[c].tail) = Block(c) => n[c].tail < c

(* Nothing was programmed behind an open group.                            *)
Filled(n) == \A c \in Checkpoints : Open(n, c) => FreeOn(n, c)

FlashOK(n) == n \in Flash /\ Described(n) /\ Filled(n)

JournalOK(jj) == jj \in Journal /\ InOrder(jj.head, jj.tailSync, jj.tail)

(* The pages from p on may be programmed one by one with the head at h.    *)
Closed(n, h) == \A c \in Checkpoints : Block(c) = Block(h) /\ c < h => ~Open(n, c)
Ready(n, h, p) == FreeOn(n, p) /\ Closed(n, h)

LEMMA Largest ==
    ASSUME NEW a \in Nat, NEW b \in Int, NEW S, S \subseteq a..b, S # {}
    PROVE  \E k \in S : \A i \in S : i <= k
<1> DEFINE T == {x \in Nat : b - x \in S}
<1>1. PICK s \in S : TRUE
  OBVIOUS
<1>2. b - s \in T /\ b - (b - s) = s
  BY <1>1
<1>3. PICK x \in T : \A y \in T : x <= y
  BY <1>2, LeastNatural
<1>4. ASSUME NEW i \in S PROVE i <= b - x
  <2>1. b - i \in T
    BY <1>4
  <2>0. x \in Nat
    BY <1>3
  <2> HIDE DEF T
  <2>2. x \in Int /\ x <= b - i
    BY <2>0, <2>1, <1>3
  <2>3. i \in Int
    BY <1>4
  <2> QED BY <2>2, <2>3
<1> QED BY <1>3, <1>4

LEMMA FreeHasNoFields == Free.kind = "free" /\ Torn.kind = "torn" /\ Free # Torn
BY DEF Free, Torn

LEMMA CheckpointPage ==
    ASSUME NEW n \in Flash, NEW c \in Pages, n[c].kind = "checkpoint"
    PROVE  n[c] \in CheckpointData /\ n[c] # Free
<1>1. n[c] \in {Free, Torn} \cup UserData \cup CheckpointData
  BY DEF Flash
<1> QED BY <1>1, FreeHasNoFields DEF UserData

LEMMA FindCheckblockIs ==
    ASSUME NEW n, NEW b \in Nat
    PROVE  LET c == FindCheckblock(n, b)
           IN  c # None => /\ c \in 0..NumBlocks - 1 /\ b <= c
                           /\ n[FirstCheckpoint(c)].kind = "checkpoint"
<1> DEFINE found == {c \in b..b + MaxRetries - 1 :
                       /\ c < NumBlocks /\ ~IsBad(n, c)
                       /\ IsCheckpoint(n, FirstCheckpoint(c))}
           c == FindCheckblock(n, b)
<1> SUFFICES ASSUME c # None
             PROVE  /\ c \in 0..NumBlocks - 1 /\ b <= c
                    /\ n[FirstCheckpoint(c)].kind = "checkpoint"
  OBVIOUS
<1>1. found # {} /\ c = CHOOSE k \in found : \A d \in found : k <= d
  BY DEF FindCheckblock
<1>2. found \subseteq Nat /\ MaxRetries \in Nat
  BY GeometryAssumption
<1> HIDE DEF c
<1>3. c \in found
  <2> HIDE DEF found
  <2> QED BY <1>1, <1>2, LeastNatural
<1> QED BY <1>2, <1>3, Geometry DEF IsCheckpoint

LEMMA FirstCheckpointIs ==
    ASSUME NEW b \in 0..NumBlocks - 1
    PROVE  FirstCheckpoint(b) \in Checkpoints /\ Block(FirstCheckpoint(b)) = b
BY FirstOfBlock, CheckpointInGroup DEF FirstCheckpoint, Checkpoints

Blocks == 0..NumBlocks - 1
BlockRanges == [low : Nat, high : Int, found : Blocks \cup {None}]

LEMMA CheckblockStepType ==
    ASSUME NEW n, NEW epoch, NEW first \in Blocks, NEW r \in BlockRanges
    PROVE  CheckblockStep(n, epoch, first, r) \in BlockRanges
<1> DEFINE mid == Middle(r)
           found == FindCheckblock(n, mid)
           more == FindCheckblock(n, found + 1)
<1>1. CASE Over(r)
  BY <1>1 DEF CheckblockStep
<1>2. CASE ~Over(r)
  <2>1. mid \in Nat
    BY <1>2 DEF Over, Middle, BlockRanges
  <2>2. InEpoch(n, mid, epoch) => found \in Blocks
    BY <2>1, FindCheckblockIs DEF InEpoch, Blocks
  <2>3. InEpoch(n, mid, epoch) /\ InEpoch(n, found + 1, epoch) => more \in Nat
    <3>1. found \in Blocks => found + 1 \in Nat
      BY Geometry DEF Blocks
    <3>2. InEpoch(n, found + 1, epoch) => more # None
      BY DEF InEpoch
    <3>3. found \in Blocks /\ more # None => more \in Blocks
      BY <3>1, FindCheckblockIs DEF Blocks
    <3> QED BY <2>2, <3>2, <3>3, Geometry DEF Blocks
  <2> HIDE DEF mid, found, more
  <2>4. CheckblockStep(n, epoch, first, r) =
          IF ~InEpoch(n, mid, epoch)
          THEN IF mid = 0 THEN [r EXCEPT !.found = first]
               ELSE [r EXCEPT !.high = mid - 1]
          ELSE IF found + 1 >= NumBlocks \/ ~InEpoch(n, found + 1, epoch)
          THEN [r EXCEPT !.found = found]
          ELSE [r EXCEPT !.low = more]
    BY <1>2 DEF CheckblockStep, mid, found, more
  <2> QED BY <2>1, <2>2, <2>3, <2>4 DEF BlockRanges
<1> QED BY <1>1, <1>2

\* The search of find_last_checkblock, range by range.
CheckblockSearch(n, epoch, first, run) ==
    /\ run[0] = Between(first, NumBlocks - 1)
    /\ \A k \in 0..NumBlocks - 1 :
         run[k + 1] = CheckblockStep(n, epoch, first, run[k])
    /\ LastCheckblock(n, epoch, first) =
         IF run[NumBlocks].found = None THEN first ELSE run[NumBlocks].found

LEMMA CheckblockSearchRuns ==
    ASSUME NEW n, NEW epoch, NEW first \in Blocks
    PROVE  \E run : CheckblockSearch(n, epoch, first, run)
<1> DEFINE Steps(f) == f = [k \in 0..NumBlocks |->
                              IF k = 0 THEN Between(first, NumBlocks - 1)
                              ELSE CheckblockStep(n, epoch, first, f[k - 1])]
           run == CHOOSE f : Steps(f)
           start == Between(first, NumBlocks - 1)
<1>1. NumBlocks \in Nat \ {0, 1} /\ start \in BlockRanges
  BY Geometry DEF Between, BlockRanges, Blocks
<1>2. \E f : Steps(f)
  <2> DEFINE step == [k \in 0..NumBlocks |-> [r \in BlockRanges |->
                        CheckblockStep(n, epoch, first, r)]]
  <2>1. step \in [0..NumBlocks -> [BlockRanges -> BlockRanges]]
    BY CheckblockStepType
  <2> HIDE DEF step, start
  <2>2. \E f \in [0..NumBlocks -> BlockRanges] : Runs(f, 0, NumBlocks, start, step)
    BY <1>1, <2>1, Iterates
  <2>3. PICK f \in [0..NumBlocks -> BlockRanges] : Runs(f, 0, NumBlocks, start, step)
    BY <2>2
  <2>4. f[0] = start /\ \A k \in 0..NumBlocks - 1 : f[k + 1] = step[k][f[k]]
    BY <2>3 DEF Runs
  <2>5. \A k \in 0..NumBlocks - 1 : step[k][f[k]] = CheckblockStep(n, epoch, first, f[k])
    BY <1>1, <2>3 DEF step
  <2>6. \A k \in 0..NumBlocks :
          f[k] = IF k = 0 THEN start ELSE CheckblockStep(n, epoch, first, f[k - 1])
    <3> SUFFICES ASSUME NEW k \in 0..NumBlocks, k # 0
                 PROVE  f[k] = CheckblockStep(n, epoch, first, f[k - 1])
      BY <2>4
    <3>1. k - 1 \in 0..NumBlocks - 1 /\ k = (k - 1) + 1
      BY <1>1
    <3> QED BY <3>1, <2>4, <2>5
  <2>7. Steps(f)
    BY <2>3, <2>6 DEF start
  <2> QED BY <2>7
<1>3. Steps(run)
  <2> HIDE DEF Steps
  <2> QED BY <1>2
<1>4. LastCheckblock(n, epoch, first) =
        IF run[NumBlocks].found = None THEN first ELSE run[NumBlocks].found
  BY DEF LastCheckblock
<1> HIDE DEF run, start
<1>5. run[0] = start /\ \A k \in 0..NumBlocks - 1 :
                          run[k + 1] = CheckblockStep(n, epoch, first, run[k])
  BY <1>1, <1>3 DEF start
<1> QED BY <1>4, <1>5 DEF CheckblockSearch, start

LEMMA LastCheckblockType ==
    ASSUME NEW n, NEW epoch, NEW first \in Blocks
    PROVE  LastCheckblock(n, epoch, first) \in Blocks
<1>1. NumBlocks \in Nat \ {0, 1} /\ Between(first, NumBlocks - 1) \in BlockRanges
  BY Geometry DEF Between, BlockRanges, Blocks
<1>2. PICK run : CheckblockSearch(n, epoch, first, run)
  BY CheckblockSearchRuns
<1>5. /\ run[0] \in BlockRanges
      /\ \A k \in 0..NumBlocks - 1 :
           run[k + 1] = CheckblockStep(n, epoch, first, run[k])
  BY <1>1, <1>2 DEF CheckblockSearch
<1> DEFINE P == {k \in 0..NumBlocks : run[k] \in BlockRanges}
<1>6. 0 \in P /\ \A k \in 0..NumBlocks - 1 : k \in P => k + 1 \in P
  BY <1>1, <1>5, CheckblockStepType
<1>7. 0..NumBlocks \subseteq P
  <2> HIDE DEF P
  <2> QED BY <1>1, <1>6, UpTo
<1>8. run[NumBlocks] \in BlockRanges
  BY <1>1, <1>7
<1> QED BY <1>2, <1>8 DEF BlockRanges, CheckblockSearch

LEMMA GroupsOfBlock ==
    ASSUME NEW b \in Blocks
    PROVE  /\ Group(FirstOf(b)) = b * (Ppb \div Ppc)
           /\ Group(FirstOf(b + 1)) = (b + 1) * (Ppb \div Ppc)
           /\ \A g \in Group(FirstOf(b))..Group(FirstOf(b + 1)) - 1 :
                g * Ppc \in Pages /\ Block(g * Ppc) = b /\ (g * Ppc) % Ppc = 0
<1> DEFINE G == Ppb \div Ppc
<1>1. /\ NumBlocks \in Nat \ {0, 1} /\ Ppc \in Nat \ {0, 1, 2} /\ Ppb \in Nat \ {0}
      /\ G \in Nat \ {0} /\ Ppb = Ppc * G /\ NumPages \in Nat
  BY Geometry
<1> HIDE DEF G
<1>2. ASSUME NEW c \in Int PROVE Group(FirstOf(c)) = c * G
  <2>1. PICK q \in Int : q = c * G
    BY <1>1
  <2>2. FirstOf(c) = Ppc * q /\ FirstOf(c) \in Int
    BY <1>1, <2>1 DEF FirstOf
  <2>3. Ppc * q <= FirstOf(c) /\ FirstOf(c) < Ppc * q + Ppc
    BY <1>1, <2>1, <2>2
  <2>4. FirstOf(c) \div Ppc = q
    BY <1>1, <2>1, <2>2, <2>3, DivIs
  <2> QED BY <2>1, <2>4 DEF Group
<1>3. b \in Int /\ b + 1 \in Int /\ b \in 0..NumBlocks - 1
  BY <1>1 DEF Blocks
<1>4. ASSUME NEW g \in (b * G)..((b + 1) * G) - 1
      PROVE  g * Ppc \in Pages /\ Block(g * Ppc) = b /\ (g * Ppc) % Ppc = 0
  <2>1. PICK lo \in Int : lo = b * G
    BY <1>1, <1>3
  <2>2. (b + 1) * G = lo + G
    BY <1>1, <1>3, <2>1
  <2>3. g \in Int /\ lo <= g /\ g + 1 <= lo + G
    BY <1>1, <1>4, <2>1, <2>2
  <2>4. Ppc * lo <= Ppc * g /\ (Ppc * g) + Ppc <= (Ppc * lo) + (Ppc * G)
    BY <1>1, <2>1, <2>3
  <2>5. Ppc * lo = b * Ppb
    BY <1>1, <1>3, <2>1
  <2>6. PICK p \in Int, x \in Int : p = g * Ppc /\ p = Ppc * g /\ x = b * Ppb
    BY <1>1, <1>3, <2>3
  <2>7. x <= p /\ p < x + Ppb
    BY <1>1, <2>4, <2>5, <2>6
  <2>8. Block(p) = b
    BY <1>3, <2>6, <2>7, BlockIs
  <2>9. FirstOf(b) + Ppb <= NumPages /\ FirstOf(b) \in Pages /\ FirstOf(b) = x
    BY <1>3, <2>6, FirstOfBlock DEF FirstOf
  <2>10. p \in Pages
    BY <1>1, <2>6, <2>7, <2>9 DEF Pages
  <2>11. p % Ppc = 0
    <3>1. Ppc * g <= p /\ p < Ppc * g + Ppc /\ p - (Ppc * g) = 0
      BY <1>1, <2>6
    <3> QED BY <1>1, <2>3, <2>6, <3>1, DivIs
  <2> QED BY <2>6, <2>8, <2>10, <2>11
<1> QED BY <1>2, <1>3, <1>4 DEF G

GroupRanges(n, b) ==
    [low : {g \in Int : Group(FirstOf(b)) <= g},
     high : {g \in Int : g <= Group(FirstOf(b + 1)) - 1},
     found : {None} \cup
             {g \in Group(FirstOf(b))..Group(FirstOf(b + 1)) - 1 : ~GroupFree(n, g)}]

LEMMA GroupStepType ==
    ASSUME NEW n, NEW b \in Blocks, NEW r \in GroupRanges(n, b)
    PROVE  GroupStep(n, b, r) \in GroupRanges(n, b)
<1> DEFINE mid == Middle(r)
           lo == Group(FirstOf(b))
           hi == Group(FirstOf(b + 1)) - 1
<1>1. lo \in Int /\ hi \in Int
  BY GroupsOfBlock, Geometry DEF Blocks
<1>2. /\ r.low \in Int /\ lo <= r.low /\ r.high \in Int /\ r.high <= hi
      /\ r.found \in {None} \cup {g \in lo..hi : ~GroupFree(n, g)}
      /\ r = [low |-> r.low, high |-> r.high, found |-> r.found]
  BY DEF GroupRanges
<1>3. CASE Over(r)
  BY <1>3 DEF GroupStep
<1>4. CASE ~Over(r)
  <2>1. mid \in lo..hi
    <3>1. r.low <= r.high
      BY <1>2, <1>4 DEF Over
    <3>2. r.low <= mid /\ mid <= r.high /\ mid \in Int
      BY <3>1, <1>2 DEF Middle
    <3> QED BY <3>2, <1>1, <1>2
  <2> HIDE DEF mid
  <2>2. GroupStep(n, b, r) =
          IF GroupFree(n, mid) THEN [r EXCEPT !.high = mid - 1]
          ELSE IF Block((mid + 1) * Ppc) # b \/ GroupFree(n, mid + 1)
          THEN [r EXCEPT !.found = mid]
          ELSE [r EXCEPT !.low = mid + 1]
    BY <1>4 DEF GroupStep, mid
  <2>3. CASE GroupFree(n, mid)
    <3>1. mid - 1 \in Int /\ mid - 1 <= hi
      BY <2>1, <1>1
    <3> QED BY <2>2, <2>3, <3>1, <1>2 DEF GroupRanges
  <2>4. CASE ~GroupFree(n, mid)
    <3>1. mid + 1 \in Int /\ lo <= mid + 1
      BY <2>1, <1>1
    <3> HIDE DEF lo, hi
    <3>2. [r EXCEPT !.found = mid].found = mid
      BY <1>2
    <3> QED BY <2>1, <2>2, <2>4, <3>1, <1>2 DEF GroupRanges, lo, hi
  <2> QED BY <2>3, <2>4
<1> QED BY <1>3, <1>4

\* The search of find_last_group, range by range.
GroupSearch(n, b, run) ==
    /\ run[0] = Between(Group(FirstOf(b)), Group(FirstOf(b + 1)) - 1)
    /\ \A k \in 0..Ppb - 1 : run[k + 1] = GroupStep(n, b, run[k])
    /\ LastGroup(n, b) = IF run[Ppb].found = None THEN FirstOf(b)
                         ELSE run[Ppb].found * Ppc

LEMMA GroupSearchRuns ==
    ASSUME NEW n, NEW b \in Blocks
    PROVE  \E run : GroupSearch(n, b, run)
<1> DEFINE lo == Group(FirstOf(b))
           hi == Group(FirstOf(b + 1)) - 1
           start == Between(lo, hi)
           S == GroupRanges(n, b)
           Steps(f) == f = [k \in 0..Ppb |-> IF k = 0 THEN start
                                             ELSE GroupStep(n, b, f[k - 1])]
           run == CHOOSE f : Steps(f)
<1>1. /\ Ppb \in Nat \ {0} /\ Ppc \in Nat \ {0, 1, 2} /\ lo \in Int /\ hi \in Int
      /\ b \in 0..NumBlocks - 1
  BY GroupsOfBlock, Geometry DEF Blocks
<1>2. start \in S
  BY <1>1 DEF Between, GroupRanges
<1>3. \E f : Steps(f)
  <2> DEFINE step == [k \in 0..Ppb |-> [r \in S |-> GroupStep(n, b, r)]]
  <2>1. step \in [0..Ppb -> [S -> S]]
    BY GroupStepType
  <2> HIDE DEF step, start, S
  <2>2. \E f \in [0..Ppb -> S] : Runs(f, 0, Ppb, start, step)
    <3>1. Ppb \in Int /\ 0 <= Ppb /\ 0 \in Int
      BY <1>1
    <3> QED BY ONLY <1>2, <2>1, <3>1, Iterates
  <2>3. PICK f \in [0..Ppb -> S] : Runs(f, 0, Ppb, start, step)
    BY <2>2
  <2>4. f[0] = start /\ \A k \in 0..Ppb - 1 : f[k + 1] = step[k][f[k]]
    BY <2>3 DEF Runs
  <2>5. \A k \in 0..Ppb - 1 : step[k][f[k]] = GroupStep(n, b, f[k])
    BY <1>1, <2>3 DEF step
  <2>6. \A k \in 0..Ppb : f[k] = IF k = 0 THEN start ELSE GroupStep(n, b, f[k - 1])
    <3> SUFFICES ASSUME NEW k \in 0..Ppb, k # 0
                 PROVE  f[k] = GroupStep(n, b, f[k - 1])
      BY <2>4
    <3>1. k - 1 \in 0..Ppb - 1 /\ k = (k - 1) + 1
      BY <1>1
    <3> QED BY <3>1, <2>4, <2>5
  <2>7. Steps(f)
    BY <2>3, <2>6
  <2> QED BY <2>7
<1>4. Steps(run)
  <2> HIDE DEF Steps
  <2> QED BY <1>3
<1>5. LastGroup(n, b) =
        IF run[Ppb].found = None THEN FirstOf(b) ELSE run[Ppb].found * Ppc
  BY DEF LastGroup
<1> HIDE DEF run, start
<1>6. run[0] = start /\ \A k \in 0..Ppb - 1 : run[k + 1] = GroupStep(n, b, run[k])
  BY <1>1, <1>4
<1> QED BY <1>5, <1>6 DEF GroupSearch, start

\* find_last_group returns the first group, or a group that is in use.
LEMMA LastGroupIs ==
    ASSUME NEW n, NEW b \in Blocks
    PROVE  LET p == LastGroup(n, b)
           IN  /\ p \in Pages /\ Block(p) = b /\ p % Ppc = 0
               /\ p = FirstOf(b) \/ ~GroupFree(n, Group(p))
<1> DEFINE lo == Group(FirstOf(b))
           hi == Group(FirstOf(b + 1)) - 1
           S == GroupRanges(n, b)
<1>1. /\ Ppb \in Nat \ {0} /\ Ppc \in Nat \ {0, 1, 2} /\ lo \in Int /\ hi \in Int
      /\ b \in 0..NumBlocks - 1
  BY GroupsOfBlock, Geometry DEF Blocks
<1>2. PICK run : GroupSearch(n, b, run)
  BY GroupSearchRuns
<1>5. LastGroup(n, b) =
        IF run[Ppb].found = None THEN FirstOf(b) ELSE run[Ppb].found * Ppc
  BY <1>2 DEF GroupSearch
<1>6. run[0] \in S /\ \A k \in 0..Ppb - 1 : run[k + 1] = GroupStep(n, b, run[k])
  BY <1>1, <1>2 DEF GroupSearch, Between, GroupRanges
<1> DEFINE P == {k \in 0..Ppb : run[k] \in S}
<1>7. 0 \in P /\ \A k \in 0..Ppb - 1 : k \in P => k + 1 \in P
  BY <1>1, <1>6, GroupStepType
<1>8. 0..Ppb \subseteq P
  <2> HIDE DEF P
  <2> QED BY <1>1, <1>7, UpTo
<1>9. run[Ppb] \in S
  BY <1>1, <1>8
<1>10. CASE run[Ppb].found = None
  BY <1>1, <1>5, <1>10, FirstOfBlock
<1>11. CASE run[Ppb].found # None
  <2>1. PICK g \in lo..hi : g = run[Ppb].found /\ ~GroupFree(n, g)
    BY <1>9, <1>11 DEF GroupRanges
  <2>2. g * Ppc \in Pages /\ Block(g * Ppc) = b /\ (g * Ppc) % Ppc = 0
    BY <2>1, GroupsOfBlock
  <2>3. Group(g * Ppc) = g
    <3>1. PICK p \in Int : p = g * Ppc /\ p = Ppc * g /\ g \in Int
      BY <1>1, <2>1
    <3>2. Ppc * g <= p /\ p < Ppc * g + Ppc
      BY <1>1, <3>1
    <3>3. p \div Ppc = g
      BY <1>1, <3>1, <3>2, DivIs
    <3> QED BY <3>1, <3>3 DEF Group
  <2> QED BY <1>5, <1>11, <2>1, <2>2, <2>3
<1> QED BY <1>10, <1>11

LEMMA RootCheckpointIs ==
    ASSUME NEW n, NEW start \in Pages, start % Ppc = 0, NEW epoch
    PROVE  LET c == RootCheckpoint(n, start, epoch)
           IN  c # None => /\ c \in Checkpoints /\ Block(c) = Block(start)
                           /\ n[c].kind = "checkpoint"
<1> DEFINE first == FirstOf(Block(start))
           valid == {p \in first..start + Ppc - 1 :
                       /\ p % Ppc = Ppc - 1 /\ IsCheckpoint(n, p)
                       /\ n[p].epoch = epoch}
           c == RootCheckpoint(n, start, epoch)
<1> SUFFICES ASSUME c # None
             PROVE  /\ c \in Checkpoints /\ Block(c) = Block(start)
                    /\ n[c].kind = "checkpoint"
  OBVIOUS
<1>1. valid # {} /\ c = CHOOSE k \in valid : \A q \in valid : q <= k
  BY DEF RootCheckpoint
<1>2. first \in Nat /\ start \in Int /\ Ppc \in Nat \ {0} /\ valid \subseteq first..start + Ppc - 1
  BY BlockOf, FirstOfBlock, Geometry DEF Pages
<1> HIDE DEF c, first
<1>3. c \in valid
  <2> HIDE DEF valid
  <2>1. start + Ppc - 1 \in Int
    BY <1>2
  <2> QED BY <1>1, <1>2, <2>1, Largest
<1>4. c \in Int /\ first <= c /\ c <= start + Ppc - 1
  BY <1>2, <1>3
<1>5. /\ CheckpointOf(Group(start)) = start + Ppc - 1
      /\ start + Ppc - 1 \in Pages /\ Block(start + Ppc - 1) = Block(start)
  <2>1. CheckpointOf(Group(start)) = start - (start % Ppc) + Ppc - 1
    BY <1>2, GroupOf
  <2>2. CheckpointOf(Group(start)) = start + Ppc - 1
    BY <2>1, <1>2
  <2> QED BY <2>2, CheckpointInGroup
<1>6. c \in Pages
  BY <1>2, <1>4, <1>5, Geometry DEF Pages
<1>7. Block(start) \in 0..NumBlocks - 1 /\ first \in Pages /\ Block(first) = Block(start)
  BY BlockOf, FirstOfBlock DEF first
<1>8. Block(first) <= Block(c) /\ Block(c) <= Block(start)
  BY <1>4, <1>5, <1>6, <1>7, BlockOrder
<1>9. Block(c) = Block(start)
  BY <1>6, <1>7, <1>8, BlockOf
<1> QED BY <1>3, <1>6, <1>9 DEF Checkpoints, IsCheckpoint

\* The pages of a group.
LEMMA PageOfGroup ==
    ASSUME NEW p \in Pages, p % Ppc = 0, NEW i \in 0..Ppc - 1
    PROVE  /\ p = Group(p) * Ppc /\ Group(p) * Ppc + i \in Pages
           /\ Group(Group(p) * Ppc + i) = Group(p)
           /\ (Group(p) * Ppc + i) % Ppc = i
           /\ Block(Group(p) * Ppc + i) = Block(p)
<1> DEFINE g == Group(p)
           q == g * Ppc + i
<1>1. /\ p \in Int /\ g \in Int /\ p = g * Ppc /\ p >= 0 /\ Ppc \in Nat \ {0, 1, 2}
      /\ NumPages \in Int
  BY GroupOf, Geometry DEF Pages
<1>2. q \in Int /\ q = (Ppc * g) + i
  BY <1>1
<1> HIDE DEF g, q
<1>3. q \div Ppc = g /\ q % Ppc = i
  BY <1>1, <1>2, Remainder
<1>4. Group(q) = Group(p)
  BY <1>3 DEF Group, g
<1>5. Block(q) = Block(p)
  BY <1>1, <1>2, <1>4, GroupInBlock
<1>6. CheckpointOf(g) \in Pages /\ CheckpointOf(g) = (Ppc * g) + (Ppc - 1)
  BY <1>1, CheckpointInGroup, CheckpointIs DEF g
<1>7. q \in Pages
  <2>1. PICK m \in Int : m = Ppc * g /\ m = p
    BY <1>1
  <2> QED BY <2>1, <1>1, <1>2, <1>6 DEF Pages
<1> QED BY <1>1, <1>3, <1>4, <1>5, <1>7 DEF g, q

\* How many pages of a group are behind its last used one.
LEMMA FreeFromIs ==
    ASSUME NEW n, NEW g
    PROVE  /\ FreeFrom(n, g) \in 0..Ppc
           /\ \A i \in 0..Ppc - 1 : FreeFrom(n, g) <= i => n[g * Ppc + i] = Free
           /\ FreeFrom(n, g) # 0 => n[g * Ppc + (FreeFrom(n, g) - 1)] # Free
<1> DEFINE used == {i \in 0..Ppc - 1 : n[g * Ppc + i] # Free}
           last == CHOOSE i \in used : \A k \in used : k <= i
<1>1. Ppc \in Nat \ {0, 1, 2}
  BY Geometry
<1>2. FreeFrom(n, g) = IF used = {} THEN 0 ELSE 1 + last
  BY DEF FreeFrom
<1>3. CASE used = {}
  BY <1>1, <1>2, <1>3
<1>4. CASE used # {}
  <2>1. last \in used /\ \A k \in used : k <= last
    <3> HIDE DEF used
    <3>1. used \subseteq 0..Ppc - 1 /\ Ppc - 1 \in Int /\ 0 \in Nat
      BY <1>1 DEF used
    <3> QED BY <1>4, <3>1, Largest
  <2> HIDE DEF last
  <2>2. last \in 0..Ppc - 1 /\ n[g * Ppc + last] # Free
    BY <2>1
  <2>3. ASSUME NEW i \in 0..Ppc - 1, 1 + last <= i PROVE n[g * Ppc + i] = Free
    <3>1. ~(i <= last)
      BY <2>2, <2>3
    <3> QED BY <2>1, <3>1
  <2>4. FreeFrom(n, g) = 1 + last /\ (1 + last) - 1 = last /\ 1 + last \in 0..Ppc
    BY <1>1, <1>2, <1>4, <2>2
  <2> QED BY <2>2, <2>3, <2>4
<1> QED BY <1>3, <1>4

LEMMA GroupPage ==
    ASSUME NEW g \in Int, NEW i \in 0..Ppc - 1
    PROVE  /\ Group(g * Ppc + i) = g /\ (g * Ppc + i) % Ppc = i
           /\ Group(g * Ppc) = g /\ (g * Ppc) % Ppc = 0
           /\ Block(g * Ppc + i) = Block(g * Ppc)
<1>1. Ppc \in Nat \ {0, 1, 2}
  BY Geometry
<1>2. PICK m \in Int : m = Ppc * g /\ m = g * Ppc
  BY <1>1
<1>3. ASSUME NEW k \in 0..Ppc - 1, NEW q \in Int, q = m + k
      PROVE  q \div Ppc = g /\ q % Ppc = k
  <2>1. q = (Ppc * g) + k
    BY <1>2, <1>3
  <2> QED BY <2>1, <1>1, Remainder
<1>4. (m + i) \div Ppc = g /\ (m + i) % Ppc = i /\ m + i \in Int
  BY <1>1, <1>2, <1>3
<1>5. m \div Ppc = g /\ m % Ppc = 0
  BY <1>1, <1>2, <1>3
<1>6. Block(m + i) = Block(m)
  BY <1>2, <1>4, <1>5, GroupInBlock DEF Group
<1> QED BY <1>2, <1>4, <1>5, <1>6 DEF Group

LEMMA PageOfBlock ==
    ASSUME NEW p \in Int, Block(p) \in 0..NumBlocks - 1
    PROVE  p \in Pages
<1>1. /\ p = (Ppb * Block(p)) + (p % Ppb) /\ p % Ppb \in 0..Ppb - 1
  BY DivMod, Geometry DEF Block
<1>2. FirstOf(Block(p)) \in Pages /\ FirstOf(Block(p)) + Ppb <= NumPages
  BY FirstOfBlock
<1>3. FirstOf(Block(p)) = Ppb * Block(p)
  BY Geometry DEF FirstOf
<1> QED BY <1>1, <1>2, <1>3, Geometry DEF Pages

\* A journal is known by its fields.
JournalFields ==
    {"head", "tail", "tailSync", "root", "dirty", "epoch", "bbLast", "bbCurrent",
     "metas", "count"}

LEMMA IsJournal ==
    ASSUME NEW r, DOMAIN r = JournalFields, r = [f \in DOMAIN r |-> r[f]],
           r.head \in UserPages, r.tail \in UserPages, r.tailSync \in UserPages,
           r.root \in UserPages \cup {None}, r.dirty \in BOOLEAN,
           r.epoch \in Int, r.bbLast \in Int, r.bbCurrent \in Int,
           r.metas \in Metas, r.count \in Int
    PROVE  r \in Journal
BY DEF Journal, JournalFields

LEMMA RollStatsType ==
    ASSUME NEW jj \in Journal
    PROVE  /\ RollStats(jj) \in Journal /\ RollStats(jj).head = jj.head
           /\ RollStats(jj).tail = jj.tail /\ RollStats(jj).tailSync = jj.tailSync
           /\ RollStats(jj).root = jj.root /\ RollStats(jj).dirty = jj.dirty
           /\ RollStats(jj).metas = jj.metas /\ RollStats(jj).count = jj.count
<1> DEFINE r == [jj EXCEPT !.bbLast = jj.bbCurrent, !.bbCurrent = 0, !.epoch = @ + 1]
<1>1. DOMAIN r = JournalFields /\ r = [f \in DOMAIN r |-> r[f]]
  BY DEF Journal, JournalFields
<1>2. /\ r.head = jj.head /\ r.tail = jj.tail /\ r.tailSync = jj.tailSync
      /\ r.root = jj.root /\ r.dirty = jj.dirty /\ r.metas = jj.metas
      /\ r.count = jj.count /\ r.epoch = jj.epoch + 1 /\ r.bbLast = jj.bbCurrent
      /\ r.bbCurrent = 0
  BY DEF Journal
<1>3. RollStats(jj) = r \/ RollStats(jj) = jj
  BY DEF RollStats
<1> HIDE DEF r
<1>4. r \in Journal
  <2>1. /\ jj.head \in UserPages /\ jj.tail \in UserPages /\ jj.tailSync \in UserPages
        /\ jj.root \in UserPages \cup {None} /\ jj.dirty \in BOOLEAN
        /\ jj.epoch + 1 \in Int /\ jj.bbCurrent \in Int /\ 0 \in Int
        /\ jj.metas \in Metas /\ jj.count \in Int
    BY DEF Journal
  <2> QED BY <1>1, <1>2, <2>1, IsJournal
<1> QED BY <1>2, <1>3, <1>4

LEMMA FindHeadIs ==
    ASSUME NEW n, FlashOK(n), NEW jj \in Journal,
           NEW group \in Pages, group % Ppc = 0,
           group = FirstOf(Block(group)) \/ ~GroupFree(n, Group(group))
    PROVE  LET f == FindHead(n, jj, group)
           IN  /\ f \in Journal
               /\ \/ /\ Block(f.head) = Block(group) /\ f.tail = jj.tail
                     /\ Ready(n, f.head, f.head)
                  \/ f.head % Ppb = 0 /\ Behind(f.tail, f.head)
<1> DEFINE b == Block(group)
           g0 == Group(group)
           groups == {g \in g0..g0 + Ppb \div Ppc - 1 :
                       /\ Block(g * Ppc) = b
                       /\ FreeFrom(n, g) <= Ppc - 2}
           first == CHOOSE g \in groups : \A h \in groups : g <= h
           next == NextBlock(b)
           f == FindHead(n, jj, group)
<1>1. /\ Ppc \in Nat \ {0, 1, 2} /\ Ppb \in Nat \ {0} /\ Ppb \div Ppc \in Nat \ {0}
      /\ NumBlocks \in Nat \ {0, 1} /\ NumPages \in Int
  BY Geometry
<1>2. b \in 0..NumBlocks - 1 /\ group \in Int /\ group >= 0
  BY <1>1, BlockOf DEF Pages
<1>3. g0 \in Nat /\ group = g0 * Ppc
  <2>1. g0 \in Int /\ group = g0 * Ppc
    BY <1>1, <1>2, GroupOf
  <2> HIDE DEF g0
  <2> QED BY <2>1, <1>1, <1>2
<1>4. CASE groups # {}
  <2>1. f = [jj EXCEPT !.head = first * Ppc + FreeFrom(n, first)]
    BY <1>4 DEF FindHead
  <2>2. first \in groups /\ \A h \in groups : first <= h
    <3>1. groups \subseteq Nat
      BY <1>1, <1>3
    <3> HIDE DEF groups
    <3> QED BY <1>4, <3>1, LeastNatural
  <2> HIDE DEF first, f, g0
  <2>3. /\ first \in Nat /\ g0 <= first /\ first <= g0 + Ppb \div Ppc - 1
        /\ Block(first * Ppc) = b /\ FreeFrom(n, first) <= Ppc - 2
    BY <1>1, <1>3, <2>2
  <2>4. /\ FreeFrom(n, first) \in 0..Ppc - 2
        /\ \A i \in 0..Ppc - 1 : FreeFrom(n, first) <= i => n[first * Ppc + i] = Free
    BY <1>1, <2>3, FreeFromIs
  <2> DEFINE h == first * Ppc + FreeFrom(n, first)
             c == first * Ppc + (Ppc - 1)
  <2>5. h \in UserPages /\ Block(h) = b /\ Group(h) = first
    <3>1. FreeFrom(n, first) \in 0..Ppc - 1 /\ FreeFrom(n, first) # Ppc - 1
      BY <1>1, <2>4
    <3>2. /\ Group(h) = first /\ h % Ppc = FreeFrom(n, first) /\ Block(h) = b
      BY <2>3, <3>1, GroupPage
    <3>3. h \in Int
      BY <1>1, <2>3, <2>4
    <3>4. h \in Pages
      BY <1>2, <3>2, <3>3, PageOfBlock
    <3> QED BY <3>1, <3>2, <3>4 DEF UserPages
  <2>6. c \in Checkpoints /\ Block(c) = b /\ Group(c) = first /\ h < c
    <3>1. Ppc - 1 \in 0..Ppc - 1
      BY <1>1
    <3>2. Group(c) = first /\ c % Ppc = Ppc - 1 /\ Block(c) = b
      BY <2>3, <3>1, GroupPage
    <3>3. c \in Int /\ h < c
      BY <1>1, <2>3, <2>4
    <3>4. c \in Pages
      BY <1>2, <3>2, <3>3, PageOfBlock
    <3> QED BY <3>2, <3>3, <3>4 DEF Checkpoints
  <2>7. Open(n, c)
    <3>1. c = first * Ppc + (Ppc - 1) /\ c - 1 = first * Ppc + (Ppc - 2)
      BY <1>1, <2>3
    <3>2. n[first * Ppc + (Ppc - 1)] = Free /\ n[first * Ppc + (Ppc - 2)] = Free
      BY <1>1, <2>4
    <3> QED BY <3>1, <3>2 DEF Open
  <2> HIDE DEF c, h
  <2>8. FreeOn(n, h)
    <3> SUFFICES ASSUME NEW q \in Pages, Block(q) = Block(h), h <= q PROVE n[q] = Free
      BY DEF FreeOn
    <3>1. q \in Int /\ h \in Int /\ c \in Int
      BY <1>1, <2>5, <2>6 DEF UserPages, Checkpoints, Pages
    <3>2. CASE c <= q
      BY <2>5, <2>6, <2>7, <3>2 DEF FlashOK, Filled, FreeOn
    <3>3. CASE q < c
      <4>1. PICK m \in Int : m = first * Ppc
        BY <1>1, <2>3
      <4>2. PICK i \in 0..Ppc - 1 : q = m + i /\ FreeFrom(n, first) <= i
        <5>1. q - m \in 0..Ppc - 1 /\ q = m + (q - m) /\ FreeFrom(n, first) <= q - m
          BY <1>1, <2>4, <3>1, <3>3, <4>1 DEF c, h
        <5> QED BY <5>1
      <4> QED BY <2>4, <4>1, <4>2
    <3> QED BY <3>1, <3>2, <3>3
  <2>9. Closed(n, h)
    <3> SUFFICES ASSUME NEW d \in Checkpoints, Block(d) = Block(h), d < h, Open(n, d)
                 PROVE  FALSE
      BY DEF Closed
    <3> DEFINE e == Group(d)
    <3>1. d \in Pages /\ d \in Int /\ d >= 0 /\ d % Ppc = Ppc - 1
      BY <1>1 DEF Checkpoints, Pages
    <3>2. e \in Int /\ d = e * Ppc + (Ppc - 1)
      BY <3>1, GroupOf
    <3> HIDE DEF e
    <3>3. e < first
      <4>1. h = first * Ppc + FreeFrom(n, first)
        BY DEF h
      <4>2. CASE first <= e
        <5>1. first * Ppc <= e * Ppc /\ first * Ppc \in Int /\ e * Ppc \in Int
          BY <1>1, <2>3, <3>2, <4>2
        <5> QED BY <5>1, <4>1, <1>1, <2>4, <3>2
      <4> QED BY <4>2, <2>3, <3>2
    <3>4. CASE g0 <= e
      <4>1. Block(e * Ppc) = b
        <5>1. Ppc - 1 \in 0..Ppc - 1
          BY <1>1
        <5> QED BY <2>5, <3>2, <5>1, GroupPage
      <4>2. e \in g0..g0 + Ppb \div Ppc - 1
        BY <1>1, <1>3, <2>3, <3>2, <3>3, <3>4
      <4>3. ~(FreeFrom(n, e) <= Ppc - 2)
        BY <2>2, <2>3, <3>2, <3>3, <4>1, <4>2
      <4>4. FreeFrom(n, e) = Ppc - 1 \/ FreeFrom(n, e) = Ppc
        BY <1>1, <4>3, FreeFromIs
      <4>5. n[e * Ppc + (Ppc - 1)] # Free \/ n[e * Ppc + (Ppc - 2)] # Free
        <5>1. n[e * Ppc + (FreeFrom(n, e) - 1)] # Free
          BY <1>1, <4>4, FreeFromIs
        <5>2. CASE FreeFrom(n, e) = Ppc
          BY <5>1, <5>2
        <5>3. CASE FreeFrom(n, e) = Ppc - 1
          <6>1. (Ppc - 1) - 1 = Ppc - 2
            BY <1>1
          <6> QED BY <5>1, <5>3, <6>1
        <5> QED BY <4>4, <5>2, <5>3
      <4>6. d - 1 = e * Ppc + (Ppc - 2)
        BY <1>1, <3>2
      <4> QED BY <3>2, <4>5, <4>6 DEF Open
    <3>5. CASE e < g0
      <4>1. FreeOn(n, d)
        BY DEF FlashOK, Filled
      <4>2. GroupFree(n, g0)
        <5> SUFFICES ASSUME NEW i \in 0..Ppc - 1 PROVE n[g0 * Ppc + i] = Free
          BY DEF GroupFree
        <5>1. g0 * Ppc + i \in Pages /\ Block(g0 * Ppc + i) = b
          BY PageOfGroup DEF g0
        <5>2. d <= g0 * Ppc + i
          <6>1. (e + 1) * Ppc <= g0 * Ppc
            BY <1>1, <1>3, <3>2, <3>5
          <6>2. (e + 1) * Ppc = e * Ppc + Ppc /\ e * Ppc \in Int /\ g0 * Ppc \in Int
            BY <1>1, <1>3, <3>2
          <6> QED BY <6>1, <6>2, <1>1, <3>2
        <5> QED BY <2>5, <4>1, <5>1, <5>2 DEF FreeOn
      <4>3. group = FirstOf(b)
        BY <4>2 DEF g0
      <4>4. FirstOf(b) <= d
        <5>1. Block(d) = b
          BY <2>5
        <5>2. Block(d) * Ppb <= d
          BY <3>1, BlockOf
        <5> QED BY <5>1, <5>2 DEF FirstOf
      <4>5. d < group
        <5>1. (e + 1) * Ppc <= g0 * Ppc
          BY <1>1, <1>3, <3>2, <3>5
        <5>2. (e + 1) * Ppc = e * Ppc + Ppc /\ e * Ppc \in Int /\ g0 * Ppc \in Int
          BY <1>1, <1>3, <3>2
        <5> QED BY <5>1, <5>2, <1>1, <1>3, <3>2
      <4> QED BY <4>3, <4>4, <4>5, <1>2, <3>1
    <3> QED BY <3>4, <3>5, <1>3, <3>2
  <2>10. f.head = h /\ f.tail = jj.tail /\ f \in Journal
    BY <2>1, <2>5 DEF Journal, h
  <2> QED BY <2>5, <2>8, <2>9, <2>10 DEF Ready, f
<1>5. CASE groups = {}
  <2> DEFINE k == RollStats([jj EXCEPT !.head = FirstOf(next)])
  <2>1. next \in 0..NumBlocks - 1 /\ NextBlock(next) \in 0..NumBlocks - 1
        /\ NextBlock(next) # next
    <3>1. ASSUME NEW x \in 0..NumBlocks - 1
          PROVE  NextBlock(x) \in 0..NumBlocks - 1 /\ NextBlock(x) # x
      <4>1. 1 \in 0..NumBlocks
        BY <1>1
      <4>2. CASE x + 1 < NumBlocks
        BY <4>1, <4>2, <1>1, Around DEF NextBlock
      <4>3. CASE x + 1 >= NumBlocks
        <5>1. (x + 1) % NumBlocks = x + 1 - NumBlocks
          BY ONLY <3>1, <4>1, <4>3, Around
        <5> QED BY <5>1, <4>3, <1>1, <3>1 DEF NextBlock
      <4> QED BY <4>2, <4>3, <1>1
    <3> QED BY <3>1, <1>2
  <2>2. /\ FirstOf(next) \in UserPages /\ Block(FirstOf(next)) = next
        /\ FirstOf(next) % Ppb = 0
        /\ FirstOf(NextBlock(next)) \in UserPages
        /\ Block(FirstOf(NextBlock(next))) = NextBlock(next)
    BY <2>1, FirstOfBlock, FirstOrder, <1>1
  <2>3. /\ k \in Journal /\ k.head = FirstOf(next) /\ k.tail = jj.tail
    BY <2>2, RollStatsType DEF Journal
  <2>4. f = [k EXCEPT !.tail = IF Block(@) = next THEN FirstOf(NextBlock(next)) ELSE @]
    BY <1>5 DEF FindHead
  <2> HIDE DEF k, f, next
  <2>5. f \in Journal /\ f.head = FirstOf(next)
        /\ f.tail = IF Block(jj.tail) = next THEN FirstOf(NextBlock(next)) ELSE jj.tail
    BY <2>2, <2>3, <2>4 DEF Journal
  <2>6. Block(f.tail) # Block(f.head)
    BY <2>1, <2>2, <2>5
  <2> QED BY <2>2, <2>5, <2>6 DEF Behind, f
<1> QED BY <1>4, <1>5

LEMMA EmptyJournalOK == JournalOK(EmptyJournal) /\ EmptyJournal.head % Ppb = 0
<1>1. 0 \in 0..NumBlocks - 1 /\ FirstOf(0) = 0
  BY Geometry DEF FirstOf
<1>2. 0 \in UserPages /\ 0 % Ppb = 0
  BY <1>1, FirstOfBlock, FirstOrder
<1>3. NoMetas \in Metas
  BY DEF NoMetas, NoMeta, Metas, Meta, Pointers
<1>4. NumBlocks \div 64 \in Int
  BY Geometry
<1>5. EmptyJournal \in Journal
  BY <1>2, <1>3, <1>4 DEF EmptyJournal, Journal
<1> QED BY <1>2, <1>5 DEF JournalOK, EmptyJournal, InOrder, Behind

\* Resume finds a journal that does not overlap itself, at whatever state of
\* the flash, and a head from which the block can be programmed.
LEMMA ResumeOK ==
    ASSUME NEW n, FlashOK(n)
    PROVE  /\ JournalOK(Resume(n))
           /\ Resume(n).head % Ppb # 0
                => Ready(n, Resume(n).head, Resume(n).head)
<1> DEFINE first == FindCheckblock(n, 0)
           epoch == n[FirstCheckpoint(first)].epoch
           last  == LastCheckblock(n, epoch, first)
           group == LastGroup(n, last)
           check == RootCheckpoint(n, group, epoch)
           found == [EmptyJournal EXCEPT
                       !.epoch = epoch, !.root = check - 1, !.tail = n[check].tail,
                       !.bbCurrent = n[check].bbCurrent, !.bbLast = n[check].bbLast,
                       !.count = n[check].count]
           f     == FindHead(n, found, group)
           r     == Resume(n)
<1>1. CASE first = None \/ check = None
  <2>1. r = EmptyJournal
    BY <1>1 DEF Resume, ResumeFrom, ResumeIn
  <2> QED BY <2>1, EmptyJournalOK
<1>2. CASE first # None /\ check # None
  <2>1. r = [f EXCEPT !.tailSync = f.tail]
    BY <1>2 DEF Resume, ResumeFrom, ResumeIn, Restored
  <2>2. first \in Blocks /\ n[FirstCheckpoint(first)].kind = "checkpoint"
    <3>1. 0 \in Nat
      OBVIOUS
    <3> QED BY <1>2, <3>1, FindCheckblockIs DEF Blocks
  <2>3. epoch \in Int
    <3>1. FirstCheckpoint(first) \in Pages
      BY <2>2, FirstCheckpointIs DEF Blocks, Checkpoints
    <3>2. n[FirstCheckpoint(first)] \in CheckpointData
      BY <2>2, <3>1, CheckpointPage DEF FlashOK
    <3> QED BY <3>2 DEF CheckpointData
  <2> HIDE DEF first, epoch
  <2>4. last \in Blocks
    BY <2>2, LastCheckblockType
  <2> HIDE DEF last
  <2>5. /\ group \in Pages /\ group % Ppc = 0
        /\ group = FirstOf(Block(group)) \/ ~GroupFree(n, Group(group))
    BY <2>4, LastGroupIs
  <2> HIDE DEF group
  <2>6. /\ check \in Checkpoints /\ Block(check) = Block(group)
        /\ n[check].kind = "checkpoint"
    BY <1>2, <2>5, RootCheckpointIs
  <2> HIDE DEF check
  <2>7. check \in Pages /\ n[check] \in CheckpointData /\ n[check] # Free
    BY <2>6, CheckpointPage DEF FlashOK, Checkpoints
  <2>8. check - 1 \in UserPages
    <3>1. /\ check \in Int /\ check % Ppc = Ppc - 1 /\ Ppc \in Nat \ {0, 1, 2}
          /\ NumPages \in Int /\ check >= 0 /\ check < NumPages
      BY <2>6, Geometry DEF Checkpoints, Pages
    <3>2. PICK g \in Int : check = g * Ppc + (Ppc - 1)
      BY <3>1, GroupOf
    <3>3. Ppc - 2 \in 0..Ppc - 1 /\ check - 1 = g * Ppc + (Ppc - 2)
      BY <3>1, <3>2
    <3>4. (check - 1) % Ppc = Ppc - 2
      BY <3>3, GroupPage
    <3>5. check # 0
      <4>1. 0 % Ppc = 0
        BY <3>1
      <4> QED BY <4>1, <3>1
    <3> QED BY <3>1, <3>4, <3>5 DEF UserPages, Pages
  <2>9. found \in Journal /\ found.tail = n[check].tail
    BY <2>3, <2>7, <2>8, EmptyJournalOK DEF Journal, CheckpointData, JournalOK
  <2> HIDE DEF found
  <2>10. /\ f \in Journal
         /\ \/ /\ Block(f.head) = Block(group) /\ f.tail = found.tail
               /\ Ready(n, f.head, f.head)
            \/ f.head % Ppb = 0 /\ Behind(f.tail, f.head)
    BY <2>5, <2>9, FindHeadIs
  <2> HIDE DEF f
  <2>11. /\ r \in Journal /\ r.head = f.head /\ r.tail = f.tail
         /\ r.tailSync = f.tail
    BY <2>1, <2>10 DEF Journal
  <2> HIDE DEF r
  <2>12. f.head \in UserPages /\ f.tail \in UserPages
    BY <2>10 DEF Journal
  <2>13. Behind(f.tail, f.head)
    <3>1. CASE f.head % Ppb = 0 /\ Behind(f.tail, f.head)
      BY <3>1
    <3>2. CASE /\ Block(f.head) = Block(group) /\ f.tail = found.tail
               /\ Ready(n, f.head, f.head)
      <4> SUFFICES ASSUME Block(f.tail) = Block(f.head) PROVE f.tail <= f.head
        BY DEF Behind
      <4>1. n[check].tail < check
        BY <2>6, <2>9, <3>2 DEF FlashOK, Described
      <4>2. ~(f.head <= check)
        BY <2>6, <2>7, <3>2 DEF Ready, FreeOn
      <4>3. f.tail \in Int /\ f.head \in Int /\ check \in Int
        BY <2>7, <2>12, UserPage, Geometry DEF Pages
      <4> QED BY <4>1, <4>2, <4>3, <2>9, <3>2
    <3> QED BY <2>10, <3>1, <3>2
  <2>14. InOrder(r.head, r.tailSync, r.tail)
    <3>1. f.tail \in Int /\ f.head \in Int
      BY <2>12, UserPage
    <3> QED BY <2>11, <2>13, <3>1 DEF InOrder, Within
  <2>15. r.head % Ppb # 0 => Ready(n, r.head, r.head)
    BY <2>10, <2>11
  <2> QED BY <2>11, <2>14, <2>15 DEF JournalOK, r
<1> QED BY <1>1, <1>2

-----------------------------------------------------------------------------
(* The operators on the journal and the tree.                              *)

LEMMA TracePathType ==
    ASSUME NEW n \in Flash, NEW jj \in Journal, NEW s
    PROVE  TracePath(n, jj, s).page \in Stops /\ TracePath(n, jj, s).alt \in Pointers
<1> DEFINE walk == Walk(n, jj, s)
           last == walk[Depth + 1]
           alt  == [d \in 1..Depth |->
                      LET p    == walk[d]
                          meta == ReadMeta(n, jj, p)
                      IN  IF p < 0 \/ meta.id < 0 THEN None
                          ELSE IF Turns(n, jj, s, p, d) THEN p ELSE meta.alt[d]]
<1>1. walk \in [1..Depth + 1 -> Stops] /\ Depth \in Nat \ {0}
  BY WalkIs, GeometryAssumption
<1>2. /\ TracePath(n, jj, s).page \in {last, Unreadable}
      /\ TracePath(n, jj, s).alt = alt
  BY DEF TracePath, Arrival, OtherHalf
<1> HIDE DEF walk
<1>3. last \in Stops
  BY <1>1
<1>4. ASSUME NEW d \in 1..Depth PROVE alt[d] \in UserPages \cup {None}
  <2>1. walk[d] \in Stops
    BY <1>1
  <2>2. CASE walk[d] \in {None, Unreadable}
    BY <2>2 DEF None, Unreadable
  <2>3. CASE walk[d] \in UserPages
    <3>1. ReadMeta(n, jj, walk[d]) \in ReadableMeta
      BY <2>3, ReadMetaType
    <3>2. ReadMeta(n, jj, walk[d]).alt[d] \in UserPages \cup {None}
      BY <3>1 DEF ReadableMeta, Pointers
    <3> QED BY <2>3, <3>2
  <2> QED BY <2>1, <2>2, <2>3 DEF Stops
<1>5. alt \in Pointers
  <2> HIDE DEF alt
  <2>1. DOMAIN alt = 1..Depth /\ alt = [d \in 1..Depth |-> alt[d]]
    BY DEF alt
  <2> QED BY <1>4, <2>1 DEF Pointers
<1> HIDE DEF alt
<1> QED BY <1>2, <1>3, <1>5 DEF Stops

LEMMA PeekType ==
    ASSUME NEW n, NEW jj, JournalOK(jj)
    PROVE  LET k == Peek(n, jj)
           IN  /\ JournalOK(k) /\ k.head = jj.head /\ k.tailSync = jj.tailSync
               /\ k.dirty = jj.dirty /\ k.metas = jj.metas /\ k.count = jj.count
               /\ k.root \in {jj.root, None}
               /\ k.epoch = jj.epoch /\ k.bbLast = jj.bbLast
               /\ k.bbCurrent = jj.bbCurrent
<1> DEFINE k == Peek(n, jj)
           b == TailBlock(n, jj)
           m == [jj EXCEPT !.tail = FirstOf(b),
                           !.root = IF FirstOf(b) = jj.head THEN None ELSE @]
<1>1. jj \in Journal /\ InOrder(jj.head, jj.tailSync, jj.tail)
  BY DEF JournalOK
<1>2. /\ DOMAIN m = JournalFields /\ m = [f \in DOMAIN m |-> m[f]]
      /\ m.head = jj.head /\ m.tail = FirstOf(b) /\ m.tailSync = jj.tailSync
      /\ m.root = (IF FirstOf(b) = jj.head THEN None ELSE jj.root)
      /\ m.dirty = jj.dirty /\ m.epoch = jj.epoch /\ m.bbLast = jj.bbLast
      /\ m.bbCurrent = jj.bbCurrent /\ m.metas = jj.metas /\ m.count = jj.count
  BY <1>1 DEF Journal, JournalFields
<1>3. k = jj \/ k = m
  BY DEF Peek
<1>4. /\ jj.head \in UserPages /\ jj.tail \in UserPages /\ jj.tailSync \in UserPages
      /\ jj.root \in UserPages \cup {None} /\ jj.dirty \in BOOLEAN
      /\ jj.epoch \in Int /\ jj.bbLast \in Int /\ jj.bbCurrent \in Int
      /\ jj.metas \in Metas /\ jj.count \in Int
  BY <1>1 DEF Journal
<1>5. InOrder(jj.head, jj.tail, jj.tail)
  BY <1>1, <1>4, TailBehind, UserPage
<1>6. k.tail \in UserPages /\ (k.tail = jj.head \/ Within(jj.tail, jj.head, k.tail))
  BY <1>1, <1>5, PeekOrder
<1>7. InOrder(jj.head, jj.tailSync, k.tail)
  BY <1>1, <1>4, <1>6, FurtherOn, UserPage
<1> HIDE DEF k, m
<1>8. k \in Journal
  <2>1. CASE k = m
    BY <1>2, <1>4, <1>6, <2>1, IsJournal
  <2> QED BY <1>1, <1>3, <2>1
<1> QED BY <1>2, <1>3, <1>7, <1>8 DEF JournalOK, k

LEMMA DequeueType ==
    ASSUME NEW jj, JournalOK(jj)
    PROVE  LET k == Dequeue(jj)
           IN  /\ JournalOK(k) /\ k.head = jj.head
               /\ k.dirty = jj.dirty /\ k.metas = jj.metas /\ k.count = jj.count
               /\ k.root \in {jj.root, None}
               /\ k.epoch = jj.epoch /\ k.bbLast = jj.bbLast
               /\ k.bbCurrent = jj.bbCurrent
<1> DEFINE k == Dequeue(jj)
           t == NextUpage(jj.tail)
           size == Wrapped(jj.head + NumPages - t)
           m == [jj EXCEPT !.tail = t,
                           !.tailSync = IF jj.dirty THEN @ ELSE t,
                           !.root = IF Wrapped(jj.head + NumPages - @) > size
                                    THEN None ELSE @]
<1>1. jj \in Journal /\ InOrder(jj.head, jj.tailSync, jj.tail)
  BY DEF JournalOK
<1>2. /\ DOMAIN m = JournalFields /\ m = [f \in DOMAIN m |-> m[f]]
      /\ m.head = jj.head /\ m.tail = t
      /\ m.tailSync = (IF jj.dirty THEN jj.tailSync ELSE t)
      /\ m.root \in {jj.root, None}
      /\ m.dirty = jj.dirty /\ m.epoch = jj.epoch /\ m.bbLast = jj.bbLast
      /\ m.bbCurrent = jj.bbCurrent /\ m.metas = jj.metas /\ m.count = jj.count
  <2> HIDE DEF size, t
  <2> QED BY <1>1 DEF Journal, JournalFields
<1>3. CASE jj.head = jj.tail
  BY <1>3 DEF Dequeue
<1>4. CASE jj.head # jj.tail
  <2>1. k = m
    BY <1>4 DEF Dequeue
  <2>2. /\ jj.head \in UserPages /\ jj.tail \in UserPages /\ jj.tailSync \in UserPages
        /\ jj.root \in UserPages \cup {None} /\ jj.dirty \in BOOLEAN
        /\ jj.epoch \in Int /\ jj.bbLast \in Int /\ jj.bbCurrent \in Int
        /\ jj.metas \in Metas /\ jj.count \in Int
    BY <1>1 DEF Journal
  <2>3. t \in UserPages /\ (t = jj.head \/ Within(jj.tail, jj.head, t))
    BY <1>4, <2>2, NextUserPage, DequeueOrder
  <2> HIDE DEF k, m, t
  <2>4. InOrder(jj.head, jj.tailSync, t)
    BY <1>1, <2>2, <2>3, FurtherOn, UserPage
  <2>5. InOrder(jj.head, t, t)
    BY <2>2, <2>3, <2>4, TailBehind, UserPage
  <2>6. k \in Journal
    BY <1>2, <2>1, <2>2, <2>3, IsJournal
  <2> QED BY <1>2, <2>1, <2>4, <2>5, <2>6 DEF JournalOK, k
<1> QED BY <1>3, <1>4

LEMMA ClearType ==
    ASSUME NEW jj, JournalOK(jj)
    PROVE  LET k == Clear(jj)
           IN  /\ JournalOK(k) /\ k.head = jj.head /\ k.tail = jj.head
               /\ k.tailSync = jj.tailSync /\ k.root = None /\ k.dirty = TRUE
               /\ k.metas = NoMetas /\ k.count = 0
               /\ k.epoch = jj.epoch /\ k.bbLast = jj.bbLast
               /\ k.bbCurrent = jj.bbCurrent
<1> DEFINE m == [jj EXCEPT !.tail = jj.head, !.root = None, !.dirty = TRUE,
                           !.metas = NoMetas, !.count = 0]
<1>1. jj \in Journal /\ InOrder(jj.head, jj.tailSync, jj.tail)
  BY DEF JournalOK
<1>2. /\ DOMAIN m = JournalFields /\ m = [f \in DOMAIN m |-> m[f]]
      /\ m.head = jj.head /\ m.tail = jj.head /\ m.tailSync = jj.tailSync
      /\ m.root = None /\ m.dirty = TRUE /\ m.epoch = jj.epoch
      /\ m.bbLast = jj.bbLast /\ m.bbCurrent = jj.bbCurrent
      /\ m.metas = NoMetas /\ m.count = 0
  BY <1>1 DEF Journal, JournalFields
<1>3. /\ jj.head \in UserPages /\ jj.tailSync \in UserPages
      /\ jj.epoch \in Int /\ jj.bbLast \in Int /\ jj.bbCurrent \in Int
      /\ NoMetas \in Metas
  BY <1>1, EmptyJournalOK DEF Journal, JournalOK, EmptyJournal
<1>4. Clear(jj) = m
  BY DEF Clear
<1>7. m.dirty \in BOOLEAN /\ m.count \in Int /\ m.root \in UserPages \cup {None}
  BY <1>2
<1> HIDE DEF m
<1>5. m \in Journal
  BY <1>2, <1>3, <1>7, IsJournal
<1>6. InOrder(m.head, m.tailSync, m.tail)
  BY <1>1, <1>2 DEF InOrder
<1> QED BY <1>2, <1>4, <1>5, <1>6 DEF JournalOK

LEMMA LiveSector ==
    ASSUME NEW n, NEW jj, NEW p, Verdict(n, jj, p) = "live",
           ReadMeta(n, jj, p) \in ReadableMeta
    PROVE  /\ ReadMeta(n, jj, p).id \in Sectors
           /\ TracePath(n, jj, ReadMeta(n, jj, p).id).page = p
BY DEF Verdict, ReadableMeta

LEMMA DeletionType ==
    ASSUME NEW n \in Flash, NEW jj \in Journal, NEW s,
           Cousins(TracePath(n, jj, s)) # {}
    PROVE  LET del == Deletion(n, jj, TracePath(n, jj, s))
           IN  /\ del.page \in UserPages
               /\ del.meta.id # Unreadable => del.meta \in Meta
<1> DEFINE path == TracePath(n, jj, s)
           level == CHOOSE d \in Cousins(path) : \A e \in Cousins(path) : e <= d
           cousin == path.alt[level]
           meta == ReadMeta(n, jj, cousin)
           alt == [d \in 1..Depth |-> IF d < level THEN path.alt[d]
                                      ELSE IF d = level THEN None ELSE meta.alt[d]]
           del == Deletion(n, jj, path)
<1>1. path.alt \in Pointers
  BY TracePathType
<1>2. level \in Cousins(path)
  <2>1. Cousins(path) \subseteq 1..Depth /\ Depth \in Int /\ 1 \in Nat
    BY GeometryAssumption DEF Cousins
  <2> QED BY <2>1, Largest
<1>3. del.page = cousin /\ del.meta = [id |-> meta.id, alt |-> alt]
  BY DEF Deletion
<1> HIDE DEF path, level
<1>4. cousin \in UserPages
  BY <1>1, <1>2 DEF Cousins, Pointers
<1>5. meta \in ReadableMeta
  BY <1>4, ReadMetaType
<1> HIDE DEF cousin, meta
<1>6. alt \in Pointers
  BY <1>1, <1>5 DEF Pointers, ReadableMeta
<1>7. meta.id # Unreadable => meta.id \in Sectors \cup {None}
  BY <1>5 DEF ReadableMeta
<1> HIDE DEF alt, del
<1>8. del.meta.id = meta.id
  BY <1>3
<1> QED BY <1>3, <1>4, <1>6, <1>7, <1>8 DEF Meta, del, path

LEMMA SkipBadType ==
    ASSUME NEW jj, JournalOK(jj), jj.head % Ppb = 0
    PROVE  LET k == SkipBad(jj).j
           IN  /\ JournalOK(k) /\ k.head % Ppb = 0
               /\ k.tail = jj.tail /\ k.tailSync = jj.tailSync
               /\ k.root = jj.root /\ k.dirty = jj.dirty /\ k.metas = jj.metas
               /\ k.count = jj.count
<1> DEFINE b       == Block(jj.head)
           good(i) == ~IsBad(nand, (b + i) % NumBlocks)
           stop(i) == (b + i + 1) % NumBlocks = Block(jj.tailSync)
           ends    == {i \in 0..MaxRetries - 1 : good(i) \/ stop(i)}
           i       == IF ends = {} THEN MaxRetries
                      ELSE CHOOSE k \in ends : \A m \in ends : k <= m
           f       == FirstOf((b + i) % NumBlocks)
           skipped == [jj EXCEPT !.bbCurrent = @ + i, !.head = f]
           wrapped == [skipped EXCEPT !.bbLast = jj.bbCurrent + NumBlocks - b,
                                      !.bbCurrent = b + i - NumBlocks,
                                      !.epoch = @ + 1]
           turned  == IF b + i >= NumBlocks THEN wrapped ELSE skipped
           passed  == [turned EXCEPT !.bbCurrent = @ + 1]
           Keeps(r) == /\ DOMAIN r = JournalFields /\ r = [x \in DOMAIN r |-> r[x]]
                       /\ r.head = f
                       /\ r.tail = jj.tail /\ r.tailSync = jj.tailSync
                       /\ r.root = jj.root /\ r.dirty = jj.dirty
                       /\ r.metas = jj.metas /\ r.count = jj.count
                       /\ r.epoch \in Int /\ r.bbLast \in Int /\ r.bbCurrent \in Int
           k == SkipBad(jj).j
<1>1. jj \in Journal /\ InOrder(jj.head, jj.tailSync, jj.tail)
  BY DEF JournalOK
<1>2. MaxRetries \in Nat \ {0} /\ NumBlocks \in Nat \ {0, 1}
  BY GeometryAssumption
<1>3. i \in Nat /\ \A m \in 0..i - 1 : m \in 0..MaxRetries - 1 /\ m \notin ends
  <2>1. CASE ends = {}
    BY <1>2, <2>1
  <2>2. CASE ends # {}
    <3>1. ends \subseteq Nat
      BY <1>2
    <3>2. i \in ends /\ \A m \in ends : i <= m
      <4> HIDE DEF ends
      <4> QED BY <2>2, <3>1, LeastNatural
    <3> QED BY <1>2, <3>2
  <2> QED BY <2>1, <2>2
<1>4. \A m \in 0..i - 1 : (b + m + 1) % NumBlocks # Block(jj.tailSync)
  BY <1>3
<1>5. k = turned \/ k = passed
  BY DEF SkipBad
<1> HIDE DEF i, ends
<1>6. /\ jj.head \in UserPages /\ jj.tail \in UserPages /\ jj.tailSync \in UserPages
      /\ jj.root \in UserPages \cup {None} /\ jj.dirty \in BOOLEAN
      /\ jj.epoch \in Int /\ jj.bbLast \in Int /\ jj.bbCurrent \in Int
      /\ jj.metas \in Metas /\ jj.count \in Int
  BY <1>1 DEF Journal
<1>7. (b + i) % NumBlocks \in 0..NumBlocks - 1 /\ InOrder(f, jj.tailSync, jj.tail)
  BY <1>1, <1>3, <1>4, <1>6, UserPage, SkipOrder
<1>8. f \in UserPages /\ f % Ppb = 0
  BY <1>7, FirstOrder, FirstOfBlock, <1>2
<1>9. b \in Int
  BY <1>6, UserPage, BlockOf
<1> HIDE DEF b, f
<1> DEFINE c == jj.bbCurrent + i
           l == jj.bbCurrent + NumBlocks - b
           d == b + i - NumBlocks
<1>10. c \in Int /\ l \in Int /\ d \in Int
  BY <1>2, <1>3, <1>6, <1>9
<1>11. skipped = [jj EXCEPT !.bbCurrent = c, !.head = f]
  OBVIOUS
<1>16. wrapped = [skipped EXCEPT !.bbLast = l, !.bbCurrent = d, !.epoch = @ + 1]
  OBVIOUS
<1> HIDE DEF c, l, d, skipped, wrapped
<1>17. Keeps(skipped)
  <2>1. /\ DOMAIN skipped = JournalFields
        /\ skipped = [x \in DOMAIN skipped |-> skipped[x]]
    BY <1>1, <1>11 DEF Journal, JournalFields
  <2>2. /\ skipped.head = f /\ skipped.bbCurrent = c
        /\ skipped.tail = jj.tail /\ skipped.tailSync = jj.tailSync
        /\ skipped.root = jj.root /\ skipped.dirty = jj.dirty
        /\ skipped.metas = jj.metas /\ skipped.count = jj.count
        /\ skipped.epoch = jj.epoch /\ skipped.bbLast = jj.bbLast
    BY <1>1, <1>11 DEF Journal
  <2> QED BY <1>6, <1>10, <2>1, <2>2
<1>18. Keeps(wrapped)
  <2>1. DOMAIN skipped = JournalFields /\ skipped.epoch \in Int
    BY <1>17
  <2>2. /\ DOMAIN wrapped = JournalFields
        /\ wrapped = [x \in DOMAIN wrapped |-> wrapped[x]]
    BY <2>1, <1>16
  <2>3. /\ wrapped.head = skipped.head /\ wrapped.bbCurrent = d
        /\ wrapped.tail = skipped.tail /\ wrapped.tailSync = skipped.tailSync
        /\ wrapped.root = skipped.root /\ wrapped.dirty = skipped.dirty
        /\ wrapped.metas = skipped.metas /\ wrapped.count = skipped.count
        /\ wrapped.epoch = skipped.epoch + 1 /\ wrapped.bbLast = l
    BY <2>1, <1>16 DEF JournalFields
  <2> QED BY <1>10, <1>17, <2>1, <2>2, <2>3
<1> HIDE DEF skipped, wrapped
<1>12. Keeps(turned)
  BY <1>17, <1>18
<1> HIDE DEF turned
<1>13. Keeps(passed)
  BY <1>12 DEF JournalFields
<1> HIDE DEF passed, k
<1>14. Keeps(k)
  BY <1>5, <1>12, <1>13
<1>15. k \in Journal
  BY <1>6, <1>8, <1>14, IsJournal
<1> QED BY <1>7, <1>8, <1>14, <1>15 DEF JournalOK, k

-----------------------------------------------------------------------------
(* What the map's steps keep, whatever is written and whenever the reset   *)
(* comes: the inductive invariant.                                         *)

Sources == {Blankness} \cup [kind : {"copy"}, page : UserPages]
           \cup [kind : {"user"}, data : Data \cup {Blank}]
Thens == {Idle, SyncLoop} \cup [at : {"gc"}, left : Int]
Appends ==
    [at : {"head", "erase", "program", "check"}, source : Sources, meta : Meta,
     count : Int, then : Thens, moved : BOOLEAN, old : Int,
     oldHead : UserPages \cup {None}]
Places == Thens \cup {Serve} \cup Appends

TypeInv ==
    /\ proc \in [Workers -> Places]
    /\ request \in [Workers -> Requests \cup {NoRequest}]
    /\ reply \in [Workers -> Replies \cup {NoReply}]

(* Only a call in progress has a place, and it is the only one.            *)
CallInv ==
    /\ \A w \in Workers : proc[w] # Idle => /\ request[w] \in Requests
                                            /\ reply[w] = NoReply
    /\ \A w \in Workers : request[w] = NoRequest => reply[w] = NoReply
    /\ \A v, w \in Workers : proc[v] # Idle /\ proc[w] # Idle => v = w

(* What stands at the head while a worker is at place k.                   *)
Room(jj) == \/ Block(NextUpage(jj.head)) = Block(jj.head)
            \/ Block(NextUpage(jj.head)) # Block(jj.tailSync)

Settled(n, jj) == jj.head % Ppb # 0 => Ready(n, jj.head, jj.head)

Fits(n, jj, k) ==
    CASE k.at = "erase"   -> jj.head % Ppb = 0
      [] k.at = "program" -> Ready(n, jj.head, jj.head) /\ Room(jj)
      [] k.at = "check"   -> /\ (jj.head + 2) % Ppc = 0 /\ k.oldHead = jj.head
                             /\ Ready(n, jj.head, jj.head + 1) /\ Room(jj)
      [] OTHER            -> Settled(n, jj)

LogInv ==
    /\ FlashOK(nand) /\ JournalOK(j)
    /\ \A w \in Workers : proc[w] # Idle => Fits(nand, j, proc[w])
    /\ Quiet => Settled(nand, j)

Inv == TypeInv /\ CallInv /\ LogInv

(* Worker w goes to place k, with an answer if its call is over.           *)
StepsTo(w, k) ==
    /\ k \in Places /\ Goto(w, k) /\ UNCHANGED request
    /\ IF k = Idle THEN \E r \in Replies : reply' = [reply EXCEPT ![w] = r]
       ELSE UNCHANGED reply
    /\ FlashOK(nand') /\ JournalOK(j') /\ Fits(nand', j', k)

LEMMA IdleFits == \A n, jj : Fits(n, jj, Idle) <=> Settled(n, jj)
BY DEF Fits, Idle

\* A step of a worker that leaves things as its next place wants them keeps
\* the invariant.
LEMMA WorkStep ==
    ASSUME Inv, NEW w \in Workers, proc[w] # Idle, NEW k, StepsTo(w, k)
    PROVE  Inv'
<1>1. /\ proc' = [proc EXCEPT ![w] = k] /\ proc \in [Workers -> Places]
      /\ k \in Places /\ request' = request
      /\ reply \in [Workers -> Replies \cup {NoReply}]
  BY DEF StepsTo, Goto, Inv, TypeInv
<1>2. /\ reply' \in [Workers -> Replies \cup {NoReply}]
      /\ \A v \in Workers : v # w => reply'[v] = reply[v]
      /\ k # Idle => reply' = reply
  BY <1>1 DEF StepsTo
<1>3. \A v \in Workers : v # w => proc[v] = Idle /\ proc'[v] = Idle
  BY <1>1 DEF Inv, CallInv
<1>4. proc'[w] = k
  BY <1>1
<1>5. TypeInv'
  BY <1>1, <1>2 DEF TypeInv, Inv
<1>6. request[w] \in Requests /\ request[w] # NoRequest
  BY ClientAssumption DEF Inv, CallInv
<1>7. CallInv'
  BY <1>1, <1>2, <1>3, <1>4, <1>6 DEF CallInv, Inv
<1>8. LogInv'
  <2>1. FlashOK(nand') /\ JournalOK(j') /\ Fits(nand', j', k)
    BY DEF StepsTo
  <2>2. \A v \in Workers : proc'[v] # Idle => Fits(nand', j', proc'[v])
    BY <1>3, <1>4, <2>1
  <2>3. (\A v \in Workers : proc'[v] = Idle) => Settled(nand', j')
    BY <1>4, <2>1, IdleFits
  <2> QED BY <2>1, <2>2, <2>3 DEF LogInv, Quiet
<1> QED BY <1>5, <1>7, <1>8 DEF Inv

-----------------------------------------------------------------------------
(* Programming and erasing keep the flash in order.                        *)

\* The page before a checkpoint is a user page of its group.
LEMMA PageBefore ==
    ASSUME NEW c \in Checkpoints
    PROVE  /\ c \in Pages /\ c \in Int /\ c - 1 \in UserPages /\ c - 1 \in Pages
           /\ Block(c - 1) = Block(c) /\ Group(c - 1) = Group(c)
<1>1. c \in Pages /\ c % Ppc = Ppc - 1 /\ Ppc \in Nat \ {0, 1, 2}
  BY GeometryAssumption DEF Checkpoints
<1>2. c \in Nat /\ c < NumPages /\ NumPages \in Nat
  BY <1>1, Geometry DEF Pages
<1> DEFINE q == c \div Ppc
           r == Ppc - 2
           e == c - 1
<1>3. c = (Ppc * q) + (Ppc - 1) /\ q \in Int
  BY <1>1, <1>2, DivMod
<1>4. e = (Ppc * q) + r /\ r \in 0..Ppc - 1 /\ e \in Int
  BY <1>1, <1>2, <1>3
<1>5. c \div Ppc = q
  OBVIOUS
<1> HIDE DEF q, r, e
<1>6. e \div Ppc = q /\ e % Ppc = r
  BY <1>1, <1>3, <1>4, Remainder
<1>7. Group(e) = Group(c) /\ e % Ppc # Ppc - 1
  BY <1>1, <1>5, <1>6 DEF Group, r
<1>8. e \in Pages
  <2>1. c # 0
    <3> SUFFICES ASSUME c = 0 PROVE FALSE
      OBVIOUS
    <3> DEFINE z == 0
    <3>1. z \in Int /\ z = (Ppc * z) + z /\ z \in 0..Ppc - 1
      BY <1>1
    <3> HIDE DEF z
    <3>2. z % Ppc = z
      BY <1>1, <3>1, Remainder
    <3> QED BY <1>1, <3>2 DEF z
  <2> QED BY <1>2, <2>1 DEF Pages, e
<1>9. Block(e) = Block(c)
  BY <1>2, <1>4, <1>7, GroupInBlock
<1> QED BY <1>1, <1>2, <1>7, <1>8, <1>9 DEF UserPages, e

LEMMA Appended ==
    ASSUME NEW n, FlashOK(n), NEW h \in Pages, NEW p \in Pages,
           Block(h) = Block(p), h <= p, FreeOn(n, p), Closed(n, h),
           \A c \in Checkpoints : c < p => c < h,
           NEW content \in {Torn} \cup UserData \cup CheckpointData,
           /\ p \in Checkpoints /\ content.kind = "checkpoint"
           /\ Block(content.tail) = Block(p)
           => content.tail < p
    PROVE  LET m == [n EXCEPT ![p] = content]
           IN  /\ FlashOK(m) /\ Closed(m, p)
               /\ Block(p + 1) = Block(p) => FreeOn(m, p + 1)
<1> DEFINE m == [n EXCEPT ![p] = content]
<1>1. n \in Flash /\ Described(n) /\ Filled(n)
  BY DEF FlashOK
<1>2. content # Free
  BY FreeHasNoFields DEF UserData, CheckpointData
<1>3. m \in Flash /\ m[p] = content /\ \A q \in Pages : q # p => m[q] = n[q]
  BY <1>1 DEF Flash
<1>4. p \in Int /\ h \in Int /\ \A q \in Pages : q \in Int
  BY DEF Pages
<1> HIDE DEF m
<1>5. ASSUME NEW c \in Checkpoints, Open(m, c) PROVE Open(n, c) /\ c # p
  <2>1. c \in Pages /\ c - 1 \in Pages
    BY PageBefore
  <2> QED BY <1>2, <1>3, <1>5, <2>1 DEF Open
<1>6. Filled(m)
  <2> SUFFICES ASSUME NEW c \in Checkpoints, Open(m, c),
                      NEW q \in Pages, Block(q) = Block(c), c <= q
               PROVE  m[q] = Free
    BY DEF Filled, FreeOn
  <2>1. Open(n, c) /\ c # p
    BY <1>5
  <2>2. n[q] = Free
    BY <1>1, <2>1 DEF Filled, FreeOn
  <2>3. q # p
    <3> SUFFICES ASSUME q = p PROVE FALSE
      OBVIOUS
    <3>1. c < p /\ Block(c) = Block(h)
      BY <1>4, <2>1 DEF Checkpoints
    <3> QED BY <2>1, <3>1 DEF Closed
  <2> QED BY <1>3, <2>2, <2>3
<1>7. Described(m)
  <2> SUFFICES ASSUME NEW c \in Checkpoints, m[c].kind = "checkpoint",
                      Block(m[c].tail) = Block(c)
               PROVE  m[c].tail < c
    BY DEF Described
  <2>1. c \in Pages
    BY DEF Checkpoints
  <2>2. CASE c = p
    BY <1>3, <2>2
  <2>3. CASE c # p
    BY <1>1, <1>3, <2>1, <2>3 DEF Described
  <2> QED BY <2>2, <2>3
<1>8. Closed(m, p)
  <2> SUFFICES ASSUME NEW c \in Checkpoints, Block(c) = Block(p), c < p, Open(m, c)
               PROVE  FALSE
    BY DEF Closed
  <2> QED BY <1>5 DEF Closed
<1>9. Block(p + 1) = Block(p) => FreeOn(m, p + 1)
  <2> SUFFICES ASSUME Block(p + 1) = Block(p), NEW q \in Pages,
                      Block(q) = Block(p), p + 1 <= q
               PROVE  m[q] = Free
    BY DEF FreeOn
  <2>1. p <= q /\ p # q
    BY <1>4
  <2> QED BY <1>3, <2>1 DEF FreeOn
<1> QED BY <1>3, <1>6, <1>7, <1>8, <1>9 DEF FlashOK, m

\* Data at the head.
LEMMA DataAppended ==
    ASSUME NEW n, FlashOK(n), NEW h \in UserPages, Ready(n, h, h),
           NEW content \in {Torn} \cup UserData \cup CheckpointData
    PROVE  LET m == [n EXCEPT ![h] = content]
           IN  /\ FlashOK(m) /\ Ready(m, h, h + 1)
               /\ (h + 2) % Ppc # 0 => Ready(m, h + 1, h + 1)
<1> DEFINE m == [n EXCEPT ![h] = content]
<1>1. h \in Pages /\ h \in Int /\ h \notin Checkpoints
  BY UserPage DEF UserPages, Checkpoints
<1>2. Block(h + 1) = Block(h)
  BY NextUserPage
<1>3. FreeOn(n, h) /\ Closed(n, h)
  BY DEF Ready
<1>4. FlashOK(m) /\ Closed(m, h) /\ FreeOn(m, h + 1)
  <2> HIDE DEF m
  <2>1. h <= h /\ \A c \in Checkpoints : c < h => c < h
    BY <1>1
  <2> QED BY <1>1, <1>2, <1>3, <2>1, Appended DEF m
<1>5. (h + 2) % Ppc # 0 => h + 1 \in UserPages
  BY NextUserPage
<1> HIDE DEF m
<1>6. h + 1 \in UserPages => Closed(m, h + 1)
  <2> SUFFICES ASSUME h + 1 \in UserPages, NEW c \in Checkpoints,
                      Block(c) = Block(h), c < h + 1
               PROVE  ~Open(m, c)
    BY <1>2 DEF Closed
  <2>1. c \in Int /\ c # h
    BY <1>1 DEF Checkpoints, Pages
  <2> QED BY <1>1, <1>4, <2>1 DEF Closed
<1> QED BY <1>4, <1>5, <1>6 DEF Ready, m

\* The checkpoint behind the last page of a group.
LEMMA CheckpointAppended ==
    ASSUME NEW n, FlashOK(n), NEW h \in UserPages, (h + 2) % Ppc = 0,
           Ready(n, h, h + 1),
           NEW content \in {Torn} \cup UserData \cup CheckpointData,
           /\ content.kind = "checkpoint" /\ Block(content.tail) = Block(h)
           => content.tail <= h,
           content.kind = "checkpoint" => content.tail \in UserPages
    PROVE  LET m == [n EXCEPT ![h + 1] = content]
               k == NextUpage(h)
           IN  FlashOK(m) /\ (k % Ppb # 0 => Ready(m, k, k))
<1> DEFINE m == [n EXCEPT ![h + 1] = content]
           p == h + 1
           k == NextUpage(h)
<1>1. h \in Pages /\ h \in Int /\ h \notin Checkpoints
  BY UserPage DEF UserPages, Checkpoints
<1>2. p \in Checkpoints /\ p \in Pages /\ Block(p) = Block(h) /\ h <= p /\ p \in Int
  BY <1>1, NextUserPage DEF Checkpoints, Pages
<1>3. \A c \in Checkpoints : c < p => c < h
  BY <1>1 DEF Checkpoints, Pages
<1>4. FreeOn(n, p) /\ Closed(n, h)
  BY DEF Ready
<1>5. /\ p \in Checkpoints /\ content.kind = "checkpoint"
      /\ Block(content.tail) = Block(p)
      => content.tail < p
  <2> SUFFICES ASSUME content.kind = "checkpoint", Block(content.tail) = Block(p)
               PROVE  content.tail < p
    OBVIOUS
  <2> DEFINE u == content.tail
  <2>1. u \in UserPages /\ u <= h
    BY <1>2
  <2> HIDE DEF u
  <2>2. u \in Int
    BY <2>1, UserPage
  <2>3. u < h + 1
    BY <1>1, <2>1, <2>2
  <2> QED BY <2>3 DEF u
<1>6. /\ FlashOK(m) /\ Closed(m, p)
      /\ Block(p + 1) = Block(p) => FreeOn(m, p + 1)
  <2> HIDE DEF m, p
  <2>1. FlashOK([n EXCEPT ![p] = content]) /\ Closed([n EXCEPT ![p] = content], p)
        /\ (Block(p + 1) = Block(p) => FreeOn([n EXCEPT ![p] = content], p + 1))
    BY ONLY FlashOK(n), <1>1, <1>2, <1>3, <1>4, <1>5, Appended,
            content \in {Torn} \cup UserData \cup CheckpointData
  <2> QED BY <2>1 DEF m, p
<1>7. m[p] = content /\ content # Free
  BY <1>2, FreeHasNoFields DEF FlashOK, Flash, UserData, CheckpointData
<1>8. k % Ppb # 0 => k = p + 1 /\ Block(k) = Block(p)
  <2>1. 0 % Ppb = 0
    BY Geometry, Remainder
  <2>2. k % Ppb # 0 => k = h + 2 /\ Block(k) = Block(h)
    BY <2>1, NextUserPage
  <2> QED BY <1>1, <1>2, <2>2
<1> HIDE DEF m, k
<1>9. ASSUME k % Ppb # 0 PROVE Closed(m, k)
  <2> SUFFICES ASSUME NEW c \in Checkpoints, Block(c) = Block(k), c < k
               PROVE  ~Open(m, c)
    BY DEF Closed
  <2>1. Block(c) = Block(p) /\ c <= p /\ c \in Int
    BY <1>8, <1>9, <1>2 DEF Checkpoints, Pages
  <2>2. CASE c = p
    BY <1>7, <2>2 DEF Open
  <2>3. CASE c < p
    BY <1>6, <2>1, <2>3 DEF Closed
  <2> QED BY <1>2, <2>1, <2>2, <2>3
<1> QED BY <1>6, <1>8, <1>9 DEF Ready, m, k

\* A block all of whose pages are the same, free or unreadable.
LEMMA BlockErased ==
    ASSUME NEW n, FlashOK(n), NEW b, NEW content \in {Free, Torn}
    PROVE  LET m == [p \in Pages |-> IF Block(p) = b THEN content ELSE n[p]]
           IN  FlashOK(m)
<1> DEFINE m == [p \in Pages |-> IF Block(p) = b THEN content ELSE n[p]]
<1>1. n \in Flash /\ Described(n) /\ Filled(n)
  BY DEF FlashOK
<1>2. m \in Flash
  BY <1>1 DEF Flash
<1>3. \A p \in Pages : m[p] = IF Block(p) = b THEN content ELSE n[p]
  OBVIOUS
<1> HIDE DEF m
<1>4. Described(m)
  <2> SUFFICES ASSUME NEW c \in Checkpoints, m[c].kind = "checkpoint",
                      Block(m[c].tail) = Block(c)
               PROVE  m[c].tail < c
    BY DEF Described
  <2>1. c \in Pages
    BY DEF Checkpoints
  <2>2. Block(c) # b
    BY <1>3, <2>1, FreeHasNoFields
  <2> QED BY <1>1, <1>3, <2>1, <2>2 DEF Described
<1>5. Filled(m)
  <2> SUFFICES ASSUME NEW c \in Checkpoints, Open(m, c),
                      NEW q \in Pages, Block(q) = Block(c), c <= q
               PROVE  m[q] = Free
    BY DEF Filled, FreeOn
  <2>1. c \in Pages /\ c - 1 \in Pages /\ Block(c - 1) = Block(c)
    BY PageBefore
  <2>2. CASE Block(c) = b
    BY <1>3, <2>1, <2>2 DEF Open
  <2>3. CASE Block(c) # b
    <3>1. Open(n, c)
      BY <1>3, <2>1, <2>3 DEF Open
    <3> QED BY <1>1, <1>3, <2>3, <3>1 DEF Filled, FreeOn
  <2> QED BY <2>2, <2>3
<1> QED BY <1>2, <1>4, <1>5 DEF FlashOK, m

-----------------------------------------------------------------------------
(* The steps of the map.                                                   *)

LEMMA MetaForType ==
    ASSUME NEW n \in Flash, NEW jj \in Journal, NEW s \in Sectors
    PROVE  MetaFor(s, TracePath(n, jj, s)) \in Meta
BY TracePathType DEF MetaFor, Meta

LEMMA EnqueueType ==
    ASSUME NEW source \in Sources, NEW meta \in Meta, NEW count \in Int,
           NEW then \in Thens, NEW moved \in BOOLEAN, NEW old \in Int
    PROVE  /\ Enqueue(source, meta, count, then, moved, old) \in Places
           /\ Enqueue(source, meta, count, then, moved, old) # Idle
           /\ Enqueue(source, meta, count, then, moved, old).at = "head"
<1> DEFINE e == Enqueue(source, meta, count, then, moved, old)
<1>1. e \in Appends /\ e.at = "head"
  BY DEF Enqueue, Appends
<1> HIDE DEF e
<1>2. e # Idle /\ e \in Places
  BY <1>1 DEF Idle, Places
<1> QED BY <1>1, <1>2 DEF e

\* A place where nothing is half appended wants a settled head.
LEMMA OtherFits ==
    ASSUME NEW n, NEW jj, NEW k, k.at \in {"idle", "gc", "serve", "sync", "head"}
    PROVE  Fits(n, jj, k) <=> Settled(n, jj)
BY DEF Fits

LEMMA SettledKept ==
    ASSUME NEW n, NEW jj, NEW k, Settled(n, jj), k.head = jj.head
    PROVE  Settled(n, k)
BY DEF Settled

\* A worker's step that leaves the flash and the head alone.
LEMMA QuietStep ==
    ASSUME Inv, NEW w \in Workers, Settled(nand, j), nand' = nand,
           JournalOK(j'), j'.head = j.head, UNCHANGED request,
           NEW k \in Places, k.at \in {"idle", "gc", "serve", "sync", "head"},
           Goto(w, k),
           IF k = Idle THEN \E r \in Replies : reply' = [reply EXCEPT ![w] = r]
           ELSE UNCHANGED reply
    PROVE  StepsTo(w, k)
<1>1. FlashOK(nand')
  BY DEF Inv, LogInv
<1>2. Settled(nand', j')
  BY SettledKept
<1> QED BY <1>1, <1>2, OtherFits DEF StepsTo

LEMMA Answers ==
    ASSUME NEW w, NEW ok \in BOOLEAN, NEW data \in Data \cup {Blank},
           Answer(w, ok, data)
    PROVE  /\ Goto(w, Idle) /\ Idle \in Places /\ Idle.at = "idle"
           /\ \E r \in Replies : reply' = [reply EXCEPT ![w] = r]
BY DEF Answer, Replies, Places, Thens, Idle

LEMMA SucceedOrFail ==
    ASSUME NEW w, Succeed(w) \/ Fail(w)
    PROVE  /\ Goto(w, Idle) /\ Idle \in Places /\ Idle.at = "idle"
           /\ \E r \in Replies : reply' = [reply EXCEPT ![w] = r]
BY Answers DEF Succeed, Fail

LEMMA ThenPlaces ==
    ASSUME NEW k \in Thens
    PROVE  k \in Places /\ k.at \in {"idle", "gc", "sync"}
BY DEF Thens, Places, Idle, SyncLoop

LEMMA MoveTailStep ==
    ASSUME Inv, NEW w \in Workers, Settled(nand, j), nand' = nand,
           UNCHANGED request, NEW jj, JournalOK(jj), jj.head = j.head,
           NEW then \in Thens, then # Idle, MoveTail(w, jj, then)
    PROVE  \E k \in Places : StepsTo(w, k)
<1> DEFINE p == jj.tail
           s == ReadMeta(nand, jj, p).id
           meta == MetaFor(s, TracePath(nand, jj, s))
           e == Enqueue(FromPage(p), meta, j.count, then, TRUE, j.count)
<1>1. jj \in Journal /\ p \in UserPages /\ nand \in Flash /\ j.count \in Int
  BY DEF JournalOK, Journal, Inv, LogInv, FlashOK
<1>2. CASE Verdict(nand, jj, p) = "garbage" /\ j' = Dequeue(jj) /\ Goto(w, then)
           /\ UNCHANGED reply
  BY <1>2, QuietStep, DequeueType, ThenPlaces
<1>3. CASE Verdict(nand, jj, p) = "live" /\ Goto(w, e) /\ j' = jj /\ UNCHANGED reply
  <2>1. ReadMeta(nand, jj, p) \in ReadableMeta
    BY <1>1, ReadMetaType
  <2>2. s \in Sectors
    BY <1>3, <2>1, LiveSector
  <2>3. meta \in Meta
    BY <1>1, <2>2, MetaForType
  <2>4. FromPage(p) \in Sources
    BY <1>1 DEF FromPage, Sources
  <2> HIDE DEF p, meta
  <2>5. e \in Places /\ e # Idle /\ e.at = "head"
    <3>1. TRUE \in BOOLEAN
      OBVIOUS
    <3> QED BY <1>1, <2>3, <2>4, <3>1, EnqueueType
  <2> HIDE DEF e
  <2> QED BY <1>3, <2>5, QuietStep
<1>4. CASE Verdict(nand, jj, p) = "error" /\ j' = jj /\ Fail(w)
  BY <1>4, QuietStep, SucceedOrFail
<1> QED BY <1>2, <1>3, <1>4 DEF MoveTail

\* At one of these places a worker finds a settled head.
LEMMA AtSettled ==
    ASSUME Inv, NEW w \in Workers,
           proc[w].at \in {"gc", "serve", "sync", "head"}
    PROVE  Settled(nand, j) /\ proc[w] # Idle
<1>1. proc[w] # Idle
  BY DEF Idle
<1> QED BY <1>1, OtherFits DEF Inv, LogInv

LEMMA GcStep ==
    ASSUME Inv, NEW w \in Workers, Gc(w)
    PROVE  \E k \in Places : StepsTo(w, k)
<1>1. proc[w].at = "gc" /\ nand' = nand /\ UNCHANGED request
  BY DEF Gc, At
<1>2. Settled(nand, j) /\ JournalOK(j) /\ proc[w] \in Places
  BY <1>1, AtSettled DEF Inv, LogInv, TypeInv
<1>3. proc[w].left \in Int
  BY <1>1, <1>2 DEF Places, Thens, Idle, SyncLoop, Serve, Appends
<1>4. CASE Goto(w, Serve) /\ UNCHANGED <<j, reply>>
  <2>1. Serve \in Places /\ Serve.at = "serve" /\ Serve # Idle
    BY DEF Places, Serve, Idle
  <2> QED BY <1>1, <1>2, <1>4, <2>1, QuietStep
<1>5. CASE MoveTail(w, Peek(nand, j), Collect(proc[w].left - 1))
  <2>1. Collect(proc[w].left - 1) \in Thens /\ Collect(proc[w].left - 1) # Idle
    BY <1>3 DEF Collect, Thens, Idle
  <2>2. JournalOK(Peek(nand, j)) /\ Peek(nand, j).head = j.head
    BY <1>2, PeekType
  <2> HIDE DEF StepsTo, Inv, MoveTail
  <2> QED BY <1>1, <1>2, <1>5, <2>1, <2>2, MoveTailStep
<1> QED BY <1>4, <1>5 DEF Gc

LEMMA RequestIs ==
    ASSUME Inv, NEW w \in Workers, proc[w] # Idle
    PROVE  /\ request[w] \in Requests
           /\ request[w].op \in {"read", "trim"}
              => request[w].sector \in Sectors /\ request[w].data = Blank
           /\ request[w].op = "write"
              => request[w].sector \in Sectors /\ request[w].data \in Data
BY DEF Inv, CallInv, Requests

LEMMA ReadSectorType ==
    ASSUME NEW n \in Flash, NEW jj \in Journal, NEW s
    PROVE  ReadSector(n, jj, s, Blank) \in Data \cup {Blank, Unreadable}
<1> DEFINE p == TracePath(n, jj, s).page
<1>1. p \in Stops
  BY TracePathType
<1> HIDE DEF p
<1>2. ASSUME p # None, p # Unreadable, n[p].kind = "user"
      PROVE  n[p].data \in Data \cup {Blank}
  <2>1. p \in Pages
    BY <1>1, <1>2 DEF Stops, UserPages
  <2> QED BY <2>1, <1>2, FreeHasNoFields DEF Flash, UserData, CheckpointData
<1> QED BY <1>2 DEF ReadSector, p

LEMMA ReadStepStep ==
    ASSUME Inv, NEW w \in Workers, Settled(nand, j), nand' = nand,
           UNCHANGED request, ReadStep(w)
    PROVE  \E k \in Places : StepsTo(w, k)
<1> DEFINE d == ReadSector(nand, j, request[w].sector, Blank)
<1>1. JournalOK(j) /\ nand \in Flash /\ j' = j /\ TRUE \in BOOLEAN
  BY DEF Inv, LogInv, FlashOK, ReadStep
<1>2. d \in Data \cup {Blank, Unreadable}
  BY <1>1, ReadSectorType DEF JournalOK
<1>3. Fail(w) \/ (d # Unreadable /\ Answer(w, TRUE, d))
  BY DEF ReadStep
<1> HIDE DEF d
<1>4. /\ Goto(w, Idle) /\ Idle \in Places /\ Idle.at = "idle"
      /\ \E r \in Replies : reply' = [reply EXCEPT ![w] = r]
  <2>1. CASE Fail(w)
    BY <2>1, SucceedOrFail
  <2>2. CASE d # Unreadable /\ Answer(w, TRUE, d)
    <3>1. d \in Data \cup {Blank}
      BY <1>2, <2>2
    <3> HIDE DEF Answer, Goto, Idle, Places, Replies
    <3> QED BY <1>1, <2>2, <3>1, Answers
  <2> QED BY <1>3, <2>1, <2>2
<1> QED BY <1>1, <1>4, QuietStep

LEMMA ClearStepStep ==
    ASSUME Inv, NEW w \in Workers, Settled(nand, j), nand' = nand,
           UNCHANGED request, ClearStep(w)
    PROVE  \E k \in Places : StepsTo(w, k)
<1>1. JournalOK(j)
  BY DEF Inv, LogInv
<1>2. JournalOK(j') /\ j'.head = j.head
  BY <1>1, ClearType DEF ClearStep
<1> QED BY <1>2, SucceedOrFail, QuietStep DEF ClearStep

LEMMA CountKept ==
    ASSUME NEW jj, JournalOK(jj), NEW count \in Int
    PROVE  LET k == [jj EXCEPT !.count = count]
           IN  /\ JournalOK(k) /\ k.head = jj.head /\ k.tail = jj.tail
               /\ k.tailSync = jj.tailSync
<1> DEFINE k == [jj EXCEPT !.count = count]
<1>1. jj \in Journal
  BY DEF JournalOK
<1>2. k \in Journal
  BY <1>1 DEF Journal
<1>3. k.head = jj.head /\ k.tail = jj.tail /\ k.tailSync = jj.tailSync
  BY <1>1 DEF Journal
<1> HIDE DEF k
<1> QED BY <1>2, <1>3 DEF JournalOK, k

LEMMA WriteStepStep ==
    ASSUME Inv, NEW w \in Workers, proc[w] # Idle, Settled(nand, j), nand' = nand,
           UNCHANGED request, WriteStep(w)
    PROVE  \E k \in Places : StepsTo(w, k)
<1> DEFINE path  == TracePath(nand, j, request[w].sector)
           count == IF path.page = None THEN j.count + 1 ELSE j.count
           source == FromUser(request[w].data)
           meta == MetaFor(request[w].sector, path)
           e == Enqueue(source, meta, count, Idle, FALSE, j.count)
<1>1. JournalOK(j) /\ nand \in Flash /\ j \in Journal /\ j.count \in Int
  BY DEF Inv, LogInv, FlashOK, JournalOK, Journal
<1>2. request[w].op = "write"
  BY DEF WriteStep
<1>3. request[w].sector \in Sectors /\ request[w].data \in Data
  BY <1>2, RequestIs
<1>4. meta \in Meta
  BY <1>1, <1>3, MetaForType
<1>5. source \in Sources /\ FALSE \in BOOLEAN
  BY <1>3 DEF Sources, FromUser
<1>6. count \in Int
  BY <1>1
<1>7. \/ Fail(w) /\ j' = j
      \/ j' = [j EXCEPT !.count = count] /\ Goto(w, e) /\ UNCHANGED reply
  BY DEF WriteStep
<1> HIDE DEF path, count, source, meta
<1>8. e \in Places /\ e # Idle /\ e.at = "head"
  <2>1. Idle \in Thens
    BY DEF Thens
  <2> QED BY <1>1, <1>4, <1>5, <1>6, <2>1, EnqueueType
<1> HIDE DEF e
<1>9. CASE Fail(w) /\ j' = j
  BY <1>1, <1>9, SucceedOrFail, QuietStep
<1>10. CASE j' = [j EXCEPT !.count = count] /\ Goto(w, e) /\ UNCHANGED reply
  <2>1. JournalOK(j') /\ j'.head = j.head
    BY <1>1, <1>6, <1>10, CountKept
  <2> QED BY <1>8, <1>10, <2>1, QuietStep
<1> QED BY <1>7, <1>9, <1>10

LEMMA TrimStepStep ==
    ASSUME Inv, NEW w \in Workers, proc[w] # Idle, Settled(nand, j), nand' = nand,
           UNCHANGED request, TrimStep(w)
    PROVE  \E k \in Places : StepsTo(w, k)
<1> DEFINE path == TracePath(nand, j, request[w].sector)
           del  == Deletion(nand, j, path)
           source == FromPage(del.page)
           c == j.count - 1
           e == Enqueue(source, del.meta, c, Idle, FALSE, j.count)
<1>1. JournalOK(j) /\ nand \in Flash /\ j \in Journal /\ j.count \in Int
  BY DEF Inv, LogInv, FlashOK, JournalOK, Journal
<1>2. \/ (Succeed(w) \/ Fail(w)) /\ j' = j
      \/ Succeed(w) /\ j' = Clear(j)
      \/ /\ Cousins(path) # {} /\ del.meta.id # Unreadable
         /\ Goto(w, e) /\ UNCHANGED <<j, reply>>
  <2>1. path.page \in Stops
    BY <1>1, TracePathType
  <2>2. path.page = None \/ path.page = Unreadable \/ path.page >= 0
    <3> HIDE DEF path
    <3> QED BY <2>1, UserPage DEF Stops
  <2> QED BY <2>2 DEF TrimStep, None, Unreadable
<1>3. CASE (Succeed(w) \/ Fail(w)) /\ j' = j
  BY <1>1, <1>3, SucceedOrFail, QuietStep
<1>4. CASE Succeed(w) /\ j' = Clear(j)
  BY <1>1, <1>4, ClearType, SucceedOrFail, QuietStep
<1>5. CASE /\ Cousins(path) # {} /\ del.meta.id # Unreadable
           /\ Goto(w, e) /\ UNCHANGED <<j, reply>>
  <2>1. del.page \in UserPages /\ del.meta \in Meta
    BY <1>1, <1>5, DeletionType
  <2>2. source \in Sources /\ FALSE \in BOOLEAN /\ Idle \in Thens
    BY <2>1 DEF Sources, FromPage, Thens
  <2>3. c \in Int
    BY <1>1
  <2>4. del.meta \in Meta
    BY <2>1
  <2> HIDE DEF del, source, c
  <2>5. e \in Places /\ e # Idle /\ e.at = "head"
    BY <1>1, <2>2, <2>3, <2>4, EnqueueType
  <2> HIDE DEF e
  <2> QED BY <1>1, <1>5, <2>5, QuietStep
<1> QED BY <1>2, <1>3, <1>4, <1>5

LEMMA CarryStep ==
    ASSUME Inv, NEW w \in Workers, Carry(w)
    PROVE  \E k \in Places : StepsTo(w, k)
<1>1. proc[w].at = "serve" /\ nand' = nand /\ UNCHANGED request
  BY DEF Carry, At
<1>2. Settled(nand, j) /\ proc[w] # Idle
  BY <1>1, AtSettled
<1> QED BY <1>1, <1>2, ReadStepStep, ClearStepStep, WriteStepStep, TrimStepStep
        DEF Carry

LEMMA SyncStep ==
    ASSUME Inv, NEW w \in Workers, Sync(w)
    PROVE  \E k \in Places : StepsTo(w, k)
<1> DEFINE meta == IF j.root = None THEN NoMeta ELSE ReadMeta(nand, j, j.root)
           from == IF j.root = None THEN Blankness ELSE FromPage(j.root)
           e == Enqueue(from, meta, j.count, SyncLoop, FALSE, j.count)
<1>1. proc[w].at = "sync" /\ nand' = nand /\ UNCHANGED request
  BY DEF Sync, At
<1>2. Settled(nand, j) /\ JournalOK(j) /\ nand \in Flash /\ j \in Journal
  BY <1>1, AtSettled DEF Inv, LogInv, FlashOK, JournalOK
<1>3. j.root \in UserPages \cup {None} /\ j.count \in Int
  BY <1>2 DEF Journal
<1>4. \/ (Succeed(w) \/ Fail(w)) /\ j' = j
      \/ meta.id # Unreadable /\ Goto(w, e) /\ UNCHANGED <<j, reply>>
      \/ MoveTail(w, Peek(nand, j), SyncLoop)
  BY DEF Sync, Pad
<1>5. CASE (Succeed(w) \/ Fail(w)) /\ j' = j
  BY <1>1, <1>2, <1>5, SucceedOrFail, QuietStep
<1>6. SyncLoop \in Thens /\ SyncLoop # Idle /\ FALSE \in BOOLEAN
  BY DEF SyncLoop, Thens, Idle
<1>7. CASE meta.id # Unreadable /\ Goto(w, e) /\ UNCHANGED <<j, reply>>
  <2>1. meta \in Meta
    <3>1. CASE j.root = None
      BY <3>1 DEF NoMeta, Meta, Pointers
    <3>2. CASE j.root # None
      <4>1. ReadMeta(nand, j, j.root) \in ReadableMeta
        BY <1>2, <1>3, <3>2, ReadMetaType
      <4> QED BY <1>7, <3>2, <4>1 DEF ReadableMeta, Meta
    <3> QED BY <3>1, <3>2
  <2>2. from \in Sources
    BY <1>3 DEF Sources, FromPage
  <2> HIDE DEF meta, from
  <2>3. e \in Places /\ e # Idle /\ e.at = "head"
    BY <1>3, <1>6, <2>1, <2>2, EnqueueType
  <2> HIDE DEF e
  <2> QED BY <1>1, <1>2, <1>7, <2>3, QuietStep
<1>8. CASE MoveTail(w, Peek(nand, j), SyncLoop)
  <2>1. JournalOK(Peek(nand, j)) /\ Peek(nand, j).head = j.head
    BY <1>2, PeekType
  <2> HIDE DEF StepsTo, Inv, MoveTail
  <2> QED BY <1>1, <1>2, <1>6, <1>8, <2>1, MoveTailStep
<1> QED BY <1>4, <1>5, <1>7, <1>8

LEMMA AppendingAt ==
    ASSUME Inv, NEW w \in Workers,
           proc[w].at \in {"head", "erase", "program", "check"}
    PROVE  /\ proc[w] \in Appends /\ proc[w] # Idle
           /\ Fits(nand, j, proc[w])
           /\ \A place \in {"head", "erase", "program", "check"} :
                /\ [proc[w] EXCEPT !.at = place] \in Places
                /\ [proc[w] EXCEPT !.at = place] # Idle
                /\ [proc[w] EXCEPT !.at = place].at = place
<1>1. proc[w] \in Places
  BY DEF Inv, TypeInv
<1>2. proc[w] \in Appends
  BY <1>1 DEF Places, Thens, Serve, Idle, SyncLoop
<1>3. proc[w] # Idle
  BY DEF Idle
<1>4. Fits(nand, j, proc[w])
  BY <1>3 DEF Inv, LogInv
<1>5. ASSUME NEW place \in {"head", "erase", "program", "check"}
      PROVE  /\ [proc[w] EXCEPT !.at = place] \in Appends
             /\ [proc[w] EXCEPT !.at = place].at = place
  BY <1>2 DEF Appends
<1>6. ASSUME NEW place \in {"head", "erase", "program", "check"}
      PROVE  [proc[w] EXCEPT !.at = place] # Idle
  BY <1>5 DEF Idle
<1> QED BY <1>2, <1>3, <1>4, <1>5, <1>6 DEF Places

LEMMA DirtyType ==
    ASSUME NEW jj, JournalOK(jj)
    PROVE  LET k == [jj EXCEPT !.dirty = TRUE]
           IN  /\ JournalOK(k) /\ k.head = jj.head /\ k.tail = jj.tail
               /\ k.tailSync = jj.tailSync
<1> DEFINE k == [jj EXCEPT !.dirty = TRUE]
<1>1. jj \in Journal /\ TRUE \in BOOLEAN
  BY DEF JournalOK
<1>2. k \in Journal
  BY <1>1 DEF Journal
<1>3. k.head = jj.head /\ k.tail = jj.tail /\ k.tailSync = jj.tailSync
  BY <1>1 DEF Journal
<1> HIDE DEF k
<1> QED BY <1>2, <1>3 DEF JournalOK, k

LEMMA PrepareHeadStep ==
    ASSUME Inv, NEW w \in Workers, PrepareHead(w)
    PROVE  \E k \in Places : StepsTo(w, k)
<1> DEFINE next  == NextUpage(j.head)
           full  == /\ Block(next) = Block(j.tailSync)
                    /\ Block(next) # Block(j.head)
           dirty == [j EXCEPT !.dirty = TRUE]
           found == SkipBad(dirty)
           Give(jj) == [jj EXCEPT !.count = proc[w].old]
           program == [proc[w] EXCEPT !.at = "program"]
           erase == [proc[w] EXCEPT !.at = "erase"]
<1>1. proc[w].at = "head" /\ nand' = nand /\ UNCHANGED request
  BY DEF PrepareHead, At
<1>2. Settled(nand, j) /\ JournalOK(j) /\ FlashOK(nand)
  BY <1>1, AtSettled DEF Inv, LogInv
<1>3. /\ proc[w] \in Appends /\ proc[w] # Idle
      /\ program \in Places /\ program # Idle /\ program.at = "program"
      /\ erase \in Places /\ erase # Idle /\ erase.at = "erase"
  BY <1>1, AppendingAt
<1>4. proc[w].old \in Int
  BY <1>3 DEF Appends
<1>5. /\ JournalOK(dirty) /\ dirty.head = j.head /\ dirty.tail = j.tail
      /\ dirty.tailSync = j.tailSync
  BY <1>2, DirtyType
<1>6. \/ full /\ j' = Give(j) /\ Fail(w)
      \/ /\ ~full /\ j.head % Ppb # 0 /\ j' = dirty /\ UNCHANGED reply
         /\ Goto(w, program)
      \/ /\ j.head % Ppb = 0 /\ j' = found.j /\ UNCHANGED reply
         /\ Goto(w, erase)
      \/ j.head % Ppb = 0 /\ j' = Give(found.j) /\ Fail(w)
  BY DEF PrepareHead
<1> HIDE DEF dirty, program, erase
<1>7. CASE full /\ j' = Give(j) /\ Fail(w)
  <2>1. JournalOK(j') /\ j'.head = j.head
    BY <1>2, <1>4, <1>7, CountKept
  <2> QED BY <1>1, <1>2, <1>7, <2>1, SucceedOrFail, QuietStep
<1>8. CASE /\ ~full /\ j.head % Ppb # 0 /\ j' = dirty /\ UNCHANGED reply
           /\ Goto(w, program)
  <2>1. Ready(nand, j.head, j.head)
    BY <1>2, <1>8 DEF Settled
  <2>2. Ready(nand', j'.head, j'.head) /\ Room(j')
    BY <1>1, <1>5, <1>8, <2>1 DEF Room
  <2>3. Fits(nand', j', program)
    BY <1>3, <2>2 DEF Fits
  <2> QED BY <1>1, <1>2, <1>3, <1>5, <1>8, <2>3 DEF StepsTo
<1>9. ASSUME j.head % Ppb = 0 PROVE JournalOK(found.j) /\ found.j.head % Ppb = 0
  BY <1>5, <1>9, SkipBadType
<1> HIDE DEF found
<1>10. CASE /\ j.head % Ppb = 0 /\ j' = found.j /\ UNCHANGED reply
            /\ Goto(w, erase)
  <2>1. Fits(nand', j', erase)
    BY <1>3, <1>9, <1>10 DEF Fits
  <2> QED BY <1>1, <1>2, <1>3, <1>9, <1>10, <2>1 DEF StepsTo
<1>11. CASE j.head % Ppb = 0 /\ j' = Give(found.j) /\ Fail(w)
  <2>1. JournalOK(j') /\ j'.head % Ppb = 0
    BY <1>4, <1>9, <1>11, CountKept
  <2>2. Fits(nand', j', Idle)
    BY <2>1, IdleFits DEF Settled
  <2>3. /\ Goto(w, Idle) /\ Idle \in Places
        /\ \E r \in Replies : reply' = [reply EXCEPT ![w] = r]
    BY <1>11, SucceedOrFail
  <2> QED BY <1>1, <1>2, <2>1, <2>2, <2>3 DEF StepsTo
<1> QED BY <1>6, <1>7, <1>8, <1>10, <1>11

\* The pages of the head's block that an erase is about are not in the log.
LEMMA EraseStep ==
    ASSUME Inv, NEW w \in Workers, Erase(w)
    PROVE  \E k \in Places : StepsTo(w, k)
<1> DEFINE program == [proc[w] EXCEPT !.at = "program"]
           h == j.head
<1>1. proc[w].at = "erase" /\ UNCHANGED request /\ nand' = Erased(nand, Block(h))
      /\ Goto(w, program) /\ UNCHANGED <<j, reply>>
  BY DEF Erase, At, OnFlash
<1>2. /\ proc[w] \in Appends /\ proc[w] # Idle /\ Fits(nand, j, proc[w])
      /\ program \in Places /\ program # Idle /\ program.at = "program"
  BY <1>1, AppendingAt
<1>3. JournalOK(j) /\ FlashOK(nand)
  BY DEF Inv, LogInv
<1>4. h % Ppb = 0 /\ h \in UserPages
  BY <1>1, <1>2, <1>3 DEF Fits, JournalOK, Journal
<1>5. FlashOK(nand')
  BY <1>1, <1>3, BlockErased DEF Erased
<1>6. FreeOn(nand', h)
  BY <1>1 DEF FreeOn, Erased
<1>7. Closed(nand', h)
  <2> SUFFICES ASSUME NEW c \in Checkpoints, Block(c) = Block(h), c < h
               PROVE  FALSE
    BY DEF Closed
  <2>1. c \in Pages /\ h \in Pages
    BY <1>4, UserPage DEF Checkpoints
  <2>2. h = FirstOf(Block(h))
    BY <1>4, <2>1, Aligned
  <2>3. Block(c) * Ppb <= c
    BY <2>1, BlockOf
  <2> QED BY <2>1, <2>2, <2>3 DEF FirstOf, Pages
<1>8. Room(j)
  <2>1. Block(NextUpage(h)) = Block(h)
    BY <1>4, NextUserPage
  <2> QED BY <2>1 DEF Room
<1> HIDE DEF program
<1>9. Fits(nand', j', program)
  BY <1>1, <1>2, <1>6, <1>7, <1>8 DEF Fits, Ready
<1> QED BY <1>1, <1>2, <1>3, <1>5, <1>9 DEF StepsTo

LEMMA ContentType ==
    ASSUME Inv, NEW source \in Sources, source # Blankness
    PROVE  Content(source) \in {Torn} \cup UserData \cup CheckpointData
<1>1. nand \in Flash
  BY DEF Inv, LogInv, FlashOK
<1>2. CASE source \in [kind : {"copy"}, page : UserPages]
  <2>1. source.kind = "copy" /\ source.page \in Pages
    BY <1>2 DEF UserPages
  <2>2. FromUser(Blank) \in UserData
    BY DEF FromUser, UserData
  <2>3. nand[source.page] \in {Free, Torn} \cup UserData \cup CheckpointData
    BY <1>1, <2>1 DEF Flash
  <2> QED BY <2>1, <2>2, <2>3 DEF Content
<1>3. CASE source \in [kind : {"user"}, data : Data \cup {Blank}]
  BY <1>3 DEF Content, UserData
<1> QED BY <1>2, <1>3 DEF Sources

LEMMA ProgrammedIs ==
    ASSUME NEW n \in Flash, NEW p \in Pages, n[p] = Free, NEW content
    PROVE  Programmed(n, p, content) = [n EXCEPT ![p] = content]
BY DEF Programmed, Flash

\* The flash with the data of an append, or with a page that was torn by it.
LEMMA DataProgrammed ==
    ASSUME Inv, NEW w \in Workers, proc[w].at = "program",
           NEW n, n = AfterData(w) \/ n = [nand EXCEPT ![j.head] = Torn]
    PROVE  /\ FlashOK(n) /\ Ready(n, j.head, j.head + 1)
           /\ (j.head + 2) % Ppc # 0 => Ready(n, j.head + 1, j.head + 1)
           /\ \A p \in Pages \ {j.head} : n[p] = nand[p]
<1> DEFINE h == j.head
           source == proc[w].source
<1>1. proc[w] \in Appends /\ Fits(nand, j, proc[w])
  BY AppendingAt
<1>2. Ready(nand, h, h) /\ FlashOK(nand) /\ nand \in Flash
  BY <1>1 DEF Fits, Inv, LogInv, FlashOK
<1>3. h \in UserPages /\ h \in Pages
  BY UserPage DEF Inv, LogInv, JournalOK, Journal
<1>4. source \in Sources
  BY <1>1 DEF Appends
<1>5. nand[h] = Free
  BY <1>2, <1>3 DEF Ready, FreeOn, Pages
<1>6. CASE source = Blankness /\ n = nand
  <2>1. FreeOn(nand, h + 1)
    BY <1>2, <1>3, NextUserPage DEF Ready, FreeOn, Pages
  <2>2. Closed(nand, h) /\ FreeOn(nand, h)
    BY <1>2 DEF Ready
  <2>3. (h + 2) % Ppc # 0 => Closed(nand, h + 1)
    <3> SUFFICES ASSUME (h + 2) % Ppc # 0, NEW c \in Checkpoints,
                        Block(c) = Block(h + 1), c < h + 1
                 PROVE  ~Open(nand, c)
      BY DEF Closed
    <3>1. Block(h + 1) = Block(h) /\ h \notin Checkpoints
      BY <1>3, NextUserPage DEF UserPages, Checkpoints
    <3>2. c < h
      BY <1>3, <3>1 DEF Checkpoints, Pages
    <3> QED BY <2>2, <3>1, <3>2 DEF Closed
  <2> QED BY <1>2, <1>6, <2>1, <2>2, <2>3 DEF Ready
<1>7. CASE source # Blankness /\ n = Programmed(nand, h, Content(source))
  <2> DEFINE content == Content(source)
  <2>1. content \in {Torn} \cup UserData \cup CheckpointData
    BY <1>4, <1>7, ContentType
  <2> HIDE DEF content, h
  <2>2. n = [nand EXCEPT ![h] = content]
    <3>1. n = Programmed(nand, h, content)
      BY <1>7 DEF content, h
    <3>2. nand \in Flash /\ h \in Pages /\ nand[h] = Free
      BY <1>2, <1>3, <1>5 DEF h
    <3> QED BY <3>1, <3>2, ProgrammedIs
  <2>3. \A p \in Pages \ {h} : n[p] = nand[p]
    BY <1>2, <2>2 DEF Flash
  <2> QED BY <1>2, <1>3, <2>1, <2>2, <2>3, DataAppended DEF h
<1>8. CASE n = [nand EXCEPT ![h] = Torn]
  <2> HIDE DEF h
  <2>1. \A p \in Pages \ {h} : n[p] = nand[p]
    BY <1>2, <1>8 DEF Flash
  <2> QED BY <1>2, <1>3, <1>8, <2>1, DataAppended DEF h
<1> QED BY <1>6, <1>7, <1>8 DEF AfterData

\* The same for a checkpoint.
LEMMA CheckpointProgrammed ==
    ASSUME Inv, NEW w \in Workers, proc[w].at = "check",
           NEW n, n = AfterCheckpoint(w) \/ n = [nand EXCEPT ![j.head + 1] = Torn]
    PROVE  LET k == NextUpage(j.head)
           IN  /\ FlashOK(n) /\ (k % Ppb # 0 => Ready(n, k, k))
               /\ \A p \in Pages \ {j.head + 1} : n[p] = nand[p]
               /\ nand[j.head + 1] = Free /\ j.head + 1 \in Pages
<1> DEFINE h == j.head
           q == h + 1
           content == Checkpoint(w)
<1>1. proc[w] \in Appends /\ Fits(nand, j, proc[w])
  BY AppendingAt
<1>2. /\ Ready(nand, h, h + 1) /\ (h + 2) % Ppc = 0
      /\ FlashOK(nand) /\ nand \in Flash
      /\ JournalOK(j) /\ j \in Journal
  BY <1>1 DEF Fits, Inv, LogInv, FlashOK, JournalOK
<1>3. h \in UserPages /\ h \in Pages /\ j.tail \in UserPages /\ j.tail \in Pages
      /\ j.tailSync \in Pages
  BY <1>2, UserPage DEF Journal
<1>4. q \in Pages /\ Block(q) = Block(h)
  BY <1>2, <1>3, NextUserPage DEF Checkpoints
<1>5. nand[q] = Free
  BY <1>2, <1>4 DEF Ready, FreeOn, Pages
<1>6. content \in CheckpointData /\ content.kind = "checkpoint"
      /\ content.tail = j.tail
  BY <1>1, <1>2, <1>3 DEF Checkpoint, CheckpointData, Journal, Appends
<1>7. Block(j.tail) = Block(h) => j.tail <= h
  <2>1. InOrder(h, j.tail, j.tail)
    BY <1>2, <1>3, TailBehind DEF JournalOK
  <2> QED BY <2>1 DEF InOrder, Behind
<1>8. Torn.kind # "checkpoint"
  BY FreeHasNoFields
<1>9. Torn \in {Torn} \cup UserData \cup CheckpointData
  OBVIOUS
<1> HIDE DEF content
<1>10. n = [nand EXCEPT ![h + 1] = content] \/ n = [nand EXCEPT ![h + 1] = Torn]
  <2>1. n = Programmed(nand, q, content) \/ n = [nand EXCEPT ![h + 1] = Torn]
    BY DEF AfterCheckpoint, content
  <2> HIDE DEF h, q
  <2>2. Programmed(nand, q, content) = [nand EXCEPT ![q] = content]
    BY <1>2, <1>4, <1>5, ProgrammedIs
  <2> QED BY <2>1, <2>2 DEF q, h
<1> HIDE DEF h
<1>11. FlashOK(n) /\ (NextUpage(h) % Ppb # 0 => Ready(n, NextUpage(h), NextUpage(h)))
  <2>1. CASE n = [nand EXCEPT ![h + 1] = content]
    BY <1>2, <1>3, <1>6, <1>7, <2>1, CheckpointAppended
  <2>2. CASE n = [nand EXCEPT ![h + 1] = Torn]
    BY <1>2, <1>3, <1>8, <1>9, <2>2, CheckpointAppended
  <2> QED BY <1>10, <2>1, <2>2
<1>12. \A p \in Pages \ {h + 1} : n[p] = nand[p]
  BY <1>2, <1>10 DEF Flash
<1> QED BY <1>4, <1>5, <1>11, <1>12 DEF h

LEMMA ProceedType ==
    ASSUME NEW w \in Workers, proc[w] \in Appends, NEW jj, JournalOK(jj),
           Proceed(w, jj)
    PROVE  /\ JournalOK(j') /\ j'.head = jj.head
           /\ \E k \in Places :
                /\ k.at \in {"idle", "gc", "sync"} /\ Goto(w, k)
                /\ IF k = Idle THEN \E r \in Replies : reply' = [reply EXCEPT ![w] = r]
                   ELSE UNCHANGED reply
<1>1. jj \in Journal /\ jj.count \in Int /\ jj.count - 1 \in Int
  BY DEF JournalOK, Journal
<1>2. \/ j' = Dequeue(jj) \/ j' = [jj EXCEPT !.count = jj.count]
      \/ j' = [jj EXCEPT !.count = jj.count - 1]
  BY <1>1 DEF Proceed, Journal
<1>3. JournalOK(j') /\ j'.head = jj.head
  <2>1. CASE j' = Dequeue(jj)
    BY <2>1, DequeueType
  <2>2. CASE j' = [jj EXCEPT !.count = jj.count]
    BY <1>1, <2>2, CountKept
  <2>3. CASE j' = [jj EXCEPT !.count = jj.count - 1]
    BY <1>1, <2>3, CountKept
  <2> QED BY <1>2, <2>1, <2>2, <2>3
<1>4. proc[w].then \in Thens
  BY DEF Appends
<1>5. \/ proc[w].then = Idle /\ Succeed(w)
      \/ proc[w].then # Idle /\ Goto(w, proc[w].then) /\ UNCHANGED reply
  BY DEF Proceed
<1> DEFINE Ends(k) == /\ k \in Places /\ k.at \in {"idle", "gc", "sync"}
                      /\ Goto(w, k)
                      /\ IF k = Idle
                         THEN \E r \in Replies : reply' = [reply EXCEPT ![w] = r]
                         ELSE UNCHANGED reply
<1>6. Ends(Idle) \/ Ends(proc[w].then)
  <2>1. CASE proc[w].then = Idle /\ Succeed(w)
    <3>1. /\ Goto(w, Idle) /\ Idle \in Places /\ Idle.at = "idle"
          /\ \E r \in Replies : reply' = [reply EXCEPT ![w] = r]
      BY <2>1, SucceedOrFail
    <3> HIDE DEF Idle, Goto, Replies
    <3> QED BY <3>1
  <2>2. CASE proc[w].then # Idle /\ Goto(w, proc[w].then) /\ UNCHANGED reply
    BY <1>4, <2>2, ThenPlaces
  <2> QED BY <1>5, <2>1, <2>2
<1>7. \E k : Ends(k)
  BY <1>6
<1> QED BY <1>3, <1>7

LEMMA PushedType ==
    ASSUME Inv, NEW w \in Workers, proc[w] \in Appends
    PROVE  /\ JournalOK(Pushed(w)) /\ Pushed(w).head = j.head
           /\ Pushed(w).tail = j.tail /\ Pushed(w).tailSync = j.tailSync
<1> DEFINE i == j.head % Ppc
           metas == [j.metas EXCEPT ![i] = proc[w].meta]
           k == [j EXCEPT !.metas = metas]
<1>1. JournalOK(j) /\ j \in Journal
  BY DEF Inv, LogInv, JournalOK
<1>2. Pushed(w) = k
  BY <1>1 DEF Pushed
<1>3. metas \in Metas
  BY <1>1 DEF Journal, Metas, Appends
<1> HIDE DEF metas
<1>4. k \in Journal
  BY <1>1, <1>3 DEF Journal
<1>5. k.head = j.head /\ k.tail = j.tail /\ k.tailSync = j.tailSync
  BY <1>1 DEF Journal
<1> HIDE DEF k
<1> QED BY <1>1, <1>2, <1>4, <1>5 DEF JournalOK

\* The head moves on to the next user page, which is free to be taken.
LEMMA HeadMoved ==
    ASSUME NEW jj, JournalOK(jj), NEW root \in UserPages,
           \/ Block(NextUpage(jj.head)) = Block(jj.head)
           \/ Block(NextUpage(jj.head)) # Block(jj.tailSync)
    PROVE  LET k == [jj EXCEPT !.root = root, !.head = NextUpage(jj.head)]
           IN  /\ JournalOK(k) /\ k.head = NextUpage(jj.head)
               /\ k.tail = jj.tail /\ k.tailSync = jj.tailSync
<1> DEFINE next == NextUpage(jj.head)
           k == [jj EXCEPT !.root = root, !.head = next]
<1>1. /\ jj \in Journal /\ InOrder(jj.head, jj.tailSync, jj.tail)
      /\ jj.head \in UserPages /\ jj.tail \in UserPages /\ jj.tailSync \in UserPages
  BY DEF JournalOK, Journal
<1>2. next \in UserPages
  BY <1>1, NextUserPage
<1>3. InOrder(next, jj.tailSync, jj.tail)
  BY <1>1, PushOrder
<1> HIDE DEF next
<1>4. k \in Journal
  BY <1>1, <1>2 DEF Journal
<1>5. k.head = next /\ k.tail = jj.tail /\ k.tailSync = jj.tailSync
  BY <1>1 DEF Journal
<1> HIDE DEF k
<1> QED BY <1>3, <1>4, <1>5 DEF JournalOK, k, next

LEMMA ProgramStep ==
    ASSUME Inv, NEW w \in Workers, Program(w)
    PROVE  \E k \in Places : StepsTo(w, k)
<1> DEFINE h == j.head
           pushed == Pushed(w)
           moved == [pushed EXCEPT !.root = h, !.head = @ + 1]
           check == [proc[w] EXCEPT !.at = "check", !.oldHead = h]
<1>1. proc[w].at = "program" /\ UNCHANGED request
  BY DEF Program, At
<1>2. /\ proc[w] \in Appends /\ Fits(nand, j, proc[w]) /\ proc[w] # Idle
  BY <1>1, AppendingAt
<1>3. /\ Ready(nand, h, h) /\ Room(j) /\ FlashOK(nand) /\ JournalOK(j)
      /\ h \in UserPages /\ h \in Int /\ proc[w].old \in Int
  BY <1>1, <1>2, UserPage DEF Fits, Inv, LogInv, JournalOK, Journal, Appends
<1>4. CASE Fail(w) /\ j' = [j EXCEPT !.count = proc[w].old] /\ nand' = nand
  <2>1. JournalOK(j') /\ j'.head = j.head
    BY <1>3, <1>4, CountKept
  <2>2. Settled(nand, j)
    BY <1>3 DEF Settled
  <2> QED BY <1>1, <1>4, <2>1, <2>2, SucceedOrFail, QuietStep
<1>5. ASSUME nand' = AfterData(w)
      PROVE  /\ FlashOK(nand') /\ Ready(nand', h, h + 1)
             /\ (h + 2) % Ppc # 0 => Ready(nand', h + 1, h + 1)
  BY <1>1, <1>5, DataProgrammed
<1>6. /\ JournalOK(pushed) /\ pushed.head = h
      /\ pushed.tail = j.tail /\ pushed.tailSync = j.tailSync
  BY <1>2, PushedType
<1>7. CASE nand' = AfterData(w) /\ (h + 2) % Ppc # 0 /\ Proceed(w, moved)
  <2>1. NextUpage(h) = h + 1 /\ Block(h + 1) = Block(h)
    BY <1>3, <1>7, NextUserPage
  <2>2. moved = [pushed EXCEPT !.root = h, !.head = NextUpage(pushed.head)]
    BY <1>6, <2>1
  <2> HIDE DEF moved, pushed
  <2>3. JournalOK(moved) /\ moved.head = h + 1
    BY <1>3, <1>6, <2>1, <2>2, HeadMoved
  <2>4. JournalOK(j') /\ j'.head = h + 1
    BY <1>2, <1>7, <2>3, ProceedType
  <2>5. Settled(nand', j')
    BY <1>5, <1>7, <2>4 DEF Settled
  <2>6. PICK k \in Places :
               /\ k.at \in {"idle", "gc", "sync"} /\ Goto(w, k)
               /\ IF k = Idle THEN \E r \in Replies : reply' = [reply EXCEPT ![w] = r]
                  ELSE UNCHANGED reply
    BY <1>2, <1>7, <2>3, ProceedType
  <2>7. Fits(nand', j', k)
    BY <2>5, <2>6, OtherFits
  <2> QED BY <1>1, <1>5, <1>7, <2>4, <2>6, <2>7 DEF StepsTo
<1>8. CASE /\ nand' = AfterData(w) /\ (h + 2) % Ppc = 0
           /\ Goto(w, check) /\ j' = pushed /\ UNCHANGED reply
  <2>1. check \in Appends /\ check.at = "check" /\ check.oldHead = h
    BY <1>2, <1>3 DEF Appends
  <2> HIDE DEF check, pushed
  <2>2. check \in Places /\ check # Idle
    BY <2>1 DEF Places, Idle
  <2>3. Room(j')
    BY <1>3, <1>6, <1>8 DEF Room
  <2>4. Fits(nand', j', check)
    BY <1>5, <1>6, <1>8, <2>1, <2>3 DEF Fits
  <2> QED BY <1>1, <1>5, <1>6, <1>8, <2>2, <2>4 DEF StepsTo
<1> QED BY <1>4, <1>7, <1>8 DEF Program, OnFlash

LEMMA SyncedType ==
    ASSUME NEW jj, JournalOK(jj)
    PROVE  LET k == [jj EXCEPT !.tailSync = jj.tail]
           IN  JournalOK(k) /\ k.head = jj.head
<1> DEFINE k == [jj EXCEPT !.tailSync = jj.tail]
<1>1. /\ jj \in Journal /\ InOrder(jj.head, jj.tailSync, jj.tail)
      /\ jj.head \in Pages /\ jj.tail \in Pages /\ jj.tailSync \in Pages
  BY DEF JournalOK, Journal, UserPages
<1>2. InOrder(jj.head, jj.tail, jj.tail)
  BY <1>1, TailBehind
<1>3. k \in Journal
  BY <1>1 DEF Journal
<1>4. k.head = jj.head /\ k.tail = jj.tail /\ k.tailSync = jj.tail
  BY <1>1 DEF Journal
<1> HIDE DEF k
<1> QED BY <1>2, <1>3, <1>4 DEF JournalOK, k

LEMMA PushMetaStep ==
    ASSUME Inv, NEW w \in Workers, PushMeta(w)
    PROVE  \E k \in Places : StepsTo(w, k)
<1> DEFINE h == j.head
           next == NextUpage(h)
           clean == [j EXCEPT !.dirty = FALSE, !.root = proc[w].oldHead,
                              !.head = NextUpage(@)]
           rolled == RollStats(clean)
           synced == [rolled EXCEPT !.tailSync = j.tail]
<1>1. /\ proc[w].at = "check" /\ UNCHANGED request /\ nand' = AfterCheckpoint(w)
      /\ Proceed(w, synced)
  BY DEF PushMeta, At, OnFlash
<1>2. proc[w] \in Appends /\ Fits(nand, j, proc[w])
  BY <1>1, AppendingAt
<1>3. /\ Room(j) /\ JournalOK(j) /\ j \in Journal /\ h \in UserPages
      /\ proc[w].oldHead = h
  BY <1>1, <1>2 DEF Fits, Inv, LogInv, JournalOK, Journal
<1>4. FlashOK(nand') /\ (next % Ppb # 0 => Ready(nand', next, next))
  BY <1>1, CheckpointProgrammed
<1>5. JournalOK(clean) /\ clean.head = next /\ clean.tail = j.tail
  <2> DEFINE k == [j EXCEPT !.root = h, !.head = next]
  <2>1. JournalOK(k) /\ k.head = next /\ k.tail = j.tail /\ k.tailSync = j.tailSync
    BY <1>3, HeadMoved, ZenonT(40) DEF Room
  <2>2. clean = [k EXCEPT !.dirty = FALSE] /\ FALSE \in BOOLEAN
    BY <1>3 DEF Journal
  <2> HIDE DEF k, clean
  <2>3. clean \in Journal
    BY <2>1, <2>2 DEF JournalOK, Journal
  <2>4. /\ clean.head = k.head /\ clean.tail = k.tail
        /\ clean.tailSync = k.tailSync
    BY <2>1, <2>2 DEF JournalOK, Journal
  <2> QED BY <2>1, <2>3, <2>4 DEF JournalOK
<1> HIDE DEF clean, next
<1>6. JournalOK(rolled) /\ rolled.head = next /\ rolled.tail = j.tail
  BY <1>5, RollStatsType DEF JournalOK
<1> HIDE DEF rolled
<1>7. JournalOK(synced) /\ synced.head = next
  <2>1. synced = [rolled EXCEPT !.tailSync = rolled.tail]
    BY <1>6
  <2> QED BY <1>6, <2>1, SyncedType
<1> HIDE DEF synced
<1>8. JournalOK(j') /\ j'.head = next
  BY <1>1, <1>2, <1>7, ProceedType
<1>9. Settled(nand', j')
  BY <1>4, <1>8 DEF Settled
<1>10. PICK k \in Places :
             /\ k.at \in {"idle", "gc", "sync"} /\ Goto(w, k)
             /\ IF k = Idle THEN \E r \in Replies : reply' = [reply EXCEPT ![w] = r]
                ELSE UNCHANGED reply
  BY <1>1, <1>2, <1>7, ProceedType
<1>11. Fits(nand', j', k)
  BY <1>9, <1>10, OtherFits
<1> QED BY <1>1, <1>4, <1>8, <1>10, <1>11 DEF StepsTo

LEMMA WorkStepExists ==
    ASSUME Inv, NEW w \in Workers, Work(w)
    PROVE  proc[w] # Idle /\ \E k \in Places : StepsTo(w, k)
<1>1. proc[w].at \in {"gc", "serve", "sync", "head", "erase", "program", "check"}
  BY DEF Work, Gc, Carry, Sync, PrepareHead, Erase, Program, PushMeta, At
<1>2. proc[w] # Idle
  BY <1>1 DEF Idle
<1>3. \E k \in Places : StepsTo(w, k)
  BY GcStep, CarryStep, SyncStep, PrepareHeadStep, EraseStep, ProgramStep,
     PushMetaStep DEF Work
<1> QED BY <1>2, <1>3

LEMMA AskStep ==
    ASSUME Inv, Exclusive, NEW w \in Workers, NEW r \in Requests, Ask(w, r)
    PROVE  Inv'
<1>1. /\ Quiet /\ request' = [request EXCEPT ![w] = r] /\ request[w] = NoRequest
      /\ proc' = [proc EXCEPT ![w] = Entry(r)] /\ nand' = nand /\ j' = j
      /\ reply' = reply
  BY DEF Ask, Goto
<1>2. Entry(r) \in Places /\ Entry(r) # Idle
      /\ Entry(r).at \in {"gc", "serve", "sync"}
  <2>1. Rounds \in Int
    BY GeometryAssumption DEF Rounds
  <2>2. Collect(Rounds) \in Places /\ Collect(Rounds).at = "gc"
    BY <2>1 DEF Collect, Places, Thens
  <2>3. Serve \in Places /\ SyncLoop \in Places /\ Serve.at = "serve"
        /\ SyncLoop.at = "sync" /\ Idle.at = "idle"
    BY DEF Places, Thens, Serve, SyncLoop, Idle
  <2>4. Entry(r) \in {Serve, SyncLoop, Collect(Rounds)}
    BY DEF Entry
  <2> HIDE DEF Entry
  <2> QED BY <2>2, <2>3, <2>4
<1> DEFINE k == Entry(r)
<1> HIDE DEF k
<1>3. TypeInv'
  BY <1>1, <1>2 DEF Inv, TypeInv, k
<1>4. \A v \in Workers : proc[v] = Idle /\ (v # w => proc'[v] = Idle)
  BY <1>1, <1>2 DEF Quiet, Inv, TypeInv
<1>5. proc'[w] = k /\ request'[w] = r /\ reply[w] = NoReply
  BY <1>1 DEF Inv, TypeInv, CallInv, k
<1>6. CallInv'
  BY <1>1, <1>4, <1>5, ClientAssumption DEF Inv, CallInv, TypeInv
<1>7. LogInv'
  <2>1. Settled(nand, j) /\ FlashOK(nand) /\ JournalOK(j)
    BY <1>1 DEF Inv, LogInv
  <2>2. Fits(nand, j, k)
    BY <1>2, <2>1, OtherFits DEF k
  <2> QED BY <1>1, <1>2, <1>4, <1>5, <2>1, <2>2 DEF LogInv, Quiet
<1> QED BY <1>3, <1>6, <1>7 DEF Inv

LEMMA TakeStep ==
    ASSUME Inv, NEW w \in Workers, Take(w)
    PROVE  Inv'
<1>1. /\ reply[w] # NoReply /\ request' = [request EXCEPT ![w] = NoRequest]
      /\ reply' = [reply EXCEPT ![w] = NoReply]
      /\ nand' = nand /\ j' = j /\ proc' = proc
  BY DEF Take
<1>2. proc[w] = Idle
  BY <1>1 DEF Inv, CallInv
<1>3. TypeInv'
  BY <1>1 DEF Inv, TypeInv
<1>4. CallInv'
  BY <1>1, <1>2 DEF Inv, CallInv, TypeInv
<1>5. LogInv'
  BY <1>1 DEF Inv, LogInv, Quiet
<1> QED BY <1>3, <1>4, <1>5 DEF Inv

\* What a reset may find on the flash.
LEMMA InFlightOK ==
    ASSUME Inv, NEW w \in Workers, NEW n \in InFlight(w)
    PROVE  FlashOK(n)
<1>1. FlashOK(nand)
  BY DEF Inv, LogInv
<1>2. CASE proc[w].at = "erase"
  <2>1. n = Erased(nand, Block(j.head)) \/ n = Ruined(nand, Block(j.head))
    BY <1>2 DEF InFlight
  <2>2. PICK page \in {Free, Torn} :
               n = [p \in Pages |-> IF Block(p) = Block(j.head) THEN page ELSE nand[p]]
    BY <2>1 DEF Erased, Ruined
  <2> QED BY <1>1, <2>2, BlockErased
<1>3. CASE proc[w].at = "program" /\ proc[w].source # Blankness
  <2>1. n = AfterData(w) \/ n = [nand EXCEPT ![j.head] = Torn]
    BY <1>3 DEF InFlight
  <2> QED BY <1>3, <2>1, DataProgrammed
<1>4. CASE proc[w].at = "check"
  <2>1. n = AfterCheckpoint(w) \/ n = [nand EXCEPT ![j.head + 1] = Torn]
    BY <1>4 DEF InFlight
  <2> QED BY <1>4, <2>1, CheckpointProgrammed
<1> QED BY <1>2, <1>3, <1>4 DEF InFlight

LEMMA CrashStep ==
    ASSUME Inv, Crash
    PROVE  Inv'
<1>1. PICK n \in {nand} \cup UNION {InFlight(w) : w \in Workers} :
            nand' = n /\ j' = Resume(n)
  BY DEF Crash, OnFlash
<1>2. FlashOK(n)
  BY <1>1, InFlightOK DEF Inv, LogInv
<1>3. JournalOK(j') /\ Settled(nand', j')
  BY <1>1, <1>2, ResumeOK DEF Settled
<1>4. /\ proc' = [w \in Workers |-> Idle]
      /\ request' = [w \in Workers |-> NoRequest]
      /\ reply' = [w \in Workers |-> NoReply]
  BY DEF Crash
<1>5. Idle \in Places
  BY DEF Places, Thens
<1>6. TypeInv' /\ CallInv'
  BY <1>4, <1>5 DEF TypeInv, CallInv
<1>7. LogInv'
  BY <1>1, <1>2, <1>3, <1>4 DEF LogInv
<1> QED BY <1>6, <1>7 DEF Inv

LEMMA InitInv == Init => Inv
<1> SUFFICES ASSUME Init PROVE Inv
  OBVIOUS
<1>1. /\ nand = [p \in Pages |-> Free] /\ j = Resume(nand)
      /\ proc = [w \in Workers |-> Idle]
      /\ request = [w \in Workers |-> NoRequest]
      /\ reply = [w \in Workers |-> NoReply]
  BY DEF Init
<1>2. nand \in Flash /\ \A p \in Pages : nand[p] = Free
  BY <1>1 DEF Flash
<1>3. FlashOK(nand)
  BY <1>2, FreeHasNoFields DEF FlashOK, Described, Filled, FreeOn, Checkpoints
<1>4. JournalOK(j) /\ Settled(nand, j)
  BY <1>1, <1>3, ResumeOK DEF Settled
<1>5. Idle \in Places
  BY DEF Places, Thens
<1>6. TypeInv /\ CallInv
  BY <1>1, <1>5 DEF TypeInv, CallInv
<1>7. LogInv
  BY <1>1, <1>3, <1>4 DEF LogInv
<1> QED BY <1>6, <1>7 DEF Inv

LEMMA NextInv ==
    ASSUME Exclusive, Inv, [Next]_vars
    PROVE  Inv'
<1>1. CASE UNCHANGED vars
  BY <1>1 DEF vars, Inv, TypeInv, CallInv, LogInv, Quiet
<1>2. ASSUME NEW w \in Workers, Work(w) PROVE Inv'
  <2>1. proc[w] # Idle
    BY <1>2, WorkStepExists
  <2>2. PICK k \in Places : StepsTo(w, k)
    BY <1>2, WorkStepExists
  <2> QED BY <2>1, <2>2, WorkStep
<1>3. CASE Next
  BY <1>2, <1>3, AskStep, TakeStep, CrashStep DEF Next
<1> QED BY <1>1, <1>3

\* The log is in order in every state, whatever is written and whenever the
\* resets come: the tails are not beyond the head, what is behind an open
\* group is free, and a worker that is about to program finds its page free.
THEOREM LogInOrder == ASSUME Exclusive PROVE Spec => []Inv
BY InitInv, NextInv, PTL DEF Spec

-----------------------------------------------------------------------------
(* Every step only appends to the log.                                     *)

MayBecome(n, p) ==
    n[p] # nand[p] =>
      /\ ~InLog(p)
      /\ \/ FreeOn(nand, p)
         \/ \E page \in {Free, Torn} : \A q \in Pages :
              Block(q) = Block(p) => n[q] = page

LEMMA ErasesBeyondLog ==
    ASSUME Inv, NEW w \in Workers, proc[w].at = "erase",
           NEW p \in Pages, Block(p) = Block(j.head)
    PROVE  ~InLog(p)
<1> DEFINE h == j.head
           t == j.tailSync
<1>1. Fits(nand, j, proc[w]) /\ JournalOK(j)
  BY AppendingAt DEF Inv, LogInv
<1>2. /\ h % Ppb = 0 /\ h \in Pages /\ t \in Pages /\ Behind(t, h)
  BY <1>1 DEF Fits, JournalOK, Journal, UserPages, InOrder
<1> HIDE DEF h, t
<1>3. h \in Int /\ t \in Int /\ p \in Int
  BY <1>2 DEF Pages
<1>4. h <= p
  BY <1>2, <1>3, Aligned, BlockOf DEF FirstOf, h
<1>5. t <= p => Block(t) <= Block(h)
  BY <1>2, BlockOrder DEF h
<1>6. h <= t => Block(h) <= Block(t)
  BY <1>2, BlockOrder
<1>7. Block(t) \in Int /\ Block(h) \in Int
  BY <1>2, BlockOf
<1>8. ~Within(t, h, p)
  BY <1>2, <1>3, <1>4, <1>5, <1>6, <1>7 DEF Within, Behind
<1> QED BY <1>8 DEF InLog, h, t

LEMMA InFlightAppends ==
    ASSUME Inv, NEW w \in Workers, NEW n \in InFlight(w), NEW p \in Pages
    PROVE  MayBecome(n, p)
<1> SUFFICES ASSUME n[p] # nand[p]
             PROVE  /\ ~InLog(p)
                    /\ \/ FreeOn(nand, p)
                       \/ \E page \in {Free, Torn} : \A q \in Pages :
                            Block(q) = Block(p) => n[q] = page
  BY DEF MayBecome
<1>1. /\ j.head \in UserPages /\ j.head \in Int /\ j.tailSync \in UserPages
      /\ j.tailSync \in Int
  BY UserPage DEF Inv, LogInv, JournalOK, Journal
<1>2. CASE proc[w].at = "erase"
  <2>1. PICK page \in {Free, Torn} :
               n = [q \in Pages |-> IF Block(q) = Block(j.head) THEN page ELSE nand[q]]
    BY <1>2 DEF InFlight, Erased, Ruined
  <2>2. Block(p) = Block(j.head)
    BY <2>1
  <2>3. \A q \in Pages : Block(q) = Block(p) => n[q] = page
    BY <2>1, <2>2
  <2> QED BY <1>2, <2>2, <2>3, ErasesBeyondLog
<1>3. CASE proc[w].at = "program" /\ proc[w].source # Blankness
  <2>1. n = AfterData(w) \/ n = [nand EXCEPT ![j.head] = Torn]
    BY <1>3 DEF InFlight
  <2>2. p = j.head
    BY <1>3, <2>1, DataProgrammed
  <2>3. Fits(nand, j, proc[w])
    BY <1>3, AppendingAt
  <2>4. FreeOn(nand, p)
    BY <1>3, <2>2, <2>3 DEF Fits, Ready
  <2>5. ~InLog(p)
    BY <1>1, <2>2 DEF InLog, Within
  <2> QED BY <2>4, <2>5
<1>4. CASE proc[w].at = "check"
  <2>1. n = AfterCheckpoint(w) \/ n = [nand EXCEPT ![j.head + 1] = Torn]
    BY <1>4 DEF InFlight
  <2>2. p = j.head + 1
    BY <1>4, <2>1, CheckpointProgrammed
  <2>3. Fits(nand, j, proc[w])
    BY <1>4, AppendingAt
  <2>4. FreeOn(nand, p) /\ (j.head + 2) % Ppc = 0
    BY <1>4, <2>2, <2>3 DEF Fits, Ready
  <2>5. j.tailSync # p
    BY <1>1, <2>2, <2>4, NextUserPage DEF UserPages, Checkpoints
  <2>6. ~InLog(p)
    BY <1>1, <2>2, <2>5 DEF InLog, Within
  <2> QED BY <2>4, <2>6
<1> QED BY <1>2, <1>3, <1>4 DEF InFlight

LEMMA StepAppends ==
    ASSUME Inv, [Next]_vars, NEW p \in Pages
    PROVE  MayBecome(nand', p)
<1>1. CASE nand' = nand
  BY <1>1 DEF MayBecome
<1>2. ASSUME NEW w \in Workers, Erase(w) PROVE MayBecome(nand', p)
  <2>1. nand' \in InFlight(w)
    BY <1>2 DEF Erase, At, OnFlash, InFlight
  <2> QED BY <2>1, InFlightAppends
<1>3. ASSUME NEW w \in Workers, Program(w), nand' # nand
      PROVE  MayBecome(nand', p)
  <2>1. proc[w].at = "program" /\ nand' = AfterData(w)
    BY <1>3 DEF Program, At, OnFlash
  <2>2. nand' \in InFlight(w)
    BY <1>3, <2>1 DEF InFlight, AfterData
  <2> QED BY <2>2, InFlightAppends
<1>4. ASSUME NEW w \in Workers, PushMeta(w) PROVE MayBecome(nand', p)
  <2>1. nand' \in InFlight(w)
    BY <1>4 DEF PushMeta, At, OnFlash, InFlight
  <2> QED BY <2>1, InFlightAppends
<1>5. ASSUME Crash, nand' # nand PROVE MayBecome(nand', p)
  <2>1. PICK w \in Workers : nand' \in InFlight(w)
    BY <1>5 DEF Crash, OnFlash
  <2> QED BY <2>1, InFlightAppends
<1>6. ASSUME NEW w \in Workers, Work(w), nand' # nand PROVE MayBecome(nand', p)
  BY <1>2, <1>3, <1>4, <1>6 DEF Work, Gc, Carry, Sync, PrepareHead
<1>7. ASSUME NEW w \in Workers,
             (\E r \in Requests : Ask(w, r)) \/ Take(w)
      PROVE  nand' = nand
  BY <1>7 DEF Ask, Take
<1> QED BY <1>1, <1>5, <1>6, <1>7 DEF Next, vars

\* No call, no garbage collection and no reset touches a page of the log or
\* programs out of order, on a chip of any geometry.
THEOREM AppendsOnlyHolds == ASSUME Exclusive PROVE Spec => AppendsOnly
<1>1. ASSUME Inv, [Next]_vars
      PROVE  \A p \in Pages : nand'[p] # nand[p] =>
               /\ ~InLog(p)
               /\ \/ FreeOn(nand, p)
                  \/ \E page \in {Free, Torn} : \A q \in Pages :
                       Block(q) = Block(p) => nand'[q] = page
  BY <1>1, StepAppends DEF MayBecome
<1>2. Spec => []Inv
  BY LogInOrder
<1> QED BY <1>1, <1>2, PTL DEF Spec, AppendsOnly

-----------------------------------------------------------------------------
(* The tree.  Two sectors agree before a level when the bits above it are  *)
(* the same.                                                               *)

Agree(s, t, d) == \A e \in 1..Depth : e < d => Bit(s, e) = Bit(t, e)

LEMMA FirstDifference ==
    ASSUME NEW s \in Sectors, NEW t \in Sectors, s # t
    PROVE  \E e \in 1..Depth : Agree(s, t, e) /\ Bit(s, e) # Bit(t, e)
<1> DEFINE D == {e \in 1..Depth : Bit(s, e) # Bit(t, e)}
<1>1. Depth \in Nat /\ D # {} /\ D \subseteq Nat
  BY GeometryAssumption, SectorAssumption
<1>2. PICK e \in D : \A i \in D : e <= i
  <2> HIDE DEF D
  <2> QED BY <1>1, LeastNatural
<1>3. \A i \in 1..Depth : i < e => i \notin D
  BY <1>1, <1>2
<1>4. Agree(s, t, e)
  BY <1>3 DEF Agree
<1> QED BY <1>2, <1>4

\* A bit is one of two.
LEMMA Binary ==
    ASSUME NEW s \in Sectors, NEW t \in Sectors, NEW u \in Sectors,
           NEW d \in 1..Depth, Bit(s, d) # Bit(t, d)
    PROVE  Bit(s, d) = Bit(u, d) <=> Bit(t, d) # Bit(u, d)
<1>1. \A x \in Sectors : Bit(x, d) \in {0, 1}
  BY SectorAssumption
<1>2. Bit(s, d) \in {0, 1} /\ Bit(t, d) \in {0, 1} /\ Bit(u, d) \in {0, 1}
  BY <1>1
<1> QED BY <1>2

(* Nothing that was programmed is unreadable, and checkpoints and data are *)
(* where they belong.                                                      *)
Clean(n) ==
    /\ \A p \in UserPages : n[p].kind \in {"free", "user"}
    /\ \A c \in Checkpoints : n[c].kind \in {"free", "checkpoint"}

LEMMA CleanMeta ==
    ASSUME NEW n \in Flash, Clean(n), NEW jj \in Journal, NEW p \in UserPages
    PROVE  ReadMeta(n, jj, p) \in Meta
<1> DEFINE c == CheckpointOf(Group(p))
           i == p % Ppc
<1>1. i \in 0..Ppc - 2 /\ p \in Pages
  BY UserPage
<1>2. c \in Checkpoints /\ c \in Pages
  BY <1>1, CheckpointInGroup DEF Checkpoints
<1>3. jj.metas \in Metas
  BY DEF Journal
<1>4. NoMeta \in Meta
  BY DEF NoMeta, Meta, Pointers
<1>5. n[c].kind = "checkpoint" => n[c].metas \in Metas
  BY <1>2, CheckpointPage DEF CheckpointData
<1>6. n[c].kind # "checkpoint" => n[c] = Free
  BY <1>2, FreeHasNoFields DEF Clean, Flash, UserData, CheckpointData
<1> HIDE DEF c, i
<1>7. jj.metas[i] \in Meta /\ (n[c].kind = "checkpoint" => n[c].metas[i] \in Meta)
  BY <1>1, <1>3, <1>5 DEF Metas
<1> QED BY <1>4, <1>6, <1>7 DEF ReadMeta, IsCheckpoint, c, i

\* One level down.
LEMMA DescendIs ==
    ASSUME NEW n \in Flash, NEW jj \in Journal, NEW s, NEW d \in 1..Depth
    PROVE  /\ Descend(n, jj, s, None, d) = None
           /\ \A p \in UserPages :
                /\ ReadMeta(n, jj, p).id = None => Descend(n, jj, s, p, d) = None
                /\ ReadMeta(n, jj, p).id \in Sectors =>
                     Descend(n, jj, s, p, d) =
                       IF Bit(s, d) # Bit(ReadMeta(n, jj, p).id, d)
                       THEN ReadMeta(n, jj, p).alt[d] ELSE p
<1>1. Descend(n, jj, s, None, d) = None
  BY DEF Descend, None
<1>2. ASSUME NEW p \in UserPages
      PROVE  /\ ReadMeta(n, jj, p).id = None => Descend(n, jj, s, p, d) = None
             /\ ReadMeta(n, jj, p).id \in Sectors =>
                  Descend(n, jj, s, p, d) =
                    IF Bit(s, d) # Bit(ReadMeta(n, jj, p).id, d)
                    THEN ReadMeta(n, jj, p).alt[d] ELSE p
  <2>1. ~(p < 0)
    BY UserPage
  <2> DEFINE meta == ReadMeta(n, jj, p)
             id == meta.id
  <2>2. meta.id = None => meta.id < 0
    BY DEF None
  <2>3. id \in Sectors => ~(id < 0)
    <3> HIDE DEF id
    <3> QED BY SectorAssumption
  <2> HIDE DEF meta
  <2> QED BY <2>1, <2>2, <2>3 DEF Descend, Turns, meta
<1> QED BY <1>1, <1>2

LEMMA WalkStep1 ==
    ASSUME NEW n \in Flash, NEW jj \in Journal, NEW s, NEW d \in 1..Depth,
           NEW p, Walk(n, jj, s)[d] = p
    PROVE  /\ p = None => Walk(n, jj, s)[d + 1] = None
           /\ p \in UserPages /\ ReadMeta(n, jj, p).id = None
                => Walk(n, jj, s)[d + 1] = None
           /\ p \in UserPages /\ ReadMeta(n, jj, p).id \in Sectors
                => Walk(n, jj, s)[d + 1] =
                     IF Bit(s, d) # Bit(ReadMeta(n, jj, p).id, d)
                     THEN ReadMeta(n, jj, p).alt[d] ELSE p
<1>1. Walk(n, jj, s)[d + 1] = Descend(n, jj, s, p, d)
  BY WalkIs
<1> QED BY <1>1, DescendIs

\* A walk stays on the page of a sector that it agrees with.
LEMMA Stays ==
    ASSUME NEW n \in Flash, NEW jj \in Journal, NEW t, NEW p \in UserPages,
           ReadMeta(n, jj, p).id \in Sectors,
           NEW d \in 1..Depth + 1, NEW e \in d..Depth + 1,
           Walk(n, jj, t)[d] = p, Agree(t, ReadMeta(n, jj, p).id, e)
    PROVE  Walk(n, jj, t)[e] = p
<1> DEFINE walk == Walk(n, jj, t)
           P == {k \in d..e : walk[k] = p}
<1>1. Depth \in Nat /\ d \in Int /\ e \in Int /\ d <= e
  BY GeometryAssumption
<1>2. d \in P
  BY <1>1
<1>3. ASSUME NEW k \in d..e - 1, k \in P PROVE k + 1 \in P
  <2>1. k \in 1..Depth /\ k < e /\ k + 1 \in d..e /\ walk[k] = p
    BY <1>1, <1>3
  <2>2. Bit(t, k) = Bit(ReadMeta(n, jj, p).id, k)
    BY <2>1 DEF Agree
  <2>3. walk[k + 1] = p
    BY <2>1, <2>2, WalkStep1
  <2> QED BY <2>1, <2>3
<1>4. d..e \subseteq P
  <2> HIDE DEF P
  <2> QED BY <1>1, <1>2, <1>3, UpTo
<1>5. e \in d..e
  BY <1>1
<1> QED BY <1>4, <1>5

\* A walk that has ended has ended.
LEMMA Ended ==
    ASSUME NEW n \in Flash, NEW jj \in Journal, NEW t,
           NEW d \in 1..Depth + 1, NEW e \in d..Depth + 1,
           Walk(n, jj, t)[d] = None
    PROVE  Walk(n, jj, t)[e] = None
<1> DEFINE walk == Walk(n, jj, t)
           P == {k \in d..e : walk[k] = None}
<1>1. Depth \in Nat /\ d \in Int /\ e \in Int /\ d <= e
  BY GeometryAssumption
<1>2. d \in P
  BY <1>1
<1>3. ASSUME NEW k \in d..e - 1, k \in P PROVE k + 1 \in P
  <2>1. k \in 1..Depth /\ k + 1 \in d..e /\ walk[k] = None
    BY <1>1, <1>3
  <2>2. walk[k + 1] = Descend(n, jj, t, None, k)
    BY <2>1, WalkIs
  <2>3. walk[k + 1] = None
    BY <2>1, <2>2, DescendIs
  <2> QED BY <2>1, <2>3
<1>4. d..e \subseteq P
  <2> HIDE DEF P
  <2> QED BY <1>1, <1>2, <1>3, UpTo
<1>5. e \in d..e
  BY <1>1
<1> QED BY <1>4, <1>5

\* Walks to two sectors are the same as long as the sectors agree.
LEMMA WalksAgree ==
    ASSUME NEW n \in Flash, NEW jj \in Journal, NEW s, NEW t,
           NEW d \in 1..Depth + 1, Agree(s, t, d)
    PROVE  Walk(n, jj, t)[d] = Walk(n, jj, s)[d]
<1> DEFINE P == {k \in 1..d : Walk(n, jj, t)[k] = Walk(n, jj, s)[k]}
<1>1. Depth \in Nat /\ d \in Int
  BY GeometryAssumption
<1>2. 1 \in P
  BY <1>1, WalkIs
<1>3. ASSUME NEW k \in 1..d - 1, k \in P PROVE k + 1 \in P
  <2>1. k \in 1..Depth /\ k < d /\ k + 1 \in 1..d
    BY <1>1
  <2>2. Bit(s, k) = Bit(t, k)
    BY <2>1 DEF Agree
  <2> DEFINE p == Walk(n, jj, s)[k]
  <2>3. Walk(n, jj, t)[k] = p
    BY <1>3
  <2>4. /\ Walk(n, jj, t)[k + 1] = Descend(n, jj, t, p, k)
        /\ Walk(n, jj, s)[k + 1] = Descend(n, jj, s, p, k)
    BY <2>1, <2>3, WalkIs
  <2>5. Descend(n, jj, t, p, k) = Descend(n, jj, s, p, k)
    BY <2>2 DEF Descend, Turns
  <2> QED BY <2>1, <2>4, <2>5
<1>4. 1..d \subseteq P
  <2> HIDE DEF P
  <2> QED BY <1>1, <1>2, <1>3, UpTo
<1>5. d \in 1..d
  BY <1>1
<1> QED BY <1>4, <1>5

(* The page of a sector on the walk to sector s: a sector that agrees with *)
(* s, and pointers to sectors that branch off from it.                     *)
Branches(n, jj, p, e) ==
    LET x == ReadMeta(n, jj, p)
        y == ReadMeta(n, jj, x.alt[e])
    IN  x.alt[e] # None => /\ y.id \in Sectors /\ Agree(y.id, x.id, e)
                           /\ Bit(y.id, e) # Bit(x.id, e)

Node(n, jj, s, d, p) ==
    LET id == ReadMeta(n, jj, p).id
    IN  /\ id \in Sectors /\ Agree(s, id, d)
        /\ n[p].kind = "user" /\ n[p].data \in Data
        /\ \A e \in d..Depth : Branches(n, jj, p, e)

(* Every walk stays in the log and on such pages, but for the root of a    *)
(* tree without sectors.                                                   *)
Stands(n, jj, s, d, p) ==
    /\ p \in UserPages /\ Within(jj.tail, jj.head, p)
    /\ \/ d = 1 /\ ReadMeta(n, jj, p).id = None
       \/ Node(n, jj, s, d, p)

TreeOK(n, jj) ==
    /\ jj.root # None => Within(jj.tail, jj.head, jj.root)
    /\ \A s \in Sectors, d \in 1..Depth + 1 :
         Walk(n, jj, s)[d] # None => Stands(n, jj, s, d, Walk(n, jj, s)[d])

(* A pointer on a walk is on the walk to its sector.                       *)
LEMMA PointerStands ==
    ASSUME NEW n \in Flash, NEW jj \in Journal, TreeOK(n, jj),
           NEW s \in Sectors, NEW d \in 1..Depth, NEW e \in d..Depth,
           NEW p, p = Walk(n, jj, s)[d], Node(n, jj, s, d, p), p # None,
           NEW q, q = ReadMeta(n, jj, p).alt[e], q # None,
           NEW c, c = ReadMeta(n, jj, q).id
    PROVE  /\ c \in Sectors /\ Agree(c, ReadMeta(n, jj, p).id, e)
           /\ Bit(c, e) # Bit(ReadMeta(n, jj, p).id, e)
           /\ Walk(n, jj, c)[e + 1] = q /\ e + 1 \in 1..Depth + 1
           /\ Stands(n, jj, c, e + 1, q) /\ Node(n, jj, c, e + 1, q)
<1> DEFINE x == ReadMeta(n, jj, p).id
<1>1. Depth \in Nat /\ d \in Int /\ e \in Int /\ d <= e /\ e \in 1..Depth
      /\ e \in d..Depth + 1 /\ e + 1 \in 1..Depth + 1 /\ d \in 1..Depth + 1
      /\ e + 1 # 1
  BY GeometryAssumption
<1>2. p \in UserPages
  BY <1>1 DEF TreeOK, Stands
<1>3. x \in Sectors /\ Agree(s, x, d) /\ Branches(n, jj, p, e)
  BY DEF Node
<1>4. c \in Sectors /\ Agree(c, x, e) /\ Bit(c, e) # Bit(x, e)
  BY <1>3 DEF Branches
<1>5. Agree(s, c, d)
  BY <1>1, <1>3, <1>4 DEF Agree
<1>6. Walk(n, jj, c)[d] = p
  BY <1>1, <1>5, WalksAgree
<1>7. Walk(n, jj, c)[e] = p
  <2> HIDE DEF x
  <2>1. ReadMeta(n, jj, p).id \in Sectors /\ Agree(c, ReadMeta(n, jj, p).id, e)
    BY <1>3, <1>4 DEF x
  <2> QED BY <1>1, <1>2, <1>6, <2>1, Stays
<1>8. Walk(n, jj, c)[e + 1] = q
  BY <1>1, <1>2, <1>3, <1>4, <1>7, WalkStep1
<1>9. Stands(n, jj, c, e + 1, q)
  BY <1>1, <1>4, <1>8 DEF TreeOK
<1>10. Node(n, jj, c, e + 1, q)
  BY <1>1, <1>9 DEF Stands
<1> HIDE DEF x
<1> QED BY <1>1, <1>4, <1>8, <1>9, <1>10 DEF x

\* The page of a sector, if it has one, holds its data.
LEMMA SectorPage ==
    ASSUME NEW n \in Flash, NEW jj \in Journal, TreeOK(n, jj), NEW s \in Sectors
    PROVE  LET p == TracePath(n, jj, s).page
           IN  /\ p = Walk(n, jj, s)[Depth + 1]
               /\ p # None => /\ p \in UserPages /\ Within(jj.tail, jj.head, p)
                              /\ ReadMeta(n, jj, p).id = s
                              /\ n[p].kind = "user" /\ n[p].data \in Data
               /\ p \in UserPages \cup {None} /\ p # Unreadable
<1> DEFINE p == Walk(n, jj, s)[Depth + 1]
<1>1. Depth + 1 \in 1..Depth + 1 /\ Depth + 1 # 1 /\ Depth \in Nat
  BY GeometryAssumption
<1>2. p # None => Stands(n, jj, s, Depth + 1, p) /\ Node(n, jj, s, Depth + 1, p)
  BY <1>1 DEF TreeOK, Stands
<1>3. p # None => /\ p \in UserPages /\ Within(jj.tail, jj.head, p)
                  /\ n[p].kind = "user" /\ n[p].data \in Data
                  /\ ReadMeta(n, jj, p).id \in Sectors
  BY <1>2 DEF Stands, Node
<1>4. p # None => ReadMeta(n, jj, p).id = s
  <2> SUFFICES ASSUME p # None, ReadMeta(n, jj, p).id # s PROVE FALSE
    OBVIOUS
  <2> DEFINE c == ReadMeta(n, jj, p).id
  <2>1. c \in Sectors /\ Agree(s, c, Depth + 1)
    BY <1>2 DEF Node
  <2> HIDE DEF c
  <2>2. c # s
    BY DEF c
  <2>3. PICK e \in 1..Depth : Bit(s, e) # Bit(c, e)
    BY <2>1, <2>2, FirstDifference
  <2>4. e < Depth + 1
    BY <1>1
  <2> QED BY <2>1, <2>3, <2>4 DEF Agree
<1>5. p >= 0 => p # None
  BY DEF None
<1>6. None # Unreadable /\ \A k \in UserPages : k # None /\ k # Unreadable
  BY UserPage DEF None, Unreadable
<1>7. p # None => ReadMeta(n, jj, p).id # Unreadable
  <2> DEFINE c == ReadMeta(n, jj, p).id
  <2>1. p # None => c \in Sectors
    BY <1>3
  <2> HIDE DEF c
  <2>2. p # None => c # Unreadable
    BY <2>1, SectorAssumption DEF Unreadable
  <2> QED BY <2>2 DEF c
<1>8. TracePath(n, jj, s).page = p
  <2>1. TracePath(n, jj, s).page =
          IF p >= 0 /\ ReadMeta(n, jj, p).id = Unreadable THEN Unreadable ELSE p
    BY DEF TracePath, Arrival, OtherHalf
  <2> HIDE DEF p
  <2> QED BY <1>5, <1>7, <2>1
<1> HIDE DEF p
<1> QED BY <1>3, <1>4, <1>6, <1>8 DEF p

(* Metadata that, on a new root, leave every sector where it was but       *)
(* their own, which gets the root, and the one that is to go.              *)
Grafts(n, jj, meta, gone) ==
    /\ meta.id \in Sectors
    /\ \A e \in 1..Depth : meta.alt[e] # None =>
         LET c == ReadMeta(n, jj, meta.alt[e]).id
         IN  /\ c \in Sectors /\ Agree(c, meta.id, e) /\ Bit(c, e) # Bit(meta.id, e)
             /\ Walk(n, jj, c)[e + 1] = meta.alt[e]
    /\ \A t \in Sectors, e \in 1..Depth :
         Agree(t, meta.id, e) /\ Bit(t, e) # Bit(meta.id, e) =>
           IF t = gone THEN meta.alt[e] = None
           ELSE \/ meta.alt[e] = Walk(n, jj, t)[e + 1]
                \/ meta.alt[e] = None /\ Walk(n, jj, t)[Depth + 1] = None

\* The pointer that a new page gets on a level.
LEMMA PathAltIs ==
    ASSUME NEW n \in Flash, NEW jj \in Journal, NEW s, NEW e \in 1..Depth,
           NEW p, p = Walk(n, jj, s)[e]
    PROVE  LET alt == TracePath(n, jj, s).alt[e]
               x == ReadMeta(n, jj, p)
           IN  /\ p = None => alt = None
               /\ p \in UserPages /\ x.id = None => alt = None
               /\ p \in UserPages /\ x.id \in Sectors =>
                    alt = IF Bit(s, e) # Bit(x.id, e) THEN p ELSE x.alt[e]
<1> DEFINE x == ReadMeta(n, jj, p)
           id == x.id
           alt == TracePath(n, jj, s).alt[e]
<1>1. alt = IF p < 0 \/ id < 0 THEN None
            ELSE IF Bit(s, e) # Bit(id, e) THEN p ELSE x.alt[e]
  BY DEF TracePath, Arrival, OtherHalf, Turns
<1> HIDE DEF alt, id
<1>2. p = None => p < 0
  BY DEF None
<1>3. id = None => id < 0
  BY DEF None
<1>4. p \in UserPages => ~(p < 0)
  BY UserPage
<1>5. id \in Sectors => ~(id < 0)
  BY SectorAssumption
<1>6. p = None => alt = None
  BY <1>1, <1>2
<1>7. id = None => alt = None
  BY <1>1, <1>3
<1>8. p \in UserPages /\ id \in Sectors =>
        alt = IF Bit(s, e) # Bit(id, e) THEN p ELSE x.alt[e]
  BY <1>1, <1>4, <1>5
<1> QED BY <1>6, <1>7, <1>8 DEF alt, id

LEMMA PathGrafts ==
    ASSUME NEW n \in Flash, NEW jj \in Journal, TreeOK(n, jj), NEW s \in Sectors
    PROVE  Grafts(n, jj, MetaFor(s, TracePath(n, jj, s)), None)
<1> DEFINE path == TracePath(n, jj, s)
           alt(e) == path.alt[e]
           W(t, e) == Walk(n, jj, t)[e]
           Id(p) == ReadMeta(n, jj, p).id
<1>1. /\ MetaFor(s, path).id = s
      /\ MetaFor(s, path).alt = path.alt
  BY DEF MetaFor
<1>2. Depth \in Nat /\ \A e \in 1..Depth :
        e \in 1..Depth + 1 /\ e + 1 \in 1..Depth + 1 /\ e \in e..Depth
  BY GeometryAssumption
<1>3. ASSUME NEW e \in 1..Depth
      PROVE  \/ W(s, e) = None
             \/ W(s, e) \in UserPages /\ Id(W(s, e)) = None
             \/ /\ W(s, e) \in UserPages /\ Id(W(s, e)) \in Sectors
                /\ W(s, e) # None /\ Node(n, jj, s, e, W(s, e))
                /\ Agree(s, Id(W(s, e)), e)
  BY <1>2, UserPage DEF TreeOK, Stands, Node
<1>4. ASSUME NEW e \in 1..Depth, alt(e) # None
      PROVE  LET c == Id(alt(e))
             IN  c \in Sectors /\ Agree(c, s, e) /\ Bit(c, e) # Bit(s, e)
                 /\ W(c, e + 1) = alt(e)
  <2> DEFINE p == W(s, e)
             x == Id(p)
             c == Id(alt(e))
  <2>1. /\ p \in UserPages /\ x \in Sectors /\ p # None /\ Node(n, jj, s, e, p)
        /\ Agree(s, x, e)
    BY <1>3, <1>4, PathAltIs
  <2>2. alt(e) = IF Bit(s, e) # Bit(x, e) THEN p ELSE ReadMeta(n, jj, p).alt[e]
    BY <2>1, PathAltIs
  <2>3. CASE Bit(s, e) # Bit(x, e)
    <3>1. alt(e) = p /\ c = x
      BY <2>2, <2>3
    <3>2. Agree(x, s, e)
      BY <2>1 DEF Agree
    <3>3. W(x, e) = p
      BY <1>2, <2>1, WalksAgree
    <3>4. W(x, e + 1) = p
      BY <2>1, <3>3, WalkStep1
    <3> QED BY <2>1, <2>3, <3>1, <3>2, <3>4
  <2>4. CASE Bit(s, e) = Bit(x, e)
    <3> DEFINE q == ReadMeta(n, jj, p).alt[e]
    <3>1. alt(e) = q /\ q # None /\ c = Id(q)
      BY <1>4, <2>2, <2>4
    <3>2. c \in Sectors /\ Agree(c, x, e) /\ Bit(c, e) # Bit(x, e)
          /\ W(c, e + 1) = q
      BY <1>2, <2>1, <3>1, PointerStands
    <3>3. Agree(c, s, e)
      BY <2>1, <3>2 DEF Agree
    <3> QED BY <2>4, <3>1, <3>2, <3>3
  <2> QED BY <2>3, <2>4
<1>5. ASSUME NEW t \in Sectors, NEW e \in 1..Depth, Agree(t, s, e),
             Bit(t, e) # Bit(s, e)
      PROVE  alt(e) = W(t, e + 1)
  <2> DEFINE p == W(s, e)
             x == Id(p)
  <2>1. Agree(s, t, e)
    BY <1>5 DEF Agree
  <2>2. W(t, e) = p
    BY <1>2, <2>1, WalksAgree
  <2>3. CASE p = None \/ (p \in UserPages /\ x = None)
    <3>1. alt(e) = None
      BY <2>3, PathAltIs
    <3>2. W(t, e + 1) = None
      <4>1. W(t, e + 1) = Descend(n, jj, t, p, e)
        BY <2>2, WalkIs
      <4> QED BY <2>3, <4>1, DescendIs
    <3> QED BY <3>1, <3>2
  <2>4. CASE p \in UserPages /\ x \in Sectors
    <3>1. alt(e) = IF Bit(s, e) # Bit(x, e) THEN p ELSE ReadMeta(n, jj, p).alt[e]
      BY <2>4, PathAltIs
    <3>2. W(t, e + 1) = IF Bit(t, e) # Bit(x, e) THEN ReadMeta(n, jj, p).alt[e]
                        ELSE p
      BY <2>2, <2>4, WalkStep1
    <3>3. Bit(t, e) = Bit(x, e) <=> Bit(s, e) # Bit(x, e)
      <4> HIDE DEF x
      <4> QED BY <1>5, <2>4, Binary
    <3> QED BY <3>1, <3>2, <3>3
  <2> QED BY <1>3, <2>3, <2>4
<1>6. ASSUME NEW t \in Sectors PROVE t # None
  BY SectorAssumption DEF None
<1> HIDE DEF path
<1> QED BY <1>1, <1>4, <1>5, <1>6 DEF Grafts, path

\* A sector that branches off is found where its pointer leads.
LEMMA GraftStands ==
    ASSUME NEW n \in Flash, NEW jj \in Journal, TreeOK(n, jj), NEW c \in Sectors,
           NEW e \in 1..Depth, NEW q, q = Walk(n, jj, c)[e + 1], q # None,
           ReadMeta(n, jj, q).id = c
    PROVE  /\ q \in UserPages /\ Within(jj.tail, jj.head, q)
           /\ Node(n, jj, c, e + 1, q) /\ TracePath(n, jj, c).page = q
<1>1. Depth \in Nat /\ e + 1 \in 1..Depth + 1 /\ e + 1 # 1
      /\ Depth + 1 \in e + 1..Depth + 1
  BY GeometryAssumption
<1>2. Stands(n, jj, c, e + 1, q)
  BY <1>1 DEF TreeOK
<1>3. q \in UserPages /\ Within(jj.tail, jj.head, q) /\ Node(n, jj, c, e + 1, q)
  BY <1>1, <1>2 DEF Stands
<1>4. Agree(c, c, Depth + 1)
  BY DEF Agree
<1>5. Walk(n, jj, c)[Depth + 1] = q
  BY <1>1, <1>3, <1>4, Stays
<1> QED BY <1>3, <1>5, SectorPage

LEMMA DeletionGrafts ==
    ASSUME NEW n \in Flash, NEW jj \in Journal, TreeOK(n, jj), NEW s \in Sectors,
           Cousins(TracePath(n, jj, s)) # {}
    PROVE  LET del == Deletion(n, jj, TracePath(n, jj, s))
               c   == del.meta.id
           IN  /\ c \in Sectors /\ c # s /\ Grafts(n, jj, del.meta, s)
               /\ TracePath(n, jj, c).page = del.page /\ del.page # None
<1> DEFINE path == TracePath(n, jj, s)
           level == CHOOSE d \in Cousins(path) : \A e \in Cousins(path) : e <= d
           q == path.alt[level]
           x == ReadMeta(n, jj, q)
           c == x.id
           alt == [d \in 1..Depth |-> IF d < level THEN path.alt[d]
                                      ELSE IF d = level THEN None ELSE x.alt[d]]
           del == Deletion(n, jj, path)
           W(t, e) == Walk(n, jj, t)[e]
<1>1. del.page = q /\ del.meta = [id |-> c, alt |-> alt]
  BY DEF Deletion
<1>2. level \in Cousins(path) /\ \A e \in Cousins(path) : e <= level
  <2> DEFINE S == Cousins(path)
  <2>1. S \subseteq 1..Depth /\ Depth \in Int /\ 1 \in Nat /\ S # {}
    BY GeometryAssumption DEF Cousins
  <2>2. level = CHOOSE d \in S : \A e \in S : e <= d
    OBVIOUS
  <2> HIDE DEF S, level
  <2>3. \E d \in S : \A e \in S : e <= d
    BY <2>1, Largest
  <2>4. level \in S /\ \A e \in S : e <= level
    BY <2>2, <2>3
  <2> QED BY <2>4 DEF S
<1> HIDE DEF level
<1>3. level \in 1..Depth /\ q # None
      /\ \A f \in 1..Depth : level < f => path.alt[f] = None
  BY <1>2, GeometryAssumption DEF Cousins
<1>4. Grafts(n, jj, MetaFor(s, path), None)
  BY PathGrafts
<1>5. /\ \A e \in 1..Depth : path.alt[e] # None =>
           LET y == ReadMeta(n, jj, path.alt[e]).id
           IN  /\ y \in Sectors /\ Agree(y, s, e) /\ Bit(y, e) # Bit(s, e)
               /\ W(y, e + 1) = path.alt[e]
      /\ \A t \in Sectors, e \in 1..Depth :
           Agree(t, s, e) /\ Bit(t, e) # Bit(s, e) =>
             \/ path.alt[e] = W(t, e + 1)
             \/ path.alt[e] = None /\ W(t, Depth + 1) = None
  <2>1. \A t \in Sectors : t # None
    BY SectorAssumption DEF None
  <2> HIDE DEF path
  <2> QED BY <1>4, <2>1 DEF Grafts, MetaFor
<1> HIDE DEF path
<1>6. /\ c \in Sectors /\ Agree(c, s, level) /\ Bit(c, level) # Bit(s, level)
      /\ W(c, level + 1) = q
  BY <1>3, <1>5
<1> HIDE DEF q
<1>7. /\ q \in UserPages /\ Node(n, jj, c, level + 1, q)
      /\ TracePath(n, jj, c).page = q
  BY <1>3, <1>6, GraftStands
<1>8. c # s
  BY <1>6
<1>9. /\ Depth \in Nat /\ level + 1 \in 1..Depth + 1
      /\ \A e \in 1..Depth : /\ level < e => level + 1 \in 1..Depth /\ e \in level + 1..Depth
                                             /\ e \in level + 1..Depth + 1
                             /\ e + 1 \in 1..Depth + 1 /\ e \in Int /\ level \in Int
                             /\ Depth + 1 \in e + 1..Depth + 1
  BY <1>3, GeometryAssumption
<1> HIDE DEF x
<1>10. ASSUME NEW e \in 1..Depth, alt[e] # None
       PROVE  LET y == ReadMeta(n, jj, alt[e]).id
              IN  /\ y \in Sectors /\ Agree(y, c, e) /\ Bit(y, e) # Bit(c, e)
                  /\ W(y, e + 1) = alt[e]
  <2> DEFINE y == ReadMeta(n, jj, alt[e]).id
  <2>1. CASE e < level
    <3>1. alt[e] = path.alt[e]
      BY <2>1
    <3>2. /\ y \in Sectors /\ Agree(y, s, e) /\ Bit(y, e) # Bit(s, e)
          /\ W(y, e + 1) = alt[e]
      BY <1>5, <1>10, <3>1
    <3> HIDE DEF y, alt
    <3>3. Agree(y, c, e) /\ Bit(c, e) = Bit(s, e)
      BY <1>6, <1>9, <2>1, <3>2 DEF Agree
    <3> QED BY <3>2, <3>3 DEF y
  <2>2. CASE level < e
    <3>1. alt[e] = x.alt[e]
      BY <1>9, <2>2
    <3>2. alt[e] = ReadMeta(n, jj, q).alt[e] /\ c = ReadMeta(n, jj, q).id
      BY <3>1 DEF x
    <3> HIDE DEF alt
    <3>3. q # None
      BY <1>3
    <3> QED BY <1>6, <1>7, <1>9, <1>10, <2>2, <3>2, <3>3, PointerStands
  <2>3. CASE e = level
    BY <1>10, <2>3, <1>9
  <2> QED BY <1>9, <2>1, <2>2, <2>3
<1>11. ASSUME NEW t \in Sectors, NEW e \in 1..Depth, Agree(t, c, e),
              Bit(t, e) # Bit(c, e)
       PROVE  IF t = s THEN alt[e] = None
              ELSE alt[e] = W(t, e + 1) \/ (alt[e] = None /\ W(t, Depth + 1) = None)
  <2>1. CASE e < level
    <3>1. Agree(t, s, e) /\ Bit(s, e) = Bit(c, e)
      BY <1>6, <1>9, <1>11, <2>1 DEF Agree
    <3>2. t # s /\ alt[e] = path.alt[e]
      BY <1>11, <2>1, <3>1
    <3> QED BY <1>5, <1>11, <3>1, <3>2
  <2>2. CASE e = level
    <3>1. alt[e] = None
      BY <1>9, <2>2
    <3> SUFFICES ASSUME t # s PROVE W(t, Depth + 1) = None
      BY <3>1
    <3>2. PICK f \in 1..Depth : Agree(t, s, f) /\ Bit(t, f) # Bit(s, f)
      BY FirstDifference
    <3>3. Bit(t, level) = Bit(s, level)
      BY <1>3, <1>6, <1>11, <2>2, Binary
    <3>4. \A i \in 1..Depth : i < level => Bit(t, i) = Bit(s, i)
      BY <1>6, <1>11, <2>2 DEF Agree
    <3>5. level < f
      BY <1>9, <3>2, <3>3, <3>4
    <3>6. W(t, f + 1) = None \/ W(t, Depth + 1) = None
      BY <1>3, <1>5, <3>2, <3>5
    <3> QED BY <1>9, <3>6, Ended
  <2>3. CASE level < e
    <3>1. Bit(t, level) = Bit(c, level)
      BY <1>3, <1>11, <2>3 DEF Agree
    <3>2. t # s
      BY <1>6, <3>1
    <3>3. alt[e] = x.alt[e]
      BY <1>9, <2>3
    <3>4. Agree(c, t, level + 1)
      BY <1>9, <1>11, <2>3 DEF Agree
    <3>5. W(t, level + 1) = q
      BY <1>6, <1>9, <3>4, WalksAgree
    <3>6. W(t, e) = q
      <4>1. ReadMeta(n, jj, q).id = c
        BY DEF x
      <4> HIDE DEF c
      <4> QED BY <1>6, <1>7, <1>9, <1>11, <2>3, <3>5, <4>1, Stays
    <3>7. W(t, e + 1) = x.alt[e]
      <4>1. ReadMeta(n, jj, q).id = c /\ ReadMeta(n, jj, q).alt = x.alt
        BY DEF x
      <4> HIDE DEF c
      <4> QED BY <1>6, <1>7, <1>11, <3>6, <4>1, WalkStep1
    <3> QED BY <3>2, <3>3, <3>7
  <2> QED BY <1>9, <2>1, <2>2, <2>3
<1>12. Grafts(n, jj, [id |-> c, alt |-> alt], s)
  <2> HIDE DEF alt, c
  <2> QED BY <1>6, <1>10, <1>11 DEF Grafts
<1> HIDE DEF alt
<1>13. del.page = q /\ del.meta.id = c /\ del.meta = [id |-> c, alt |-> alt]
  BY <1>1
<1> HIDE DEF del, c
<1> QED BY <1>3, <1>6, <1>7, <1>8, <1>12, <1>13 DEF del, path

-----------------------------------------------------------------------------
(* What becomes of the tree as the journal moves on.                       *)

OnTree(n, jj, p) ==
    \/ p = jj.root
    \/ \E s \in Sectors, d \in 1..Depth + 1 : p = Walk(n, jj, s)[d]

\* The pages that the walks stand on are in the log.
LEMMA OnTreeInLog ==
    ASSUME NEW n, NEW jj, TreeOK(n, jj), NEW p \in UserPages, OnTree(n, jj, p)
    PROVE  Within(jj.tail, jj.head, p)
<1>1. p # None
  BY UserPage DEF None
<1>2. CASE p = jj.root
  BY <1>1, <1>2 DEF TreeOK
<1>3. ASSUME NEW s \in Sectors, NEW d \in 1..Depth + 1, p = Walk(n, jj, s)[d]
      PROVE  Within(jj.tail, jj.head, p)
  BY <1>1, <1>3 DEF TreeOK, Stands
<1> QED BY <1>2, <1>3 DEF OnTree

\* A page of the tree is where the walk to its own sector arrives.
LEMMA OnTreeFound ==
    ASSUME NEW n \in Flash, NEW jj \in Journal, TreeOK(n, jj),
           NEW p \in UserPages, OnTree(n, jj, p), ReadMeta(n, jj, p).id \in Sectors
    PROVE  TracePath(n, jj, ReadMeta(n, jj, p).id).page = p
<1> DEFINE c == ReadMeta(n, jj, p).id
<1>1. Depth \in Nat /\ 1 \in 1..Depth + 1 /\ Depth + 1 \in 1..Depth + 1
      /\ \A d \in 1..Depth + 1 : Depth + 1 \in d..Depth + 1
  BY GeometryAssumption
<1>2. c \in Sectors /\ p # None
  BY UserPage DEF None
<1>3. \E d \in 1..Depth + 1 : Walk(n, jj, c)[d] = p
  <2>1. CASE p = jj.root
    <3>1. Walk(n, jj, c)[1] = p
      BY <2>1, WalkIs
    <3> QED BY <1>1, <3>1
  <2>2. ASSUME NEW s \in Sectors, NEW d \in 1..Depth + 1, p = Walk(n, jj, s)[d]
        PROVE  Walk(n, jj, c)[d] = p
    <3>1. Stands(n, jj, s, d, p)
      BY <1>2, <2>2 DEF TreeOK
    <3>2. c # None
      BY <1>2, SectorAssumption DEF None
    <3>3. Agree(s, c, d)
      BY <3>1, <3>2, <1>1 DEF Stands, Node
    <3> HIDE DEF c
    <3>4. Walk(n, jj, c)[d] = Walk(n, jj, s)[d]
      BY <3>3, WalksAgree
    <3> QED BY <2>2, <3>4
  <2> HIDE DEF c
  <2> QED BY <2>1, <2>2 DEF OnTree
<1>4. PICK d \in 1..Depth + 1 : Walk(n, jj, c)[d] = p
  BY <1>3
<1>5. Agree(c, c, Depth + 1)
  BY DEF Agree
<1>6. Walk(n, jj, c)[Depth + 1] = p
  BY <1>1, <1>2, <1>4, <1>5, Stays
<1> QED BY <1>2, <1>6, SectorPage

(* Flash n2 with journal k has what the walks of n with jj stand on.       *)
Keeps(n, jj, n2, k) ==
    \A p \in UserPages : OnTree(n, jj, p) =>
        /\ n2[p] = n[p] /\ ReadMeta(n2, k, p) = ReadMeta(n, jj, p)
        /\ Within(k.tail, k.head, p)

\* A walk that meets the old one goes on with it.
LEMMA Rejoins ==
    ASSUME NEW n \in Flash, NEW jj \in Journal, TreeOK(n, jj),
           NEW n2 \in Flash, NEW k \in Journal, Keeps(n, jj, n2, k),
           NEW t \in Sectors, NEW d \in 1..Depth + 1, NEW e \in d..Depth + 1,
           Walk(n2, k, t)[d] = Walk(n, jj, t)[d]
    PROVE  Walk(n2, k, t)[e] = Walk(n, jj, t)[e]
<1> DEFINE P == {i \in d..e : Walk(n2, k, t)[i] = Walk(n, jj, t)[i]}
<1>1. Depth \in Nat /\ d \in Int /\ e \in Int /\ d <= e
  BY GeometryAssumption
<1>2. d \in P
  BY <1>1
<1>3. ASSUME NEW i \in d..e - 1, i \in P PROVE i + 1 \in P
  <2>1. i \in 1..Depth /\ i \in 1..Depth + 1 /\ i + 1 \in d..e
    BY <1>1
  <2>2. PICK p : p = Walk(n, jj, t)[i]
    OBVIOUS
  <2>3. Walk(n2, k, t)[i] = p
    BY <1>3, <2>2
  <2>4. /\ Walk(n, jj, t)[i + 1] = Descend(n, jj, t, p, i)
        /\ Walk(n2, k, t)[i + 1] = Descend(n2, k, t, p, i)
    BY <2>1, <2>2, <2>3, WalkIs
  <2>5. CASE p = None
    BY <2>1, <2>4, <2>5, DescendIs
  <2>6. CASE p # None
    <3>1. p \in UserPages /\ OnTree(n, jj, p)
      BY <2>1, <2>2, <2>6 DEF TreeOK, Stands, OnTree
    <3>2. ReadMeta(n2, k, p) = ReadMeta(n, jj, p)
      BY <3>1 DEF Keeps
    <3>3. Descend(n2, k, t, p, i) = Descend(n, jj, t, p, i)
      BY <3>2 DEF Descend, Turns
    <3> QED BY <2>1, <2>4, <3>3
  <2> QED BY <2>5, <2>6
<1>4. d..e \subseteq P
  <2> HIDE DEF P
  <2> QED BY <1>1, <1>2, <1>3, UpTo
<1>5. e \in d..e
  BY <1>1
<1> QED BY <1>4, <1>5

\* What the walk stood on is still there.
LEMMA StillStands ==
    ASSUME NEW n \in Flash, NEW jj \in Journal, TreeOK(n, jj),
           NEW n2, NEW k, Keeps(n, jj, n2, k),
           NEW t \in Sectors, NEW d \in 1..Depth + 1,
           NEW p, p = Walk(n, jj, t)[d], p # None
    PROVE  Stands(n2, k, t, d, p)
<1>1. Stands(n, jj, t, d, p)
  BY DEF TreeOK
<1>2. p \in UserPages /\ OnTree(n, jj, p)
  BY <1>1 DEF Stands, OnTree
<1>3. /\ n2[p] = n[p] /\ ReadMeta(n2, k, p) = ReadMeta(n, jj, p)
      /\ Within(k.tail, k.head, p)
  BY <1>2 DEF Keeps
<1>4. ASSUME Node(n, jj, t, d, p) PROVE Node(n2, k, t, d, p)
  <2>1. ASSUME NEW e \in d..Depth PROVE Branches(n2, k, p, e)
    <3>1. d \in 1..Depth /\ e \in d..Depth /\ e + 1 \in 1..Depth + 1
      BY GeometryAssumption
    <3>2. PICK q : q = ReadMeta(n, jj, p).alt[e]
      OBVIOUS
    <3>3. CASE q = None
      BY <1>3, <3>2, <3>3 DEF Branches
    <3>4. CASE q # None
      <4>1. PICK c : c = ReadMeta(n, jj, q).id
        OBVIOUS
      <4>2. /\ Walk(n, jj, c)[e + 1] = q /\ c \in Sectors
            /\ Stands(n, jj, c, e + 1, q)
        BY <1>4, <3>1, <3>2, <3>4, <4>1, PointerStands
      <4>3. q \in UserPages /\ OnTree(n, jj, q)
        BY <3>1, <4>2 DEF Stands, OnTree
      <4>4. ReadMeta(n2, k, q) = ReadMeta(n, jj, q)
        BY <4>3 DEF Keeps
      <4>5. Branches(n, jj, p, e)
        BY <1>4 DEF Node
      <4> QED BY <1>3, <3>2, <4>4, <4>5 DEF Branches
    <3> QED BY <3>3, <3>4
  <2> QED BY <1>3, <1>4, <2>1 DEF Node
<1> QED BY <1>1, <1>2, <1>3, <1>4 DEF Stands

\* A path is where the walk leads.
LEMMA SamePath ==
    ASSUME NEW n \in Flash, NEW jj \in Journal, TreeOK(n, jj),
           NEW n2, NEW k, Keeps(n, jj, n2, k), NEW t \in Sectors,
           \A d \in 1..Depth + 1 : Walk(n2, k, t)[d] = Walk(n, jj, t)[d]
    PROVE  TracePath(n2, k, t) = TracePath(n, jj, t)
<1> DEFINE W(d) == Walk(n, jj, t)[d]
           Alt(m, l, d) ==
             LET p    == Walk(m, l, t)[d]
                 meta == ReadMeta(m, l, p)
             IN  IF p < 0 \/ meta.id < 0 THEN None
                 ELSE IF Turns(m, l, t, p, d) THEN p ELSE meta.alt[d]
           Page(m, l) ==
             LET p == Walk(m, l, t)[Depth + 1]
             IN  IF p >= 0 /\ ReadMeta(m, l, p).id = Unreadable
                 THEN Unreadable ELSE p
<1>1. \A d \in 1..Depth : d \in 1..Depth + 1
  BY GeometryAssumption
<1>2. Depth + 1 \in 1..Depth + 1
  BY GeometryAssumption
<1>3. ASSUME NEW d \in 1..Depth + 1
      PROVE  /\ Walk(n2, k, t)[d] = W(d)
             /\ W(d) = None \/ ReadMeta(n2, k, W(d)) = ReadMeta(n, jj, W(d))
  BY DEF TreeOK, Stands, OnTree, Keeps
<1>4. None < 0 /\ ~(None >= 0)
  BY DEF None
<1>5. ASSUME NEW d \in 1..Depth PROVE Alt(n2, k, d) = Alt(n, jj, d)
  <2>1. CASE W(d) = None
    BY <1>1, <1>3, <1>4, <2>1
  <2>2. CASE ReadMeta(n2, k, W(d)) = ReadMeta(n, jj, W(d))
    BY <1>1, <1>3, <2>2 DEF Turns
  <2> QED BY <1>1, <1>3, <2>1, <2>2
<1>6. Page(n2, k) = Page(n, jj)
  <2>1. CASE W(Depth + 1) = None
    BY <1>2, <1>3, <1>4, <2>1
  <2>2. CASE ReadMeta(n2, k, W(Depth + 1)) = ReadMeta(n, jj, W(Depth + 1))
    BY <1>2, <1>3, <2>2
  <2> QED BY <1>2, <1>3, <2>1, <2>2
<1>7. /\ TracePath(n2, k, t) =
           [page |-> Page(n2, k), alt |-> [d \in 1..Depth |-> Alt(n2, k, d)]]
      /\ TracePath(n, jj, t) =
           [page |-> Page(n, jj), alt |-> [d \in 1..Depth |-> Alt(n, jj, d)]]
  BY DEF TracePath, Arrival, OtherHalf
<1> HIDE DEF Alt, Page
<1>8. [d \in 1..Depth |-> Alt(n2, k, d)] = [d \in 1..Depth |-> Alt(n, jj, d)]
  BY <1>5
<1> QED BY <1>6, <1>7, <1>8

\* What a read finds.
LEMMA ReadIs ==
    ASSUME NEW n \in Flash, NEW jj \in Journal, TreeOK(n, jj), NEW s \in Sectors
    PROVE  LET p == TracePath(n, jj, s).page
           IN  /\ ReadSector(n, jj, s, Blank) = IF p = None THEN Blank ELSE n[p].data
               /\ ReadSector(n, jj, s, Blank) \in Data \cup {Blank}
               /\ ReadSector(n, jj, s, Blank) = Blank <=> p = None
<1> DEFINE p == TracePath(n, jj, s).page
<1>1. /\ p # None => n[p].kind = "user" /\ n[p].data \in Data
      /\ p # Unreadable
  BY SectorPage
<1>2. ReadSector(n, jj, s, Blank) =
        IF p = None THEN Blank
        ELSE IF p = Unreadable \/ n[p].kind # "user" THEN Unreadable
        ELSE n[p].data
  BY DEF ReadSector
<1> HIDE DEF p
<1> QED BY <1>1, <1>2, DataAssumption DEF p

\* The root and what the walks stand on stay: so does the tree.
LEMMA SameTree ==
    ASSUME NEW n \in Flash, NEW jj \in Journal, TreeOK(n, jj),
           NEW n2 \in Flash, NEW k \in Journal, Keeps(n, jj, n2, k),
           k.root = jj.root
    PROVE  /\ TreeOK(n2, k)
           /\ \A t \in Sectors :
                /\ TracePath(n2, k, t) = TracePath(n, jj, t)
                /\ ReadSector(n2, k, t, Blank) = ReadSector(n, jj, t, Blank)
<1>1. /\ 1 \in 1..Depth + 1
      /\ \A d \in 1..Depth + 1 : d \in 1..Depth + 1 /\ d \in 1..Depth + 1
  BY GeometryAssumption
<1>2. ASSUME NEW t \in Sectors, NEW d \in 1..Depth + 1
      PROVE  Walk(n2, k, t)[d] = Walk(n, jj, t)[d]
  <2>1. Walk(n2, k, t)[1] = Walk(n, jj, t)[1]
    BY WalkIs
  <2> QED BY <1>1, <2>1, Rejoins
<1>3. k.root # None => Within(k.tail, k.head, k.root)
  <2>1. k.root \in UserPages \cup {None} /\ OnTree(n, jj, jj.root)
    BY DEF Journal, OnTree
  <2> QED BY <2>1 DEF Keeps
<1>4. TreeOK(n2, k)
  BY <1>2, <1>3, StillStands DEF TreeOK
<1>5. ASSUME NEW t \in Sectors
      PROVE  /\ TracePath(n2, k, t) = TracePath(n, jj, t)
             /\ ReadSector(n2, k, t, Blank) = ReadSector(n, jj, t, Blank)
  <2>1. TracePath(n2, k, t) = TracePath(n, jj, t)
    BY <1>2, SamePath
  <2>2. PICK p : p = TracePath(n, jj, t).page
    OBVIOUS
  <2>3. p # None => n2[p] = n[p]
    <3>1. p = Walk(n, jj, t)[Depth + 1] /\ p \in UserPages \cup {None}
      BY <2>2, SectorPage
    <3>2. Depth + 1 \in 1..Depth + 1
      BY GeometryAssumption
    <3>3. p # None => p \in UserPages /\ OnTree(n, jj, p)
      BY <3>1, <3>2 DEF OnTree
    <3> QED BY <3>3 DEF Keeps
  <2>4. /\ ReadSector(n, jj, t, Blank) = IF p = None THEN Blank ELSE n[p].data
        /\ ReadSector(n2, k, t, Blank) = IF p = None THEN Blank ELSE n2[p].data
    BY <1>4, <2>1, <2>2, ReadIs
  <2> QED BY <2>1, <2>3, <2>4
<1> QED BY <1>4, <1>5

(* The root is a page with user data and the given metadata.               *)
NewRoot(n, jj, h, meta) ==
    /\ jj.root = h /\ Within(jj.tail, jj.head, h) /\ ReadMeta(n, jj, h) = meta
    /\ n[h].kind = "user" /\ n[h].data \in Data

\* A new root with metadata that graft: its sector is where the root is, and
\* every other sector where it was, but the one that goes.
LEMMA AppendTree ==
    ASSUME NEW n \in Flash, NEW jj \in Journal, TreeOK(n, jj),
           NEW n2 \in Flash, NEW k \in Journal, Keeps(n, jj, n2, k),
           NEW h \in UserPages, NEW meta, NewRoot(n2, k, h, meta),
           NEW gone, Grafts(n, jj, meta, gone), gone # meta.id
    PROVE  /\ TreeOK(n2, k) /\ TracePath(n2, k, meta.id).page = h
           /\ \A t \in Sectors : t # meta.id =>
                /\ t = gone => TracePath(n2, k, t).page = None
                /\ t # gone => TracePath(n2, k, t).page = TracePath(n, jj, t).page
<1> DEFINE W(t, d) == Walk(n, jj, t)[d]
           V(t, d) == Walk(n2, k, t)[d]
<1> k.root = h /\ Within(k.tail, k.head, h) /\ ReadMeta(n2, k, h) = meta
    /\ n2[h].kind = "user" /\ n2[h].data \in Data
  BY DEF NewRoot
<1>1. PICK id \in Sectors : id = meta.id
  BY DEF Grafts
<1>2. /\ Depth \in Nat /\ 1 \in 1..Depth + 1 /\ Depth + 1 \in 1..Depth + 1
      /\ \A d \in 1..Depth + 1 : d \in 1..Depth + 1 /\ d \in Int
      /\ \A f \in 1..Depth : /\ f \in 1..Depth + 1 /\ f + 1 \in 1..Depth + 1
                             /\ Depth + 1 \in f + 1..Depth + 1 /\ f \in Int
  BY GeometryAssumption
<1>3. ASSUME NEW t \in Sectors, NEW d \in 1..Depth + 1, Agree(t, id, d)
      PROVE  V(t, d) = h
  <2>1. V(t, 1) = h
    BY WalkIs
  <2>2. ReadMeta(n2, k, h).id \in Sectors /\ Agree(t, ReadMeta(n2, k, h).id, d)
    BY <1>1, <1>3
  <2> QED BY <1>2, <2>1, <2>2, Stays
<1>4. ASSUME NEW t \in Sectors, NEW f \in 1..Depth,
             Agree(t, id, f), Bit(t, f) # Bit(id, f)
      PROVE  /\ V(t, f + 1) = meta.alt[f]
             /\ t = gone => meta.alt[f] = None
             /\ t # gone => \/ meta.alt[f] = W(t, f + 1)
                            \/ meta.alt[f] = None /\ W(t, Depth + 1) = None
  <2>1. V(t, f) = h
    BY <1>2, <1>3, <1>4
  <2>2. V(t, f + 1) = meta.alt[f]
    BY <1>1, <1>4, <2>1, WalkStep1
  <2>3. Agree(t, meta.id, f) /\ Bit(t, f) # Bit(meta.id, f)
    BY <1>1, <1>4
  <2>4. t = gone => meta.alt[f] = None
    BY <2>3 DEF Grafts
  <2>5. t # gone => \/ meta.alt[f] = W(t, f + 1)
                    \/ meta.alt[f] = None /\ W(t, Depth + 1) = None
    BY <2>3 DEF Grafts
  <2> QED BY <2>2, <2>4, <2>5
<1>5. ASSUME NEW t \in Sectors, NEW f \in 1..Depth, NEW d \in f + 1..Depth + 1,
             Agree(t, id, f), Bit(t, f) # Bit(id, f)
      PROVE  /\ meta.alt[f] = None => V(t, d) = None
             /\ meta.alt[f] # None => V(t, d) = W(t, d) /\ t # gone
  <2>1. CASE meta.alt[f] = None
    BY <1>2, <1>4, <1>5, <2>1, Ended
  <2>2. CASE meta.alt[f] # None
    <3>1. t # gone /\ V(t, f + 1) = W(t, f + 1)
      BY <1>4, <1>5, <2>2
    <3> QED BY <1>2, <2>2, <3>1, Rejoins
  <2> QED BY <2>1, <2>2
<1>6. ASSUME NEW t \in Sectors, NEW d \in 1..Depth + 1, Agree(t, id, d)
      PROVE  Stands(n2, k, t, d, h)
  <2>1. ASSUME NEW e \in 1..Depth PROVE Branches(n2, k, h, e)
    <3>1. PICK q : q = meta.alt[e]
      OBVIOUS
    <3>2. CASE q = None
      BY <3>1, <3>2 DEF Branches
    <3>3. CASE q # None
      <4>1. PICK c : c = ReadMeta(n, jj, q).id
        OBVIOUS
      <4>2. c \in Sectors /\ Agree(c, id, e) /\ Bit(c, e) # Bit(id, e)
            /\ W(c, e + 1) = q
        BY <1>1, <3>1, <3>3, <4>1 DEF Grafts
      <4>3. q \in UserPages /\ OnTree(n, jj, q)
        BY <1>2, <3>3, <4>2 DEF TreeOK, Stands, OnTree
      <4>4. ReadMeta(n2, k, q) = ReadMeta(n, jj, q)
        BY <4>3 DEF Keeps
      <4> QED BY <1>1, <3>1, <4>1, <4>2, <4>4 DEF Branches
    <3> QED BY <3>2, <3>3
  <2>2. \A e \in d..Depth : e \in 1..Depth
    BY <1>2
  <2>3. Node(n2, k, t, d, h)
    BY <1>1, <1>6, <2>1, <2>2 DEF Node
  <2> QED BY <2>3 DEF Stands
<1>7. ASSUME NEW t \in Sectors, NEW d \in 1..Depth + 1, V(t, d) # None
      PROVE  Stands(n2, k, t, d, V(t, d))
  <2>1. CASE Agree(t, id, d)
    BY <1>3, <1>6, <2>1
  <2>2. CASE ~Agree(t, id, d)
    <3>1. t # id
      BY <2>2 DEF Agree
    <3>2. PICK f \in 1..Depth : Agree(t, id, f) /\ Bit(t, f) # Bit(id, f)
      BY <3>1, FirstDifference
    <3>3. d \in f + 1..Depth + 1
      BY <1>2, <2>2, <3>2 DEF Agree
    <3>4. V(t, d) = W(t, d)
      BY <1>5, <1>7, <3>2, <3>3
    <3> QED BY <1>7, <3>4, StillStands
  <2> QED BY <2>1, <2>2
<1>8. TreeOK(n2, k)
  BY <1>7 DEF TreeOK
<1>9. TracePath(n2, k, id).page = h
  <2>1. Agree(id, id, Depth + 1)
    BY DEF Agree
  <2>2. V(id, Depth + 1) = h
    BY <1>2, <1>3, <2>1
  <2> QED BY <1>8, <2>2, SectorPage
<1>10. ASSUME NEW t \in Sectors, t # id
       PROVE  /\ t = gone => TracePath(n2, k, t).page = None
              /\ t # gone => TracePath(n2, k, t).page = TracePath(n, jj, t).page
  <2>1. PICK f \in 1..Depth : Agree(t, id, f) /\ Bit(t, f) # Bit(id, f)
    BY <1>10, FirstDifference
  <2>2. V(t, Depth + 1) = IF t = gone THEN None ELSE W(t, Depth + 1)
    <3>1. CASE meta.alt[f] = None
      <4>1. V(t, Depth + 1) = None
        BY <1>2, <1>5, <2>1, <3>1
      <4>2. t # gone => W(t, f + 1) = None \/ W(t, Depth + 1) = None
        BY <1>4, <2>1, <3>1
      <4>3. W(t, f + 1) = None => W(t, Depth + 1) = None
        BY <1>2, Ended
      <4> QED BY <4>1, <4>2, <4>3
    <3>2. CASE meta.alt[f] # None
      BY <1>2, <1>5, <2>1, <3>2
    <3> QED BY <3>1, <3>2
  <2>3. TracePath(n2, k, t).page = V(t, Depth + 1)
    BY <1>8, SectorPage
  <2>4. TracePath(n, jj, t).page = W(t, Depth + 1)
    BY SectorPage
  <2> QED BY <2>2, <2>3, <2>4
<1> QED BY <1>1, <1>8, <1>9, <1>10

\* A tree without a page, or with one that is of no sector.
LEMMA EmptyTree ==
    ASSUME NEW n \in Flash, NEW jj \in Journal,
           \/ jj.root = None
           \/ /\ ReadMeta(n, jj, jj.root).id = None
              /\ Within(jj.tail, jj.head, jj.root)
    PROVE  /\ TreeOK(n, jj)
           /\ \A t \in Sectors : TracePath(n, jj, t).page = None
<1>1. /\ Depth \in Nat /\ 1 \in 1..Depth /\ 1 + 1 \in 1..Depth + 1
      /\ \A d \in 1..Depth + 1 : d = 1 \/ d \in 1 + 1..Depth + 1
      /\ Depth + 1 \in 1 + 1..Depth + 1
  BY GeometryAssumption
<1>2. jj.root \in UserPages \cup {None}
  BY DEF Journal
<1>3. ASSUME NEW t \in Sectors, NEW d \in 1 + 1..Depth + 1
      PROVE  Walk(n, jj, t)[d] = None
  <2>1. Walk(n, jj, t)[1] = jj.root
    BY WalkIs
  <2>2. Walk(n, jj, t)[1 + 1] = None
    BY <1>1, <1>2, <2>1, WalkStep1
  <2> QED BY <1>1, <2>2, Ended
<1>4. TreeOK(n, jj)
  <2>1. ASSUME NEW t \in Sectors, NEW d \in 1..Depth + 1,
               Walk(n, jj, t)[d] # None
        PROVE  Stands(n, jj, t, d, Walk(n, jj, t)[d])
    <3>1. d = 1
      BY <1>1, <1>3, <2>1
    <3>2. Walk(n, jj, t)[d] = jj.root
      BY <3>1, WalkIs
    <3> QED BY <1>2, <2>1, <3>1, <3>2 DEF Stands
  <2> QED BY <2>1 DEF TreeOK
<1> QED BY <1>1, <1>3, <1>4, SectorPage

\* The next user page is not beyond another one of the log.
LEMMA NextWithin ==
    ASSUME NEW t \in UserPages, NEW h \in UserPages, NEW p \in UserPages,
           Within(t, h, p), p # t
    PROVE  Within(NextUpage(t), h, p)
<1>1. PICK k : k = NextUpage(t)
  OBVIOUS
<1>2. \/ k = t + 1
      \/ k = t + 2 /\ h # t + 1 /\ p # t + 1
      \/ k = 0 /\ t + 2 = NumPages /\ h # t + 1 /\ p # t + 1
  BY <1>1, Onward
<1>3. \A q \in {t, h, p} : q \in Int /\ 0 <= q /\ q < NumPages
  BY UserPage, Geometry DEF Pages
<1>4. NumPages \in Int
  BY Geometry
<1>5. Within(k, h, p)
  BY <1>2, <1>3, <1>4 DEF Within
<1> QED BY <1>1, <1>5

\* Distances to the head, as dhara_journal_dequeue compares them.
LEMMA Distances ==
    ASSUME NEW t \in UserPages, NEW h \in UserPages, t # h, NEW r \in UserPages
    PROVE  LET d(p) == Wrapped(h + NumPages - p)
           IN  /\ d(t) > d(NextUpage(t))
               /\ Within(NextUpage(t), h, r) => ~(d(r) > d(NextUpage(t)))
<1>1. PICK k \in UserPages : k = NextUpage(t)
  BY NextUserPage
<1>2. \/ k = t + 1
      \/ k = t + 2 /\ h # t + 1
      \/ k = 0 /\ t + 2 = NumPages /\ h # t + 1
  BY <1>1, Onward
<1>3. \A q \in {t, h, r, k} : q \in Int /\ 0 <= q /\ q < NumPages
  BY UserPage, Geometry DEF Pages
<1>4. NumPages \in Int
  BY Geometry
<1>5. Wrapped(h + NumPages - t) > Wrapped(h + NumPages - k)
  BY <1>2, <1>3, <1>4 DEF Wrapped
<1>6. Within(k, h, r) => ~(Wrapped(h + NumPages - r) > Wrapped(h + NumPages - k))
  BY <1>3, <1>4 DEF Wrapped, Within
<1> QED BY <1>1, <1>5, <1>6

\* The tail's page is dropped when no walk stands on it, and with it the
\* root of a tree without sectors.
LEMMA DequeueTree ==
    ASSUME NEW n \in Flash, NEW jj, JournalOK(jj), TreeOK(n, jj),
           jj.head # jj.tail,
           ~OnTree(n, jj, jj.tail) \/ ReadMeta(n, jj, jj.tail).id = None
    PROVE  LET k == Dequeue(jj)
           IN  /\ TreeOK(n, k)
               /\ \A s \in Sectors :
                    TracePath(n, k, s).page = TracePath(n, jj, s).page
<1> DEFINE k == Dequeue(jj)
           t == jj.tail
           next == NextUpage(t)
           Far(p) == Wrapped(jj.head + NumPages - p)
<1>1. /\ jj \in Journal /\ t \in UserPages /\ jj.head \in UserPages
      /\ jj.root \in UserPages \cup {None} /\ jj.head # t
  BY DEF JournalOK, Journal
<1>2. /\ JournalOK(k) /\ k \in Journal /\ k.head = jj.head /\ k.metas = jj.metas
  BY DequeueType DEF JournalOK
<1>3. k.tail = next
      /\ k.root = IF Far(jj.root) > Far(next) THEN None ELSE jj.root
  BY <1>1 DEF Dequeue, Journal
<1>4. \A p : ReadMeta(n, k, p) = ReadMeta(n, jj, p)
  BY <1>2 DEF ReadMeta
<1>5. Far(t) > Far(next)
      /\ \A r \in UserPages : Within(next, jj.head, r) => ~(Far(r) > Far(next))
  BY <1>1, Distances
<1> HIDE DEF k, Far, next
<1>6. CASE ~OnTree(n, jj, t)
  <2>1. ASSUME NEW p \in UserPages, OnTree(n, jj, p) PROVE Within(next, jj.head, p)
    BY <1>1, <1>6, <2>1, OnTreeInLog, NextWithin DEF next
  <2>2. Keeps(n, jj, n, k)
    BY <1>2, <1>3, <1>4, <2>1 DEF Keeps
  <2>3. k.root = jj.root
    <3>1. jj.root # None => Within(next, jj.head, jj.root)
      BY <1>1, <2>1 DEF OnTree
    <3> QED BY <1>1, <1>3, <1>5, <3>1
  <2> HIDE DEF t
  <2> QED BY <1>1, <1>2, <2>2, <2>3, SameTree DEF k
<1>7. CASE OnTree(n, jj, t) /\ ReadMeta(n, jj, t).id = None
  <2>1. t = jj.root
    <3> SUFFICES ASSUME NEW s \in Sectors, NEW d \in 1..Depth + 1,
                        t = Walk(n, jj, s)[d]
                 PROVE  t = jj.root
      BY <1>7 DEF OnTree
    <3>1. t # None /\ None \notin Sectors
      BY <1>1, UserPage, SectorAssumption DEF None
    <3>2. Stands(n, jj, s, d, t)
      BY <3>1 DEF TreeOK
    <3>3. d = 1
      BY <1>7, <3>1, <3>2 DEF Stands, Node
    <3> QED BY <1>1, <3>3, WalkIs
  <2>2. k.root = None
    BY <1>3, <1>5, <2>1
  <2>3. TreeOK(n, k) /\ \A s \in Sectors : TracePath(n, k, s).page = None
    BY <1>2, <2>2, EmptyTree
  <2>4. Within(jj.tail, jj.head, jj.root)
    BY <1>1, <2>1, UserPage DEF TreeOK, None
  <2>5. \A s \in Sectors : TracePath(n, jj, s).page = None
    BY <1>1, <1>7, <2>1, <2>4, EmptyTree
  <2> QED BY <2>3, <2>5 DEF k
<1> QED BY <1>6, <1>7

-----------------------------------------------------------------------------
(* What the steps of an append do to the metadata of the log.              *)

\* The log with its new page.
LEMMA LogGrows ==
    ASSUME NEW h \in UserPages, NEW ts \in UserPages, NEW t \in UserPages,
           InOrder(h, ts, t),
           \/ Block(NextUpage(h)) = Block(h)
           \/ Block(NextUpage(h)) # Block(ts),
           NEW p \in UserPages, p = h \/ Within(t, h, p)
    PROVE  Within(t, NextUpage(h), p)
<1>1. PICK k \in UserPages : k = NextUpage(h)
  BY NextUserPage
<1>2. \/ k = h + 1 /\ Block(k) = Block(h)
      \/ k = h + 2 /\ t # h + 1 /\ ts # h + 1 /\ p # h + 1
      \/ /\ k = 0 /\ h + 2 = NumPages /\ t # h + 1 /\ ts # h + 1
         /\ Block(k) # Block(h)
  BY <1>1, Onward
<1>3. \A q \in {t, ts, h, p, k} : q \in Int /\ 0 <= q /\ q < NumPages
  BY UserPage, Geometry DEF Pages
<1>4. NumPages \in Int
  BY Geometry
<1>5. InOrder(h, t, t)
  BY TailBehind, UserPage
<1>6. t # k
  <2> SUFFICES ASSUME t = k PROVE FALSE
    OBVIOUS
  <2>1. t # h
    BY <1>2, <1>3
  <2>2. CASE Block(k) = Block(h)
    <3>1. t <= h
      BY <1>5, <2>2 DEF InOrder, Behind
    <3>2. k = 0
      BY <1>2, <1>3, <3>1
    <3>3. Block(k) # Block(h)
      BY <1>2, <1>3, <3>2
    <3> QED BY <2>2, <3>3
  <2>3. CASE Block(k) # Block(ts)
    <3>1. Within(ts, h, t) /\ ts # t
      BY <2>1, <2>3 DEF InOrder
    <3> QED BY <1>2, <1>3, <3>1 DEF Within
  <2> QED BY <1>1, <2>2, <2>3
<1>7. CASE k = 0
  <2>1. t <= h
    BY <1>2, <1>3, <1>7
  <2> QED BY <1>1, <1>3, <1>6, <1>7, <2>1 DEF Within
<1>8. CASE k # 0
  BY <1>1, <1>2, <1>3, <1>6, <1>8 DEF Within
<1> QED BY <1>7, <1>8

\* The next user page is in the head's group, or the first of another one.
LEMMA NextGroup ==
    ASSUME NEW h \in UserPages
    PROVE  /\ (h + 2) % Ppc # 0 => Group(NextUpage(h)) = Group(h)
           /\ (h + 2) % Ppc = 0 => /\ Group(NextUpage(h)) # Group(h)
                                   /\ NextUpage(h) % Ppc = 0
                                   /\ CheckpointOf(Group(h)) = h + 1
<1>1. h \in Pages /\ h \in Int /\ Ppc \in Nat \ {0, 1, 2}
  BY UserPage, Geometry
<1>2. (h + 2) % Ppc # 0 => Group(NextUpage(h)) = Group(h)
  BY NextUserPage
<1>3. ASSUME (h + 2) % Ppc = 0
      PROVE  /\ Group(NextUpage(h)) # Group(h) /\ NextUpage(h) % Ppc = 0
             /\ CheckpointOf(Group(h)) = h + 1
  <2>1. /\ h + 1 \in Checkpoints /\ h + 1 = CheckpointOf(Group(h))
        /\ Block(h + 1) = Block(h)
        /\ \/ NextUpage(h) = h + 2 /\ Block(h + 2) = Block(h)
           \/ /\ NextUpage(h) = h + 2 /\ Block(h + 2) = Block(h) + 1
              /\ (h + 2) % Ppb = 0
           \/ NextUpage(h) = 0 /\ h + 2 = NumPages
    BY <1>3, NextUserPage
  <2>2. CASE NextUpage(h) = h + 2
    <3>1. PICK g \in Int : g = Group(h)
      BY <1>1, GroupOf
    <3>2. h + 1 = (Ppc * g) + (Ppc - 1) /\ Ppc * g \in Int
      BY <1>1, <2>1, <3>1, CheckpointIs
    <3>3. PICK m \in Int : m = h + 2
      BY <1>1
    <3>4. m = (Ppc * (g + 1)) + 0 /\ g + 1 \in Int /\ 0 \in 0..Ppc - 1
      BY <1>1, <3>2, <3>3
    <3>5. m \div Ppc = g + 1
      BY <1>1, <3>3, <3>4, Remainder
    <3> QED BY <1>3, <2>1, <2>2, <3>1, <3>3, <3>5 DEF Group
  <2>3. CASE NextUpage(h) = 0 /\ h + 2 = NumPages
    <3>1. NumPages - 1 = h + 1
      BY <1>1, <2>3
    <3>2. Block(0) # Block(h) /\ 0 \in Int
      BY <1>1, <2>1, <3>1, EndOfChip
    <3>3. Group(0) # Group(h)
      BY <1>1, <3>2, GroupInBlock
    <3>4. 0 % Ppc = 0
      BY <1>1
    <3> QED BY <2>1, <2>3, <3>3, <3>4
  <2> QED BY <2>1, <2>2, <2>3
<1> QED BY <1>2, <1>3

\* The group that the head moves to has no page of the log.
LEMMA GroupAhead ==
    ASSUME NEW h \in UserPages, NEW ts \in UserPages, NEW t \in UserPages,
           InOrder(h, ts, t), (h + 2) % Ppc = 0,
           \/ Block(NextUpage(h)) = Block(h)
           \/ Block(NextUpage(h)) # Block(ts),
           NEW p \in UserPages, p = h \/ Within(t, h, p)
    PROVE  Group(p) # Group(NextUpage(h))
<1>1. PICK k \in UserPages : k = NextUpage(h)
  BY NextUserPage
<1> SUFFICES ASSUME Group(p) = Group(k) PROVE FALSE
  BY <1>1
<1>2. Within(t, k, p)
  BY <1>1, LogGrows
<1>3. \A q \in {t, p, k} : q \in Int /\ q \in Pages
  BY UserPage
<1>4. k % Ppc = 0
  BY <1>1, NextGroup
<1>5. k <= p
  BY <1>3, <1>4, GroupOf, Geometry
<1>6. k < t /\ t <= p
  BY <1>2, <1>3, <1>5 DEF Within
<1>7. Block(p) = Block(k)
  BY <1>3, GroupInBlock
<1>8. Block(k) <= Block(t) /\ Block(t) <= Block(p)
  BY <1>3, <1>6, BlockOrder
<1>9. Block(t) = Block(k)
  BY <1>3, <1>7, <1>8, BlockOf
<1>10. InOrder(k, ts, t)
  BY <1>1, PushOrder
<1>11. InOrder(k, t, t)
  BY <1>3, <1>10, TailBehind, UserPage
<1> QED BY <1>3, <1>6, <1>9, <1>11 DEF InOrder, Behind

\* Count, dirty and the like are nothing to the tree.
LEMMA Relabelled ==
    ASSUME NEW n \in Flash, NEW jj \in Journal, TreeOK(n, jj), NEW k \in Journal,
           k.head = jj.head, k.tail = jj.tail, k.metas = jj.metas
    PROVE  Keeps(n, jj, n, k)
BY OnTreeInLog DEF Keeps, ReadMeta

\* An erase is about pages beyond the log.
LEMMA ErasedKeeps ==
    ASSUME NEW n \in Flash, NEW jj \in Journal, TreeOK(n, jj), NEW n2,
           NEW b, Block(jj.head) = b,
           \A p \in Pages : Block(p) # b => n2[p] = n[p],
           \A p \in UserPages : Within(jj.tail, jj.head, p) => Block(p) # b
    PROVE  Keeps(n, jj, n2, jj)
<1> SUFFICES ASSUME NEW p \in UserPages, OnTree(n, jj, p)
             PROVE  n2[p] = n[p] /\ ReadMeta(n2, jj, p) = ReadMeta(n, jj, p)
  BY OnTreeInLog DEF Keeps
<1>1. p \in Pages /\ Block(p) # b
  BY UserPage, OnTreeInLog
<1>2. PICK c \in Pages : c = CheckpointOf(Group(p)) /\ Block(c) = Block(p)
  BY <1>1, CheckpointInGroup
<1>3. n2[p] = n[p] /\ n2[c] = n[c]
  BY <1>1, <1>2
<1> QED BY <1>2, <1>3 DEF ReadMeta, IsCheckpoint

\* A page is programmed, and its metadata noted.
LEMMA ProgramKeeps ==
    ASSUME NEW n \in Flash, NEW jj \in Journal, TreeOK(n, jj), NEW n2,
           NEW k \in Journal, NEW meta,
           \A p \in Pages \ {jj.head} : n2[p] = n[p],
           k.metas = [jj.metas EXCEPT ![jj.head % Ppc] = meta],
           Group(k.head) = Group(jj.head), k.tail = jj.tail,
           \A p \in UserPages : Within(jj.tail, jj.head, p)
                                  => Within(k.tail, k.head, p)
    PROVE  Keeps(n, jj, n2, k) /\ ReadMeta(n2, k, jj.head) = meta
<1> DEFINE h == jj.head
<1>1. /\ h \in UserPages /\ h \in Pages /\ h \in Int /\ jj.tail \in UserPages
      /\ h % Ppc \in 0..Ppc - 2
      /\ jj.metas \in [0..Ppc - 2 -> Meta] /\ jj.tail \in Int
  BY UserPage DEF Journal, Metas
<1>2. ReadMeta(n2, k, h) = meta
  BY <1>1 DEF ReadMeta
<1>3. ASSUME NEW p \in UserPages, OnTree(n, jj, p)
      PROVE  /\ n2[p] = n[p] /\ ReadMeta(n2, k, p) = ReadMeta(n, jj, p)
             /\ Within(k.tail, k.head, p)
  <2>1. Within(jj.tail, h, p) /\ p \in Pages /\ p \in Int
    BY <1>3, OnTreeInLog, UserPage
  <2>2. p # h
    BY <1>1, <2>1 DEF Within
  <2>3. PICK c \in Pages : c = CheckpointOf(Group(p)) /\ c \in Checkpoints
    BY <2>1, CheckpointInGroup DEF Checkpoints
  <2>4. c # h
    BY <2>3, <1>1 DEF UserPages, Checkpoints
  <2>5. n2[p] = n[p] /\ n2[c] = n[c]
    BY <2>1, <2>2, <2>3, <2>4
  <2>6. CASE Group(p) = Group(h)
    <3>1. p % Ppc # h % Ppc
      BY <1>1, <2>1, <2>2, <2>6, GroupOf
    <3>2. k.metas[p % Ppc] = jj.metas[p % Ppc]
      <4>1. p % Ppc \in 0..Ppc - 2
        BY UserPage
      <4> QED BY <1>1, <3>1, <4>1
    <3> QED BY <2>1, <2>5, <2>6, <3>2 DEF ReadMeta
  <2>7. CASE Group(p) # Group(h)
    BY <2>1, <2>3, <2>5, <2>7 DEF ReadMeta, IsCheckpoint
  <2> QED BY <2>6, <2>7
<1> QED BY <1>2, <1>3 DEF Keeps

\* The checkpoint of the head's group takes over from the journal.
LEMMA CheckpointKeeps ==
    ASSUME NEW n \in Flash, NEW jj, JournalOK(jj), TreeOK(n, jj), NEW n2,
           NEW k \in Journal, (jj.head + 2) % Ppc = 0, Room(jj),
           \A p \in Pages \ {jj.head + 1} : n2[p] = n[p],
           n2[jj.head + 1].kind = "checkpoint",
           n2[jj.head + 1].metas = jj.metas,
           k.metas = jj.metas, k.head = NextUpage(jj.head), k.tail = jj.tail
    PROVE  /\ Keeps(n, jj, n2, k)
           /\ ReadMeta(n2, k, jj.head) = jj.metas[jj.head % Ppc]
           /\ n2[jj.head] = n[jj.head] /\ Within(k.tail, k.head, jj.head)
<1> DEFINE h == jj.head
           next == NextUpage(h)
<1>1. /\ h \in UserPages /\ h \in Pages /\ h \in Int /\ jj.tail \in UserPages
      /\ jj.tailSync \in UserPages /\ InOrder(h, jj.tailSync, jj.tail)
      /\ Block(next) = Block(h) \/ Block(next) # Block(jj.tailSync)
  BY UserPage DEF Journal, JournalOK, Room
<1>2. /\ CheckpointOf(Group(h)) = h + 1 /\ Group(next) # Group(h)
      /\ h + 1 \in Checkpoints
  BY <1>1, NextGroup, NextUserPage
<1>3. ASSUME NEW p \in UserPages, p = h \/ Within(jj.tail, h, p)
      PROVE  /\ n2[p] = n[p] /\ Within(k.tail, k.head, p)
             /\ ReadMeta(n2, k, p) = IF Group(p) = Group(h) THEN jj.metas[p % Ppc]
                                     ELSE ReadMeta(n, jj, p)
  <2>1. p \in Pages /\ p \in Int /\ p # h + 1
    BY <1>2, UserPage DEF UserPages, Checkpoints
  <2>2. n2[p] = n[p]
    BY <2>1
  <2>3. Within(k.tail, k.head, p)
    BY <1>1, <1>3, LogGrows
  <2>4. Group(p) # Group(k.head)
    BY <1>1, <1>3, GroupAhead
  <2>5. PICK c : c = CheckpointOf(Group(p))
    OBVIOUS
  <2>6. ReadMeta(n2, k, p) =
          IF n2[c].kind = "checkpoint" THEN n2[c].metas[p % Ppc]
          ELSE IF n2[c] = Free THEN NoMeta
          ELSE [NoMeta EXCEPT !.id = Unreadable]
    BY <2>4, <2>5 DEF ReadMeta, IsCheckpoint
  <2>7. CASE Group(p) = Group(h)
    <3>1. c = h + 1
      BY <1>2, <2>5, <2>7
    <3> QED BY <2>2, <2>3, <2>6, <2>7, <3>1
  <2>8. CASE Group(p) # Group(h)
    <3>1. c \in Pages /\ Group(c) = Group(p) /\ Group(h + 1) = Group(h)
      BY <1>1, <1>2, <2>1, <2>5, CheckpointInGroup
    <3>2. n2[c] = n[c]
      BY <2>8, <3>1
    <3>3. ReadMeta(n, jj, p) =
            IF n[c].kind = "checkpoint" THEN n[c].metas[p % Ppc]
            ELSE IF n[c] = Free THEN NoMeta
            ELSE [NoMeta EXCEPT !.id = Unreadable]
      BY <2>5, <2>8 DEF ReadMeta, IsCheckpoint
    <3> QED BY <2>2, <2>3, <2>6, <2>8, <3>2, <3>3
  <2> QED BY <2>7, <2>8
<1>4. Keeps(n, jj, n2, k)
  <2> SUFFICES ASSUME NEW p \in UserPages, OnTree(n, jj, p)
               PROVE  /\ n2[p] = n[p] /\ ReadMeta(n2, k, p) = ReadMeta(n, jj, p)
                      /\ Within(k.tail, k.head, p)
    BY DEF Keeps
  <2>1. Within(jj.tail, h, p)
    BY OnTreeInLog
  <2>2. Group(p) = Group(h) => ReadMeta(n, jj, p) = jj.metas[p % Ppc]
    BY DEF ReadMeta
  <2> QED BY <1>3, <2>1, <2>2
<1>5. ReadMeta(n2, k, h) = jj.metas[h % Ppc] /\ n2[h] = n[h]
      /\ Within(k.tail, k.head, h)
  BY <1>1, <1>3
<1> QED BY <1>4, <1>5

-----------------------------------------------------------------------------
(* What a half-appended page is for.                                       *)

(* The disk that SectorStore promises, as long as nothing resets it.       *)
Volatile == INSTANCE SectorStore WITH Clients <- Workers, durable <- sectors

Count(c) == Cardinality({s \in Sectors : c[s] # Blank})
MapOK(n, jj) == Clean(n) /\ TreeOK(n, jj)

(* The metadata are noted and the page is written, when only the           *)
(* checkpoint is left to do.                                               *)
Wanted(n, source) == IF source.kind = "copy" THEN n[source.page] ELSE source

Noted(n, jj, k) == k.at = "check" =>
    /\ jj.metas[jj.head % Ppc] = k.meta
    /\ k.source # Blankness => n[jj.head] = Wanted(n, k.source)

Moves(n, jj, k) ==
    LET t == k.meta.id
    IN  /\ k.moved /\ k.then # Idle /\ jj.head # jj.tail
        /\ t \in Sectors /\ TracePath(n, jj, t).page = jj.tail
        /\ k.meta = MetaFor(t, TracePath(n, jj, t))
        /\ k.source = FromPage(jj.tail)
        /\ jj.count = Count(Contents(n, jj))

Writes(n, jj, k, r) ==
    LET path == TracePath(n, jj, r.sector)
        N    == Count(Contents(n, jj))
    IN  /\ r.op = "write" /\ ~k.moved /\ k.then = Idle
        /\ k.meta = MetaFor(r.sector, path) /\ k.source = FromUser(r.data)
        /\ jj.count = IF path.page = None THEN N + 1 ELSE N

Trims(n, jj, k, r) ==
    LET path == TracePath(n, jj, r.sector)
        del  == Deletion(n, jj, path)
    IN  /\ r.op = "trim" /\ ~k.moved /\ k.then = Idle
        /\ path.page # None /\ Cousins(path) # {}
        /\ k.meta = del.meta /\ k.source = FromPage(del.page)
        /\ jj.count = Count(Contents(n, jj))

Pads(n, jj, k, r) ==
    /\ r.op = "sync" /\ ~k.moved /\ k.then = SyncLoop
    /\ jj.root = None /\ k.meta = NoMeta /\ k.source = Blankness
    /\ jj.count = Count(Contents(n, jj))

Half(n, jj, k, r) ==
    /\ k.old = Count(Contents(n, jj)) /\ Noted(n, jj, k)
    /\ k.then = SyncLoop => r.op = "sync"
    /\ Moves(n, jj, k) \/ Writes(n, jj, k, r) \/ Trims(n, jj, k, r)
       \/ Pads(n, jj, k, r)

(* The page has landed at the head.                                        *)
Lands(n, jj, n2, l, k) ==
    /\ l.root = jj.head /\ l.tail = jj.tail /\ l.count = jj.count
    /\ Within(l.tail, l.head, jj.head) /\ Keeps(n, jj, n2, l)
    /\ ReadMeta(n2, l, jj.head) = k.meta
    /\ k.source # Blankness => n2[jj.head] = Wanted(n, k.source)

\* A change of a journal's count.
LEMMA Recounted ==
    ASSUME NEW n \in Flash, NEW jj \in Journal, TreeOK(n, jj), NEW l \in Journal,
           l.head = jj.head, l.tail = jj.tail, l.root = jj.root, l.metas = jj.metas
    PROVE  /\ TreeOK(n, l) /\ Keeps(n, jj, n, l) /\ Contents(n, l) = Contents(n, jj)
           /\ \A t \in Sectors : TracePath(n, l, t) = TracePath(n, jj, t)
<1>1. Keeps(n, jj, n, l)
  BY Relabelled
<1>2. TreeOK(n, l) /\ \A t \in Sectors :
        /\ TracePath(n, l, t) = TracePath(n, jj, t)
        /\ ReadSector(n, l, t, Blank) = ReadSector(n, jj, t, Blank)
  BY <1>1, SameTree
<1> QED BY <1>1, <1>2 DEF Contents

LEMMA CountSet ==
    ASSUME NEW jj \in Journal, NEW count \in Int,
           NEW l, l = [jj EXCEPT !.count = count]
    PROVE  /\ l \in Journal /\ l.count = count /\ l.head = jj.head
           /\ l.tail = jj.tail /\ l.root = jj.root /\ l.metas = jj.metas
BY DEF Journal

\* The page that a deletion rewrites is one of the tree.
LEMMA SameDeletion ==
    ASSUME NEW n \in Flash, NEW jj \in Journal, TreeOK(n, jj),
           NEW n2, NEW l, Keeps(n, jj, n2, l), NEW s \in Sectors,
           Cousins(TracePath(n, jj, s)) # {}
    PROVE  LET del == Deletion(n, jj, TracePath(n, jj, s))
           IN  /\ Deletion(n2, l, TracePath(n, jj, s)) = del
               /\ n2[del.page] = n[del.page] /\ OnTree(n, jj, del.page)
               /\ del.page \in UserPages
               /\ n[del.page].kind = "user" /\ n[del.page].data \in Data
<1> DEFINE path == TracePath(n, jj, s)
           del == Deletion(n, jj, path)
           level == CHOOSE d \in Cousins(path) : \A e \in Cousins(path) : e <= d
<1>1. PICK c \in Sectors : c = del.meta.id /\ TracePath(n, jj, c).page = del.page
                           /\ del.page # None
  BY DeletionGrafts
<1>2. PICK p : p = del.page
  OBVIOUS
<1> HIDE DEF del, path
<1>3. p = Walk(n, jj, c)[Depth + 1] /\ p \in UserPages
      /\ n[p].kind = "user" /\ n[p].data \in Data
  BY <1>1, <1>2, SectorPage
<1>4. OnTree(n, jj, p)
  <2>1. Depth + 1 \in 1..Depth + 1
    BY GeometryAssumption
  <2> QED BY <1>3, <2>1 DEF OnTree
<1>5. ReadMeta(n2, l, p) = ReadMeta(n, jj, p) /\ n2[p] = n[p]
  BY <1>3, <1>4 DEF Keeps
<1>6. p = path.alt[level]
  BY <1>2 DEF del, Deletion
<1>7. Deletion(n2, l, path) = del
  <2> HIDE DEF level
  <2>1. /\ Deletion(n2, l, path) =
             LET meta == ReadMeta(n2, l, p)
             IN  [page |-> p,
                  meta |-> [id |-> meta.id,
                            alt |-> [d \in 1..Depth |->
                                       IF d < level THEN path.alt[d]
                                       ELSE IF d = level THEN None ELSE meta.alt[d]]]]
        /\ del =
             LET meta == ReadMeta(n, jj, p)
             IN  [page |-> p,
                  meta |-> [id |-> meta.id,
                            alt |-> [d \in 1..Depth |->
                                       IF d < level THEN path.alt[d]
                                       ELSE IF d = level THEN None ELSE meta.alt[d]]]]
    BY <1>6 DEF del, Deletion, level
  <2> QED BY <1>5, <2>1
<1> QED BY <1>2, <1>3, <1>4, <1>5, <1>7 DEF path, del

\* What is to become of the page stays true while the tree stays.
LEMMA HalfKept ==
    ASSUME NEW n \in Flash, NEW jj \in Journal, TreeOK(n, jj),
           NEW n2 \in Flash, NEW l \in Journal, Keeps(n, jj, n2, l),
           l.root = jj.root, l.head = jj.head, l.tail = jj.tail, l.count = jj.count,
           NEW k, NEW r \in Requests, Half(n, jj, k, r),
           NEW m, m.source = k.source, m.meta = k.meta, m.then = k.then,
           m.moved = k.moved, m.old = k.old, Noted(n2, l, m)
    PROVE  /\ Half(n2, l, m, r) /\ TreeOK(n2, l)
           /\ Contents(n2, l) = Contents(n, jj)
<1>1. TreeOK(n2, l) /\ \A t \in Sectors :
        /\ TracePath(n2, l, t) = TracePath(n, jj, t)
        /\ ReadSector(n2, l, t, Blank) = ReadSector(n, jj, t, Blank)
  BY SameTree
<1>2. Contents(n2, l) = Contents(n, jj)
  BY <1>1 DEF Contents
<1>3. CASE Moves(n, jj, k)
  BY <1>1, <1>2, <1>3 DEF Half, Moves
<1>4. CASE Writes(n, jj, k, r)
  <2>1. r.sector \in Sectors
    BY <1>4 DEF Writes, Requests
  <2> QED BY <1>1, <1>2, <1>4, <2>1 DEF Half, Writes
<1>5. CASE Trims(n, jj, k, r)
  <2>1. r.sector \in Sectors
    BY <1>5 DEF Trims, Requests
  <2>2. PICK s \in Sectors : s = r.sector
    BY <2>1
  <2>3. TracePath(n, jj, s) = TracePath(n2, l, s)
    BY <1>1
  <2>4. Cousins(TracePath(n, jj, s)) # {}
    BY <1>5, <2>2 DEF Trims
  <2>5. Deletion(n2, l, TracePath(n, jj, s)) = Deletion(n, jj, TracePath(n, jj, s))
    BY <2>4, SameDeletion
  <2>6. Trims(n2, l, m, r)
    BY <1>2, <1>5, <2>2, <2>3, <2>5 DEF Trims
  <2> QED BY <1>1, <1>2, <2>6 DEF Half
<1>6. CASE Pads(n, jj, k, r)
  BY <1>1, <1>2, <1>6 DEF Half, Pads
<1> QED BY <1>1, <1>2, <1>3, <1>4, <1>5, <1>6 DEF Half

\* What reads find once the page has landed.
LEMMA Grafted ==
    ASSUME NEW n \in Flash, NEW jj \in Journal, TreeOK(n, jj),
           NEW n2 \in Flash, NEW l \in Journal, Keeps(n, jj, n2, l),
           NEW h \in UserPages, NEW meta, NewRoot(n2, l, h, meta),
           NEW gone, Grafts(n, jj, meta, gone), gone # meta.id
    PROVE  /\ TreeOK(n2, l) /\ TracePath(n2, l, meta.id).page = h
           /\ meta.id \in Sectors
           /\ ReadSector(n2, l, meta.id, Blank) = n2[h].data
           /\ \A t \in Sectors : t # meta.id =>
                /\ t = gone => ReadSector(n2, l, t, Blank) = Blank
                /\ t # gone => ReadSector(n2, l, t, Blank)
                                = ReadSector(n, jj, t, Blank)
<1>1. /\ TreeOK(n2, l) /\ TracePath(n2, l, meta.id).page = h
      /\ \A t \in Sectors : t # meta.id =>
           /\ t = gone => TracePath(n2, l, t).page = None
           /\ t # gone => TracePath(n2, l, t).page = TracePath(n, jj, t).page
  BY AppendTree
<1>2. meta.id \in Sectors
  BY DEF Grafts
<1>3. h # None
  BY UserPage DEF None
<1>4. ASSUME NEW t \in Sectors, t = meta.id
      PROVE  ReadSector(n2, l, t, Blank) = n2[h].data
  BY <1>1, <1>3, <1>4, ReadIs
<1>5. ASSUME NEW t \in Sectors, t # meta.id, t = gone
      PROVE  ReadSector(n2, l, t, Blank) = Blank
  BY <1>1, <1>5, ReadIs
<1>6. ASSUME NEW t \in Sectors, t # meta.id, t # gone
      PROVE  ReadSector(n2, l, t, Blank) = ReadSector(n, jj, t, Blank)
  <2>1. PICK p : p = TracePath(n, jj, t).page
    OBVIOUS
  <2>2. TracePath(n2, l, t).page = p
    BY <1>1, <1>6, <2>1
  <2>3. Depth + 1 \in 1..Depth + 1
    BY GeometryAssumption
  <2>4. p # None => n2[p] = n[p]
    BY <2>1, <2>3, SectorPage DEF OnTree, Keeps
  <2>5. ReadSector(n, jj, t, Blank) = IF p = None THEN Blank ELSE n[p].data
    BY <2>1, ReadIs
  <2>6. ReadSector(n2, l, t, Blank) = IF p = None THEN Blank ELSE n2[p].data
    BY <1>1, <2>2, ReadIs
  <2> QED BY <2>4, <2>5, <2>6
<1> QED BY <1>1, <1>2, <1>4, <1>5, <1>6

\* Garbage collection: the page at the tail is now the one at the head.
LEMMA MoveLands ==
    ASSUME NEW n \in Flash, NEW jj, JournalOK(jj), TreeOK(n, jj),
           NEW n2 \in Flash, NEW l, JournalOK(l), NEW k,
           Lands(n, jj, n2, l, k), Moves(n, jj, k)
    PROVE  LET m == Dequeue(l)
           IN  /\ TreeOK(n2, m) /\ Contents(n2, m) = Contents(n, jj)
               /\ m.count = Count(Contents(n2, m)) /\ TreeOK(n2, l)
               /\ \A s \in Sectors : TracePath(n2, m, s).page
                                       = TracePath(n2, l, s).page
<1> DEFINE m == Dequeue(l)
<1>1. jj \in Journal /\ l \in Journal
  BY DEF JournalOK
<1>2. PICK h \in UserPages : h = jj.head
  BY <1>1 DEF Journal
<1>3. PICK t \in Sectors : t = k.meta.id
  BY DEF Moves
<1>4. PICK p : p = jj.tail
  OBVIOUS
<1>5. /\ TracePath(n, jj, t).page = p /\ h # p
      /\ k.meta = MetaFor(t, TracePath(n, jj, t)) /\ k.source = FromPage(p)
      /\ jj.count = Count(Contents(n, jj))
  BY <1>2, <1>3, <1>4 DEF Moves
<1>6. p \in UserPages /\ p # None
  BY <1>1, <1>4, UserPage DEF Journal, None
<1>7. /\ p = Walk(n, jj, t)[Depth + 1] /\ ReadMeta(n, jj, p).id = t
      /\ n[p].kind = "user" /\ n[p].data \in Data
  BY <1>1, <1>5, <1>6, SectorPage
<1>8. OnTree(n, jj, p)
  <2>1. Depth + 1 \in 1..Depth + 1
    BY GeometryAssumption
  <2> QED BY <1>7, <2>1 DEF OnTree
<1>9. n2[h] = n[p]
  <2>1. FromPage(p) # Blankness /\ Wanted(n, FromPage(p)) = n[p]
    BY DEF FromPage, Blankness, Wanted
  <2> QED BY <1>2, <1>5, <2>1 DEF Lands
<1>10. Grafts(n, jj, k.meta, None)
  BY <1>1, <1>5, PathGrafts
<1>11. None # k.meta.id
  BY <1>3, SectorAssumption DEF None
<1>12. /\ Keeps(n, jj, n2, l) /\ l.root = h /\ Within(l.tail, l.head, h)
       /\ ReadMeta(n2, l, h) = k.meta /\ l.tail = p /\ l.count = jj.count
  BY <1>2, <1>4 DEF Lands
<1>13. /\ TreeOK(n2, l) /\ TracePath(n2, l, t).page = h
       /\ ReadSector(n2, l, t, Blank) = n2[h].data
       /\ \A s \in Sectors : s # t /\ s # None =>
            ReadSector(n2, l, s, Blank) = ReadSector(n, jj, s, Blank)
  <2>1. NewRoot(n2, l, h, k.meta)
    BY <1>7, <1>9, <1>12 DEF NewRoot
  <2> QED BY <1>1, <1>3, <1>10, <1>11, <1>12, <2>1, Grafted
<1>14. ReadSector(n, jj, t, Blank) = n2[h].data
  BY <1>1, <1>5, <1>6, <1>9, ReadIs
<1>15. \A s \in Sectors : ReadSector(n2, l, s, Blank) = ReadSector(n, jj, s, Blank)
  BY <1>13, <1>14, SectorAssumption DEF None
<1>16. ~OnTree(n2, l, p)
  <2>1. ReadMeta(n2, l, p).id = t
    BY <1>6, <1>7, <1>8, <1>12 DEF Keeps
  <2>2. OnTree(n2, l, p) => TracePath(n2, l, t).page = p
    BY <1>1, <1>6, <1>13, <2>1, OnTreeFound
  <2> QED BY <1>5, <1>13, <2>2
<1>17. l.head # l.tail
  <2>1. l.head \in Int /\ l.tail \in Int /\ h \in Int
    BY <1>1, UserPage DEF Journal
  <2> QED BY <1>12, <2>1 DEF Within
<1>18. /\ TreeOK(n2, m)
       /\ \A s \in Sectors : TracePath(n2, m, s).page = TracePath(n2, l, s).page
  BY <1>12, <1>13, <1>16, <1>17, DequeueTree
<1>19. m \in Journal /\ m.count = l.count
  BY DequeueType DEF JournalOK
<1> HIDE DEF m
<1>20. \A s \in Sectors : ReadSector(n2, m, s, Blank) = ReadSector(n2, l, s, Blank)
  BY <1>1, <1>13, <1>18, <1>19, ReadIs
<1>21. Contents(n2, m) = Contents(n, jj)
  BY <1>15, <1>20 DEF Contents
<1> QED BY <1>5, <1>12, <1>13, <1>18, <1>19, <1>21 DEF m

\* What the count is when one sector changes.
LEMMA CountChanges ==
    ASSUME NEW c \in [Sectors -> Data \cup {Blank}], NEW s \in Sectors
    PROVE  /\ Count(c) \in Nat
           /\ \A d \in Data :
                /\ c[s] = Blank => Count([c EXCEPT ![s] = d]) = Count(c) + 1
                /\ c[s] # Blank => Count([c EXCEPT ![s] = d]) = Count(c)
           /\ c[s] # Blank => Count([c EXCEPT ![s] = Blank]) = Count(c) - 1
<1> DEFINE Kept(f) == {t \in Sectors : f[t] # Blank}
<1>1. IsFiniteSet(Kept(c))
  BY SectorAssumption, FS_Subset
<1>2. Count(c) \in Nat
  BY <1>1, FS_CardinalityType DEF Count
<1>3. ASSUME NEW d \in Data
      PROVE  Count([c EXCEPT ![s] = d]) =
               IF c[s] = Blank THEN Count(c) + 1 ELSE Count(c)
  <2>1. Kept([c EXCEPT ![s] = d]) = Kept(c) \cup {s}
    BY DataAssumption
  <2>2. s \in Kept(c) <=> c[s] # Blank
    OBVIOUS
  <2>3. Cardinality(Kept(c) \cup {s}) =
          IF s \in Kept(c) THEN Cardinality(Kept(c)) ELSE Cardinality(Kept(c)) + 1
    <3> HIDE DEF Kept
    <3> QED BY <1>1, FS_AddElement
  <2> QED BY <2>1, <2>2, <2>3 DEF Count
<1>4. ASSUME c[s] # Blank PROVE Count([c EXCEPT ![s] = Blank]) = Count(c) - 1
  <2>1. Kept([c EXCEPT ![s] = Blank]) = Kept(c) \ {s}
    OBVIOUS
  <2>2. s \in Kept(c)
    BY <1>4
  <2>3. Cardinality(Kept(c) \ {s}) = Cardinality(Kept(c)) - 1
    <3> HIDE DEF Kept
    <3> QED BY <1>1, <2>2, FS_RemoveElement
  <2> QED BY <2>1, <2>3 DEF Count
<1> QED BY <1>2, <1>3, <1>4

\* What reads find is data.
LEMMA ContentsType ==
    ASSUME NEW n \in Flash, NEW jj \in Journal, TreeOK(n, jj)
    PROVE  /\ Contents(n, jj) \in [Sectors -> Data \cup {Blank}]
           /\ Count(Contents(n, jj)) \in Nat
           /\ \A s \in Sectors :
                Contents(n, jj)[s] = Blank <=> TracePath(n, jj, s).page = None
<1>1. /\ Contents(n, jj) \in [Sectors -> Data \cup {Blank}]
      /\ \A s \in Sectors :
           Contents(n, jj)[s] = Blank <=> TracePath(n, jj, s).page = None
  BY ReadIs DEF Contents
<1>2. IsFiniteSet({s \in Sectors : Contents(n, jj)[s] # Blank})
  BY SectorAssumption, FS_Subset
<1>3. Count(Contents(n, jj)) \in Nat
  BY <1>2, FS_CardinalityType DEF Count
<1> QED BY <1>1, <1>3

\* A write: the sector has the new data.
LEMMA WriteLands ==
    ASSUME NEW n \in Flash, NEW jj \in Journal, TreeOK(n, jj),
           NEW n2 \in Flash, NEW l \in Journal, NEW k, NEW r \in Requests,
           Lands(n, jj, n2, l, k), Writes(n, jj, k, r)
    PROVE  /\ TreeOK(n2, l)
           /\ Contents(n2, l) = [Contents(n, jj) EXCEPT ![r.sector] = r.data]
           /\ l.count = Count(Contents(n2, l))
<1>1. PICK s \in Sectors : s = r.sector
  BY DEF Writes, Requests
<1>2. PICK d \in Data : d = r.data
  BY DEF Writes, Requests
<1>3. PICK h \in UserPages : h = jj.head
  BY DEF Journal
<1>4. /\ k.meta = MetaFor(s, TracePath(n, jj, s)) /\ k.source = FromUser(d)
      /\ jj.count = IF TracePath(n, jj, s).page = None
                    THEN Count(Contents(n, jj)) + 1 ELSE Count(Contents(n, jj))
  BY <1>1, <1>2 DEF Writes
<1>5. k.meta.id = s /\ None # s
  BY <1>4, SectorAssumption DEF MetaFor, None
<1>6. Grafts(n, jj, k.meta, None)
  BY <1>4, PathGrafts
<1>7. n2[h] = FromUser(d)
  <2>1. FromUser(d) # Blankness /\ Wanted(n, FromUser(d)) = FromUser(d)
    BY DEF FromUser, Blankness, Wanted
  <2> QED BY <1>3, <1>4, <2>1 DEF Lands
<1>8. NewRoot(n2, l, h, k.meta) /\ Keeps(n, jj, n2, l)
  BY <1>3, <1>7 DEF Lands, NewRoot, FromUser
<1>9. /\ TreeOK(n2, l) /\ ReadSector(n2, l, s, Blank) = n2[h].data
      /\ \A t \in Sectors : t # s /\ t # None =>
           ReadSector(n2, l, t, Blank) = ReadSector(n, jj, t, Blank)
  BY <1>5, <1>6, <1>8, Grafted
<1>10. Contents(n2, l) = [Contents(n, jj) EXCEPT ![s] = d]
  <2>1. \A t \in Sectors : t # None
    BY SectorAssumption DEF None
  <2>2. ReadSector(n2, l, s, Blank) = d
    BY <1>7, <1>9 DEF FromUser
  <2> QED BY <1>9, <2>1, <2>2 DEF Contents
<1>11. PICK c \in [Sectors -> Data \cup {Blank}] :
          c = Contents(n, jj) /\ (c[s] = Blank <=> TracePath(n, jj, s).page = None)
  BY ContentsType
<1>12. Count(Contents(n2, l)) = IF TracePath(n, jj, s).page = None
                                THEN Count(Contents(n, jj)) + 1
                                ELSE Count(Contents(n, jj))
  <2>1. Contents(n2, l) = [c EXCEPT ![s] = d]
    BY <1>10, <1>11
  <2>2. CASE c[s] = Blank
    <3>1. Count([c EXCEPT ![s] = d]) = Count(c) + 1
      BY ONLY s \in Sectors, d \in Data, c \in [Sectors -> Data \cup {Blank}],
              <2>2, CountChanges
    <3> QED BY <1>11, <2>1, <2>2, <3>1
  <2>3. CASE c[s] # Blank
    <3>1. Count([c EXCEPT ![s] = d]) = Count(c)
      BY ONLY s \in Sectors, d \in Data, c \in [Sectors -> Data \cup {Blank}],
              <2>3, CountChanges
    <3> QED BY <1>11, <2>1, <2>3, <3>1
  <2> QED BY <2>2, <2>3
<1>13. l.count = jj.count
  BY DEF Lands
<1> QED BY <1>1, <1>2, <1>4, <1>9, <1>10, <1>12, <1>13

\* A trim: the cousin's new page no longer leads to the sector.
LEMMA TrimLands ==
    ASSUME NEW n \in Flash, NEW jj \in Journal, TreeOK(n, jj),
           NEW n2 \in Flash, NEW l \in Journal, NEW k, NEW r \in Requests,
           Lands(n, jj, n2, l, k), Trims(n, jj, k, r)
    PROVE  /\ TreeOK(n2, l)
           /\ Contents(n2, l) = [Contents(n, jj) EXCEPT ![r.sector] = Blank]
           /\ l.count - 1 = Count(Contents(n2, l))
<1>1. PICK s \in Sectors : s = r.sector
  BY DEF Trims, Requests
<1>2. PICK h \in UserPages : h = jj.head
  BY DEF Journal
<1> DEFINE path == TracePath(n, jj, s)
           del == Deletion(n, jj, path)
<1>3. /\ path.page # None /\ Cousins(path) # {}
      /\ k.meta = del.meta /\ k.source = FromPage(del.page)
      /\ jj.count = Count(Contents(n, jj))
  BY <1>1 DEF Trims
<1>4. PICK c \in Sectors :
             /\ c = del.meta.id /\ c # s /\ Grafts(n, jj, del.meta, s)
             /\ TracePath(n, jj, c).page = del.page /\ del.page # None
  BY <1>3, DeletionGrafts
<1>5. n[del.page].kind = "user" /\ n[del.page].data \in Data
  BY <1>4, SectorPage
<1> HIDE DEF path, del
<1>6. n2[h] = n[del.page]
  <2>1. /\ FromPage(del.page) # Blankness
        /\ Wanted(n, FromPage(del.page)) = n[del.page]
    BY DEF FromPage, Blankness, Wanted
  <2> QED BY <1>2, <1>3, <2>1 DEF Lands
<1>7. NewRoot(n2, l, h, k.meta) /\ Keeps(n, jj, n2, l)
  BY <1>2, <1>5, <1>6 DEF Lands, NewRoot
<1>8. k.meta.id = c /\ Grafts(n, jj, k.meta, s) /\ s # k.meta.id
  BY <1>3, <1>4
<1>9. /\ TreeOK(n2, l) /\ ReadSector(n2, l, c, Blank) = n2[h].data
      /\ ReadSector(n2, l, s, Blank) = Blank
      /\ \A t \in Sectors : t # c /\ t # s =>
           ReadSector(n2, l, t, Blank) = ReadSector(n, jj, t, Blank)
  BY <1>7, <1>8, Grafted
<1>10. ReadSector(n, jj, c, Blank) = n2[h].data
  BY <1>4, <1>6, ReadIs
<1>11. Contents(n2, l) = [Contents(n, jj) EXCEPT ![s] = Blank]
  BY <1>4, <1>9, <1>10 DEF Contents
<1>12. Contents(n, jj) \in [Sectors -> Data \cup {Blank}]
       /\ Contents(n, jj)[s] # Blank
  BY <1>3, ContentsType DEF path
<1>13. Count(Contents(n2, l)) = Count(Contents(n, jj)) - 1
  BY <1>11, <1>12, CountChanges
<1>14. l.count = jj.count
  BY DEF Lands
<1> QED BY <1>1, <1>3, <1>9, <1>11, <1>13, <1>14

\* A map without a page has nothing.
LEMMA EmptyContents ==
    ASSUME NEW n \in Flash, NEW jj \in Journal, TreeOK(n, jj),
           \A t \in Sectors : TracePath(n, jj, t).page = None
    PROVE  /\ Contents(n, jj) = [s \in Sectors |-> Blank]
           /\ Count(Contents(n, jj)) = 0
<1>1. \A t \in Sectors : ReadSector(n, jj, t, Blank) = Blank
  BY ReadIs
<1>2. Contents(n, jj) = [s \in Sectors |-> Blank]
  BY <1>1 DEF Contents
<1>3. {s \in Sectors : Contents(n, jj)[s] # Blank} = {}
  BY <1>2
<1> QED BY <1>2, <1>3, FS_EmptySet DEF Count

\* Padding for a sync with nothing to move: the root is an empty page.
LEMMA PadLands ==
    ASSUME NEW n \in Flash, NEW jj \in Journal, TreeOK(n, jj),
           NEW n2 \in Flash, NEW l \in Journal, NEW k, NEW r \in Requests,
           Lands(n, jj, n2, l, k), Pads(n, jj, k, r)
    PROVE  /\ TreeOK(n2, l) /\ Contents(n2, l) = Contents(n, jj)
           /\ l.count = Count(Contents(n2, l))
<1>1. ReadMeta(n2, l, l.root).id = None /\ Within(l.tail, l.head, l.root)
  BY DEF Lands, Pads, NoMeta
<1>2. TreeOK(n2, l) /\ \A t \in Sectors : TracePath(n2, l, t).page = None
  BY <1>1, EmptyTree
<1>3. \A t \in Sectors : TracePath(n, jj, t).page = None
  BY EmptyTree DEF Pads
<1>4. Contents(n2, l) = Contents(n, jj)
  BY <1>2, <1>3, EmptyContents
<1> QED BY <1>2, <1>4 DEF Lands, Pads

\* The journal after push_meta's caller.
Finished(l, k, r, m) ==
    m = IF k.moved THEN Dequeue(l)
        ELSE [l EXCEPT !.count = IF r.op = "trim" THEN @ - 1 ELSE @]

\* What push_meta and its callers make of it, whatever the page is for.
LEMMA Landed ==
    ASSUME NEW n \in Flash, NEW jj, JournalOK(jj), TreeOK(n, jj),
           NEW n2 \in Flash, NEW l, JournalOK(l), NEW k, NEW r \in Requests,
           Lands(n, jj, n2, l, k), Half(n, jj, k, r),
           NEW m, Finished(l, k, r, m)
    PROVE  /\ TreeOK(n2, m) /\ m.count = Count(Contents(n2, m))
           /\ k.then # Idle => Contents(n2, m) = Contents(n, jj)
           /\ k.then = Idle =>
                /\ Contents(n2, m) = Volatile!After(Contents(n, jj), r)
                /\ r.op \in {"write", "trim"}
           /\ TreeOK(n2, l)
           /\ \A s \in Sectors : TracePath(n2, m, s).page = TracePath(n2, l, s).page
<1>1. jj \in Journal /\ l \in Journal /\ l.count \in Int
  BY DEF JournalOK, Journal
<1>2. CASE Moves(n, jj, k)
  <2>1. k.moved /\ k.then # Idle
    BY <1>2 DEF Moves
  <2>2. m = Dequeue(l)
    BY <2>1 DEF Finished
  <2> QED BY <1>2, <2>1, <2>2, MoveLands
<1>3. CASE Writes(n, jj, k, r)
  <2>1. ~k.moved /\ k.then = Idle /\ r.op = "write"
    BY <1>3 DEF Writes
  <2>2. PICK count \in Int : count = l.count /\ m = [l EXCEPT !.count = count]
    BY <1>1, <2>1 DEF Journal, Finished
  <2>3. /\ TreeOK(n2, l)
        /\ Contents(n2, l) = [Contents(n, jj) EXCEPT ![r.sector] = r.data]
        /\ l.count = Count(Contents(n2, l))
    BY <1>1, <1>3, WriteLands
  <2>4. /\ TreeOK(n2, m) /\ Contents(n2, m) = Contents(n2, l) /\ m.count = l.count
        /\ \A s \in Sectors : TracePath(n2, m, s) = TracePath(n2, l, s)
    <3>1. /\ m \in Journal /\ m.count = count /\ m.head = l.head
          /\ m.tail = l.tail /\ m.root = l.root /\ m.metas = l.metas
      BY ONLY <1>1, <2>2, CountSet
    <3> QED BY ONLY n2 \in Flash, <1>1, <2>2, <2>3, <3>1, Recounted
  <2>5. Volatile!After(Contents(n, jj), r)
          = [Contents(n, jj) EXCEPT ![r.sector] = r.data]
    BY <2>1 DEF Volatile!After
  <2> QED BY <2>1, <2>3, <2>4, <2>5
<1>4. CASE Trims(n, jj, k, r)
  <2>1. ~k.moved /\ k.then = Idle /\ r.op = "trim"
    BY <1>4 DEF Trims
  <2>2. PICK count \in Int : count = l.count - 1 /\ m = [l EXCEPT !.count = count]
    BY <1>1, <2>1 DEF Journal, Finished
  <2>3. /\ TreeOK(n2, l)
        /\ Contents(n2, l) = [Contents(n, jj) EXCEPT ![r.sector] = Blank]
        /\ l.count - 1 = Count(Contents(n2, l))
    BY <1>1, <1>4, TrimLands
  <2>4. /\ TreeOK(n2, m) /\ Contents(n2, m) = Contents(n2, l)
        /\ m.count = l.count - 1
        /\ \A s \in Sectors : TracePath(n2, m, s) = TracePath(n2, l, s)
    <3>1. /\ m \in Journal /\ m.count = count /\ m.head = l.head
          /\ m.tail = l.tail /\ m.root = l.root /\ m.metas = l.metas
      BY ONLY <1>1, <2>2, CountSet
    <3> QED BY ONLY n2 \in Flash, <1>1, <2>2, <2>3, <3>1, Recounted
  <2>5. Volatile!After(Contents(n, jj), r)
          = [Contents(n, jj) EXCEPT ![r.sector] = Blank]
    BY <2>1 DEF Volatile!After
  <2> QED BY <2>1, <2>3, <2>4, <2>5
<1>5. CASE Pads(n, jj, k, r)
  <2>1. ~k.moved /\ k.then # Idle /\ r.op = "sync"
    BY <1>5 DEF Pads, SyncLoop, Idle
  <2>2. PICK count \in Int : count = l.count /\ m = [l EXCEPT !.count = count]
    BY <1>1, <2>1 DEF Journal, Finished
  <2>3. /\ TreeOK(n2, l) /\ Contents(n2, l) = Contents(n, jj)
        /\ l.count = Count(Contents(n2, l))
    BY <1>1, <1>5, PadLands
  <2>4. /\ TreeOK(n2, m) /\ Contents(n2, m) = Contents(n2, l) /\ m.count = l.count
        /\ \A s \in Sectors : TracePath(n2, m, s) = TracePath(n2, l, s)
    <3>1. /\ m \in Journal /\ m.count = count /\ m.head = l.head
          /\ m.tail = l.tail /\ m.root = l.root /\ m.metas = l.metas
      BY ONLY <1>1, <2>2, CountSet
    <3> QED BY ONLY n2 \in Flash, <1>1, <2>2, <2>3, <3>1, Recounted
  <2> QED BY <2>1, <2>3, <2>4
<1> QED BY <1>2, <1>3, <1>4, <1>5 DEF Half

-----------------------------------------------------------------------------
(* Until the first reset the map is right: its pages are clean, the tree   *)
(* leads each sector to its page, and the count is the number of pages     *)
(* that it leads to, but for the half of an operation that a page is       *)
(* being appended for.                                                     *)
Appending == {"head", "erase", "program", "check"}

Counted(n, jj, k, r) ==
    IF k.at \in Appending THEN Half(n, jj, k, r)
    ELSE jj.count = Count(Contents(n, jj)) /\ (k.at = "sync" => r.op = "sync")

Untouched ==
    /\ MapOK(nand, j) /\ sectors = Contents(nand, j)
    /\ \A w \in Workers : proc[w] # Idle => Counted(nand, j, proc[w], request[w])
    /\ Quiet => j.count = Count(sectors)

MapInv == crashes \in Nat /\ (crashes = 0 => Untouched)

\* What a worker's step does for its client.
Effect(w) ==
    \/ Contents(nand', j') = Contents(nand, j) /\ UNCHANGED reply
    \/ Contents(nand', j') = Contents(nand, j) /\ Fail(w)
    \/ /\ Contents(nand', j') = Volatile!After(Contents(nand, j), request[w])
       /\ Answer(w, TRUE, IF request[w].op = "read"
                          THEN Contents(nand, j)[request[w].sector] ELSE Blank)

MapTo(w, k) ==
    /\ Goto(w, k) /\ MapOK(nand', j') /\ Counted(nand', j', k, request[w])
    /\ Effect(w)

Service(w) == Volatile!CarryOut(w) \/ Volatile!Refuse(w)
              \/ UNCHANGED <<sectors, request, reply>>

\* What a worker knows before its step.
At0(w) == Inv /\ Untouched /\ w \in Workers /\ proc[w] # Idle

LEMMA Known ==
    ASSUME NEW w, At0(w)
    PROVE  /\ nand \in Flash /\ FlashOK(nand) /\ j \in Journal /\ JournalOK(j)
           /\ Clean(nand) /\ TreeOK(nand, j) /\ w \in Workers /\ Inv
           /\ Counted(nand, j, proc[w], request[w])
           /\ request[w] \in Requests /\ reply[w] = NoReply
           /\ j.head \in UserPages /\ j.tail \in UserPages /\ j.count \in Int
BY DEF At0, Untouched, MapOK, Inv, CallInv, LogInv, FlashOK, JournalOK, Journal

LEMMA MapStep ==
    ASSUME NEW w, At0(w), Remember, UNCHANGED request, Inv', NEW k, MapTo(w, k)
    PROVE  Untouched' /\ Service(w)
<1>1. /\ w \in Workers /\ proc[w] # Idle /\ proc' = [proc EXCEPT ![w] = k]
      /\ MapOK(nand', j') /\ sectors' = Contents(nand', j')
      /\ sectors = Contents(nand, j)
      /\ Counted(nand', j', k, request[w])
  BY DEF At0, Untouched, MapTo, Goto, Remember
<1>2. proc \in [Workers -> Places] /\ reply \in [Workers -> Replies \cup {NoReply}]
      /\ \A v \in Workers : v # w => proc[v] = Idle
  BY <1>1 DEF At0, Inv, TypeInv, CallInv
<1>3. proc'[w] = k /\ \A v \in Workers : v # w => proc'[v] = Idle
  BY <1>1, <1>2
<1>4. \A v \in Workers : proc'[v] # Idle
         => Counted(nand', j', proc'[v], request'[v])
  BY <1>1, <1>3
<1>5. Quiet' => j'.count = Count(sectors')
  <2>1. Quiet' => k = Idle
    BY <1>1, <1>3 DEF Quiet
  <2>2. Idle.at \notin Appending
    BY DEF Idle, Appending
  <2> QED BY <1>1, <2>1, <2>2 DEF Counted
<1>6. Untouched'
  BY <1>1, <1>4, <1>5 DEF Untouched
<1>7. request[w] \in Requests /\ request[w] # NoRequest /\ reply[w] = NoReply
  BY Known, ClientAssumption
<1>8. CASE Contents(nand', j') = Contents(nand, j) /\ UNCHANGED reply
  <2>1. sectors' = sectors /\ request' = request /\ reply' = reply
    BY <1>1, <1>8
  <2> QED BY <1>6, <2>1 DEF Service
<1>9. CASE Contents(nand', j') = Contents(nand, j) /\ Fail(w)
  <2>1. sectors' = sectors /\ request' = request
        /\ reply' = [reply EXCEPT ![w] = [ok |-> FALSE, data |-> Blank]]
    BY <1>1, <1>9 DEF Fail, Answer
  <2>2. Volatile!Refuse(w)
    BY <1>7, <2>1 DEF Volatile!Refuse, Volatile!Pending, Volatile!Failure
  <2> QED BY <1>6, <2>2 DEF Service
<1>10. CASE /\ Contents(nand', j') = Volatile!After(Contents(nand, j), request[w])
            /\ Answer(w, TRUE, IF request[w].op = "read"
                               THEN Contents(nand, j)[request[w].sector] ELSE Blank)
  <2>1. sectors' = Volatile!After(sectors, request[w]) /\ request' = request
    BY <1>1, <1>10
  <2>2. reply' = [reply EXCEPT ![w] = Volatile!Success(sectors, request[w])]
    BY <1>1, <1>10 DEF Answer, Volatile!Success
  <2>3. Volatile!CarryOut(w)
    BY <1>7, <2>1, <2>2 DEF Volatile!CarryOut, Volatile!Pending
  <2> QED BY <1>6, <2>3 DEF Service
<1> QED BY <1>8, <1>9, <1>10 DEF MapTo, Effect

\* The ways a step ends that leave the map alone.
LEMMA AnswerMaps ==
    ASSUME NEW w, At0(w), MapOK(nand', j'),
           Contents(nand', j') = Contents(nand, j),
           j'.count = Count(Contents(nand, j)),
           Fail(w) \/ (Succeed(w) /\ request[w].op \in {"sync", "clear"}
                       /\ Volatile!After(Contents(nand, j), request[w])
                            = Contents(nand, j))
    PROVE  MapTo(w, Idle)
<1>1. Goto(w, Idle)
  BY DEF Fail, Succeed, Answer
<1>2. Counted(nand', j', Idle, request[w])
  BY DEF Counted, Idle, Appending
<1>3. Effect(w)
  BY DEF Effect, Succeed
<1> QED BY <1>1, <1>2, <1>3 DEF MapTo

\* A map that leads to the same pages has the same contents.
LEMMA SamePages ==
    ASSUME NEW n \in Flash, NEW jj \in Journal, TreeOK(n, jj),
           NEW k \in Journal, TreeOK(n, k),
           \A s \in Sectors : TracePath(n, k, s).page = TracePath(n, jj, s).page
    PROVE  Contents(n, k) = Contents(n, jj)
<1>1. \A s \in Sectors : ReadSector(n, k, s, Blank) = ReadSector(n, jj, s, Blank)
  BY ReadIs
<1> QED BY <1>1 DEF Contents

\* On a clean flash no block is bad: the tail is where it is.
LEMMA CleanBlock ==
    ASSUME NEW n, Clean(n), NEW b \in 0..NumBlocks - 1
    PROVE  ~IsBad(n, b)
<1>1. FirstOf(b) \in UserPages
  BY FirstOrder
<1> QED BY <1>1 DEF Clean, IsBad

LEMMA CleanPeek ==
    ASSUME NEW n, Clean(n), NEW jj \in Journal
    PROVE  Peek(n, jj) = jj
<1>1. jj.tail \in Pages /\ Block(jj.tail) \in 0..NumBlocks - 1
  BY UserPage, BlockOf DEF Journal
<1>2. PICK b \in 0..NumBlocks - 1 : b = Block(jj.tail)
  BY <1>1
<1> DEFINE good == {c \in 0..NumBlocks - 1 : c = Block(jj.head) \/ ~IsBad(n, c)}
<1>3. CASE TailBlock(n, jj) = None
  BY <1>3 DEF Peek
<1>4. CASE TailBlock(n, jj) # None
  <2>1. FirstBlock(b, good) # None
    BY <1>2, <1>4 DEF TailBlock
  <2>2. PICK i \in Nat : /\ FirstBlock(b, good) = (b + i) % NumBlocks
                         /\ \A k \in 0..i - 1 : (b + k) % NumBlocks \notin good
    <3> HIDE DEF good
    <3> QED BY <2>1, FirstBlockIs
  <2>3. (b + 0) % NumBlocks = b /\ b \in good
    <3>1. b + 0 = b /\ b % NumBlocks = b
      BY Geometry
    <3> QED BY <3>1, CleanBlock
  <2>4. i = 0
    <3>1. i > 0 => 0 \in 0..i - 1
      OBVIOUS
    <3>2. 0 \notin 0..i - 1
      <4> HIDE DEF good
      <4> QED BY <2>2, <2>3
    <3> QED BY <3>1, <3>2
  <2>5. TailBlock(n, jj) = b
    BY <1>2, <2>2, <2>3, <2>4 DEF TailBlock
  <2>6. CASE jj.head = jj.tail \/ jj.tail % Ppb # 0
    BY <2>6 DEF Peek
  <2>7. CASE jj.head # jj.tail /\ jj.tail % Ppb = 0
    <3>1. jj.tail = FirstOf(b)
      BY <1>1, <1>2, <2>7, Aligned
    <3>2. Peek(n, jj) = [jj EXCEPT !.tail = FirstOf(b),
                                   !.root = IF FirstOf(b) = jj.head THEN None ELSE @]
      BY <1>4, <2>5, <2>7 DEF Peek
    <3>3. Peek(n, jj) = [jj EXCEPT !.tail = jj.tail, !.root = jj.root]
      BY <2>7, <3>1, <3>2
    <3> QED BY <3>3 DEF Journal
  <2> QED BY <2>6, <2>7
<1> QED BY <1>3, <1>4

\* An empty log has no root.
LEMMA EmptyLog ==
    ASSUME NEW n \in Flash, NEW jj \in Journal, TreeOK(n, jj), jj.head = jj.tail
    PROVE  jj.root = None
<1>1. jj.head \in Int /\ (jj.root = None \/ jj.root \in Int)
  BY UserPage DEF Journal
<1> QED BY <1>1 DEF TreeOK, Within

\* What a worker starts that does not touch the flash.
LEMMA EnqueueMaps ==
    ASSUME NEW w, At0(w), MapOK(nand', j'),
           Contents(nand', j') = Contents(nand, j), UNCHANGED reply,
           NEW k, Goto(w, k), k.at = "head", Half(nand', j', k, request[w])
    PROVE  MapTo(w, k)
BY DEF MapTo, Counted, Appending, Effect

LEMMA MoveTailMaps ==
    ASSUME NEW w, At0(w), nand' = nand, j.head # j.tail,
           j.count = Count(Contents(nand, j)),
           NEW then, then # Idle, then.at \in {"gc", "sync"},
           then.at = "sync" => request[w].op = "sync",
           then = SyncLoop => request[w].op = "sync",
           MoveTail(w, j, then)
    PROVE  \E k : MapTo(w, k)
<1> DEFINE s == ReadMeta(nand, j, j.tail).id
           meta == MetaFor(s, TracePath(nand, j, s))
           moving == Enqueue(FromPage(j.tail), meta, j.count, then, TRUE, j.count)
<1>1. /\ nand \in Flash /\ j \in Journal /\ JournalOK(j)
      /\ Clean(nand) /\ TreeOK(nand, j) /\ j.tail \in UserPages
  BY Known
<1>2. ReadMeta(nand, j, j.tail) \in Meta
  BY <1>1, CleanMeta
<1>3. s \in Sectors \cup {None}
  BY <1>2 DEF Meta
<1>4. CASE /\ Verdict(nand, j, j.tail) = "garbage"
           /\ j' = Dequeue(j) /\ Goto(w, then) /\ UNCHANGED reply
  <2>1. ~OnTree(nand, j, j.tail) \/ ReadMeta(nand, j, j.tail).id = None
    <3>1. s # None => TracePath(nand, j, s).page # j.tail
      BY <1>4 DEF Verdict
    <3>2. OnTree(nand, j, j.tail) /\ s \in Sectors
            => TracePath(nand, j, s).page = j.tail
      BY <1>1, OnTreeFound
    <3> QED BY <1>3, <3>1, <3>2
  <2>2. PICK m : m = Dequeue(j)
    OBVIOUS
  <2>3. /\ TreeOK(nand, m)
        /\ \A t \in Sectors : TracePath(nand, m, t).page = TracePath(nand, j, t).page
    BY <1>1, <2>1, <2>2, DequeueTree
  <2>4. m \in Journal /\ m.count = j.count
    BY <1>1, <2>2, DequeueType DEF JournalOK
  <2>5. Contents(nand, m) = Contents(nand, j)
    BY <1>1, <2>3, <2>4, SamePages
  <2>6. /\ MapOK(nand', j') /\ Contents(nand', j') = Contents(nand, j)
        /\ j'.count = Count(Contents(nand', j'))
    BY <1>1, <1>4, <2>2, <2>3, <2>4, <2>5 DEF MapOK
  <2>7. Counted(nand', j', then, request[w])
    BY <2>6 DEF Counted, Appending
  <2> QED BY <1>4, <2>6, <2>7 DEF MapTo, Effect
<1>5. CASE /\ Verdict(nand, j, j.tail) = "live"
           /\ Goto(w, moving) /\ j' = j /\ UNCHANGED reply
  <2>1. PICK t \in Sectors : t = s
    <3>1. s # None
      BY <1>5 DEF Verdict
    <3> QED BY <1>3, <3>1
  <2>2. TracePath(nand, j, t).page = j.tail
    BY <1>5, <2>1 DEF Verdict
  <2>3. /\ moving.meta = MetaFor(t, TracePath(nand, j, t)) /\ moving.at = "head"
        /\ moving.source = FromPage(j.tail) /\ moving.moved = TRUE
        /\ moving.then = then /\ moving.old = j.count
    BY <2>1 DEF Enqueue
  <2> HIDE DEF moving
  <2>4. moving.meta.id = t
    BY <2>3 DEF MetaFor
  <2>5. Moves(nand, j, moving)
    BY <2>1, <2>2, <2>3, <2>4 DEF Moves
  <2>6. Half(nand, j, moving, request[w])
    BY <2>3, <2>5 DEF Half, Noted
  <2> QED BY <1>1, <1>5, <2>3, <2>6, EnqueueMaps DEF MapOK
<1>6. CASE Verdict(nand, j, j.tail) = "error" /\ j' = j /\ Fail(w)
  BY <1>1, <1>6, AnswerMaps DEF MapOK
<1> QED BY <1>4, <1>5, <1>6 DEF MoveTail

LEMMA GcMaps ==
    ASSUME NEW w, At0(w), Gc(w)
    PROVE  \E k : MapTo(w, k)
<1>1. /\ nand \in Flash /\ j \in Journal /\ Clean(nand) /\ TreeOK(nand, j)
      /\ Counted(nand, j, proc[w], request[w])
  BY Known
<1>2. proc[w].at = "gc" /\ nand' = nand
  BY DEF Gc, At
<1>3. j.count = Count(Contents(nand, j))
  BY <1>1, <1>2 DEF Counted, Appending
<1>4. CASE Goto(w, Serve) /\ UNCHANGED <<j, reply>>
  <2>1. Counted(nand', j', Serve, request[w])
    BY <1>2, <1>3, <1>4 DEF Counted, Appending, Serve
  <2> QED BY <1>1, <1>2, <1>4, <2>1 DEF MapTo, MapOK, Effect
<1>5. CASE /\ j.head # j.tail
           /\ MoveTail(w, Peek(nand, j), Collect(proc[w].left - 1))
  <2>1. PICK then : then = Collect(proc[w].left - 1)
    OBVIOUS
  <2>2. then # Idle /\ then.at = "gc" /\ then # SyncLoop
    BY <2>1 DEF Collect, Idle, SyncLoop
  <2>3. MoveTail(w, j, then)
    <3>1. Peek(nand, j) = j
      BY <1>1, CleanPeek
    <3> QED BY <1>5, <2>1, <3>1
  <2> HIDE DEF MoveTail
  <2> QED BY <1>2, <1>3, <1>5, <2>2, <2>3, MoveTailMaps
<1> QED BY <1>4, <1>5 DEF Gc

LEMMA SyncMaps ==
    ASSUME NEW w, At0(w), Sync(w)
    PROVE  \E k : MapTo(w, k)
<1>1. /\ nand \in Flash /\ j \in Journal /\ Clean(nand) /\ TreeOK(nand, j)
      /\ Counted(nand, j, proc[w], request[w])
  BY Known
<1>2. proc[w].at = "sync" /\ nand' = nand
  BY DEF Sync, At
<1>3. j.count = Count(Contents(nand, j)) /\ request[w].op = "sync"
  BY <1>1, <1>2 DEF Counted, Appending
<1>4. CASE Succeed(w) /\ UNCHANGED j
  <2>1. Volatile!After(Contents(nand, j), request[w]) = Contents(nand, j)
    BY <1>3 DEF Volatile!After
  <2> QED BY <1>1, <1>2, <1>3, <1>4, <2>1, AnswerMaps DEF MapOK
<1>5. CASE Pad(w)
  <2>1. j.root = None /\ UNCHANGED j
    BY <1>1, <1>5, EmptyLog DEF Pad
  <2>2. NoMeta.id # Unreadable
    BY DEF NoMeta, None, Unreadable
  <2>3. PICK k : k = Enqueue(Blankness, NoMeta, j.count, SyncLoop, FALSE, j.count)
    OBVIOUS
  <2>4. Goto(w, k) /\ UNCHANGED reply
    BY <1>5, <2>1, <2>2, <2>3 DEF Pad
  <2>5. /\ k.meta = NoMeta /\ k.at = "head" /\ k.source = Blankness
        /\ k.moved = FALSE /\ k.then = SyncLoop /\ k.old = j.count
    BY <2>3 DEF Enqueue
  <2>6. Half(nand, j, k, request[w])
    BY <1>3, <2>1, <2>5 DEF Half, Noted, Pads
  <2> QED BY <1>1, <1>2, <2>1, <2>4, <2>5, <2>6, EnqueueMaps DEF MapOK
<1>6. CASE j.head # j.tail /\ MoveTail(w, Peek(nand, j), SyncLoop)
  <2>1. SyncLoop # Idle /\ SyncLoop.at = "sync"
    BY DEF SyncLoop, Idle
  <2>2. MoveTail(w, j, SyncLoop)
    <3>1. Peek(nand, j) = j
      BY <1>1, CleanPeek
    <3> QED BY <1>6, <3>1
  <2> HIDE DEF MoveTail
  <2> QED BY <1>2, <1>3, <1>6, <2>1, <2>2, MoveTailMaps
<1> QED BY <1>4, <1>5, <1>6 DEF Sync

LEMMA ReadMaps ==
    ASSUME NEW w, At0(w), proc[w].at = "serve", nand' = nand, ReadStep(w)
    PROVE  \E k : MapTo(w, k)
<1>1. /\ nand \in Flash /\ j \in Journal /\ Clean(nand) /\ TreeOK(nand, j)
      /\ Counted(nand, j, proc[w], request[w]) /\ request[w] \in Requests
  BY Known
<1>2. PICK s \in Sectors : s = request[w].sector
  BY <1>1 DEF ReadStep, Requests
<1>3. ReadSector(nand, j, s, Blank) \in Data \cup {Blank}
  BY <1>1, ReadIs
<1>4. ReadSector(nand, j, s, Blank) # Unreadable
  BY <1>3, DataAssumption
<1>5. Answer(w, TRUE, Contents(nand, j)[s]) /\ request[w].op = "read" /\ j' = j
  BY <1>2, <1>4 DEF ReadStep, Contents
<1>6. Volatile!After(Contents(nand, j), request[w]) = Contents(nand, j)
  BY <1>5 DEF Volatile!After
<1>7. Effect(w)
  BY <1>2, <1>5, <1>6 DEF Effect
<1>8. Counted(nand', j', Idle, request[w])
  BY <1>1, <1>5 DEF Counted, Appending, Idle
<1> QED BY <1>1, <1>5, <1>7, <1>8 DEF MapTo, MapOK, Answer

\* A map with a count of none has nothing.
LEMMA NoneCounted ==
    ASSUME NEW n \in Flash, NEW jj \in Journal, TreeOK(n, jj),
           Count(Contents(n, jj)) = 0
    PROVE  Contents(n, jj) = [s \in Sectors |-> Blank]
<1> DEFINE kept == {s \in Sectors : Contents(n, jj)[s] # Blank}
<1>1. IsFiniteSet(kept) /\ Cardinality(kept) = 0
  BY SectorAssumption, FS_Subset DEF Count
<1>2. kept = {}
  <2> HIDE DEF kept
  <2> QED BY <1>1, FS_EmptySet
<1> QED BY <1>2, ContentsType

\* Clearing the map.
LEMMA Cleared ==
    ASSUME NEW n \in Flash, NEW jj, JournalOK(jj)
    PROVE  /\ Clear(jj) \in Journal /\ TreeOK(n, Clear(jj))
           /\ Contents(n, Clear(jj)) = [s \in Sectors |-> Blank]
           /\ Clear(jj).count = 0 /\ Count(Contents(n, Clear(jj))) = 0
<1>1. PICK m : m = Clear(jj)
  OBVIOUS
<1>2. m \in Journal /\ m.root = None /\ m.count = 0
  BY <1>1, ClearType DEF JournalOK
<1>3. TreeOK(n, m) /\ \A t \in Sectors : TracePath(n, m, t).page = None
  BY <1>2, EmptyTree
<1>4. Contents(n, m) = [s \in Sectors |-> Blank] /\ Count(Contents(n, m)) = 0
  BY <1>2, <1>3, EmptyContents
<1> QED BY <1>1, <1>2, <1>3, <1>4

LEMMA ClearMaps ==
    ASSUME NEW w, At0(w), proc[w].at = "serve", nand' = nand, ClearStep(w)
    PROVE  \E k : MapTo(w, k)
<1>1. /\ nand \in Flash /\ j \in Journal /\ JournalOK(j)
      /\ Clean(nand) /\ TreeOK(nand, j)
      /\ Counted(nand, j, proc[w], request[w])
  BY Known
<1>2. j.count = Count(Contents(nand, j))
  BY <1>1 DEF Counted, Appending
<1>3. /\ Succeed(w) /\ request[w].op = "clear"
      /\ \/ j.count = 0 /\ j' = j
         \/ j' = Clear(j)
  BY DEF ClearStep
<1>4. Volatile!After(Contents(nand, j), request[w]) = [s \in Sectors |-> Blank]
  BY <1>3 DEF Volatile!After
<1>5. /\ TreeOK(nand, j') /\ j'.count = Count(Contents(nand, j'))
      /\ Contents(nand, j') = [s \in Sectors |-> Blank]
  <2>1. CASE j.count = 0 /\ j' = j
    BY <1>1, <1>2, <2>1, NoneCounted
  <2>2. CASE j' = Clear(j)
    BY <1>1, <2>2, Cleared
  <2> QED BY <1>3, <2>1, <2>2
<1>6. Effect(w)
  BY <1>3, <1>4, <1>5 DEF Effect, Succeed
<1>7. Counted(nand', j', Idle, request[w])
  BY <1>5 DEF Counted, Appending, Idle
<1> QED BY <1>1, <1>3, <1>5, <1>6, <1>7 DEF MapTo, MapOK, Succeed, Answer

LEMMA WriteMaps ==
    ASSUME NEW w, At0(w), proc[w].at = "serve", nand' = nand, WriteStep(w)
    PROVE  \E k : MapTo(w, k)
<1>1. /\ nand \in Flash /\ j \in Journal /\ Clean(nand) /\ TreeOK(nand, j)
      /\ Counted(nand, j, proc[w], request[w]) /\ request[w] \in Requests
      /\ j.count \in Int
  BY Known
<1>2. j.count = Count(Contents(nand, j)) /\ request[w].op = "write"
  BY <1>1 DEF Counted, Appending, WriteStep
<1>3. PICK s \in Sectors : s = request[w].sector
  BY <1>1, <1>2 DEF Requests
<1>4. PICK path : path = TracePath(nand, j, s)
  OBVIOUS
<1>5. path.page # Unreadable
  BY <1>1, <1>4, SectorPage
<1>6. PICK count \in Int : count = IF path.page = None THEN j.count + 1 ELSE j.count
  BY <1>1
<1>7. CASE Fail(w) /\ UNCHANGED j
  BY <1>1, <1>2, <1>7, AnswerMaps DEF MapOK
<1>8. CASE /\ j' = [j EXCEPT !.count = count] /\ UNCHANGED reply
           /\ Goto(w, Enqueue(FromUser(request[w].data), MetaFor(s, path),
                              count, Idle, FALSE, j.count))
  <2>1. PICK k : k = Enqueue(FromUser(request[w].data), MetaFor(s, path),
                             count, Idle, FALSE, j.count)
    OBVIOUS
  <2>2. PICK l : l = [j EXCEPT !.count = count]
    OBVIOUS
  <2>3. /\ l \in Journal /\ l.count = count /\ l.head = j.head
        /\ l.tail = j.tail /\ l.root = j.root /\ l.metas = j.metas
    BY <1>1, <1>6, <2>2, CountSet
  <2>4. /\ TreeOK(nand, l) /\ Keeps(nand, j, nand, l)
        /\ Contents(nand, l) = Contents(nand, j)
    BY <1>1, <2>3, Recounted
  <2>5. TracePath(nand, l, s) = path
    BY <1>1, <1>4, <2>3, <2>4, SameTree
  <2>6. /\ k.meta = MetaFor(s, path) /\ k.at = "head"
        /\ k.source = FromUser(request[w].data)
        /\ k.moved = FALSE /\ k.then = Idle /\ k.old = j.count
    BY <2>1 DEF Enqueue
  <2>7. Writes(nand, l, k, request[w])
    BY <1>2, <1>3, <1>6, <2>3, <2>4, <2>5, <2>6 DEF Writes
  <2>8. Idle # SyncLoop
    BY DEF Idle, SyncLoop
  <2>9. Half(nand, l, k, request[w])
    BY <1>2, <2>4, <2>6, <2>7, <2>8 DEF Half, Noted
  <2> QED BY <1>1, <1>8, <2>1, <2>2, <2>4, <2>6, <2>9, EnqueueMaps DEF MapOK
<1> QED BY <1>3, <1>4, <1>5, <1>6, <1>7, <1>8 DEF WriteStep

\* A sector without cousins is the only one.
LEMMA NoCousins ==
    ASSUME NEW n \in Flash, NEW jj \in Journal, TreeOK(n, jj), NEW s \in Sectors,
           Cousins(TracePath(n, jj, s)) = {}
    PROVE  [Contents(n, jj) EXCEPT ![s] = Blank] = [t \in Sectors |-> Blank]
<1>1. ASSUME NEW t \in Sectors, t # s
      PROVE  Contents(n, jj)[t] = Blank
  <2>1. PICK e \in 1..Depth : Agree(t, s, e) /\ Bit(t, e) # Bit(s, e)
    BY <1>1, FirstDifference
  <2>2. PICK meta : meta = MetaFor(s, TracePath(n, jj, s))
    OBVIOUS
  <2>3. meta.id = s /\ meta.alt[e] = None /\ t # None
    BY <2>2, SectorAssumption DEF MetaFor, Cousins, None
  <2>4. Grafts(n, jj, meta, None)
    BY <2>2, PathGrafts
  <2>5. Walk(n, jj, t)[e + 1] = None \/ Walk(n, jj, t)[Depth + 1] = None
    BY <2>1, <2>3, <2>4 DEF Grafts
  <2>6. Walk(n, jj, t)[Depth + 1] = None
    <3>1. PICK f \in 1..Depth + 1 : f = e + 1
      BY GeometryAssumption
    <3>2. PICK last \in f..Depth + 1 : last = Depth + 1
      BY GeometryAssumption
    <3> QED BY <2>5, <3>1, <3>2, Ended
  <2>7. TracePath(n, jj, t).page = None
    BY <2>6, SectorPage
  <2> QED BY <2>7, ContentsType
<1> QED BY <1>1, ContentsType

LEMMA TrimMaps ==
    ASSUME NEW w, At0(w), proc[w].at = "serve", nand' = nand, TrimStep(w)
    PROVE  \E k : MapTo(w, k)
<1>1. /\ nand \in Flash /\ j \in Journal /\ JournalOK(j)
      /\ Clean(nand) /\ TreeOK(nand, j)
      /\ Counted(nand, j, proc[w], request[w]) /\ request[w] \in Requests
  BY Known
<1>2. j.count = Count(Contents(nand, j)) /\ request[w].op = "trim"
  BY <1>1 DEF Counted, Appending, TrimStep
<1>3. PICK s \in Sectors : s = request[w].sector
  BY <1>1, <1>2 DEF Requests
<1>4. PICK path : path = TracePath(nand, j, s)
  OBVIOUS
<1>5. path.page # Unreadable /\ path.page \in UserPages \cup {None}
  BY <1>1, <1>4, SectorPage
<1>6. path.page # None => path.page >= 0
  BY <1>5, UserPage
<1>7. Volatile!After(Contents(nand, j), request[w])
        = [Contents(nand, j) EXCEPT ![s] = Blank]
  BY <1>2, <1>3 DEF Volatile!After
<1>8. ASSUME Succeed(w), MapOK(nand', j'), j'.count = Count(Contents(nand', j')),
             Contents(nand', j') = [Contents(nand, j) EXCEPT ![s] = Blank]
      PROVE  MapTo(w, Idle)
  <2>1. Effect(w)
    BY <1>2, <1>7, <1>8 DEF Effect, Succeed
  <2>2. Counted(nand', j', Idle, request[w])
    BY <1>8 DEF Counted, Appending, Idle
  <2> QED BY <1>8, <2>1, <2>2 DEF MapTo, Succeed, Answer
<1>9. CASE path.page = None /\ Succeed(w) /\ UNCHANGED j
  <2>1. Contents(nand, j)[s] = Blank
        /\ Contents(nand, j) \in [Sectors -> Data \cup {Blank}]
    BY <1>1, <1>4, <1>9, ContentsType
  <2>2. [Contents(nand, j) EXCEPT ![s] = Blank] = Contents(nand, j)
    BY <2>1
  <2> QED BY <1>1, <1>2, <1>8, <1>9, <2>2 DEF MapOK
<1>10. CASE Cousins(path) = {} /\ Succeed(w) /\ j' = Clear(j)
  <2>1. [Contents(nand, j) EXCEPT ![s] = Blank] = [t \in Sectors |-> Blank]
    BY <1>1, <1>4, <1>10, NoCousins
  <2>2. /\ TreeOK(nand, j') /\ Contents(nand, j') = [t \in Sectors |-> Blank]
        /\ j'.count = Count(Contents(nand, j'))
    BY <1>1, <1>10, Cleared
  <2> QED BY <1>1, <1>8, <1>10, <2>1, <2>2 DEF MapOK
<1> DEFINE del == Deletion(nand, j, path)
           k == Enqueue(FromPage(del.page), del.meta, j.count - 1, Idle, FALSE,
                        j.count)
<1>11. CASE /\ path.page # None /\ Cousins(path) # {}
            /\ Goto(w, k) /\ UNCHANGED <<j, reply>>
  <2>1. /\ k.meta = del.meta /\ k.at = "head" /\ k.source = FromPage(del.page)
        /\ k.moved = FALSE /\ k.then = Idle /\ k.old = j.count
    BY DEF Enqueue
  <2> HIDE DEF k
  <2>2. Trims(nand, j, k, request[w])
    BY <1>2, <1>3, <1>4, <1>11, <2>1 DEF Trims
  <2>3. Idle # SyncLoop
    BY DEF Idle, SyncLoop
  <2>4. Half(nand, j, k, request[w])
    BY <1>2, <2>1, <2>2, <2>3 DEF Half, Noted
  <2> QED BY <1>1, <1>11, <2>1, <2>4, EnqueueMaps DEF MapOK
<1>12. CASE Cousins(path) # {} /\ del.meta.id = Unreadable
  <2>1. del.meta.id \in Sectors
    BY <1>1, <1>4, <1>12, DeletionGrafts
  <2> QED BY <1>12, <2>1, SectorAssumption DEF Unreadable
<1>13. \/ path.page = None /\ Succeed(w) /\ UNCHANGED j
       \/ path.page = Unreadable
       \/ /\ path.page >= 0 /\ Cousins(path) = {}
          /\ Succeed(w) /\ j' = Clear(j)
       \/ /\ path.page >= 0 /\ Cousins(path) # {}
          /\ \/ del.meta.id = Unreadable
             \/ Goto(w, k) /\ UNCHANGED <<j, reply>>
  BY <1>3, <1>4, <1>5, <1>6 DEF TrimStep
<1>14. path.page >= 0 => path.page # None
  BY DEF None
<1> HIDE DEF k, del
<1> QED BY ONLY <1>5, <1>9, <1>10, <1>11, <1>12, <1>13, <1>14

LEMMA CarryMaps ==
    ASSUME NEW w, At0(w), Carry(w)
    PROVE  \E k : MapTo(w, k)
<1>1. proc[w].at = "serve" /\ nand' = nand
  BY DEF Carry, At
<1> QED BY <1>1, ReadMaps, ClearMaps, WriteMaps, TrimMaps DEF Carry

\* What is appended is user data, and copied from another page.
LEMMA SourceIs ==
    ASSUME NEW n \in Flash, NEW jj \in Journal, TreeOK(n, jj), NEW k,
           NEW r \in Requests, Half(n, jj, k, r), k.source # Blankness
    PROVE  /\ Wanted(n, k.source).kind = "user"
           /\ k.source.kind = "copy" => /\ k.source.page \in UserPages
                                        /\ k.source.page # jj.head
                                        /\ n[k.source.page].kind = "user"
<1>1. jj.head \in UserPages /\ jj.tail \in UserPages
  BY DEF Journal
<1>2. CASE Moves(n, jj, k)
  <2>1. PICK t \in Sectors : t = k.meta.id
    BY <1>2 DEF Moves
  <2>2. /\ TracePath(n, jj, t).page = jj.tail /\ k.source = FromPage(jj.tail)
        /\ jj.head # jj.tail
    BY <1>2, <2>1 DEF Moves
  <2>3. jj.tail # None
    BY <1>1, UserPage DEF None
  <2>4. n[jj.tail].kind = "user"
    BY <2>2, <2>3, SectorPage
  <2> QED BY <1>1, <2>2, <2>4 DEF FromPage, Wanted
<1>3. CASE Writes(n, jj, k, r)
  BY <1>3 DEF Writes, FromUser, Wanted
<1>4. CASE Trims(n, jj, k, r)
  <2>1. PICK s \in Sectors : s = r.sector
    BY <1>4 DEF Trims, Requests
  <2>2. PICK p : p = Deletion(n, jj, TracePath(n, jj, s)).page
    OBVIOUS
  <2>3. Cousins(TracePath(n, jj, s)) # {} /\ k.source = FromPage(p)
    BY <1>4, <2>1, <2>2 DEF Trims
  <2>4. PICK c \in Sectors : TracePath(n, jj, c).page = p /\ p # None
    BY <2>2, <2>3, DeletionGrafts
  <2>5. /\ p \in UserPages /\ Within(jj.tail, jj.head, p) /\ n[p].kind = "user"
    BY <2>4, SectorPage
  <2>6. p # jj.head
    <3>1. p \in Int /\ jj.head \in Int /\ jj.tail \in Int
      BY <1>1, <2>5, UserPage
    <3> QED BY <2>5, <3>1 DEF Within
  <2> QED BY <2>3, <2>5, <2>6 DEF FromPage, Wanted
<1>5. CASE Pads(n, jj, k, r)
  BY <1>5 DEF Pads
<1> QED BY <1>2, <1>3, <1>4, <1>5 DEF Half

\* On a clean flash prepare_head skips no block.
LEMMA CleanSkip ==
    ASSUME Clean(nand), NEW jj \in Journal, jj.head % Ppb = 0
    PROVE  SkipBad(jj).ok /\ SkipBad(jj).j.head = jj.head
           /\ SkipBad(jj).j.epoch = jj.epoch
<1> DEFINE b == Block(jj.head)
           good(i) == ~IsBad(nand, (b + i) % NumBlocks)
           stop(i) == (b + i + 1) % NumBlocks = Block(jj.tailSync)
           ends == {i \in 0..MaxRetries - 1 : good(i) \/ stop(i)}
           i == IF ends = {} THEN MaxRetries
                ELSE CHOOSE k \in ends : \A m \in ends : k <= m
           ok == i < MaxRetries /\ good(i)
           skipped == [jj EXCEPT !.bbCurrent = @ + i,
                                 !.head = FirstOf((b + i) % NumBlocks)]
           turned == IF b + i >= NumBlocks
                     THEN [skipped EXCEPT !.bbLast = jj.bbCurrent + NumBlocks - b,
                                          !.bbCurrent = b + i - NumBlocks,
                                          !.epoch = @ + 1]
                     ELSE skipped
<1>1. jj.head \in Pages /\ b \in 0..NumBlocks - 1
  BY UserPage, BlockOf DEF Journal
<1>2. b + 0 = b /\ b % NumBlocks = b
  BY <1>1, Geometry
<1>3. good(0)
  BY <1>1, <1>2, CleanBlock
<1>4. 0 \in ends
  BY <1>3, GeometryAssumption
<1>5. i = 0
  <2>1. ends # {} /\ \A m \in ends : m >= 0
    BY <1>4
  <2>2. \A k \in ends : (\A m \in ends : k <= m) => k = 0
    <3> HIDE DEF ends
    <3>1. ASSUME NEW k \in ends, \A m \in ends : k <= m PROVE k <= 0
      BY <1>4, <3>1
    <3>2. \A k \in ends : k \in Int
      BY DEF ends
    <3> QED BY <2>1, <3>1, <3>2
  <2>3. \E k \in ends : \A m \in ends : k <= m
    BY <1>4, <2>1
  <2> HIDE DEF ends
  <2> QED BY <2>1, <2>2, <2>3
<1> HIDE DEF i
<1>6. ok
  BY <1>3, <1>5, GeometryAssumption
<1>7. skipped.head = jj.head /\ skipped.epoch = jj.epoch
  BY <1>1, <1>2, <1>5, Aligned DEF Journal
<1>8. turned = skipped
  <2>1. ~(b + i >= NumBlocks)
    BY <1>1, <1>5, Geometry
  <2> HIDE DEF skipped
  <2> QED BY <2>1
<1>9. SkipBad(jj) = [ok |-> ok, j |-> IF ok \/ i = MaxRetries THEN turned
                                       ELSE [turned EXCEPT !.bbCurrent = @ + 1]]
  BY DEF SkipBad, i
<1> HIDE DEF ok, turned, skipped
<1> QED BY <1>6, <1>7, <1>8, <1>9

\* A page that could not be appended: the count is what it was.
LEMMA GivenBack ==
    ASSUME NEW w, At0(w), proc[w].at \in Appending, nand' = nand,
           NEW jj \in Journal, jj.head = j.head, jj.tail = j.tail,
           jj.root = j.root, jj.metas = j.metas,
           j' = [jj EXCEPT !.count = proc[w].old], Fail(w)
    PROVE  MapTo(w, Idle)
<1>1. /\ nand \in Flash /\ j \in Journal /\ Clean(nand) /\ TreeOK(nand, j)
      /\ Counted(nand, j, proc[w], request[w])
  BY Known
<1>2. proc[w].old = Count(Contents(nand, j))
  BY <1>1 DEF Counted, Half
<1>3. PICK count \in Int : count = proc[w].old
  BY <1>1, <1>2, ContentsType
<1>4. /\ j' \in Journal /\ j'.count = count /\ j'.head = jj.head
      /\ j'.tail = jj.tail /\ j'.root = jj.root /\ j'.metas = jj.metas
  BY <1>3, CountSet
<1>5. TreeOK(nand, j') /\ Contents(nand, j') = Contents(nand, j)
  BY <1>1, <1>4, Recounted
<1> QED BY <1>1, <1>2, <1>3, <1>4, <1>5, AnswerMaps DEF MapOK

\* A worker that goes on appending its page.
LEMMA KeptMaps ==
    ASSUME NEW w, At0(w), proc[w].at \in Appending, nand' \in Flash, Clean(nand'),
           j' \in Journal, Keeps(nand, j, nand', j'),
           j'.root = j.root, j'.head = j.head, j'.tail = j.tail,
           j'.count = j.count, UNCHANGED reply,
           NEW k, Goto(w, k), k.at \in Appending, Noted(nand', j', k),
           k.source = proc[w].source, k.meta = proc[w].meta,
           k.then = proc[w].then, k.moved = proc[w].moved, k.old = proc[w].old
    PROVE  MapTo(w, k)
<1>1. /\ nand \in Flash /\ j \in Journal /\ TreeOK(nand, j)
      /\ Counted(nand, j, proc[w], request[w]) /\ request[w] \in Requests
  BY Known
<1>2. Half(nand, j, proc[w], request[w])
  BY <1>1 DEF Counted
<1>3. PICK n2 \in Flash : n2 = nand'
  OBVIOUS
<1>4. PICK l \in Journal : l = j'
  OBVIOUS
<1>5. /\ Keeps(nand, j, n2, l) /\ l.root = j.root /\ l.head = j.head
      /\ l.tail = j.tail /\ l.count = j.count /\ Noted(n2, l, k)
  BY <1>3, <1>4
<1>6. /\ Half(n2, l, k, request[w]) /\ TreeOK(n2, l)
      /\ Contents(n2, l) = Contents(nand, j)
  BY <1>1, <1>2, <1>5, HalfKept
<1> QED BY <1>3, <1>4, <1>6 DEF MapTo, MapOK, Counted, Effect

LEMMA PrepareHeadMaps ==
    ASSUME NEW w, At0(w), PrepareHead(w)
    PROVE  \E k : MapTo(w, k)
<1> DEFINE dirty == [j EXCEPT !.dirty = TRUE]
           found == SkipBad(dirty)
           program == [proc[w] EXCEPT !.at = "program"]
           erase == [proc[w] EXCEPT !.at = "erase"]
<1>1. /\ nand \in Flash /\ j \in Journal /\ JournalOK(j) /\ Clean(nand)
      /\ TreeOK(nand, j) /\ Inv /\ w \in Workers
  BY Known
<1>2. proc[w].at = "head" /\ nand' = nand /\ proc[w].at \in Appending
  BY DEF PrepareHead, At, Appending
<1>3. proc[w] \in Appends
  BY <1>1, <1>2, AppendingAt
<1>4. /\ JournalOK(dirty) /\ dirty.head = j.head /\ dirty.tail = j.tail
      /\ dirty.root = j.root /\ dirty.metas = j.metas /\ dirty.count = j.count
  BY <1>1, DirtyType DEF Journal
<1>5. \A k \in {program, erase} :
        /\ k.at \in {"program", "erase"}
        /\ k.source = proc[w].source /\ k.meta = proc[w].meta
        /\ k.then = proc[w].then /\ k.moved = proc[w].moved /\ k.old = proc[w].old
  BY <1>3 DEF Appends
<1>6. /\ j.head % Ppb = 0 => JournalOK(found.j)
      /\ j.head % Ppb = 0 => found.ok /\ found.j.head = j.head
                             /\ found.j.tail = j.tail /\ found.j.root = j.root
                             /\ found.j.metas = j.metas /\ found.j.count = j.count
  <2> HIDE DEF dirty
  <2>1. dirty \in Journal
    BY <1>4 DEF JournalOK
  <2>2. j.head % Ppb = 0 => found.ok /\ found.j.head = dirty.head
    BY <1>1, <1>4, <2>1, CleanSkip
  <2>3. j.head % Ppb = 0 =>
          /\ JournalOK(found.j) /\ found.j.tail = dirty.tail
          /\ found.j.root = dirty.root /\ found.j.metas = dirty.metas
          /\ found.j.count = dirty.count
    BY <1>4, SkipBadType
  <2> QED BY <1>4, <2>2, <2>3
<1>7. \/ j' = [j EXCEPT !.count = proc[w].old] /\ Fail(w)
      \/ j' = dirty /\ UNCHANGED reply /\ Goto(w, program)
      \/ /\ j.head % Ppb = 0 /\ j' = found.j /\ UNCHANGED reply
         /\ Goto(w, erase)
      \/ j.head % Ppb = 0 /\ ~found.ok
  BY DEF PrepareHead
<1> HIDE DEF dirty, found, program, erase
<1>8. CASE j' = [j EXCEPT !.count = proc[w].old] /\ Fail(w)
  BY <1>1, <1>2, <1>8, GivenBack
<1>9. ASSUME NEW k \in {program, erase}, Goto(w, k), UNCHANGED reply, JournalOK(j'),
             j'.head = j.head, j'.tail = j.tail, j'.root = j.root,
             j'.metas = j.metas, j'.count = j.count
      PROVE  MapTo(w, k)
  <2>1. j' \in Journal
    BY <1>9 DEF JournalOK
  <2>2. Keeps(nand, j, nand', j')
    <3>1. PICK l \in Journal : l = j'
      BY <2>1
    <3>2. Keeps(nand, j, nand, l)
      BY <1>1, <1>9, <3>1, Relabelled
    <3> QED BY <1>2, <3>1, <3>2
  <2>3. k.at \in Appending /\ Noted(nand', j', k)
    BY <1>5 DEF Appending, Noted
  <2>4. /\ k.source = proc[w].source /\ k.meta = proc[w].meta
        /\ k.then = proc[w].then /\ k.moved = proc[w].moved /\ k.old = proc[w].old
    BY <1>5
  <2> QED BY <1>1, <1>2, <1>9, <2>1, <2>2, <2>3, <2>4, KeptMaps
<1>10. CASE j' = dirty /\ UNCHANGED reply /\ Goto(w, program)
  BY <1>4, <1>9, <1>10
<1>11. CASE /\ j.head % Ppb = 0 /\ j' = found.j /\ UNCHANGED reply
            /\ Goto(w, erase)
  BY <1>6, <1>9, <1>11
<1> QED BY <1>6, <1>7, <1>8, <1>10, <1>11

\* The block that is erased holds no page of the log.
LEMMA LogBeyondErase ==
    ASSUME Inv, NEW w \in Workers, proc[w].at = "erase",
           NEW p \in UserPages, Within(j.tail, j.head, p)
    PROVE  Block(p) # Block(j.head)
<1>1. /\ j.head \in UserPages /\ j.tail \in UserPages /\ j.tailSync \in UserPages
      /\ InOrder(j.head, j.tailSync, j.tail)
  BY DEF Inv, LogInv, JournalOK, Journal
<1>2. /\ j.head \in Pages /\ j.tail \in Pages /\ j.tailSync \in Pages
      /\ p \in Pages /\ p \in Int /\ j.head \in Int /\ j.tail \in Int
  BY <1>1, UserPage
<1>3. InOrder(j.head, j.tailSync, p)
  BY <1>1, <1>2, FurtherOn
<1>4. p # j.head
  BY <1>2 DEF Within
<1>5. InLog(p)
  BY <1>3, <1>4 DEF InOrder, InLog
<1> QED BY <1>2, <1>5, ErasesBeyondLog

LEMMA EraseMaps ==
    ASSUME NEW w, At0(w), Erase(w)
    PROVE  \E k : MapTo(w, k)
<1> DEFINE program == [proc[w] EXCEPT !.at = "program"]
<1>1. /\ nand \in Flash /\ j \in Journal /\ JournalOK(j) /\ Clean(nand)
      /\ TreeOK(nand, j) /\ Inv /\ w \in Workers /\ FlashOK(nand)
  BY Known
<1>2. /\ proc[w].at = "erase" /\ proc[w].at \in Appending
      /\ nand' = Erased(nand, Block(j.head))
      /\ Goto(w, program) /\ UNCHANGED <<j, reply>>
  BY DEF Erase, At, OnFlash, Appending
<1>3. proc[w] \in Appends
  BY <1>1, <1>2, AppendingAt DEF Appending
<1>4. PICK b : b = Block(j.head)
  OBVIOUS
<1>5. PICK n2 : n2 = [p \in Pages |-> IF Block(p) = b THEN Free ELSE nand[p]]
  OBVIOUS
<1>6. nand' = n2
  BY <1>2, <1>4, <1>5 DEF Erased
<1>7. n2 \in Flash
  BY <1>1, <1>5, BlockErased DEF FlashOK
<1>8. \A p \in Pages : n2[p] = IF Block(p) = b THEN Free ELSE nand[p]
  BY <1>5
<1>9. Clean(n2)
  BY <1>1, <1>8, FreeHasNoFields DEF Clean, UserPages, Checkpoints
<1>10. Keeps(nand, j, n2, j)
  <2>1. \A p \in UserPages : Within(j.tail, j.head, p) => Block(p) # b
    BY <1>1, <1>2, <1>4, LogBeyondErase
  <2>2. \A p \in Pages : Block(p) # b => n2[p] = nand[p]
    BY <1>8
  <2> QED BY <1>1, <1>4, <2>1, <2>2, ErasedKeeps
<1>11. /\ program.at = "program"
       /\ program.source = proc[w].source /\ program.meta = proc[w].meta
       /\ program.then = proc[w].then /\ program.moved = proc[w].moved
       /\ program.old = proc[w].old
  BY <1>3 DEF Appends
<1> HIDE DEF program
<1>12. program.at \in Appending /\ Noted(nand', j', program)
  BY <1>11 DEF Appending, Noted
<1> QED BY <1>1, <1>2, <1>6, <1>7, <1>9, <1>10, <1>11, <1>12, KeptMaps

\* push_meta is over: the page is in the tree.
LEMMA ProceedMaps ==
    ASSUME NEW w, At0(w), proc[w].at \in Appending, nand' \in Flash, Clean(nand'),
           NEW l, JournalOK(l), Lands(nand, j, nand', l, proc[w]), Proceed(w, l),
           JournalOK(j')
    PROVE  \E k : MapTo(w, k)
<1>1. /\ nand \in Flash /\ JournalOK(j) /\ TreeOK(nand, j) /\ Inv /\ w \in Workers
      /\ Counted(nand, j, proc[w], request[w]) /\ request[w] \in Requests
  BY Known
<1>2. Half(nand, j, proc[w], request[w]) /\ proc[w] \in Appends
  BY <1>1, AppendingAt DEF Counted, Appending
<1>3. PICK n2 \in Flash : n2 = nand'
  OBVIOUS
<1>4. PICK k : k = proc[w]
  OBVIOUS
<1>5. PICK r \in Requests : r = request[w]
  BY <1>1
<1>6. PICK m : m = j'
  OBVIOUS
<1>7. Finished(l, k, r, m)
  BY <1>4, <1>5, <1>6 DEF Proceed, Finished
<1>8. Lands(nand, j, n2, l, k) /\ Half(nand, j, k, r)
  BY <1>2, <1>3, <1>4, <1>5
<1>9. /\ TreeOK(n2, m) /\ m.count = Count(Contents(n2, m))
      /\ k.then # Idle => Contents(n2, m) = Contents(nand, j)
      /\ k.then = Idle => /\ Contents(n2, m) = Volatile!After(Contents(nand, j), r)
                          /\ r.op \in {"write", "trim"}
  BY ONLY <1>1, n2 \in Flash, JournalOK(l), <1>7, <1>8, r \in Requests, Landed
<1>10. MapOK(nand', j')
  BY <1>3, <1>6, <1>9 DEF MapOK
<1>11. CASE k.then = Idle
  <2>1. Succeed(w)
    BY <1>4, <1>11 DEF Proceed
  <2>2. Effect(w)
    BY <1>3, <1>5, <1>6, <1>9, <1>11, <2>1 DEF Effect, Succeed
  <2>3. Counted(nand', j', Idle, request[w])
    BY <1>3, <1>6, <1>9 DEF Counted, Appending, Idle
  <2> QED BY <1>10, <2>1, <2>2, <2>3 DEF MapTo, Succeed, Answer
<1>12. CASE k.then # Idle
  <2>1. Goto(w, k.then) /\ UNCHANGED reply
    BY <1>4, <1>12 DEF Proceed
  <2>2. k.then.at \in {"gc", "sync"} /\ (k.then.at = "sync" => k.then = SyncLoop)
    BY <1>2, <1>4, <1>12 DEF Appends, Thens, SyncLoop
  <2>3. k.then = SyncLoop => r.op = "sync"
    BY <1>8 DEF Half
  <2>4. Counted(nand', j', k.then, request[w])
    BY <1>3, <1>5, <1>6, <1>9, <2>2, <2>3 DEF Counted, Appending
  <2> QED BY <1>3, <1>6, <1>9, <1>10, <1>12, <2>1, <2>4 DEF MapTo, Effect
<1> QED BY <1>11, <1>12

\* What the flash holds once the data is programmed.
LEMMA DataLands ==
    ASSUME NEW w, At0(w), proc[w].at = "program", nand' = AfterData(w)
    PROVE  /\ nand' \in Flash /\ Clean(nand')
           /\ \A p \in Pages \ {j.head} : nand'[p] = nand[p]
           /\ proc[w].source # Blankness =>
                /\ nand'[j.head] = Wanted(nand, proc[w].source)
                /\ Wanted(nand', proc[w].source) = Wanted(nand, proc[w].source)
<1>1. /\ nand \in Flash /\ j \in Journal /\ TreeOK(nand, j) /\ Inv /\ w \in Workers
      /\ Clean(nand) /\ request[w] \in Requests /\ j.head \in UserPages
      /\ Counted(nand, j, proc[w], request[w])
  BY Known
<1>2. /\ Half(nand, j, proc[w], request[w]) /\ Fits(nand, j, proc[w])
  BY <1>1, AppendingAt DEF Counted, Appending
<1>3. FlashOK(nand') /\ \A p \in Pages \ {j.head} : nand'[p] = nand[p]
  BY <1>1, DataProgrammed
<1>4. j.head \in Pages /\ nand[j.head] = Free
  BY <1>1, <1>2, UserPage DEF Fits, Ready, FreeOn
<1>5. ASSUME proc[w].source # Blankness
      PROVE  /\ nand'[j.head] = Wanted(nand, proc[w].source)
             /\ Wanted(nand', proc[w].source) = Wanted(nand, proc[w].source)
             /\ nand'[j.head].kind = "user"
  <2>1. PICK source : source = proc[w].source
    OBVIOUS
  <2>2. /\ Wanted(nand, source).kind = "user"
        /\ source.kind = "copy" => /\ source.page \in UserPages
                                   /\ source.page # j.head
                                   /\ nand[source.page].kind = "user"
    BY <1>1, <1>2, <1>5, <2>1, SourceIs
  <2>3. Content(source) = Wanted(nand, source)
    BY <2>2, FreeHasNoFields DEF Content, Wanted
  <2>4. nand' = [nand EXCEPT ![j.head] = Wanted(nand, source)]
    BY <1>1, <1>4, <1>5, <2>1, <2>3, ProgrammedIs DEF AfterData
  <2>5. nand'[j.head] = Wanted(nand, source)
    BY <1>1, <1>4, <2>4 DEF Flash
  <2>6. Wanted(nand', source) = Wanted(nand, source)
    <3>1. source.kind = "copy" => nand'[source.page] = nand[source.page]
      BY <1>3, <2>2, UserPage
    <3> QED BY <3>1 DEF Wanted
  <2> QED BY <2>1, <2>2, <2>5, <2>6
<1>6. nand'[j.head].kind \in {"free", "user"}
  <2>1. CASE proc[w].source = Blankness
    BY <1>4, <2>1, FreeHasNoFields DEF AfterData
  <2> QED BY <1>5, <2>1
<1>7. Clean(nand')
  BY <1>1, <1>3, <1>6 DEF Clean, UserPages, Checkpoints
<1> QED BY <1>3, <1>5, <1>7 DEF FlashOK

\* push_meta first keeps the metadata of the page.
LEMMA PushedIs ==
    ASSUME NEW w, At0(w), proc[w].at = "program", NEW pushed, pushed = Pushed(w)
    PROVE  /\ JournalOK(pushed) /\ pushed \in Journal
           /\ pushed.head = j.head /\ pushed.tail = j.tail
           /\ pushed.tailSync = j.tailSync /\ pushed.root = j.root
           /\ pushed.count = j.count /\ pushed.bbCurrent = j.bbCurrent
           /\ pushed.metas = [j.metas EXCEPT ![j.head % Ppc] = proc[w].meta]
<1>1. /\ j \in Journal /\ JournalOK(j) /\ Inv /\ w \in Workers
      /\ Counted(nand, j, proc[w], request[w])
  BY Known
<1>2. /\ proc[w] \in Appends /\ Room(j) /\ j.head \in UserPages
  BY <1>1, AppendingAt, Known DEF Fits, Counted, Appending
<1>3. /\ JournalOK(pushed) /\ pushed.head = j.head /\ pushed.tail = j.tail
      /\ pushed.tailSync = j.tailSync
  BY <1>1, <1>2, PushedType
<1>4. /\ pushed.root = j.root /\ pushed.count = j.count
      /\ pushed.bbCurrent = j.bbCurrent
      /\ pushed.metas = [j.metas EXCEPT ![j.head % Ppc] = proc[w].meta]
  BY <1>1 DEF Pushed, Journal
<1> QED BY <1>3, <1>4 DEF JournalOK

\* Within a group push_meta is over at once: the page is in the tree.
LEMMA PushLands ==
    ASSUME NEW w, At0(w), proc[w].at = "program", nand' = AfterData(w),
           (j.head + 2) % Ppc # 0,
           NEW moved, moved = [Pushed(w) EXCEPT !.root = j.head, !.head = @ + 1]
    PROVE  /\ JournalOK(moved) /\ moved.head = NextUpage(j.head)
           /\ moved.head = j.head + 1
           /\ moved.tailSync = j.tailSync /\ moved.bbCurrent = j.bbCurrent
           /\ Lands(nand, j, nand', moved, proc[w])
<1> DEFINE h == j.head
           pushed == Pushed(w)
           meta == proc[w].meta
<1>1. /\ nand \in Flash /\ j \in Journal /\ JournalOK(j)
      /\ TreeOK(nand, j) /\ Inv /\ w \in Workers /\ h \in UserPages
      /\ Counted(nand, j, proc[w], request[w])
  BY Known
<1>2. Room(j) /\ proc[w] \in Appends
  BY <1>1, AppendingAt DEF Fits, Counted, Appending
<1>3. /\ JournalOK(pushed) /\ pushed \in Journal
      /\ pushed.head = h /\ pushed.tail = j.tail
      /\ pushed.tailSync = j.tailSync /\ pushed.root = j.root
      /\ pushed.count = j.count /\ pushed.bbCurrent = j.bbCurrent
      /\ pushed.metas = [j.metas EXCEPT ![h % Ppc] = meta]
  BY PushedIs
<1>4. moved = [pushed EXCEPT !.root = h, !.head = @ + 1]
  OBVIOUS
<1> HIDE DEF pushed
<1>5. /\ nand' \in Flash
      /\ \A p \in Pages \ {h} : nand'[p] = nand[p]
      /\ proc[w].source # Blankness =>
           /\ nand'[h] = Wanted(nand, proc[w].source)
           /\ Wanted(nand', proc[w].source) = Wanted(nand, proc[w].source)
  BY DataLands
<1>6. /\ NextUpage(h) = h + 1 /\ Block(h + 1) = Block(h)
      /\ Group(h + 1) = Group(h)
  BY <1>1, NextUserPage
<1>7. moved = [pushed EXCEPT !.root = h, !.head = NextUpage(pushed.head)]
  BY <1>3, <1>4, <1>6
<1>8. /\ moved.tail = pushed.tail /\ moved.tailSync = j.tailSync
      /\ moved.bbCurrent = j.bbCurrent
      /\ moved.root = h /\ moved.count = j.count /\ moved.metas = pushed.metas
  BY <1>3, <1>4 DEF Journal
<1>9. JournalOK(moved) /\ moved.head = h + 1 /\ moved.tail = j.tail
  <2>1. PICK p : p = pushed
    OBVIOUS
  <2>2. /\ JournalOK(p) /\ p.head = h /\ h \in UserPages
        /\ \/ Block(NextUpage(p.head)) = Block(p.head)
           \/ Block(NextUpage(p.head)) # Block(p.tailSync)
    BY <1>1, <1>3, <1>6, <2>1
  <2>3. LET k == [p EXCEPT !.root = h, !.head = NextUpage(p.head)]
        IN  JournalOK(k) /\ k.head = NextUpage(p.head)
    BY ONLY <2>2, HeadMoved
  <2>4. JournalOK(moved) /\ moved.head = h + 1
    BY <1>6, <1>7, <2>1, <2>2, <2>3
  <2> QED BY <1>3, <1>8, <2>4
<1>10. \A p \in UserPages : p = h \/ Within(j.tail, h, p)
          => Within(moved.tail, moved.head, p)
  <2>1. /\ j.tail \in UserPages /\ j.tailSync \in UserPages
        /\ InOrder(h, j.tailSync, j.tail)
    BY <1>1 DEF JournalOK, Journal
  <2>2. \A p \in UserPages : p = h \/ Within(j.tail, h, p)
           => Within(j.tail, NextUpage(h), p)
    BY <1>1, <1>2, <2>1, LogGrows DEF Room
  <2> QED BY <1>6, <1>9, <2>2
<1>11. moved \in Journal /\ Group(moved.head) = Group(h)
  BY <1>6, <1>9 DEF JournalOK
<1>12. PICK n2 : n2 = nand'
  OBVIOUS
<1>13. Keeps(nand, j, n2, moved) /\ ReadMeta(n2, moved, h) = meta
  <2>1. moved.metas = [j.metas EXCEPT ![h % Ppc] = meta]
    BY <1>3, <1>8
  <2>2. \A p \in Pages \ {h} : n2[p] = nand[p]
    BY <1>5, <1>12
  <2>3. \A p \in UserPages : Within(j.tail, h, p) => Within(moved.tail, moved.head, p)
    BY <1>10
  <2> HIDE DEF meta, pushed
  <2>4. Keeps(nand, j, n2, moved)
    BY <1>1, <1>9, <1>11, <2>1, <2>2, <2>3, ProgramKeeps
  <2>5. ReadMeta(n2, moved, h) = meta
    <3>1. Group(h) = Group(moved.head) /\ h % Ppc \in 0..Ppc - 2
      BY <1>1, <1>11, UserPage
    <3>2. moved.metas[h % Ppc] = meta
      BY <1>1, <2>1, <3>1 DEF Journal, Metas
    <3> QED BY <3>1, <3>2 DEF ReadMeta
  <2> QED BY <2>4, <2>5
<1>14. Lands(nand, j, nand', moved, proc[w])
  BY <1>1, <1>5, <1>8, <1>9, <1>10, <1>12, <1>13 DEF Lands
<1> QED BY <1>6, <1>8, <1>9, <1>14

\* The last page of a group is in the tree once the checkpoint is.
LEMMA PushKeeps ==
    ASSUME NEW w, At0(w), proc[w].at = "program", nand' = AfterData(w),
           NEW pushed, pushed = Pushed(w)
    PROVE  Keeps(nand, j, nand', pushed)
<1> DEFINE h == j.head
           meta == proc[w].meta
<1>1. /\ nand \in Flash /\ j \in Journal /\ JournalOK(j)
      /\ TreeOK(nand, j) /\ Inv /\ w \in Workers /\ h \in UserPages
  BY Known
<1>2. /\ pushed \in Journal
      /\ pushed.head = h /\ pushed.tail = j.tail
      /\ pushed.metas = [j.metas EXCEPT ![h % Ppc] = meta]
  BY PushedIs
<1>3. PICK n2 : n2 = nand'
  OBVIOUS
<1>4. \A p \in Pages \ {h} : n2[p] = nand[p]
  BY <1>3, DataLands
<1>5. Group(pushed.head) = Group(h) /\ \A p \in UserPages :
         Within(j.tail, h, p) => Within(pushed.tail, pushed.head, p)
  BY <1>2
<1> HIDE DEF meta
<1>6. Keeps(nand, j, n2, pushed)
  BY <1>1, <1>2, <1>4, <1>5, ProgramKeeps
<1> QED BY <1>3, <1>6

LEMMA ProgramMaps ==
    ASSUME NEW w, At0(w), Program(w), Inv'
    PROVE  \E k : MapTo(w, k)
<1> DEFINE h == j.head
           pushed == Pushed(w)
           moved == [pushed EXCEPT !.root = h, !.head = @ + 1]
           check == [proc[w] EXCEPT !.at = "check", !.oldHead = h]
<1>1. /\ nand \in Flash /\ j \in Journal /\ JournalOK(j) /\ Clean(nand)
      /\ TreeOK(nand, j) /\ Inv /\ w \in Workers /\ h \in UserPages
      /\ request[w] \in Requests /\ Counted(nand, j, proc[w], request[w])
  BY Known
<1>2. proc[w].at = "program" /\ proc[w].at \in Appending
  BY DEF Program, At, Appending
<1>3. proc[w] \in Appends
  BY <1>1, <1>2, AppendingAt
<1>4. JournalOK(j')
  BY DEF Inv, LogInv
<1>5. CASE Fail(w) /\ j' = [j EXCEPT !.count = proc[w].old] /\ nand' = nand
  BY <1>1, <1>2, <1>5, GivenBack
<1>6. CASE nand' = AfterData(w) /\ (h + 2) % Ppc # 0 /\ Proceed(w, moved)
  <2>1. nand' \in Flash /\ Clean(nand')
    BY <1>2, <1>6, DataLands
  <2>2. PICK l : l = moved
    OBVIOUS
  <2>3. JournalOK(l) /\ Lands(nand, j, nand', l, proc[w])
    BY <1>2, <1>6, <2>2, PushLands
  <2> QED BY <1>2, <1>4, <1>6, <2>1, <2>2, <2>3, ProceedMaps
<1>7. CASE /\ nand' = AfterData(w) /\ Goto(w, check) /\ j' = pushed
           /\ UNCHANGED reply
  <2>1. /\ check.at = "check" /\ check.at \in Appending
        /\ check.source = proc[w].source /\ check.meta = proc[w].meta
        /\ check.then = proc[w].then /\ check.moved = proc[w].moved
        /\ check.old = proc[w].old
    BY <1>3 DEF Appends, Appending
  <2> HIDE DEF check
  <2>2. /\ pushed \in Journal /\ pushed.head = h /\ pushed.root = j.root
        /\ pushed.tail = j.tail /\ pushed.count = j.count
        /\ pushed.metas = [j.metas EXCEPT ![h % Ppc] = proc[w].meta]
    BY <1>2, PushedIs
  <2>3. /\ nand' \in Flash /\ Clean(nand')
        /\ proc[w].source # Blankness =>
             /\ nand'[h] = Wanted(nand, proc[w].source)
             /\ Wanted(nand', proc[w].source) = Wanted(nand, proc[w].source)
    BY <1>2, <1>7, DataLands
  <2>4. Keeps(nand, j, nand', pushed)
    BY <1>2, <1>7, PushKeeps
  <2> HIDE DEF pushed
  <2>5. pushed.metas[h % Ppc] = proc[w].meta
    <3>1. h % Ppc \in 0..Ppc - 2
      BY <1>1, UserPage
    <3> QED BY <1>1, <2>2, <3>1 DEF Journal, Metas
  <2>6. Noted(nand', j', check)
    BY <1>7, <2>1, <2>2, <2>3, <2>5 DEF Noted
  <2> QED BY <1>2, <1>7, <2>1, <2>2, <2>3, <2>4, <2>6, KeptMaps
<1> QED BY <1>5, <1>6, <1>7 DEF Program, OnFlash

\* The journal once push_meta has written the checkpoint.
Checkpointed(w) ==
    [RollStats([j EXCEPT !.dirty = FALSE, !.root = proc[w].oldHead,
                         !.head = NextUpage(@)])
      EXCEPT !.tailSync = j.tail]

\* What the flash holds then: the page is in the tree.
LEMMA CheckpointLands ==
    ASSUME NEW w, At0(w), proc[w].at = "check",
           NEW n2, n2 = AfterCheckpoint(w), NEW l, l = Checkpointed(w)
    PROVE  /\ FlashOK(n2) /\ n2 \in Flash /\ Clean(n2)
           /\ \A p \in Pages \ {j.head + 1} : n2[p] = nand[p]
           /\ n2[j.head + 1] = Checkpoint(w)
           /\ JournalOK(l) /\ l \in Journal /\ l.head = NextUpage(j.head)
           /\ l.tail = j.tail /\ l.tailSync = j.tail /\ l.root = j.head
           /\ l.dirty = FALSE
           /\ l.head = 0 => l.epoch = j.epoch + 1
           /\ l.head # 0 => l.epoch = j.epoch
           /\ Lands(nand, j, n2, l, proc[w])
<1> DEFINE h == j.head
           next == NextUpage(h)
           clean == [j EXCEPT !.dirty = FALSE, !.root = proc[w].oldHead,
                              !.head = NextUpage(@)]
           rolled == RollStats(clean)
           synced == [rolled EXCEPT !.tailSync = j.tail]
<1>1. /\ nand \in Flash /\ j \in Journal /\ JournalOK(j) /\ Clean(nand)
      /\ TreeOK(nand, j) /\ Inv /\ w \in Workers /\ h \in UserPages
      /\ request[w] \in Requests /\ Counted(nand, j, proc[w], request[w])
  BY Known
<1>2. proc[w].at \in Appending /\ l = synced
  BY DEF Appending, Checkpointed
<1>3. /\ proc[w] \in Appends /\ Fits(nand, j, proc[w])
      /\ Half(nand, j, proc[w], request[w])
  BY <1>1, <1>2, AppendingAt DEF Counted
<1>4. /\ Room(j) /\ (h + 2) % Ppc = 0 /\ proc[w].oldHead = h
      /\ j.metas[h % Ppc] = proc[w].meta
      /\ proc[w].source # Blankness => nand[h] = Wanted(nand, proc[w].source)
  BY <1>2, <1>3 DEF Fits, Half, Noted
<1>5. /\ FlashOK(n2) /\ \A p \in Pages \ {h + 1} : n2[p] = nand[p]
      /\ nand[h + 1] = Free /\ h + 1 \in Pages
  BY <1>1, <1>2, CheckpointProgrammed
<1>6. n2[h + 1] = Checkpoint(w)
  BY <1>1, <1>2, <1>5, ProgrammedIs DEF AfterCheckpoint, Flash
<1>7. n2[h + 1].kind = "checkpoint" /\ n2[h + 1].metas = j.metas
  BY <1>6 DEF Checkpoint
<1>8. n2 \in Flash /\ Clean(n2)
  <2>1. h + 1 \notin UserPages
    <3>1. h + 1 \in Checkpoints
      BY <1>1, <1>4, NextUserPage
    <3> QED BY <3>1 DEF Checkpoints, UserPages
  <2> QED BY <1>1, <1>5, <1>7, <2>1 DEF Clean, FlashOK, UserPages, Checkpoints
<1>9. /\ JournalOK(clean) /\ clean.head = next /\ clean.tail = j.tail
      /\ clean.root = h /\ clean.metas = j.metas /\ clean.count = j.count
      /\ clean.dirty = FALSE /\ clean.epoch = j.epoch
  <2> DEFINE k == [j EXCEPT !.root = h, !.head = next]
  <2>1. JournalOK(k) /\ k.head = next /\ k.tail = j.tail /\ k.tailSync = j.tailSync
    BY <1>1, <1>4, HeadMoved, ZenonT(40) DEF Room
  <2>2. clean = [k EXCEPT !.dirty = FALSE] /\ FALSE \in BOOLEAN
        /\ k.root = h /\ k.metas = j.metas /\ k.count = j.count
        /\ k.epoch = j.epoch
    BY <1>1, <1>4 DEF Journal
  <2> HIDE DEF k, clean
  <2>3. clean \in Journal
    BY <2>1, <2>2 DEF JournalOK, Journal
  <2>4. /\ clean.head = k.head /\ clean.tail = k.tail
        /\ clean.tailSync = k.tailSync /\ clean.root = k.root
        /\ clean.metas = k.metas /\ clean.count = k.count
        /\ clean.dirty = FALSE /\ clean.epoch = k.epoch
    BY <2>1, <2>2 DEF JournalOK, Journal
  <2> QED BY <2>1, <2>2, <2>3, <2>4 DEF JournalOK
<1> HIDE DEF clean, next
<1>10. /\ JournalOK(rolled) /\ rolled.head = next /\ rolled.tail = j.tail
       /\ rolled.root = h /\ rolled.metas = j.metas /\ rolled.count = j.count
       /\ rolled.dirty = FALSE
       /\ next = 0 => rolled.epoch = j.epoch + 1
       /\ next # 0 => rolled.epoch = j.epoch
  <2>1. clean \in Journal
    BY <1>9 DEF JournalOK
  <2>2. next = 0 => rolled.epoch = clean.epoch + 1
    BY <1>9, <2>1 DEF RollStats, Journal
  <2>3. next # 0 => rolled = clean
    BY <1>9 DEF RollStats
  <2> HIDE DEF rolled
  <2>4. rolled.dirty = clean.dirty /\ JournalOK(rolled) /\ rolled.head = next
        /\ rolled.tail = j.tail /\ rolled.root = h /\ rolled.metas = j.metas
        /\ rolled.count = j.count
    BY <1>9, RollStatsType DEF JournalOK, rolled
  <2> QED BY <1>9, <2>2, <2>3, <2>4
<1> HIDE DEF rolled
<1>11. /\ JournalOK(synced) /\ synced.head = next /\ synced.tail = j.tail
       /\ synced.root = h /\ synced.metas = j.metas /\ synced.count = j.count
       /\ synced.tailSync = j.tail /\ synced.dirty = FALSE
       /\ synced.epoch = rolled.epoch
  <2>1. synced = [rolled EXCEPT !.tailSync = rolled.tail]
    BY <1>10
  <2>2. /\ synced.tail = rolled.tail /\ synced.root = rolled.root
        /\ synced.metas = rolled.metas /\ synced.count = rolled.count
        /\ synced.tailSync = rolled.tail /\ synced.dirty = rolled.dirty
        /\ synced.epoch = rolled.epoch
    BY <1>10, <2>1 DEF JournalOK, Journal
  <2> QED BY <1>10, <2>1, <2>2, SyncedType
<1> HIDE DEF synced
<1>12. /\ Keeps(nand, j, n2, synced) /\ ReadMeta(n2, synced, h) = j.metas[h % Ppc]
       /\ n2[h] = nand[h] /\ Within(synced.tail, synced.head, h)
  <2>1. /\ \A p \in Pages \ {h + 1} : n2[p] = nand[p]
        /\ n2[h + 1].kind = "checkpoint" /\ n2[h + 1].metas = j.metas
    BY <1>5, <1>7
  <2>2. synced \in Journal /\ synced.head = NextUpage(h)
    BY <1>11 DEF JournalOK, next
  <2> QED BY <1>1, <1>4, <1>11, <2>1, <2>2, CheckpointKeeps
<1>13. Lands(nand, j, n2, synced, proc[w])
  BY <1>4, <1>11, <1>12 DEF Lands
<1>14. synced \in Journal
  BY <1>11 DEF JournalOK
<1> QED BY <1>2, <1>5, <1>6, <1>8, <1>10, <1>11, <1>13, <1>14 DEF next

LEMMA PushMetaMaps ==
    ASSUME NEW w, At0(w), PushMeta(w), Inv'
    PROVE  \E k : MapTo(w, k)
<1>1. /\ proc[w].at = "check" /\ proc[w].at \in Appending
      /\ nand' = AfterCheckpoint(w) /\ Proceed(w, Checkpointed(w))
  BY DEF PushMeta, At, OnFlash, Appending, Checkpointed
<1>2. PICK n2, l : n2 = nand' /\ l = Checkpointed(w)
  OBVIOUS
<1>3. /\ n2 \in Flash /\ Clean(n2) /\ JournalOK(l)
      /\ Lands(nand, j, n2, l, proc[w])
  BY <1>1, <1>2, CheckpointLands
<1>4. JournalOK(j')
  BY DEF Inv, LogInv
<1> QED BY <1>1, <1>2, <1>3, <1>4, ProceedMaps

LEMMA WorkMaps ==
    ASSUME NEW w \in Workers, Inv, Untouched, Inv', Work(w)
    PROVE  Untouched' /\ Service(w) /\ crashes' = crashes
<1>1. proc[w] # Idle
  BY WorkStepExists
<1>2. At0(w)
  BY <1>1 DEF At0
<1>3. Remember /\ request' = request /\ crashes' = crashes
  BY DEF Work, Gc, Carry, Sync, PrepareHead, Erase, Program, PushMeta, At
<1>4. \E k : MapTo(w, k)
  BY <1>2, GcMaps, CarryMaps, SyncMaps, PrepareHeadMaps, EraseMaps, ProgramMaps,
     PushMetaMaps DEF Work
<1>5. PICK k : MapTo(w, k)
  BY <1>4
<1>6. Untouched' /\ Service(w)
  BY <1>2, <1>3, <1>5, MapStep
<1> QED BY <1>3, <1>6

LEMMA AskMaps ==
    ASSUME NEW w \in Workers, NEW r \in Requests, Exclusive, Inv, Untouched, Inv',
           Ask(w, r)
    PROVE  Untouched' /\ Volatile!Ask(w) /\ crashes' = crashes
<1>1. /\ Quiet /\ request' = [request EXCEPT ![w] = r] /\ request[w] = NoRequest
      /\ proc' = [proc EXCEPT ![w] = Entry(r)] /\ nand' = nand /\ j' = j
      /\ reply' = reply /\ sectors' = sectors /\ crashes' = crashes
  BY DEF Ask, Goto
<1>2. Entry(r).at \notin Appending /\ Entry(r) # Idle
      /\ (Entry(r).at = "sync" => r.op = "sync")
  <2>1. \/ Entry(r) = Serve
        \/ Entry(r) = SyncLoop /\ r.op = "sync"
        \/ Entry(r) = Collect(Rounds)
    BY DEF Entry
  <2> HIDE DEF Entry
  <2> QED BY <2>1 DEF Serve, SyncLoop, Collect, Idle, Appending
<1>3. PICK k : k = Entry(r)
  OBVIOUS
<1>4. \A v \in Workers : proc[v] = Idle /\ (v # w => proc'[v] = Idle)
  BY <1>1 DEF Quiet, Inv, TypeInv
<1>5. proc'[w] = k /\ request'[w] = r
  BY <1>1, <1>3 DEF Inv, TypeInv
<1>6. MapOK(nand', j') /\ sectors' = Contents(nand', j')
      /\ j'.count = Count(Contents(nand', j'))
  BY <1>1 DEF Untouched
<1>7. Counted(nand', j', proc'[w], request'[w])
  BY <1>2, <1>3, <1>5, <1>6 DEF Counted
<1>8. Untouched'
  BY <1>2, <1>3, <1>4, <1>5, <1>6, <1>7 DEF Untouched, Quiet
<1>9. Volatile!Ask(w)
  BY <1>1 DEF Volatile!Ask, Volatile!Requests, Requests
<1> QED BY <1>1, <1>8, <1>9

LEMMA TakeMaps ==
    ASSUME NEW w \in Workers, Inv, Untouched, Take(w)
    PROVE  Untouched' /\ Volatile!Take(w) /\ crashes' = crashes
<1>1. /\ reply[w] # NoReply /\ request' = [request EXCEPT ![w] = NoRequest]
      /\ reply' = [reply EXCEPT ![w] = NoReply] /\ sectors' = sectors
      /\ nand' = nand /\ j' = j /\ proc' = proc /\ crashes' = crashes
  BY DEF Take
<1>2. proc[w] = Idle
  BY <1>1 DEF Inv, CallInv
<1>3. \A v \in Workers : v # w => request'[v] = request[v]
  BY <1>1 DEF Inv, TypeInv
<1>4. \A v \in Workers : proc'[v] # Idle
         => Counted(nand', j', proc'[v], request'[v])
  BY <1>1, <1>2, <1>3 DEF Untouched
<1>5. Untouched'
  BY <1>1, <1>4 DEF Untouched, Quiet
<1>6. Volatile!Take(w)
  BY <1>1 DEF Volatile!Take
<1> QED BY <1>1, <1>5, <1>6

LEMMA InitEmpty ==
    Init => j = EmptyJournal /\ nand \in Flash /\ \A p \in Pages : nand[p] = Free
<1> SUFFICES ASSUME Init
             PROVE  j = EmptyJournal /\ nand \in Flash /\ \A p \in Pages : nand[p] = Free
  OBVIOUS
<1>1. nand = [p \in Pages |-> Free] /\ j = Resume(nand)
  BY DEF Init
<1>2. nand \in Flash /\ \A p \in Pages : nand[p] = Free
  BY <1>1 DEF Flash
<1>3. FindCheckblock(nand, 0) = None
  <2>1. PICK c : c = FindCheckblock(nand, 0)
    OBVIOUS
  <2>2. c # None => c \in 0..NumBlocks - 1
                    /\ nand[FirstCheckpoint(c)].kind = "checkpoint"
    BY <2>1, FindCheckblockIs
  <2>3. c # None => FirstCheckpoint(c) \in Pages
    BY <2>2, FirstCheckpointIs DEF Checkpoints
  <2> QED BY <1>2, <2>1, <2>2, <2>3, FreeHasNoFields
<1>4. j = EmptyJournal
  BY <1>1, <1>3 DEF Resume
<1> QED BY <1>2, <1>4

LEMMA MapInit == Init => MapInv /\ crashes = 0 /\ Volatile!Init
<1> SUFFICES ASSUME Init PROVE MapInv /\ crashes = 0 /\ Volatile!Init
  OBVIOUS
<1>1. /\ nand = [p \in Pages |-> Free] /\ j = Resume(nand) /\ crashes = 0
      /\ sectors = Contents(nand, j)
      /\ proc = [w \in Workers |-> Idle]
      /\ request = [w \in Workers |-> NoRequest]
      /\ reply = [w \in Workers |-> NoReply]
  BY DEF Init
<1>2. Inv
  BY InitInv
<1>3. nand \in Flash /\ \A p \in Pages : nand[p] = Free
  BY InitEmpty
<1>4. Clean(nand)
  BY <1>3, FreeHasNoFields DEF Clean, UserPages, Checkpoints
<1>6. j = EmptyJournal
  BY InitEmpty
<1>7. j \in Journal /\ j.root = None /\ j.count = 0
  BY <1>6, EmptyJournalOK DEF EmptyJournal, JournalOK
<1>8. TreeOK(nand, j) /\ \A t \in Sectors : TracePath(nand, j, t).page = None
  BY <1>3, <1>7, EmptyTree
<1>9. Contents(nand, j) = [s \in Sectors |-> Blank] /\ Count(Contents(nand, j)) = 0
  BY <1>3, <1>7, <1>8, EmptyContents
<1>10. Untouched
  BY <1>1, <1>4, <1>7, <1>8, <1>9 DEF Untouched, MapOK
<1>11. Volatile!Init
  BY <1>1, <1>9 DEF Volatile!Init, Volatile!Content
<1> QED BY <1>1, <1>10, <1>11 DEF MapInv

\* Until the first reset, a step keeps the map right and is one of the disk.
LEMMA MapNext ==
    ASSUME Exclusive, Inv, MapInv, Inv', [Next]_vars
    PROVE  MapInv' /\ (crashes' = 0 => [Volatile!Next]_(Volatile!vars))
<1>1. CASE UNCHANGED vars
  <2>1. MapInv'
    BY <1>1 DEF vars, MapInv, Untouched, Quiet
  <2>2. UNCHANGED Volatile!vars
    BY <1>1 DEF vars, Volatile!vars
  <2> QED BY <2>1, <2>2
<1>2. CASE Crash
  BY <1>2 DEF Crash, MapInv
<1>3. ASSUME NEW w \in Workers,
             Work(w) \/ Take(w) \/ \E r \in Requests : Ask(w, r)
      PROVE  MapInv' /\ (crashes' = 0 => [Volatile!Next]_(Volatile!vars))
  <2>1. crashes' = crashes
    BY <1>3 DEF Work, Gc, Carry, Sync, PrepareHead, Erase, Program, PushMeta, At,
       Take, Ask
  <2>2. CASE crashes # 0
    BY <2>1, <2>2 DEF MapInv
  <2>3. CASE crashes = 0
    <3>1. Untouched
      BY <2>3 DEF MapInv
    <3>2. /\ Untouched'
          /\ Service(w) \/ Volatile!Take(w) \/ Volatile!Ask(w)
      BY <1>3, <3>1, WorkMaps, TakeMaps, AskMaps
    <3>3. MapInv'
      BY <2>1, <3>2 DEF MapInv
    <3>4. Volatile!Next \/ UNCHANGED Volatile!vars
      BY <3>2 DEF Service, Volatile!Next, Volatile!vars
    <3> QED BY <3>3, <3>4
  <2> QED BY <2>2, <2>3
<1> QED BY <1>1, <1>2, <1>3 DEF Next

\* Until the first reset the count that map.c keeps beside the tree is right
\* between two calls: it is the number of sectors that the tree leads to, on
\* a chip of any geometry, whatever was asked and whatever was refused.
THEOREM CountIsRightUntilReset ==
    ASSUME Exclusive
    PROVE  Spec => [](crashes = 0 => CountIsRight)
<1>1. Init => Inv /\ MapInv
  BY InitInv, MapInit
<1>2. (Inv /\ MapInv) /\ [Next]_vars => (Inv /\ MapInv)'
  BY NextInv, MapNext
<1>3. MapInv => (crashes = 0 => CountIsRight)
  BY DEF MapInv, Untouched, CountIsRight, Count
<1> QED BY <1>1, <1>2, <1>3, PTL DEF Spec

\* Until the first reset the map is the disk that the file system expects:
\* every call takes effect at once or not at all and is answered truly,
\* through garbage collection, checkpoints and turns of the log.
THEOREM DiskUntilReset ==
    ASSUME Exclusive
    PROVE  Spec => Volatile!Init
                   /\ [][crashes' = 0 => [Volatile!Next]_(Volatile!vars)]_vars
<1>1. Init => Inv /\ MapInv /\ Volatile!Init
  BY InitInv, MapInit
<1>2. (Inv /\ MapInv) /\ [Next]_vars
        => /\ (Inv /\ MapInv)'
           /\ crashes' = 0 => [Volatile!Next]_(Volatile!vars)
  BY NextInv, MapNext
<1> QED BY <1>1, <1>2, PTL DEF Spec

\* A board that is never reset has that disk.
THEOREM DiskWithoutResets ==
    ASSUME Exclusive, MaxCrashes = 0
    PROVE  Spec => Volatile!Spec
<1>1. Init => Inv /\ MapInv /\ crashes = 0 /\ Volatile!Init
  BY InitInv, MapInit
<1>2. (Inv /\ MapInv /\ crashes = 0) /\ [Next]_vars => (Inv /\ MapInv /\ crashes = 0)'
  <2> SUFFICES ASSUME Inv, MapInv, crashes = 0, [Next]_vars
               PROVE  (Inv /\ MapInv /\ crashes = 0)'
    OBVIOUS
  <2>1. Inv' /\ MapInv'
    BY NextInv, MapNext
  <2>2. crashes' = crashes
    <3>1. ~Crash
      BY DEF Crash
    <3> QED BY <3>1 DEF Next, Work, Gc, Carry, Sync, PrepareHead, Erase, Program,
            PushMeta, At, Take, Ask, vars
  <2> QED BY <2>1, <2>2
<1>3. (Inv /\ MapInv /\ crashes = 0) /\ [Next]_vars => [Volatile!Next]_(Volatile!vars)
  BY <1>2, NextInv, MapNext
<1> QED BY <1>1, <1>2, <1>3, PTL DEF Spec, Volatile!Spec
=============================================================================
