--------------------------- MODULE DharaRoomProofs ---------------------------
(***************************************************************************)
(* The journal never runs full: proofs that the reserve of                 *)
(* dhara_map_capacity and the garbage collection before each write leave   *)
(* room for whatever has to be appended, on a chip of any geometry.        *)
(***************************************************************************)
EXTENDS DharaMapProofs, TLAPS

-----------------------------------------------------------------------------
(* Room for the journal.  dhara_map_capacity reserves one part in          *)
(* GcRatio + 1 and the pages of MaxRetries blocks, and GcRatio + 1 rounds  *)
(* of garbage collection precede each write once the log is that long.     *)
(* What follows says why this is enough, however the garbage lies.         *)
(*                                                                         *)
(* L user pages are in the log and f tells how far behind the tail the     *)
(* page of a sector is.  Early(f, x) sectors have theirs among the first x *)
(* pages of the log, so that L - x + Early(f, x) pages are left when these *)
(* have been collected, which takes x / Rate writes.                       *)
Rate == GcRatio + 1
LogCapacity == (NumBlocks - 1) * ((Ppb \div Ppc) * (Ppc - 1))
Reserved == LogCapacity \div Rate + MaxRetries * Ppb
Most == IF Reserved >= LogCapacity THEN 0 ELSE LogCapacity - Reserved
Reach == LogCapacity - MaxRetries * Ppb + 3

Early(f, x) == Cardinality({s \in Sectors : f[s] \in 0..x - 1})

\* The log stays within its reach if `credit' pages need not be collected.
Paced(f, L, credit) ==
    \A x \in 0..L : Rate * (L - x + Early(f, x)) + x + credit <= Rate * Reach

\* No two sectors have one page, and their pages are in the log.
Apart(f, L) ==
    /\ f \in [Sectors -> Int]
    /\ \A s \in Sectors : f[s] < L
    /\ \A s, t \in Sectors : f[s] >= 0 /\ f[s] = f[t] => s = t

LEMMA TimesOrder ==
    ASSUME NEW k \in Nat, NEW a \in Int, NEW b \in Int, a <= b
    PROVE  k * a <= k * b
<1>1. PICK d \in Nat : b = a + d
  BY b - a \in Nat
<1>2. k * b = k * a + k * d
  BY <1>1
<1>3. k * d >= 0 /\ k * d \in Int /\ k * a \in Int
  BY <1>1
<1> QED BY <1>2, <1>3

LEMMA RateIs == Rate \in Nat /\ Rate >= 2
BY GeometryAssumption DEF Rate

LEMMA EarlyType ==
    ASSUME NEW f, NEW x
    PROVE  /\ Early(f, x) \in Nat
           /\ IsFiniteSet({s \in Sectors : f[s] \in 0..x - 1})
<1>1. IsFiniteSet({s \in Sectors : f[s] \in 0..x - 1})
  BY SectorAssumption, FS_Subset
<1> QED BY <1>1, FS_CardinalityType DEF Early

LEMMA EarlyOrder ==
    ASSUME NEW f, NEW x, NEW g, NEW y,
           \A s \in Sectors : f[s] \in 0..x - 1 => g[s] \in 0..y - 1
    PROVE  /\ Early(f, x) <= Early(g, y)
           /\ \A t \in Sectors : f[t] \notin 0..x - 1 /\ g[t] \in 0..y - 1
                => Early(f, x) + 1 <= Early(g, y)
<1> DEFINE A == {s \in Sectors : f[s] \in 0..x - 1}
           B == {s \in Sectors : g[s] \in 0..y - 1}
<1>1. A \in SUBSET B /\ IsFiniteSet(B)
  BY EarlyType
<1>2. IsFiniteSet(A) /\ Cardinality(A) <= Cardinality(B)
      /\ (Cardinality(A) = Cardinality(B) => A = B)
  <2> HIDE DEF A, B
  <2> QED BY <1>1, FS_Subset
<1>3. Cardinality(A) \in Nat /\ Cardinality(B) \in Nat
  BY <1>1, <1>2, FS_CardinalityType
<1>4. ASSUME NEW t \in Sectors, f[t] \notin 0..x - 1, g[t] \in 0..y - 1
      PROVE  Cardinality(A) # Cardinality(B)
  BY <1>2, <1>4
<1> QED BY <1>2, <1>3, <1>4 DEF Early

\* Each page belongs to one sector.
LEMMA EarlyBound ==
    ASSUME NEW f, NEW L, Apart(f, L), NEW x \in Nat
    PROVE  Early(f, x) <= x
<1> DEFINE A == {s \in Sectors : f[s] \in 0..x - 1}
           g == [s \in A |-> f[s]]
<1>1. g \in Injection(A, 0..x - 1)
  BY DEF Injection, IsInjective, Apart
<1>2. IsFiniteSet(0..x - 1) /\ Cardinality(0..x - 1) = x
  BY FS_Interval
<1>3. Cardinality(A) <= Cardinality(0..x - 1)
  <2> HIDE DEF g, A
  <2> QED BY <1>1, <1>2, FS_Injection
<1> QED BY <1>2, <1>3 DEF Early

LEMMA CapacityType ==
    /\ LogCapacity \in Nat /\ MaxRetries * Ppb \in Nat /\ Reach \in Int
    /\ Most \in Nat /\ LogCapacity \div Rate \in Nat
<1>1. (NumBlocks - 1) \in Nat /\ Ppb \div Ppc \in Nat /\ Ppc - 1 \in Nat
  BY Geometry
<1>2. (Ppb \div Ppc) * (Ppc - 1) \in Nat
  BY <1>1
<1>3. LogCapacity \in Nat
  BY <1>1, <1>2 DEF LogCapacity
<1>4. MaxRetries * Ppb \in Nat
  BY GeometryAssumption
<1>5. LogCapacity \div Rate \in Int
  BY <1>3, RateIs, DivMod
<1>6. LogCapacity \div Rate >= 0
  <2>1. PICK q \in Int : q = LogCapacity \div Rate
    BY <1>5
  <2>2. PICK r \in 0..Rate - 1 : LogCapacity = Rate * q + r
    <3>1. PICK k \in Nat \ {0}, cap \in Int : k = Rate /\ cap = LogCapacity
      BY <1>3, RateIs
    <3>2. cap = (k * (cap \div k)) + (cap % k) /\ cap % k \in 0..k - 1
      BY DivMod
    <3> QED BY <2>1, <3>1, <3>2
  <2>3. q < 0 => Rate * q <= Rate * (-1)
    BY <2>1, RateIs, TimesOrder
  <2> QED BY <1>3, <2>1, <2>2, <2>3, RateIs
<1> QED BY <1>3, <1>4, <1>5, <1>6 DEF Reach, Most, Reserved

\* The reserve is enough: garbage collection keeps pace.
LEMMA ReserveIsEnough ==
    ASSUME Most > 0
    PROVE  /\ Reach > 3 /\ Most < Reach
           /\ Rate * Most <= Rate * Reach - Reach - Rate
<1>1. PICK m \in Nat : m = MaxRetries * Ppb
  BY CapacityType
<1>2. PICK q \in Nat : q = LogCapacity \div Rate
  BY CapacityType
<1>3. PICK cap \in Nat : cap = LogCapacity
  BY CapacityType
<1>4. PICK r \in 0..Rate - 1 : cap = Rate * q + r
  <2>1. PICK k \in Nat \ {0} : k = Rate
    BY RateIs
  <2>2. cap = (k * (cap \div k)) + (cap % k) /\ cap % k \in 0..k - 1
    BY DivMod
  <2> QED BY <1>2, <1>3, <2>1, <2>2
<1>5. Most = cap - q - m /\ Reach = cap - m + 3 /\ Most \in Nat
  BY <1>1, <1>2, <1>3, CapacityType DEF Most, Reserved, Reach
<1>6. Reach > 3 /\ Most < Reach
  BY <1>5
<1>7. Rate * Most = Rate * cap - Rate * q - Rate * m
  BY <1>5, RateIs
<1>8. Rate * Reach = Rate * cap - Rate * m + Rate * 3
  BY <1>5, RateIs
<1>9. /\ Rate * cap \in Int /\ Rate * q \in Int /\ Rate * m \in Int
      /\ Rate \in Nat /\ Rate >= 2
  BY RateIs
<1>10. Rate * Most <= Rate * Reach - Reach - Rate
  BY <1>4, <1>5, <1>7, <1>8, <1>9
<1> QED BY <1>6, <1>10

\* A log that is shorter than the capacity needs no collection.
LEMMA ShortIsPaced ==
    ASSUME Most > 0, NEW L \in Nat, L < Most, NEW f, Apart(f, L)
    PROVE  Paced(f, L, Rate)
<1> SUFFICES ASSUME NEW x \in 0..L
             PROVE  Rate * (L - x + Early(f, x)) + x + Rate <= Rate * Reach
  BY DEF Paced
<1>1. PICK E \in Nat : E = Early(f, x) /\ E <= x
  <2>1. Early(f, x) \in Nat
    BY EarlyType
  <2>2. Early(f, x) <= x
    BY EarlyBound
  <2> QED BY <2>1, <2>2
<1>2. Rate * (L - x + E) <= Rate * (Most - 1)
  BY <1>1, RateIs, CapacityType, TimesOrder
<1>3. Rate * (Most - 1) = Rate * Most - Rate
  BY RateIs, CapacityType
<1>4. Rate * Most <= Rate * Reach - Reach - Rate /\ Most < Reach
  BY ReserveIsEnough
<1>5. /\ Rate * (L - x + E) \in Int /\ Rate * Most \in Int /\ Rate * Reach \in Int
      /\ Rate \in Nat /\ Most \in Nat /\ Reach \in Int
  BY <1>1, RateIs, CapacityType
<1> QED BY <1>1, <1>2, <1>3, <1>4, <1>5

LEMMA PacedReach ==
    ASSUME NEW L \in Nat, NEW f, NEW c \in Nat, Paced(f, L, c)
    PROVE  Rate * L + c <= Rate * Reach /\ L <= Reach
<1>1. PICK E \in Nat : E = Early(f, 0)
  BY EarlyType
<1>2. Rate * (L - 0 + E) + 0 + c <= Rate * Reach
  BY <1>1 DEF Paced
<1>3. Rate * L <= Rate * (L - 0 + E)
  BY <1>1, RateIs, TimesOrder
<1>4. Rate * L + c <= Rate * Reach
  <2>1. Rate * L \in Int /\ Rate * (L - 0 + E) \in Int /\ Rate * Reach \in Int
    BY <1>1, RateIs, CapacityType
  <2> QED BY <1>2, <1>3, <2>1
<1>5. ~(L >= Reach + 1)
  <2> SUFFICES ASSUME L >= Reach + 1 PROVE FALSE
    OBVIOUS
  <2>1. Rate * (Reach + 1) <= Rate * L
    BY RateIs, CapacityType, TimesOrder
  <2>2. Rate * (Reach + 1) = Rate * Reach + Rate
    BY RateIs, CapacityType
  <2>3. Rate * L \in Int /\ Rate * Reach \in Int /\ Rate \in Nat /\ Rate >= 2
    BY RateIs, CapacityType
  <2> QED BY <1>4, <2>1, <2>2, <2>3
<1> QED BY <1>4, <1>5, CapacityType

\* Any step with less to collect is as well paced.
LEMMA PacedLess ==
    ASSUME NEW L \in Nat, NEW f, NEW c \in Int, Paced(f, L, c),
           NEW d \in Int, d <= c
    PROVE  Paced(f, L, d)
<1> SUFFICES ASSUME NEW x \in 0..L
             PROVE  Rate * (L - x + Early(f, x)) + x + d <= Rate * Reach
  BY DEF Paced
<1>1. PICK y \in Int : y = Rate * (L - x + Early(f, x))
  <2>1. PICK E \in Nat : E = Early(f, x)
    BY EarlyType
  <2>2. L - x + E \in Int
    OBVIOUS
  <2>3. Rate * (L - x + E) \in Int
    BY <2>2, RateIs
  <2> QED BY <2>1, <2>3
<1>2. y + x + c <= Rate * Reach /\ Rate * Reach \in Int
  BY <1>1, RateIs, CapacityType DEF Paced
<1> QED BY <1>1, <1>2

\* One page at the tail was garbage, and is one page less to collect.
LEMMA DropIsPaced ==
    ASSUME NEW L \in Nat, L > 0, NEW f, NEW g, NEW c \in Int, Paced(f, L, c),
           \A s \in Sectors : g[s] \in Nat => f[s] = g[s] + 1
    PROVE  Paced(g, L - 1, c + 1)
<1> SUFFICES ASSUME NEW x \in 0..L - 1
             PROVE  Rate * (L - 1 - x + Early(g, x)) + x + (c + 1) <= Rate * Reach
  BY DEF Paced
<1>1. PICK y \in 0..L : y = x + 1
  OBVIOUS
<1>2. Early(g, x) <= Early(f, y)
  <2>1. \A s \in Sectors : g[s] \in 0..x - 1 => f[s] \in 0..y - 1
    BY <1>1
  <2> QED BY <2>1, EarlyOrder
<1>3. PICK E \in Nat, F \in Nat : E = Early(g, x) /\ F = Early(f, y)
  BY EarlyType
<1>4. Rate * (L - 1 - x + E) <= Rate * (L - y + F)
  BY <1>1, <1>2, <1>3, RateIs, TimesOrder
<1>5. Rate * (L - y + F) + y + c <= Rate * Reach
  BY <1>3 DEF Paced
<1>6. /\ Rate * (L - 1 - x + E) \in Int /\ Rate * (L - y + F) \in Int
      /\ Rate * Reach \in Int
  BY <1>1, <1>3, RateIs, CapacityType
<1> QED BY <1>1, <1>3, <1>4, <1>5, <1>6

\* A page was appended, and no other one came to the log.
LEMMA AppendIsPaced ==
    ASSUME Most > 0, NEW L \in Nat, NEW f, NEW g, Paced(f, L, Rate),
           \A s \in Sectors : g[s] \in 0..L - 1 => f[s] = g[s],
           Early(g, L + 1) <= Most
    PROVE  Paced(g, L + 1, 0)
<1> SUFFICES ASSUME NEW x \in 0..L + 1
             PROVE  Rate * (L + 1 - x + Early(g, x)) + x + 0 <= Rate * Reach
  BY DEF Paced
<1>1. PICK E \in Nat : E = Early(g, x)
  BY EarlyType
<1>2. CASE x <= L
  <2>1. \A s \in Sectors : g[s] \in 0..x - 1 => f[s] \in 0..x - 1
    BY <1>2
  <2>2. PICK F \in Nat : F = Early(f, x)
    BY EarlyType
  <2>3. E <= F
    BY <1>1, <2>1, <2>2, EarlyOrder
  <2>4. Rate * (L + 1 - x + E) <= Rate * (L + 1 - x + F)
    BY <1>1, <2>2, <2>3, RateIs, TimesOrder
  <2>5. Rate * (L + 1 - x + F) = Rate * (L - x + F) + Rate
    BY <2>2, RateIs
  <2>6. Rate * (L - x + F) + x + Rate <= Rate * Reach
    <3>1. x \in 0..L
      BY <1>2
    <3> QED BY <2>2, <3>1 DEF Paced
  <2>7. /\ Rate * (L + 1 - x + E) \in Int /\ Rate * (L - x + F) \in Int
        /\ Rate * Reach \in Int /\ Rate \in Nat
    BY <1>1, <2>2, RateIs, CapacityType
  <2> QED BY <1>1, <2>4, <2>5, <2>6, <2>7
<1>3. CASE x = L + 1
  <2>1. E <= Most
    BY <1>1, <1>3
  <2>2. Rate * (L + 1 - x + E) = Rate * E /\ Rate * E <= Rate * Most
    BY <1>1, <1>3, <2>1, RateIs, CapacityType, TimesOrder
  <2>3. Rate * Most <= Rate * Reach - Reach - Rate
    BY ReserveIsEnough
  <2>4. L <= Reach
    BY RateIs, PacedReach
  <2>5. /\ Rate * E \in Int /\ Rate * Most \in Int /\ Rate * Reach \in Int
        /\ Rate \in Nat /\ Rate >= 2 /\ Reach \in Int
    BY <1>1, RateIs, CapacityType
  <2> QED BY <1>1, <1>3, <2>2, <2>3, <2>4, <2>5
<1> QED BY <1>2, <1>3

\* The page of sector t was moved from the tail to the head.
LEMMA MoveIsPaced ==
    ASSUME Most > 0, NEW L \in Nat, L > 0, NEW f, NEW g, NEW c \in 0..Rate - 1,
           Paced(f, L, c), NEW t \in Sectors, f[t] = 0, g[t] = L - 1,
           \A s \in Sectors \ {t} : g[s] \in Nat => f[s] = g[s] + 1,
           Early(g, L) <= Most
    PROVE  Paced(g, L, c + 1)
<1> SUFFICES ASSUME NEW x \in 0..L
             PROVE  Rate * (L - x + Early(g, x)) + x + (c + 1) <= Rate * Reach
  BY DEF Paced
<1>1. PICK E \in Nat : E = Early(g, x)
  BY EarlyType
<1>2. CASE x < L
  <2>1. PICK y \in 0..L : y = x + 1
    BY <1>2
  <2>2. PICK F \in Nat : F = Early(f, y)
    BY EarlyType
  <2>3. E + 1 <= F
    <3>1. \A s \in Sectors : g[s] \in 0..x - 1 => f[s] \in 0..y - 1
      BY <1>2, <2>1
    <3>2. g[t] \notin 0..x - 1 /\ f[t] \in 0..y - 1
      BY <1>2, <2>1
    <3> QED BY <1>1, <2>2, <3>1, <3>2, EarlyOrder
  <2>4. Rate * (L - x + E) <= Rate * (L - y + F)
    BY <1>1, <2>1, <2>2, <2>3, RateIs, TimesOrder
  <2>5. Rate * (L - y + F) + y + c <= Rate * Reach
    BY <2>2 DEF Paced
  <2>6. /\ Rate * (L - x + E) \in Int /\ Rate * (L - y + F) \in Int
        /\ Rate * Reach \in Int
    BY <1>1, <2>1, <2>2, RateIs, CapacityType
  <2> QED BY <1>1, <2>1, <2>4, <2>5, <2>6
<1>3. CASE x = L
  <2>1. E <= Most
    BY <1>1, <1>3
  <2>2. Rate * (L - x + E) = Rate * E /\ Rate * E <= Rate * Most
    BY <1>1, <1>3, <2>1, RateIs, CapacityType, TimesOrder
  <2>3. Rate * Most <= Rate * Reach - Reach - Rate
    BY ReserveIsEnough
  <2>4. L <= Reach
    BY RateIs, PacedReach
  <2>5. /\ Rate * E \in Int /\ Rate * Most \in Int /\ Rate * Reach \in Int
        /\ Rate \in Nat /\ Rate >= 2 /\ Reach \in Int
    BY <1>1, RateIs, CapacityType
  <2> QED BY <1>1, <1>3, <2>2, <2>3, <2>4, <2>5
<1> QED BY <1>2, <1>3

\* A log without the page of a sector.
LEMMA GarbageIsPaced ==
    ASSUME Most > 0, NEW L \in 0..1, NEW f, \A s \in Sectors : f[s] \notin Nat
    PROVE  Paced(f, L, Rate)
<1> SUFFICES ASSUME NEW x \in 0..L
             PROVE  Rate * (L - x + Early(f, x)) + x + Rate <= Rate * Reach
  BY DEF Paced
<1>1. Early(f, x) = 0
  <2>1. {s \in Sectors : f[s] \in 0..x - 1} = {}
    OBVIOUS
  <2> QED BY <2>1, FS_EmptySet DEF Early
<1>2. Reach > 3 /\ Reach \in Int
  BY ReserveIsEnough, CapacityType
<1>3. Rate * 3 <= Rate * Reach
  BY <1>2, RateIs, TimesOrder
<1>4. Rate * (L - x + 0) <= Rate * 1
  BY RateIs, TimesOrder
<1>5. /\ Rate * (L - x + 0) \in Int /\ Rate * Reach \in Int
      /\ Rate \in Nat /\ Rate >= 2
  BY <1>2, RateIs
<1> QED BY <1>1, <1>3, <1>4, <1>5

-----------------------------------------------------------------------------
(* User pages in the order of the log: the checkpoints are not counted.    *)
Slot(p) == p - Group(p)
Slots == NumPages - Group(NumPages)

\* How many user pages there are from a on before b.
Span(a, b) == Slot(b) - Slot(a) + IF b < a THEN Slots ELSE 0

LEMMA SlotIs ==
    ASSUME NEW p \in UserPages
    PROVE  Slot(p) \in Nat /\ Slot(p) = Group(p) * (Ppc - 1) + (p % Ppc)
<1>1. p \in Int /\ 0 <= p /\ p % Ppc \in 0..Ppc - 2
  BY UserPage
<1>2. PICK g \in Int, r \in 0..Ppc - 2 : g = Group(p) /\ r = p % Ppc /\ p = g * Ppc + r
  BY <1>1, GroupOf
<1>3. g * (Ppc - 1) = g * Ppc - g
  BY Geometry
<1>4. g >= 0
  <2>1. g < 0 => g * Ppc <= (-1) * Ppc
    BY Geometry
  <2> QED BY <1>1, <1>2, <2>1, Geometry
<1>5. g * (Ppc - 1) \in Nat
  BY <1>4, Geometry
<1>6. g * Ppc \in Int
  BY Geometry
<1> QED BY <1>2, <1>3, <1>5, <1>6 DEF Slot

LEMMA SlotOrder ==
    ASSUME NEW p \in UserPages, NEW q \in UserPages, p < q
    PROVE  Slot(p) < Slot(q)
<1>1. PICK g \in Int, r \in 0..Ppc - 2 : g = Group(p) /\ r = p % Ppc /\ p = g * Ppc + r
  BY UserPage, GroupOf
<1>2. PICK h \in Int, i \in 0..Ppc - 2 : h = Group(q) /\ i = q % Ppc /\ q = h * Ppc + i
  BY UserPage, GroupOf
<1>3. g <= h
  <2>1. p \in Int /\ q \in Int /\ p <= q
    BY UserPage
  <2>2. p \div Ppc <= q \div Ppc
    BY <2>1, DivOrder, Geometry
  <2> QED BY <1>1, <1>2, <2>2 DEF Group
<1>4. Slot(p) = g * (Ppc - 1) + r /\ Slot(q) = h * (Ppc - 1) + i
  BY <1>1, <1>2, SlotIs
<1>5. CASE g = h
  <2>1. r < i
    BY <1>1, <1>2, <1>5, Geometry
  <2> QED BY <1>4, <1>5, <2>1, Geometry
<1>6. CASE g < h
  <2>1. PICK k \in Nat : k = Ppc - 1 /\ r < k
    BY Geometry
  <2>2. k * (g + 1) <= k * h
    BY <1>6, <2>1, TimesOrder
  <2>3. k * (g + 1) = k * g + k
    BY <2>1
  <2>4. k * g \in Int /\ k * h \in Int /\ g * k = k * g /\ h * k = k * h
    BY <2>1
  <2> QED BY <1>4, <2>1, <2>2, <2>3, <2>4
<1> QED BY <1>3, <1>5, <1>6

LEMMA EndOfPages ==
    \E m \in Nat : m = Group(NumPages) /\ NumPages = Ppc * m /\ Slots = (Ppc - 1) * m
                   /\ m = NumBlocks * (Ppb \div Ppc)
<1>1. PICK G \in Nat \ {0} : G = Ppb \div Ppc /\ Ppb = Ppc * G
  BY Geometry
<1>2. PICK m \in Nat : m = NumBlocks * G
  BY <1>1, Geometry
<1>3. NumPages = Ppc * m
  BY <1>1, <1>2, Geometry DEF NumPages
<1>4. Group(NumPages) = m
  <2>1. Ppc * m \in Int /\ Ppc * m < Ppc * m + Ppc
    BY <1>2, Geometry
  <2> QED BY <1>2, <1>3, <2>1, DivIs, Geometry DEF Group
<1>5. (Ppc - 1) * m = Ppc * m - m
  BY <1>2, Geometry
<1>6. Slots = (Ppc - 1) * m
  BY <1>3, <1>4, <1>5 DEF Slots
<1> QED BY <1>1, <1>2, <1>3, <1>4, <1>6

LEMMA SlotsAre ==
    /\ Slots = NumBlocks * ((Ppb \div Ppc) * (Ppc - 1)) /\ Slots \in Nat
    /\ (Ppb \div Ppc) * (Ppc - 1) \in Nat
    /\ LogCapacity = Slots - ((Ppb \div Ppc) * (Ppc - 1))
<1>1. PICK G \in Nat \ {0} : G = Ppb \div Ppc
  BY Geometry
<1>2. Slots = (Ppc - 1) * (NumBlocks * G)
  BY <1>1, EndOfPages
<1>3. (Ppc - 1) * (NumBlocks * G) = NumBlocks * (G * (Ppc - 1))
  BY <1>1, Geometry
<1>4. PICK k \in Nat : k = G * (Ppc - 1)
  BY <1>1, Geometry
<1>5. (NumBlocks - 1) * k = NumBlocks * k - k /\ NumBlocks * k \in Nat
  BY <1>4, Geometry
<1> QED BY <1>1, <1>2, <1>3, <1>4, <1>5 DEF LogCapacity

\* The slots of a block.
LEMMA SlotsOfBlock ==
    ASSUME NEW b \in 0..NumBlocks - 1
    PROVE  /\ Slot(FirstOf(b)) = b * ((Ppb \div Ppc) * (Ppc - 1))
           /\ Slot(FirstOf(b)) \in Nat
<1>1. PICK G \in Nat \ {0} : G = Ppb \div Ppc /\ Ppb = Ppc * G
  BY Geometry
<1>2. Group(FirstOf(b)) = b * G
  BY <1>1, GroupsOfBlock DEF Blocks
<1>3. b * Ppb = (b * G) * Ppc
  BY <1>1, Geometry
<1>4. (b * G) * Ppc - b * G = (b * G) * (Ppc - 1)
  BY <1>1, Geometry
<1>5. (b * G) * (Ppc - 1) = b * (G * (Ppc - 1))
  BY <1>1, Geometry
<1>6. G * (Ppc - 1) \in Nat /\ b \in Nat
  BY <1>1, Geometry
<1>7. b * (G * (Ppc - 1)) \in Nat
  BY <1>6
<1> QED BY <1>1, <1>2, <1>3, <1>4, <1>5, <1>7 DEF Slot, FirstOf

LEMMA NextSlot ==
    ASSUME NEW p \in UserPages
    PROVE  /\ NextUpage(p) \in UserPages
           /\ \/ NextUpage(p) > p /\ Slot(NextUpage(p)) = Slot(p) + 1
              \/ NextUpage(p) = 0 /\ Slot(0) = 0 /\ Slot(p) = Slots - 1
<1>1. PICK g \in Int, r \in 0..Ppc - 2 : g = Group(p) /\ r = p % Ppc /\ p = g * Ppc + r
  BY UserPage, GroupOf
<1>2. p \in Int /\ NextUpage(p) \in UserPages
  BY UserPage, NextUserPage
<1>3. CASE (p + 2) % Ppc # 0
  <2>1. NextUpage(p) = p + 1 /\ Group(p + 1) = Group(p)
    BY <1>3, NextUserPage
  <2> QED BY <1>1, <1>2, <2>1 DEF Slot
<1>4. CASE (p + 2) % Ppc = 0
  <2>1. NextUpage(p) = p + 2 \/ (NextUpage(p) = 0 /\ p + 2 = NumPages)
    BY <1>4, NextUserPage
  <2>2. Group(p + 2) = g + 1
    <3>1. PICK e \in Int : e = Group(p + 2) /\ p + 2 = e * Ppc
      <4>1. p + 2 \in Int
        BY <1>2
      <4>2. PICK e \in Int, z \in Int : e = Group(p + 2) /\ z = (p + 2) % Ppc /\ p + 2 = e * Ppc + z
        BY <4>1, GroupOf
      <4>3. e * Ppc \in Int
        BY Geometry
      <4> QED BY <1>4, <4>2, <4>3
    <3>2. e * Ppc = g * Ppc + (r + 2) /\ 2 <= r + 2 /\ r + 2 <= Ppc
      BY <1>1, <3>1, Geometry
    <3>3. e >= g + 1
      <4>1. e <= g => Ppc * e <= Ppc * g
        BY Geometry, TimesOrder
      <4>2. Ppc * e \in Int /\ Ppc * g \in Int /\ e * Ppc = Ppc * e /\ g * Ppc = Ppc * g
        BY Geometry
      <4> QED BY <3>2, <4>1, <4>2
    <3>4. e <= g + 1
      <4>1. g + 2 <= e => Ppc * (g + 2) <= Ppc * e
        BY Geometry, TimesOrder
      <4>2. /\ Ppc * e \in Int /\ Ppc * g \in Int /\ e * Ppc = Ppc * e /\ g * Ppc = Ppc * g
            /\ Ppc * (g + 2) = Ppc * g + Ppc + Ppc
        BY Geometry
      <4> QED BY <3>2, <4>1, <4>2, Geometry
    <3> QED BY <3>1, <3>3, <3>4
  <2>3. CASE NextUpage(p) = p + 2
    BY <1>1, <1>2, <2>2, <2>3 DEF Slot
  <2>4. CASE NextUpage(p) = 0 /\ p + 2 = NumPages
    <3>1. Slots = p + 2 - (g + 1)
      <4>1. PICK n : n = NumPages
        OBVIOUS
      <4>2. n = p + 2 /\ Group(n) = g + 1 /\ Slots = n - Group(n)
        BY <2>2, <2>4, <4>1 DEF Slots
      <4>3. p \in Int /\ g \in Int
        BY <1>1, <1>2
      <4> QED BY <4>2, <4>3
    <3>2. Slot(0) = 0
      <4>1. 0 \in Int /\ Ppc * 0 <= 0 /\ 0 < Ppc * 0 + Ppc
        BY Geometry
      <4>2. 0 \div Ppc = 0
        BY <4>1, DivIs, Geometry
      <4> QED BY <4>2 DEF Slot, Group
    <3>3. Slot(p) = p - g /\ p \in Int
      BY <1>1, <1>2 DEF Slot
    <3>4. Slot(p) = Slots - 1
      <4>1. g \in Int
        BY <1>1
      <4> QED BY <3>1, <3>3, <4>1
    <3> QED BY <1>2, <2>4, <3>2, <3>4
  <2> QED BY <2>1, <2>3, <2>4
<1> QED BY <1>3, <1>4

LEMMA LastSlot ==
    ASSUME NEW p \in UserPages
    PROVE  Slot(p) \in 0..Slots - 1
<1>1. p < NumPages /\ p \in Int
  BY UserPage, Geometry DEF Pages
<1>2. PICK g \in Int, r \in 0..Ppc - 2 : g = Group(p) /\ r = p % Ppc /\ p = g * Ppc + r
  BY <1>1, UserPage, GroupOf
<1>3. PICK m \in Nat : NumPages = Ppc * m /\ Slots = (Ppc - 1) * m
  BY EndOfPages
<1>4. g + 1 <= m
  <2>1. m <= g => Ppc * m <= Ppc * g
    BY Geometry, TimesOrder
  <2>2. Ppc * m \in Int /\ Ppc * g \in Int /\ g * Ppc = Ppc * g
    BY Geometry
  <2> QED BY <1>1, <1>2, <1>3, <2>1, <2>2
<1>5. PICK c \in Nat : c = Ppc - 1 /\ r < c
  BY Geometry
<1>6. c * (g + 1) <= c * m
  BY <1>4, <1>5, TimesOrder
<1>7. c * (g + 1) = c * g + c /\ c * g \in Int /\ c * m \in Int /\ g * c = c * g
  BY <1>5
<1>8. Slot(p) = g * c + r /\ Slot(p) \in Nat
  BY <1>2, <1>5, SlotIs
<1> QED BY <1>3, <1>5, <1>6, <1>7, <1>8

\* What is known of two user pages.
LEMMA SlotsCompare ==
    ASSUME NEW p \in UserPages, NEW q \in UserPages
    PROVE  /\ p \in Int /\ q \in Int /\ Slots \in Nat
           /\ Slot(p) \in 0..Slots - 1 /\ Slot(q) \in 0..Slots - 1
           /\ p < q <=> Slot(p) < Slot(q)
           /\ p = q <=> Slot(p) = Slot(q)
<1>1. p \in Int /\ q \in Int
  BY UserPage
<1>2. Slot(p) \in 0..Slots - 1 /\ Slot(q) \in 0..Slots - 1 /\ Slots \in Nat
  BY LastSlot, SlotsAre
<1>3. p < q => Slot(p) < Slot(q)
  BY SlotOrder
<1>4. q < p => Slot(q) < Slot(p)
  BY SlotOrder
<1> QED BY <1>1, <1>2, <1>3, <1>4

LEMMA SpanIs ==
    ASSUME NEW a \in UserPages, NEW b \in UserPages
    PROVE  /\ Span(a, b) \in 0..Slots - 1 /\ Span(a, a) = 0
           /\ Span(a, b) = 0 => a = b
<1>1. /\ a \in Int /\ b \in Int /\ Slots \in Nat
      /\ Slot(a) \in 0..Slots - 1 /\ Slot(b) \in 0..Slots - 1
      /\ a < b <=> Slot(a) < Slot(b)
      /\ a = b <=> Slot(a) = Slot(b)
  BY SlotsCompare
<1>2. b < a => Slot(b) < Slot(a)
  BY SlotOrder
<1> QED BY <1>1, <1>2 DEF Span

\* A page of the log divides it.
LEMMA SpanSplit ==
    ASSUME NEW t \in UserPages, NEW h \in UserPages, NEW q \in UserPages,
           Within(t, h, q)
    PROVE  /\ Span(t, q) + Span(q, h) = Span(t, h)
           /\ Span(t, q) < Span(t, h)
<1>1. /\ t \in Int /\ h \in Int /\ Slots \in Nat
      /\ Slot(t) \in 0..Slots - 1 /\ Slot(h) \in 0..Slots - 1
      /\ t < h <=> Slot(t) < Slot(h)
  BY SlotsCompare
<1>2. /\ q \in Int /\ Slot(q) \in 0..Slots - 1
      /\ h < q <=> Slot(h) < Slot(q)
      /\ h = q <=> Slot(h) = Slot(q)
  BY SlotsCompare
<1>3. q < t <=> Slot(q) < Slot(t)
  BY SlotsCompare
<1>4. h # q
  BY <1>1, <1>2 DEF Within
<1> DEFINE Wrap(a, b) == IF b < a THEN Slots ELSE 0
<1>9. /\ Span(t, q) = Slot(q) - Slot(t) + Wrap(t, q)
      /\ Span(q, h) = Slot(h) - Slot(q) + Wrap(q, h)
      /\ Span(t, h) = Slot(h) - Slot(t) + Wrap(t, h)
  BY DEF Span
<1>10. PICK a \in 0..Slots - 1, b \in 0..Slots - 1, c \in 0..Slots - 1 :
         a = Slot(t) /\ b = Slot(q) /\ c = Slot(h) /\ Slots \in Nat
  BY <1>1, <1>2
<1>5. CASE t <= q /\ q < h
  <2>1. Wrap(t, q) = 0 /\ Wrap(q, h) = 0 /\ Wrap(t, h) = 0
    BY <1>1, <1>2, <1>5
  <2> HIDE DEF Wrap
  <2>2. Slot(q) < Slot(h)
    BY <1>5, SlotOrder
  <2>3. /\ Span(t, q) = b - a + 0 /\ Span(q, h) = c - b + 0
        /\ Span(t, h) = c - a + 0 /\ b < c
    BY <1>9, <1>10, <2>1, <2>2
  <2> QED BY <1>10, <2>3
<1>6. CASE h < t /\ t <= q
  <2>1. Wrap(t, q) = 0 /\ Wrap(q, h) = Slots /\ Wrap(t, h) = Slots
    BY <1>1, <1>2, <1>6
  <2> HIDE DEF Wrap
  <2>2. Slot(h) < Slot(t)
    BY <1>6, SlotOrder
  <2>3. /\ Span(t, q) = b - a + 0 /\ Span(q, h) = c - b + Slots
        /\ Span(t, h) = c - a + Slots /\ c < a
    BY <1>9, <1>10, <2>1, <2>2
  <2> QED BY <1>10, <2>3
<1>7. CASE q < h /\ h < t
  <2>1. Wrap(t, q) = Slots /\ Wrap(q, h) = 0 /\ Wrap(t, h) = Slots
    BY <1>1, <1>2, <1>7
  <2> HIDE DEF Wrap
  <2>2. Slot(q) < Slot(h)
    BY <1>7, SlotOrder
  <2>3. /\ Span(t, q) = b - a + Slots /\ Span(q, h) = c - b + 0
        /\ Span(t, h) = c - a + Slots /\ b < c
    BY <1>9, <1>10, <2>1, <2>2
  <2> QED BY <1>10, <2>3
<1>8. (t <= q /\ q < h) \/ (h < t /\ t <= q) \/ (q < h /\ h < t)
  BY <1>1, <1>2 DEF Within
<1> QED BY <1>5, <1>6, <1>7, <1>8

LEMMA SpanOfTails ==
    ASSUME NEW jj, JournalOK(jj)
    PROVE  /\ Span(jj.tailSync, jj.tail) + Span(jj.tail, jj.head)
                = Span(jj.tailSync, jj.head)
           /\ Span(jj.tail, jj.head) \in Nat /\ Span(jj.tailSync, jj.head) \in Nat
           /\ Span(jj.tail, jj.head) <= Span(jj.tailSync, jj.head)
<1>1. PICK h \in UserPages, s \in UserPages, t \in UserPages :
        h = jj.head /\ s = jj.tailSync /\ t = jj.tail
  BY DEF JournalOK, Journal
<1>2. t = h \/ Within(s, h, t)
  BY <1>1 DEF JournalOK, InOrder
<1>3. /\ Span(s, t) \in Nat /\ Span(t, h) \in Nat /\ Span(s, h) \in Nat
      /\ Span(h, h) = 0
  BY SpanIs
<1>4. Span(s, t) + Span(t, h) = Span(s, h)
  <2>1. CASE t = h
    BY <1>3, <2>1
  <2>2. CASE Within(s, h, t)
    BY <2>2, SpanSplit
  <2> QED BY <1>2, <2>1, <2>2
<1>5. Span(t, h) <= Span(s, h)
  BY <1>3, <1>4
<1> QED BY <1>1, <1>3, <1>4, <1>5

\* The tail moves on.
LEMMA SpanDrops ==
    ASSUME NEW t \in UserPages, NEW h \in UserPages, t # h
    PROVE  /\ NextUpage(t) \in UserPages
           /\ Span(NextUpage(t), h) = Span(t, h) - 1
           /\ Span(NextUpage(t), t) = Slots - 1
<1>1. PICK k \in UserPages : k = NextUpage(t)
  BY NextSlot
<1>2. \/ k > t /\ Slot(k) = Slot(t) + 1
      \/ k = 0 /\ Slot(0) = 0 /\ Slot(t) = Slots - 1
  BY <1>1, NextSlot
<1>3. /\ t \in Int /\ h \in Int /\ Slots \in Nat
      /\ Slot(t) \in 0..Slots - 1 /\ Slot(h) \in 0..Slots - 1
      /\ t < h <=> Slot(t) < Slot(h)
      /\ t = h <=> Slot(t) = Slot(h)
  BY SlotsCompare
<1>4. /\ k \in Int /\ Slot(k) \in 0..Slots - 1
      /\ h < k <=> Slot(h) < Slot(k)
      /\ h = k <=> Slot(h) = Slot(k)
  BY SlotsCompare
<1>5. t < k <=> Slot(t) < Slot(k)
  BY SlotsCompare
<1>6. t = k <=> Slot(t) = Slot(k)
  BY SlotsCompare
<1>7. h < t <=> Slot(h) < Slot(t)
  BY SlotsCompare
<1>8. CASE k > t /\ Slot(k) = Slot(t) + 1
  BY <1>1, <1>3, <1>4, <1>5, <1>7, <1>8 DEF Span
<1>9. CASE k = 0 /\ Slot(k) = 0 /\ Slot(t) = Slots - 1
  BY <1>1, <1>3, <1>4, <1>5, <1>6, <1>7, <1>9 DEF Span
<1> QED BY <1>2, <1>8, <1>9

\* The head moves on.
LEMMA SpanGrows ==
    ASSUME NEW t \in UserPages, NEW h \in UserPages, NextUpage(h) # t
    PROVE  Span(t, NextUpage(h)) = Span(t, h) + 1
<1>1. PICK k \in UserPages : k = NextUpage(h) /\ k # t
  BY NextSlot
<1>2. \/ k > h /\ Slot(k) = Slot(h) + 1
      \/ k = 0 /\ Slot(0) = 0 /\ Slot(h) = Slots - 1
  BY <1>1, NextSlot
<1>3. /\ t \in Int /\ h \in Int /\ Slots \in Nat
      /\ Slot(t) \in 0..Slots - 1 /\ Slot(h) \in 0..Slots - 1
      /\ h < t <=> Slot(h) < Slot(t)
  BY SlotsCompare
<1>4. /\ k \in Int /\ Slot(k) \in 0..Slots - 1
      /\ k < t <=> Slot(k) < Slot(t)
      /\ k = t <=> Slot(k) = Slot(t)
  BY SlotsCompare
<1>5. CASE k > h /\ Slot(k) = Slot(h) + 1
  BY <1>1, <1>3, <1>4, <1>5 DEF Span
<1>6. CASE k = 0 /\ Slot(k) = 0 /\ Slot(h) = Slots - 1
  BY <1>1, <1>3, <1>4, <1>6 DEF Span
<1> QED BY <1>1, <1>2, <1>5, <1>6

\* Seen from the next tail, the pages of the log are one page nearer.
LEMMA SpanNearer ==
    ASSUME NEW t \in UserPages, NEW h \in UserPages, t # h,
           NEW p \in UserPages, Within(NextUpage(t), h, p)
    PROVE  p # t /\ Span(t, p) = Span(NextUpage(t), p) + 1
<1>1. PICK k \in UserPages : k = NextUpage(t)
  BY NextSlot
<1>2. Span(k, p) < Span(k, h) /\ Span(k, h) \in 0..Slots - 1 /\ Span(k, p) \in 0..Slots - 1
  BY <1>1, SpanSplit, SpanIs
<1>3. Span(k, t) = Slots - 1 /\ Slots \in Nat
  BY <1>1, SpanDrops, SlotsAre
<1>4. p # t
  BY <1>2, <1>3
<1>5. Span(k, p) = Span(t, p) - 1
  BY <1>1, <1>4, SpanDrops
<1>6. Span(t, p) \in Int
  BY SpanIs
<1> QED BY <1>1, <1>2, <1>4, <1>5, <1>6

\* When the head would run into the block of the last-synced tail, the log
\* takes as many pages as all the other blocks have.
LEMMA FullSpan ==
    ASSUME NEW h \in UserPages, NEW s \in UserPages,
           Block(NextUpage(h)) = Block(s), Block(NextUpage(h)) # Block(h)
    PROVE  Span(s, h) >= LogCapacity
<1>1. PICK k \in UserPages : k = NextUpage(h)
  BY NextSlot
<1>2. PICK b \in 0..NumBlocks - 1 : b = Block(s)
  BY UserPage, BlockOf
<1>3. PICK c \in Nat : c = (Ppb \div Ppc) * (Ppc - 1) /\ LogCapacity = Slots - c
  BY SlotsAre
<1>4. k = FirstOf(b)
  <2>1. k % Ppb = 0
    <3>1. \/ k = h + 1 /\ Block(h + 1) = Block(h)
          \/ k = h + 2 /\ Block(h + 2) = Block(h)
          \/ k = h + 2 /\ (h + 2) % Ppb = 0
          \/ k = 0
      BY <1>1, NextUserPage
    <3>2. k = 0 => k % Ppb = 0
      <4>1. 0 \in 0..NumBlocks - 1 /\ FirstOf(0) = 0
        BY Geometry DEF FirstOf
      <4>2. FirstOf(0) % Ppb = 0
        BY <4>1, FirstOfBlock
      <4> QED BY <4>1, <4>2
    <3> QED BY <1>1, <3>1, <3>2
  <2>2. k \in Pages
    BY UserPage
  <2>3. k = FirstOf(Block(k))
    BY <2>1, <2>2, Aligned
  <2> QED BY <1>1, <1>2, <2>3
<1>5. Slot(k) = b * c /\ b * c \in Nat
  BY <1>2, <1>3, <1>4, SlotsOfBlock
<1>6. Slot(s) <= b * c + c - 1
  <2>1. CASE b + 1 <= NumBlocks - 1
    <3>1. PICK e \in 0..NumBlocks - 1 : e = b + 1
      BY <2>1, <1>2, Geometry
    <3>2. FirstOf(e) \in UserPages
      BY <3>1, FirstOrder
    <3>3. s < FirstOf(e)
      <4>1. s < b * Ppb + Ppb
        BY <1>2, UserPage, BlockOf
      <4>2. e * Ppb = b * Ppb + Ppb
        BY <3>1, Geometry
      <4> QED BY <4>1, <4>2 DEF FirstOf
    <3>4. Slot(s) < Slot(FirstOf(e))
      BY <3>2, <3>3, SlotOrder
    <3>5. Slot(FirstOf(e)) = e * c
      BY <1>3, <3>1, SlotsOfBlock
    <3>6. e * c = b * c + c
      BY <1>2, <1>3, <3>1
    <3>7. Slot(s) \in Nat
      BY SlotIs
    <3> QED BY <1>3, <1>5, <3>4, <3>5, <3>6, <3>7
  <2>2. CASE b = NumBlocks - 1
    <3>1. Slots = NumBlocks * c
      BY <1>3, SlotsAre
    <3>2. NumBlocks * c = b * c + c
      BY <2>2, <1>3, Geometry
    <3>3. Slot(s) <= Slots - 1
      BY LastSlot, SlotsAre
    <3> QED BY <3>1, <3>2, <3>3
  <2> QED BY <1>2, <2>1, <2>2, Geometry
<1>7. k <= s
  <2>1. b * Ppb <= s
    BY <1>2, UserPage, BlockOf
  <2> QED BY <1>4, <2>1 DEF FirstOf
<1>8. /\ s \in Int /\ h \in Int /\ k \in Int /\ Slots \in Nat
      /\ Slot(s) \in 0..Slots - 1 /\ Slot(h) \in 0..Slots - 1
  BY SlotsCompare
<1>9. \/ k > h /\ Slot(k) = Slot(h) + 1
      \/ k = 0 /\ Slot(k) = 0 /\ Slot(h) = Slots - 1
  BY <1>1, NextSlot
<1>10. CASE k > h /\ Slot(k) = Slot(h) + 1
  <2>1. h < s
    BY <1>7, <1>8, <1>10
  <2>2. Span(s, h) = Slot(h) - Slot(s) + Slots
    BY <2>1 DEF Span
  <2>3. PICK z \in Nat : z = b * c
    BY <1>5
  <2>4. Slot(h) = z - 1 /\ Slot(s) <= z + c - 1
    BY <1>5, <1>6, <1>8, <1>10, <2>3
  <2> QED BY <1>3, <1>8, <2>2, <2>4
<1>11. CASE k = 0 /\ Slot(k) = 0 /\ Slot(h) = Slots - 1
  <2>1. PICK z \in Nat : z = b * c /\ z = 0
    BY <1>5, <1>11
  <2>2. Slot(s) <= c - 1
    BY <1>3, <1>6, <1>8, <2>1
  <2>3. ~(h < s)
    <3>1. h < s => Slot(h) < Slot(s)
      BY SlotOrder
    <3> QED BY <1>8, <1>11, <3>1
  <2>4. Span(s, h) = Slot(h) - Slot(s) + 0
    BY <2>3 DEF Span
  <2> QED BY <1>3, <1>8, <1>11, <2>2, <2>4
<1> QED BY <1>9, <1>10, <1>11

\* The capacity of the map is at most that of a chip without bad blocks.
LEMMA CapacityIs ==
    ASSUME NEW jj \in Journal, jj.bbCurrent >= 0
    PROVE  MapCapacity(jj) \in Int /\ MapCapacity(jj) <= Most
<1>1. PICK c \in Nat : c = (Ppb \div Ppc) * (Ppc - 1) /\ LogCapacity = (NumBlocks - 1) * c
  BY SlotsAre DEF LogCapacity
<1>2. PICK bad \in Nat : JournalCapacity(jj) = (NumBlocks - bad - 1) * (Ppb \div Ppc) * (Ppc - 1)
  <2>1. PICK bad : bad = IF jj.bbLast > jj.bbCurrent THEN jj.bbLast ELSE jj.bbCurrent
    OBVIOUS
  <2>2. bad \in Nat
    BY <2>1 DEF Journal
  <2>3. JournalCapacity(jj) = (NumBlocks - bad - 1) * (Ppb \div Ppc) * (Ppc - 1)
    BY <2>1 DEF JournalCapacity
  <2> QED BY <2>2, <2>3
<1>3. PICK cap \in Int : cap = JournalCapacity(jj) /\ cap <= LogCapacity
  <2>1. (NumBlocks - bad - 1) * (Ppb \div Ppc) * (Ppc - 1) = (NumBlocks - bad - 1) * c
    BY <1>1, <1>2, Geometry
  <2>2. c * (NumBlocks - bad - 1) <= c * (NumBlocks - 1)
    BY <1>1, <1>2, Geometry, TimesOrder
  <2>3. /\ (NumBlocks - bad - 1) * c = c * (NumBlocks - bad - 1)
        /\ (NumBlocks - 1) * c = c * (NumBlocks - 1)
        /\ (NumBlocks - bad - 1) * c \in Int
    BY <1>1, <1>2, Geometry
  <2> QED BY <1>1, <1>2, <2>1, <2>2, <2>3
<1>4. PICK k \in Nat \ {0} : k = Rate
  BY RateIs
<1>5. PICK full \in Nat : full = LogCapacity
  BY CapacityType
<1>6. PICK q \in Int, r \in 0..k - 1 : q = cap \div k /\ cap = k * q + r
  <2>1. cap = (k * (cap \div k)) + (cap % k) /\ cap % k \in 0..k - 1 /\ cap \div k \in Int
    BY DivMod
  <2> QED BY <2>1
<1>7. PICK Q \in Int, R \in 0..k - 1 : Q = full \div k /\ full = k * Q + R
  <2>1. full = (k * (full \div k)) + (full % k) /\ full % k \in 0..k - 1 /\ full \div k \in Int
    BY DivMod
  <2> QED BY <2>1
<1>8. Q - q <= full - cap
  <2> SUFFICES ASSUME Q >= q + (full - cap) + 1 PROVE FALSE
    BY <1>6, <1>7
  <2>1. PICK d \in Nat : d = full - cap
    BY <1>3, <1>5
  <2>2. k * (q + d + 1) <= k * Q
    BY <1>6, <1>7, <2>1, TimesOrder
  <2>3. k * (q + d + 1) = k * q + k * d + k
    BY <1>6, <2>1
  <2>4. 1 * d <= k * d
    <3>1. d * 1 <= d * k
      BY <2>1, TimesOrder
    <3> QED BY <2>1, <3>1
  <2>5. k * q \in Int /\ k * d \in Int /\ k * Q \in Int
    BY <1>6, <1>7, <2>1
  <2> QED BY <1>6, <1>7, <2>1, <2>2, <2>3, <2>4, <2>5
<1>9. PICK m \in Nat : m = MaxRetries * Ppb
  BY CapacityType
<1>10. Most \in Nat /\ Most = IF Q + m >= full THEN 0 ELSE full - (Q + m)
  BY <1>4, <1>5, <1>7, <1>9, CapacityType DEF Most, Reserved
<1>11. MapCapacity(jj) = IF q + m >= cap THEN 0 ELSE cap - (q + m)
  BY <1>3, <1>4, <1>6, <1>9 DEF MapCapacity, Rate
<1>12. q \in Int /\ Q \in Int /\ m \in Int /\ cap \in Int /\ full \in Int
  BY <1>3, <1>5, <1>6, <1>7, <1>9
<1>13. CASE q + m >= cap
  BY <1>10, <1>11, <1>13
<1>14. CASE ~(q + m >= cap)
  <2>1. MapCapacity(jj) = cap - (q + m)
    BY <1>11, <1>14
  <2>2. ~(Q + m >= full)
    BY <1>8, <1>12, <1>14
  <2>3. Most = full - (Q + m)
    BY <1>10, <2>2
  <2> QED BY <1>8, <1>12, <2>1, <2>3
<1> QED BY <1>13, <1>14

LEMMA SizeIs ==
    ASSUME NEW jj \in Journal
    PROVE  JournalSize(jj) = Span(jj.tailSync, jj.head)
<1>1. PICK h \in Int, s \in Int : h = jj.head /\ s = jj.tailSync
  BY UserPage DEF Journal
<1>2. Group(h) \in Int /\ Group(s) \in Int
  BY GroupOf
<1>3. PICK n \in Int, e \in Int : n = NumPages /\ e = Group(NumPages)
  BY EndOfPages, Geometry
<1>4. CASE h < s
  BY <1>1, <1>2, <1>3, <1>4 DEF JournalSize, Span, Slot, Slots
<1>5. CASE ~(h < s)
  BY <1>1, <1>2, <1>3, <1>5 DEF JournalSize, Span, Slot, Slots
<1> QED BY <1>4, <1>5

\* One distance from the tail, one page.
LEMMA SpanApart ==
    ASSUME NEW t \in UserPages, NEW p \in UserPages, NEW q \in UserPages,
           Span(t, p) = Span(t, q)
    PROVE  p = q
<1>1. PICK n \in Nat, a \in Nat, b \in Nat, c \in Nat :
        /\ n = Slots /\ a = Slot(t) /\ b = Slot(p) /\ c = Slot(q)
        /\ a < n /\ b < n /\ c < n
  <2>1. Slots \in Nat /\ Slot(t) \in 0..Slots - 1 /\ Slot(p) \in 0..Slots - 1
    BY SlotsCompare
  <2>2. Slot(q) \in 0..Slots - 1
    BY SlotsCompare
  <2> QED BY <2>1, <2>2
<1>2. p < t <=> b < a
  BY <1>1, SlotsCompare
<1>3. q < t <=> c < a
  BY <1>1, SlotsCompare
<1>4. p = q <=> b = c
  BY <1>1, SlotsCompare
<1>5. PICK x \in Int : x = Span(t, p) /\ x = b - a + IF b < a THEN n ELSE 0
  BY <1>1, <1>2 DEF Span
<1>6. PICK y \in Int : y = Span(t, q) /\ y = c - a + IF c < a THEN n ELSE 0
  BY <1>1, <1>3 DEF Span
<1>7. x = y
  BY <1>5, <1>6
<1>8. b = c
  BY <1>1, <1>5, <1>6, <1>7
<1> QED BY <1>4, <1>8

-----------------------------------------------------------------------------
(* The pages in the log, and how far from the tail each sector's is.       *)
Held(jj) == Span(jj.tail, jj.head)

Spot(n, jj) ==
    [s \in Sectors |-> IF TracePath(n, jj, s).page = None THEN -1
                       ELSE Span(jj.tail, TracePath(n, jj, s).page)]

(* The rounds of garbage collection that are behind a worker's write or    *)
(* trim, while it is not in the log.                                       *)
Done(then) == IF then.at = "gc" THEN Rate - then.left ELSE 0

Credit(k, r) ==
    IF k.at = "serve" THEN IF r.op \in {"write", "trim"} THEN Rate ELSE 0
    ELSE IF k.at \in Appending
    THEN IF k.then = Idle THEN Rate
         ELSE IF k.then.at = "gc" THEN Done(k.then) - 1 ELSE 0
    ELSE Done(k)

(* Up to the last-synced tail there are not many more pages than up to the *)
(* tail: at the last checkpoint it was the tail.                           *)
Spare(n, jj, c) ==
    /\ jj.bbCurrent >= 0 /\ jj.count <= Most
    /\ Span(jj.tailSync, jj.head) <= Reach + 1 + (jj.head % Ppc)
    /\ Count(Contents(n, jj)) = 0 => Held(jj) <= 1
    /\ c \in 0..Rate /\ Paced(Spot(n, jj), Held(jj), c)

Due(jj, k, r) ==
    k.at \in Appending => /\ k.then # Idle => Credit(k, r) < Rate
                          /\ k.source = Blankness => jj.head = jj.tail

Roomed(n, jj, k, r) == Spare(n, jj, Credit(k, r)) /\ Due(jj, k, r)

(* A map without capacity stays empty.                                     *)
Barren == /\ j.count = 0 /\ j.dirty = FALSE /\ j.bbCurrent >= 0
          /\ \A w \in Workers : proc[w].at \notin Appending

Roomy ==
    IF Most = 0 THEN Barren
    ELSE /\ Spare(nand, j, 0)
         /\ \A w \in Workers : proc[w] # Idle => Roomed(nand, j, proc[w], request[w])

LEMMA HeldType ==
    ASSUME NEW jj \in Journal
    PROVE  /\ Held(jj) \in Nat
           /\ jj.head = jj.tail <=> Held(jj) = 0
           /\ Span(jj.tailSync, jj.head) \in Nat
<1>1. PICK t \in UserPages, h \in UserPages, s \in UserPages :
        t = jj.tail /\ h = jj.head /\ s = jj.tailSync
  BY DEF Journal
<1>2. Span(t, h) \in Nat /\ Span(t, t) = 0 /\ (Span(t, h) = 0 => t = h)
  BY SpanIs
<1>3. Span(s, h) \in Nat
  BY SpanIs
<1> QED BY <1>1, <1>2, <1>3 DEF Held

LEMMA SpotIs ==
    ASSUME NEW n \in Flash, NEW jj \in Journal, TreeOK(n, jj)
    PROVE  /\ Apart(Spot(n, jj), Held(jj))
           /\ \A s \in Sectors :
                /\ TracePath(n, jj, s).page = None => Spot(n, jj)[s] = -1
                /\ TracePath(n, jj, s).page # None =>
                     /\ Spot(n, jj)[s] \in Nat
                     /\ Spot(n, jj)[s] = Span(jj.tail, TracePath(n, jj, s).page)
<1>1. PICK t \in UserPages, h \in UserPages : t = jj.tail /\ h = jj.head
  BY DEF Journal
<1>2. PICK f : f = Spot(n, jj)
  OBVIOUS
<1>3. PICK L \in Nat : L = Held(jj) /\ L = Span(t, h)
  BY <1>1, HeldType DEF Held
<1>4. ASSUME NEW s \in Sectors
      PROVE  /\ TracePath(n, jj, s).page = None => f[s] = -1
             /\ TracePath(n, jj, s).page # None =>
                  /\ f[s] \in Nat /\ f[s] < L
                  /\ f[s] = Span(t, TracePath(n, jj, s).page)
                  /\ ReadMeta(n, jj, TracePath(n, jj, s).page).id = s
  <2>1. PICK p \in UserPages \cup {None} : p = TracePath(n, jj, s).page
    BY SectorPage
  <2>2. f[s] = IF p = None THEN -1 ELSE Span(t, p)
    BY <1>1, <1>2, <2>1 DEF Spot
  <2>3. ASSUME p # None
        PROVE  p \in UserPages /\ Within(t, h, p) /\ ReadMeta(n, jj, p).id = s
    BY <1>1, <2>1, <2>3, SectorPage
  <2>4. ASSUME p # None PROVE Span(t, p) \in Nat /\ Span(t, p) < L
    <3>1. p \in UserPages /\ Within(t, h, p)
      BY <2>3, <2>4
    <3>2. Span(t, p) < Span(t, h) /\ Span(t, p) \in Nat
      BY <3>1, SpanSplit, SpanIs
    <3> QED BY <1>3, <3>2
  <2> QED BY <2>1, <2>2, <2>3, <2>4
<1>5. f \in [Sectors -> Int]
  <2>1. DOMAIN f = Sectors /\ f = [s \in Sectors |-> f[s]]
    BY <1>2 DEF Spot
  <2>2. \A s \in Sectors : f[s] \in Int
    BY <1>4
  <2> QED BY <2>1, <2>2
<1>6. \A s \in Sectors : f[s] < L
  <2> SUFFICES ASSUME NEW s \in Sectors PROVE f[s] < L
    OBVIOUS
  <2>1. CASE TracePath(n, jj, s).page = None
    BY <1>3, <1>4, <2>1
  <2>2. CASE TracePath(n, jj, s).page # None
    BY <1>4, <2>2
  <2> QED BY <2>1, <2>2
<1>7. ASSUME NEW s \in Sectors, NEW u \in Sectors, f[s] >= 0, f[s] = f[u]
      PROVE  s = u
  <2>1. PICK p \in UserPages \cup {None} : p = TracePath(n, jj, s).page
    BY SectorPage
  <2>2. PICK q \in UserPages \cup {None} : q = TracePath(n, jj, u).page
    BY SectorPage
  <2>3. p # None /\ q # None
    BY <1>4, <1>7, <2>1, <2>2
  <2>4. p \in UserPages /\ q \in UserPages
    BY <2>3
  <2>5. Span(t, p) = Span(t, q)
    BY <1>4, <1>7, <2>1, <2>2, <2>3
  <2>6. p = q
    BY <2>4, <2>5, SpanApart
  <2>7. ReadMeta(n, jj, p).id = s /\ ReadMeta(n, jj, q).id = u
    BY <1>4, <2>1, <2>2, <2>3
  <2> QED BY <2>6, <2>7
<1>8. Apart(f, L)
  BY <1>5, <1>6, <1>7 DEF Apart
<1> QED BY <1>1, <1>2, <1>3, <1>4, <1>8

\* A sector with a page holds something.
LEMMA EarlyCounted ==
    ASSUME NEW n \in Flash, NEW jj \in Journal, TreeOK(n, jj), NEW x
    PROVE  Early(Spot(n, jj), x) <= Count(Contents(n, jj))
<1> DEFINE A == {s \in Sectors : Spot(n, jj)[s] \in 0..x - 1}
           B == {s \in Sectors : Contents(n, jj)[s] # Blank}
<1>1. A \subseteq B
  <2> SUFFICES ASSUME NEW s \in Sectors, Spot(n, jj)[s] \in 0..x - 1
               PROVE  Contents(n, jj)[s] # Blank
    OBVIOUS
  <2>1. TracePath(n, jj, s).page # None
    <3>1. Spot(n, jj)[s] # -1
      OBVIOUS
    <3> QED BY <3>1, SpotIs
  <2> QED BY <2>1, ContentsType
<1>2. IsFiniteSet(B)
  BY SectorAssumption, FS_Subset
<1>3. Cardinality(A) <= Cardinality(B)
  <2> HIDE DEF A, B
  <2> QED BY <1>1, <1>2, FS_Subset
<1> QED BY <1>3 DEF Early, Count

-----------------------------------------------------------------------------
(* What keeps the log spare.                                               *)

\* As well paced with less to collect.
LEMMA SpareLess ==
    ASSUME NEW n, NEW jj \in Journal, NEW c, Spare(n, jj, c),
           NEW d \in 0..Rate, d <= c
    PROVE  Spare(n, jj, d)
<1>1. c \in 0..Rate /\ Paced(Spot(n, jj), Held(jj), c) /\ Held(jj) \in Nat
  BY HeldType DEF Spare
<1>2. PICK L \in Nat : L = Held(jj)
  BY <1>1
<1> DEFINE f == Spot(n, jj)
<1> HIDE DEF f
<1>3. PICK a \in Int, b \in Int : a = c /\ b = d /\ b <= a
  BY <1>1, RateIs
<1>4. Paced(f, L, a)
  BY <1>1, <1>2, <1>3 DEF f
<1>5. Paced(f, L, b)
  <2>1. CASE a \in Nat
    BY <1>3, <1>4, <2>1, PacedLess
  <2> QED BY <1>1, <1>3, <2>1, RateIs
<1> QED BY <1>2, <1>3, <1>5 DEF Spare, f

\* The same pages in the same log.
LEMMA SpareSame ==
    ASSUME NEW n, NEW jj \in Journal, NEW c, Spare(n, jj, c),
           NEW n2, NEW k \in Journal,
           k.head = jj.head, k.tail = jj.tail, k.tailSync = jj.tailSync,
           k.bbCurrent >= 0, k.count <= Most,
           Count(Contents(n2, k)) = Count(Contents(n, jj)),
           \A s \in Sectors : TracePath(n2, k, s).page = TracePath(n, jj, s).page
    PROVE  Spare(n2, k, c)
<1>1. Held(k) = Held(jj)
  BY DEF Held
<1>2. Spot(n2, k) = Spot(n, jj)
  BY DEF Spot
<1> QED BY <1>1, <1>2 DEF Spare

\* A log with a page at most, and no sector's.
LEMMA SpareEmpty ==
    ASSUME Most > 0, NEW n, NEW jj \in Journal,
           jj.bbCurrent >= 0, jj.count <= Most,
           Span(jj.tailSync, jj.head) <= Reach + 1 + (jj.head % Ppc),
           Held(jj) <= 1, \A s \in Sectors : TracePath(n, jj, s).page = None,
           NEW d \in 0..Rate
    PROVE  Spare(n, jj, d)
<1>1. PICK L \in 0..1 : L = Held(jj)
  <2>1. Held(jj) \in Nat
    BY HeldType
  <2> QED BY <2>1
<1> DEFINE f == Spot(n, jj)
<1>2. \A s \in Sectors : f[s] \notin Nat
  BY DEF Spot
<1> HIDE DEF f
<1>3. Paced(f, L, Rate)
  BY <1>1, <1>2, GarbageIsPaced
<1>4. Spare(n, jj, Rate)
  <2>1. Rate \in 0..Rate
    BY RateIs
  <2> QED BY <1>1, <1>3, <2>1 DEF Spare, f
<1> QED BY <1>4, SpareLess

\* The reserve is more than a group: it is, unless a block has but one and
\* one block is tried.
Ample == MaxRetries > 1 \/ Ppb > Ppc

LEMMA AmpleReserve ==
    ASSUME Ample
    PROVE  MaxRetries * Ppb >= Ppc + 3
<1>1. PICK a \in Nat : a = Ppb \div Ppc /\ Ppb = Ppc * a /\ a >= 1
  BY Geometry
<1>2. PICK k \in Nat : k = MaxRetries /\ k >= 1
  BY GeometryAssumption
<1>3. PICK m \in Int : m = k * a
  BY <1>1, <1>2
<1>4. m >= 2
  <2>1. CASE k >= 2
    <3>1. k * 1 <= k * a
      BY <1>1, <1>2, TimesOrder
    <3> QED BY <1>2, <1>3, <2>1, <3>1
  <2>2. CASE k = 1
    <3>1. Ppc * a > Ppc
      BY <1>1, <1>2, <2>2 DEF Ample
    <3>2. a >= 2
      BY <1>1, <3>1, Geometry
    <3> QED BY <1>3, <2>2, <3>2
  <2> QED BY <1>2, <2>1, <2>2
<1>5. k * Ppb = Ppc * m
  <2>1. k * (Ppc * a) = Ppc * (k * a)
    BY <1>1, <1>2, Geometry
  <2> QED BY <1>1, <1>3, <2>1
<1>6. Ppc * 2 <= Ppc * m
  BY <1>3, <1>4, Geometry, TimesOrder
<1>7. Ppc >= 3 /\ Ppc \in Nat /\ Ppc * m \in Int
  BY <1>3, GeometryAssumption
<1> QED BY <1>2, <1>5, <1>6, <1>7

\* prepare_head does not meet the last-synced tail.
LEMMA NeverFull ==
    ASSUME Ample, NEW n, NEW jj \in Journal, NEW c, Spare(n, jj, c),
           Block(NextUpage(jj.head)) = Block(jj.tailSync)
    PROVE  Block(NextUpage(jj.head)) = Block(jj.head)
<1> SUFFICES ASSUME Block(NextUpage(jj.head)) # Block(jj.head) PROVE FALSE
  OBVIOUS
<1>1. PICK h \in UserPages, s \in UserPages : h = jj.head /\ s = jj.tailSync
  BY DEF Journal
<1>2. PICK x \in Nat : x = Span(s, h)
  BY SpanIs
<1>3. x >= LogCapacity
  BY <1>1, <1>2, FullSpan
<1>4. x <= Reach + 1 + (h % Ppc)
  BY <1>1, <1>2 DEF Spare
<1>5. h % Ppc \in 0..Ppc - 2
  BY UserPage
<1>6. PICK m \in Nat, cap \in Nat : m = MaxRetries * Ppb /\ cap = LogCapacity
                                    /\ Reach = cap - m + 3
  BY CapacityType DEF Reach
<1>7. m >= Ppc + 3
  BY <1>6, AmpleReserve
<1> QED BY <1>2, <1>3, <1>4, <1>5, <1>6, <1>7, Geometry

\* A sector that has a page is counted.
LEMMA SomePage ==
    ASSUME NEW n \in Flash, NEW jj \in Journal, TreeOK(n, jj),
           NEW s \in Sectors, TracePath(n, jj, s).page # None
    PROVE  Count(Contents(n, jj)) # 0
<1> SUFFICES ASSUME Count(Contents(n, jj)) = 0 PROVE FALSE
  OBVIOUS
<1>1. Contents(n, jj) = [t \in Sectors |-> Blank]
  BY NoneCounted
<1>2. Contents(n, jj)[s] = Blank
  BY <1>1
<1> QED BY <1>2, ContentsType

-----------------------------------------------------------------------------
(* Where the pages of the sectors are.                                     *)

\* A page that is not at the tail is one page nearer when the tail moves on.
LEMMA SpotDrops ==
    ASSUME NEW n \in Flash, NEW jj \in Journal, TreeOK(n, jj), jj.head # jj.tail,
           NEW n2, NEW k \in Journal, k.tail = NextUpage(jj.tail),
           NEW s \in Sectors, TracePath(n, jj, s).page # jj.tail,
           TracePath(n2, k, s).page \in {None, TracePath(n, jj, s).page}
    PROVE  Spot(n2, k)[s] \in Nat => Spot(n, jj)[s] = Spot(n2, k)[s] + 1
<1>1. PICK t \in UserPages, h \in UserPages : t = jj.tail /\ h = jj.head
  BY DEF Journal
<1>2. PICK p \in UserPages \cup {None} : p = TracePath(n, jj, s).page
  BY SectorPage
<1>3. CASE TracePath(n2, k, s).page = None
  <2>1. Spot(n2, k)[s] = -1
    BY <1>3 DEF Spot
  <2> QED BY <2>1
<1>4. CASE TracePath(n2, k, s).page = p /\ p # None
  <2>1. p \in UserPages /\ Within(t, h, p) /\ p # t
    BY <1>1, <1>2, <1>4, SectorPage
  <2>2. Within(NextUpage(t), h, p)
    BY <2>1, NextWithin
  <2>3. Span(t, p) = Span(NextUpage(t), p) + 1
    BY <1>1, <2>1, <2>2, SpanNearer
  <2>4. Spot(n2, k)[s] = Span(NextUpage(t), p)
    BY <1>1, <1>4 DEF Spot
  <2>5. Spot(n, jj)[s] = Span(t, p)
    BY <1>1, <1>2, <1>4 DEF Spot
  <2> QED BY <2>3, <2>4, <2>5
<1> QED BY <1>2, <1>3, <1>4

\* The tail's page is of no sector, and is dropped.
LEMMA SpareDrops ==
    ASSUME NEW n \in Flash, NEW jj, JournalOK(jj), TreeOK(n, jj),
           NEW c \in Nat, c < Rate, Spare(n, jj, c), jj.head # jj.tail,
           \A s \in Sectors : TracePath(n, jj, s).page # jj.tail,
           NEW k, k = Dequeue(jj), TreeOK(n, k),
           \A s \in Sectors : TracePath(n, k, s).page = TracePath(n, jj, s).page
    PROVE  Spare(n, k, c + 1)
<1>1. /\ jj \in Journal /\ k \in Journal /\ JournalOK(k)
      /\ k.head = jj.head /\ k.count = jj.count /\ k.bbCurrent = jj.bbCurrent
  BY DequeueType DEF JournalOK
<1>2. /\ k.tail = NextUpage(jj.tail)
      /\ k.tailSync = IF jj.dirty THEN jj.tailSync ELSE k.tail
  BY <1>1 DEF Dequeue, Journal
<1>3. PICK L \in Nat : L = Held(jj) /\ L > 0
  BY <1>1, HeldType
<1>4. Held(k) = L - 1
  <2>1. PICK t \in UserPages, h \in UserPages : t = jj.tail /\ h = jj.head
    BY <1>1 DEF Journal
  <2>2. Span(NextUpage(t), h) = Span(t, h) - 1
    BY <2>1, SpanDrops
  <2> QED BY <1>1, <1>2, <1>3, <2>1, <2>2 DEF Held
<1>5. Paced(Spot(n, k), L - 1, c + 1)
  <2>1. \A s \in Sectors : Spot(n, k)[s] \in Nat => Spot(n, jj)[s] = Spot(n, k)[s] + 1
    BY <1>1, <1>2, SpotDrops
  <2>2. Paced(Spot(n, jj), L, c)
    BY <1>3 DEF Spare
  <2> DEFINE f == Spot(n, jj)
             g == Spot(n, k)
  <2> HIDE DEF f, g
  <2>3. \A s \in Sectors : g[s] \in Nat => f[s] = g[s] + 1
    BY <2>1 DEF f, g
  <2>4. Paced(f, L, c)
    BY <2>2 DEF f
  <2>5. Paced(g, L - 1, c + 1)
    BY <1>3, <2>3, <2>4, DropIsPaced
  <2> QED BY <2>5 DEF g
<1>6. Count(Contents(n, k)) = Count(Contents(n, jj))
  BY <1>1, SamePages
<1>7. Span(k.tailSync, k.head) <= Reach + 1 + (k.head % Ppc)
  <2>1. CASE jj.dirty
    BY <1>1, <1>2, <2>1 DEF Spare
  <2>2. CASE ~jj.dirty
    <3>1. Span(k.tailSync, k.head) = L - 1
      BY <1>2, <1>4, <2>2 DEF Held
    <3>2. L - 1 \in Nat /\ c + 1 \in Nat
      BY <1>3
    <3>3. L - 1 <= Reach
      BY <1>5, <3>2, PacedReach
    <3>4. k.head % Ppc \in 0..Ppc - 2
      BY <1>1, UserPage DEF Journal
    <3> QED BY <1>3, <3>1, <3>3, <3>4, CapacityType, Geometry
  <2> QED BY <2>1, <2>2
<1>8. c + 1 \in 0..Rate
  BY RateIs
<1>9. Count(Contents(n, jj)) = 0 => L <= 1
  BY <1>3 DEF Spare
<1> QED BY <1>1, <1>3, <1>4, <1>5, <1>6, <1>7, <1>8, <1>9 DEF Spare

\* A page with metadata that graft has landed.
LEMMA GraftedPages ==
    ASSUME NEW n \in Flash, NEW jj \in Journal, TreeOK(n, jj),
           NEW n2 \in Flash, NEW l \in Journal, NEW k, Lands(n, jj, n2, l, k),
           NEW gone, Grafts(n, jj, k.meta, gone), gone # k.meta.id,
           Wanted(n, k.source).kind = "user", Wanted(n, k.source).data \in Data,
           k.source # Blankness
    PROVE  /\ k.meta.id \in Sectors /\ TracePath(n2, l, k.meta.id).page = jj.head
           /\ \A s \in Sectors : s # k.meta.id =>
                TracePath(n2, l, s).page \in {None, TracePath(n, jj, s).page}
<1>1. PICK h \in UserPages : h = jj.head
  BY DEF Journal
<1>2. NewRoot(n2, l, h, k.meta) /\ Keeps(n, jj, n2, l)
  BY <1>1 DEF Lands, NewRoot
<1>3. /\ TracePath(n2, l, k.meta.id).page = h
      /\ \A t \in Sectors : t # k.meta.id =>
           /\ t = gone => TracePath(n2, l, t).page = None
           /\ t # gone => TracePath(n2, l, t).page = TracePath(n, jj, t).page
  BY <1>2, AppendTree
<1>4. k.meta.id \in Sectors
  BY DEF Grafts
<1> QED BY <1>1, <1>3, <1>4

\* What a landed page does to the others.
LEMMA LandedPages ==
    ASSUME NEW n \in Flash, NEW jj \in Journal, TreeOK(n, jj),
           NEW n2 \in Flash, NEW l \in Journal, NEW k, NEW r \in Requests,
           Lands(n, jj, n2, l, k), Half(n, jj, k, r), k.source # Blankness
    PROVE  /\ k.meta.id \in Sectors /\ TracePath(n2, l, k.meta.id).page = jj.head
           /\ \A s \in Sectors : s # k.meta.id =>
                TracePath(n2, l, s).page \in {None, TracePath(n, jj, s).page}
<1> DEFINE Found(gone) == /\ Grafts(n, jj, k.meta, gone) /\ gone # k.meta.id
                          /\ Wanted(n, k.source).kind = "user"
                          /\ Wanted(n, k.source).data \in Data
<1>1. ASSUME Moves(n, jj, k) PROVE \E gone : Found(gone)
  <2>1. PICK t \in Sectors, p \in UserPages :
             /\ t = k.meta.id /\ p = jj.tail
             /\ k.meta = MetaFor(t, TracePath(n, jj, t)) /\ k.source = FromPage(p)
             /\ TracePath(n, jj, t).page = p
    BY <1>1 DEF Moves, Journal
  <2>2. p # None /\ None # k.meta.id
    BY <2>1, UserPage, SectorAssumption DEF None
  <2>3. n[p].kind = "user" /\ n[p].data \in Data
    BY <2>1, <2>2, SectorPage
  <2>4. Wanted(n, k.source) = n[p]
    BY <2>1 DEF FromPage, Wanted
  <2>5. Grafts(n, jj, k.meta, None)
    BY <2>1, PathGrafts
  <2> QED BY <2>2, <2>3, <2>4, <2>5
<1>2. ASSUME Writes(n, jj, k, r) PROVE \E gone : Found(gone)
  <2>1. PICK s \in Sectors, d \in Data :
             /\ k.meta = MetaFor(s, TracePath(n, jj, s)) /\ k.source = FromUser(d)
    BY <1>2 DEF Writes, Requests
  <2>2. None # k.meta.id
    BY <2>1, SectorAssumption DEF MetaFor, None
  <2>3. Wanted(n, k.source).kind = "user" /\ Wanted(n, k.source).data \in Data
    BY <2>1 DEF FromUser, Wanted
  <2>4. Grafts(n, jj, k.meta, None)
    BY <2>1, PathGrafts
  <2> QED BY <2>2, <2>3, <2>4
<1>3. ASSUME Trims(n, jj, k, r) PROVE \E gone : Found(gone)
  <2>1. PICK s \in Sectors : s = r.sector
    BY <1>3 DEF Trims, Requests
  <2> DEFINE path == TracePath(n, jj, s)
             del == Deletion(n, jj, path)
  <2>2. /\ Cousins(path) # {} /\ k.meta = del.meta /\ k.source = FromPage(del.page)
    BY <1>3, <2>1 DEF Trims
  <2>3. PICK c \in Sectors :
             /\ c = del.meta.id /\ c # s /\ Grafts(n, jj, del.meta, s)
             /\ TracePath(n, jj, c).page = del.page /\ del.page # None
    BY <2>2, DeletionGrafts
  <2>4. n[del.page].kind = "user" /\ n[del.page].data \in Data
    BY <2>3, SectorPage
  <2> HIDE DEF path, del
  <2>5. Wanted(n, k.source) = n[del.page]
    BY <2>2 DEF FromPage, Wanted
  <2>6. Grafts(n, jj, k.meta, s) /\ s # k.meta.id
    BY <2>2, <2>3
  <2> QED BY <2>4, <2>5, <2>6
<1>4. ~Pads(n, jj, k, r)
  BY DEF Pads
<1>5. \E gone : Found(gone)
  <2> HIDE DEF Found
  <2> QED BY <1>1, <1>2, <1>3, <1>4 DEF Half
<1>6. PICK gone : Found(gone)
  BY <1>5
<1> QED BY <1>6, GraftedPages, ZenonT(40)

-----------------------------------------------------------------------------
(* A page that lands leaves the log spare.                                 *)
Landing(n, jj, n2, l, k, r, m) ==
    /\ n \in Flash /\ JournalOK(jj) /\ TreeOK(n, jj)
    /\ n2 \in Flash /\ JournalOK(l) /\ l.head = NextUpage(jj.head)
    /\ r \in Requests /\ k.at \in Appending /\ k.then \in Thens
    /\ Lands(n, jj, n2, l, k) /\ Half(n, jj, k, r) /\ Finished(l, k, r, m)
    /\ Most > 0 /\ Spare(n, jj, Credit(k, r)) /\ Due(jj, k, r)
    /\ l.bbCurrent >= 0 /\ Span(l.tailSync, l.head) <= Reach + 1 + (l.head % Ppc)

LEMMA LandingIs ==
    ASSUME NEW n, NEW jj, NEW n2, NEW l, NEW k, NEW r, NEW m,
           Landing(n, jj, n2, l, k, r, m)
    PROVE  /\ jj \in Journal /\ l \in Journal /\ m \in Journal
           /\ m.head = l.head /\ m.bbCurrent >= 0 /\ m.count <= Most
           /\ l.tail = jj.tail /\ l.head # l.tail
           /\ Held(jj) \in Nat /\ Span(jj.tail, l.head) = Held(jj) + 1
           /\ TreeOK(n2, m) /\ m.count = Count(Contents(n2, m))
           /\ \A s \in Sectors : TracePath(n2, m, s).page = TracePath(n2, l, s).page
<1>1. /\ n \in Flash /\ JournalOK(jj) /\ TreeOK(n, jj)
      /\ n2 \in Flash /\ JournalOK(l) /\ l.head = NextUpage(jj.head)
      /\ r \in Requests /\ Lands(n, jj, n2, l, k) /\ Half(n, jj, k, r)
      /\ Finished(l, k, r, m) /\ l.bbCurrent >= 0
      /\ Spare(n, jj, Credit(k, r))
  BY DEF Landing
<1>2. jj \in Journal /\ l \in Journal
  BY <1>1 DEF JournalOK
<1>3. /\ TreeOK(n2, m) /\ m.count = Count(Contents(n2, m))
      /\ \A s \in Sectors : TracePath(n2, m, s).page = TracePath(n2, l, s).page
  BY <1>1, Landed
<1>4. /\ m \in Journal /\ m.head = l.head /\ m.bbCurrent = l.bbCurrent
      /\ m.count \in {l.count, l.count - 1}
  <2>1. CASE k.moved
    <3>1. m = Dequeue(l)
      BY <1>1, <2>1 DEF Finished
    <3> QED BY <1>1, <3>1, DequeueType DEF JournalOK
  <2>2. CASE ~k.moved
    <3>1. m = [l EXCEPT !.count = IF r.op = "trim" THEN l.count - 1 ELSE l.count]
      BY <1>1, <1>2, <2>2 DEF Finished
    <3>2. l.count \in Int
      BY <1>2 DEF Journal
    <3> QED BY <1>2, <3>1, <3>2 DEF Journal
  <2> QED BY <2>1, <2>2
<1>5. m.count <= Most
  <2>1. l.count = jj.count /\ jj.count \in Int
    BY <1>1, <1>2 DEF Lands, Journal
  <2>2. jj.count <= Most
    BY <1>1 DEF Spare
  <2> QED BY <1>4, <2>1, <2>2, CapacityType
<1>6. l.tail = jj.tail /\ l.head # l.tail
  <2>1. l.tail = jj.tail /\ Within(l.tail, l.head, jj.head)
    BY <1>1 DEF Lands
  <2>2. l.tail \in Int /\ l.head \in Int /\ jj.head \in Int
    BY <1>2, UserPage DEF Journal
  <2> QED BY <2>1, <2>2 DEF Within
<1>7. Span(jj.tail, l.head) = Held(jj) + 1
  <2>1. PICK t \in UserPages, h \in UserPages : t = jj.tail /\ h = jj.head
    BY <1>2 DEF Journal
  <2>2. NextUpage(h) # t
    BY <1>1, <1>6, <2>1
  <2>3. Span(t, NextUpage(h)) = Span(t, h) + 1
    BY <2>2, SpanGrows
  <2> QED BY <1>1, <2>1, <2>3 DEF Held
<1>8. Held(jj) \in Nat
  BY <1>2, HeldType
<1> QED BY <1>1, <1>2, <1>3, <1>4, <1>5, <1>6, <1>7, <1>8

\* Padding, with nothing in the log.
LEMMA PadIsSpare ==
    ASSUME NEW n, NEW jj, NEW n2, NEW l, NEW k, NEW r, NEW m,
           Landing(n, jj, n2, l, k, r, m), Pads(n, jj, k, r)
    PROVE  Spare(n2, m, Credit(k.then, r))
<1>1. /\ n2 \in Flash /\ Finished(l, k, r, m) /\ Most > 0 /\ Lands(n, jj, n2, l, k)
      /\ k.at \in Appending /\ Due(jj, k, r)
      /\ Span(l.tailSync, l.head) <= Reach + 1 + (l.head % Ppc)
  BY DEF Landing
<1>2. /\ jj \in Journal /\ l \in Journal /\ m \in Journal
      /\ m.head = l.head /\ m.bbCurrent >= 0 /\ m.count <= Most /\ l.tail = jj.tail
      /\ Held(jj) \in Nat /\ Span(jj.tail, l.head) = Held(jj) + 1
      /\ \A s \in Sectors : TracePath(n2, m, s).page = TracePath(n2, l, s).page
  BY LandingIs
<1>3. ~k.moved /\ k.then = SyncLoop /\ k.source = Blankness /\ k.meta = NoMeta
  BY DEF Pads
<1>4. m.tail = jj.tail /\ m.tailSync = l.tailSync
  <2>1. m = [l EXCEPT !.count = IF r.op = "trim" THEN l.count - 1 ELSE l.count]
    BY <1>1, <1>2, <1>3 DEF Finished
  <2> QED BY <1>2, <2>1 DEF Journal
<1>5. Held(jj) = 0
  <2>1. jj.head = jj.tail
    BY <1>1, <1>3 DEF Due
  <2> QED BY <1>2, <2>1, HeldType
<1>6. Held(m) <= 1
  BY <1>2, <1>4, <1>5 DEF Held
<1>7. \A s \in Sectors : TracePath(n2, m, s).page = None
  <2>1. ReadMeta(n2, l, l.root).id = None /\ Within(l.tail, l.head, l.root)
    BY <1>1, <1>3 DEF Lands, NoMeta
  <2>2. \A s \in Sectors : TracePath(n2, l, s).page = None
    BY <1>1, <1>2, <2>1, EmptyTree
  <2> QED BY <1>2, <2>2
<1>8. Credit(k.then, r) = 0 /\ 0 \in 0..Rate
  BY <1>3, RateIs DEF Credit, Done, SyncLoop, Appending
<1>9. Spare(n2, m, 0)
  <2>1. Span(m.tailSync, m.head) <= Reach + 1 + (m.head % Ppc)
    BY <1>1, <1>2, <1>4
  <2> QED BY <1>1, <1>2, <1>6, <1>7, <1>8, <2>1, SpareEmpty
<1> QED BY <1>8, <1>9

\* A page that is moved from the tail to the head.
LEMMA MoveIsSpare ==
    ASSUME NEW n, NEW jj, NEW n2, NEW l, NEW k, NEW r, NEW m,
           Landing(n, jj, n2, l, k, r, m), Moves(n, jj, k)
    PROVE  Spare(n2, m, Credit(k.then, r))
<1>1. /\ n \in Flash /\ n2 \in Flash /\ TreeOK(n, jj) /\ JournalOK(l) /\ r \in Requests
      /\ Finished(l, k, r, m) /\ Most > 0 /\ Lands(n, jj, n2, l, k)
      /\ Half(n, jj, k, r) /\ k.at \in Appending /\ k.then \in Thens
      /\ Due(jj, k, r) /\ Spare(n, jj, Credit(k, r))
      /\ Span(l.tailSync, l.head) <= Reach + 1 + (l.head % Ppc)
  BY DEF Landing
<1>2. /\ jj \in Journal /\ l \in Journal /\ m \in Journal
      /\ m.head = l.head /\ m.bbCurrent >= 0 /\ m.count <= Most
      /\ l.tail = jj.tail /\ l.head # l.tail
      /\ Held(jj) \in Nat /\ Span(jj.tail, l.head) = Held(jj) + 1
      /\ TreeOK(n2, m) /\ m.count = Count(Contents(n2, m))
      /\ \A s \in Sectors : TracePath(n2, m, s).page = TracePath(n2, l, s).page
  BY LandingIs
<1>3. PICK t \in Sectors, p \in UserPages, h \in UserPages :
         /\ t = k.meta.id /\ p = jj.tail /\ h = jj.head /\ h # p
         /\ TracePath(n, jj, t).page = p /\ k.source = FromPage(p)
  BY <1>2 DEF Moves, Journal
<1>4. k.moved /\ k.then # Idle /\ p # None
  BY <1>3, UserPage DEF Moves, None
<1>5. /\ m.tail = NextUpage(p)
      /\ m.tailSync = IF l.dirty THEN l.tailSync ELSE m.tail
  <2>1. m = Dequeue(l)
    BY <1>1, <1>4 DEF Finished
  <2> QED BY <1>2, <1>3, <2>1 DEF Dequeue, Journal
<1>6. PICK L \in Nat : L = Held(jj) /\ L > 0
  BY <1>2, <1>3, HeldType
<1>7. Held(m) = L
  <2>1. PICK q \in UserPages : q = l.head
    BY <1>2 DEF Journal
  <2>2. Span(NextUpage(p), q) = Span(p, q) - 1
    BY <1>2, <1>3, <2>1, SpanDrops
  <2>3. Span(p, q) = L + 1
    BY <1>2, <1>3, <1>6, <2>1
  <2> QED BY <1>2, <1>5, <2>1, <2>2, <2>3 DEF Held
<1>8. PICK c \in 0..Rate - 1 : c = Credit(k, r)
  <2>1. Credit(k, r) < Rate
    BY <1>1, <1>4 DEF Due
  <2>2. Credit(k, r) \in 0..Rate
    BY <1>1 DEF Spare
  <2> QED BY <2>1, <2>2, RateIs
<1> DEFINE f == Spot(n, jj)
           g == Spot(n2, m)
<1>9. k.source # Blankness
  BY <1>3 DEF FromPage, Blankness
<1>10. /\ TracePath(n2, l, t).page = h
       /\ \A s \in Sectors : s # t =>
            TracePath(n2, l, s).page \in {None, TracePath(n, jj, s).page}
  BY <1>1, <1>2, <1>3, <1>9, LandedPages
<1>11. f[t] = 0
  <2>1. Span(p, p) = 0
    BY SpanIs
  <2> QED BY <1>3, <1>4, <2>1 DEF Spot
<1>12. g[t] = L - 1
  <2>1. TracePath(n2, m, t).page = h /\ h # None
    BY <1>2, <1>10, UserPage DEF None
  <2>2. g[t] = Span(NextUpage(p), h)
    BY <1>5, <2>1 DEF Spot
  <2>3. Span(NextUpage(p), h) = Span(p, h) - 1
    BY <1>3, SpanDrops
  <2> QED BY <1>3, <1>6, <2>2, <2>3 DEF Held
<1>13. ASSUME NEW s \in Sectors \ {t}
       PROVE  g[s] \in Nat => f[s] = g[s] + 1
  <2>1. TracePath(n, jj, s).page # jj.tail
    <3>1. ReadMeta(n, jj, p).id = t
      BY <1>1, <1>2, <1>3, <1>4, SectorPage
    <3>2. TracePath(n, jj, s).page = p => ReadMeta(n, jj, p).id = s
      BY <1>1, <1>2, <1>4, SectorPage
    <3> QED BY <1>3, <3>1, <3>2
  <2>2. TracePath(n2, m, s).page \in {None, TracePath(n, jj, s).page}
    BY <1>2, <1>10
  <2>3. m.tail = NextUpage(jj.tail) /\ jj.head # jj.tail
    BY <1>3, <1>5
  <2> QED BY <1>1, <1>2, <2>1, <2>2, <2>3, SpotDrops
<1>14. Early(g, L) <= Most
  <2>1. Early(Spot(n2, m), L) <= Count(Contents(n2, m))
    BY <1>1, <1>2, EarlyCounted
  <2>2. Early(Spot(n2, m), L) \in Nat
    BY EarlyType
  <2>3. m.count \in Int
    BY <1>2 DEF Journal
  <2> QED BY <1>2, <2>1, <2>2, <2>3, CapacityType
<1>15. Paced(f, L, c)
  BY <1>1, <1>6, <1>8 DEF Spare
<1> HIDE DEF f, g
<1>16. Paced(g, L, c + 1)
  <2>1. \A s \in Sectors \ {t} : g[s] \in Nat => f[s] = g[s] + 1
    BY <1>13
  <2> QED BY <1>1, <1>6, <1>11, <1>12, <1>14, <1>15, <2>1, MoveIsPaced
<1>17. Span(m.tailSync, m.head) <= Reach + 1 + (m.head % Ppc)
  <2>1. CASE l.dirty
    BY <1>1, <1>2, <1>5, <2>1
  <2>2. CASE ~l.dirty
    <3>1. Span(m.tailSync, m.head) = L
      BY <1>5, <1>7, <2>2 DEF Held
    <3>2. L <= Reach
      <4>1. c + 1 \in Nat
        BY <1>8
      <4> QED BY <1>16, <4>1, PacedReach
    <3>3. m.head % Ppc \in 0..Ppc - 2
      BY <1>2, UserPage DEF Journal
    <3> QED BY <3>1, <3>2, <3>3, CapacityType, Geometry
  <2> QED BY <2>1, <2>2
<1>18. Count(Contents(n2, m)) # 0
  <2>1. TracePath(n2, m, t).page # None
    BY <1>2, <1>10, UserPage DEF None
  <2> QED BY <1>1, <1>2, <2>1, SomePage
<1>19. Spare(n2, m, c + 1)
  <2>1. c + 1 \in 0..Rate
    BY <1>8, RateIs
  <2>2. Paced(Spot(n2, m), Held(m), c + 1)
    BY <1>7, <1>16 DEF g
  <2> QED BY <1>2, <1>17, <1>18, <2>1, <2>2 DEF Spare
<1>20. Credit(k.then, r) \in {0, c + 1}
  <2>1. CASE k.then = SyncLoop
    BY <2>1 DEF Credit, Done, SyncLoop, Appending
  <2>2. CASE k.then \in [at : {"gc"}, left : Int]
    <3>1. k.then.at = "gc" /\ k.then.left \in Int
      BY <2>2
    <3>2. Credit(k.then, r) = Rate - k.then.left
      BY <3>1 DEF Credit, Done, Appending
    <3>3. Credit(k, r) = Rate - k.then.left - 1
      BY <1>1, <1>4, <3>1 DEF Credit, Done, Appending
    <3> QED BY <1>8, <3>1, <3>2, <3>3, RateIs
  <2> QED BY <1>1, <1>4, <2>1, <2>2 DEF Thens
<1>21. Credit(k.then, r) \in 0..Rate /\ Credit(k.then, r) <= c + 1
  BY <1>8, <1>20, RateIs
<1> QED BY <1>2, <1>19, <1>21, SpareLess

\* A write, and what a trim rewrites.
LEMMA AppendIsSpare ==
    ASSUME NEW n, NEW jj, NEW n2, NEW l, NEW k, NEW r, NEW m,
           Landing(n, jj, n2, l, k, r, m), Writes(n, jj, k, r) \/ Trims(n, jj, k, r)
    PROVE  Spare(n2, m, Credit(k.then, r))
<1>1. /\ n \in Flash /\ n2 \in Flash /\ TreeOK(n, jj) /\ r \in Requests
      /\ Finished(l, k, r, m) /\ Most > 0 /\ Lands(n, jj, n2, l, k)
      /\ Half(n, jj, k, r) /\ k.at \in Appending
      /\ Spare(n, jj, Credit(k, r))
      /\ Span(l.tailSync, l.head) <= Reach + 1 + (l.head % Ppc)
  BY DEF Landing
<1>2. /\ jj \in Journal /\ l \in Journal /\ m \in Journal
      /\ m.head = l.head /\ m.bbCurrent >= 0 /\ m.count <= Most
      /\ l.tail = jj.tail /\ l.head # l.tail
      /\ Held(jj) \in Nat /\ Span(jj.tail, l.head) = Held(jj) + 1
      /\ TreeOK(n2, m) /\ m.count = Count(Contents(n2, m))
      /\ \A s \in Sectors : TracePath(n2, m, s).page = TracePath(n2, l, s).page
  BY LandingIs
<1>3. ~k.moved /\ k.then = Idle /\ k.source # Blankness
  BY DEF Writes, Trims, FromPage, FromUser, Blankness
<1>4. m.tail = jj.tail /\ m.tailSync = l.tailSync
  <2>1. m = [l EXCEPT !.count = IF r.op = "trim" THEN l.count - 1 ELSE l.count]
    BY <1>1, <1>2, <1>3 DEF Finished
  <2> QED BY <1>2, <2>1 DEF Journal
<1>5. PICK L \in Nat : L = Held(jj)
  BY <1>2
<1>6. Held(m) = L + 1
  BY <1>2, <1>4, <1>5 DEF Held
<1>7. PICK t \in Sectors : t = k.meta.id
  BY <1>1, <1>2, <1>3, LandedPages
<1>8. /\ TracePath(n2, m, t).page = jj.head
      /\ \A s \in Sectors : s # t =>
           TracePath(n2, m, s).page \in {None, TracePath(n, jj, s).page}
  BY <1>1, <1>2, <1>3, <1>7, LandedPages
<1> DEFINE f == Spot(n, jj)
           g == Spot(n2, m)
<1>9. TracePath(n2, m, t).page # None
  BY <1>2, <1>8, UserPage DEF None, Journal
<1>10. ASSUME NEW s \in Sectors, g[s] \in 0..L - 1
       PROVE  f[s] = g[s]
  <2>1. s # t
    <3>1. g[t] = L
      BY <1>4, <1>5, <1>8, <1>9 DEF Spot, Held
    <3> QED BY <1>10, <3>1
  <2>2. TracePath(n2, m, s).page # None
    BY <1>10 DEF Spot
  <2>3. TracePath(n2, m, s).page = TracePath(n, jj, s).page
    BY <1>8, <2>1, <2>2
  <2> QED BY <1>4, <2>3 DEF Spot
<1>11. Early(g, L + 1) <= Most
  <2>1. Early(Spot(n2, m), L + 1) <= Count(Contents(n2, m))
    BY <1>1, <1>2, EarlyCounted
  <2>2. Early(Spot(n2, m), L + 1) \in Nat
    BY EarlyType
  <2>3. m.count \in Int
    BY <1>2 DEF Journal
  <2> QED BY <1>2, <2>1, <2>2, <2>3, CapacityType
<1>12. Credit(k, r) = Rate
  BY <1>1, <1>3 DEF Credit, Appending
<1>13. Paced(f, L, Rate)
  BY <1>1, <1>5, <1>12 DEF Spare
<1> HIDE DEF f, g
<1>14. Paced(g, L + 1, 0)
  <2>1. \A s \in Sectors : g[s] \in 0..L - 1 => f[s] = g[s]
    BY <1>10
  <2> QED BY <1>1, <1>5, <1>11, <1>13, <2>1, AppendIsPaced
<1>15. Count(Contents(n2, m)) # 0
  BY <1>1, <1>2, <1>9, SomePage
<1>16. Credit(k.then, r) = 0 /\ 0 \in 0..Rate
  BY <1>3, RateIs DEF Credit, Done, Idle, Appending
<1>17. Spare(n2, m, 0)
  <2>1. Span(m.tailSync, m.head) <= Reach + 1 + (m.head % Ppc)
    BY <1>1, <1>2, <1>4
  <2>2. Paced(Spot(n2, m), Held(m), 0)
    BY <1>6, <1>14 DEF g
  <2> QED BY <1>2, <1>15, <1>16, <2>1, <2>2 DEF Spare
<1> QED BY <1>16, <1>17

LEMMA LandingIsSpare ==
    ASSUME NEW n, NEW jj, NEW n2, NEW l, NEW k, NEW r, NEW m,
           Landing(n, jj, n2, l, k, r, m)
    PROVE  Spare(n2, m, Credit(k.then, r))
<1>1. \/ Moves(n, jj, k) \/ Pads(n, jj, k, r)
      \/ Writes(n, jj, k, r) \/ Trims(n, jj, k, r)
  BY DEF Landing, Half
<1> QED BY <1>1, MoveIsSpare, PadIsSpare, AppendIsSpare

-----------------------------------------------------------------------------
(* Every step leaves the log spare, and only a full map refuses a write.   *)

\* What a worker knows before its step, and where the step leads.
Calm(w) == At0(w) /\ Most > 0 /\ Roomed(nand, j, proc[w], request[w])

Granted(w) == \/ UNCHANGED reply
              \/ \E d \in Data \cup {Blank} : Answer(w, TRUE, d)
              \/ MapFull(w) /\ Fail(w)

RoomTo(w, k) ==
    Goto(w, k) /\ Roomed(nand', j', k, request[w]) /\ Granted(w)

LEMMA GrantedIs ==
    ASSUME NEW w \in Workers, TypeInv, Granted(w)
    PROVE  \A v \in Workers : Refused(v) => MapFull(v)
<1> SUFFICES ASSUME NEW v \in Workers, Refused(v) PROVE MapFull(v)
  OBVIOUS
<1>1. reply \in [Workers -> Replies \cup {NoReply}]
  BY DEF TypeInv
<1>2. CASE UNCHANGED reply
  BY <1>2 DEF Refused
<1>3. ASSUME NEW ok \in BOOLEAN, NEW d,
             reply' = [reply EXCEPT ![w] = [ok |-> ok, data |-> d]]
      PROVE  v = w /\ ~ok
  <2>1. v = w
    BY <1>1, <1>3 DEF Refused
  <2>2. reply'[w] = [ok |-> ok, data |-> d]
    BY <1>1, <1>3
  <2>3. ~reply'[w].ok
    BY <2>1 DEF Refused
  <2> QED BY <2>1, <2>2, <2>3
<1>4. CASE \E d \in Data \cup {Blank} : Answer(w, TRUE, d)
  <2>1. PICK d \in Data \cup {Blank} : Answer(w, TRUE, d)
    BY <1>4
  <2>2. reply' = [reply EXCEPT ![w] = [ok |-> TRUE, data |-> d]]
    BY <2>1 DEF Answer
  <2> QED BY <1>3, <2>2
<1>5. CASE MapFull(w) /\ Fail(w)
  <2>1. reply' = [reply EXCEPT ![w] = [ok |-> FALSE, data |-> Blank]]
    BY <1>5 DEF Fail, Answer
  <2>2. v = w
    BY <1>3, <2>1
  <2> QED BY <1>5, <2>2
<1> QED BY <1>2, <1>4, <1>5 DEF Granted

LEMMA RoomStep ==
    ASSUME NEW w, Calm(w), UNCHANGED request, Inv', NEW k, RoomTo(w, k)
    PROVE  Roomy' /\ \A v \in Workers : Refused(v) => MapFull(v)
<1>1. w \in Workers /\ Inv /\ proc[w] # Idle
  BY DEF Calm, At0
<1>2. /\ proc \in [Workers -> Places] /\ proc' = [proc EXCEPT ![w] = k]
      /\ \A v \in Workers : v # w => proc[v] = Idle
  BY <1>1 DEF RoomTo, Goto, Inv, TypeInv, CallInv
<1>3. proc'[w] = k /\ \A v \in Workers : v # w => proc'[v] = Idle
  BY <1>1, <1>2
<1>4. j' \in Journal
  BY DEF Inv, LogInv, JournalOK
<1>5. Spare(nand', j', Credit(k, request[w]))
  BY DEF RoomTo, Roomed
<1>6. Credit(k, request[w]) \in 0..Rate /\ 0 \in 0..Rate
  BY <1>5, RateIs DEF Spare
<1>7. PICK l \in Journal, c \in 0..Rate : l = j' /\ c = Credit(k, request[w])
  BY <1>4, <1>6
<1> DEFINE n2 == nand'
<1> HIDE DEF n2
<1>8. Spare(n2, l, 0)
  <2>1. Spare(n2, l, c)
    BY <1>5, <1>7 DEF n2
  <2> QED BY <1>6, <1>7, <2>1, SpareLess
<1>9. \A v \in Workers : proc'[v] # Idle => Roomed(nand', j', proc'[v], request'[v])
  BY <1>3 DEF RoomTo
<1>10. Most # 0
  BY CapacityType DEF Calm
<1>11. Roomy'
  BY <1>7, <1>8, <1>9, <1>10 DEF Roomy, n2
<1>12. \A v \in Workers : Refused(v) => MapFull(v)
  BY <1>1, GrantedIs DEF RoomTo, Inv
<1> QED BY <1>11, <1>12

\* What the credit is at a place that is not within an append.
LEMMA CreditIs ==
    ASSUME NEW r
    PROVE  /\ Credit(Idle, r) = 0 /\ Credit(SyncLoop, r) = 0
           /\ Credit(Serve, r) \in {0, Rate}
           /\ \A left : Credit(Collect(left), r) = Rate - left
           /\ Idle.at \notin Appending /\ SyncLoop.at \notin Appending
           /\ Serve.at \notin Appending /\ \A left : Collect(left).at \notin Appending
BY DEF Credit, Done, Idle, SyncLoop, Serve, Collect, Appending

\* The page at the tail is dropped, or is to be moved.
LEMMA MoveTailRoom ==
    ASSUME NEW w, Calm(w), nand' = nand, j.head # j.tail,
           NEW then, then # Idle, then.at \notin Appending,
           NEW c \in 0..Rate - 1, Spare(nand, j, c),
           c = IF then.at = "gc" THEN Done(then) - 1 ELSE 0,
           Credit(then, request[w]) \in 0..c + 1,
           MoveTail(w, j, then)
    PROVE  \E k : RoomTo(w, k)
<1> DEFINE s == ReadMeta(nand, j, j.tail).id
           meta == MetaFor(s, TracePath(nand, j, s))
           moving == Enqueue(FromPage(j.tail), meta, j.count, then, TRUE, j.count)
<1>1. /\ nand \in Flash /\ j \in Journal /\ JournalOK(j)
      /\ Clean(nand) /\ TreeOK(nand, j) /\ j.tail \in UserPages
  BY Known DEF Calm
<1>2. s \in Sectors \cup {None}
  <2>1. ReadMeta(nand, j, j.tail) \in Meta
    BY <1>1, CleanMeta
  <2> QED BY <2>1 DEF Meta
<1>3. CASE /\ Verdict(nand, j, j.tail) = "garbage"
           /\ j' = Dequeue(j) /\ Goto(w, then) /\ UNCHANGED reply
  <2>1. s # None => TracePath(nand, j, s).page # j.tail
    BY <1>3 DEF Verdict
  <2>2. ~OnTree(nand, j, j.tail) \/ ReadMeta(nand, j, j.tail).id = None
    <3>1. OnTree(nand, j, j.tail) /\ s \in Sectors
            => TracePath(nand, j, s).page = j.tail
      BY <1>1, OnTreeFound
    <3> QED BY <1>2, <2>1, <3>1
  <2>3. \A t \in Sectors : TracePath(nand, j, t).page # j.tail
    <3> SUFFICES ASSUME NEW t \in Sectors, TracePath(nand, j, t).page = j.tail
                 PROVE  FALSE
      OBVIOUS
    <3>1. j.tail # None /\ t # None
      BY <1>1, UserPage, SectorAssumption DEF None
    <3>2. s = t
      BY <1>1, <3>1, SectorPage
    <3> QED BY <2>1, <3>1, <3>2
  <2>4. PICK m : m = Dequeue(j)
    OBVIOUS
  <2>5. /\ TreeOK(nand, m)
        /\ \A t \in Sectors : TracePath(nand, m, t).page = TracePath(nand, j, t).page
    BY <1>1, <2>2, <2>4, DequeueTree
  <2>6. c \in Nat /\ c < Rate
    BY RateIs
  <2>7. Spare(nand, m, c + 1)
    BY <1>1, <2>3, <2>4, <2>5, <2>6, SpareDrops
  <2>8. m \in Journal
    BY <1>1, <2>4, DequeueType DEF JournalOK
  <2>9. PICK d \in 0..Rate : d = Credit(then, request[w]) /\ d <= c + 1
    BY <2>6, RateIs
  <2>10. Spare(nand, m, d)
    BY <2>7, <2>8, <2>9, SpareLess
  <2>11. Roomed(nand', j', then, request[w])
    BY <1>3, <2>4, <2>9, <2>10 DEF Roomed, Due
  <2> QED BY <1>3, <2>11 DEF RoomTo, Granted
<1>4. CASE /\ Verdict(nand, j, j.tail) = "live"
           /\ Goto(w, moving) /\ j' = j /\ UNCHANGED reply
  <2>1. /\ moving.at = "head" /\ moving.then = then
        /\ moving.source = FromPage(j.tail)
    BY DEF Enqueue
  <2> HIDE DEF moving
  <2>2. moving.source # Blankness
    BY <2>1 DEF FromPage, Blankness
  <2>3. Credit(moving, request[w]) = c /\ c < Rate
    BY <2>1, RateIs DEF Credit, Appending
  <2>4. Due(j, moving, request[w])
    BY <2>2, <2>3 DEF Due
  <2>5. Roomed(nand', j', moving, request[w])
    BY <1>4, <2>3, <2>4 DEF Roomed
  <2> QED BY <1>4, <2>5 DEF RoomTo, Granted
<1>5. Verdict(nand, j, j.tail) # "error"
  <2>1. s # Unreadable
    BY <1>2, SectorAssumption DEF None, Unreadable
  <2>2. s # None => TracePath(nand, j, s).page # Unreadable
    BY <1>1, <1>2, SectorPage
  <2> QED BY <2>1, <2>2 DEF Verdict
<1> QED BY <1>3, <1>4, <1>5 DEF MoveTail

LEMMA GcRoom ==
    ASSUME NEW w, Calm(w), Gc(w)
    PROVE  \E k : RoomTo(w, k)
<1>1. /\ nand \in Flash /\ j \in Journal /\ Clean(nand) /\ TreeOK(nand, j)
      /\ Counted(nand, j, proc[w], request[w]) /\ Inv /\ w \in Workers
  BY Known DEF Calm
<1>2. proc[w].at = "gc" /\ nand' = nand
  BY DEF Gc, At
<1>3. j.count = Count(Contents(nand, j))
  BY <1>1, <1>2 DEF Counted, Appending
<1>4. PICK left \in Int : left = proc[w].left /\ Credit(proc[w], request[w]) = Rate - left
  <2>1. proc[w] \in Places
    BY <1>1 DEF Inv, TypeInv
  <2>2. proc[w].left \in Int
    BY <1>2, <2>1 DEF Places, Thens, Appends, Idle, SyncLoop, Serve
  <2> QED BY <1>2, <2>2 DEF Credit, Done, Appending
<1>5. PICK c \in 0..Rate : c = Rate - left /\ Spare(nand, j, c)
  <2>1. Spare(nand, j, Rate - left)
    BY <1>4 DEF Calm, Roomed
  <2> QED BY <2>1 DEF Spare
<1>6. CASE /\ left = 0 \/ j.count = 0 \/ j.head = j.tail
           /\ Goto(w, Serve) /\ UNCHANGED <<j, reply>>
  <2>1. Spare(nand, j, Rate)
    <3>1. CASE left = 0
      BY <1>5, <3>1, RateIs
    <3>2. CASE j.count = 0 \/ j.head = j.tail
      <4>1. Held(j) <= 1
        <5>1. j.head = j.tail => Held(j) = 0
          BY <1>1, HeldType
        <5>2. j.count = 0 => Held(j) <= 1
          BY <1>3, <1>5 DEF Spare
        <5> QED BY <3>2, <5>1, <5>2
      <4>2. \A s \in Sectors : TracePath(nand, j, s).page = None
        <5>1. CASE j.count = 0
          <6>1. Contents(nand, j) = [s \in Sectors |-> Blank]
            BY <1>1, <1>3, <5>1, NoneCounted
          <6> QED BY <1>1, <6>1, ContentsType
        <5>2. CASE j.head = j.tail
          <6>1. j.root = None
            BY <1>1, <5>2, EmptyLog
          <6> QED BY <1>1, <6>1, EmptyTree
        <5> QED BY <3>2, <5>1, <5>2
      <4>3. /\ j.bbCurrent >= 0 /\ j.count <= Most
            /\ Span(j.tailSync, j.head) <= Reach + 1 + (j.head % Ppc)
        BY <1>5 DEF Spare
      <4>4. Rate \in 0..Rate /\ Most > 0
        BY RateIs DEF Calm
      <4> QED BY <1>1, <4>1, <4>2, <4>3, <4>4, SpareEmpty
    <3> QED BY <1>6, <3>1, <3>2
  <2>2. PICK d \in 0..Rate : d = Credit(Serve, request[w]) /\ d <= Rate
    BY CreditIs, RateIs
  <2>3. Spare(nand, j, d)
    <3>1. Rate \in Int
      BY RateIs
    <3> QED BY <1>1, <2>1, <2>2, <3>1, SpareLess
  <2>4. Roomed(nand', j', Serve, request[w])
    BY <1>2, <1>6, <2>2, <2>3, CreditIs DEF Roomed, Due
  <2> QED BY <1>6, <2>4 DEF RoomTo, Granted
<1>7. CASE /\ left # 0 /\ j.head # j.tail
           /\ MoveTail(w, Peek(nand, j), Collect(left - 1))
  <2>1. PICK then : then = Collect(left - 1)
    OBVIOUS
  <2>2. /\ then # Idle /\ then.at = "gc" /\ then.left = left - 1
        /\ then.at \notin Appending
    BY <2>1, CreditIs DEF Collect, Idle
  <2>3. MoveTail(w, j, then)
    <3>1. Peek(nand, j) = j
      BY <1>1, CleanPeek
    <3> QED BY <1>7, <2>1, <3>1
  <2>4. c \in 0..Rate - 1
    BY <1>5, <1>7, RateIs
  <2>5. c = Done(then) - 1
    BY <1>5, <2>2, RateIs DEF Done
  <2>6. Credit(then, request[w]) \in 0..c + 1
    <3>1. Credit(then, request[w]) = Rate - (left - 1)
      BY <2>1, CreditIs
    <3> QED BY <1>5, <2>4, <3>1, RateIs
  <2> HIDE DEF MoveTail
  <2> QED BY <1>2, <1>5, <1>7, <2>2, <2>3, <2>4, <2>5, <2>6, MoveTailRoom
<1> QED BY <1>2, <1>4, <1>6, <1>7 DEF Gc

LEMMA SyncRoom ==
    ASSUME NEW w, Calm(w), Sync(w)
    PROVE  \E k : RoomTo(w, k)
<1>1. /\ nand \in Flash /\ j \in Journal /\ Clean(nand) /\ TreeOK(nand, j)
  BY Known DEF Calm
<1>2. proc[w].at = "sync" /\ nand' = nand
  BY DEF Sync, At
<1>3. 0 \in 0..Rate /\ 0 \in 0..Rate - 1 /\ 0 \in 0..0 + 1
  BY RateIs
<1>4. Spare(nand, j, 0)
  <2>1. Credit(proc[w], request[w]) = 0
    BY <1>2 DEF Credit, Done, Appending
  <2> QED BY <2>1 DEF Calm, Roomed
<1>5. CASE Succeed(w) /\ UNCHANGED j
  <2>1. Roomed(nand', j', Idle, request[w])
    BY <1>2, <1>4, <1>5, CreditIs DEF Roomed, Due
  <2> QED BY <1>5, <2>1 DEF RoomTo, Granted, Succeed, Answer
<1>6. CASE Pad(w)
  <2>1. j.root = None /\ UNCHANGED j /\ j.head = j.tail
    BY <1>1, <1>6, EmptyLog DEF Pad
  <2>2. NoMeta.id # Unreadable
    BY DEF NoMeta, None, Unreadable
  <2>3. PICK k : k = Enqueue(Blankness, NoMeta, j.count, SyncLoop, FALSE, j.count)
    OBVIOUS
  <2>4. Goto(w, k) /\ UNCHANGED reply
    BY <1>6, <2>1, <2>2, <2>3 DEF Pad
  <2>5. k.at = "head" /\ k.then = SyncLoop
    BY <2>3 DEF Enqueue
  <2>6. Credit(k, request[w]) = 0 /\ 0 < Rate
    BY <2>5, RateIs DEF Credit, Appending, SyncLoop, Idle
  <2>7. Roomed(nand', j', k, request[w])
    BY <1>2, <1>4, <2>1, <2>6 DEF Roomed, Due
  <2> QED BY <2>4, <2>7 DEF RoomTo, Granted
<1>7. CASE j.head # j.tail /\ MoveTail(w, Peek(nand, j), SyncLoop)
  <2>1. SyncLoop # Idle /\ SyncLoop.at # "gc" /\ SyncLoop.at \notin Appending
    BY CreditIs DEF SyncLoop, Idle
  <2>2. MoveTail(w, j, SyncLoop)
    <3>1. Peek(nand, j) = j
      BY <1>1, CleanPeek
    <3> QED BY <1>7, <3>1
  <2>3. Credit(SyncLoop, request[w]) \in 0..0 + 1
    BY <1>3, CreditIs
  <2> HIDE DEF MoveTail
  <2> QED BY <1>2, <1>3, <1>4, <1>7, <2>1, <2>2, <2>3, MoveTailRoom
<1> QED BY <1>5, <1>6, <1>7 DEF Sync

\* The client's operation is over, or refused by a full map.
LEMMA IdleRoom ==
    ASSUME NEW w, Spare(nand', j', 0), Goto(w, Idle), Granted(w)
    PROVE  RoomTo(w, Idle)
BY CreditIs DEF RoomTo, Roomed, Due

LEMMA ClearedRoom ==
    ASSUME NEW w, Calm(w), nand' = nand, j' = Clear(j), Succeed(w)
    PROVE  RoomTo(w, Idle)
<1>1. /\ nand \in Flash /\ j \in Journal /\ JournalOK(j)
  BY Known DEF Calm
<1>2. PICK m : m = Clear(j)
  OBVIOUS
<1>3. m \in Journal /\ m.count = 0
  BY <1>1, <1>2, Cleared
<1>4. /\ m.head = j.head /\ m.tail = j.head /\ m.tailSync = j.tailSync
      /\ m.root = None /\ m.bbCurrent = j.bbCurrent
  BY <1>1, <1>2 DEF Clear, Journal
<1>5. Held(m) <= 1
  <2>1. Held(m) = 0
    BY <1>3, <1>4, HeldType
  <2> QED BY <2>1
<1>6. \A s \in Sectors : TracePath(nand, m, s).page = None
  BY <1>1, <1>3, <1>4, EmptyTree
<1>7. /\ j.bbCurrent >= 0
      /\ Span(j.tailSync, j.head) <= Reach + 1 + (j.head % Ppc)
  BY DEF Calm, Roomed, Spare
<1>8. Spare(nand, m, 0)
  <2>1. Most > 0 /\ 0 <= Most /\ 0 \in 0..Rate
    BY RateIs, CapacityType DEF Calm
  <2> QED BY <1>3, <1>4, <1>5, <1>6, <1>7, <2>1, SpareEmpty
<1>9. Granted(w) /\ Goto(w, Idle)
  BY DEF Granted, Succeed, Answer
<1> QED BY <1>2, <1>8, <1>9, IdleRoom

LEMMA SpareAnyway ==
    ASSUME NEW w, Calm(w)
    PROVE  Spare(nand, j, 0)
<1>1. PICK c \in 0..Rate : c = Credit(proc[w], request[w]) /\ Spare(nand, j, c)
  BY DEF Calm, Roomed, Spare
<1>2. 0 \in 0..Rate /\ 0 <= c
  BY RateIs
<1>3. j \in Journal
  BY Known DEF Calm
<1> QED BY <1>1, <1>2, <1>3, SpareLess

LEMMA ReadRoom ==
    ASSUME NEW w, Calm(w), nand' = nand, ReadStep(w)
    PROVE  \E k : RoomTo(w, k)
<1>1. /\ nand \in Flash /\ j \in Journal /\ TreeOK(nand, j)
      /\ request[w] \in Requests
  BY Known DEF Calm
<1>2. PICK s \in Sectors : s = request[w].sector
  BY <1>1 DEF ReadStep, Requests
<1>3. ReadSector(nand, j, s, Blank) \in Data \cup {Blank}
  BY <1>1, ReadIs
<1>4. ReadSector(nand, j, s, Blank) # Unreadable
  BY <1>3, DataAssumption
<1>5. Answer(w, TRUE, ReadSector(nand, j, s, Blank)) /\ j' = j
  BY <1>2, <1>4 DEF ReadStep
<1>6. Granted(w) /\ Goto(w, Idle)
  BY <1>3, <1>5 DEF Granted, Answer
<1> QED BY <1>5, <1>6, SpareAnyway, IdleRoom

LEMMA ClearRoom ==
    ASSUME NEW w, Calm(w), nand' = nand, ClearStep(w)
    PROVE  \E k : RoomTo(w, k)
<1>1. Succeed(w) /\ (j' = j \/ j' = Clear(j))
  BY DEF ClearStep
<1>2. CASE j' = j
  <2>1. Granted(w) /\ Goto(w, Idle)
    BY <1>1 DEF Granted, Succeed, Answer
  <2> QED BY <1>2, <2>1, SpareAnyway, IdleRoom
<1>3. CASE j' = Clear(j)
  BY <1>1, <1>3, ClearedRoom
<1> QED BY <1>1, <1>2, <1>3

\* What a write or a trim starts to append.
LEMMA EnqueueRoom ==
    ASSUME NEW w, Calm(w), proc[w].at = "serve", request[w].op \in {"write", "trim"},
           nand' = nand, NEW count \in Int, count <= Most,
           j' = [j EXCEPT !.count = count], UNCHANGED reply,
           NEW k, Goto(w, k), k.at = "head", k.then = Idle, k.source # Blankness
    PROVE  RoomTo(w, k)
<1>1. nand \in Flash /\ j \in Journal /\ TreeOK(nand, j)
  BY Known DEF Calm
<1>2. PICK l : l = j'
  OBVIOUS
<1>3. /\ l \in Journal /\ l.count = count /\ l.head = j.head
      /\ l.tail = j.tail /\ l.root = j.root /\ l.metas = j.metas
  BY <1>1, <1>2, CountSet
<1>4. l.tailSync = j.tailSync /\ l.bbCurrent = j.bbCurrent
  BY <1>1, <1>2 DEF Journal
<1>5. /\ Contents(nand, l) = Contents(nand, j)
      /\ \A t \in Sectors : TracePath(nand, l, t).page = TracePath(nand, j, t).page
  BY <1>1, <1>3, Recounted
<1>6. Spare(nand, j, Rate)
  <2>1. Credit(proc[w], request[w]) = Rate
    BY DEF Credit
  <2> QED BY <2>1 DEF Calm, Roomed
<1>7. Spare(nand, l, Rate)
  <2>1. l.bbCurrent >= 0 /\ l.count <= Most
    BY <1>3, <1>4, <1>6 DEF Spare
  <2> QED BY <1>1, <1>3, <1>4, <1>5, <1>6, <2>1, SpareSame
<1>8. Credit(k, request[w]) = Rate
  BY DEF Credit, Appending
<1>9. Roomed(nand', j', k, request[w])
  BY <1>2, <1>7, <1>8 DEF Roomed, Due
<1> QED BY <1>9 DEF RoomTo, Granted

LEMMA WriteRoom ==
    ASSUME NEW w, Calm(w), proc[w].at = "serve", nand' = nand, WriteStep(w)
    PROVE  \E k : RoomTo(w, k)
<1>1. /\ nand \in Flash /\ j \in Journal /\ TreeOK(nand, j)
      /\ request[w] \in Requests /\ j.count \in Int
  BY Known DEF Calm
<1>2. request[w].op = "write"
  BY DEF WriteStep
<1>3. PICK s \in Sectors : s = request[w].sector
  BY <1>1, <1>2 DEF Requests
<1>4. PICK path : path = TracePath(nand, j, s)
  OBVIOUS
<1>5. path.page # Unreadable
  BY <1>1, <1>4, SectorPage
<1>6. PICK count \in Int : count = IF path.page = None THEN j.count + 1 ELSE j.count
  BY <1>1
<1>7. CASE Fail(w) /\ UNCHANGED j /\ path.page = None /\ j.count >= MapCapacity(j)
  <2>1. Granted(w)
    BY <1>2, <1>7 DEF Granted, MapFull
  <2>2. Goto(w, Idle)
    BY <1>7 DEF Fail, Answer
  <2> QED BY <1>7, <2>1, <2>2, SpareAnyway, IdleRoom
<1>8. CASE /\ ~(path.page = None /\ j.count >= MapCapacity(j))
           /\ j' = [j EXCEPT !.count = count] /\ UNCHANGED reply
           /\ Goto(w, Enqueue(FromUser(request[w].data), MetaFor(s, path),
                              count, Idle, FALSE, j.count))
  <2>1. PICK k : k = Enqueue(FromUser(request[w].data), MetaFor(s, path),
                             count, Idle, FALSE, j.count)
    OBVIOUS
  <2>2. k.at = "head" /\ k.then = Idle /\ k.source # Blankness
    BY <2>1 DEF Enqueue, FromUser, Blankness
  <2>3. count <= Most
    <3>1. j.bbCurrent >= 0 /\ j.count <= Most
      BY DEF Calm, Roomed, Spare
    <3>2. MapCapacity(j) \in Int /\ MapCapacity(j) <= Most
      BY <1>1, <3>1, CapacityIs
    <3> QED BY <1>1, <1>6, <1>8, <3>1, <3>2, CapacityType
  <2> QED BY <1>2, <1>8, <2>1, <2>2, <2>3, EnqueueRoom
<1>9. \/ /\ path.page = Unreadable \/ (path.page = None /\ j.count >= MapCapacity(j))
         /\ Fail(w) /\ UNCHANGED j
      \/ /\ ~(path.page = None /\ j.count >= MapCapacity(j))
         /\ j' = [j EXCEPT !.count = count] /\ UNCHANGED reply
         /\ Goto(w, Enqueue(FromUser(request[w].data), MetaFor(s, path),
                            count, Idle, FALSE, j.count))
  BY <1>3, <1>4, <1>6 DEF WriteStep
<1> QED BY <1>5, <1>7, <1>8, <1>9

LEMMA TrimRoom ==
    ASSUME NEW w, Calm(w), proc[w].at = "serve", nand' = nand, TrimStep(w)
    PROVE  \E k : RoomTo(w, k)
<1>1. /\ nand \in Flash /\ j \in Journal /\ TreeOK(nand, j)
      /\ request[w] \in Requests /\ j.count \in Int
  BY Known DEF Calm
<1>2. request[w].op = "trim"
  BY DEF TrimStep
<1>3. PICK s \in Sectors : s = request[w].sector
  BY <1>1, <1>2 DEF Requests
<1>4. PICK path : path = TracePath(nand, j, s)
  OBVIOUS
<1>5. path.page # Unreadable /\ path.page \in UserPages \cup {None}
  BY <1>1, <1>4, SectorPage
<1>6. path.page # None => path.page >= 0
  BY <1>5, UserPage
<1>7. CASE Succeed(w) /\ UNCHANGED j
  <2>1. Granted(w) /\ Goto(w, Idle)
    BY <1>7 DEF Granted, Succeed, Answer
  <2> QED BY <1>7, <2>1, SpareAnyway, IdleRoom
<1>8. CASE Succeed(w) /\ j' = Clear(j)
  BY <1>8, ClearedRoom
<1> DEFINE del == Deletion(nand, j, path)
           k == Enqueue(FromPage(del.page), del.meta, j.count - 1, Idle, FALSE,
                        j.count)
<1>9. CASE Goto(w, k) /\ UNCHANGED <<j, reply>>
  <2>1. k.at = "head" /\ k.then = Idle /\ k.source # Blankness
    BY DEF Enqueue, FromPage, Blankness
  <2> HIDE DEF k, del
  <2>2. j.count <= Most
    BY DEF Calm, Roomed, Spare
  <2>3. j' = [j EXCEPT !.count = j.count]
    BY <1>1, <1>9 DEF Journal
  <2> QED BY <1>1, <1>2, <1>9, <2>1, <2>2, <2>3, EnqueueRoom
<1>10. Cousins(path) # {} => del.meta.id # Unreadable
  <2>1. Cousins(path) # {} => del.meta.id \in Sectors
    BY <1>1, <1>4, DeletionGrafts
  <2> QED BY <2>1, SectorAssumption DEF Unreadable
<1>11. \/ path.page = None /\ Succeed(w) /\ UNCHANGED j
       \/ path.page = Unreadable
       \/ /\ path.page >= 0 /\ Cousins(path) = {}
          /\ Succeed(w) /\ j' = Clear(j)
       \/ /\ path.page >= 0 /\ Cousins(path) # {}
          /\ \/ del.meta.id = Unreadable
             \/ Goto(w, k) /\ UNCHANGED <<j, reply>>
  BY <1>3, <1>4, <1>5, <1>6 DEF TrimStep
<1> HIDE DEF k, del
<1> QED BY ONLY <1>5, <1>7, <1>8, <1>9, <1>10, <1>11

LEMMA CarryRoom ==
    ASSUME NEW w, Calm(w), Carry(w)
    PROVE  \E k : RoomTo(w, k)
<1>1. /\ proc[w].at = "serve" /\ nand' = nand
      /\ ReadStep(w) \/ ClearStep(w) \/ WriteStep(w) \/ TrimStep(w)
  BY DEF Carry, At
<1> QED BY <1>1, ReadRoom, ClearRoom, WriteRoom, TrimRoom

\* On a clean flash prepare_head skips no block, and none is counted as bad.
LEMMA NoneSkipped ==
    ASSUME Clean(nand), NEW jj \in Journal, jj.head % Ppb = 0
    PROVE  SkipBad(jj).ok /\ SkipBad(jj).j = jj
<1> DEFINE b == Block(jj.head)
           good(i) == ~IsBad(nand, (b + i) % NumBlocks)
           stop(i) == (b + i + 1) % NumBlocks = Block(jj.tailSync)
           ends == {i \in 0..MaxRetries - 1 : good(i) \/ stop(i)}
           i == IF ends = {} THEN MaxRetries
                ELSE CHOOSE k \in ends : \A m \in ends : k <= m
           ok == i < MaxRetries /\ good(i)
           skipped == [jj EXCEPT !.bbCurrent = @ + i,
                                 !.head = FirstOf((b + i) % NumBlocks)]
           turned == IF b + i >= NumBlocks
                     THEN [skipped EXCEPT !.bbLast = jj.bbCurrent + NumBlocks - b,
                                          !.bbCurrent = b + i - NumBlocks,
                                          !.epoch = @ + 1]
                     ELSE skipped
<1>1. jj.head \in Pages /\ b \in 0..NumBlocks - 1
  BY UserPage, BlockOf DEF Journal
<1>2. b + 0 = b /\ b % NumBlocks = b
  BY <1>1, Geometry
<1>3. good(0)
  BY <1>1, <1>2, CleanBlock
<1>4. 0 \in ends
  BY <1>3, GeometryAssumption
<1>5. i = 0
  <2>1. ends # {} /\ \A m \in ends : m >= 0
    BY <1>4
  <2>2. \A k \in ends : (\A m \in ends : k <= m) => k = 0
    <3> HIDE DEF ends
    <3>1. ASSUME NEW k \in ends, \A m \in ends : k <= m PROVE k <= 0
      BY <1>4, <3>1
    <3>2. \A k \in ends : k \in Int
      BY DEF ends
    <3> QED BY <2>1, <3>1, <3>2
  <2>3. \E k \in ends : \A m \in ends : k <= m
    BY <1>4, <2>1
  <2> HIDE DEF ends
  <2> QED BY <2>1, <2>2, <2>3
<1> HIDE DEF i
<1>6. ok
  BY <1>3, <1>5, GeometryAssumption
<1>7. skipped = jj
  <2>1. FirstOf((b + i) % NumBlocks) = jj.head
    BY <1>1, <1>2, <1>5, Aligned
  <2>2. jj.bbCurrent + i = jj.bbCurrent
    BY <1>5 DEF Journal
  <2> HIDE DEF b
  <2> QED BY <2>1, <2>2 DEF Journal
<1>8. turned = skipped
  <2>1. ~(b + i >= NumBlocks)
    BY <1>1, <1>5, Geometry
  <2> HIDE DEF skipped
  <2> QED BY <2>1
<1>9. SkipBad(jj) = [ok |-> ok, j |-> IF ok \/ i = MaxRetries THEN turned
                                       ELSE [turned EXCEPT !.bbCurrent = @ + 1]]
  BY DEF SkipBad, i
<1> HIDE DEF ok, turned, skipped
<1> QED BY <1>6, <1>7, <1>8, <1>9

\* A worker that goes on appending its page.
LEMMA KeptRoom ==
    ASSUME NEW w, Calm(w), proc[w].at \in Appending, nand' \in Flash,
           j' \in Journal, Keeps(nand, j, nand', j'),
           j'.root = j.root, j'.head = j.head, j'.tail = j.tail,
           j'.tailSync = j.tailSync, j'.bbCurrent = j.bbCurrent,
           j'.count = j.count, UNCHANGED reply,
           NEW k, Goto(w, k), k.at \in Appending,
           k.source = proc[w].source, k.then = proc[w].then
    PROVE  RoomTo(w, k)
<1>1. nand \in Flash /\ j \in Journal /\ TreeOK(nand, j)
  BY Known DEF Calm
<1>2. PICK n2 \in Flash : n2 = nand'
  OBVIOUS
<1>3. PICK l \in Journal : l = j'
  OBVIOUS
<1>4. PICK c : c = Credit(proc[w], request[w])
  OBVIOUS
<1>5. Spare(nand, j, c) /\ Due(j, proc[w], request[w])
  BY <1>4 DEF Calm, Roomed
<1>6. /\ l.head = j.head /\ l.tail = j.tail /\ l.tailSync = j.tailSync
      /\ l.root = j.root /\ Keeps(nand, j, n2, l)
      /\ l.bbCurrent = j.bbCurrent /\ l.count = j.count
  BY <1>2, <1>3
<1>7. \A t \in Sectors :
        /\ TracePath(n2, l, t) = TracePath(nand, j, t)
        /\ ReadSector(n2, l, t, Blank) = ReadSector(nand, j, t, Blank)
  BY <1>1, <1>6, SameTree
<1>8. Contents(n2, l) = Contents(nand, j)
  BY <1>7 DEF Contents
<1>9. Spare(n2, l, c)
  <2>1. l.bbCurrent >= 0 /\ l.count <= Most
    BY <1>5, <1>6 DEF Spare
  <2> QED BY <1>1, <1>5, <1>6, <1>7, <1>8, <2>1, SpareSame
<1>10. Credit(k, request[w]) = c
  BY <1>4 DEF Credit, Appending
<1>11. Due(l, k, request[w])
  BY <1>4, <1>5, <1>6, <1>10 DEF Due
<1>12. Roomed(nand', j', k, request[w])
  BY <1>2, <1>3, <1>9, <1>10, <1>11 DEF Roomed
<1> QED BY <1>12 DEF RoomTo, Granted

LEMMA PrepareHeadRoom ==
    ASSUME Ample, NEW w, Calm(w), PrepareHead(w)
    PROVE  \E k : RoomTo(w, k)
<1> DEFINE dirty == [j EXCEPT !.dirty = TRUE]
           found == SkipBad(dirty)
           program == [proc[w] EXCEPT !.at = "program"]
           erase == [proc[w] EXCEPT !.at = "erase"]
<1>1. /\ nand \in Flash /\ j \in Journal /\ JournalOK(j) /\ Clean(nand)
      /\ TreeOK(nand, j) /\ Inv /\ w \in Workers
  BY Known DEF Calm
<1>2. proc[w].at = "head" /\ nand' = nand /\ proc[w].at \in Appending
  BY DEF PrepareHead, At, Appending
<1>3. proc[w] \in Appends
  BY <1>1, <1>2, AppendingAt
<1>4. /\ dirty \in Journal /\ dirty.head = j.head /\ dirty.tail = j.tail
      /\ dirty.tailSync = j.tailSync /\ dirty.bbCurrent = j.bbCurrent
      /\ dirty.root = j.root /\ dirty.metas = j.metas /\ dirty.count = j.count
  BY <1>1 DEF Journal
<1>5. \A k \in {program, erase} :
        /\ k.at \in {"program", "erase"}
        /\ k.source = proc[w].source /\ k.then = proc[w].then
  BY <1>3 DEF Appends
<1>6. j.head % Ppb = 0 => found.ok /\ found.j = dirty
  <2> HIDE DEF dirty
  <2> QED BY <1>1, <1>4, NoneSkipped
<1>7. ~(/\ Block(NextUpage(j.head)) = Block(j.tailSync)
        /\ Block(NextUpage(j.head)) # Block(j.head))
  BY <1>1, NeverFull DEF Calm, Roomed
<1>8. \/ j' = dirty /\ UNCHANGED reply /\ Goto(w, program)
      \/ /\ j.head % Ppb = 0 /\ j' = found.j /\ UNCHANGED reply
         /\ Goto(w, erase)
      \/ j.head % Ppb = 0 /\ ~found.ok
  BY <1>7 DEF PrepareHead
<1>9. PICK k \in {program, erase} : j' = dirty /\ UNCHANGED reply /\ Goto(w, k)
  <2> HIDE DEF found, dirty, program, erase
  <2> QED BY <1>6, <1>8
<1> HIDE DEF dirty, found, program, erase
<1>10. PICK l \in Journal : l = j' /\ l = dirty
  BY <1>4, <1>9
<1>11. Keeps(nand, j, nand', j')
  <2>1. Keeps(nand, j, nand, l)
    BY <1>1, <1>4, <1>10, Relabelled
  <2> QED BY <1>2, <1>10, <2>1
<1>12. k.at \in Appending /\ k.source = proc[w].source /\ k.then = proc[w].then
  BY <1>5 DEF Appending
<1> QED BY <1>1, <1>2, <1>4, <1>9, <1>10, <1>11, <1>12, KeptRoom

LEMMA EraseRoom ==
    ASSUME NEW w, Calm(w), Erase(w)
    PROVE  \E k : RoomTo(w, k)
<1> DEFINE program == [proc[w] EXCEPT !.at = "program"]
<1>1. /\ nand \in Flash /\ j \in Journal /\ JournalOK(j) /\ Clean(nand)
      /\ TreeOK(nand, j) /\ Inv /\ w \in Workers /\ FlashOK(nand)
  BY Known DEF Calm
<1>2. /\ proc[w].at = "erase" /\ proc[w].at \in Appending
      /\ nand' = Erased(nand, Block(j.head))
      /\ Goto(w, program) /\ UNCHANGED <<j, reply>>
  BY DEF Erase, At, OnFlash, Appending
<1>3. proc[w] \in Appends
  BY <1>1, <1>2, AppendingAt DEF Appending
<1>4. PICK b : b = Block(j.head)
  OBVIOUS
<1>5. PICK n2 : n2 = [p \in Pages |-> IF Block(p) = b THEN Free ELSE nand[p]]
  OBVIOUS
<1>6. nand' = n2
  BY <1>2, <1>4, <1>5 DEF Erased
<1>7. n2 \in Flash
  BY <1>1, <1>5, BlockErased DEF FlashOK
<1>8. Keeps(nand, j, n2, j)
  <2>1. \A p \in UserPages : Within(j.tail, j.head, p) => Block(p) # b
    BY <1>1, <1>2, <1>4, LogBeyondErase
  <2>2. \A p \in Pages : Block(p) # b => n2[p] = nand[p]
    BY <1>5
  <2> QED BY <1>1, <1>4, <2>1, <2>2, ErasedKeeps
<1>9. program.at \in Appending /\ program.source = proc[w].source
      /\ program.then = proc[w].then
  BY <1>3 DEF Appends, Appending
<1> HIDE DEF program
<1>10. Keeps(nand, j, nand', j') /\ nand' \in Flash /\ j' \in Journal
  BY <1>1, <1>2, <1>6, <1>7, <1>8
<1> QED BY <1>2, <1>9, <1>10, KeptRoom

\* The page has landed, and its caller goes on.
LEMMA ProceedRoom ==
    ASSUME NEW w, Calm(w), proc[w].at \in Appending, nand' \in Flash,
           NEW l, JournalOK(l), l.head = NextUpage(j.head), l.bbCurrent >= 0,
           Span(l.tailSync, l.head) <= Reach + 1 + (l.head % Ppc),
           Lands(nand, j, nand', l, proc[w]), Proceed(w, l)
    PROVE  \E k : RoomTo(w, k)
<1>1. /\ nand \in Flash /\ JournalOK(j) /\ TreeOK(nand, j) /\ Inv /\ w \in Workers
      /\ Counted(nand, j, proc[w], request[w]) /\ request[w] \in Requests
  BY Known DEF Calm
<1>2. Half(nand, j, proc[w], request[w]) /\ proc[w] \in Appends
  BY <1>1, AppendingAt DEF Counted, Appending
<1>3. PICK n2 \in Flash : n2 = nand'
  OBVIOUS
<1>4. PICK k : k = proc[w]
  OBVIOUS
<1>5. PICK r \in Requests : r = request[w]
  BY <1>1
<1>6. PICK m : m = j'
  OBVIOUS
<1>7. Finished(l, k, r, m)
  BY <1>4, <1>5, <1>6 DEF Proceed, Finished
<1>8. k.then \in Thens
  BY <1>2, <1>4 DEF Appends
<1>9. Spare(nand, j, Credit(k, r)) /\ Due(j, k, r) /\ Most > 0
  BY <1>4, <1>5 DEF Calm, Roomed
<1>10. Landing(nand, j, n2, l, k, r, m)
  BY <1>1, <1>2, <1>3, <1>4, <1>5, <1>7, <1>8, <1>9 DEF Landing
<1>11. Spare(nand', j', Credit(k.then, request[w]))
  BY <1>3, <1>5, <1>6, <1>10, LandingIsSpare
<1>12. k.then.at \notin Appending
  BY <1>8, CreditIs DEF Thens, Appending
<1>13. Roomed(nand', j', k.then, request[w])
  BY <1>11, <1>12 DEF Roomed, Due
<1>14. Goto(w, k.then) /\ Granted(w)
  BY <1>4 DEF Proceed, Succeed, Answer, Granted
<1> QED BY <1>13, <1>14 DEF RoomTo

\* What is appended can be read.
LEMMA NotTorn ==
    ASSUME NEW w, At0(w), proc[w].at = "program"
    PROVE  Content(proc[w].source).kind # "torn"
<1>1. /\ nand \in Flash /\ j \in Journal /\ TreeOK(nand, j) /\ Inv /\ w \in Workers
      /\ request[w] \in Requests /\ Counted(nand, j, proc[w], request[w])
  BY Known
<1>2. Half(nand, j, proc[w], request[w])
  BY <1>1 DEF Counted, Appending
<1>3. PICK source : source = proc[w].source
  OBVIOUS
<1>4. CASE source = Blankness
  BY <1>3, <1>4 DEF Content, Blankness
<1>5. CASE source # Blankness
  <2>1. /\ Wanted(nand, source).kind = "user"
        /\ source.kind = "copy" => nand[source.page].kind = "user"
    BY <1>1, <1>2, <1>3, <1>5, SourceIs
  <2>2. Content(source) = Wanted(nand, source)
    BY <2>1, FreeHasNoFields DEF Content, Wanted
  <2> QED BY <1>3, <2>1, <2>2
<1> QED BY <1>4, <1>5

LEMMA ProgramRoom ==
    ASSUME NEW w, Calm(w), Program(w)
    PROVE  \E k : RoomTo(w, k)
<1> DEFINE pushed == Pushed(w)
           moved == [pushed EXCEPT !.root = j.head, !.head = @ + 1]
           check == [proc[w] EXCEPT !.at = "check", !.oldHead = j.head]
<1>1. /\ nand \in Flash /\ j \in Journal /\ JournalOK(j) /\ Inv /\ w \in Workers
      /\ At0(w) /\ j.head \in UserPages
  BY Known DEF Calm
<1>2. proc[w].at = "program" /\ proc[w].at \in Appending
  BY DEF Program, At, Appending
<1>3. proc[w] \in Appends
  BY <1>1, <1>2, AppendingAt
<1>4. /\ nand' = AfterData(w)
      /\ \/ (j.head + 2) % Ppc # 0 /\ Proceed(w, moved)
         \/ Goto(w, check) /\ j' = pushed /\ UNCHANGED reply
  BY <1>1, <1>2, NotTorn DEF Program, OnFlash
<1>5. nand' \in Flash
  BY <1>1, <1>2, <1>4, DataLands
<1>6. CASE (j.head + 2) % Ppc # 0 /\ Proceed(w, moved)
  <2>1. PICK l : l = moved
    OBVIOUS
  <2>2. /\ JournalOK(l) /\ l.head = NextUpage(j.head) /\ l.head = j.head + 1
        /\ l.tailSync = j.tailSync /\ l.bbCurrent = j.bbCurrent
        /\ Lands(nand, j, nand', l, proc[w])
    BY <1>1, <1>2, <1>4, <1>6, <2>1, PushLands
  <2> HIDE DEF moved
  <2>3. /\ j.bbCurrent >= 0
        /\ Span(j.tailSync, j.head) <= Reach + 1 + (j.head % Ppc)
    BY DEF Calm, Roomed, Spare
  <2>4. PICK h \in UserPages, s \in UserPages : h = j.head /\ s = j.tailSync
    BY <1>1 DEF Journal
  <2>5. (h + 1) % Ppc = (h % Ppc) + 1
    <3>1. h \in Int /\ h % Ppc \in 0..Ppc - 2
      BY UserPage
    <3>2. Group(h + 1) = Group(h)
      BY <1>6, <2>4, NextUserPage
    <3>3. PICK g \in Int, m \in Int : g = Group(h) /\ m = Group(h) * Ppc
      <4>1. PICK g \in Int : g = Group(h)
        BY <3>1, GroupOf
      <4>2. Ppc \in Int
        BY Geometry
      <4>3. g * Ppc \in Int
        BY <4>1, <4>2
      <4> QED BY <4>1, <4>3
    <3>4. h = m + (h % Ppc) /\ h % Ppc \in Int
      BY <3>1, <3>3, GroupOf
    <3>5. h + 1 = m + ((h + 1) % Ppc) /\ (h + 1) % Ppc \in Int
      <4>1. PICK i \in Int : i = h + 1
        BY <3>1
      <4>2. i = Group(i) * Ppc + (i % Ppc) /\ i % Ppc \in 0..Ppc - 1
        BY GroupOf
      <4> QED BY <3>2, <3>3, <4>1, <4>2, Geometry
    <3> QED BY <3>1, <3>3, <3>4, <3>5
  <2>6. Span(s, h + 1) <= Span(s, h) + 1
    <3>1. Span(s, h) \in Nat
      BY SpanIs
    <3>2. NextUpage(h) = h + 1
      BY <2>2, <2>4
    <3>3. CASE NextUpage(h) # s
      BY <3>1, <3>2, <3>3, SpanGrows
    <3>4. CASE NextUpage(h) = s
      BY <3>1, <3>2, <3>4, SpanIs
    <3> QED BY <3>3, <3>4
  <2>7. Span(l.tailSync, l.head) <= Reach + 1 + (l.head % Ppc)
    <3>1. /\ Span(s, h) \in Nat /\ Span(s, h + 1) \in Int /\ h % Ppc \in Int
          /\ Reach \in Int
      <4>1. h + 1 \in UserPages
        BY <2>2, <2>4 DEF JournalOK, Journal
      <4> QED BY <4>1, SpanIs, CapacityType, UserPage
    <3>2. PICK a \in Int, b \in Int, c \in Int, d \in Int, e \in Int :
            /\ a = Span(s, h) /\ b = Span(s, h + 1) /\ c = h % Ppc
            /\ d = (h + 1) % Ppc /\ e = Reach
      BY <2>5, <3>1
    <3>3. a <= e + 1 + c /\ d = c + 1 /\ b <= a + 1
      BY <2>3, <2>4, <2>5, <2>6, <3>2
    <3> QED BY <2>2, <2>4, <3>2, <3>3
  <2> QED BY <1>2, <1>5, <1>6, <2>1, <2>2, <2>3, <2>7, ProceedRoom
<1>7. CASE Goto(w, check) /\ j' = pushed /\ UNCHANGED reply
  <2>1. /\ pushed \in Journal /\ pushed.head = j.head /\ pushed.root = j.root
        /\ pushed.tail = j.tail /\ pushed.tailSync = j.tailSync
        /\ pushed.count = j.count /\ pushed.bbCurrent = j.bbCurrent
    BY <1>1, <1>2, PushedIs
  <2>2. Keeps(nand, j, nand', pushed)
    BY <1>1, <1>2, <1>4, PushKeeps
  <2>3. check.at \in Appending /\ check.source = proc[w].source
        /\ check.then = proc[w].then
    BY <1>3 DEF Appends, Appending
  <2> HIDE DEF check, pushed
  <2> QED BY <1>2, <1>5, <1>7, <2>1, <2>2, <2>3, KeptRoom
<1> QED BY <1>4, <1>6, <1>7

\* The checkpoint's tail becomes the last-synced one.
LEMMA PushMetaRoom ==
    ASSUME NEW w, Calm(w), PushMeta(w)
    PROVE  \E k : RoomTo(w, k)
<1>1. /\ proc[w].at = "check" /\ proc[w].at \in Appending /\ At0(w)
      /\ nand' = AfterCheckpoint(w) /\ Proceed(w, Checkpointed(w))
  BY DEF PushMeta, At, OnFlash, Appending, Checkpointed, Calm
<1>2. PICK n2, l : n2 = nand' /\ l = Checkpointed(w)
  OBVIOUS
<1>3. /\ n2 \in Flash /\ JournalOK(l) /\ l.head = NextUpage(j.head)
      /\ l.tail = j.tail /\ l.tailSync = j.tail
      /\ Lands(nand, j, n2, l, proc[w])
  BY <1>1, <1>2, CheckpointLands
<1>4. j \in Journal
  BY <1>1, Known
<1>5. j.bbCurrent >= 0 /\ \E c \in 0..Rate : Paced(Spot(nand, j), Held(j), c)
  BY DEF Calm, Roomed, Spare
<1>6. l.bbCurrent >= 0
  <2>1. PICK clean : clean = [j EXCEPT !.dirty = FALSE, !.root = proc[w].oldHead,
                                       !.head = NextUpage(j.head)]
    OBVIOUS
  <2>2. l = [RollStats(clean) EXCEPT !.tailSync = j.tail]
    BY <1>2, <2>1 DEF Checkpointed
  <2>3. DOMAIN clean = DOMAIN j /\ clean.bbCurrent = j.bbCurrent
        /\ "bbCurrent" \in DOMAIN clean
    BY <1>4, <2>1 DEF Journal
  <2>4. "bbCurrent" \in DOMAIN RollStats(clean)
        /\ RollStats(clean).bbCurrent \in {0, j.bbCurrent}
    BY <2>3 DEF RollStats
  <2>5. l.bbCurrent \in {0, j.bbCurrent}
    BY <2>2, <2>4
  <2> QED BY <1>5, <2>5
<1>7. Span(l.tailSync, l.head) <= Reach + 1 + (l.head % Ppc)
  <2>1. PICK h \in UserPages, t \in UserPages : h = j.head /\ t = j.tail
    BY <1>4 DEF Journal
  <2>2. NextUpage(h) \in UserPages /\ NextUpage(h) = l.head
    BY <1>3, <2>1 DEF JournalOK, Journal
  <2>3. NextUpage(h) # t
    <3>1. Within(l.tail, l.head, j.head)
      BY <1>3 DEF Lands
    <3>2. t \in Int /\ h \in Int
      BY UserPage
    <3> QED BY <1>3, <2>1, <3>1, <3>2 DEF Within
  <2>4. Span(t, NextUpage(h)) = Span(t, h) + 1
    BY <2>3, SpanGrows
  <2>5. PICK L \in Nat : L = Held(j) /\ L = Span(t, h)
    BY <1>4, <2>1, HeldType DEF Held
  <2>6. L <= Reach
    <3>1. PICK c \in 0..Rate : Paced(Spot(nand, j), L, c)
      BY <1>5, <2>5
    <3>2. c \in Nat
      BY RateIs
    <3> QED BY <3>1, <3>2, PacedReach
  <2>7. PICK r \in Int, m \in Nat : r = Reach /\ m = l.head % Ppc
    BY <2>2, UserPage, CapacityType
  <2>8. Span(l.tailSync, l.head) = L + 1
    BY <1>3, <2>1, <2>2, <2>4, <2>5
  <2> QED BY <2>6, <2>7, <2>8
<1> QED BY <1>1, <1>2, <1>3, <1>6, <1>7, ProceedRoom

-----------------------------------------------------------------------------
(* Until the first reset the log stays spare.                              *)
SecureRoom == crashes = 0 => Roomy

OnlyWhenFull == \A w \in Workers : Refused(w) => MapFull(w)

\* An empty map without capacity has no page to append.
LEMMA BarrenStep ==
    ASSUME NEW w, At0(w), Most = 0, Barren, Work(w)
    PROVE  Barren' /\ OnlyWhenFull
<1>1. /\ nand \in Flash /\ j \in Journal /\ TreeOK(nand, j) /\ Inv /\ w \in Workers
      /\ Counted(nand, j, proc[w], request[w]) /\ request[w] \in Requests
  BY Known
<1>2. /\ proc \in [Workers -> Places] /\ j.count = 0 /\ j.dirty = FALSE
      /\ j.bbCurrent >= 0 /\ \A v \in Workers : proc[v].at \notin Appending
  BY <1>1 DEF Inv, TypeInv, Barren
<1>3. Count(Contents(nand, j)) = 0
  BY <1>1, <1>2 DEF Counted
<1>4. \A s \in Sectors : TracePath(nand, j, s).page = None
  <2>1. Contents(nand, j) = [s \in Sectors |-> Blank]
    BY <1>1, <1>3, NoneCounted
  <2> QED BY <1>1, <2>1, ContentsType
<1>5. j.count >= MapCapacity(j)
  <2>1. MapCapacity(j) \in Int /\ MapCapacity(j) <= Most
    BY <1>1, <1>2, CapacityIs
  <2> QED BY <1>2, <2>1
<1>6. ASSUME j' = j, NEW k, Goto(w, k), k.at \notin Appending
      PROVE  Barren'
  <2>1. \A v \in Workers : proc'[v] = IF v = w THEN k ELSE proc[v]
    BY <1>2, <1>6 DEF Goto
  <2> QED BY <1>2, <1>6, <2>1 DEF Barren
<1>7. ASSUME j' = j, Goto(w, Idle), Granted(w)
      PROVE  Barren' /\ OnlyWhenFull
  <2>1. Barren'
    BY <1>6, <1>7, CreditIs
  <2> QED BY <1>1, <1>7, <2>1, GrantedIs DEF OnlyWhenFull, Inv
<1>8. CASE Gc(w)
  <2>1. j' = j /\ Goto(w, Serve) /\ UNCHANGED reply
    BY <1>2, <1>8 DEF Gc
  <2>2. Barren'
    BY <1>6, <2>1, CreditIs
  <2> QED BY <2>1, <2>2 DEF OnlyWhenFull, Refused
<1>9. CASE Sync(w)
  <2>1. j' = j /\ Succeed(w)
    BY <1>2, <1>9 DEF Sync
  <2> QED BY <1>7, <2>1 DEF Granted, Succeed, Answer
<1>10. CASE ReadStep(w)
  <2>1. PICK s \in Sectors : s = request[w].sector
    BY <1>1, <1>10 DEF ReadStep, Requests
  <2>2. ReadSector(nand, j, s, Blank) \in Data \cup {Blank}
    BY <1>1, ReadIs
  <2>3. ReadSector(nand, j, s, Blank) # Unreadable
    BY <2>2, DataAssumption
  <2>4. Answer(w, TRUE, ReadSector(nand, j, s, Blank)) /\ j' = j
    BY <1>10, <2>1, <2>3 DEF ReadStep
  <2> QED BY <1>7, <2>2, <2>4 DEF Granted, Answer
<1>11. CASE ClearStep(w)
  <2>1. j' = j /\ Succeed(w)
    BY <1>2, <1>11 DEF ClearStep
  <2> QED BY <1>7, <2>1 DEF Granted, Succeed, Answer
<1>12. CASE WriteStep(w)
  <2>1. request[w].op = "write"
    BY <1>12 DEF WriteStep
  <2>2. PICK s \in Sectors : s = request[w].sector
    BY <1>1, <2>1 DEF Requests
  <2>3. Fail(w) /\ j' = j
    BY <1>4, <1>5, <1>12, <2>2 DEF WriteStep
  <2> QED BY <1>5, <1>7, <2>1, <2>3 DEF Granted, MapFull, Fail, Answer
<1>13. CASE TrimStep(w)
  <2>1. request[w].op = "trim"
    BY <1>13 DEF TrimStep
  <2>2. PICK s \in Sectors : s = request[w].sector
    BY <1>1, <2>1 DEF Requests
  <2>3. PICK path : path = TracePath(nand, j, s) /\ path.page = None
    BY <1>4
  <2>4. \/ path.page = None /\ Succeed(w) /\ UNCHANGED j
        \/ path.page # None
    BY <1>13, <2>2, <2>3 DEF TrimStep, None, Unreadable
  <2> QED BY <1>7, <2>3, <2>4 DEF Granted, Succeed, Answer
<1>14. ~(PrepareHead(w) \/ Erase(w) \/ Program(w) \/ PushMeta(w))
  BY <1>1, <1>2 DEF PrepareHead, Erase, Program, PushMeta, At, Appending
<1> QED BY <1>8, <1>9, <1>10, <1>11, <1>12, <1>13, <1>14 DEF Work, Carry

LEMMA WorkRoom ==
    ASSUME Ample, NEW w \in Workers, Inv, Untouched, Roomy, Inv', Work(w)
    PROVE  Roomy' /\ OnlyWhenFull
<1>1. At0(w)
  BY WorkStepExists DEF At0
<1>2. UNCHANGED request
  BY DEF Work, Gc, Carry, Sync, PrepareHead, Erase, Program, PushMeta, At
<1>3. CASE Most = 0
  BY <1>1, <1>3, BarrenStep DEF Roomy
<1>4. CASE Most # 0
  <2>1. Calm(w)
    BY <1>1, <1>4, CapacityType DEF Calm, Roomy, At0
  <2>2. PICK k : RoomTo(w, k)
    BY <2>1, GcRoom, CarryRoom, SyncRoom, PrepareHeadRoom, EraseRoom, ProgramRoom,
       PushMetaRoom DEF Work
  <2> QED BY <1>2, <2>1, <2>2, RoomStep DEF OnlyWhenFull
<1> QED BY <1>3, <1>4

\* A write begins with rounds of garbage collection, or does without them as
\* long as the log is short.
LEMMA AskRoom ==
    ASSUME NEW w \in Workers, NEW r \in Requests, Exclusive, Inv, Untouched, Roomy,
           Ask(w, r)
    PROVE  Roomy' /\ OnlyWhenFull
<1>1. /\ Quiet /\ request' = [request EXCEPT ![w] = r]
      /\ proc' = [proc EXCEPT ![w] = Entry(r)] /\ nand' = nand /\ j' = j
      /\ reply' = reply
  BY DEF Ask, Goto
<1>2. OnlyWhenFull
  BY <1>1 DEF OnlyWhenFull, Refused
<1>3. PICK k : k = Entry(r)
  OBVIOUS
<1>4. \/ k = Serve /\ r.op \in {"read", "clear"}
      \/ k = SyncLoop
      \/ k = Collect(Rounds)
  BY <1>3 DEF Entry
<1>5. k.at \notin Appending
  BY <1>4, CreditIs
<1>6. /\ \A v \in Workers : v # w => proc'[v] = Idle
      /\ proc'[w] = k /\ request'[w] = r
  BY <1>1, <1>3 DEF Quiet, Inv, TypeInv
<1>7. CASE Most = 0
  <2>1. \A v \in Workers : proc'[v].at \notin Appending
    BY <1>5, <1>6, CreditIs
  <2> QED BY <1>1, <1>2, <1>7, <2>1 DEF Roomy, Barren
<1>8. CASE Most # 0
  <2>1. Spare(nand, j, 0)
    BY <1>8 DEF Roomy
  <2>2. nand \in Flash /\ j \in Journal /\ JournalOK(j) /\ TreeOK(nand, j)
    BY DEF Inv, LogInv, FlashOK, JournalOK, Untouched, MapOK
  <2>3. CASE JournalSize(j) < MapCapacity(j)
    <3>1. Spare(nand, j, Rate)
      <4>1. PICK L \in Nat : L = Held(j) /\ L <= Span(j.tailSync, j.head)
        BY <2>2, SpanOfTails DEF Held
      <4>2. MapCapacity(j) \in Int /\ MapCapacity(j) <= Most
        BY <2>1, <2>2, CapacityIs DEF Spare
      <4>3. PICK x \in Nat : x = Span(j.tailSync, j.head) /\ x = JournalSize(j)
        BY <2>2, HeldType, SizeIs
      <4>4. Most \in Nat
        BY CapacityType
      <4>5. L < Most /\ Most > 0
        BY <2>3, <4>1, <4>2, <4>3, <4>4
      <4>6. PICK f : f = Spot(nand, j)
        OBVIOUS
      <4>7. Apart(f, L)
        BY <2>2, <4>1, <4>6, SpotIs
      <4>8. Paced(f, L, Rate)
        BY <4>5, <4>7, ShortIsPaced
      <4>9. Rate \in 0..Rate
        BY RateIs
      <4> QED BY <2>1, <4>1, <4>6, <4>8, <4>9 DEF Spare
    <3>2. PICK c \in 0..Rate : c = Credit(k, r)
      <4>1. Rounds = 0
        BY <2>3 DEF Rounds
      <4>2. Credit(k, r) \in {0, Rate - 0}
        BY <1>4, <4>1, CreditIs DEF Credit, Serve
      <4> QED BY <4>2, RateIs
    <3>3. Spare(nand, j, c)
      <4>1. Rate \in Int /\ c <= Rate
        BY <3>2, RateIs
      <4> QED BY <2>2, <3>1, <4>1, SpareLess
    <3> QED BY <1>1, <1>2, <1>5, <1>6, <1>8, <2>1, <3>2, <3>3 DEF Roomy, Roomed, Due
  <2>4. CASE ~(JournalSize(j) < MapCapacity(j))
    <3>1. Rounds = Rate
      BY <2>4 DEF Rounds, Rate
    <3>2. Credit(k, r) \in {0, Rate - Rate}
      BY <1>4, <3>1, CreditIs DEF Credit, Serve
    <3>3. Credit(k, r) = 0
      BY <3>2, RateIs
    <3> QED BY <1>1, <1>2, <1>5, <1>6, <1>8, <2>1, <3>3 DEF Roomy, Roomed, Due
  <2> QED BY <2>3, <2>4
<1> QED BY <1>7, <1>8

LEMMA TakeRoom ==
    ASSUME NEW w \in Workers, Inv, Roomy, Take(w)
    PROVE  Roomy' /\ OnlyWhenFull
<1>1. /\ reply[w] # NoReply /\ request' = [request EXCEPT ![w] = NoRequest]
      /\ reply' = [reply EXCEPT ![w] = NoReply]
      /\ nand' = nand /\ j' = j /\ proc' = proc
  BY DEF Take
<1>2. proc[w] = Idle /\ reply \in [Workers -> Replies \cup {NoReply}]
  BY <1>1 DEF Inv, CallInv, TypeInv
<1>3. \A v \in Workers : v # w => request'[v] = request[v]
  BY <1>1 DEF Inv, TypeInv
<1>4. OnlyWhenFull
  BY <1>1, <1>2 DEF OnlyWhenFull, Refused
<1>5. CASE Most = 0
  BY <1>1, <1>4, <1>5 DEF Roomy, Barren
<1>6. CASE Most # 0
  <2>1. \A v \in Workers : proc'[v] # Idle => v # w /\ proc'[v] = proc[v]
                                              /\ request'[v] = request[v]
    BY <1>1, <1>2, <1>3
  <2> QED BY <1>1, <1>4, <1>6, <2>1 DEF Roomy
<1> QED BY <1>5, <1>6

LEMMA InitRoom == Init => Roomy
<1> SUFFICES ASSUME Init PROVE Roomy
  OBVIOUS
<1>1. j = EmptyJournal /\ nand \in Flash
  BY InitEmpty
<1>2. \A w \in Workers : proc[w] = Idle
  BY DEF Init
<1>3. /\ j \in Journal /\ j.root = None /\ j.count = 0 /\ j.dirty = FALSE
      /\ j.bbCurrent = 0 /\ j.head = 0 /\ j.tail = 0 /\ j.tailSync = 0
  BY <1>1, EmptyJournalOK DEF EmptyJournal, JournalOK
<1>4. CASE Most = 0
  BY <1>2, <1>3, <1>4, CreditIs DEF Roomy, Barren
<1>5. CASE Most # 0
  <2>1. Most > 0 /\ Most \in Nat /\ Reach \in Int
    BY <1>5, CapacityType
  <2>2. 0 \in UserPages
    BY <1>3 DEF Journal
  <2>3. Held(j) = 0 /\ Span(0, 0) = 0
    BY <1>3, <2>2, HeldType, SpanIs
  <2>4. PICK m \in Nat : m = 0 % Ppc
    BY <2>2, UserPage
  <2>5. Reach > 3
    BY <2>1, ReserveIsEnough
  <2>6. Span(j.tailSync, j.head) <= Reach + 1 + (j.head % Ppc)
    BY <1>3, <2>1, <2>3, <2>4, <2>5
  <2>7. \A s \in Sectors : TracePath(nand, j, s).page = None
    BY <1>1, <1>3, EmptyTree
  <2>8. 0 \in 0..Rate
    BY RateIs
  <2>9. Spare(nand, j, 0)
    BY <1>3, <2>1, <2>3, <2>6, <2>7, <2>8, SpareEmpty
  <2> QED BY <1>2, <1>5, <2>9 DEF Roomy
<1> QED BY <1>4, <1>5

\* Until the first reset every step leaves the log spare, and refuses only a
\* write to a full map.
LEMMA NextRoom ==
    ASSUME Exclusive, Ample, Inv, MapInv, SecureRoom, Inv', [Next]_vars
    PROVE  SecureRoom' /\ (crashes' = 0 => OnlyWhenFull)
<1>1. CASE UNCHANGED vars
  <2>1. UNCHANGED <<nand, j, proc, request, reply, crashes>>
    BY <1>1 DEF vars
  <2>2. SecureRoom'
    BY <2>1 DEF SecureRoom, Roomy, Barren
  <2> QED BY <2>1, <2>2 DEF OnlyWhenFull, Refused
<1>2. CASE Crash
  <2>1. crashes' = crashes + 1 /\ crashes \in Nat
    BY <1>2 DEF Crash, MapInv
  <2> QED BY <2>1 DEF SecureRoom
<1>3. ASSUME NEW w \in Workers,
             Work(w) \/ Take(w) \/ \E r \in Requests : Ask(w, r)
      PROVE  SecureRoom' /\ (crashes' = 0 => OnlyWhenFull)
  <2>1. crashes' = crashes
    BY <1>3 DEF Work, Gc, Carry, Sync, PrepareHead, Erase, Program, PushMeta, At,
       Take, Ask
  <2>2. CASE crashes # 0
    BY <2>1, <2>2 DEF SecureRoom
  <2>3. CASE crashes = 0
    <3>1. Untouched /\ Roomy
      BY <2>3 DEF MapInv, SecureRoom
    <3>2. Roomy' /\ OnlyWhenFull
      BY <1>3, <3>1, WorkRoom, TakeRoom, AskRoom
    <3> QED BY <3>2 DEF SecureRoom
  <2> QED BY <2>2, <2>3
<1> QED BY <1>1, <1>2, <1>3 DEF Next

\* Until the first reset only a write to a new sector of a full map is
\* refused, whatever was written, trimmed and synced before, and however the
\* garbage lies: the reserve of dhara_map_capacity and the garbage collection
\* before each write keep prepare_head from meeting the last-synced tail.
THEOREM RoomUntilReset ==
    ASSUME Exclusive, Ample
    PROVE  Spec => [][crashes' = 0 => \A w \in Workers : Refused(w) => MapFull(w)]_vars
<1>1. Init => Inv /\ MapInv /\ SecureRoom
  BY InitInv, MapInit, InitRoom DEF SecureRoom
<1>2. (Inv /\ MapInv /\ SecureRoom) /\ [Next]_vars
        => /\ (Inv /\ MapInv /\ SecureRoom)'
           /\ crashes' = 0 => \A w \in Workers : Refused(w) => MapFull(w)
  BY NextInv, MapNext, NextRoom DEF OnlyWhenFull
<1> QED BY <1>1, <1>2, PTL DEF Spec

\* On a board that is never reset the journal never runs full, and only a
\* write to a new sector of a full map is refused.
THEOREM NeverFullWithoutResets ==
    ASSUME Exclusive, Ample, MaxCrashes = 0
    PROVE  Spec => NeverJournalFull /\ RefusedOnlyWhenFull
<1>1. Init => Inv /\ MapInv /\ SecureRoom /\ crashes = 0
  BY InitInv, MapInit, InitRoom DEF SecureRoom
<1>2. (Inv /\ MapInv /\ SecureRoom /\ crashes = 0) /\ [Next]_vars
        => /\ (Inv /\ MapInv /\ SecureRoom /\ crashes = 0)'
           /\ \A w \in Workers : Refused(w) => MapFull(w)
  <2> SUFFICES ASSUME Inv, MapInv, SecureRoom, crashes = 0, [Next]_vars
               PROVE  /\ (Inv /\ MapInv /\ SecureRoom /\ crashes = 0)'
                      /\ \A w \in Workers : Refused(w) => MapFull(w)
    OBVIOUS
  <2>1. Inv' /\ MapInv'
    BY NextInv, MapNext
  <2>2. crashes' = crashes
    <3>1. ~Crash
      BY DEF Crash
    <3> QED BY <3>1 DEF Next, Work, Gc, Carry, Sync, PrepareHead, Erase, Program,
            PushMeta, At, Take, Ask, vars
  <2> QED BY <2>1, <2>2, NextRoom DEF OnlyWhenFull
<1>3. Inv /\ MapInv /\ SecureRoom /\ crashes = 0 /\ [Next]_vars
        => /\ [\A w \in Workers : Refused(w) =>
                MapFull(w) \/ \E p \in Pages : nand[p] = Torn]_vars
           /\ [\A w \in Workers : Refused(w) => MapFull(w)]_vars
  BY <1>2
<1> QED BY <1>1, <1>2, <1>3, PTL DEF Spec, NeverJournalFull, RefusedOnlyWhenFull
=============================================================================
