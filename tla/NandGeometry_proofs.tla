------------------------- MODULE NandGeometry_proofs -------------------------
(***************************************************************************)
(* What the position iterators of include/nand.h do to the offset of the   *)
(* position they move, for every memory organisation nanddev_init accepts. *)
(***************************************************************************)
EXTENDS NandGeometry, TLAPS

(* A product of naturals is a natural; stated because the arithmetic of    *)
(* this module is non-linear and the provers need the types of its terms.  *)
LEMMA ProductNat ==
    ASSUME NEW a \in Nat, NEW b \in Nat
    PROVE  a * b \in Nat
OBVIOUS

LEMMA ProductPositive ==
    ASSUME NEW a \in Nat \ {0}, NEW b \in Nat \ {0}
    PROVE  a * b \in Nat \ {0}
OBVIOUS

(* The derived sizes of the memory organisation are positive. *)
LEMMA SizesPositive ==
    /\ EraseblockSize \in Nat \ {0}
    /\ NEraseblocks \in Nat \ {0}
    /\ FlashSize \in Nat \ {0}
BY MemorgAssumption, ProductPositive DEF EraseblockSize, NEraseblocks, FlashSize

LEMMA EbIndexNat ==
    ASSUME NEW pos \in Position
    PROVE  EbIndex(pos) \in Nat
<1>1. pos.target \in Nat /\ pos.lun \in Nat /\ pos.eraseblock \in Nat
  BY MemorgAssumption DEF Position
<1>2. pos.target * LunsPerTarget \in Nat
  BY <1>1, MemorgAssumption, ProductNat
<1>3. (pos.lun + pos.target * LunsPerTarget) * EraseblocksPerLun \in Nat
  BY <1>1, <1>2, MemorgAssumption, ProductNat
<1> QED
  BY <1>1, <1>3 DEF EbIndex

(* The iterators stay inside the set of well-formed positions. *)
LEMMA NextEraseblockType ==
    ASSUME NEW pos \in Position
    PROVE  NextEraseblock(pos) \in Position
<1>1. 0 \in 0 .. LunsPerTarget - 1 /\ 0 \in 0 .. PlanesPerLun - 1
      /\ 0 \in 0 .. EraseblocksPerLun - 1 /\ 0 \in PageNos
  BY MemorgAssumption DEF PageNos
<1>2. NextTarget(pos) \in Position
  BY <1>1 DEF NextTarget, Position
<1>f. /\ pos.target \in Nat
      /\ pos.lun \in 0 .. LunsPerTarget - 1
      /\ pos.plane \in 0 .. PlanesPerLun - 1
      /\ pos.eraseblock \in 0 .. EraseblocksPerLun - 1
      /\ pos = [target |-> pos.target, lun |-> pos.lun, plane |-> pos.plane,
                eraseblock |-> pos.eraseblock, page |-> pos.page]
  BY DEF Position
<1>3. NextLun(pos) \in Position
  <2>1. CASE pos.lun >= LunsPerTarget - 1
    BY <2>1, <1>2 DEF NextLun
  <2>2. CASE ~ (pos.lun >= LunsPerTarget - 1)
    <3>1. NextLun(pos) = [target |-> pos.target, lun |-> pos.lun + 1, plane |-> 0,
                          eraseblock |-> 0, page |-> 0]
      BY <2>2, <1>f DEF NextLun
    <3>2. pos.lun + 1 \in 0 .. LunsPerTarget - 1
      BY <2>2, <1>f, MemorgAssumption
    <3> QED
      BY <3>1, <3>2, <1>1, <1>f DEF Position
  <2> QED
    BY <2>1, <2>2
<1>4. (pos.eraseblock + 1) % PlanesPerLun \in 0 .. PlanesPerLun - 1
  BY MemorgAssumption DEF Position
<1>5. CASE pos.eraseblock >= EraseblocksPerLun - 1
  BY <1>5, <1>3 DEF NextEraseblock
<1>6. CASE ~ (pos.eraseblock >= EraseblocksPerLun - 1)
  <2>1. NextEraseblock(pos) =
          [target |-> pos.target, lun |-> pos.lun,
           plane |-> (pos.eraseblock + 1) % PlanesPerLun,
           eraseblock |-> pos.eraseblock + 1, page |-> 0]
    BY <1>6, <1>f DEF NextEraseblock
  <2>2. pos.eraseblock + 1 \in 0 .. EraseblocksPerLun - 1
    BY <1>6, <1>f, MemorgAssumption
  <2> QED
    BY <2>1, <2>2, <1>1, <1>4, <1>f DEF Position
<1> QED
  BY <1>5, <1>6

LEMMA NextPageType ==
    ASSUME NEW pos \in Position
    PROVE  NextPage(pos) \in Position
BY NextEraseblockType, MemorgAssumption DEF NextPage, Position, PageNos

(* nanddev_pos_next_eraseblock visits the eraseblocks in the order of      *)
(* their offsets, across LUN and target boundaries: it adds one to the     *)
(* number of the block and rewinds the page.                               *)
THEOREM NextEraseblockAdvances ==
    ASSUME NEW pos \in Position
    PROVE  /\ EbIndex(NextEraseblock(pos)) = EbIndex(pos) + 1
           /\ NextEraseblock(pos).page = 0
<1> DEFINE L == LunsPerTarget
           E == EraseblocksPerLun
<1>1. L \in Nat \ {0} /\ E \in Nat \ {0}
  BY MemorgAssumption
<1>2. pos.target \in Nat /\ pos.lun \in 0 .. L - 1 /\ pos.eraseblock \in 0 .. E - 1
  BY DEF Position
<1>3. CASE pos.eraseblock < E - 1
  <2>1. ~ (pos.eraseblock >= E - 1)
    BY <1>1, <1>2, <1>3
  <2>2. NextEraseblock(pos).target = pos.target
        /\ NextEraseblock(pos).lun = pos.lun
        /\ NextEraseblock(pos).eraseblock = pos.eraseblock + 1
        /\ NextEraseblock(pos).page = 0
    BY <2>1 DEF NextEraseblock, Position
  <2>3. (pos.lun + pos.target * L) * E \in Nat
    BY <1>1, <1>2, ProductNat
  <2> QED
    BY <2>2, <2>3, <1>2 DEF EbIndex
<1>4. CASE pos.eraseblock >= E - 1 /\ pos.lun < L - 1
  <2>1. ~ (pos.lun >= L - 1) /\ pos.eraseblock = E - 1
    BY <1>1, <1>2, <1>4
  <2>2. NextEraseblock(pos).target = pos.target
        /\ NextEraseblock(pos).lun = pos.lun + 1
        /\ NextEraseblock(pos).eraseblock = 0
        /\ NextEraseblock(pos).page = 0
    BY <2>1, <1>4 DEF NextEraseblock, NextLun, Position
  <2> DEFINE m == pos.lun + pos.target * L
  <2>3. m \in Nat
    BY <1>1, <1>2, ProductNat
  <2>4. pos.lun + 1 + pos.target * L = m + 1
    BY <1>1, <1>2, ProductNat
  <2> HIDE DEF m
  <2>5. (m + 1) * E = m * E + E
    BY <1>1, <2>3
  <2>6. m * E \in Nat
    BY <1>1, <2>3, ProductNat
  <2>7. EbIndex(NextEraseblock(pos)) = (m + 1) * E
    BY <2>2, <2>4, <2>5, <2>6, <1>1 DEF EbIndex
  <2>8. EbIndex(pos) = (E - 1) + m * E
    BY <2>1 DEF EbIndex, m
  <2> QED
    BY <2>2, <2>5, <2>6, <2>7, <2>8, <1>1
<1>5. CASE pos.eraseblock >= E - 1 /\ pos.lun >= L - 1
  <2>1. pos.lun = L - 1 /\ pos.eraseblock = E - 1
    BY <1>1, <1>2, <1>5
  <2>2. NextEraseblock(pos).target = pos.target + 1
        /\ NextEraseblock(pos).lun = 0
        /\ NextEraseblock(pos).eraseblock = 0
        /\ NextEraseblock(pos).page = 0
    BY <1>5 DEF NextEraseblock, NextLun, NextTarget
  <2> DEFINE t == pos.target * L
  <2>3. t \in Nat /\ (pos.target + 1) * L = t + L
    BY <1>1, <1>2, ProductNat
  <2>4. EbIndex(NextEraseblock(pos)) = (t + L) * E
    <3>1. EbIndex(NextEraseblock(pos)) = 0 + (0 + (pos.target + 1) * L) * E
      BY <2>2 DEF EbIndex
    <3>2. (t + L) * E \in Nat
      BY <2>3, <1>1, ProductNat
    <3> HIDE DEF t
    <3> QED
      BY <3>1, <3>2, <2>3, <1>1
  <2>5. EbIndex(pos) = (E - 1) + ((L - 1) + t) * E
    BY <2>1 DEF EbIndex
  <2> HIDE DEF t
  <2> DEFINE m == (L - 1) + t
  <2>6. m \in Nat /\ t + L = m + 1
    BY <2>3, <1>1
  <2>7. EbIndex(NextEraseblock(pos)) = (m + 1) * E /\ EbIndex(pos) = (E - 1) + m * E
    BY <2>4, <2>5, <2>6
  <2> HIDE DEF m
  <2>8. (m + 1) * E = m * E + E /\ m * E \in Nat
    BY <1>1, <2>6, ProductNat
  <2> QED
    BY <2>2, <2>7, <2>8, <1>1
<1> QED
  BY <1>1, <1>2, <1>3, <1>4, <1>5

(* nanddev_pos_next_page moves a position by exactly one page of offset,   *)
(* whatever eraseblock, LUN or target boundary it crosses: the offset      *)
(* snand_write and snand_read advance by page_size stays that of the       *)
(* position they move with it.                                             *)
THEOREM NextPageAdvances ==
    ASSUME NEW pos \in Position
    PROVE  PosToOffs(NextPage(pos)) = PosToOffs(pos) + PageSize
<1> DEFINE P == PagesPerEraseblock
           S == PageSize
           e == EbIndex(pos)
<1>1. P \in Nat \ {0} /\ S \in Nat \ {0} /\ e \in Nat /\ pos.page \in 0 .. P - 1
  BY MemorgAssumption, EbIndexNat DEF Position, PageNos
<1>2. e * P \in Nat
  BY <1>1, ProductNat
<1> DEFINE n == pos.page + e * P
<1>3. n \in Nat /\ PosToOffs(pos) = n * S
  BY <1>1, <1>2 DEF PosToOffs
<1>4. PosToOffs(NextPage(pos)) = (n + 1) * S
  <2>1. CASE pos.page < P - 1
    <3>1. ~ (pos.page >= P - 1)
      BY <2>1, <1>1
    <3>2. NextPage(pos).page = pos.page + 1 /\ EbIndex(NextPage(pos)) = e
      BY <3>1 DEF NextPage, EbIndex, Position
    <3>3. NextPage(pos).page + EbIndex(NextPage(pos)) * P = n + 1
      <4> HIDE DEF e
      <4> QED
        BY <3>2, <1>1, <1>2
    <3> QED
      BY <3>3 DEF PosToOffs
  <2>2. CASE pos.page >= P - 1
    <3>1. pos.page = P - 1
      BY <2>2, <1>1
    <3>2. NextPage(pos) = NextEraseblock(pos)
      BY <2>2 DEF NextPage
    <3>3. NextPage(pos).page = 0 /\ EbIndex(NextPage(pos)) = e + 1
      BY <3>2, NextEraseblockAdvances
    <3>4. NextPage(pos).page + EbIndex(NextPage(pos)) * P = n + 1
      <4> HIDE DEF e
      <4>1. (e + 1) * P = e * P + P
        BY <1>1
      <4> QED
        BY <4>1, <3>1, <3>3, <1>1, <1>2
    <3> QED
      BY <3>4 DEF PosToOffs
  <2> QED
    BY <2>1, <2>2, <1>1
<1>5. (n + 1) * S = n * S + S
  <2> HIDE DEF n
  <2> QED
    BY <1>1, <1>3
<1> QED
  BY <1>3, <1>4, <1>5
-----------------------------------------------------------------------------
(* What the do_div macro computes: quotient and remainder. *)
LEMMA DivModFacts ==
    ASSUME NEW a \in Nat, NEW d \in Nat \ {0}
    PROVE  /\ a \div d \in Nat
           /\ a % d \in 0 .. d - 1
           /\ a = (a \div d) * d + (a % d)
OBVIOUS

(* A number splits into quotient and remainder in one way only. *)
LEMMA QuotientUnique ==
    ASSUME NEW d \in Nat \ {0}, NEW q \in Nat, NEW k \in Nat,
           NEW r \in 0 .. d - 1, NEW s \in 0 .. d - 1, q * d + r = k * d + s
    PROVE  q = k /\ r = s
<1>1. CASE q < k
  <2>1. PICK j \in Nat : k = q + 1 + j
     BY <1>1
  <2>2. k * d = q * d + d + j * d
     BY <2>1
  <2>3. j * d \in Nat /\ q * d \in Nat
     OBVIOUS
  <2> QED BY <2>2, <2>3
<1>2. CASE k < q
  <2>1. PICK j \in Nat : q = k + 1 + j
     BY <1>2
  <2>2. q * d = k * d + d + j * d
     BY <2>1
  <2>3. j * d \in Nat /\ k * d \in Nat
     OBVIOUS
  <2> QED BY <2>2, <2>3
<1>3. CASE q = k
  BY <1>3
<1> QED BY <1>1, <1>2, <1>3

(* Dividing recovers the digits a number was built from. *)
LEMMA DivOfSum ==
    ASSUME NEW d \in Nat \ {0}, NEW q \in Nat, NEW r \in 0 .. d - 1
    PROVE  (q * d + r) \div d = q /\ (q * d + r) % d = r
<1> DEFINE a == q * d + r
<1>1. a \in Nat
  OBVIOUS
<1>2. a \div d \in Nat /\ a % d \in 0 .. d - 1 /\ (a \div d) * d + (a % d) = q * d + r
  <2>1. a = q * d + r
    OBVIOUS
  <2> HIDE DEF a
  <2> QED BY <1>1, <2>1, DivModFacts
<1> HIDE DEF a
<1>3. q = (a \div d) /\ r = (a % d)
  BY <1>2, QuotientUnique
<1> QED BY <1>3 DEF a

(* nanddev_offs_to_pos and nanddev_pos_to_offs are inverse on page         *)
(* boundaries: the position a run starts from denotes the offset it was    *)
(* asked for, whatever the LUN and target counts.                          *)
THEOREM OffsToPosInverse ==
    ASSUME NEW n \in Nat
    PROVE  /\ OffsToPos(n * PageSize) \in Position
           /\ PosToOffs(OffsToPos(n * PageSize)) = n * PageSize
<1> DEFINE P == PagesPerEraseblock
           E == EraseblocksPerLun
           L == LunsPerTarget
           block == n \div P
           lun == block \div E
           pos == OffsToPos(n * PageSize)
<1>1. P \in Nat \ {0} /\ E \in Nat \ {0} /\ L \in Nat \ {0} /\ PageSize \in Nat \ {0}
      /\ PlanesPerLun \in Nat \ {0}
  BY MemorgAssumption
<1>2. (n * PageSize) \div PageSize = n
  <2>1. n * PageSize + 0 = n * PageSize /\ 0 \in 0 .. PageSize - 1
    BY <1>1, ProductNat
  <2> QED
    BY <2>1, <1>1, DivOfSum
<1>3. pos = [target |-> lun \div L, lun |-> lun % L,
             plane |-> (block % E) % PlanesPerLun,
             eraseblock |-> block % E, page |-> n % P]
  BY <1>2 DEF OffsToPos
<1>4. /\ block \in Nat
      /\ n % P \in 0 .. P - 1
      /\ n = block * P + (n % P)
  BY <1>1, DivModFacts
<1> HIDE DEF block
<1>5. /\ lun \in Nat
      /\ block % E \in 0 .. E - 1
      /\ block = lun * E + (block % E)
  BY <1>1, <1>4, DivModFacts
<1> HIDE DEF lun
<1>6. /\ lun \div L \in Nat
      /\ lun % L \in 0 .. L - 1
      /\ lun = (lun \div L) * L + (lun % L)
  BY <1>1, <1>5, DivModFacts
<1>7. (block % E) % PlanesPerLun \in 0 .. PlanesPerLun - 1
  BY <1>1, <1>5
<1>8. pos \in Position
  <2> HIDE DEF pos
  <2> QED
    BY <1>3, <1>4, <1>5, <1>6, <1>7 DEF Position, PageNos
<1> HIDE DEF pos
<1>9. EbIndex(pos) = (block % E) + ((lun % L) + (lun \div L) * L) * E
  BY <1>3 DEF EbIndex
<1>10. (lun % L) + (lun \div L) * L = lun
  <2>1. (lun \div L) * L \in Nat
    BY <1>1, <1>6, ProductNat
  <2> QED
    BY <2>1, <1>6
<1>11. (block % E) + lun * E = block
  <2>1. lun * E \in Nat
    BY <1>1, <1>5, ProductNat
  <2> QED
    BY <2>1, <1>5
<1>12. (n % P) + block * P = n
  <2>1. block * P \in Nat
    BY <1>1, <1>4, ProductNat
  <2> QED
    BY <2>1, <1>4
<1>13. PosToOffs(pos) = n * PageSize
  <2>1. EbIndex(pos) = block
    BY <1>9, <1>10, <1>11
  <2>2. PosToOffs(pos) = ((n % P) + block * P) * PageSize
    BY <2>1, <1>3 DEF PosToOffs
  <2> QED
    BY <2>2, <1>12
<1> QED
  BY <1>8, <1>13 DEF pos
(* An eraseblock-aligned offset starts at the first page of its block: the *)
(* alignment check of snand_write is what makes its first pass erase.      *)
LEMMA AlignedOffsToPos ==
    ASSUME NEW offs \in Nat, offs % EraseblockSize = 0
    PROVE  /\ OffsToPos(offs) \in Position
           /\ PosToOffs(OffsToPos(offs)) = offs
           /\ OffsToPos(offs).page = 0
<1> DEFINE P == PagesPerEraseblock
           S == PageSize
<1>1. P \in Nat \ {0} /\ S \in Nat \ {0} /\ EraseblockSize = S * P
  BY MemorgAssumption DEF EraseblockSize
<1>2. PICK k \in Nat : offs = k * (S * P)
  <2>1. S * P \in Nat \ {0}
    BY <1>1, ProductPositive
  <2> DEFINE B == S * P
  <2>2. offs % B = 0
    BY <1>1
  <2> HIDE DEF B
  <2>3. offs = (offs \div B) * B + (offs % B) /\ offs \div B \in Nat
    BY <2>1, DivModFacts DEF B
  <2>4. (offs \div B) * B \in Nat
    BY <2>1, <2>3, ProductNat DEF B
  <2>5. offs = (offs \div B) * B
    BY <2>2, <2>3, <2>4
  <2> QED
    BY <2>3, <2>5 DEF B
<1>3. k * P \in Nat /\ offs = (k * P) * S
  BY <1>1, <1>2, ProductNat
<1>4. OffsToPos(offs) \in Position /\ PosToOffs(OffsToPos(offs)) = offs
  BY <1>3, OffsToPosInverse
<1>5. offs \div S = k * P
  <2>1. offs = (k * P) * S + 0 /\ 0 \in 0 .. S - 1
    BY <1>1, <1>3
  <2> QED
    BY <2>1, <1>1, <1>3, DivOfSum
<1>6. (k * P) % P = 0
  <2>1. k * P + 0 = k * P /\ 0 \in 0 .. P - 1
    BY <1>1, <1>3
  <2> QED
    BY <2>1, <1>1, DivOfSum
<1> QED
  BY <1>4, <1>5, <1>6 DEF OffsToPos

(* The bound of the loops on the offset keeps the eraseblock number inside *)
(* the device.                                                             *)
LEMMA InDevice ==
    ASSUME NEW pos \in Position, PosToOffs(pos) < FlashSize
    PROVE  EbIndex(pos) \in Eraseblocks
<1> DEFINE P == PagesPerEraseblock
           S == PageSize
           e == EbIndex(pos)
           N == NEraseblocks
<1>1. P \in Nat \ {0} /\ S \in Nat \ {0} /\ e \in Nat /\ N \in Nat \ {0}
      /\ pos.page \in Nat
  BY MemorgAssumption, EbIndexNat, SizesPositive DEF Position, PageNos
<1>2. (pos.page + e * P) * S < N * (S * P)
  BY DEF PosToOffs, FlashSize, EraseblockSize
<1> HIDE DEF e, N
<1>3. SUFFICES ASSUME e >= N PROVE FALSE
  BY <1>1, SizesPositive DEF Eraseblocks, e, N
<1>4. PICK d \in Nat : e = N + d
  BY <1>1, <1>3
<1>5. (pos.page + e * P) * S = pos.page * S + (d * P) * S + N * (S * P)
  BY <1>1, <1>4
<1>6. pos.page * S \in Nat /\ (d * P) * S \in Nat /\ N * (S * P) \in Nat
  BY <1>1, ProductNat
<1> QED
  BY <1>2, <1>5, <1>6

(* Skipping an eraseblock from its first page moves the offset by eb_size: *)
(* the two ways snand_write advances cur_offs agree.                       *)
LEMMA NextEraseblockOffset ==
    ASSUME NEW pos \in Position, pos.page = 0
    PROVE  PosToOffs(NextEraseblock(pos)) = PosToOffs(pos) + EraseblockSize
<1> DEFINE P == PagesPerEraseblock
           S == PageSize
           e == EbIndex(pos)
<1>1. P \in Nat \ {0} /\ S \in Nat \ {0} /\ e \in Nat
  BY MemorgAssumption, EbIndexNat
<1>2. PosToOffs(pos) = (e * P) * S
  <2>1. PosToOffs(pos) = (0 + e * P) * S
    BY DEF PosToOffs
  <2> QED
    BY <2>1, <1>1, ProductNat
<1>3. PosToOffs(NextEraseblock(pos)) = ((e + 1) * P) * S
  <2>1. PosToOffs(NextEraseblock(pos)) = (0 + (e + 1) * P) * S
    BY NextEraseblockAdvances DEF PosToOffs
  <2> HIDE DEF e
  <2>2. (e + 1) * P \in Nat
    BY <1>1, ProductNat
  <2> QED
    BY <2>1, <2>2
<1>4. ((e + 1) * P) * S = (e * P) * S + S * P
  <2> HIDE DEF e
  <2> QED
    BY <1>1
<1> QED
  BY <1>2, <1>3, <1>4 DEF EraseblockSize

(* Offsets order positions as (eraseblock, page) does, within one step of  *)
(* nanddev_pos_next_page.                                                  *)
LEMMA NextPageStays ==
    ASSUME NEW pos \in Position
    PROVE  \/ /\ EbIndex(NextPage(pos)) = EbIndex(pos)
              /\ NextPage(pos).page = pos.page + 1
           \/ /\ EbIndex(NextPage(pos)) = EbIndex(pos) + 1
              /\ NextPage(pos).page = 0
              /\ pos.page = PagesPerEraseblock - 1
<1>1. CASE pos.page >= PagesPerEraseblock - 1
  <2>1. NextPage(pos) = NextEraseblock(pos)
    BY <1>1 DEF NextPage
  <2> QED
    BY <1>1, <2>1, NextEraseblockAdvances, MemorgAssumption DEF Position, PageNos
<1>2. CASE ~ (pos.page >= PagesPerEraseblock - 1)
  BY <1>2 DEF NextPage, EbIndex, Position
<1> QED
  BY <1>1, <1>2
=============================================================================
