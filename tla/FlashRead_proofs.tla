-------------------------- MODULE FlashRead_proofs --------------------------
(***************************************************************************)
(* Where the pages of a dump come from, for every memory organisation,     *)
(* every command line and every pattern of failing reads.  DumpPlaced is   *)
(* not inductive: the argument is that the position of the next read is    *)
(* the offset asked for plus the pages written so far (Cursor), which the  *)
(* position iterators keep across eraseblock, LUN and target boundaries.   *)
(***************************************************************************)
EXTENDS FlashRead, NandGeometry_proofs, SequenceTheorems

Cursor ==
    /\ pc = "read" => PosToOffs(pos) = req.offs + Len(dump) * PageSize
    /\ pc = "idle" => dump = << >>

IInv == TypeOK /\ Cursor /\ DumpPlaced

Contents == (Nat \X PageNos) \cup {Zeroes}
-----------------------------------------------------------------------------
LEMMA PageAtType ==
    ASSUME NEW p \in Position
    PROVE  /\ PageAt(p) \in Nat \X PageNos
           /\ PageOffs(PageAt(p)) = PosToOffs(p)
           /\ Line(p) \in Nat \X (0 .. EraseblocksPerLun - 1)
<1>1. EbIndex(p) \in Nat
  BY EbIndexNat
<1>2. /\ p.page \in PageNos /\ p.page \in Nat /\ p.target \in Nat
      /\ p.eraseblock \in 0 .. EraseblocksPerLun - 1
  BY MemorgAssumption DEF Position, PageNos
<1>3. EbIndex(p) * PagesPerEraseblock \in Nat
  BY <1>1, MemorgAssumption, ProductNat
<1>4. PageOffs(PageAt(p)) = PosToOffs(p)
  BY <1>2, <1>3 DEF PageOffs, PageAt, PosToOffs
<1> QED
  BY <1>1, <1>2, <1>4 DEF PageAt, Line

LEMMA FirstPosition == OffsToPos(0) \in Position
<1>1. 0 * PageSize = 0
  BY MemorgAssumption
<1> QED
  BY <1>1, OffsToPosInverse

(* A page boundary as an offset is the position it converts to. *)
LEMMA AlignedPage ==
    ASSUME NEW offs \in Nat, offs % PageSize = 0
    PROVE  OffsToPos(offs) \in Position /\ PosToOffs(OffsToPos(offs)) = offs
<1>1. PageSize \in Nat \ {0}
  BY MemorgAssumption
<1> DEFINE k == offs \div PageSize
<1>2. k \in Nat /\ offs = k * PageSize + (offs % PageSize)
  BY <1>1, DivModFacts
<1> HIDE DEF k
<1>3. k * PageSize \in Nat
  BY <1>1, <1>2, ProductNat
<1>4. offs = k * PageSize
  BY <1>2, <1>3
<1> QED
  BY <1>2, <1>4, OffsToPosInverse

LEMMA LengthNat ==
    ASSUME NEW r \in Reads
    PROVE  Length(r) \in Nat
<1>1. r.offs \in Nat /\ r.len \in Nat /\ r.offs < SizeMod /\ SizeMod \in Nat \ {0}
  BY FlashReadAssumption DEF Read
<1>2. FlashSize \in Nat
  BY SizesPositive
<1>3. FlashSize + SizeMod - r.offs \in Nat
  BY <1>1, <1>2
<1>4. (FlashSize + SizeMod - r.offs) % SizeMod \in Nat
  BY <1>1, <1>3
<1> QED
  BY <1>1, <1>4 DEF Length
-----------------------------------------------------------------------------
LEMMA InitInv == Init => IInv
<1> SUFFICES ASSUME Init PROVE IInv
  OBVIOUS
<1>1. dump \in Seq(Contents) /\ Len(dump) = 0
  BY EmptySeq DEF Init
<1>2. req \in Read
  BY DEF Init, NoRead, Read
<1>3. TypeOK
  BY <1>1, <1>2, FirstPosition DEF Init, TypeOK, Contents, kSubset
<1> QED
  BY <1>1, <1>3 DEF Init, IInv, Cursor, DumpPlaced

LEMMA StartReadInv ==
    ASSUME IInv, NEW r \in Reads, StartRead(r)
    PROVE  IInv'
<1>1. r \in Read /\ r.offs \in Nat
  BY FlashReadAssumption DEF Read
<1>2. OffsToPos(r.offs) \in Position /\ PosToOffs(OffsToPos(r.offs)) = r.offs
  BY <1>1, AlignedPage DEF StartRead
<1>3. dump' = << >> /\ Len(dump') = 0
  BY EmptySeq DEF StartRead, IInv, Cursor
<1>4. TypeOK'
  BY <1>1, <1>2, LengthNat DEF StartRead, IInv, TypeOK, flash
<1>5. Cursor'
  <2>1. Len(dump') * PageSize = 0
    BY <1>3, MemorgAssumption
  <2>2. pos' = OffsToPos(r.offs) /\ req'.offs = r.offs /\ pc' = "read"
    BY DEF StartRead
  <2>3. PosToOffs(pos') = r.offs
    BY <2>2, <1>2
  <2>4. req'.offs + Len(dump') * PageSize = r.offs
    BY <2>1, <2>2, <1>1
  <2> QED
    BY <2>2, <2>3, <2>4 DEF Cursor, PosToOffs, EbIndex
<1>6. DumpPlaced'
  BY <1>3 DEF DumpPlaced
<1> QED
  BY <1>4, <1>5, <1>6 DEF IInv

LEMMA DumpPageInv ==
    ASSUME IInv, DumpPage
    PROVE  IInv'
<1>1. pos \in Position /\ pos' = NextPage(pos)
  BY DEF IInv, TypeOK, DumpPage
<1>2. buf' \in Contents /\ (buf' # Zeroes => buf' = PageAt(pos))
  BY <1>1, PageAtType DEF DumpPage, Fetch, Contents
<1>3. dump \in Seq(Contents) /\ Len(dump) \in Nat
  BY LenProperties DEF IInv, TypeOK, Contents
<1>4. /\ dump' \in Seq(Contents)
      /\ Len(dump') = Len(dump) + 1
      /\ \A i \in 1 .. Len(dump) : dump'[i] = dump[i]
      /\ dump'[Len(dump) + 1] = buf'
  <2>1. dump' = Append(dump, buf')
    BY DEF DumpPage
  <2> QED
    BY <2>1, <1>2, <1>3, AppendProperties
<1>5. count' \in Nat
  <2>1. count + PageSize \in Nat /\ SizeMod \in Nat \ {0}
    BY SizesPositive, MemorgAssumption, FlashReadAssumption DEF IInv, TypeOK
  <2> QED
    BY <2>1 DEF DumpPage
<1>6. TypeOK'
  BY <1>1, <1>2, <1>4, <1>5, NextPageType DEF IInv, TypeOK, DumpPage, flash, Contents
<1>7. PosToOffs(pos) = req.offs + Len(dump) * PageSize
  BY DEF IInv, Cursor, DumpPage
<1>8. req' = req /\ req.offs \in Nat /\ PageSize \in Nat \ {0}
  BY MemorgAssumption DEF DumpPage, IInv, TypeOK, Read
<1>9. Cursor'
  <2>1. PosToOffs(NextPage(pos)) = PosToOffs(pos) + PageSize
    BY <1>1, NextPageAdvances
  <2>2. (Len(dump) + 1) * PageSize = Len(dump) * PageSize + PageSize
    BY <1>3, <1>8
  <2>3. Len(dump) * PageSize \in Nat
    BY <1>3, <1>8, ProductNat
  <2>4. PosToOffs(NextPage(pos)) = req.offs + Len(dump') * PageSize
    BY <2>1, <2>2, <2>3, <1>4, <1>7, <1>8
  <2>5. pc' = "read"
    BY DEF DumpPage
  <2> QED
    BY <2>4, <2>5, <1>1, <1>8 DEF Cursor, PosToOffs, EbIndex
<1>10. DumpPlaced'
  <2> SUFFICES ASSUME NEW i \in 1 .. Len(dump'), dump'[i] # Zeroes
               PROVE  PageOffs(dump'[i]) = req'.offs + (i - 1) * PageSize
    BY DEF DumpPlaced, PageOffs
  <2>1. CASE i \in 1 .. Len(dump)
    BY <2>1, <1>4, <1>8 DEF IInv, DumpPlaced
  <2>2. CASE i = Len(dump) + 1
    <3>1. dump'[i] = PageAt(pos)
      BY <2>2, <1>2, <1>4
    <3>2. i - 1 = Len(dump)
      BY <2>2, <1>3
    <3> QED
      BY <3>1, <3>2, <1>1, <1>7, <1>8, PageAtType
  <2> QED
    BY <2>1, <2>2, <1>3, <1>4
<1> QED
  BY <1>6, <1>9, <1>10 DEF IInv

LEMMA ScanBlockInv ==
    ASSUME IInv, ScanBlock
    PROVE  IInv'
<1>1. pos' \in Position
  BY NextEraseblockType DEF IInv, TypeOK, ScanBlock
<1>2. reported' \subseteq Nat \X (0 .. EraseblocksPerLun - 1)
  BY PageAtType DEF IInv, TypeOK, ScanBlock
<1>3. count' \in Nat
  BY SizesPositive DEF IInv, TypeOK, ScanBlock
<1>4. TypeOK'
  BY <1>1, <1>2, <1>3 DEF IInv, TypeOK, ScanBlock, flash
<1> QED
  BY <1>4 DEF IInv, Cursor, DumpPlaced, PageOffs, ScanBlock

LEMMA StartScanInv ==
    ASSUME IInv, StartScan
    PROVE  IInv'
<1>1. TypeOK'
  BY FirstPosition DEF StartScan, IInv, TypeOK, flash
<1> QED
  BY <1>1 DEF StartScan, IInv, Cursor, DumpPlaced, PageOffs

LEMMA ProcessEndsInv ==
    ASSUME IInv, ProcessEnds
    PROVE  IInv'
<1>1. dump' \in Seq(Contents) /\ Len(dump') = 0 /\ dump' = << >>
  BY EmptySeq DEF ProcessEnds
<1>2. NoRead \in Read
  BY DEF NoRead, Read
<1>3. TypeOK'
  BY <1>1, <1>2, FirstPosition DEF ProcessEnds, IInv, TypeOK, flash, Contents
<1> QED
  BY <1>1, <1>3 DEF ProcessEnds, IInv, Cursor, DumpPlaced

LEMMA RefuseReadInv ==
    ASSUME IInv, NEW r \in Reads, RefuseRead(r)
    PROVE  IInv'
<1>1. r \in Read
  BY FlashReadAssumption
<1>2. TypeOK'
  BY <1>1 DEF RefuseRead, IInv, TypeOK, flash
<1>3. dump' = << >> /\ Len(dump') = 0
  BY EmptySeq DEF RefuseRead, IInv, Cursor
<1> QED
  BY <1>2, <1>3 DEF RefuseRead, IInv, Cursor, DumpPlaced

LEMMA NextInv ==
    ASSUME IInv, [Next]_vars
    PROVE  IInv'
<1>1. ASSUME NEW r \in Reads, StartRead(r) PROVE IInv'
  BY <1>1, StartReadInv
<1>2. ASSUME NEW r \in Reads, RefuseRead(r) PROVE IInv'
  BY <1>2, RefuseReadInv
<1>3. CASE DumpPage
  BY <1>3, DumpPageInv
<1>4. CASE ScanBlock
  BY <1>4, ScanBlockInv
<1>5. CASE ReadEnds
  BY <1>5 DEF ReadEnds, IInv, TypeOK, Cursor, DumpPlaced, PageOffs, flash
<1>6. CASE ScanEnds
  BY <1>6 DEF ScanEnds, IInv, TypeOK, Cursor, DumpPlaced, PageOffs, flash
<1>7. CASE StartScan
  BY <1>7, StartScanInv
<1>8. CASE ProcessEnds
  BY <1>8, ProcessEndsInv
<1>9. CASE UNCHANGED vars
  BY <1>9 DEF vars, IInv, TypeOK, Cursor, DumpPlaced, PageOffs, PosToOffs, EbIndex
<1> QED
  BY <1>1, <1>2, <1>3, <1>4, <1>5, <1>6, <1>7, <1>8, <1>9 DEF Next, Step
-----------------------------------------------------------------------------
LEMMA Invariance == Spec => []IInv
<1>1. IInv /\ [Next]_vars => IInv'
  BY NextInv
<1> QED
  BY <1>1, InitInv, PTL DEF Spec

(* Every variable of snand_read and snand_scan_bbm keeps to its set. *)
THEOREM TypeCorrect == Spec => []TypeOK
<1>1. IInv => TypeOK
  BY DEF IInv
<1> QED
  BY <1>1, Invariance, PTL

(* A dump is an image of the flash for every memory organisation: the pages *)
(* snand_read could not read leave zeroes in their place and shift nothing. *)
THEOREM DumpIsAnImage == Spec => []DumpPlaced
<1>1. IInv => DumpPlaced
  BY DEF IInv
<1> QED
  BY <1>1, Invariance, PTL
-----------------------------------------------------------------------------
(* An offset on a page boundary determines all of a position but its plane, *)
(* which is derived from the eraseblock.                                    *)
LEMMA PositionUnique ==
    ASSUME NEW p \in Position, NEW q \in Position, PosToOffs(p) = PosToOffs(q)
    PROVE  /\ p.target = q.target /\ p.eraseblock = q.eraseblock
           /\ p.page = q.page /\ EbIndex(p) = EbIndex(q)
<1> DEFINE P == PagesPerEraseblock
           E == EraseblocksPerLun
           L == LunsPerTarget
<1>1. PageSize \in Nat \ {0} /\ P \in Nat \ {0} /\ E \in Nat \ {0} /\ L \in Nat \ {0}
  BY MemorgAssumption
<1>2. /\ p.page \in 0 .. P - 1 /\ q.page \in 0 .. P - 1
      /\ p.eraseblock \in 0 .. E - 1 /\ q.eraseblock \in 0 .. E - 1
      /\ p.lun \in 0 .. L - 1 /\ q.lun \in 0 .. L - 1
      /\ p.target \in Nat /\ q.target \in Nat
  BY DEF Position, PageNos
<1>3. EbIndex(p) \in Nat /\ EbIndex(q) \in Nat
  BY EbIndexNat
<1>4. EbIndex(p) = EbIndex(q) /\ p.page = q.page
  <2> DEFINE m == p.page + EbIndex(p) * P
             n == q.page + EbIndex(q) * P
  <2>1. EbIndex(p) * P \in Nat /\ EbIndex(q) * P \in Nat
    BY <1>1, <1>3, ProductNat
  <2>2. m \in Nat /\ n \in Nat /\ m * PageSize = n * PageSize
    BY <1>1, <1>2, <2>1 DEF PosToOffs
  <2>3. m = n
    <3> HIDE DEF m, n
    <3>1. 0 \in 0 .. PageSize - 1 /\ m * PageSize + 0 = n * PageSize + 0
      BY <1>1, <2>2
    <3> QED
      BY <1>1, <2>2, <3>1, QuotientUnique
  <2>4. EbIndex(p) * P + p.page = EbIndex(q) * P + q.page
    BY <1>1, <1>2, <2>1, <2>3
  <2> QED
    BY <1>1, <1>2, <1>3, <2>4, QuotientUnique
<1> DEFINE i == p.lun + p.target * L
           j == q.lun + q.target * L
<1>5. p.target * L \in Nat /\ q.target * L \in Nat
  BY <1>1, <1>2, ProductNat
<1>6. i \in Nat /\ j \in Nat
  BY <1>1, <1>2, <1>5
<1>7. i = j /\ p.eraseblock = q.eraseblock
  <2>1. EbIndex(p) = p.eraseblock + i * E /\ EbIndex(q) = q.eraseblock + j * E
    BY DEF EbIndex
  <2> HIDE DEF i, j
  <2>2. i * E \in Nat /\ j * E \in Nat /\ p.eraseblock \in Nat /\ q.eraseblock \in Nat
    BY <1>1, <1>2, <1>6, ProductNat
  <2>3. p.eraseblock + i * E = q.eraseblock + j * E
    BY <1>4, <2>1
  <2>4. i * E + p.eraseblock = j * E + q.eraseblock
    BY <2>2, <2>3
  <2>5. /\ E \in Nat \ {0} /\ i \in Nat /\ j \in Nat
        /\ p.eraseblock \in 0 .. E - 1 /\ q.eraseblock \in 0 .. E - 1
    BY <1>1, <1>2, <1>6
  <2>6. i = j
    BY <2>4, <2>5, QuotientUnique
  <2>7. p.eraseblock = q.eraseblock
    BY <2>4, <2>5, QuotientUnique
  <2> QED
    BY <2>6, <2>7
<1>8. p.target = q.target
  <2>1. p.target * L + p.lun = q.target * L + q.lun
    BY <1>1, <1>2, <1>5, <1>7
  <2> QED
    BY <1>1, <1>2, <2>1, QuotientUnique
<1> QED
  BY <1>4, <1>7, <1>8

(* What can be read is a matter of the offset. *)
LEMMA SamePage ==
    ASSUME NEW p \in Position, NEW q \in Position, PosToOffs(p) = PosToOffs(q),
           NEW ecc
    PROVE  /\ PageAt(p) = PageAt(q) /\ Line(p) = Line(q)
           /\ CanRead(p, ecc) <=> CanRead(q, ecc)
BY PositionUnique DEF PageAt, Line, CanRead

LEMMA NextAligned ==
    ASSUME NEW offs \in Nat, offs % PageSize = 0, NEW n \in Nat
    PROVE  /\ offs + n * PageSize \in Nat
           /\ (offs + n * PageSize) % PageSize = 0
<1>1. PageSize \in Nat \ {0}
  BY MemorgAssumption
<1>2. n * PageSize \in Nat
  BY <1>1, ProductNat
<1> DEFINE k == offs \div PageSize
<1>3. k \in Nat /\ offs = k * PageSize + (offs % PageSize)
  BY <1>1, DivModFacts
<1> HIDE DEF k
<1>4. k * PageSize \in Nat
  BY <1>1, <1>3, ProductNat
<1>5. offs + n * PageSize = (k + n) * PageSize + 0
  <2>1. (k + n) * PageSize = k * PageSize + n * PageSize
    BY <1>1, <1>3
  <2>2. offs = k * PageSize
    BY <1>3, <1>4
  <2> QED
    BY <1>2, <1>4, <2>1, <2>2
<1>6. 0 \in 0 .. PageSize - 1 /\ k + n \in Nat
  BY <1>1, <1>3
<1>7. ((k + n) * PageSize + 0) % PageSize = 0
  BY <1>1, <1>6, DivOfSum
<1> QED
  BY <1>2, <1>5, <1>7

(* The page at which snand_read is, in terms of the offset asked for: what   *)
(* DumpKeepsReadable speaks of.                                              *)
LEMMA CursorPage ==
    ASSUME NEW offs \in Nat, offs % PageSize = 0, NEW n \in Nat,
           NEW p \in Position, PosToOffs(p) = offs + n * PageSize, NEW ecc
    PROVE  /\ PageAt(OffsToPos(offs + n * PageSize)) = PageAt(p)
           /\ CanRead(OffsToPos(offs + n * PageSize), ecc) <=> CanRead(p, ecc)
<1> DEFINE o == offs + n * PageSize
<1>1. o \in Nat /\ o % PageSize = 0
  BY NextAligned
<1>2. PosToOffs(p) = o
  OBVIOUS
<1> HIDE DEF o
<1>3. OffsToPos(o) \in Position /\ PosToOffs(OffsToPos(o)) = PosToOffs(p)
  BY <1>1, <1>2, AlignedPage
<1>4. PageAt(OffsToPos(o)) = PageAt(p) /\ (CanRead(OffsToPos(o), ecc) <=> CanRead(p, ecc))
  BY <1>3, SamePage
<1> QED
  BY <1>4 DEF o
-----------------------------------------------------------------------------
(* A dump starts on a page boundary and never misses a page it can read. *)
Aligned == pc = "read" => req.offs % PageSize = 0

KInv == IInv /\ Aligned /\ DumpKeepsReadable

LEMMA DumpPageKeeps ==
    ASSUME KInv, DumpPage
    PROVE  DumpKeepsReadable'
<1>1. /\ req' = req /\ dead' = dead /\ broken' = broken
      /\ dump' = Append(dump, buf')
  BY DEF DumpPage, flash
<1>2. IInv /\ IInv'
  BY DumpPageInv DEF KInv
<1>3. dump \in Seq(Contents) /\ Len(dump) \in Nat /\ dump' \in Seq(Contents)
  BY <1>2, LenProperties DEF IInv, TypeOK, Contents
<1>4. buf' \in Contents
  BY <1>2 DEF IInv, TypeOK, Contents
<1>5. /\ Len(dump') = Len(dump) + 1
      /\ \A i \in 1 .. Len(dump) : dump'[i] = dump[i]
      /\ dump'[Len(dump) + 1] = buf'
  BY <1>1, <1>3, <1>4, AppendProperties
<1>6. /\ req.offs \in Nat /\ req.offs % PageSize = 0 /\ pos \in Position
      /\ PosToOffs(pos) = req.offs + Len(dump) * PageSize
  BY DEF KInv, Aligned, IInv, TypeOK, Read, Cursor, DumpPage
<1> SUFFICES ASSUME NEW i \in 1 .. Len(dump'),
                    CanRead(OffsToPos(req.offs + (i - 1) * PageSize), req.ecc)
             PROVE  dump'[i] = PageAt(OffsToPos(req.offs + (i - 1) * PageSize))
  BY <1>1 DEF DumpKeepsReadable, CanRead, PageAt, EbIndex
<1>7. CASE i \in 1 .. Len(dump)
  BY <1>5, <1>7 DEF KInv, DumpKeepsReadable
<1>8. CASE i = Len(dump) + 1
  <2>1. i - 1 = Len(dump)
    BY <1>3, <1>8
  <2>2. CanRead(pos, req.ecc)
        /\ PageAt(OffsToPos(req.offs + (i - 1) * PageSize)) = PageAt(pos)
    BY <1>3, <1>6, <2>1, CursorPage
  <2>3. buf' = PageAt(pos)
    BY <2>2 DEF DumpPage, Fetch
  <2> QED
    BY <1>5, <1>8, <2>2, <2>3
<1> QED
  BY <1>3, <1>5, <1>7, <1>8

LEMMA NextKeeps ==
    ASSUME KInv, [Next]_vars
    PROVE  KInv'
<1>1. IInv'
  BY NextInv DEF KInv
<1> SUFFICES Aligned' /\ DumpKeepsReadable'
  BY <1>1 DEF KInv
<1>2. ASSUME NEW r \in Reads, StartRead(r) PROVE Aligned' /\ DumpKeepsReadable'
  <2>1. dump' = << >> /\ Len(dump') = 0
    BY <1>2, EmptySeq DEF StartRead, KInv, IInv, Cursor
  <2> QED
    BY <1>2, <2>1 DEF StartRead, Aligned, DumpKeepsReadable
<1>3. ASSUME NEW r \in Reads, RefuseRead(r) PROVE Aligned' /\ DumpKeepsReadable'
  <2>1. dump' = << >> /\ Len(dump') = 0
    BY <1>3, EmptySeq DEF RefuseRead, KInv, IInv, Cursor
  <2> QED
    BY <1>3, <2>1 DEF RefuseRead, Aligned, DumpKeepsReadable
<1>4. CASE DumpPage
  BY <1>4, DumpPageKeeps DEF DumpPage, KInv, Aligned
<1>5. CASE ScanBlock
  BY <1>5 DEF ScanBlock, KInv, Aligned, DumpKeepsReadable, CanRead, PageAt, EbIndex, flash
<1>6. CASE ReadEnds
  BY <1>6 DEF ReadEnds, KInv, Aligned, DumpKeepsReadable, CanRead, PageAt, EbIndex, flash
<1>7. CASE ScanEnds
  BY <1>7 DEF ScanEnds, KInv, Aligned, DumpKeepsReadable, CanRead, PageAt, EbIndex, flash
<1>8. CASE StartScan
  BY <1>8 DEF StartScan, KInv, Aligned, DumpKeepsReadable, CanRead, PageAt, EbIndex, flash
<1>9. CASE ProcessEnds
  <2>1. dump' = << >> /\ Len(dump') = 0
    BY <1>9, EmptySeq DEF ProcessEnds
  <2> QED
    BY <1>9, <2>1 DEF ProcessEnds, Aligned, DumpKeepsReadable
<1>10. CASE UNCHANGED vars
  BY <1>10 DEF vars, KInv, Aligned, DumpKeepsReadable, CanRead, PageAt, EbIndex
<1> QED
  BY <1>1, <1>2, <1>3, <1>4, <1>5, <1>6, <1>7, <1>8, <1>9, <1>10 DEF Next, Step

(* No failing read, of this page or of any other, and no boundary between   *)
(* LUNs or targets makes snand_read miss a page that can be read.           *)
THEOREM KeepsReadable == Spec => []DumpKeepsReadable
<1>1. Init => KInv
  <2> SUFFICES ASSUME Init PROVE KInv
    OBVIOUS
  <2>1. Len(dump) = 0 /\ pc = "idle"
    BY EmptySeq DEF Init
  <2> QED
    BY <2>1, InitInv DEF KInv, Aligned, DumpKeepsReadable
<1>2. KInv /\ [Next]_vars => KInv'
  BY NextKeeps
<1>3. KInv => DumpKeepsReadable
  BY DEF KInv
<1> QED
  BY <1>1, <1>2, <1>3, PTL DEF Spec
-----------------------------------------------------------------------------
(* How far a dump has come.  When the length is within a page of the end of *)
(* size_t, rdlen wraps before it reaches it and the loop does not end: the  *)
(* second alternative, which a finished dump rules out.                     *)
Progress ==
    pc \in {"read", "dumped"} =>
        /\ req \in Reads /\ len = Length(req)
        /\ count < SizeMod /\ count % PageSize = 0
        /\ \/ /\ count = Len(dump) * PageSize
              /\ Len(dump) = 0 \/ (Len(dump) - 1) * PageSize < len
           \/ len > SizeMod - PageSize

LInv == IInv /\ Progress /\ (pc = "dumped" => count >= len)

(* Multiples of d are at least d apart. *)
LEMMA MultiplesApart ==
    ASSUME NEW d \in Nat \ {0}, NEW a \in Nat, NEW b \in Nat,
           a % d = 0, b % d = 0, a < b
    PROVE  a + d <= b /\ (a + d) % d = 0
<1> DEFINE k == a \div d
           m == b \div d
<1>1. k \in Nat /\ m \in Nat /\ a = k * d + (a % d) /\ b = m * d + (b % d)
  BY DivModFacts
<1> HIDE DEF k, m
<1>2. k * d \in Nat /\ m * d \in Nat
  BY <1>1, ProductNat
<1>3. a = k * d /\ b = m * d
  BY <1>1, <1>2
<1>4. k < m
  <2> SUFFICES ASSUME m <= k PROVE FALSE
    BY <1>1
  <2>1. PICK j \in Nat : k = m + j
    BY <1>1
  <2>2. k * d = m * d + j * d /\ j * d \in Nat
    BY <1>1, <2>1
  <2> QED
    BY <1>2, <1>3, <2>2
<1>5. PICK j \in Nat : m = k + 1 + j
  BY <1>1, <1>4
<1>6. m * d = k * d + d + j * d /\ j * d \in Nat
  BY <1>1, <1>5
<1>7. (k + 1) * d + 0 = a + d /\ 0 \in 0 .. d - 1 /\ k + 1 \in Nat
  BY <1>1, <1>2, <1>3
<1>8. ((k + 1) * d + 0) % d = 0
  BY <1>7, DivOfSum
<1>9. a + d <= b
  BY <1>2, <1>3, <1>6
<1> QED
  BY <1>7, <1>8, <1>9

LEMMA SizeModFacts ==
    /\ SizeMod \in Nat \ {0} /\ PageSize \in Nat \ {0} /\ SizeMod % PageSize = 0
    /\ FlashSize \in Nat /\ FlashSize < SizeMod
BY FlashReadAssumption, MemorgAssumption, SizesPositive

LEMMA LengthAsked ==
    ASSUME NEW r \in Reads, r.offs <= FlashSize
    PROVE  Length(r) = IF r.len = 0 THEN FlashSize - r.offs ELSE r.len
<1>1. r.offs \in Nat /\ FlashSize \in Nat /\ SizeMod \in Nat \ {0}
      /\ FlashSize < SizeMod
  BY SizeModFacts, FlashReadAssumption DEF Read
<1>2. FlashSize - r.offs \in 0 .. SizeMod - 1
  BY <1>1
<1>3. FlashSize + SizeMod - r.offs = 1 * SizeMod + (FlashSize - r.offs)
  BY <1>1
<1>4. (1 * SizeMod + (FlashSize - r.offs)) % SizeMod = FlashSize - r.offs
  BY <1>1, <1>2, DivOfSum
<1> QED
  BY <1>3, <1>4 DEF Length

LEMMA DumpPageProgress ==
    ASSUME LInv, DumpPage
    PROVE  Progress'
<1>1. /\ pc = "read" /\ pc' = "read" /\ req' = req /\ len' = len /\ count < len
      /\ count' = (count + PageSize) % SizeMod /\ dump' = Append(dump, buf')
  BY DEF DumpPage
<1>2. IInv /\ IInv'
  BY DumpPageInv DEF LInv
<1>3. /\ count \in Nat /\ len \in Nat /\ dump \in Seq(Contents)
      /\ buf' \in Contents
  BY <1>2 DEF IInv, TypeOK, Contents
<1>4. Len(dump) \in Nat /\ Len(dump') = Len(dump) + 1
  BY <1>1, <1>3, LenProperties, AppendProperties
<1>5. /\ req \in Reads /\ len = Length(req)
      /\ count < SizeMod /\ count % PageSize = 0
      /\ \/ /\ count = Len(dump) * PageSize
            /\ Len(dump) = 0 \/ (Len(dump) - 1) * PageSize < len
         \/ len > SizeMod - PageSize
  BY <1>1 DEF LInv, Progress
<1>6. count + PageSize <= SizeMod /\ (count + PageSize) % PageSize = 0
  BY <1>3, <1>5, SizeModFacts, MultiplesApart
<1>7. len' = Length(req')
  BY <1>1, <1>5 DEF Length
<1>8. CASE count + PageSize = SizeMod
  <2>1. 1 * SizeMod + 0 = SizeMod /\ 0 \in 0 .. SizeMod - 1
    BY SizeModFacts
  <2>2. (1 * SizeMod + 0) % SizeMod = 0
    BY <2>1, SizeModFacts, DivOfSum
  <2>3. count' = 0
    BY <1>1, <1>8, <2>1, <2>2
  <2>4. 0 % PageSize = 0
    <3>1. 0 * PageSize + 0 = 0 /\ 0 \in 0 .. PageSize - 1
      BY SizeModFacts
    <3>2. (0 * PageSize + 0) % PageSize = 0
      BY <3>1, SizeModFacts, DivOfSum
    <3> QED
      BY <3>1, <3>2
  <2>5. len' > SizeMod - PageSize
    BY <1>1, <1>3, <1>8, SizeModFacts
  <2>6. count' < SizeMod /\ count' % PageSize = 0
    BY <2>3, <2>4, SizeModFacts
  <2> QED
    BY <1>1, <1>5, <1>7, <2>5, <2>6 DEF Progress
<1>9. CASE count + PageSize < SizeMod
  <2>1. count + PageSize \in 0 .. SizeMod - 1
    BY <1>3, <1>9, SizeModFacts
  <2>2. 0 * SizeMod + (count + PageSize) = count + PageSize
    BY <2>1, SizeModFacts
  <2>3. (0 * SizeMod + (count + PageSize)) % SizeMod = count + PageSize
    BY <2>1, SizeModFacts, DivOfSum
  <2>4. count' = count + PageSize
    BY <1>1, <2>2, <2>3
  <2>5. count' < SizeMod /\ count' % PageSize = 0
    BY <1>6, <1>9, <2>4
  <2>6. CASE len > SizeMod - PageSize
    BY <1>1, <1>5, <1>7, <2>5, <2>6 DEF Progress
  <2>7. CASE count = Len(dump) * PageSize
    <3>1. Len(dump') * PageSize = Len(dump) * PageSize + PageSize
      BY <1>4, SizeModFacts
    <3>2. count' = Len(dump') * PageSize
      BY <2>4, <2>7, <3>1
    <3>3. Len(dump') - 1 = Len(dump)
      BY <1>4
    <3>4. (Len(dump') - 1) * PageSize < len'
      BY <1>1, <2>7, <3>3
    <3> QED
      BY <1>1, <1>5, <1>7, <2>5, <3>2, <3>4 DEF Progress
  <2> QED
    BY <1>5, <2>6, <2>7
<1> QED
  BY <1>3, <1>6, <1>8, <1>9, SizeModFacts

LEMMA NextProgress ==
    ASSUME LInv, [Next]_vars
    PROVE  LInv'
<1>1. IInv'
  BY NextInv DEF LInv
<1> SUFFICES Progress' /\ (pc' = "dumped" => count' >= len')
  BY <1>1 DEF LInv
<1>2. ASSUME NEW r \in Reads, StartRead(r)
      PROVE  Progress' /\ (pc' = "dumped" => count' >= len')
  <2>1. dump' = << >> /\ Len(dump') = 0
    BY <1>2, EmptySeq DEF StartRead, LInv, IInv, Cursor
  <2>2. 0 * PageSize = 0 /\ 0 % PageSize = 0 /\ 0 < SizeMod
    <3>1. 0 * PageSize + 0 = 0 /\ 0 \in 0 .. PageSize - 1 /\ 0 * PageSize = 0
      BY SizeModFacts
    <3>2. (0 * PageSize + 0) % PageSize = 0
      BY <3>1, SizeModFacts, DivOfSum
    <3> QED
      BY <3>1, <3>2, SizeModFacts
  <2>3. req' = r /\ len' = Length(r) /\ count' = 0 /\ pc' = "read"
    BY <1>2 DEF StartRead
  <2>4. len' = Length(req')
    BY <2>3 DEF Length
  <2> QED
    BY <2>1, <2>2, <2>3, <2>4 DEF Progress
<1>3. ASSUME NEW r \in Reads, RefuseRead(r)
      PROVE  Progress' /\ (pc' = "dumped" => count' >= len')
  BY <1>3 DEF RefuseRead, Progress
<1>4. CASE DumpPage
  BY <1>4, DumpPageProgress DEF DumpPage
<1>5. CASE ScanBlock
  BY <1>5 DEF ScanBlock, Progress
<1>6. CASE ReadEnds
  BY <1>6 DEF ReadEnds, LInv, Progress, Length
<1>7. CASE ScanEnds
  BY <1>7 DEF ScanEnds, Progress
<1>8. CASE StartScan
  BY <1>8 DEF StartScan, Progress
<1>9. CASE ProcessEnds
  BY <1>9 DEF ProcessEnds, Progress
<1>10. CASE UNCHANGED vars
  BY <1>10 DEF vars, LInv, Progress, Length
<1> QED
  BY <1>2, <1>3, <1>4, <1>5, <1>6, <1>7, <1>8, <1>9, <1>10 DEF Next, Step

LEMMA LengthReached ==
    ASSUME LInv
    PROVE  DumpLength
<1> SUFFICES ASSUME pc = "dumped", req.offs <= FlashSize
             PROVE  Len(dump) = PagesAsked(req)
  BY DEF DumpLength
<1> DEFINE n == Len(dump)
           S == PageSize
<1>1. /\ req \in Reads /\ len = Length(req) /\ count < SizeMod
      /\ count % S = 0 /\ count >= len
      /\ \/ count = n * S /\ (n = 0 \/ (n - 1) * S < len)
         \/ len > SizeMod - S
  BY DEF LInv, Progress
<1>2. count \in Nat /\ len \in Nat /\ dump \in Seq(Contents)
  BY DEF LInv, IInv, TypeOK, Contents
<1>3. n \in Nat /\ S \in Nat \ {0}
  BY <1>2, SizeModFacts, LenProperties
<1>4. PagesAsked(req) = (len + S - 1) \div S
  BY <1>1, LengthAsked DEF PagesAsked
<1> HIDE DEF n
<1>5. count + S <= SizeMod
  BY <1>1, <1>2, <1>3, SizeModFacts, MultiplesApart
<1>6. count = n * S /\ (n = 0 \/ (n - 1) * S < len)
  BY <1>1, <1>2, <1>3, <1>5, SizeModFacts
<1>7. n * S \in Nat
  BY <1>3, ProductNat
<1>8. (n - 1) * S = n * S - S
  BY <1>3
<1>9. n = 0 => n * S = 0
  BY <1>3
<1> DEFINE r == len + S - 1 - n * S
<1>10. r \in 0 .. S - 1
  BY <1>1, <1>2, <1>3, <1>6, <1>7, <1>8, <1>9
<1>11. n * S + r = len + S - 1
  BY <1>2, <1>3, <1>7
<1> HIDE DEF r
<1>12. (n * S + r) \div S = n
  BY <1>3, <1>10, DivOfSum
<1> QED
  BY <1>4, <1>11, <1>12 DEF n

(* A finished dump has exactly the pages asked for, by default all up to    *)
(* the end of the flash, whatever the lengths that the command line gives.  *)
THEOREM LengthAsAsked == Spec => []DumpLength
<1>1. Init => LInv
  BY InitInv DEF Init, LInv, Progress
<1>2. LInv /\ [Next]_vars => LInv'
  BY NextProgress
<1>3. LInv => DumpLength
  BY LengthReached
<1> QED
  BY <1>1, <1>2, <1>3, PTL DEF Spec
-----------------------------------------------------------------------------
(* The lines a scan prints that has examined the first n eraseblocks. *)
Named(n) ==
    { Line(OffsToPos(b * EraseblockSize)) :
        b \in { e \in 0 .. n - 1 : e \in marked \/ << e, 0 >> \in broken } }

(* The scan is at the first page of an eraseblock, has counted the bytes    *)
(* before it, and has named what there was to name before it.               *)
ScanCursor ==
    pc = "scan" => /\ pos.page = 0 /\ EbIndex(pos) <= NEraseblocks
                   /\ count = EbIndex(pos) * EraseblockSize
                   /\ reported = Named(EbIndex(pos))

SInv == /\ IInv /\ ScanCursor
        /\ pc = "idle" => reported = {}
        /\ pc = "scanned" => reported = Named(NEraseblocks)

LEMMA FirstPage ==
    ASSUME NEW b \in Nat
    PROVE  LET q == OffsToPos(b * EraseblockSize)
           IN  q \in Position /\ q.page = 0 /\ EbIndex(q) = b
<1> DEFINE q == OffsToPos(b * EraseblockSize)
           P == PagesPerEraseblock
           S == PageSize
<1>1. /\ S \in Nat \ {0} /\ P \in Nat \ {0} /\ EraseblockSize = S * P
      /\ EraseblockSize \in Nat \ {0}
  BY MemorgAssumption, SizesPositive DEF EraseblockSize
<1>2. b * EraseblockSize \in Nat
  BY <1>1, ProductNat
<1>3. (b * EraseblockSize) % EraseblockSize = 0
  <2>1. b * EraseblockSize + 0 = b * EraseblockSize /\ 0 \in 0 .. EraseblockSize - 1
    BY <1>1, <1>2
  <2>2. (b * EraseblockSize + 0) % EraseblockSize = 0
    BY <1>1, <2>1, DivOfSum
  <2> QED
    BY <2>1, <2>2
<1>4. q \in Position /\ PosToOffs(q) = b * EraseblockSize /\ q.page = 0
  BY <1>2, <1>3, AlignedOffsToPos
<1> HIDE DEF q
<1> DEFINE k == EbIndex(q)
<1>5. k \in Nat
  BY <1>4, EbIndexNat
<1>6. PosToOffs(q) = (0 + k * P) * S
  BY <1>4 DEF PosToOffs
<1> HIDE DEF k
<1>7. k * EraseblockSize = (0 + k * P) * S
  BY <1>1, <1>5
<1>8. k * EraseblockSize + 0 = b * EraseblockSize + 0 /\ 0 \in 0 .. EraseblockSize - 1
  BY <1>1, <1>4, <1>6, <1>7
<1>9. k = b
  BY <1>1, <1>5, <1>8, QuotientUnique
<1> QED
  BY <1>4, <1>9 DEF k, q

(* A position on the device names an existing target. *)
LEMMA TargetExists ==
    ASSUME NEW p \in Position, EbIndex(p) < NEraseblocks
    PROVE  p.target < NTargets
<1> DEFINE L == LunsPerTarget
           E == EraseblocksPerLun
           t == p.target
<1>1. L \in Nat \ {0} /\ E \in Nat \ {0} /\ NTargets \in Nat \ {0}
  BY MemorgAssumption
<1>2. t \in Nat /\ p.lun \in Nat /\ p.eraseblock \in Nat
  BY <1>1 DEF Position
<1>3. p.eraseblock + (p.lun + t * L) * E < NTargets * L * E
  BY DEF EbIndex, NEraseblocks
<1> SUFFICES ASSUME NTargets <= t PROVE FALSE
  BY <1>1, <1>2
<1> HIDE DEF t
<1>4. PICK d \in Nat : t = NTargets + d
  BY <1>1, <1>2
<1>5. (p.lun + t * L) * E = p.lun * E + (d * L) * E + NTargets * L * E
  BY <1>1, <1>2, <1>4
<1>6. p.lun * E \in Nat /\ (d * L) * E \in Nat /\ NTargets * L * E \in Nat
  BY <1>1, <1>2, <1>4, ProductNat
<1> QED
  BY <1>2, <1>3, <1>5, <1>6

(* What one turn of the scan adds. *)
LEMMA NamedStep ==
    ASSUME NEW k \in Nat
    PROVE  Named(k + 1) = IF k \in marked \/ << k, 0 >> \in broken
                          THEN Named(k) \cup {Line(OffsToPos(k * EraseblockSize))}
                          ELSE Named(k)
<1>1. 0 .. (k + 1) - 1 = (0 .. k - 1) \cup {k}
  OBVIOUS
<1>2. \A e \in 0 .. k - 1 : e # k
  OBVIOUS
<1> DEFINE Bad(e) == e \in marked \/ << e, 0 >> \in broken
           B(n) == { e \in 0 .. n - 1 : Bad(e) }
<1>3. CASE Bad(k)
  <2>1. B(k + 1) = B(k) \cup {k}
    BY <1>1, <1>3
  <2> QED
    BY <1>3, <2>1 DEF Named
<1>4. CASE ~ Bad(k)
  <2>1. B(k + 1) = B(k)
    BY <1>1, <1>2, <1>4
  <2> QED
    BY <1>4, <2>1 DEF Named
<1> QED
  BY <1>3, <1>4

LEMMA ScanBlockNames ==
    ASSUME SInv, ScanBlock
    PROVE  ScanCursor'
<1> DEFINE k == EbIndex(pos)
           B == EraseblockSize
           N == NEraseblocks
<1>1. /\ pc = "scan" /\ pc' = "scan" /\ pos \in Position /\ pos' = NextEraseblock(pos)
      /\ count' = count + B /\ count < FlashSize
      /\ marked' = marked /\ broken' = broken
      /\ reported' = IF IsBad(pos) THEN reported \cup {Line(pos)} ELSE reported
  BY DEF SInv, IInv, TypeOK, ScanBlock, flash
<1>2. pos.page = 0 /\ k <= N /\ count = k * B /\ reported = Named(k)
  BY <1>1 DEF SInv, ScanCursor
<1>3. k \in Nat /\ B \in Nat \ {0} /\ N \in Nat \ {0}
  BY <1>1, EbIndexNat, SizesPositive
<1>4. EbIndex(NextEraseblock(pos)) = k + 1 /\ NextEraseblock(pos).page = 0
  BY <1>1, NextEraseblockAdvances
<1>5. EbIndex(pos') = k + 1 /\ pos'.page = 0
  BY <1>1, <1>4
<1>6. PageAt(pos) = << k, 0 >>
  BY <1>2 DEF PageAt
<1> HIDE DEF k
<1>7. k < N
  <2>1. k * B < N * B
    BY <1>1, <1>2 DEF FlashSize
  <2> QED
    BY <1>2, <1>3, <2>1
<1>8. IsBad(pos) <=> k \in marked \/ << k, 0 >> \in broken
  <2>1. pos.target < NTargets
    BY <1>1, <1>7, TargetExists DEF k
  <2>2. CanRead(pos, FALSE) <=> << k, 0 >> \notin broken
    BY <1>6, <2>1 DEF CanRead
  <2> QED
    BY <2>2 DEF IsBad, k
<1>9. Line(pos) = Line(OffsToPos(k * B))
  <2> DEFINE q == OffsToPos(k * B)
  <2>1. q \in Position /\ q.page = 0 /\ EbIndex(q) = k
    BY <1>3, FirstPage
  <2> HIDE DEF q
  <2>2. PosToOffs(q) = PosToOffs(pos)
    BY <1>2, <2>1 DEF PosToOffs, k
  <2>3. Line(pos) = Line(q)
    BY <1>1, <2>1, <2>2, SamePage
  <2> QED
    BY <2>3 DEF q
<1>10. reported' = Named(k + 1)
  BY <1>1, <1>2, <1>3, <1>8, <1>9, NamedStep
<1>11. count' = (k + 1) * B /\ k + 1 <= N
  BY <1>1, <1>2, <1>3, <1>7
<1> QED
  BY <1>1, <1>5, <1>10, <1>11 DEF ScanCursor, Named
LEMMA NextNames ==
    ASSUME SInv, [Next]_vars
    PROVE  SInv'
<1>1. IInv'
  BY NextInv DEF SInv
<1> DEFINE Rest == /\ ScanCursor'
                   /\ pc' = "idle" => reported' = {}
                   /\ pc' = "scanned" => reported' = Named(NEraseblocks)'
<1> SUFFICES Rest
  BY <1>1 DEF SInv
<1>2. ASSUME NEW r \in Reads, StartRead(r) PROVE Rest
  BY <1>2 DEF StartRead, ScanCursor
<1>3. ASSUME NEW r \in Reads, RefuseRead(r) PROVE Rest
  BY <1>3 DEF RefuseRead, ScanCursor
<1>4. CASE DumpPage
  BY <1>4 DEF DumpPage, ScanCursor
<1>5. CASE ScanBlock
  <2>1. ScanCursor'
    BY <1>5, ScanBlockNames
  <2>2. pc' = "scan"
    BY <1>5 DEF ScanBlock
  <2> QED
    BY <2>1, <2>2
<1>6. CASE ReadEnds
  BY <1>6 DEF ReadEnds, ScanCursor
<1>7. CASE ScanEnds
  <2> DEFINE k == EbIndex(pos)
             B == EraseblockSize
             N == NEraseblocks
  <2>1. /\ pc' = "scanned" /\ reported' = reported /\ count >= FlashSize
        /\ marked' = marked /\ broken' = broken /\ pos \in Position
    BY <1>7 DEF ScanEnds, flash, SInv, IInv, TypeOK
  <2>2. k <= N /\ count = k * B /\ reported = Named(k)
    BY <1>7 DEF ScanEnds, SInv, ScanCursor
  <2>3. k \in Nat /\ B \in Nat \ {0} /\ N \in Nat \ {0}
    BY <2>1, EbIndexNat, SizesPositive
  <2> HIDE DEF k
  <2>4. k = N
    <3> SUFFICES ASSUME k < N PROVE FALSE
      BY <2>2, <2>3
    <3>1. PICK j \in Nat : N = k + 1 + j
      BY <2>3
    <3>2. N * B = k * B + B + j * B /\ j * B \in Nat /\ k * B \in Nat
      BY <2>3, <3>1
    <3>3. k * B >= N * B
      BY <2>1, <2>2 DEF FlashSize
    <3> QED
      BY <2>3, <3>2, <3>3
  <2>5. reported' = Named(N)
    BY <2>1, <2>2, <2>4
  <2> QED
    BY <2>1, <2>5 DEF ScanCursor, Named
<1>8. CASE StartScan
  <2> DEFINE q == OffsToPos(0)
  <2>1. 0 * EraseblockSize = 0
    BY SizesPositive
  <2>2. q.page = 0 /\ EbIndex(q) = 0
    BY <2>1, FirstPage
  <2>3. pos' = q /\ count' = 0 /\ pc' = "scan" /\ reported' = {}
    BY <1>8 DEF StartScan, SInv
  <2> HIDE DEF q
  <2>4. pos'.page = 0 /\ EbIndex(pos') = 0
    BY <2>2, <2>3
  <2>5. 0 <= NEraseblocks
    BY SizesPositive
  <2>6. reported' = Named(0)'
    <3>1. 0 .. 0 - 1 = {}
      OBVIOUS
    <3> QED
      BY <2>3, <3>1 DEF Named
  <2> QED
    BY <2>1, <2>3, <2>4, <2>5, <2>6 DEF ScanCursor, Named
<1>9. CASE ProcessEnds
  BY <1>9 DEF ProcessEnds, ScanCursor
<1>10. CASE UNCHANGED vars
  BY <1>10 DEF vars, SInv, ScanCursor, Named, EbIndex
<1> HIDE DEF Rest
<1> QED
  BY <1>2, <1>3, <1>4, <1>5, <1>6, <1>7, <1>8, <1>9, <1>10 DEF Next, Step

(* A finished scan has named the marked eraseblocks and those whose marker   *)
(* it could not read, all of them and no other, for every memory             *)
(* organisation and every pattern of failing reads.                          *)
THEOREM ScanNamesAll == Spec => []ScanComplete
<1>1. Init => SInv
  BY InitInv DEF Init, SInv, ScanCursor
<1>2. SInv /\ [Next]_vars => SInv'
  BY NextNames
<1>3. SInv => ScanComplete
  BY DEF SInv, ScanComplete, Named, Eraseblocks
<1> QED
  BY <1>1, <1>2, <1>3, PTL DEF Spec
=============================================================================
