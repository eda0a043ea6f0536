---------------------------- MODULE NandGeometry ----------------------------
(***************************************************************************)
(* The address arithmetic of include/nand.h: absolute byte offsets and     *)
(* positions (target, lun, plane, eraseblock, page).  Pure operators; the  *)
(* constants are the fields of struct nand_memory_organization.            *)
(*                                                                         *)
(* Every quantity of the code fits its C type for every chip of the        *)
(* vendor tables (npages < 2^32), so the naturals are exact here.          *)
(***************************************************************************)
EXTENDS Naturals

CONSTANTS PageSize,             \* memorg.pagesize
          PagesPerEraseblock,   \* memorg.pages_per_eraseblock
          EraseblocksPerLun,    \* memorg.eraseblocks_per_lun
          PlanesPerLun,         \* memorg.planes_per_lun
          LunsPerTarget,        \* memorg.luns_per_target
          NTargets              \* memorg.ntargets

(* nanddev_init refuses a memory organisation with a zero field. *)
ASSUME MemorgAssumption ==
    /\ PageSize \in Nat \ {0}
    /\ PagesPerEraseblock \in Nat \ {0}
    /\ EraseblocksPerLun \in Nat \ {0}
    /\ PlanesPerLun \in Nat \ {0}
    /\ LunsPerTarget \in Nat \ {0}
    /\ NTargets \in Nat \ {0}
-----------------------------------------------------------------------------
EraseblockSize == PageSize * PagesPerEraseblock

NEraseblocks == NTargets * LunsPerTarget * EraseblocksPerLun

FlashSize == NEraseblocks * EraseblockSize

PageNos == 0 .. PagesPerEraseblock - 1

Eraseblocks == 0 .. NEraseblocks - 1

(* struct nand_pos.  The position iterators may leave the last target, so  *)
(* target is not bounded by NTargets.                                      *)
Position ==
    [ target     : Nat,
      lun        : 0 .. LunsPerTarget - 1,
      plane      : 0 .. PlanesPerLun - 1,
      eraseblock : 0 .. EraseblocksPerLun - 1,
      page       : PageNos ]
-----------------------------------------------------------------------------
OffsToPosOneTarget(offs) ==     \* mutant: the last division forgotten
    LET page  == offs \div PageSize
        block == page \div PagesPerEraseblock
    IN  [ target |-> 0, lun |-> 0,
          plane |-> (block % EraseblocksPerLun) % PlanesPerLun,
          eraseblock |-> block % EraseblocksPerLun,
          page |-> page % PagesPerEraseblock ]
OffsToPos(offs) ==
    LET page  == offs \div PageSize
        block == page \div PagesPerEraseblock
        lun   == block \div EraseblocksPerLun
    IN  [ target     |-> lun \div LunsPerTarget,
          lun        |-> lun % LunsPerTarget,
          plane      |-> (block % EraseblocksPerLun) % PlanesPerLun,
          eraseblock |-> block % EraseblocksPerLun,
          page       |-> page % PagesPerEraseblock ]

(* The number of a position's eraseblock in the whole device: the inner    *)
(* part of the npages expression of nanddev_pos_to_offs.                   *)
EbIndex(pos) ==
    pos.eraseblock +
      (pos.lun + pos.target * LunsPerTarget) * EraseblocksPerLun

PosToOffs(pos) ==
    (pos.page + EbIndex(pos) * PagesPerEraseblock) * PageSize
-----------------------------------------------------------------------------
NextTargetKeepsBlock(pos) ==    \* mutant: a field not reset
    [ pos EXCEPT !.target = @ + 1, !.lun = 0, !.plane = 0, !.page = 0 ]
NextTarget(pos) ==
    [ target |-> pos.target + 1, lun |-> 0, plane |-> 0,
      eraseblock |-> 0, page |-> 0 ]

NextLun(pos) ==
    IF pos.lun >= LunsPerTarget - 1
    THEN NextTarget(pos)
    ELSE [ pos EXCEPT !.lun = @ + 1, !.page = 0, !.plane = 0,
                      !.eraseblock = 0 ]

NextEraseblockKeepsPage(pos) == \* mutant: a field not reset
    IF pos.eraseblock >= EraseblocksPerLun - 1
    THEN NextLun(pos)
    ELSE [ pos EXCEPT !.eraseblock = @ + 1,
                      !.plane = (pos.eraseblock + 1) % PlanesPerLun ]
NextEraseblock(pos) ==
    IF pos.eraseblock >= EraseblocksPerLun - 1
    THEN NextLun(pos)
    ELSE [ pos EXCEPT !.eraseblock = @ + 1, !.page = 0,
                      !.plane = (pos.eraseblock + 1) % PlanesPerLun ]

NextPagePastEnd(pos) ==         \* mutant: off by one
    IF pos.page > PagesPerEraseblock - 1
    THEN NextEraseblock(pos)
    ELSE [ pos EXCEPT !.page = @ + 1 ]
NextPage(pos) ==
    IF pos.page >= PagesPerEraseblock - 1
    THEN NextEraseblock(pos)
    ELSE [ pos EXCEPT !.page = @ + 1 ]
=============================================================================
