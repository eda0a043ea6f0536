---------------------------- MODULE VendorTables ----------------------------
(***************************************************************************)
(* The chip tables of the vendor files of spi-nand/, row by row, and the   *)
(* operation templates of include/spinand.h they refer to.  A row keeps    *)
(* what initialisation and reading look at: identifier, identification     *)
(* method, page and OOB size, number of targets, flags, operation variants *)
(* and how the chip reports on its ECC.                                    *)
(***************************************************************************)
EXTENDS SpiMem, Sequences

GigaDevice == \hC8
Macronix   == \hC2
Micron     == \h2C
Paragon    == \hA1
Toshiba    == \h98
Winbond    == \hEF

Methods == << "opcode", "addr", "dummy" >>     \* in the order they are tried
Flags   == {"qe", "cr"}

(* eccreq.strength, and eccinfo.get_status by its name. *)
EccInfo == [ strength : Nat,
             get_status : {"gd5fxgq4xa", "gd5fxgq4uexxg", "gd5fxgq5xexxg",
                           "gd5fxgq4ufxxg", "mx35lf1ge4ab", "micron_8",
                           "pn26g0xa", "tx58cxgxsxraix", "null"} ]
Ecc(strength, decoder) == [ strength |-> strength, get_status |-> decoder ]

(* struct spinand_info *)
Info == [ mfr : Nat, devid : Seq(Nat), method : {"opcode", "addr", "dummy"},
          pagesize : Nat, oobsize : Nat, ntargets : Nat \ {0},
          flags : SUBSET Flags, select_target : BOOLEAN, ecc : EccInfo,
          read : Seq(Op), write : Seq(Op), update : Seq(Op) ]

(* SPINAND_PAGE_READ_FROM_CACHE_*: na address and nd dummy bytes on aw     *)
(* wires, data on dw.                                                      *)
PhaseOf(n, w) == [ nbytes |-> n, width |-> w ]

ReadFromCache(na, nd, aw, dw) ==
    [ cmd |-> PhaseOf(1, 1), addr |-> PhaseOf(na, aw), dummy |-> PhaseOf(nd, aw),
      data |-> PhaseOf(0, dw), dir |-> "in" ]

(* SPINAND_PROG_LOAD, SPINAND_PROG_LOAD_X4 *)
ProgLoad(dw) ==
    [ cmd |-> PhaseOf(1, 1), addr |-> PhaseOf(2, 1), dummy |-> PhaseOf(0, 0),
      data |-> PhaseOf(0, dw), dir |-> "out" ]

(* The variants; quad and dual are the dummy bytes of those forms.         *)
ReadX4 == << ReadFromCache(2, 1, 1, 4), ReadFromCache(2, 1, 1, 2),
             ReadFromCache(2, 1, 1, 1), ReadFromCache(2, 1, 1, 1) >>
ReadIO(quad, dual) ==
    << ReadFromCache(2, quad, 4, 4), ReadX4[1],
       ReadFromCache(2, dual, 2, 2), ReadX4[2], ReadX4[3], ReadX4[4] >>
Read3A ==
    << ReadFromCache(2, 1, 4, 4), ReadFromCache(3, 1, 1, 4),
       ReadFromCache(2, 1, 2, 2), ReadFromCache(3, 1, 1, 2),
       ReadFromCache(3, 1, 1, 1), ReadFromCache(3, 0, 1, 1) >>
LoadX4 == << ProgLoad(4), ProgLoad(1) >>
LoadX1 == << ProgLoad(1) >>

(* SPINAND_INFO: one target and the same variants to load and to update. *)
Row(mfr, devid, method, page, oob, flags, read, load, ecc) ==
    [ mfr |-> mfr, devid |-> devid, method |-> method,
      pagesize |-> page, oobsize |-> oob, ntargets |-> 1,
      flags |-> flags, select_target |-> FALSE, ecc |-> ecc,
      read |-> read, write |-> load, update |-> load ]

(* NAND_MEMORG with two targets and SPINAND_SELECT_TARGET. *)
TwoDies(row) == [ row EXCEPT !.ntargets = 2, !.select_target = TRUE ]
-----------------------------------------------------------------------------
GdRow(devid, method, page, oob, read, ecc) ==
    Row(GigaDevice, devid, method, page, oob, {"qe"}, read, LoadX4, ecc)

GigaDeviceTable ==
    LET xA == Ecc(8, "gd5fxgq4xa")
        UE == Ecc(8, "gd5fxgq4uexxg")
        UF == Ecc(8, "gd5fxgq4ufxxg")
    IN  << GdRow(<< \hF1 >>, "addr", 2048, 64, ReadIO(1, 1), xA),
           GdRow(<< \hF2 >>, "addr", 2048, 64, ReadIO(1, 1), xA),
           GdRow(<< \hF4 >>, "addr", 2048, 64, ReadIO(1, 1), xA),
           GdRow(<< \hA4, \h68 >>, "opcode", 4096, 256, Read3A, UF),
           GdRow(<< \hB4, \h68 >>, "opcode", 4096, 256, Read3A, UF),
           GdRow(<< \hD1 >>, "addr", 2048, 128, ReadIO(1, 1), UE),
           GdRow(<< \hC1 >>, "addr", 2048, 128, ReadIO(1, 1), UE),
           GdRow(<< \hD2 >>, "addr", 2048, 128, ReadIO(1, 1), UE),
           GdRow(<< \hC2 >>, "addr", 2048, 128, ReadIO(1, 1), UE),
           GdRow(<< \hB1, \h48 >>, "opcode", 2048, 128, Read3A, UF) >>

GigaDeviceTableDummy ==
    LET rows(ids, read, ecc) ==
            [ k \in 1 .. Len(ids) |->
                GdRow(<< ids[k] >>, "dummy", 2048, 128, read, ecc) ]
    IN  rows(<< \h51, \h41 >>, ReadIO(2, 1), Ecc(4, "gd5fxgq5xexxg"))
          \o
        rows(<< \h52, \h42, \h55, \h45 >>, ReadIO(4, 2), Ecc(4, "gd5fxgq5xexxg"))
          \o
        rows(<< \h91, \h81, \h92, \h82, \h95, \h85 >>, ReadIO(2, 1),
             Ecc(8, "gd5fxgq4uexxg"))

MacronixTable ==
    [ k \in 1 .. 2 |->
        Row(Macronix, << << \h12, \h22 >>[k] >>, "dummy", 2048, 64, {"qe"}, ReadX4,
            LoadX4, Ecc(4, << "mx35lf1ge4ab", "null" >>[k])) ]

MicronRow(id, page, oob, flags) ==
    Row(Micron, << id >>, "dummy", page, oob, flags, ReadIO(2, 1), LoadX4,
        Ecc(8, "micron_8"))

MicronTable ==
    << MicronRow(\h24, 2048, 128, {}), MicronRow(\h25, 2048, 128, {}),
       MicronRow(\h14, 2048, 128, {}), MicronRow(\h15, 2048, 128, {}),
       TwoDies(MicronRow(\h36, 2048, 128, {})),
       MicronRow(\h34, 4096, 256, {"cr"}), MicronRow(\h35, 4096, 256, {"cr"}),
       TwoDies(MicronRow(\h46, 4096, 256, {"cr"})),
       TwoDies(MicronRow(\h47, 4096, 256, {"cr"})) >>

ParagonTable ==
    [ k \in 1 .. 2 |-> Row(Paragon, << << \hE1, \hE2 >>[k] >>, "dummy", 2048, 128,
                           {}, ReadIO(2, 1), LoadX4, Ecc(8, "pn26g0xa")) ]

(* The first generation loads on one wire, the second has a quad bit; of   *)
(* each the chips with large pages are the last.                           *)
ToshibaTable ==
    LET page(small) == IF small THEN 2048 ELSE 4096
        row(id, small, flags, load) ==
            Row(Toshiba, << id >>, "dummy", page(small), page(small) \div 16,
                flags, ReadX4, load, Ecc(8, "tx58cxgxsxraix"))
        first  == << \hC2, \hCB, \hCD, \hB2, \hBB, \hBD >>
        second == << \hE2, \hEB, \hED, \hE4, \hD2, \hDB, \hDD, \hD4 >>
    IN  [ k \in 1 .. 6 |-> row(first[k], k \in {1, 2, 4, 5}, {}, LoadX1) ]
          \o
        [ k \in 1 .. 8 |-> row(second[k], k \in {1, 2, 5, 6}, {"qe"}, LoadX4) ]

WinbondRow(id) ==
    Row(Winbond, << id >>, "dummy", 2048, 64, {}, ReadIO(2, 1), LoadX4, Ecc(1, "null"))
WinbondTable == << TwoDies(WinbondRow(\hAB)), WinbondRow(\hAA) >>

(* spinand_manufacturers: the tables in the order they are searched. *)
VendorTable ==
    GigaDeviceTable \o GigaDeviceTableDummy \o MacronixTable \o MicronTable
      \o ParagonTable \o ToshibaTable \o WinbondTable
=============================================================================
