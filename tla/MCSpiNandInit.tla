--------------------------- MODULE MCSpiNandInit ---------------------------
(***************************************************************************)
(* The real tables, the real limits of the three adapters, and one chip    *)
(* that is in no table.                                                    *)
(***************************************************************************)
EXTENDS SpiNandEcc

KnownChips == { VendorTable[k] : k \in 1 .. Len(VendorTable) }

(* A GigaDevice chip whose second byte is that of no row. *)
KnownWorld ==
    KnownChips \cup { GdRow(<< \hB1, \h59 >>, "opcode", 2048, 128, Read3A,
                              Ecc(8, "gd5fxgq4ufxxg")) }

(* MT29F8G01ADAFD *)
ContinuousWorld == { p \in KnownChips : p.mfr = Micron /\ p.devid = << \h46 >> }

(* serprog, ch347 with less room than a large page, fx2qspi. *)
AllAdapters ==
    { [ mode |-> {}, limit |-> \hFFFFFF, whole |-> TRUE ],
      [ mode |-> {}, limit |-> 4096, whole |-> TRUE ],
      [ mode |-> {"in", "out"} \X {2, 4}, limit |-> \hFC0000,
        whole |-> FALSE ] }
=============================================================================
