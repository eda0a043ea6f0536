----------------------------- MODULE MCFlashRead -----------------------------
(***************************************************************************)
(* The command lines TLC tries on instances of FlashRead.                  *)
(***************************************************************************)
EXTENDS FlashRead

Dump(offs, n, ecc) == [ offs |-> offs, len |-> n, ecc |-> ecc ]

(* The whole device; from the second LUN on, raw; part of a page; past the  *)
(* end of the device, and from beyond it, where size_t wraps; misaligned.   *)
ReadsMixed ==
    { Dump(0, 0, TRUE),
      Dump(2 * EraseblockSize, 0, FALSE),
      Dump(PageSize, PageSize + 1, TRUE),
      Dump(FlashSize - PageSize, 3 * PageSize, TRUE),
      Dump(FlashSize, 0, TRUE),
      Dump(FlashSize + PageSize, 0, TRUE),
      Dump(1, 0, TRUE) }
=============================================================================
