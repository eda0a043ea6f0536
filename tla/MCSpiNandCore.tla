---------------------------- MODULE MCSpiNandCore ----------------------------
(***************************************************************************)
(* The calls TLC tries on instances of SpiNandCore.                        *)
(***************************************************************************)
EXTENDS SpiNandCore

CONSTANT D1    \* something to write

DataSet == {D1}

PageCall(op, d, b, p, e, qs) ==
    [ op |-> op, die |-> d, block |-> b, page |-> p, ecc |-> e, parts |-> qs,
      data |-> D1 ]

Erase(d, b) == PageCall("erase", d, b, 0, FALSE, {})

(* On one page: a write with ECC of the main area and a raw one of the     *)
(* OOB, a read of both, an erase.  Elsewhere: a raw read on the other die  *)
(* and plane, a read past the end.                                         *)
CallsMixed ==
    { PageCall("write", 1, 1, 0, TRUE, {"main"}),
      PageCall("write", 1, 1, 0, FALSE, {"oob"}),
      PageCall("read", 1, 1, 0, TRUE, Parts),
      Erase(1, 1),
      PageCall("read", 0, 0, 0, FALSE, {"oob"}),
      PageCall("read", NDies, 0, 0, TRUE, {"main"}) }

(* A write that needs ECC on one die, an erase on the other. *)
CallsFew == { PageCall("write", 1, 0, 0, TRUE, {"main"}), Erase(0, 0) }
=============================================================================
