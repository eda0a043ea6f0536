---------------------------- MODULE MCFlashWrite ----------------------------
(***************************************************************************)
(* The command lines TLC tries on instances of FlashWrite.                 *)
(***************************************************************************)
EXTENDS FlashWrite

Write(offs, ecc, oob, rest, seekable) ==
    [ offs |-> offs, file |-> TRUE, ecc |-> ecc, oob |-> oob, rest |-> rest,
      seekable |-> seekable ]

Erase(offs) == [ NoRequest EXCEPT !.offs = offs ]

(* One of each kind: a verified write, a raw write with OOB over the second *)
(* target, a write from a pipe, an erase, a misaligned offset.              *)
RequestsMixed ==
    { Write(0, TRUE, FALSE, FALSE, TRUE),
      Write(2 * EraseblockSize, FALSE, TRUE, FALSE, TRUE),
      Write(EraseblockSize, TRUE, FALSE, TRUE, FALSE),
      Erase(EraseblockSize),
      Write(PageSize, TRUE, FALSE, FALSE, TRUE) }

(* A file that can be rewound, verified as it is written. *)
RequestsVerified == { Write(0, TRUE, FALSE, FALSE, TRUE) }
=============================================================================
