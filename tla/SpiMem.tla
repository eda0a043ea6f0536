------------------------------- MODULE SpiMem -------------------------------
(***************************************************************************)
(* The generic layer of spi-mem/spi-mem.c: which operations an adapter can *)
(* carry.  Pure operators.  None of the three adapters has a supports_op   *)
(* or a dirmap_create of its own, so the default test is the one used.     *)
(*                                                                         *)
(* An operation is its four phases; what an adapter's spi_mode says is the *)
(* set of << direction, width >> pairs it has wires for.                   *)
(***************************************************************************)
EXTENDS Naturals

Dirs == {"none", "in", "out"}

Phase == [ nbytes : Nat, width : Nat ]

Op == [ cmd : Phase, addr : Phase, dummy : Phase, data : Phase, dir : Dirs ]

Modes == {"in", "out"} \X {2, 4, 8}

(* spi_check_buswidth_req: one wire always works, and wider adapters carry *)
(* what is narrower.                                                       *)
BuswidthOk(mode, width, dir) ==
    \/ width = 1
    \/ width \in {2, 4, 8} /\ \E w \in {2, 4, 8} : w >= width /\ << dir, w >> \in mode

(* spi_mem_check_op *)
CheckOp(op) ==
    /\ op.cmd.width # 0
    /\ \A ph \in {op.addr, op.dummy, op.data} : ph.nbytes # 0 => ph.width # 0
    /\ \A ph \in {op.cmd, op.addr, op.dummy, op.data} :
          ph.width \in {0, 1, 2, 4, 8}

(* spi_mem_default_supports_op *)
Carries(mode, op) ==
    /\ \A ph \in {op.cmd, op.addr, op.dummy} :
          ph = op.cmd \/ ph.nbytes # 0 => BuswidthOk(mode, ph.width, "out")
    /\ op.dir # "none" => BuswidthOk(mode, op.data.width, op.dir)

(* spi_mem_supports_op *)
SupportsOp(mode, op) == CheckOp(op) /\ Carries(mode, op)

WithData(op, n) == [ op EXCEPT !.data.nbytes = n ]

(* adjust_op_size of fx2qspi: limit is on the data. *)
AdjustDataSize(op, limit) ==
    WithData(op, IF op.data.nbytes > limit THEN limit ELSE op.data.nbytes)

(* adjust_op_size of serprog and ch347: opcode, address and dummy bytes     *)
(* count as well.                                                          *)
AdjustOpSize(op, limit) ==
    AdjustDataSize(op, limit - 1 - op.addr.nbytes - op.dummy.nbytes)
=============================================================================
