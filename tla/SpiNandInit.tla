---------------------------- MODULE SpiNandInit ----------------------------
(***************************************************************************)
(* spinand_init of spi-nand/core.c: reset, identification against the      *)
(* tables of the vendor files, reading the configuration registers into    *)
(* cfg_cache, the quad, OTP and vendor settings, and unlocking, command by *)
(* command.  What it leaves behind is the initial state of SpiNandCore.    *)
(*                                                                         *)
(* The chip is its configuration and lock registers.  RESET is taken to    *)
(* select die 0, as power up does, and the registers may hold anything     *)
(* after it.  Faults = {"error"}: any command may fail, undelivered.       *)
(* Memory allocation, which is not followed by commands, is left out.      *)
(***************************************************************************)
EXTENDS VendorTables

CONSTANTS Table,     \* the vendor tables, one after the other
          World,     \* the chips that may be on the bus
          Adapters,  \* what the adapters can carry
          Junk,      \* what the bus reads while no one drives it
          Faults

Bits == {"ecc", "quad", "otp", "cr", "buf"}     \* of the configuration register

(* limit is on a whole transfer, or on its data. *)
Adapter == [ mode : SUBSET Modes, limit : Nat, whole : BOOLEAN ]

ASSUME InitAssumption ==
    /\ Table \in Seq(Info) /\ World \subseteq Info
    /\ Adapters \subseteq Adapter
    /\ Faults \subseteq {"error"}

Rows == { Table[k] : k \in 1 .. Len(Table) }

Late(p) == p.method # "opcode"      \* answers one byte later

(* What identification takes from the tables: no manufacturer is what an   *)
(* idle bus reads or the first byte of a chip that answers early, and the  *)
(* identifiers of two chips that answer alike differ where both have bytes.*)
ASSUME IdAssumption ==
    /\ \A p \in World : Len(p.devid) \in 1 .. 3
    /\ \A e \in Rows : e.mfr # Junk
    /\ \A e \in Rows, p \in World :
          /\ Late(e) /\ ~ Late(p) => e.mfr # p.devid[1]
          /\ /\ e.mfr = p.mfr /\ (Late(e) <=> Late(p))
             /\ \A k \in 1 .. 3 : k <= Len(e.devid) /\ k <= Len(p.devid)
                                  => e.devid[k] = p.devid[k]
             => e = p

(* What the quad setting takes from them: chips of several dies have no    *)
(* quad bit, pages are not empty, a chip updates the way it loads; and an  *)
(* adapter that counts a whole transfer has room for more than its header. *)
ASSUME VariantAssumption ==
    /\ \A e \in Rows : /\ "qe" \in e.flags => e.ntargets = 1
                       /\ e.pagesize > 0 /\ e.update = e.write
    /\ \A ad \in Adapters, e \in Rows :
          \A v \in { e.read[k] : k \in 1 .. Len(e.read) } \cup
                  { e.write[k] : k \in 1 .. Len(e.write) } :
             ad.limit > 1 + v.addr.nbytes + v.dummy.nbytes /\ v.dir # "none"

VARIABLES part,     \* the chip on the bus
          adapter,  \* the adapter in use
          sel,      \* chip: the die the commands go to
          die,      \* chip: the registers of every die
          pc,       \* where spinand_init is
          turn,     \* the method tried, the target of a loop
          info,     \* what spinand_match_and_init copied from the table
          ops,      \* op_templates
          cur,      \* cur_target
          cache,    \* cfg_cache
          hurt      \* history: a command has failed

chip == << part, adapter, sel, die >>
vars == << part, adapter, sel, die, pc, turn, info, ops, cur, cache, hurt >>

NoInfo == [ mfr |-> 0 ]
NoOp   == [ dir |-> "" ]
NoOps  == [ read |-> NoOp, write |-> NoOp, update |-> NoOp ]

Dies    == 0 .. part.ntargets - 1
TargetsOneMore == 0 .. info.ntargets        \* mutant: one too many
Targets == 0 .. info.ntargets - 1

(* The bits a chip has. *)
BitsOf(p) == {"ecc", "otp"} \cup { b \in {"quad"} : "qe" \in p.flags }
                           \cup { b \in {"cr"} : "cr" \in p.flags }
                           \cup { b \in {"buf"} : p.mfr = Winbond }

Register == [ cfg : SUBSET Bits, locked : BOOLEAN ]
-----------------------------------------------------------------------------
Init ==
    /\ part \in World /\ adapter \in Adapters
    /\ sel = 0 /\ die \in [ Dies -> [ cfg : SUBSET BitsOf(part), locked : {TRUE} ] ]
    /\ pc = "reset" /\ turn = 1
    /\ info = NoInfo /\ ops = NoOps
    /\ cur = 0 /\ cache = << >> /\ hurt = FALSE

Outcomes == IF "error" \in Faults THEN BOOLEAN ELSE {TRUE}

(* On to `next', or out through the error labels. *)
Proceed(ok, next) ==
    /\ pc' = IF ok THEN next ELSE "failed"
    /\ hurt' = (hurt \/ ~ ok)

(* spinand_reset_op *)
Reset ==
    /\ pc = "reset"
    /\ \E ok \in Outcomes : Proceed(ok, "id")
    /\ UNCHANGED << chip, turn, info, ops, cur, cache >>
-----------------------------------------------------------------------------
(* What READ ID returns: the address and the dummy method are the same on  *)
(* the wire, one byte between opcode and answer.                           *)
IdBytes(p, method) ==
    LET id   == << p.mfr >> \o p.devid \o << Junk, Junk, Junk, Junk >>
        late == p.method # "opcode"
    IN  SubSeq(CASE late /\ method = "opcode"   -> << Junk >> \o id
                 [] ~ late /\ method # "opcode" -> Tail(id)
                 [] OTHER                       -> id, 1, 4)

(* The tests of spinand_manufacturer_match and spinand_match_and_init.     *)
MatchesFirstByte(e, id, method) ==          \* mutant: one byte of the devid
    /\ id[1] = e.mfr
    /\ method = e.method
    /\ id[2] = e.devid[1]
Matches(e, id, method) ==
    /\ id[1] = e.mfr
    /\ method = e.method
    /\ \A k \in 1 .. Len(e.devid) : id[k + 1] = e.devid[k]

First(S) == CHOOSE k \in S : \A j \in S : k <= j

Adjusted(ad, op) == IF ad.whole THEN AdjustOpSize(op, ad.limit)
                                ELSE AdjustDataSize(op, ad.limit)

(* The loop of spinand_select_op_variant: transfer after transfer, the     *)
(* adapter moves all n bytes.                                              *)
Moves(ad, v, n) ==
    LET covers[left \in 0 .. n] ==
            \/ left = 0
            \/ LET op == Adjusted(ad, WithData(v, left))
               IN  /\ SupportsOp(ad.mode, op)
                   /\ covers[left - op.data.nbytes]
    IN  covers[n]

(* spinand_select_op_variant: the first variant that moves them.           *)
SelectOpVariant(ad, variants, n) ==
    LET usable == { k \in 1 .. Len(variants) : Moves(ad, variants[k], n) }
    IN  IF usable = {} THEN NoOp ELSE variants[First(usable)]

OpsFor(e) == LET n == e.pagesize + e.oobsize
             IN  [ read   |-> SelectOpVariant(adapter, e.read, n),
                   write  |-> SelectOpVariant(adapter, e.write, n),
                   update |-> SelectOpVariant(adapter, e.update, n) ]

(* One turn of spinand_id_detect: a method, all the tables.  The update    *)
(* operation is not tested.                                                *)
ReadId ==
    /\ pc = "id"
    /\ \E ok \in Outcomes :
          LET id   == IdBytes(part, Methods[turn])
              hits == { k \in 1 .. Len(Table) : Matches(Table[k], id, Methods[turn]) }
              hit  == Table[First(hits)]
              new  == OpsFor(hit)
          IN  IF ok /\ hits # {} /\ new.read # NoOp /\ new.write # NoOp
              THEN /\ Proceed(TRUE, "detected")
                   /\ info' = hit /\ ops' = new /\ turn' = 0
              ELSE /\ Proceed(ok, IF turn < 3 THEN "id" ELSE "failed")
                   /\ turn' = IF ok /\ turn < 3 THEN turn + 1 ELSE turn
                   /\ UNCHANGED << info, ops >>
    /\ UNCHANGED << chip, cur, cache >>

(* The end of spinand_detect, and the calloc of spinand_init_cfg_cache.    *)
Detected ==
    /\ pc = "detected"
    /\ pc' = IF info.ntargets > 1 /\ ~ info.select_target
             THEN "failed" ELSE "cache"
    /\ cache' = [ t \in Targets |-> {} ]
    /\ UNCHANGED << chip, turn, info, ops, cur, hurt >>
-----------------------------------------------------------------------------
(* spinand_select_target, whose command names the die. *)
Select(t, ok) ==
    IF cur = t \/ info.ntargets = 1 THEN ok /\ cur' = t /\ sel' = sel
    ELSE IF ok THEN cur' = t /\ sel' = t
    ELSE "error" \in Faults /\ UNCHANGED << cur, sel >>

(* spinand_upd_cfg: the bits of mask become val. *)
UpdCfgCachedAlways(mask, val, ok) ==        \* mutant: cached on error too
    LET wanted == (cache[cur] \ mask) \cup val
    IN  /\ cache' = [ cache EXCEPT ![cur] = wanted ]
        /\ die' = IF ok THEN [ die EXCEPT ![sel].cfg = wanted ] ELSE die
UpdCfg(mask, val, ok) ==
    LET wanted == (cache[cur] \ mask) \cup val
    IN  IF cache[cur] = wanted THEN ok /\ UNCHANGED << die, cache >>
        ELSE IF ok THEN /\ die' = [ die EXCEPT ![sel].cfg = wanted ]
                        /\ cache' = [ cache EXCEPT ![cur] = wanted ]
        ELSE "error" \in Faults /\ UNCHANGED << die, cache >>

(* The loop of spinand_init_cfg_cache: select, then read the register.     *)
CacheSelect ==
    /\ pc = "cache" /\ turn \in Targets
    /\ \E ok \in BOOLEAN : Select(turn, ok) /\ Proceed(ok, "readcfg")
    /\ UNCHANGED << part, adapter, die, turn, info, ops, cache >>

CacheRead ==
    /\ pc = "readcfg"
    /\ \E ok \in Outcomes :
          /\ Proceed(ok, "cache")
          /\ cache' = IF ok THEN [ cache EXCEPT ![turn] = die[sel].cfg ]
                      ELSE cache
          /\ turn' = IF ok THEN turn + 1 ELSE turn
    /\ UNCHANGED << chip, info, ops, cur >>

CacheEnds ==
    /\ pc = "cache" /\ turn \notin Targets
    /\ pc' = "quad"
    /\ UNCHANGED << chip, turn, info, ops, cur, cache, hurt >>

(* spinand_init_quad_enable, on the die selected last. *)
Quad == \E o \in {ops.read, ops.write, ops.update} : o.data.width = 4

QuadEnableOnly ==                           \* mutant: never switched off
    /\ pc = "quad"
    /\ IF "qe" \notin info.flags \/ ~ Quad
       THEN UNCHANGED << die, cache, hurt >> /\ pc' = "otp"
       ELSE \E ok \in BOOLEAN : UpdCfg({"quad"}, {"quad"}, ok) /\ Proceed(ok, "otp")
    /\ UNCHANGED << part, adapter, sel, turn, info, ops, cur >>
QuadEnable ==
    /\ pc = "quad"
    /\ IF "qe" \notin info.flags
       THEN UNCHANGED << die, cache, hurt >> /\ pc' = "otp"
       ELSE \E ok \in BOOLEAN :
               /\ UpdCfg({"quad"}, IF Quad THEN {"quad"} ELSE {}, ok)
               /\ Proceed(ok, "otp")
    /\ UNCHANGED << part, adapter, sel, turn, info, ops, cur >>

(* spinand_upd_cfg(CFG_OTP_ENABLE, 0) *)
OtpDisable ==
    /\ pc = "otp"
    /\ \E ok \in BOOLEAN : UpdCfg({"otp"}, {}, ok) /\ Proceed(ok, "vendor")
    /\ turn' = 0
    /\ UNCHANGED << part, adapter, sel, info, ops, cur >>
-----------------------------------------------------------------------------
(* spinand_manufacturer_init of the vendors that have none. *)
NoVendorInit ==
    /\ pc = "vendor"
    /\ info.mfr # Winbond /\ ~ (info.mfr = Micron /\ "cr" \in info.flags)
    /\ pc' = "unlock"
    /\ UNCHANGED << chip, turn, info, ops, cur, cache, hurt >>

(* micron_spinand_init *)
MicronInit ==
    /\ pc = "vendor" /\ info.mfr = Micron /\ "cr" \in info.flags
    /\ \E ok \in BOOLEAN : UpdCfg({"cr"}, {}, ok) /\ Proceed(ok, "unlock")
    /\ UNCHANGED << part, adapter, sel, turn, info, ops, cur >>

(* winbond_spinand_init, which looks at no result. *)
WinbondSelectNone ==                        \* mutant: one die for all
    /\ pc = "vendor" /\ info.mfr = Winbond /\ turn \in Targets
    /\ pc' = "bufread"
    /\ UNCHANGED << chip, turn, info, ops, cur, cache, hurt >>
WinbondSelect ==
    /\ pc = "vendor" /\ info.mfr = Winbond /\ turn \in Targets
    /\ \E ok \in BOOLEAN : Select(turn, ok) /\ hurt' = (hurt \/ ~ ok)
    /\ pc' = "bufread"
    /\ UNCHANGED << part, adapter, die, turn, info, ops, cache >>

WinbondBufRead ==
    /\ pc = "bufread"
    /\ \E ok \in BOOLEAN :
          UpdCfg({"buf"}, {"buf"}, ok) /\ hurt' = (hurt \/ ~ ok)
    /\ pc' = "vendor" /\ turn' = turn + 1
    /\ UNCHANGED << part, adapter, sel, info, ops, cur >>

WinbondEnds ==
    /\ pc = "vendor" /\ info.mfr = Winbond /\ turn \notin Targets
    /\ pc' = "unlock" /\ turn' = 0
    /\ UNCHANGED << chip, info, ops, cur, cache, hurt >>
-----------------------------------------------------------------------------
(* The loop that unlocks every die. *)
UnlockSelectNone ==                         \* mutant: no select in the loop
    /\ pc = "unlock" /\ turn \in Targets
    /\ pc' = "unlocking"
    /\ UNCHANGED << chip, turn, info, ops, cur, cache, hurt >>
UnlockSelect ==
    /\ pc = "unlock" /\ turn \in Targets
    /\ \E ok \in BOOLEAN : Select(turn, ok) /\ Proceed(ok, "unlocking")
    /\ UNCHANGED << part, adapter, die, turn, info, ops, cache >>

Unlock ==
    /\ pc = "unlocking"
    /\ \E ok \in Outcomes :
          /\ Proceed(ok, "unlock")
          /\ die' = IF ok THEN [ die EXCEPT ![sel].locked = FALSE ] ELSE die
          /\ turn' = IF ok THEN turn + 1 ELSE turn
    /\ UNCHANGED << part, adapter, sel, info, ops, cur, cache >>

UnlockEnds ==
    /\ pc = "unlock" /\ turn \notin Targets
    /\ pc' = "ready"
    /\ UNCHANGED << chip, turn, info, ops, cur, cache, hurt >>
-----------------------------------------------------------------------------
Next == \/ Reset \/ ReadId \/ Detected
        \/ CacheSelect \/ CacheRead \/ CacheEnds
        \/ QuadEnable \/ OtpDisable
        \/ NoVendorInit \/ MicronInit
        \/ WinbondSelect \/ WinbondBufRead \/ WinbondEnds
        \/ UnlockSelect \/ Unlock \/ UnlockEnds

Spec == Init /\ [][Next]_vars
-----------------------------------------------------------------------------
(* Every variable keeps to its set. *)
TypeOK ==
    /\ part \in World /\ adapter \in Adapters
    /\ sel \in Dies /\ die \in [ Dies -> Register ]
    /\ pc \in {"reset", "id", "detected", "cache", "readcfg", "quad", "otp",
              "vendor", "bufread", "unlock", "unlocking", "ready", "failed"}
    /\ turn \in Nat
    /\ info \in {NoInfo} \cup { Table[k] : k \in 1 .. Len(Table) }
    /\ pc \in {"reset", "id"} => info = NoInfo
    /\ cur \in Dies /\ hurt \in BOOLEAN

(* A chip is taken for the one it is, whatever method it answers to and    *)
(* whatever the methods tried before it read; a chip that is in no table   *)
(* is taken for none.                                                      *)
RightModel == info # NoInfo => info = part

(* What SpiNandCore starts from: the last die is selected, cur_target says *)
(* so, and cfg_cache holds every configuration register, even when         *)
(* commands of the vendor's own setup failed unnoticed.                    *)
ReadyForCalls ==
    pc = "ready" /\ info = part =>
        /\ sel = part.ntargets - 1 /\ cur = sel
        /\ \A d \in Dies : cache[d] = die[d].cfg

(* core.c:823 "After power up, all blocks are locked, so unlock them here":*)
(* no die is left locked.                                                  *)
AllUnlocked ==
    pc = "ready" /\ info = part => \A d \in Dies : ~ die[d].locked

(* The quad bit of a chip that has one says whether an operation chosen    *)
(* for the adapter needs four wires, whatever an earlier run with another  *)
(* adapter left there; and what was chosen the adapter has wires for.      *)
QuadAsChosen ==
    pc = "ready" /\ "qe" \in info.flags =>
        LET widths == { o.data.width : o \in {ops.read, ops.write, ops.update} }
        IN  /\ \A d \in Dies : "quad" \in die[d].cfg <=> 4 \in widths
            /\ 4 \in widths => \E m \in adapter.mode : m[2] >= 4

(* winbond.c:74 "Make sure all dies are in buffer read mode": unless a     *)
(* command failed, which that code ignores.                                *)
BufferRead ==
    pc = "ready" /\ info.mfr = Winbond /\ ~ hurt =>
        \A d \in Dies : "buf" \in die[d].cfg

(* micron.c:184 "M70A device series enable Continuous Read feature at      *)
(* Power-up, which is not supported. Disable this bit".                    *)
ContinuousReadOff ==
    pc = "ready" /\ "cr" \in info.flags => \A d \in Dies : "cr" \notin die[d].cfg
=============================================================================
