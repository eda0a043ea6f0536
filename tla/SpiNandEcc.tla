----------------------------- MODULE SpiNandEcc -----------------------------
(***************************************************************************)
(* What a read with ECC reports of its page once spinand_init is done:     *)
(* spinand_check_ecc_status of spi-nand/core.c, and the get_status of the  *)
(* vendor files for the chip that was identified.                          *)
(*                                                                         *)
(* A page has the flips of its worst sector, and the registers it leaves   *)
(* are those of the chip that is on the bus, whatever the driver took it   *)
(* for.  Bits of a register that are not about ECC may be anything.        *)
(* Nothing is kept between two reads, so a run makes one.                  *)
(***************************************************************************)
EXTENDS SpiNandInit, Integers

VARIABLE got        \* the read: flips, the ECC code of the status register,
                    \* whether the second register could be read, the result

eccvars == << vars, got >>

Uncor   == -1       \* flips: more than the chip corrects
EIO     == -5
EINVAL  == -22
EBADMSG == -74

NoRead == [ flips |-> 0, code |-> 0, ok |-> TRUE, ret |-> 0 ]

(* A field of a byte, by what its lowest bit is worth and how many values  *)
(* it has; and the bytes that have a given value there and zeroes or ones  *)
(* elsewhere.                                                              *)
Field(byte, unit, values) == (byte \div unit) % values

BytesWith(value, unit, values) ==
    { value * unit, value * unit + 255 - (values - 1) * unit }
-----------------------------------------------------------------------------
(* The chips, as the constants and comments of the vendor files have them: *)
(* the codes a page with k flips can be given in the status register.  Two *)
(* of them may choose: a GD5FxGQ5xE has a code for 1 to 4 flips and a code *)
(* for 4, and Toshiba's has one for flips and one for many, however many.  *)
CodesOf ==
    [ gd5fxgq4xa     |-> << {1}, {1}, {1}, {1}, {1}, {1}, {1}, {3} >>,
      gd5fxgq4uexxg  |-> << {1}, {1}, {1}, {1}, {1}, {1}, {1}, {3} >>,
      gd5fxgq5xexxg  |-> << {1}, {1}, {1}, {1, 3} >>,
      gd5fxgq4ufxxg  |-> << {1}, {1}, {1}, {2}, {3}, {4}, {5}, {6} >>,
      mx35lf1ge4ab   |-> << {1}, {1}, {1}, {1} >>,
      micron_8       |-> << {1}, {1}, {1}, {3}, {3}, {3}, {5}, {5} >>,
      pn26g0xa       |-> << {1}, {1}, {1}, {1}, {1}, {1}, {1}, {3} >>,
      tx58cxgxsxraix |-> [ k \in 1 .. 8 |-> {1, 3} ],
      null           |-> << {1}, {1}, {1}, {1} >> ]

EccCodes(by, flips) ==
    CASE flips = 0     -> {0}
      [] flips = Uncor -> IF by = "gd5fxgq4ufxxg" THEN {7} ELSE {2}
      [] OTHER         -> CodesOf[by][flips]

CodeValues(by) ==
    CASE by = "gd5fxgq4ufxxg" -> 8 [] by = "micron_8" -> 16 [] OTHER -> 4

(* A chip has a code for every number of flips it corrects. *)
ASSUME EccAssumption ==
    \A p \in World : LET codes == Len(CodesOf[p.ecc.get_status])
                     IN  IF p.ecc.get_status = "null" THEN p.ecc.strength <= codes
                         ELSE p.ecc.strength = codes

(* The register with the number itself, where there is one.  Those of      *)
(* Macronix and Toshiba are not to be relied on (the code asks for 0 and   *)
(* for more than the strength).                                            *)
SecondBytes(by, flips) ==
    IF flips <= 0 THEN {0}
    ELSE CASE by = "gd5fxgq4uexxg" ->
                BytesWith(IF flips <= 4 THEN 0 ELSE (flips - 4) % 4, 16, 4)
           [] by = "gd5fxgq5xexxg"  -> BytesWith(flips - 1, 16, 4)
           [] by = "mx35lf1ge4ab"   -> UNION { BytesWith(n, 1, 16) : n \in {flips, 0, 15} }
           [] by = "tx58cxgxsxraix" -> UNION { BytesWith(n, 16, 16) : n \in {flips, 0, 15} }
           [] OTHER                 -> {0}
-----------------------------------------------------------------------------
(* The decoders, each a result for every code it looks at.  second is the  *)
(* other register, or the error of the command that reads it.              *)
Among(results, code) == results[code + 1]

Gd5fxgq4xa(status) ==
    Among(<< 0, 7, EBADMSG, 8 >>, Field(status, 16, 4))

Gd5fxgq4uexxgShift(status, second) ==       \* mutant: both shifted by 4
    LET code == Field(status, 16, 4)
        fine == IF second < 0 THEN second ELSE code + Field(second, 16, 4)
    IN  Among(<< 0, fine, EBADMSG, 8 >>, code)
Gd5fxgq4uexxg(status, second) ==
    LET code == Field(status, 16, 4)
        fine == IF second < 0 THEN second ELSE 4 * code + Field(second, 16, 4)
    IN  Among(<< 0, fine, EBADMSG, 8 >>, code)

Gd5fxgq5xexxg(status, second) ==
    LET fine == IF second < 0 THEN second ELSE Field(second, 16, 4) + 1
    IN  Among(<< 0, fine, EBADMSG, EINVAL >>, Field(status, 16, 4))

Gd5fxgq4ufxxg(status) ==
    Among(<< 0, 3, 4, 5, 6, 7, 8, EBADMSG >>, Field(status, 16, 8))

Micron8(status) ==
    LET code == Field(status, 16, 16)
    IN  IF code > 5 THEN EINVAL
        ELSE Among(<< 0, 3, EBADMSG, 6, EINVAL, 8 >>, code)

(* The number if it can be one, or else the most there can be. *)
Believed(n, strength) == IF n <= 0 \/ n > strength THEN strength ELSE n

Mx35lf1ge4ab(status, second, strength) ==
    LET eccsr == IF second < 0 THEN 0 ELSE Field(second, 1, 16)
    IN  Among(<< 0, Believed(eccsr, strength), EBADMSG, EINVAL >>,
              Field(status, 16, 4))

Pn26g0xa(status) == Gd5fxgq4xa(status)

Tx58cxgxsxraix(status, second, strength) ==
    LET mbf  == IF second < 0 THEN 0 ELSE Field(second, 16, 16)
        most == Believed(mbf, strength)
    IN  Among(<< 0, most, EBADMSG, most >>, Field(status, 16, 4))

(* spinand_check_ecc_status *)
CheckEccStatus(e, status, second) ==
    LET by == e.get_status
    IN  CASE by = "gd5fxgq4xa"     -> Gd5fxgq4xa(status)
          [] by = "gd5fxgq4uexxg"  -> Gd5fxgq4uexxg(status, second)
          [] by = "gd5fxgq5xexxg"  -> Gd5fxgq5xexxg(status, second)
          [] by = "gd5fxgq4ufxxg"  -> Gd5fxgq4ufxxg(status)
          [] by = "mx35lf1ge4ab"   -> Mx35lf1ge4ab(status, second, e.strength)
          [] by = "micron_8"       -> Micron8(status)
          [] by = "pn26g0xa"       -> Pn26g0xa(status)
          [] by = "tx58cxgxsxraix" -> Tx58cxgxsxraix(status, second, e.strength)
          [] by = "null"           -> Among(<< 0, e.strength, EBADMSG, EINVAL >>,
                                            Field(status, 16, 4))
-----------------------------------------------------------------------------
EccInit == Init /\ got = NoRead

(* The end of spinand_read_page, with ECC on. *)
ReadPage ==
    /\ pc = "ready" /\ got = NoRead
    /\ \E flips \in {Uncor} \cup 0 .. part.ecc.strength, ok \in Outcomes :
       \E code \in EccCodes(part.ecc.get_status, flips) :
       \E status \in BytesWith(code, 16, CodeValues(part.ecc.get_status)),
          second \in IF ok THEN SecondBytes(part.ecc.get_status, flips) ELSE {EIO} :
          got' = [ flips |-> flips, code |-> code, ok |-> ok,
                    ret |-> CheckEccStatus(info.ecc, status, second) ]
    /\ UNCHANGED vars

EccNext == \/ Next /\ UNCHANGED got
           \/ ReadPage

EccSpec == EccInit /\ [][EccNext]_eccvars
-----------------------------------------------------------------------------
(* spinand.h:272 "Should return a positive number encoding the number of   *)
(* corrected bitflips if correction was possible or -EBADMSG if there are  *)
(* uncorrectable errors": on every chip of the tables the number is never  *)
(* less than the flips there were and never more than the chip corrects, a *)
(* clean page is never reported as corrected, and data that is lost is     *)
(* never passed on as good.  Another error has one of two causes: a failed *)
(* command, or the one code its decoder does not know.                     *)
FlipsReported ==
    LET f == got.flips
    IN  /\ f = Uncor <=> got.ret = EBADMSG
        /\ f >= 0 => \/ /\ f <= got.ret /\ got.ret <= part.ecc.strength
                        /\ f = 0 => got.ret = 0
                     \/ ~ got.ok /\ got.ret = EIO
                     \/ /\ part.ecc.get_status = "gd5fxgq5xexxg"
                        /\ got.code = 3 /\ got.ret = EINVAL
=============================================================================
