---------------------------- MODULE SpiNandChip ----------------------------
(***************************************************************************)
(* The SPI NAND chip behind spi-nand/core.c, as that file uses it: dies    *)
(* with a configuration register, a page cache per plane, a write enable   *)
(* latch and one array operation at a time; a die that is busy ignores     *)
(* everything but the status read.  A page has two parts, main and OOB.    *)
(*                                                                         *)
(* Faults = what the chip may do wrong here:                               *)
(*   "pfail"   a page program fails and says so                            *)
(*   "efail"   a block erase fails and says so                             *)
(*   "uncor"   a page read with ECC is beyond correction                   *)
(***************************************************************************)
EXTENDS Naturals

CONSTANTS NDies,    \* memorg.ntargets
          Blocks,   \* the eraseblocks of a die
          PageIds,  \* the pages of an eraseblock
          NPlanes,  \* memorg.planes_per_lun
          Data,     \* what a caller writes to a part of a page
          FF,       \* a part of a page that is erased
          Garbage,  \* a part of a page nobody asked for
          Faults

ASSUME ChipAssumption ==
    /\ NDies \in Nat \ {0} /\ NPlanes \in Nat \ {0}
    /\ Blocks \subseteq Nat /\ PageIds \subseteq Nat
    /\ FF # Garbage /\ FF \notin Data /\ Garbage \notin Data

VARIABLES sel,   \* the die the commands go to
          die,   \* the registers and caches of every die
          array  \* what every page holds

chip == << sel, die, array >>

Dies  == 0 .. NDies - 1
Parts == {"main", "oob"}
Bits  == {"ecc", "quad"}        \* configuration register
Cell  == [ Parts -> Data \cup {FF, Garbage} ]
Plane == 0 .. NPlanes - 1

PlaneOf(b) == b % NPlanes

Filled(x) == [ q \in Parts |-> x ]

NoJob == [ kind |-> "none" ]

Job == [ kind : {"load", "program", "erase"}, block : Blocks, page : PageIds,
         ecc : BOOLEAN ]

Die == [ cfg    : SUBSET Bits,
         wel    : BOOLEAN,
         job    : Job \cup {NoJob},
         reg    : [ Plane -> Cell ],
         failed : SUBSET {"program", "erase"},
         uncor  : BOOLEAN ]

Busy(d) == die[d].job # NoJob

ChipTypeOK ==
    /\ sel \in Dies
    /\ die \in [ Dies -> Die ]
    /\ array \in [ Dies -> [ Blocks -> [ PageIds -> Cell ] ] ]
-----------------------------------------------------------------------------
(* The commands: what die x becomes when it takes one.                     *)
SetFeatureCfg(x, v) == [ x EXCEPT !.cfg = v ]

WriteEnable(x) == [ x EXCEPT !.wel = TRUE ]

(* PROGRAM LOAD RANDOM DATA leaves the rest of the page cache alone.       *)
ProgramLoad(x, plane, qs, cell) ==
    [ x EXCEPT !.reg[plane] =
        [ q \in Parts |-> IF q \in qs THEN cell[q] ELSE @[q] ] ]

Begin(x, kind, b, p) ==
    [ x EXCEPT !.job = [ kind |-> kind, block |-> b, page |-> p,
                         ecc |-> "ecc" \in x.cfg ],
               !.failed = @ \ {kind} ]

PageRead(x, b, p) == Begin(x, "load", b, p)

ProgramExecute(x, b, p) == IF x.wel THEN Begin(x, "program", b, p) ELSE x

BlockErase(x, b, p) == IF x.wel THEN Begin(x, "erase", b, p) ELSE x

(* The selected die is given a command. *)
Received(new) == die' = [ die EXCEPT ![sel] = IF @.job = NoJob THEN new ELSE @ ]
-----------------------------------------------------------------------------
(* Programming clears bits only. *)
Merge(old, new) ==
    [ q \in Parts |->
        IF new[q] \in {FF, old[q]} THEN old[q]
        ELSE IF old[q] = FF THEN new[q] ELSE Garbage ]

(* What a program or erase that fails may leave of x, on its way to y. *)
Halfway(x, y, junk) == {x, y, junk}

CompleteLoad(d) ==
    LET j == die[d].job
    IN  /\ j.kind = "load"
        /\ \E u \in {FALSE} \cup (IF "uncor" \in Faults /\ j.ecc
                                  THEN {TRUE} ELSE {}) :
              die' = [ die EXCEPT
                         ![d].reg[PlaneOf(j.block)] = array[d][j.block][j.page],
                         ![d].uncor = u, ![d].job = NoJob ]
        /\ UNCHANGED << sel, array >>

CompleteProgram(d, ok) ==
    LET j   == die[d].job
        old == array[d][j.block][j.page]
        new == Merge(old, die[d].reg[PlaneOf(j.block)])
    IN  /\ j.kind = "program"
        /\ ok \/ "pfail" \in Faults
        /\ \E c \in IF ok THEN {new} ELSE Halfway(old, new, Filled(Garbage)) :
              array' = [ array EXCEPT ![d][j.block][j.page] = c ]
        /\ die' = [ die EXCEPT ![d].wel = FALSE, ![d].job = NoJob,
                       ![d].failed = IF ok THEN @ ELSE @ \cup {"program"} ]
        /\ UNCHANGED sel

CompleteErase(d, ok) ==
    LET j     == die[d].job
        All(x) == [ p \in PageIds |-> Filled(x) ]
    IN  /\ j.kind = "erase"
        /\ ok \/ "efail" \in Faults
        /\ \E c \in IF ok THEN {All(FF)}
                    ELSE Halfway(array[d][j.block], All(FF), All(Garbage)) :
              array' = [ array EXCEPT ![d][j.block] = c ]
        /\ die' = [ die EXCEPT ![d].wel = FALSE, ![d].job = NoJob,
                       ![d].failed = IF ok THEN @ ELSE @ \cup {"erase"} ]
        /\ UNCHANGED sel
=============================================================================
