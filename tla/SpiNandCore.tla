---------------------------- MODULE SpiNandCore ----------------------------
(***************************************************************************)
(* The page operations of spi-nand/core.c: spinand_read_page,              *)
(* spinand_write_page and spinand_erase, command by command, with the two  *)
(* things the driver believes about the chip (cur_target and cfg_cache).   *)
(*                                                                         *)
(* Faults adds to the chip's:                                              *)
(*   "error"   a command is not delivered, and reported to have failed     *)
(*   "lost"    a command is delivered, and reported to have failed         *)
(*   "poll"    a status read of spinand_wait fails                         *)
(*   "slow"    the chip stays busy for longer than spinand_wait waits      *)
(*                                                                         *)
(* Row addresses are (block, page) pairs and a die takes the block's plane *)
(* from it; include/nand.h is modelled in NandGeometry.  Bit flips that    *)
(* were corrected, and -ENOMEM, are left out.                              *)
(***************************************************************************)
EXTENDS SpiNandChip, Sequences

CONSTANTS Calls    \* the calls flashops.c makes, see Call

NoCall == [ op |-> "none" ]
NoAnswer == << >>

(* A call of one of the three operations.  Reads past the last page of the *)
(* device come with die = NDies.                                           *)
Call == [ op : {"read", "write", "erase"}, die : 0 .. NDies, block : Blocks,
          page : PageIds, ecc : BOOLEAN, parts : SUBSET Parts, data : Data ]

ASSUME CoreAssumption == Calls \subseteq Call

VARIABLES pc,      \* idle, select, ecc, wren, fill, exec, wait, fetch,
                   \* check, return
          call,    \* the call under way
          cur,     \* cur_target
          cache,   \* cfg_cache
          column,  \* column of the two cache loops, in parts of a page
          buf,     \* databuf, oobbuf
          status,  \* the ECC bits of the last status spinand_wait returned
          ret,     \* ret
          effect,  \* history: what the call has done to the array so far
          answer   \* history: what the last call returned

driver == << cur, cache, column, buf, status, ret >>
vars == << sel, die, array, pc, call, cur, cache, column, buf, status, ret,
           effect, answer >>
-----------------------------------------------------------------------------
(* After spinand_init: the last die is selected and cfg_cache was read back. *)
Init ==
    /\ sel = NDies - 1 /\ cur = NDies - 1
    /\ die \in [ Dies -> [ cfg : SUBSET Bits, wel : {FALSE}, job : {NoJob},
                           reg : { [ n \in Plane |-> Filled(Garbage) ] },
                           failed : {{}}, uncor : {FALSE} ] ]
    /\ array = [ d \in Dies |->
                  [ b \in Blocks |-> [ p \in PageIds |-> Filled(FF) ] ] ]
    /\ cache = [ d \in Dies |-> die[d].cfg ]
    /\ pc = "idle" /\ call = NoCall
    /\ column = 0 /\ buf = Filled(Garbage) /\ status = "ok" /\ ret = "ok"
    /\ effect = "none" /\ answer = NoAnswer

Invoke(c) ==
    /\ pc = "idle"
    /\ pc' = "select" /\ call' = c
    /\ effect' = "none" /\ answer' = NoAnswer
    /\ UNCHANGED << chip, driver >>

(* A command to the selected die, and what spi_mem_exec_op says of it. *)
Exec(new, ok) ==
    \/ ok /\ Received(new)
    \/ ~ ok /\ "error" \in Faults /\ die' = die
    \/ ~ ok /\ "lost" \in Faults /\ Received(new)

(* On to the next command, or return the error. *)
Proceed(ok, next) ==
    IF ok THEN pc' = next /\ ret' = ret ELSE pc' = "return" /\ ret' = "error"

AfterSelect == IF call.op = "erase" THEN "wren" ELSE "ecc"
-----------------------------------------------------------------------------
(* spinand_select_target: no such target, already selected, the only one.  *)
SelectTargetUnchecked ==                        \* mutant: cur_target first
    /\ pc = "select"
    /\ IF call.die >= NDies THEN Proceed(FALSE, "return") /\ cur' = call.die
       ELSE /\ call.die = cur \/ NDies = 1
            /\ Proceed(TRUE, AfterSelect) /\ cur' = call.die
    /\ UNCHANGED << chip, call, cache, column, buf, status, effect, answer >>
SelectTarget ==
    /\ pc = "select"
    /\ IF call.die >= NDies THEN Proceed(FALSE, "return") /\ cur' = cur
       ELSE /\ call.die = cur \/ NDies = 1
            /\ Proceed(TRUE, AfterSelect) /\ cur' = call.die
    /\ UNCHANGED << chip, call, cache, column, buf, status, effect, answer >>

(* The command of the vendor's select_target; a busy die takes it too. *)
SelectDieCommitsEarly ==                        \* mutant: cur_target first
    /\ pc = "select" /\ call.die < NDies /\ call.die # cur /\ NDies > 1
    /\ \E ok \in BOOLEAN :
          /\ \/ ok /\ sel' = call.die
             \/ ~ ok /\ "error" \in Faults /\ sel' = sel
             \/ ~ ok /\ "lost" \in Faults /\ sel' = call.die
          /\ cur' = call.die
          /\ Proceed(ok, AfterSelect)
    /\ UNCHANGED << die, array, call, cache, column, buf, status, effect,
                    answer >>
SelectDie ==
    /\ pc = "select" /\ call.die < NDies /\ call.die # cur /\ NDies > 1
    /\ \E ok \in BOOLEAN :
          /\ \/ ok /\ sel' = call.die
             \/ ~ ok /\ "error" \in Faults /\ sel' = sel
             \/ ~ ok /\ "lost" \in Faults /\ sel' = call.die
          /\ cur' = IF ok THEN call.die ELSE cur
          /\ Proceed(ok, AfterSelect)
    /\ UNCHANGED << die, array, call, cache, column, buf, status, effect,
                    answer >>

(* spinand_upd_cfg(CFG_ECC_ENABLE): the register value it wants.           *)
WantedDropsRest == IF call.ecc THEN {"ecc"} ELSE {}   \* mutant: no mask
Wanted == (cache[cur] \ {"ecc"}) \cup (IF call.ecc THEN {"ecc"} ELSE {})

AfterEcc == IF call.op = "read" THEN "exec" ELSE "wren"

(* spinand_set_cfg when the cache has the value already. *)
EccUnchanged ==
    /\ pc = "ecc" /\ cache[cur] = Wanted
    /\ Proceed(TRUE, AfterEcc)
    /\ UNCHANGED << chip, call, cur, cache, column, buf, status, effect,
                    answer >>

(* spinand_set_cfg when it has not: the cache follows the register. *)
EccChangeCachedAlways ==                        \* mutant: cached on error too
    /\ pc = "ecc" /\ cache[cur] # Wanted
    /\ \E ok \in BOOLEAN :
          /\ Exec(SetFeatureCfg(die[sel], Wanted), ok)
          /\ cache' = [ cache EXCEPT ![cur] = Wanted ]
          /\ Proceed(ok, AfterEcc)
    /\ UNCHANGED << sel, array, call, cur, column, buf, status, effect,
                    answer >>
EccChange ==
    /\ pc = "ecc" /\ cache[cur] # Wanted
    /\ \E ok \in BOOLEAN :
          /\ Exec(SetFeatureCfg(die[sel], Wanted), ok)
          /\ cache' = IF ok THEN [ cache EXCEPT ![cur] = Wanted ] ELSE cache
          /\ Proceed(ok, AfterEcc)
    /\ UNCHANGED << sel, array, call, cur, column, buf, status, effect,
                    answer >>

(* What spinand_write_to_cache_op makes of databuf before its loop: 0xff   *)
(* but for the parts the caller writes.                                    *)
ImageStale ==                                   \* mutant: no memset
    [ q \in Parts |-> IF q \in call.parts THEN call.data ELSE buf[q] ]
Image == [ q \in Parts |-> IF q \in call.parts THEN call.data ELSE FF ]

(* spinand_write_enable_op; for a write, databuf is prepared next. *)
WriteEnableOp ==
    /\ pc = "wren"
    /\ \E ok \in BOOLEAN :
          /\ Exec(WriteEnable(die[sel]), ok)
          /\ Proceed(ok, IF call.op = "write" THEN "fill" ELSE "exec")
          /\ buf' = IF ok /\ call.op = "write" THEN Image ELSE buf
    /\ column' = 0
    /\ UNCHANGED << sel, array, call, cur, cache, status, effect, answer >>

(* The parts a transfer of n parts from the column on covers. *)
StartOf(q) == IF q = "main" THEN 0 ELSE 1

Span(n) == { q \in Parts : StartOf(q) \in column .. column + n - 1 }

(* One turn of the loop of spinand_write_to_cache_op: the adapter takes as *)
(* much as it can.                                                         *)
WriteToCache ==
    /\ pc = "fill"
    /\ \E n \in 1 .. 2 - column, ok \in BOOLEAN :
          /\ Exec(ProgramLoad(die[sel], PlaneOf(call.block), Span(n), buf), ok)
          /\ column' = IF ok THEN column + n ELSE column
          /\ Proceed(ok, IF column + n = 2 THEN "exec" ELSE "fill")
    /\ UNCHANGED << sel, array, call, cur, cache, buf, status, effect, answer >>

(* spinand_load_page_op, spinand_program_op, spinand_erase_op. *)
ArrayOp ==
    CASE call.op = "read"  -> PageRead(die[sel], call.block, call.page)
      [] call.op = "write" -> ProgramExecute(die[sel], call.block, call.page)
      [] call.op = "erase" -> BlockErase(die[sel], call.block, call.page)

StartArrayOp ==
    /\ pc = "exec"
    /\ \E ok \in BOOLEAN : Exec(ArrayOp, ok) /\ Proceed(ok, "wait")
    /\ UNCHANGED << sel, array, call, cur, cache, column, buf, status, effect,
                    answer >>
-----------------------------------------------------------------------------
(* Where the loop of spinand_read_from_cache_op starts and ends. *)
FirstColumn == IF "main" \in call.parts THEN 0 ELSE 1
EndColumn   == IF "oob" \in call.parts THEN 2 ELSE 1

(* spinand_wait finds the chip ready: the callers' tests of the status. *)
WaitReadyUntested ==                            \* mutant: fail bits ignored
    /\ pc = "wait" /\ ~ Busy(sel)
    /\ status' = IF die[sel].uncor THEN "uncor" ELSE "ok"
    /\ column' = FirstColumn
    /\ IF call.op = "read" THEN pc' = "fetch" /\ ret' = ret
       ELSE pc' = "return" /\ ret' = "ok"
    /\ UNCHANGED << chip, call, cur, cache, buf, effect, answer >>
WaitReady ==
    /\ pc = "wait" /\ ~ Busy(sel)
    /\ status' = IF die[sel].uncor THEN "uncor" ELSE "ok"
    /\ column' = FirstColumn
    /\ LET bit == IF call.op = "write" THEN "program" ELSE "erase"
       IN  IF call.op = "read" THEN pc' = "fetch" /\ ret' = ret
           ELSE /\ pc' = "return"
                /\ ret' = IF bit \in die[sel].failed THEN "error" ELSE "ok"
    /\ UNCHANGED << chip, call, cur, cache, buf, effect, answer >>

(* A status read fails, or three seconds pass: the chip is left as it is.  *)
WaitFailsOnErrorOnly ==                         \* mutant: no timeout
    /\ pc = "wait"
    /\ "poll" \in Faults
    /\ pc' = "return" /\ ret' = "error"
    /\ UNCHANGED << chip, call, cur, cache, column, buf, status, effect,
                    answer >>
WaitFails ==
    /\ pc = "wait"
    /\ "poll" \in Faults \/ ("slow" \in Faults /\ Busy(sel))
    /\ pc' = "return" /\ ret' = "error"
    /\ UNCHANGED << chip, call, cur, cache, column, buf, status, effect,
                    answer >>

(* One turn of the loop of spinand_read_from_cache_op. *)
ReadFromCache ==
    /\ pc = "fetch"
    /\ \E n \in 1 .. EndColumn - column, ok \in BOOLEAN :
          /\ ok \/ Faults \cap {"error", "lost"} # {}
          /\ buf' = [ q \in Parts |->
                        IF ok /\ q \in Span(n)
                        THEN die[sel].reg[PlaneOf(call.block)][q] ELSE buf[q] ]
          /\ column' = IF ok THEN column + n ELSE column
          /\ Proceed(ok, IF column + n = EndColumn THEN "check" ELSE "fetch")
    /\ UNCHANGED << chip, call, cur, cache, status, effect, answer >>

(* The end of spinand_read_page: spinand_check_ecc_status, which may read  *)
(* another register for the vendor's decoder.                              *)
CheckEcc ==
    /\ pc = "check"
    /\ pc' = "return"
    /\ \/ ret' = IF call.ecc /\ status = "uncor" THEN "error" ELSE "ok"
       \/ call.ecc /\ "error" \in Faults /\ ret' = "error"
    /\ UNCHANGED << chip, call, cur, cache, column, buf, status, effect,
                    answer >>

(* What the caller gets. *)
Answer ==
    [ ok   |-> ret = "ok",
      data |-> IF ret = "ok" /\ call.op = "read"
               THEN [ q \in call.parts |-> buf[q] ] ELSE << >> ]

Return ==
    /\ pc = "return"
    /\ pc' = "idle" /\ call' = NoCall
    /\ ret' = "ok"
    /\ answer' = Answer
    /\ UNCHANGED << chip, cur, cache, column, buf, status, effect >>
-----------------------------------------------------------------------------
(* The chip finishes what a die is busy with. *)
ChipCompletes(d) ==
    /\ Busy(d)
    /\ \/ CompleteLoad(d) /\ effect' = effect
       \/ \E ok \in BOOLEAN :
             /\ CompleteProgram(d, ok) \/ CompleteErase(d, ok)
             /\ effect' = IF ok THEN "done" ELSE "failed"
    /\ UNCHANGED << pc, call, driver, answer >>

DriverStep ==
    \/ SelectTarget \/ SelectDie
    \/ EccUnchanged \/ EccChange
    \/ WriteEnableOp \/ WriteToCache
    \/ StartArrayOp \/ WaitReady \/ WaitFails
    \/ ReadFromCache \/ CheckEcc \/ Return

Next ==
    \/ \E c \in Calls : Invoke(c)
    \/ DriverStep
    \/ \E d \in Dies : ChipCompletes(d)

Spec == Init /\ [][Next]_vars

(* The driver is a single thread that keeps going; the chip promises       *)
(* nothing.                                                                *)
FairSpec == Spec /\ WF_vars(DriverStep)
-----------------------------------------------------------------------------
(* Every variable keeps to its set. *)
TypeOK ==
    /\ ChipTypeOK
    /\ pc \in {"idle", "select", "ecc", "wren", "fill", "exec", "wait",
              "fetch", "check", "return"}
    /\ call \in Calls \cup {NoCall}
    /\ pc = "idle" <=> call = NoCall
    /\ cur \in Dies
    /\ cache \in [ Dies -> SUBSET Bits ]
    /\ column \in 0 .. 2
    /\ buf \in Cell
    /\ status \in {"ok", "uncor"} /\ ret \in {"ok", "error"}
    /\ effect \in {"none", "done", "failed"}

(* Commands that are reported to have failed were not delivered, status    *)
(* reads do not fail and the chip is never slower than three seconds.      *)
Reliable == Faults \cap {"lost", "poll", "slow"} = {}

(* spinand.h:369, 371: cur_target is the selected die, cfg_cache holds the *)
(* configuration registers, whichever command failed before.               *)
CacheCoherent ==
    Reliable => sel = cur /\ \A d \in Dies : cache[d] = die[d].cfg

KindOf(op) == CASE op = "read" -> "load" [] op = "write" -> "program"
                [] op = "erase" -> "erase"

(* A die is only ever busy with the page of the call that waits for it, in *)
(* the ECC mode the call asked for: no page is read or programmed with the *)
(* ECC setting of an earlier call, or on the die of one, and no command is *)
(* sent to a busy die, which would ignore it.                              *)
JobMatchesCall ==
    Reliable =>
        \A d \in Dies : Busy(d) =>
            LET j == die[d].job
            IN  /\ pc = "wait" /\ d = call.die
                /\ j.kind = KindOf(call.op)
                /\ j.block = call.block /\ j.page = call.page
                /\ call.op # "erase" => j.ecc = call.ecc

(* The comment of core.c:265: when a page is programmed, the whole cache   *)
(* has been filled for it, and what the caller does not write is 0xff,     *)
(* whatever earlier reads and writes left in the cache or in databuf.      *)
CacheFilled ==
    Reliable /\ pc = "exec" /\ call.op = "write" =>
        /\ die[call.die].wel
        /\ \A q \in Parts : die[call.die].reg[PlaneOf(call.block)][q]
                              = IF q \in call.parts THEN call.data ELSE FF

(* Switching ECC never changes another bit of a configuration register,    *)
(* even when the cached ECC bit is stale.  The driver's copy of the others *)
(* never changes at all; a register changes only where a selection was     *)
(* delivered but reported as failed: the selected die then gets the copy   *)
(* kept for the die the driver takes it for, and its own again with the    *)
(* first change of ECC after a selection that works.                       *)
BitsKept ==
    [][ \A d \in Dies :
          /\ cache'[d] \ {"ecc"} = cache[d] \ {"ecc"}
          /\ \/ die'[d].cfg \ {"ecc"} = die[d].cfg \ {"ecc"}
             \/ /\ "lost" \in Faults /\ d = sel
                /\ die'[d].cfg \ {"ecc"} = cache[cur] \ {"ecc"} ]_vars

(* spinand.h:371 "config register cache. One entry per die" *)
CfgCacheHolds == \A d \in Dies : cache[d] = die[d].cfg

(* Every call returns, even if the chip never becomes ready. *)
CallReturns == pc = "select" ~> pc = "idle"
-----------------------------------------------------------------------------
ReadOf(mem, c) ==
    IF c.die \in Dies
    THEN { [ q \in c.parts |-> mem[c.die][c.block][c.page][q] ] }
    ELSE {}

Written(c) == [ q \in Parts |-> IF q \in c.parts THEN c.data ELSE FF ]

Erased(x) == [ p \in PageIds |-> Filled(x) ]

EffectOf(mem, c) ==
    IF c.op = "write"
    THEN [ mem EXCEPT ![c.die][c.block][c.page] = Merge(@, Written(c)) ]
    ELSE [ mem EXCEPT ![c.die][c.block] = Erased(FF) ]

DamageOf(mem, c) ==
    {mem, EffectOf(mem, c)} \cup
    { IF c.op = "write"
      THEN [ mem EXCEPT ![c.die][c.block][c.page] = Filled(Garbage) ]
      ELSE [ mem EXCEPT ![c.die][c.block] = Erased(Garbage) ] }

Promise ==
    INSTANCE PageDevice WITH
        Contents <- [ Dies -> [ Blocks -> [ PageIds -> Cell ] ] ],
        Read <- ReadOf, Effect <- EffectOf, Damage <- DamageOf,
        mem <- array

(* core.c implements the page device flashops.c is written for: a call     *)
(* that returns success has had its effect once, on its own page, in its   *)
(* own parts, and a read returns what the page holds.                      *)
ImplementsPageDevice == Promise!Spec
=============================================================================
