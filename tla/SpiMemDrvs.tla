----------------------------- MODULE SpiMemDrvs -----------------------------
(***************************************************************************)
(* spi-mem-drvs.c: one of the three adapters, whichever --driver names,    *)
(* opened, used and closed, with the device at the end of its line.        *)
(***************************************************************************)
EXTENDS Serprog, Ch347, Fx2Qspi

vars == << drv, pc, step, held, dir, op, col, left, buf, outcome, page,
           down, up, dev, loaded, refused, glitch >>

(* spi_mem_probe *)
DrvsInit == /\ Init
            /\ CASE drv = "serprog" -> SerInit
                 [] drv = "ch347"   -> ChInit
                 [] drv = "fx2qspi" -> FxInit

Program == Common \/ SerProgram \/ ChProgram \/ FxProgram
Device  == Programmer \/ Bridge \/ Firmware
Next    == Program \/ Device

Spec == DrvsInit /\ [][Next]_vars

(* The program runs, and the device takes what is sent to it; no transfer  *)
(* has to fail.                                                            *)
FairSpec ==
    Spec /\ WF_vars(Program /\ (glitch' = glitch \/ glitch = "now")) /\ WF_vars(Device)
-----------------------------------------------------------------------------
(* Every variable keeps to its set. *)
TypeOK ==
    /\ drv \in Drvs
    /\ pc \in {"open", "unwind", "idle", "part", "send", "data", "closed"}
              \cup SerPcs \cup ChPcs \cup FxPcs
    /\ step \in Nat /\ held \subseteq UNION { Opened[d][k] : d \in {drv}, k \in 1 .. Stages }
    /\ dir \in Dirs /\ op \in Op
    /\ col \in 0 .. Bytes /\ left \in 0 .. Bytes
    /\ dir # "none" => col + left = Bytes
    /\ { buf, loaded } \subseteq [ Columns -> (0 .. MaxCalls) \X Columns ]
    /\ outcome \in {"none", "done", "failed"} /\ page \in 0 .. MaxCalls
    /\ dev.mode \in {"idle", "freq", "op", "selected", "auto", "out", "lost"}
    /\ refused \in BOOLEAN /\ glitch \in {"none", "now", "past", "left"}

(* Until a transfer fails, the program and the device agree between calls  *)
(* on where they are: no answer is left for the next call to take for its  *)
(* own, and once what was sent has arrived the device waits for a command  *)
(* with the chip deselected.  After a run that was killed this holds as    *)
(* soon as the next one has opened the adapter, but for two leftovers: the *)
(* chip select of the ch347, which takes the first operation, and what was *)
(* being read from the fx2qspi, of which fx2qspi_reset takes one packet    *)
(* (glitch is "left" then; the calls read what is not theirs).             *)
InSync ==
    pc = "idle" /\ glitch = "none" =>
        /\ up = << >>
        /\ down = << >> => dev = Idle \/ (drv = "ch347" /\ page = 0)

(* A call that reports success has moved the page, byte for byte, however  *)
(* the transfer was split, unless a transfer failed before it, one of      *)
(* those whose result nobody looks at did, or the pipe of the fx2qspi held *)
(* packets of a run that was killed: no failure in the call itself passes  *)
(* for success.                                                            *)
PageWhole ==
    outcome = "done" /\ glitch \in {"none", "now"} =>
        /\ dir = "in"  => buf = Whole
        /\ dir = "out" /\ down = << >> => loaded = Whole

(* Until a transfer fails a call fails only if the device refused it: no   *)
(* operation that adjust_op_size let through is more than the device can   *)
(* be told, and none times out (those after packets that a killed run left *)
(* on the pipe of the fx2qspi excepted).                                   *)
OnlyRefusalsFail == outcome = "failed" /\ glitch = "none" => refused

(* What was opened is closed in the end, on every path, except by          *)
(* ch347_probe when the settings are not taken.                            *)
Released ==
    pc = "closed" => held = {} \/ (drv = "ch347" /\ page = 0 /\ step = 1)

(* Every call comes back: on serprog until a transfer fails, on USB, where *)
(* everything has a timeout, always.                                       *)
InCall   == pc \in {"part", "send", "data", "ack"} \cup (ChPcs \ Settings)
                    \cup (FxPcs \ {"reset"})
CallsEnd == InCall ~> pc = "idle" \/ (drv = "serprog" /\ glitch # "none")

(* spi-mem.c:306 "Return: the amount of data read from the memory device   *)
(* or a negative error code": what the core's loop counts as read has been *)
(* read.                                                                   *)
AmountRead == dir = "in" => \A c \in 0 .. col - 1 : buf[c] = << page, c >>

(* spi-mem-fx2qspi.c:135 "write 4096 bytes of 0": enough for the firmware  *)
(* to finish whatever page a run that was killed was sending, so that the  *)
(* next run finds the adapter.                                             *)
KilledRunFreed == drv = "fx2qspi" /\ pc = "unwind" => glitch # "none"
=============================================================================
