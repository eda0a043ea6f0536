------------------------- MODULE SpiNandCore_proofs -------------------------
(***************************************************************************)
(* What the driver believes about the chip is true, and every array        *)
(* operation is the one its caller asked for, for every number of dies,    *)
(* planes and pages, every set of calls and every pattern of chip faults   *)
(* and rejected commands.                                                  *)
(***************************************************************************)
EXTENDS SpiNandCore, TLAPS

LEMMA FilledType == ASSUME NEW x \in Data \cup {FF, Garbage}
                    PROVE  Filled(x) \in Cell
BY DEF Filled, Cell

LEMMA PlaneOfType == ASSUME NEW b \in Blocks PROVE PlaneOf(b) \in Plane
BY ChipAssumption DEF PlaneOf, Plane

LEMMA MergeType == ASSUME NEW x \in Cell, NEW y \in Cell
                   PROVE  Merge(x, y) \in Cell
BY DEF Merge, Cell

(* Every command turns a die into a die. *)
LEMMA CommandTypes ==
    ASSUME NEW x \in Die, NEW b \in Blocks, NEW p \in PageIds
    PROVE  /\ \A v \in SUBSET Bits : SetFeatureCfg(x, v) \in Die
           /\ WriteEnable(x) \in Die
           /\ PageRead(x, b, p) \in Die
           /\ ProgramExecute(x, b, p) \in Die
           /\ BlockErase(x, b, p) \in Die
<1>1. \A v \in SUBSET Bits : SetFeatureCfg(x, v) \in Die
  BY DEF SetFeatureCfg, Die
<1>2. WriteEnable(x) \in Die
  BY DEF WriteEnable, Die
<1>3. ASSUME NEW kind \in {"load", "program", "erase"}
      PROVE  Begin(x, kind, b, p) \in Die
  <2>1. [ kind |-> kind, block |-> b, page |-> p, ecc |-> "ecc" \in x.cfg ] \in Job
    BY DEF Job
  <2>2. x.failed \ {kind} \in SUBSET {"program", "erase"}
    BY DEF Die
  <2> QED
    BY <2>1, <2>2 DEF Begin, Die
<1> QED
  BY <1>1, <1>2, <1>3 DEF PageRead, ProgramExecute, BlockErase

LEMMA ProgramLoadType ==
    ASSUME NEW x \in Die, NEW n \in Plane, NEW qs \in SUBSET Parts, NEW c \in Cell
    PROVE  ProgramLoad(x, n, qs, c) \in Die
<1>1. [ q \in Parts |-> IF q \in qs THEN c[q] ELSE x.reg[n][q] ] \in Cell
  BY DEF Cell, Die
<1> QED
  BY <1>1 DEF ProgramLoad, Die

LEMMA ExecType ==
    ASSUME ChipTypeOK, NEW new \in Die, NEW ok \in BOOLEAN, Exec(new, ok)
    PROVE  die' \in [ Dies -> Die ]
BY DEF ChipTypeOK, Exec, Received

LEMMA CallType ==
    ASSUME TypeOK, pc # "idle"
    PROVE  call \in Call
BY CoreAssumption DEF TypeOK

LEMMA NoCallNotCall == NoCall \notin Calls
<1>1. ASSUME NoCall \in Call PROVE FALSE
  BY <1>1 DEF NoCall, Call
<1> QED
  BY <1>1, CoreAssumption
-----------------------------------------------------------------------------
LEMMA InitType == Init => TypeOK
<1> SUFFICES ASSUME Init PROVE TypeOK
  OBVIOUS
<1>1. Filled(Garbage) \in Cell /\ Filled(FF) \in Cell
  BY FilledType
<1>2. NDies - 1 \in Dies
  BY ChipAssumption DEF Dies
<1>3. die \in [ Dies -> Die ]
  <2>1. [ n \in Plane |-> Filled(Garbage) ] \in [ Plane -> Cell ]
    BY <1>1
  <2>2. [ cfg : SUBSET Bits, wel : {FALSE}, job : {NoJob},
          reg : { [ n \in Plane |-> Filled(Garbage) ] },
          failed : {{}}, uncor : {FALSE} ] \subseteq Die
    BY <2>1 DEF Die
  <2> QED
    BY <2>2 DEF Init
<1>4. ChipTypeOK
  BY <1>1, <1>2, <1>3 DEF Init, ChipTypeOK
<1>5. cache \in [ Dies -> SUBSET Bits ]
  BY <1>3 DEF Init, Die
<1> QED
  BY <1>1, <1>2, <1>4, <1>5 DEF Init, TypeOK

LEMMA InvokeType ==
    ASSUME TypeOK, NEW c \in Calls, Invoke(c)
    PROVE  TypeOK'
BY NoCallNotCall DEF TypeOK, ChipTypeOK, Invoke, chip, driver

LEMMA SelectType ==
    ASSUME TypeOK, SelectTarget \/ SelectDie
    PROVE  TypeOK'
<1>1. call \in Call /\ call # NoCall
  BY CallType DEF TypeOK, SelectTarget, SelectDie
<1>2. call.die \in Dies \/ call.die >= NDies
  BY <1>1, ChipAssumption DEF Call, Dies
<1>3. AfterSelect \in {"wren", "ecc"}
  BY DEF AfterSelect
<1>4. CASE SelectTarget
  BY <1>1, <1>2, <1>3, <1>4, ChipAssumption
  DEF TypeOK, ChipTypeOK, SelectTarget, Proceed, chip, Dies
<1>5. CASE SelectDie
  <2>1. call.die \in Dies
    BY <1>1, <1>5, ChipAssumption DEF SelectDie, Call, Dies
  <2> QED
    BY <1>1, <1>3, <1>5, <2>1 DEF TypeOK, ChipTypeOK, SelectDie, Proceed
<1> QED
  BY <1>4, <1>5

LEMMA EccType ==
    ASSUME TypeOK, EccUnchanged \/ EccChange
    PROVE  TypeOK'
<1>1. call # NoCall
  BY DEF TypeOK, EccUnchanged, EccChange
<1>2. AfterEcc \in {"exec", "wren"}
  BY DEF AfterEcc
<1>3. Wanted \in SUBSET Bits
  BY DEF Wanted, TypeOK, Bits
<1>4. CASE EccUnchanged
  BY <1>1, <1>2, <1>4 DEF TypeOK, ChipTypeOK, EccUnchanged, Proceed, chip
<1>5. CASE EccChange
  <2>1. PICK ok \in BOOLEAN :
            /\ Exec(SetFeatureCfg(die[sel], Wanted), ok)
            /\ cache' = IF ok THEN [ cache EXCEPT ![cur] = Wanted ] ELSE cache
            /\ Proceed(ok, AfterEcc)
    BY <1>5 DEF EccChange
  <2>2. SetFeatureCfg(die[sel], Wanted) \in Die
    <3>1. die[sel] \in Die
      BY DEF TypeOK, ChipTypeOK
    <3> QED
      BY <3>1, <1>3 DEF SetFeatureCfg, Die
  <2>3. die' \in [ Dies -> Die ]
    BY <2>1, <2>2, ExecType DEF TypeOK
  <2>4. cache' \in [ Dies -> SUBSET Bits ]
    BY <2>1, <1>3 DEF TypeOK
  <2> QED
    BY <1>1, <1>2, <1>5, <2>1, <2>3, <2>4
    DEF TypeOK, ChipTypeOK, EccChange, Proceed
<1> QED
  BY <1>4, <1>5

LEMMA ImageType ==
    ASSUME TypeOK, pc # "idle"
    PROVE  Image \in Cell
BY CallType DEF Image, Cell, Call

LEMMA WriteEnableType ==
    ASSUME TypeOK, WriteEnableOp
    PROVE  TypeOK'
<1>1. call # NoCall /\ pc # "idle"
  BY DEF TypeOK, WriteEnableOp
<1>2. PICK ok \in BOOLEAN :
          /\ Exec(WriteEnable(die[sel]), ok)
          /\ Proceed(ok, IF call.op = "write" THEN "fill" ELSE "exec")
          /\ buf' = IF ok /\ call.op = "write" THEN Image ELSE buf
  BY DEF WriteEnableOp
<1>3. WriteEnable(die[sel]) \in Die
  BY DEF TypeOK, ChipTypeOK, WriteEnable, Die
<1>4. die' \in [ Dies -> Die ]
  BY <1>2, <1>3, ExecType DEF TypeOK
<1>5. buf' \in Cell
  BY <1>1, <1>2, ImageType DEF TypeOK
<1> QED
  BY <1>1, <1>2, <1>4, <1>5 DEF TypeOK, ChipTypeOK, WriteEnableOp, Proceed

LEMMA WriteToCacheType ==
    ASSUME TypeOK, WriteToCache
    PROVE  TypeOK'
<1>1. call \in Call /\ call # NoCall
  BY CallType DEF TypeOK, WriteToCache
<1>2. PICK n \in 1 .. 2 - column, ok \in BOOLEAN :
          /\ Exec(ProgramLoad(die[sel], PlaneOf(call.block), Span(n), buf), ok)
          /\ column' = IF ok THEN column + n ELSE column
          /\ Proceed(ok, IF column + n = 2 THEN "exec" ELSE "fill")
  BY DEF WriteToCache
<1>3. column \in 0 .. 2
  BY DEF TypeOK
<1>4. column' \in 0 .. 2
  BY <1>2, <1>3
<1>5. ProgramLoad(die[sel], PlaneOf(call.block), Span(n), buf) \in Die
  <2>1. die[sel] \in Die /\ buf \in Cell /\ Span(n) \in SUBSET Parts
    BY DEF TypeOK, ChipTypeOK, Span
  <2>2. PlaneOf(call.block) \in Plane
    BY <1>1, PlaneOfType DEF Call
  <2> QED
    BY <2>1, <2>2, ProgramLoadType
<1>6. die' \in [ Dies -> Die ]
  BY <1>2, <1>5, ExecType DEF TypeOK
<1> QED
  BY <1>1, <1>2, <1>4, <1>6 DEF TypeOK, ChipTypeOK, WriteToCache, Proceed

LEMMA StartArrayOpType ==
    ASSUME TypeOK, StartArrayOp
    PROVE  TypeOK'
<1>1. call \in Call /\ call # NoCall
  BY CallType DEF TypeOK, StartArrayOp
<1>2. PICK ok \in BOOLEAN : Exec(ArrayOp, ok) /\ Proceed(ok, "wait")
  BY DEF StartArrayOp
<1>3. ArrayOp \in Die
  <2>1. die[sel] \in Die /\ call.block \in Blocks /\ call.page \in PageIds
        /\ call.op \in {"read", "write", "erase"}
    BY <1>1 DEF TypeOK, ChipTypeOK, Call
  <2> QED
    BY <2>1, CommandTypes DEF ArrayOp
<1>4. die' \in [ Dies -> Die ]
  BY <1>2, <1>3, ExecType DEF TypeOK
<1> QED
  BY <1>1, <1>2, <1>4 DEF TypeOK, ChipTypeOK, StartArrayOp, Proceed

LEMMA WaitType ==
    ASSUME TypeOK, WaitReady \/ WaitFails
    PROVE  TypeOK'
<1>1. call # NoCall
  BY DEF TypeOK, WaitReady, WaitFails
<1>2. FirstColumn \in 0 .. 2
  BY DEF FirstColumn
<1> QED
  BY <1>1, <1>2 DEF TypeOK, ChipTypeOK, WaitReady, WaitFails, chip

LEMMA ReadFromCacheType ==
    ASSUME TypeOK, ReadFromCache
    PROVE  TypeOK'
<1>1. call \in Call /\ call # NoCall
  BY CallType DEF TypeOK, ReadFromCache
<1>2. PICK n \in 1 .. EndColumn - column, ok \in BOOLEAN :
          /\ buf' = [ q \in Parts |->
                        IF ok /\ q \in Span(n)
                        THEN die[sel].reg[PlaneOf(call.block)][q] ELSE buf[q] ]
          /\ column' = IF ok THEN column + n ELSE column
          /\ Proceed(ok, IF column + n = EndColumn THEN "check" ELSE "fetch")
  BY DEF ReadFromCache
<1>3. column' \in 0 .. 2
  BY <1>2 DEF EndColumn, TypeOK
<1>4. buf' \in Cell
  <2>1. PlaneOf(call.block) \in Plane
    BY <1>1, PlaneOfType DEF Call
  <2>2. die[sel].reg[PlaneOf(call.block)] \in Cell /\ buf \in Cell
    BY <2>1 DEF TypeOK, ChipTypeOK, Die
  <2> QED
    BY <1>2, <2>2 DEF Cell
<1> QED
  BY <1>1, <1>2, <1>3, <1>4 DEF TypeOK, ChipTypeOK, ReadFromCache, Proceed, chip

LEMMA ReturnType ==
    ASSUME TypeOK, CheckEcc \/ Return
    PROVE  TypeOK'
BY DEF TypeOK, ChipTypeOK, CheckEcc, Return, chip

LEMMA ChipCompletesType ==
    ASSUME TypeOK, NEW d \in Dies, ChipCompletes(d)
    PROVE  TypeOK'
<1> DEFINE j == die[d].job
           n == PlaneOf(j.block)
           old == array[d][j.block][j.page]
<1>1. /\ j \in Job /\ j.block \in Blocks /\ j.page \in PageIds
      /\ n \in Plane /\ old \in Cell /\ die[d] \in Die /\ die[d].reg[n] \in Cell
  <2>1. j \in Job
    BY DEF TypeOK, ChipTypeOK, Die, ChipCompletes, Busy
  <2>2. j.block \in Blocks /\ j.page \in PageIds
    BY <2>1 DEF Job
  <2>3. n \in Plane
    BY <2>2, PlaneOfType
  <2> QED
    BY <2>1, <2>2, <2>3 DEF TypeOK, ChipTypeOK, Die
<1>2. Filled(Garbage) \in Cell /\ Filled(FF) \in Cell
  BY FilledType
<1>3. CASE CompleteLoad(d)
  <2>1. PICK u \in BOOLEAN :
          die' = [ die EXCEPT ![d].reg[n] = old, ![d].uncor = u,
                              ![d].job = NoJob ]
    BY <1>3 DEF CompleteLoad
  <2>2. die' \in [ Dies -> Die ]
    BY <2>1, <1>1 DEF TypeOK, ChipTypeOK, Die
  <2> QED
    BY <1>3, <2>2 DEF ChipCompletes, CompleteLoad, TypeOK, ChipTypeOK, driver,
                      CompleteProgram, CompleteErase
<1>4. ASSUME NEW ok \in BOOLEAN, CompleteProgram(d, ok)
      PROVE  ChipTypeOK'
  <2> DEFINE new == Merge(old, die[d].reg[n])
  <2>1. new \in Cell
    BY <1>1, MergeType
  <2> HIDE DEF new
  <2>2. PICK c \in Cell : array' = [ array EXCEPT ![d][j.block][j.page] = c ]
    BY <1>1, <1>2, <1>4, <2>1 DEF CompleteProgram, Halfway, new
  <2>3. array' \in [ Dies -> [ Blocks -> [ PageIds -> Cell ] ] ]
    BY <1>1, <2>2 DEF TypeOK, ChipTypeOK
  <2>4. die' \in [ Dies -> Die ]
    BY <1>1, <1>4 DEF CompleteProgram, TypeOK, ChipTypeOK, Die
  <2> QED
    BY <1>4, <2>3, <2>4 DEF CompleteProgram, TypeOK, ChipTypeOK
<1>5. ASSUME NEW ok \in BOOLEAN, CompleteErase(d, ok)
      PROVE  ChipTypeOK'
  <2> DEFINE All(x) == [ p \in PageIds |-> Filled(x) ]
  <2>1. All(FF) \in [ PageIds -> Cell ] /\ All(Garbage) \in [ PageIds -> Cell ]
    BY <1>2
  <2>2. array[d][j.block] \in [ PageIds -> Cell ]
    BY <1>1 DEF TypeOK, ChipTypeOK
  <2>3. PICK c \in [ PageIds -> Cell ] : array' = [ array EXCEPT ![d][j.block] = c ]
    BY <1>5, <2>1, <2>2 DEF CompleteErase, Halfway
  <2>4. array' \in [ Dies -> [ Blocks -> [ PageIds -> Cell ] ] ]
    BY <1>1, <2>3 DEF TypeOK, ChipTypeOK
  <2>5. die' \in [ Dies -> Die ]
    BY <1>1, <1>5 DEF CompleteErase, TypeOK, ChipTypeOK, Die
  <2> QED
    BY <1>5, <2>4, <2>5 DEF CompleteErase, TypeOK, ChipTypeOK
<1>6. CASE \E ok \in BOOLEAN :
             /\ CompleteProgram(d, ok) \/ CompleteErase(d, ok)
             /\ effect' = IF ok THEN "done" ELSE "failed"
  <2>1. ChipTypeOK'
    BY <1>4, <1>5, <1>6
  <2> QED
    BY <1>6, <2>1 DEF ChipCompletes, TypeOK, driver
<1> QED
  BY <1>3, <1>6 DEF ChipCompletes

LEMMA StutterType == ASSUME TypeOK, UNCHANGED vars PROVE TypeOK'
BY DEF TypeOK, ChipTypeOK, vars

(* Every variable of the driver and of the chip keeps to its set. *)
THEOREM TypeCorrect == Spec => []TypeOK
<1>1. TypeOK /\ [Next]_vars => TypeOK'
  BY InvokeType, SelectType, EccType, WriteEnableType, WriteToCacheType,
     StartArrayOpType, WaitType, ReadFromCacheType, ReturnType,
     ChipCompletesType, StutterType DEF Next, DriverStep
<1> QED
  BY <1>1, InitType, PTL DEF Spec
-----------------------------------------------------------------------------
(* The strengthening.  Coherent is what CacheCoherent says under Reliable; *)
(* the rest is what each label of the three operations can count on.       *)
Coherent == sel = cur /\ \A d \in Dies : cache[d] = die[d].cfg

JobsOfCall ==
    \A d \in Dies : Busy(d) =>
        LET j == die[d].job
        IN  /\ pc = "wait" /\ d = call.die
            /\ j.kind = KindOf(call.op)
            /\ j.block = call.block /\ j.page = call.page
            /\ call.op # "erase" => j.ecc = call.ecc

Underway == {"ecc", "wren", "fill", "exec", "wait", "fetch", "check"}

OnTarget == pc \in Underway => call.die = cur

EccAsAsked ==
    /\ pc = "ecc" => call.op # "erase"
    /\ pc \in {"wren", "fill", "exec"} /\ call.op # "erase" =>
          ("ecc" \in die[cur].cfg) = call.ecc

InCache(q) == die[cur].reg[PlaneOf(call.block)][q]

Filling ==
    /\ pc = "fill" =>
          /\ call.op = "write" /\ die[cur].wel /\ buf = Written(call)
          /\ \A q \in Parts : StartOf(q) < column => InCache(q) = Written(call)[q]
    /\ pc = "exec" /\ call.op = "write" =>
          /\ die[cur].wel
          /\ \A q \in Parts : InCache(q) = Written(call)[q]

(* TypeOK is an invariant of its own; IInv is what is left. *)
IInv == Coherent /\ JobsOfCall /\ OnTarget /\ EccAsAsked /\ Filling
-----------------------------------------------------------------------------
(* A command to a die that is ready either takes effect or changes nothing, *)
(* and the driver knows which.                                             *)
LEMMA ExecReliable ==
    ASSUME Reliable, TypeOK, ~ Busy(sel), NEW new, NEW ok \in BOOLEAN,
           Exec(new, ok)
    PROVE  \/ ok /\ die' = [ die EXCEPT ![sel] = new ]
           \/ ~ ok /\ die' = die
<1>1. "lost" \notin Faults
  BY DEF Reliable
<1>2. die[sel].job = NoJob
  BY DEF Busy
<1> QED
  BY <1>1, <1>2 DEF Exec, Received

LEMMA InitIInv == Init => IInv
<1> SUFFICES ASSUME Init PROVE IInv
  OBVIOUS
<1>1. \A d \in Dies : ~ Busy(d)
  BY DEF Init, Busy
<1>2. \A d \in Dies : cache[d] = die[d].cfg
  BY DEF Init
<1> QED
  BY <1>1, <1>2
  DEF Init, IInv, Coherent, JobsOfCall, OnTarget, EccAsAsked, Filling, Underway

LEMMA InvokeIInv ==
    ASSUME IInv, NEW c \in Calls, Invoke(c)
    PROVE  IInv'
BY DEF IInv, Invoke, Coherent, JobsOfCall, OnTarget, EccAsAsked, Filling,
       Underway, chip, driver, Busy

LEMMA SelectIInv ==
    ASSUME TypeOK, Reliable, IInv, SelectTarget \/ SelectDie
    PROVE  IInv'
<1>1. \A d \in Dies : ~ Busy(d)
  BY DEF IInv, JobsOfCall, SelectTarget, SelectDie
<1>2. AfterSelect \in {"wren", "ecc"} /\ (AfterSelect = "ecc" <=> call.op # "erase")
  BY DEF AfterSelect
<1>3. CASE SelectTarget
  <2>1. sel = cur'
    <3>1. CASE call.die >= NDies
      BY <1>3, <3>1 DEF SelectTarget, IInv, Coherent
    <3>2. CASE ~ (call.die >= NDies)
      <4>1. cur \in 0 .. NDies - 1 /\ call.die \in Nat
        BY <1>3, CallType DEF TypeOK, Dies, SelectTarget, Call
      <4>2. call.die = cur \/ NDies = 1
        BY <1>3, <3>2 DEF SelectTarget
      <4>3. call.die = cur
        BY <3>2, <4>1, <4>2, ChipAssumption
      <4> QED
        BY <1>3, <3>2, <4>3 DEF SelectTarget, IInv, Coherent
    <3> QED
      BY <3>1, <3>2
  <2>2. \/ pc' = "return" /\ cur' = cur
        \/ pc' = AfterSelect /\ cur' = call.die
    BY <1>3 DEF SelectTarget, Proceed
  <2> QED
    BY <1>1, <1>2, <1>3, <2>1, <2>2
    DEF SelectTarget, IInv, Coherent, JobsOfCall, OnTarget, EccAsAsked, Filling,
        Underway, chip, Busy
<1>4. CASE SelectDie
  <2>1. sel' = cur'
    BY <1>4 DEF SelectDie, IInv, Coherent, Reliable
  <2>2. \/ pc' = "return"
        \/ pc' = AfterSelect /\ cur' = call.die
    BY <1>4 DEF SelectDie, Proceed
  <2> QED
    BY <1>1, <1>2, <1>4, <2>1, <2>2
    DEF SelectDie, IInv, Coherent, JobsOfCall, OnTarget, EccAsAsked, Filling,
        Underway, Busy
<1> QED
  BY <1>3, <1>4

LEMMA EccIInv ==
    ASSUME TypeOK, Reliable, IInv, EccUnchanged \/ EccChange
    PROVE  IInv'
<1>1. \A d \in Dies : ~ Busy(d)
  BY DEF IInv, JobsOfCall, EccUnchanged, EccChange
<1>2. /\ AfterEcc \in {"exec", "wren"}
      /\ AfterEcc = "exec" <=> call.op = "read"
  BY DEF AfterEcc
<1>3. call.op # "erase" /\ call.die = cur /\ sel = cur
  BY DEF IInv, EccAsAsked, OnTarget, Underway, Coherent, EccUnchanged, EccChange
<1>4. call.ecc \in BOOLEAN
  BY CallType DEF Call, EccUnchanged, EccChange
<1>5. ("ecc" \in Wanted) = call.ecc
  BY <1>4 DEF Wanted
<1>6. cache[cur] = die[cur].cfg /\ cur \in Dies
  BY DEF IInv, Coherent, TypeOK
<1>7. CASE EccUnchanged
  BY <1>1, <1>2, <1>3, <1>5, <1>6, <1>7
  DEF EccUnchanged, Proceed, IInv, Coherent, JobsOfCall, OnTarget, EccAsAsked,
      Filling, Underway, chip, Busy
<1>8. CASE EccChange
  <2>1. PICK ok \in BOOLEAN :
            /\ Exec(SetFeatureCfg(die[sel], Wanted), ok)
            /\ cache' = IF ok THEN [ cache EXCEPT ![cur] = Wanted ] ELSE cache
            /\ Proceed(ok, AfterEcc)
    BY <1>8 DEF EccChange
  <2>2. UNCHANGED << sel, call, cur >>
    BY <1>8 DEF EccChange
  <2>3. CASE ok
    <3>1. die' = [ die EXCEPT ![cur] = SetFeatureCfg(die[cur], Wanted) ]
      BY <1>1, <1>3, <1>6, <2>1, <2>3, ExecReliable
    <3>2. die \in [ Dies -> Die ] /\ cache \in [ Dies -> SUBSET Bits ]
      BY DEF TypeOK, ChipTypeOK
    <3>3. die[cur] \in Die
      BY <3>2, <1>6
    <3>4. /\ die'[cur].cfg = Wanted /\ die'[cur].job = die[cur].job
          /\ \A d \in Dies \ {cur} : die'[d] = die[d]
      BY <3>1, <3>2, <3>3, <1>6 DEF SetFeatureCfg, Die
    <3>5. \A d \in Dies : die'[d].job = NoJob
      BY <3>4, <1>1, <1>6 DEF Busy
    <3>6. \A d \in Dies : cache'[d] = die'[d].cfg
      BY <3>2, <3>4, <2>1, <2>3, <1>6 DEF IInv, Coherent
    <3>7. pc' = AfterEcc
      BY <2>1, <2>3 DEF Proceed
    <3> QED
      BY <1>2, <1>3, <1>5, <2>2, <3>4, <3>5, <3>6, <3>7
      DEF IInv, Coherent, JobsOfCall, OnTarget, EccAsAsked, Filling, Busy
  <2>4. CASE ~ ok
    <3>1. die' = die /\ cache' = cache /\ pc' = "return"
      BY <1>1, <1>3, <1>6, <2>1, <2>4, ExecReliable DEF Proceed
    <3> QED
      BY <1>1, <2>2, <3>1
      DEF IInv, Coherent, JobsOfCall, OnTarget, EccAsAsked, Filling, Underway, Busy
  <2> QED
    BY <2>3, <2>4
<1> QED
  BY <1>7, <1>8

LEMMA ImageIsWritten == Image = Written(call)
BY DEF Image, Written

LEMMA WriteEnableIInv ==
    ASSUME TypeOK, Reliable, IInv, WriteEnableOp
    PROVE  IInv'
<1>1. \A d \in Dies : ~ Busy(d)
  BY DEF IInv, JobsOfCall, WriteEnableOp
<1>2. call.die = cur /\ sel = cur /\ cur \in Dies
  BY DEF IInv, OnTarget, Underway, Coherent, WriteEnableOp, TypeOK
<1>3. PICK ok \in BOOLEAN :
          /\ Exec(WriteEnable(die[sel]), ok)
          /\ Proceed(ok, IF call.op = "write" THEN "fill" ELSE "exec")
          /\ buf' = IF ok /\ call.op = "write" THEN Image ELSE buf
  BY DEF WriteEnableOp
<1>4. UNCHANGED << sel, call, cur, cache >> /\ column' = 0
  BY DEF WriteEnableOp
<1>5. CASE ok
  <2>1. die' = [ die EXCEPT ![cur] = WriteEnable(die[cur]) ]
    BY <1>1, <1>2, <1>3, <1>5, ExecReliable
  <2>2. die \in [ Dies -> Die ] /\ die[cur] \in Die
    BY <1>2 DEF TypeOK, ChipTypeOK
  <2>3. /\ die'[cur].cfg = die[cur].cfg /\ die'[cur].job = die[cur].job
        /\ die'[cur].wel
        /\ \A d \in Dies \ {cur} : die'[d] = die[d]
    BY <2>1, <2>2, <1>2 DEF WriteEnable, Die
  <2>4. \A d \in Dies : die'[d].job = NoJob /\ die'[d].cfg = die[d].cfg
    BY <2>3, <1>1, <1>2 DEF Busy
  <2>5. \A q \in Parts : ~ (StartOf(q) < 0)
    BY DEF StartOf
  <2>6. pc' = IF call.op = "write" THEN "fill" ELSE "exec"
    BY <1>3, <1>5 DEF Proceed
  <2>7. call.op = "write" => buf' = Written(call)
    BY <1>3, <1>5, ImageIsWritten
  <2>8. Coherent' /\ JobsOfCall' /\ OnTarget'
    BY <1>2, <1>4, <2>4 DEF IInv, Coherent, JobsOfCall, OnTarget, Busy
  <2>9. EccAsAsked'
    BY <1>2, <1>4, <2>4, <2>6 DEF IInv, EccAsAsked, WriteEnableOp
  <2>10. Filling'
    BY <1>4, <2>3, <2>5, <2>6, <2>7 DEF Filling, Written
  <2> QED
    BY <2>8, <2>9, <2>10 DEF IInv
<1>6. CASE ~ ok
  <2>1. die' = die /\ pc' = "return"
    BY <1>1, <1>2, <1>3, <1>6, ExecReliable DEF Proceed
  <2> QED
    BY <1>1, <1>4, <2>1
    DEF IInv, Coherent, JobsOfCall, OnTarget, EccAsAsked, Filling, Underway, Busy
<1> QED
  BY <1>5, <1>6

LEMMA WriteToCacheIInv ==
    ASSUME TypeOK, Reliable, IInv, WriteToCache
    PROVE  IInv'
<1>1. \A d \in Dies : ~ Busy(d)
  BY DEF IInv, JobsOfCall, WriteToCache
<1>2. call.die = cur /\ sel = cur /\ cur \in Dies /\ call.op = "write"
  BY DEF IInv, OnTarget, Underway, Coherent, Filling, WriteToCache, TypeOK
<1> DEFINE m == PlaneOf(call.block)
<1>3. PICK n \in 1 .. 2 - column, ok \in BOOLEAN :
          /\ Exec(ProgramLoad(die[sel], m, Span(n), buf), ok)
          /\ column' = IF ok THEN column + n ELSE column
          /\ Proceed(ok, IF column + n = 2 THEN "exec" ELSE "fill")
  BY DEF WriteToCache
<1>4. UNCHANGED << sel, call, cur, cache, buf >>
  BY DEF WriteToCache
<1>5. CASE ok
  <2>1. die' = [ die EXCEPT ![cur] = ProgramLoad(die[cur], m, Span(n), buf) ]
    BY <1>1, <1>2, <1>3, <1>5, ExecReliable
  <2>2. die \in [ Dies -> Die ] /\ die[cur] \in Die /\ m \in Plane
    <3>1. call.block \in Blocks
      BY CallType DEF WriteToCache, Call
    <3> QED
      BY <3>1, <1>2, PlaneOfType DEF TypeOK, ChipTypeOK
  <2>3. /\ die'[cur].cfg = die[cur].cfg /\ die'[cur].job = die[cur].job
        /\ die'[cur].wel = die[cur].wel
        /\ \A d \in Dies \ {cur} : die'[d] = die[d]
        /\ \A q \in Parts : die'[cur].reg[m][q]
                                = IF q \in Span(n) THEN buf[q] ELSE die[cur].reg[m][q]
    <3>1. die'[cur] = ProgramLoad(die[cur], m, Span(n), buf)
      BY <2>1, <2>2, <1>2
    <3>2. die[cur].reg \in [ Plane -> Cell ]
      BY <2>2 DEF Die
    <3> QED
      BY <2>1, <2>2, <3>1, <3>2, <1>2 DEF ProgramLoad, Die
  <2>4. \A d \in Dies : die'[d].job = NoJob /\ die'[d].cfg = die[d].cfg
    BY <2>3, <1>1, <1>2 DEF Busy
  <2>5. column \in 0 .. 2 /\ column' = column + n
    BY <1>3, <1>5 DEF TypeOK
  <2>6. pc' = IF column + n = 2 THEN "exec" ELSE "fill"
    BY <1>3, <1>5 DEF Proceed
  <2>7. /\ die[cur].wel /\ buf = Written(call)
        /\ \A q \in Parts : StartOf(q) < column => die[cur].reg[m][q] = Written(call)[q]
    BY DEF IInv, Filling, InCache, WriteToCache
  <2>8. \A q \in Parts : StartOf(q) < column + n =>
                            die'[cur].reg[m][q] = Written(call)[q]
    <3> SUFFICES ASSUME NEW q \in Parts, StartOf(q) < column + n
                 PROVE  die'[cur].reg[m][q] = Written(call)[q]
      OBVIOUS
    <3>1. StartOf(q) \in 0 .. 1
      BY DEF StartOf
    <3>2. CASE StartOf(q) < column
      <4>1. q \notin Span(n)
        BY <3>1, <3>2, <2>5 DEF Span
      <4> QED
        BY <4>1, <3>2, <2>3, <2>7
    <3>3. CASE ~ (StartOf(q) < column)
      <4>1. q \in Span(n)
        BY <3>1, <3>3, <2>5 DEF Span
      <4> QED
        BY <4>1, <2>3, <2>7
    <3> QED
      BY <3>2, <3>3
  <2>9. Coherent' /\ JobsOfCall' /\ OnTarget'
    BY <1>2, <1>4, <2>4 DEF IInv, Coherent, JobsOfCall, OnTarget, Busy
  <2>10. EccAsAsked'
    BY <1>2, <1>4, <2>4, <2>6 DEF IInv, EccAsAsked, WriteToCache
  <2>11. Filling'
    <3>1. \A q \in Parts : StartOf(q) < 2
      BY DEF StartOf
    <3>2. \A q \in Parts : InCache(q)' = die'[cur].reg[m][q]
      BY <1>4 DEF InCache
    <3>3. Written(call)' = Written(call)
      BY <1>4 DEF Written
    <3>4. CASE column + n = 2
      BY <1>4, <2>3, <2>6, <2>7, <2>8, <3>1, <3>2, <3>3, <3>4 DEF Filling
    <3>5. CASE column + n # 2
      BY <1>2, <1>4, <2>3, <2>5, <2>6, <2>7, <2>8, <3>2, <3>3, <3>5 DEF Filling
    <3> QED
      BY <3>4, <3>5
  <2> QED
    BY <2>9, <2>10, <2>11 DEF IInv
<1>6. CASE ~ ok
  <2>1. die' = die /\ pc' = "return"
    BY <1>1, <1>2, <1>3, <1>6, ExecReliable DEF Proceed
  <2> QED
    BY <1>1, <1>4, <2>1
    DEF IInv, Coherent, JobsOfCall, OnTarget, EccAsAsked, Filling, Underway, Busy
<1> QED
  BY <1>5, <1>6

LEMMA StartArrayOpIInv ==
    ASSUME TypeOK, Reliable, IInv, StartArrayOp
    PROVE  IInv'
<1>1. \A d \in Dies : ~ Busy(d)
  BY DEF IInv, JobsOfCall, StartArrayOp
<1>2. call.die = cur /\ sel = cur /\ cur \in Dies
  BY DEF IInv, OnTarget, Underway, Coherent, StartArrayOp, TypeOK
<1>3. PICK ok \in BOOLEAN : Exec(ArrayOp, ok) /\ Proceed(ok, "wait")
  BY DEF StartArrayOp
<1>4. UNCHANGED << sel, call, cur, cache >>
  BY DEF StartArrayOp
<1>5. CASE ok
  <2>1. die' = [ die EXCEPT ![cur] = ArrayOp ] /\ pc' = "wait"
    BY <1>1, <1>2, <1>3, <1>5, ExecReliable DEF Proceed
  <2>2. die \in [ Dies -> Die ] /\ die[cur] \in Die
    BY <1>2 DEF TypeOK, ChipTypeOK
  <2>3. call.op \in {"read", "write", "erase"}
    BY CallType DEF Call, StartArrayOp
  <2>4. /\ ArrayOp.cfg = die[cur].cfg
        /\ \/ ArrayOp.job = NoJob
           \/ ArrayOp.job = [ kind |-> KindOf(call.op), block |-> call.block,
                              page |-> call.page, ecc |-> "ecc" \in die[cur].cfg ]
    <3>1. die[cur].job = NoJob
      BY <1>1, <1>2 DEF Busy
    <3>2. ASSUME NEW kind
          PROVE  /\ Begin(die[cur], kind, call.block, call.page).cfg = die[cur].cfg
                 /\ Begin(die[cur], kind, call.block, call.page).job =
                      [ kind |-> kind, block |-> call.block, page |-> call.page,
                        ecc |-> "ecc" \in die[cur].cfg ]
      BY <2>2 DEF Begin, Die
    <3> QED
      BY <1>2, <2>3, <3>1, <3>2
      DEF ArrayOp, KindOf, PageRead, ProgramExecute, BlockErase
  <2>5. \A d \in Dies \ {cur} : die'[d] = die[d] /\ die'[d].job = NoJob
    BY <2>1, <2>2, <1>1 DEF Busy
  <2>6. die'[cur] = ArrayOp
    BY <2>1, <2>2, <1>2
  <2>7. call.op # "erase" => ("ecc" \in die[cur].cfg) = call.ecc
    BY DEF IInv, EccAsAsked, StartArrayOp
  <2>8. JobsOfCall'
    <3> SUFFICES ASSUME NEW d \in Dies, die'[d].job # NoJob
                 PROVE  /\ d = call.die
                        /\ die'[d].job.kind = KindOf(call.op)
                        /\ die'[d].job.block = call.block
                        /\ die'[d].job.page = call.page
                        /\ call.op # "erase" => die'[d].job.ecc = call.ecc
      BY <1>4, <2>1 DEF JobsOfCall, Busy, KindOf
    <3>1. d = cur
      BY <2>5
    <3>2. die'[d].job = [ kind |-> KindOf(call.op), block |-> call.block,
                          page |-> call.page, ecc |-> "ecc" \in die[cur].cfg ]
      BY <3>1, <2>4, <2>6
    <3> HIDE DEF KindOf
    <3> QED
      BY <1>2, <2>7, <3>1, <3>2
  <2>9. Coherent'
    BY <1>2, <1>4, <2>4, <2>5, <2>6 DEF IInv, Coherent
  <2> QED
    BY <1>2, <1>4, <2>1, <2>8, <2>9 DEF IInv, OnTarget, EccAsAsked, Filling
<1>6. CASE ~ ok
  <2>1. die' = die /\ pc' = "return"
    BY <1>1, <1>2, <1>3, <1>6, ExecReliable DEF Proceed
  <2> QED
    BY <1>1, <1>4, <2>1
    DEF IInv, Coherent, JobsOfCall, OnTarget, EccAsAsked, Filling, Underway, Busy
<1> QED
  BY <1>5, <1>6

LEMMA WaitIInv ==
    ASSUME TypeOK, Reliable, IInv, WaitReady \/ WaitFails
    PROVE  IInv'
<1>1. WaitReady
  BY DEF WaitFails, Reliable
<1>2. call.die = cur /\ sel = cur
  BY <1>1 DEF IInv, OnTarget, Underway, Coherent, WaitReady
<1>3. \A d \in Dies : ~ Busy(d)
  BY <1>1, <1>2 DEF IInv, JobsOfCall, WaitReady
<1> QED
  BY <1>1, <1>2, <1>3
  DEF WaitReady, IInv, Coherent, JobsOfCall, OnTarget, EccAsAsked, Filling, chip,
      Busy

LEMMA ReadFromCacheIInv ==
    ASSUME IInv, ReadFromCache
    PROVE  IInv'
<1>1. \A d \in Dies : ~ Busy(d)
  BY DEF IInv, JobsOfCall, ReadFromCache
<1>2. pc' \in {"fetch", "check", "return"}
  BY DEF ReadFromCache, Proceed
<1> QED
  BY <1>1, <1>2
  DEF ReadFromCache, IInv, Coherent, JobsOfCall, OnTarget, EccAsAsked, Filling,
      Underway, chip, Busy

LEMMA ReturnIInv ==
    ASSUME IInv, CheckEcc \/ Return
    PROVE  IInv'
<1>1. \A d \in Dies : ~ Busy(d)
  BY DEF IInv, JobsOfCall, CheckEcc, Return
<1> QED
  BY <1>1
  DEF CheckEcc, Return, IInv, Coherent, JobsOfCall, OnTarget, EccAsAsked, Filling,
      Underway, chip, Busy

LEMMA ChipCompletesIInv ==
    ASSUME TypeOK, IInv, NEW d \in Dies, ChipCompletes(d)
    PROVE  IInv'
<1>1. pc = "wait"
  BY DEF ChipCompletes, IInv, JobsOfCall
<1>2. die \in [ Dies -> Die ]
  BY DEF TypeOK, ChipTypeOK
<1>3. /\ die'[d].cfg = die[d].cfg /\ die'[d].job = NoJob
      /\ \A e \in Dies \ {d} : die'[e] = die[e]
      /\ sel' = sel
  <2>1. die[d] \in Die
    BY <1>2
  <2>2. CASE CompleteLoad(d)
    <3>1. PICK u, r :
            die' = [ die EXCEPT ![d].reg[PlaneOf(die[d].job.block)] = r,
                                ![d].uncor = u, ![d].job = NoJob ]
      BY <2>2 DEF CompleteLoad
    <3> QED
      BY <1>2, <2>1, <2>2, <3>1 DEF CompleteLoad, Die
  <2>3. ASSUME NEW ok, CompleteProgram(d, ok) PROVE <1>3!:
    BY <1>2, <2>1, <2>3 DEF CompleteProgram, Die
  <2>4. ASSUME NEW ok, CompleteErase(d, ok) PROVE <1>3!:
    BY <1>2, <2>1, <2>4 DEF CompleteErase, Die
  <2> QED
    BY <2>2, <2>3, <2>4 DEF ChipCompletes
<1>4. UNCHANGED << pc, call, cur, cache >>
  BY DEF ChipCompletes, driver
<1> QED
  BY <1>1, <1>3, <1>4
  DEF IInv, Coherent, JobsOfCall, OnTarget, EccAsAsked, Filling, Busy

LEMMA NextIInv ==
    ASSUME TypeOK, Reliable, IInv, [Next]_vars
    PROVE  IInv'
<1>1. CASE UNCHANGED vars
  BY <1>1 DEF vars, IInv, Coherent, JobsOfCall, OnTarget, EccAsAsked, Filling,
              Underway, Busy, InCache, Written
<1> QED
  BY <1>1, InvokeIInv, SelectIInv, EccIInv, WriteEnableIInv, WriteToCacheIInv,
     StartArrayOpIInv, WaitIInv, ReadFromCacheIInv, ReturnIInv,
     ChipCompletesIInv DEF Next, DriverStep

LEMMA Invariance == Reliable => (Spec => []IInv)
<1>1. TypeOK /\ Reliable /\ IInv /\ [Next]_vars => IInv'
  BY NextIInv
<1>2. Reliable => Reliable'
  BY DEF Reliable
<1> QED
  BY <1>1, <1>2, InitIInv, TypeCorrect, PTL DEF Spec
-----------------------------------------------------------------------------
(* cur_target and cfg_cache tell the truth after any sequence of calls and *)
(* failures, as long as a command reported to have failed was not executed *)
(* and the chip answers in time.                                           *)
THEOREM DriverKnowsChip == Spec => []CacheCoherent
<1>1. IInv => CacheCoherent
  BY DEF IInv, Coherent, CacheCoherent
<1>2. ~ Reliable => CacheCoherent
  BY DEF CacheCoherent
<1>3. (Reliable => Reliable') /\ (~ Reliable => ~ Reliable')
  BY DEF Reliable
<1> QED
  BY <1>1, <1>2, <1>3, Invariance, PTL

(* Every page load, program and erase is the pending call's: on its die, at *)
(* its address, and with the ECC mode it asked for.                        *)
THEOREM JobsMatchCalls == Spec => []JobMatchesCall
<1>1. IInv => JobMatchesCall
  BY DEF IInv, JobsOfCall, JobMatchesCall
<1>2. ~ Reliable => JobMatchesCall
  BY DEF JobMatchesCall
<1>3. (Reliable => Reliable') /\ (~ Reliable => ~ Reliable')
  BY DEF Reliable
<1> QED
  BY <1>1, <1>2, <1>3, Invariance, PTL

(* No program starts from a page cache that holds anything of an earlier   *)
(* page.                                                                   *)
THEOREM ProgramsAsAsked == Spec => []CacheFilled
<1>1. IInv => CacheFilled
  <2> SUFFICES ASSUME IInv, pc = "exec", call.op = "write"
               PROVE  /\ die[call.die].wel
                      /\ \A q \in Parts :
                            die[call.die].reg[PlaneOf(call.block)][q]
                              = IF q \in call.parts THEN call.data ELSE FF
    BY DEF CacheFilled
  <2>1. call.die = cur
    BY DEF IInv, OnTarget, Underway
  <2> QED
    BY <2>1 DEF IInv, Filling, InCache, Written
<1>2. ~ Reliable => CacheFilled
  BY DEF CacheFilled
<1>3. (Reliable => Reliable') /\ (~ Reliable => ~ Reliable')
  BY DEF Reliable
<1> QED
  BY <1>1, <1>2, <1>3, Invariance, PTL
-----------------------------------------------------------------------------
(* A configuration register and its cache entry may come to disagree about *)
(* ECC, when a busy die ignores a command, but about no other bit.         *)
RestAgrees == sel = cur /\ \A d \in Dies : cache[d] \ {"ecc"} = die[d].cfg \ {"ecc"}

(* What a command does to the registers. *)
LEMMA ExecSetsCfg ==
    ASSUME TypeOK, NEW new, NEW ok \in BOOLEAN, Exec(new, ok)
    PROVE  \A d \in Dies : \/ die'[d].cfg = die[d].cfg
                           \/ d = sel /\ die'[d].cfg = new.cfg
BY DEF Exec, Received, TypeOK, ChipTypeOK

LEMMA CommandsKeepCfg ==
    ASSUME NEW x \in Die, NEW b, NEW p, NEW n, NEW qs, NEW c
    PROVE  /\ WriteEnable(x).cfg = x.cfg
           /\ ProgramLoad(x, n, qs, c).cfg = x.cfg
           /\ PageRead(x, b, p).cfg = x.cfg
           /\ ProgramExecute(x, b, p).cfg = x.cfg
           /\ BlockErase(x, b, p).cfg = x.cfg
BY DEF WriteEnable, ProgramLoad, PageRead, ProgramExecute, BlockErase, Begin, Die

LEMMA ChipKeepsCfg ==
    ASSUME TypeOK, NEW d \in Dies, ChipCompletes(d)
    PROVE  sel' = sel /\ \A e \in Dies : die'[e].cfg = die[e].cfg
<1>1. die \in [ Dies -> Die ] /\ die[d] \in Die
  BY DEF TypeOK, ChipTypeOK
<1>2. CASE CompleteLoad(d)
  <2>1. PICK u, r :
          die' = [ die EXCEPT ![d].reg[PlaneOf(die[d].job.block)] = r,
                              ![d].uncor = u, ![d].job = NoJob ]
    BY <1>2 DEF CompleteLoad
  <2> QED
    BY <1>1, <1>2, <2>1 DEF CompleteLoad, Die
<1>3. ASSUME NEW ok, CompleteProgram(d, ok)
      PROVE  sel' = sel /\ \A e \in Dies : die'[e].cfg = die[e].cfg
  BY <1>1, <1>3 DEF CompleteProgram, Die
<1>4. ASSUME NEW ok, CompleteErase(d, ok)
      PROVE  sel' = sel /\ \A e \in Dies : die'[e].cfg = die[e].cfg
  BY <1>1, <1>4 DEF CompleteErase, Die
<1> QED
  BY <1>2, <1>3, <1>4 DEF ChipCompletes

LEMMA StepKeepsBits ==
    ASSUME TypeOK, [Next]_vars, NEW d \in Dies
    PROVE  /\ cache'[d] \ {"ecc"} = cache[d] \ {"ecc"}
           /\ \/ die'[d].cfg \ {"ecc"} = die[d].cfg \ {"ecc"}
              \/ d = sel /\ die'[d].cfg \ {"ecc"} = cache[cur] \ {"ecc"}
<1>1. die \in [ Dies -> Die ] /\ cur \in Dies /\ die[sel] \in Die
      /\ cache \in [ Dies -> SUBSET Bits ]
  BY DEF TypeOK, ChipTypeOK
<1>2. CASE UNCHANGED vars \/ (\E c \in Calls : Invoke(c)) \/ EccUnchanged
            \/ WaitReady \/ WaitFails \/ ReadFromCache \/ CheckEcc \/ Return
            \/ SelectTarget \/ SelectDie
  BY <1>2 DEF vars, Invoke, EccUnchanged, WaitReady, WaitFails, ReadFromCache,
     CheckEcc, Return, SelectTarget, SelectDie, chip, driver
<1>3. CASE EccChange
  <2>1. PICK ok \in BOOLEAN :
            /\ Exec(SetFeatureCfg(die[sel], Wanted), ok)
            /\ cache' = IF ok THEN [ cache EXCEPT ![cur] = Wanted ] ELSE cache
    BY <1>3 DEF EccChange
  <2>2. Wanted \ {"ecc"} = cache[cur] \ {"ecc"}
    BY DEF Wanted
  <2>3. SetFeatureCfg(die[sel], Wanted).cfg = Wanted
    BY <1>1 DEF SetFeatureCfg, Die
  <2>4. die'[d].cfg = die[d].cfg \/ (d = sel /\ die'[d].cfg = Wanted)
    BY <2>1, <2>3, ExecSetsCfg
  <2>5. cache'[d] \ {"ecc"} = cache[d] \ {"ecc"}
    BY <1>1, <2>1, <2>2
  <2> QED
    BY <2>2, <2>4, <2>5
<1>4. CASE WriteEnableOp \/ WriteToCache \/ StartArrayOp
  <2>1. \E new : \E ok \in BOOLEAN : Exec(new, ok) /\ new.cfg = die[sel].cfg
    <3>1. CASE WriteEnableOp
      <4>1. PICK ok \in BOOLEAN : Exec(WriteEnable(die[sel]), ok)
        BY <3>1 DEF WriteEnableOp
      <4>2. WriteEnable(die[sel]).cfg = die[sel].cfg
        BY <1>1, CommandsKeepCfg
      <4> QED
        BY <4>1, <4>2
    <3>2. CASE WriteToCache
      <4>1. PICK n \in 1 .. 2 - column, ok \in BOOLEAN :
              Exec(ProgramLoad(die[sel], PlaneOf(call.block), Span(n), buf), ok)
        BY <3>2 DEF WriteToCache
      <4>2. ProgramLoad(die[sel], PlaneOf(call.block), Span(n), buf).cfg = die[sel].cfg
        BY <1>1, CommandsKeepCfg
      <4> QED
        BY <4>1, <4>2
    <3>3. CASE StartArrayOp
      <4>1. call.op \in {"read", "write", "erase"}
        BY <3>3, CallType DEF StartArrayOp, Call
      <4>2. ArrayOp.cfg = die[sel].cfg
        BY <1>1, <4>1, CommandsKeepCfg DEF ArrayOp
      <4>3. PICK ok \in BOOLEAN : Exec(ArrayOp, ok)
        BY <3>3 DEF StartArrayOp
      <4> QED
        BY <4>2, <4>3
    <3> QED
      BY <1>4, <3>1, <3>2, <3>3
  <2>2. die'[d].cfg = die[d].cfg
    BY <2>1, ExecSetsCfg
  <2>3. cache' = cache
    BY <1>4 DEF WriteEnableOp, WriteToCache, StartArrayOp
  <2> QED
    BY <2>2, <2>3
<1>5. ASSUME NEW e \in Dies, ChipCompletes(e)
      PROVE  cache' = cache /\ die'[d].cfg = die[d].cfg
  BY <1>5, ChipKeepsCfg DEF ChipCompletes, driver
<1> QED
  BY <1>2, <1>3, <1>4, <1>5 DEF Next, DriverStep

(* Unless a selection is delivered and reported as failed, the driver      *)
(* knows which die it talks to.                                            *)
LEMMA StepKeepsSelection ==
    ASSUME TypeOK, "lost" \notin Faults, sel = cur, [Next]_vars
    PROVE  sel' = cur'
<1>1. CASE SelectTarget
  <2>1. sel' = sel
    BY <1>1 DEF SelectTarget, chip
  <2>2. CASE call.die >= NDies
    BY <1>1, <2>1, <2>2 DEF SelectTarget
  <2>3. CASE ~ (call.die >= NDies)
    <3>1. call.die \in 0 .. NDies
      BY <1>1, CallType DEF SelectTarget, Call
    <3>2. cur' = call.die /\ (call.die = cur \/ NDies = 1)
      BY <1>1, <2>3 DEF SelectTarget
    <3>3. sel \in Dies
      BY DEF TypeOK, ChipTypeOK
    <3> QED
      BY <2>1, <2>3, <3>1, <3>2, <3>3, ChipAssumption DEF Dies
  <2> QED
    BY <2>2, <2>3
<1>2. CASE SelectDie
  BY <1>2 DEF SelectDie
<1>3. ASSUME NEW d \in Dies, ChipCompletes(d)
      PROVE  sel' = sel /\ cur' = cur
  BY <1>3, ChipKeepsCfg DEF ChipCompletes, driver
<1>4. CASE UNCHANGED vars \/ (\E c \in Calls : Invoke(c)) \/ EccUnchanged
            \/ EccChange \/ WaitReady \/ WaitFails \/ ReadFromCache
            \/ CheckEcc \/ Return \/ WriteEnableOp \/ WriteToCache
            \/ StartArrayOp
  BY <1>4 DEF vars, Invoke, EccUnchanged, EccChange, WaitReady, WaitFails,
     ReadFromCache, CheckEcc, Return, WriteEnableOp, WriteToCache,
     StartArrayOp, Exec, Received, chip, driver
<1> QED
  BY <1>1, <1>2, <1>3, <1>4 DEF Next, DriverStep

(* Every bit but ECC that spinand_upd_cfg caches or writes is the one      *)
(* spinand_init found, whatever command failed before and however slow the *)
(* chip is; with a selection that was delivered but reported as failed a   *)
(* die may get those of the die it is taken for, and nothing else changes. *)
THEOREM QuadKept == Spec => BitsKept
<1> DEFINE A == \A d \in Dies :
                  /\ cache'[d] \ {"ecc"} = cache[d] \ {"ecc"}
                  /\ \/ die'[d].cfg \ {"ecc"} = die[d].cfg \ {"ecc"}
                     \/ /\ "lost" \in Faults /\ d = sel
                        /\ die'[d].cfg \ {"ecc"} = cache[cur] \ {"ecc"}
           I == "lost" \notin Faults => RestAgrees
<1>1. Init => I
  BY DEF Init, RestAgrees
<1>2. TypeOK /\ I /\ [Next]_vars => I' /\ [A]_vars
  <2> SUFFICES ASSUME TypeOK, I, [Next]_vars
               PROVE  I' /\ A
    OBVIOUS
  <2>1. CASE "lost" \in Faults
    BY <2>1, StepKeepsBits
  <2>2. CASE "lost" \notin Faults
    <3>1. sel = cur /\ sel' = cur'
      BY <2>2, StepKeepsSelection DEF RestAgrees
    <3>2. ASSUME NEW d \in Dies
          PROVE  /\ cache'[d] \ {"ecc"} = cache[d] \ {"ecc"}
                 /\ die'[d].cfg \ {"ecc"} = die[d].cfg \ {"ecc"}
                 /\ cache[d] \ {"ecc"} = die[d].cfg \ {"ecc"}
      BY <2>2, <3>1, StepKeepsBits DEF RestAgrees
    <3> QED
      BY <2>2, <3>1, <3>2 DEF RestAgrees
  <2> QED
    BY <2>1, <2>2
<1> HIDE DEF I
<1> QED
  BY <1>1, <1>2, TypeCorrect, PTL DEF Spec, BitsKept
-----------------------------------------------------------------------------
(* What each label knows of the call's effect on the array: what it takes  *)
(* for the answer to be true.                                              *)
ThePage == array[call.die][call.block][call.page]

FailBit(op) == IF op = "write" THEN "program" ELSE "erase"

EffectKnown ==
    /\ pc \in {"select", "ecc", "wren", "fill", "exec"} \/ call.op = "read" =>
          effect = "none"
    /\ pc = "wait" /\ call.op # "read" =>
          IF Busy(cur)
          THEN effect = "none" /\ FailBit(call.op) \notin die[cur].failed
          ELSE effect = IF FailBit(call.op) \in die[cur].failed
                        THEN "failed" ELSE "done"
    /\ pc = "return" /\ ret = "ok" =>
          call.die \in Dies /\ (call.op # "read" => effect = "done")

Programming ==
    /\ pc = "exec" /\ call.op = "erase" => die[cur].wel
    /\ pc = "wait" /\ call.op = "write" /\ Busy(cur) =>
          \A q \in Parts : InCache(q) = Written(call)[q]

Reading ==
    /\ pc \in {"fetch", "check"} => call.op = "read"
    /\ (pc = "wait" /\ call.op = "read" /\ ~ Busy(cur)) \/ pc = "fetch" =>
          \A q \in Parts : InCache(q) = ThePage[q]
    /\ pc = "fetch" =>
          \A q \in call.parts : StartOf(q) < column => buf[q] = ThePage[q]
    /\ pc = "check" \/ (pc = "return" /\ ret = "ok" /\ call.op = "read") =>
          \A q \in call.parts : buf[q] = ThePage[q]

RInv == EffectKnown /\ Programming /\ Reading

LEMMA InitRInv == Init => RInv
<1> SUFFICES ASSUME Init PROVE RInv
  OBVIOUS
<1>1. pc = "idle" /\ call = NoCall /\ effect = "none"
  BY DEF Init
<1> QED
  BY <1>1 DEF RInv, EffectKnown, Programming, Reading

LEMMA InvokeRInv ==
    ASSUME RInv, NEW c \in Calls, Invoke(c)
    PROVE  RInv'
<1>1. pc' = "select" /\ effect' = "none"
  BY DEF Invoke
<1> QED
  BY <1>1 DEF RInv, EffectKnown, Programming, Reading

(* The steps before the array operation. *)
LEMMA BeforeRInv ==
    ASSUME RInv, UNCHANGED << call, effect >>,
           pc \in {"select", "ecc", "wren", "fill", "exec"},
           \/ pc' = "return" /\ ret' = "error"
           \/ pc' \in {"ecc", "wren", "fill"}
           \/ pc' = "exec" /\ (call.op = "erase" => die'[cur'].wel)
    PROVE  RInv'
BY DEF RInv, EffectKnown, Programming, Reading

LEMMA SelectRInv ==
    ASSUME RInv, SelectTarget \/ SelectDie
    PROVE  RInv'
<1>1. AfterSelect \in {"wren", "ecc"}
  BY DEF AfterSelect
<1> QED
  BY <1>1, BeforeRInv DEF SelectTarget, SelectDie, Proceed

LEMMA EccRInv ==
    ASSUME IInv, RInv, EccUnchanged \/ EccChange
    PROVE  RInv'
<1>1. AfterEcc \in {"exec", "wren"} /\ call.op # "erase" /\ pc = "ecc"
  BY DEF AfterEcc, IInv, EccAsAsked, EccUnchanged, EccChange
<1> QED
  BY <1>1, BeforeRInv DEF EccUnchanged, EccChange, Proceed

LEMMA WriteEnableRInv ==
    ASSUME TypeOK, Reliable, IInv, RInv, WriteEnableOp
    PROVE  RInv'
<1>1. \A d \in Dies : ~ Busy(d)
  BY DEF IInv, JobsOfCall, WriteEnableOp
<1>2. sel = cur /\ cur \in Dies /\ die[cur] \in Die /\ die \in [ Dies -> Die ]
  BY DEF IInv, Coherent, TypeOK, ChipTypeOK
<1>3. PICK ok \in BOOLEAN :
          /\ Exec(WriteEnable(die[sel]), ok)
          /\ Proceed(ok, IF call.op = "write" THEN "fill" ELSE "exec")
  BY DEF WriteEnableOp
<1>4. ok => die'[cur].wel
  <2>1. ok => die' = [ die EXCEPT ![cur] = WriteEnable(die[cur]) ]
    BY <1>1, <1>2, <1>3, ExecReliable
  <2> QED
    BY <1>2, <2>1 DEF WriteEnable, Die
<1>5. UNCHANGED << call, effect, cur >> /\ pc = "wren"
  BY DEF WriteEnableOp
<1> QED
  BY <1>3, <1>4, <1>5, BeforeRInv DEF Proceed

LEMMA WriteToCacheRInv ==
    ASSUME IInv, RInv, WriteToCache
    PROVE  RInv'
<1>1. call.op = "write" /\ pc = "fill"
  BY DEF IInv, Filling, WriteToCache
<1> QED
  BY <1>1, BeforeRInv DEF WriteToCache, Proceed

LEMMA StartArrayOpRInv ==
    ASSUME TypeOK, Reliable, IInv, RInv, StartArrayOp
    PROVE  RInv'
<1>1. \A d \in Dies : ~ Busy(d)
  BY DEF IInv, JobsOfCall, StartArrayOp
<1>2. /\ call.die = cur /\ sel = cur /\ cur \in Dies
      /\ die[cur] \in Die /\ die \in [ Dies -> Die ]
      /\ call.op \in {"read", "write", "erase"}
  BY CallType DEF IInv, OnTarget, Underway, Coherent, StartArrayOp, TypeOK, Call,
     ChipTypeOK
<1>3. PICK ok \in BOOLEAN : Exec(ArrayOp, ok) /\ Proceed(ok, "wait")
  BY DEF StartArrayOp
<1>4. UNCHANGED << call, cur, effect >> /\ pc = "exec"
  BY DEF StartArrayOp
<1>5. CASE ok
  <2>1. die' = [ die EXCEPT ![cur] = ArrayOp ] /\ pc' = "wait"
    BY <1>1, <1>2, <1>3, <1>5, ExecReliable DEF Proceed
  <2>2. die'[cur] = ArrayOp
    BY <1>2, <2>1
  <2>3. \E kind : /\ ArrayOp = Begin(die[cur], kind, call.block, call.page)
                  /\ (call.op = "write" => kind = "program")
                  /\ (call.op = "erase" => kind = "erase")
    BY <1>2, <1>4 DEF ArrayOp, PageRead, ProgramExecute, BlockErase, IInv, Filling,
       RInv, Programming
  <2>4. /\ ArrayOp.job # NoJob /\ ArrayOp.reg = die[cur].reg
        /\ (call.op # "read" => FailBit(call.op) \notin ArrayOp.failed)
    <3>1. PICK kind : /\ ArrayOp = Begin(die[cur], kind, call.block, call.page)
                      /\ (call.op = "write" => kind = "program")
                      /\ (call.op = "erase" => kind = "erase")
      BY <2>3
    <3>2. /\ ArrayOp.job = [ kind |-> kind, block |-> call.block, page |-> call.page,
                             ecc |-> "ecc" \in die[cur].cfg ]
          /\ ArrayOp.reg = die[cur].reg /\ ArrayOp.failed = die[cur].failed \ {kind}
      BY <1>2, <3>1 DEF Begin, Die
    <3>3. ArrayOp.job # NoJob
      BY <3>2 DEF NoJob
    <3>4. call.op # "read" => FailBit(call.op) = kind
      BY <1>2, <3>1 DEF FailBit
    <3> QED
      BY <3>2, <3>3, <3>4
  <2>5. EffectKnown'
    BY <1>4, <2>1, <2>2, <2>4 DEF RInv, EffectKnown, Busy
  <2>6. call.op = "write" => \A q \in Parts : InCache(q)' = Written(call)'[q]
    BY <1>4, <2>2, <2>4 DEF IInv, Filling, InCache, Written
  <2>7. Programming'
    BY <1>4, <2>1, <2>6 DEF Programming
  <2>8. Reading'
    BY <1>4, <2>1, <2>2, <2>4 DEF Reading, Busy
  <2> QED
    BY <2>5, <2>7, <2>8 DEF RInv
<1>6. CASE ~ ok
  BY <1>3, <1>4, <1>6, BeforeRInv DEF Proceed
<1> QED
  BY <1>5, <1>6

LEMMA WaitRInv ==
    ASSUME TypeOK, Reliable, IInv, RInv, WaitReady \/ WaitFails
    PROVE  RInv'
<1>1. WaitReady
  BY DEF WaitFails, Reliable
<1>2. /\ call.die = cur /\ sel = cur /\ cur \in Dies /\ ~ Busy(cur) /\ pc = "wait"
      /\ call.op \in {"read", "write", "erase"} /\ call.parts \in SUBSET Parts
      /\ UNCHANGED << sel, die, array, call, cur, effect, buf >>
  BY <1>1, CallType DEF IInv, OnTarget, Underway, Coherent, WaitReady, TypeOK, Call, chip
<1>3. CASE call.op = "read"
  <2>1. pc' = "fetch" /\ column' = FirstColumn
    BY <1>1, <1>3 DEF WaitReady
  <2>2. \A q \in call.parts : ~ (StartOf(q) < FirstColumn)
    <3> SUFFICES ASSUME NEW q \in call.parts, StartOf(q) < FirstColumn PROVE FALSE
      OBVIOUS
    <3>1. q = "main"
      BY <1>2 DEF StartOf, FirstColumn, Parts
    <3> QED
      BY <3>1 DEF StartOf, FirstColumn
  <2>3. \A q \in Parts : InCache(q)' = ThePage'[q]
    BY <1>2, <1>3 DEF RInv, Reading, InCache, ThePage
  <2> QED
    BY <1>2, <1>3, <2>1, <2>2, <2>3 DEF RInv, EffectKnown, Programming, Reading
<1>4. CASE call.op # "read"
  <2>1. /\ pc' = "return"
        /\ ret' = IF FailBit(call.op) \in die[sel].failed THEN "error" ELSE "ok"
    BY <1>1, <1>2, <1>4 DEF WaitReady, FailBit
  <2>2. ret' = "ok" => effect = "done"
    BY <1>2, <1>4, <2>1 DEF RInv, EffectKnown
  <2> QED
    BY <1>2, <1>4, <2>1, <2>2 DEF RInv, EffectKnown, Programming, Reading
<1> QED
  BY <1>3, <1>4

LEMMA ReadFromCacheRInv ==
    ASSUME TypeOK, IInv, RInv, ReadFromCache
    PROVE  RInv'
<1>1. /\ call.die = cur /\ sel = cur /\ pc = "fetch" /\ call.op = "read"
      /\ call.parts \in SUBSET Parts /\ column \in 0 .. 2
      /\ UNCHANGED << sel, die, array, call, cur, effect >>
  BY CallType DEF IInv, OnTarget, Underway, Coherent, ReadFromCache, TypeOK, Call, chip,
     RInv, Reading
<1>2. PICK n \in 1 .. EndColumn - column, ok \in BOOLEAN :
          /\ buf' = [ q \in Parts |->
                        IF ok /\ q \in Span(n)
                        THEN die[sel].reg[PlaneOf(call.block)][q] ELSE buf[q] ]
          /\ column' = IF ok THEN column + n ELSE column
          /\ Proceed(ok, IF column + n = EndColumn THEN "check" ELSE "fetch")
  BY DEF ReadFromCache
<1>3. UNCHANGED << ThePage, Written(call) >> /\ \A q : InCache(q)' = InCache(q)
  BY <1>1 DEF ThePage, InCache, Written
<1>4. CASE ok
  <2>1. \A q \in call.parts : StartOf(q) < column + n => buf'[q] = ThePage[q]
    <3> SUFFICES ASSUME NEW q \in call.parts, StartOf(q) < column + n
                 PROVE  buf'[q] = ThePage[q]
      OBVIOUS
    <3>1. StartOf(q) \in 0 .. 1 /\ q \in Parts
      BY <1>1 DEF StartOf
    <3>2. n \in Nat
      BY <1>1, <1>2 DEF EndColumn
    <3>3. CASE StartOf(q) < column
      <4>1. q \notin Span(n)
        BY <1>1, <3>1, <3>3 DEF Span
      <4> QED
        BY <1>1, <1>2, <3>1, <3>3, <4>1 DEF RInv, Reading
    <3>4. CASE ~ (StartOf(q) < column)
      <4>1. q \in Span(n)
        BY <1>1, <3>1, <3>2, <3>4 DEF Span
      <4>2. die[sel].reg[PlaneOf(call.block)][q] = ThePage[q]
        BY <1>1, <3>1 DEF RInv, Reading, InCache
      <4> QED
        BY <1>2, <1>4, <3>1, <4>1, <4>2
    <3> QED
      BY <3>3, <3>4
  <2>2. CASE column + n = EndColumn
    <3>1. \A q \in call.parts : StartOf(q) < column + n
      BY <1>1, <2>2 DEF StartOf, EndColumn, Parts
    <3>2. pc' = "check"
      BY <1>2, <1>4, <2>2 DEF Proceed
    <3> QED
      BY <1>1, <1>3, <2>1, <3>1, <3>2 DEF RInv, EffectKnown, Programming, Reading
  <2>3. CASE column + n # EndColumn
    <3>1. pc' = "fetch" /\ column' = column + n
      BY <1>2, <1>4, <2>3 DEF Proceed
    <3> QED
      BY <1>1, <1>3, <2>1, <3>1 DEF RInv, EffectKnown, Programming, Reading
  <2> QED
    BY <2>2, <2>3
<1>5. CASE ~ ok
  <2>1. pc' = "return" /\ ret' = "error"
    BY <1>2, <1>5 DEF Proceed
  <2> QED
    BY <1>1, <2>1 DEF RInv, EffectKnown, Programming, Reading
<1> QED
  BY <1>4, <1>5

LEMMA CheckEccRInv ==
    ASSUME TypeOK, IInv, RInv, CheckEcc
    PROVE  RInv'
<1>1. /\ call.die = cur /\ cur \in Dies /\ pc = "check" /\ pc' = "return"
      /\ UNCHANGED << die, array, call, cur, effect, buf >>
  BY DEF IInv, OnTarget, Underway, CheckEcc, TypeOK, chip
<1>2. call.op = "read" /\ \A q \in call.parts : buf[q] = ThePage[q]
  BY <1>1 DEF RInv, Reading
<1>3. ThePage' = ThePage
  BY <1>1 DEF ThePage
<1> QED
  BY <1>1, <1>2, <1>3 DEF RInv, EffectKnown, Programming, Reading

LEMMA ReturnRInv ==
    ASSUME RInv, Return
    PROVE  RInv'
<1>1. pc' = "idle" /\ call' = NoCall
  BY DEF Return
<1>2. call'.op # "read"
  BY <1>1 DEF NoCall
<1> QED
  BY <1>1, <1>2 DEF RInv, EffectKnown, Programming, Reading
-----------------------------------------------------------------------------
(* The die that completes is the one the call waits for, with its job. *)
LEMMA JobFacts ==
    ASSUME TypeOK, IInv, NEW d \in Dies, ChipCompletes(d)
    PROVE  /\ pc = "wait" /\ d = cur /\ call.die = d /\ sel = cur /\ Busy(cur)
           /\ die \in [ Dies -> Die ] /\ die[d] \in Die
           /\ array \in [ Dies -> [ Blocks -> [ PageIds -> Cell ] ] ]
           /\ call.op \in {"read", "write", "erase"} /\ call \in Call
           /\ call.block \in Blocks /\ call.page \in PageIds
           /\ PlaneOf(call.block) \in Plane
           /\ die[d].job.kind = KindOf(call.op)
           /\ die[d].job.block = call.block /\ die[d].job.page = call.page
           /\ UNCHANGED << pc, call, cur, column, buf, ret, answer >>
<1>1. Busy(d) /\ UNCHANGED << pc, call, cur, column, buf, ret, answer >>
  BY DEF ChipCompletes, driver
<1>2. pc = "wait" /\ d = call.die /\ die[d].job.kind = KindOf(call.op)
      /\ die[d].job.block = call.block /\ die[d].job.page = call.page
  BY <1>1 DEF IInv, JobsOfCall
<1>3. call.die = cur /\ sel = cur
  BY <1>2 DEF IInv, OnTarget, Underway, Coherent
<1>4. call \in Call
  BY <1>2, CallType
<1> QED
  BY <1>1, <1>2, <1>3, <1>4, PlaneOfType DEF TypeOK, ChipTypeOK, Call

LEMMA LoadCompletes ==
    ASSUME TypeOK, IInv, RInv, NEW d \in Dies, ChipCompletes(d), call.op = "read"
    PROVE  RInv' /\ UNCHANGED << array, call, effect, answer >>
<1>1. /\ pc = "wait" /\ d = cur /\ call.die = d
      /\ die \in [ Dies -> Die ] /\ die[d] \in Die
      /\ array \in [ Dies -> [ Blocks -> [ PageIds -> Cell ] ] ]
      /\ call.block \in Blocks /\ call.page \in PageIds /\ PlaneOf(call.block) \in Plane
      /\ die[d].job.kind = "load"
      /\ die[d].job.block = call.block /\ die[d].job.page = call.page
      /\ UNCHANGED << pc, call, cur, column, buf, ret, answer >>
  BY JobFacts DEF KindOf
<1>2. CompleteLoad(d) /\ effect' = effect
  BY <1>1 DEF ChipCompletes, CompleteProgram, CompleteErase
<1>3. PICK u \in BOOLEAN :
        die' = [ die EXCEPT ![d].reg[PlaneOf(die[d].job.block)] =
                                array[d][die[d].job.block][die[d].job.page],
                            ![d].uncor = u, ![d].job = NoJob ]
  BY <1>2 DEF CompleteLoad
<1>a. array[d][die[d].job.block][die[d].job.page] = ThePage
  BY <1>1 DEF ThePage
<1>4. die'[d].reg[PlaneOf(call.block)] = ThePage /\ array' = array
  BY <1>1, <1>2, <1>3, <1>a DEF Die, CompleteLoad
<1>5. ThePage' = ThePage /\ \A q : InCache(q)' = ThePage[q]
  BY <1>1, <1>4 DEF ThePage, InCache
<1>6. effect = "none"
  BY DEF RInv, EffectKnown
<1>7. RInv'
  BY <1>1, <1>2, <1>5, <1>6 DEF RInv, EffectKnown, Programming, Reading
<1> QED
  BY <1>1, <1>2, <1>4, <1>7

(* When a program or an erase completes, the die says how it went. *)
LEMMA ChangeCompletes ==
    ASSUME TypeOK, IInv, RInv, NEW d \in Dies, ChipCompletes(d), call.op # "read"
    PROVE  /\ RInv'
           /\ effect = "none" /\ UNCHANGED << call, answer >>
           /\ \E ok \in BOOLEAN :
                 /\ IF call.op = "write" THEN CompleteProgram(d, ok)
                                         ELSE CompleteErase(d, ok)
                 /\ effect' = IF ok THEN "done" ELSE "failed"
<1>1. /\ pc = "wait" /\ d = cur /\ Busy(cur)
      /\ die \in [ Dies -> Die ] /\ die[d] \in Die
      /\ call.op \in {"write", "erase"}
      /\ die[d].job.kind = IF call.op = "write" THEN "program" ELSE "erase"
      /\ UNCHANGED << pc, call, cur, column, buf, ret, answer >>
  BY JobFacts DEF KindOf
<1>2. PICK ok \in BOOLEAN :
        /\ IF call.op = "write" THEN CompleteProgram(d, ok) ELSE CompleteErase(d, ok)
        /\ effect' = IF ok THEN "done" ELSE "failed"
  BY <1>1 DEF ChipCompletes, CompleteLoad, CompleteProgram, CompleteErase
<1>3. effect = "none" /\ FailBit(call.op) \notin die[cur].failed
  BY <1>1 DEF RInv, EffectKnown
<1>4. /\ die'[d].job = NoJob
      /\ die'[d].failed = IF ok THEN die[d].failed ELSE die[d].failed \cup {FailBit(call.op)}
  <2>1. CASE call.op = "write"
    BY <1>1, <1>2, <2>1 DEF CompleteProgram, FailBit, Die
  <2>2. CASE call.op = "erase"
    BY <1>1, <1>2, <2>2 DEF CompleteErase, FailBit, Die
  <2> QED
    BY <1>1, <2>1, <2>2
<1>5. EffectKnown'
  BY <1>1, <1>2, <1>3, <1>4 DEF EffectKnown, Busy
<1>6. Programming' /\ Reading'
  BY <1>1, <1>4 DEF Programming, Reading, Busy
<1> QED
  BY <1>1, <1>2, <1>3, <1>5, <1>6 DEF RInv

LEMMA NextRInv ==
    ASSUME TypeOK, Reliable, IInv, RInv, [Next]_vars
    PROVE  RInv'
<1>1. CASE UNCHANGED vars
  BY <1>1 DEF vars, RInv, EffectKnown, Programming, Reading, Busy, InCache, Written,
     ThePage
<1> QED
  BY <1>1, InvokeRInv, SelectRInv, EccRInv, WriteEnableRInv, WriteToCacheRInv,
     StartArrayOpRInv, WaitRInv, ReadFromCacheRInv, CheckEccRInv, ReturnRInv,
     LoadCompletes, ChangeCompletes DEF Next, DriverStep
-----------------------------------------------------------------------------
(* The array after a program or an erase is the abstract device's. *)
LEMMA ProgramTakesEffect ==
    ASSUME TypeOK, IInv, RInv, NEW d \in Dies, ChipCompletes(d), call.op = "write",
           NEW ok \in BOOLEAN, CompleteProgram(d, ok)
    PROVE  IF ok THEN array' = EffectOf(array, call) ELSE array' \in DamageOf(array, call)
<1>1. /\ pc = "wait" /\ d = cur /\ call.die = d /\ Busy(cur)
      /\ die[d] \in Die
      /\ array \in [ Dies -> [ Blocks -> [ PageIds -> Cell ] ] ]
      /\ call.block \in Blocks /\ call.page \in PageIds /\ PlaneOf(call.block) \in Plane
      /\ die[d].job.block = call.block /\ die[d].job.page = call.page
  BY JobFacts
<1> DEFINE old == array[d][call.block][call.page]
           reg == die[d].reg[PlaneOf(call.block)]
           w == Written(call)
           Put(c) == [ array EXCEPT ![d][call.block][call.page] = c ]
<1>2. old \in Cell /\ reg \in Cell
  BY <1>1 DEF Die
<1>3. reg = w
  <2>1. \A q \in Parts : reg[q] = w[q]
    BY <1>1 DEF RInv, Programming, InCache
  <2>2. w = [ q \in Parts |-> w[q] ]
    BY DEF Written
  <2>3. reg = [ q \in Parts |-> reg[q] ]
    BY <1>2 DEF Cell
  <2> QED
    BY <2>1, <2>2, <2>3
<1>4. \E c \in IF ok THEN {Merge(old, reg)}
               ELSE Halfway(old, Merge(old, reg), Filled(Garbage)) : array' = Put(c)
  BY <1>1 DEF CompleteProgram
<1>5. EffectOf(array, call) = Put(Merge(old, w))
  BY <1>1 DEF EffectOf
<1>6. Put(Filled(Garbage)) \in DamageOf(array, call)
  BY <1>1 DEF DamageOf
<1>7. Put(old) = array
  BY <1>1
<1>8. array \in DamageOf(array, call) /\ EffectOf(array, call) \in DamageOf(array, call)
  BY DEF DamageOf
<1> HIDE DEF old, reg, w, Put
<1> QED
  BY <1>3, <1>4, <1>5, <1>6, <1>7, <1>8 DEF Halfway

LEMMA EraseTakesEffect ==
    ASSUME TypeOK, IInv, RInv, NEW d \in Dies, ChipCompletes(d), call.op = "erase",
           NEW ok \in BOOLEAN, CompleteErase(d, ok)
    PROVE  IF ok THEN array' = EffectOf(array, call) ELSE array' \in DamageOf(array, call)
<1>1. /\ d = cur /\ call.die = d
      /\ array \in [ Dies -> [ Blocks -> [ PageIds -> Cell ] ] ]
      /\ call.block \in Blocks
      /\ die[d].job.block = call.block
  BY JobFacts
<1> DEFINE old == array[d][call.block]
           Put(c) == [ array EXCEPT ![d][call.block] = c ]
<1>2. \E c \in IF ok THEN {Erased(FF)} ELSE Halfway(old, Erased(FF), Erased(Garbage)) :
         array' = Put(c)
  BY <1>1 DEF CompleteErase, Erased
<1>3. EffectOf(array, call) = Put(Erased(FF))
  BY <1>1 DEF EffectOf
<1>4. Put(Erased(Garbage)) \in DamageOf(array, call)
  BY <1>1 DEF DamageOf
<1>5. Put(old) = array
  BY <1>1
<1>6. array \in DamageOf(array, call) /\ EffectOf(array, call) \in DamageOf(array, call)
  BY DEF DamageOf
<1> HIDE DEF old, Put
<1> QED
  BY <1>2, <1>3, <1>4, <1>5, <1>6 DEF Halfway

LEMMA CompletesImplements ==
    ASSUME TypeOK, IInv, RInv, NEW d \in Dies, ChipCompletes(d)
    PROVE  [Promise!Next]_(Promise!vars)
<1>1. CASE call.op = "read"
  BY <1>1, LoadCompletes DEF Promise!vars
<1>2. CASE call.op # "read"
  <2>1. PICK ok \in BOOLEAN :
           /\ IF call.op = "write" THEN CompleteProgram(d, ok) ELSE CompleteErase(d, ok)
           /\ effect' = IF ok THEN "done" ELSE "failed"
    BY <1>2, ChangeCompletes
  <2>2. effect = "none" /\ UNCHANGED << call, answer >>
    BY <1>2, ChangeCompletes
  <2>3. call.op \in {"write", "erase"} /\ call # NoCall
    BY <1>2, JobFacts DEF TypeOK
  <2>4. IF ok THEN array' = EffectOf(array, call) ELSE array' \in DamageOf(array, call)
    BY <2>1, <2>3, ProgramTakesEffect, EraseTakesEffect
  <2>5. Promise!TakeEffect
    BY <1>2, <2>1, <2>2, <2>3, <2>4 DEF Promise!TakeEffect
  <2> QED
    BY <2>5 DEF Promise!Next
<1> QED
  BY <1>1, <1>2

LEMMA ReturnImplements ==
    ASSUME TypeOK, RInv, Return
    PROVE  [Promise!Next]_(Promise!vars)
<1>1. /\ pc = "return" /\ call # NoCall /\ call' = NoCall /\ answer' = Answer
      /\ UNCHANGED << array, effect >> /\ ret \in {"ok", "error"}
  BY DEF Return, TypeOK, chip
<1>2. CASE ret = "error"
  <2>1. answer' = [ ok |-> FALSE, data |-> << >> ]
    BY <1>1, <1>2 DEF Answer
  <2>2. Promise!Fail
    BY <1>1, <2>1 DEF Promise!Fail
  <2> QED
    BY <2>2 DEF Promise!Next
<1>3. CASE ret = "ok"
  <2>1. call.die \in Dies /\ (call.op # "read" => effect = "done")
    BY <1>1, <1>3 DEF RInv, EffectKnown
  <2>2. CASE call.op = "read"
    <3>1. answer' = [ ok |-> TRUE, data |-> [ q \in call.parts |-> buf[q] ] ]
      BY <1>1, <1>3, <2>2 DEF Answer
    <3>2. [ q \in call.parts |-> buf[q] ] = [ q \in call.parts |-> ThePage[q] ]
      BY <1>1, <1>3, <2>2 DEF RInv, Reading
    <3>3. [ q \in call.parts |-> ThePage[q] ] \in ReadOf(array, call)
      BY <2>1 DEF ReadOf, ThePage
    <3>4. Promise!Succeed
      BY <1>1, <2>2, <3>1, <3>2, <3>3 DEF Promise!Succeed
    <3> QED
      BY <3>4 DEF Promise!Next
  <2>3. CASE call.op # "read"
    <3>1. answer' = [ ok |-> TRUE, data |-> << >> ]
      BY <1>1, <1>3, <2>3 DEF Answer
    <3>2. Promise!Succeed
      BY <1>1, <2>1, <2>3, <3>1 DEF Promise!Succeed
    <3> QED
      BY <3>2 DEF Promise!Next
  <2> QED
    BY <2>2, <2>3
<1> QED
  BY <1>1, <1>2, <1>3

LEMMA NextImplements ==
    ASSUME TypeOK, Reliable, IInv, RInv, [Next]_vars
    PROVE  [Promise!Next]_(Promise!vars)
<1>1. ASSUME NEW c \in Calls, Invoke(c) PROVE [Promise!Next]_(Promise!vars)
  <2>1. Promise!Invoke
    BY <1>1 DEF Invoke, Promise!Invoke, TypeOK, chip
  <2> QED
    BY <2>1 DEF Promise!Next
<1>2. CASE Return
  BY <1>2, ReturnImplements
<1>3. ASSUME NEW d \in Dies, ChipCompletes(d) PROVE [Promise!Next]_(Promise!vars)
  BY <1>3, CompletesImplements
<1>4. CASE UNCHANGED vars \/ (DriverStep /\ ~ Return)
  BY <1>4 DEF vars, DriverStep, SelectTarget, SelectDie, EccUnchanged, EccChange,
     WriteEnableOp, WriteToCache, StartArrayOp, WaitReady, WaitFails, ReadFromCache,
     CheckEcc, chip, Promise!vars
<1> QED
  BY <1>1, <1>2, <1>3, <1>4 DEF Next

(* When a command that is reported to have failed was not executed and the *)
(* chip answers in time, the three operations of core.c implement the page *)
(* device flashops.c is written for: every call has its effect once, in    *)
(* its own place, before it returns success, and a read returns the page.  *)
THEOREM ImplementsDevice == Reliable => (Spec => ImplementsPageDevice)
<1>1. Init => Promise!Init
  <2>1. Init => ChipTypeOK
    BY InitType DEF TypeOK
  <2> QED
    BY <2>1 DEF Init, Promise!Init, ChipTypeOK
<1>2. TypeOK /\ Reliable /\ IInv /\ RInv /\ [Next]_vars => RInv'
  BY NextRInv
<1>3. TypeOK /\ Reliable /\ IInv /\ RInv /\ [Next]_vars => [Promise!Next]_(Promise!vars)
  BY NextImplements
<1>4. Reliable => Reliable'
  BY DEF Reliable
<1> QED
  BY <1>1, <1>2, <1>3, <1>4, InitRInv, TypeCorrect, Invariance, PTL
  DEF Spec, ImplementsPageDevice, Promise!Spec
=============================================================================
