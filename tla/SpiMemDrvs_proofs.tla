-------------------------- MODULE SpiMemDrvs_proofs --------------------------
(***************************************************************************)
(* What an adapter opens is closed again, for every size of its buffers    *)
(* and of a page, every sequence of calls and every pattern of faults.     *)
(***************************************************************************)
EXTENDS SpiMemDrvs, SequenceTheorems, FiniteSetTheorems, TLAPS

(* What the first n steps of opening have taken. *)
TakenBy(n) == UNION { Opened[drv][k] : k \in 1 .. n }

(* Nothing is held that no step of opening has taken; while the adapter is *)
(* being opened only the steps before this one have, and while it is being *)
(* given back only those are left that are still to come.                  *)
Owned ==
    /\ held \subseteq TakenBy(Stages)
    /\ pc = "open" => step \in 1 .. Stages /\ held \subseteq TakenBy(step - 1)
    /\ pc = "unwind" => step \in 0 .. Stages /\ held \subseteq TakenBy(step)

(* The settings are the ch347's, and made before the first call. *)
SettingsFirst == /\ pc \in Settings => drv = "ch347"
                 /\ pc \in {"open"} \cup Settings => page = 0

(* The direction of an operation is a state of two adapters' exec_op. *)
Directed == dir \in Dirs /\ op.dir \in Dirs

HInv == drv \in Drvs /\ Owned /\ SettingsFirst /\ Directed /\ Released
-----------------------------------------------------------------------------
LEMMA DriverNames == ASSUME drv \in Drvs
                     PROVE  drv \in {"serprog", "ch347", "fx2qspi"}
BY CallsAssumption DEF CallsAssumption

LEMMA StagesOf ==
    ASSUME drv \in Drvs
    PROVE  /\ drv = "serprog" => Stages = 2
           /\ drv = "ch347" => Stages = 4
           /\ drv = "fx2qspi" => Stages = 3
           /\ Stages \in 2 .. 4
BY DriverNames DEF Stages, Opened

(* A part that returns leaves the adapter idle or goes on to the next. *)
LEMMA ReturnEnds == ASSUME NEW r, Return(r) PROVE pc' \in {"idle", "part"}
BY DEF Return, Ends

LEMMA AdjustKeepsDir ==
    ASSUME NEW n, dir \in Dirs
    PROVE  Adjust(WithData(Template, n)).dir \in Dirs
<1>1. Template.dir \in Dirs
  BY DEF Template, Dirs, ReadFromCache, ProgLoad, PhaseOf
<1>2. \A o, m : WithData(o, m).dir = o.dir
  BY DEF WithData
<1> QED
  BY <1>1, <1>2 DEF Adjust, AdjustOpSize, AdjustDataSize
(* A step that leaves what is held alone and goes neither to where the     *)
(* adapter is opened and given back nor to the settings of the ch347.      *)
LEMMA Onwards ==
    ASSUME HInv, UNCHANGED << drv, held >>, Directed',
           pc' \notin {"open", "unwind", "closed"} \cup Settings
    PROVE  HInv'
BY DEF HInv, Owned, SettingsFirst, Released, TakenBy, Stages

(* One that gives up probing gives back all that was taken. *)
LEMMA GivingUp ==
    ASSUME HInv, UNCHANGED << drv, held >>, Directed', Unwinds(Stages)
    PROVE  HInv'
<1>1. Stages \in 2 .. 4
  BY StagesOf DEF HInv
<1> QED
  BY <1>1 DEF HInv, Owned, SettingsFirst, Released, TakenBy, Stages, Unwinds, Settings

LEMMA HInvInit == DrvsInit => HInv
<1> SUFFICES ASSUME DrvsInit PROVE HInv
  OBVIOUS
<1>1. Stages \in 2 .. 4
  BY StagesOf DEF DrvsInit, Init
<1>2. op.dir \in Dirs /\ dir \in Dirs
  BY DEF DrvsInit, Init, ProgLoad, Dirs
<1>3. held = {} /\ pc = "open" /\ step = 1 /\ drv \in Drvs /\ page = 0
  BY DEF DrvsInit, Init
<1> QED
  BY <1>1, <1>2, <1>3 DEF HInv, Owned, SettingsFirst, Directed, Released, Settings

LEMMA HInvOpening ==
    ASSUME HInv, Open \/ OpenFails \/ Unwind \/ RemoveAdapter
    PROVE  HInv'
<1> USE DEF HInv
<1>1. drv' = drv /\ dir' = dir /\ op' = op /\ page' = page
  BY DEF Open, OpenFails, Unwind, RemoveAdapter, call
<1>2. Directed'
  BY <1>1 DEF Directed
<1>3. Stages' = Stages /\ Stages \in 2 .. 4
  BY <1>1, StagesOf DEF Stages
<1>4. \A n : TakenBy(n)' = UNION { Opened[drv][k] : k \in 1 .. n }
  BY <1>1 DEF TakenBy
<1>5. CASE Open
  <2>1. step \in 1 .. Stages /\ held \subseteq TakenBy(step - 1)
    BY <1>5 DEF Open, Owned
  <2>2. held' \subseteq TakenBy(step)
    BY <1>5, <2>1, <1>3 DEF Open, TakenBy
  <2>3. TakenBy(step) \subseteq TakenBy(Stages)
    BY <2>1, <1>3 DEF TakenBy
  <2>4. CASE step < Stages
    <3>1. pc' = "open" /\ step' = step + 1 /\ step' - 1 = step /\ step' \in 1 .. Stages
      BY <1>5, <2>4, <2>1, <1>3 DEF Open
    <3>2. page' = 0
      BY <1>5, <1>1 DEF Open, SettingsFirst
    <3> QED
      BY <3>1, <3>2, <1>1, <1>2, <1>3, <1>4, <2>2, <2>3
         DEF Owned, SettingsFirst, Released, Settings, TakenBy
  <2>5. CASE ~ (step < Stages)
    <3>1. pc' = Probing[drv]
      BY <1>5, <2>5 DEF Open
    <3>2. pc' \in {"sync", "reset"} \/ (pc' = "info" /\ drv = "ch347")
      BY <3>1, DriverNames DEF Probing
    <3>3. page' = 0
      BY <1>5, <1>1 DEF Open, SettingsFirst
    <3> QED
      BY <3>2, <3>3, <1>1, <1>2, <1>3, <1>4, <2>2, <2>3
         DEF Owned, SettingsFirst, Released, Settings, TakenBy
  <2> QED
    BY <2>4, <2>5
<1>6. CASE OpenFails
  <2>1. step \in 1 .. Stages /\ held \subseteq TakenBy(step - 1) /\ held' = held
    BY <1>6 DEF OpenFails, Owned
  <2>2. pc' = "unwind" /\ step' = step - 1 /\ step' \in 0 .. Stages
    BY <1>6, <2>1, <1>3 DEF OpenFails, Unwinds
  <2> QED
    BY <2>1, <2>2, <1>1, <1>2, <1>3, <1>4
       DEF Owned, SettingsFirst, Released, Settings, TakenBy
<1>7. CASE Unwind
  <2>1. step \in 0 .. Stages /\ held \subseteq TakenBy(step)
    BY <1>7 DEF Unwind, Owned
  <2>2. CASE step = 0
    <3>1. held = {} /\ held' = {} /\ pc' = "closed"
      BY <1>7, <2>1, <2>2 DEF Unwind, TakenBy
    <3> QED
      BY <3>1, <1>1, <1>2 DEF Owned, SettingsFirst, Released, Settings
  <2>3. CASE step # 0
    <3>1. step' = step - 1 /\ held' = held \ Opened[drv][step] /\ pc' = "unwind"
      BY <1>7, <2>3 DEF Unwind
    <3>2. step' \in 0 .. Stages
      BY <3>1, <2>1, <2>3, <1>3
    <3>3. TakenBy(step) \ Opened[drv][step] \subseteq TakenBy(step - 1)
      BY <2>1, <2>3, <1>3 DEF TakenBy
    <3>4. held' \subseteq TakenBy(step - 1) /\ held' \subseteq TakenBy(Stages)
      BY <3>1, <3>3, <2>1 DEF Owned
    <3> QED
      BY <3>1, <3>2, <3>4, <1>1, <1>2, <1>3, <1>4
         DEF Owned, SettingsFirst, Released, Settings, TakenBy
  <2> QED
    BY <2>2, <2>3
<1>8. CASE RemoveAdapter
  <2>1. held' = {} /\ pc' = "closed"
    BY <1>8 DEF RemoveAdapter
  <2> QED
    BY <2>1, <1>1, <1>2 DEF Owned, SettingsFirst, Released, Settings
<1> QED
  BY <1>5, <1>6, <1>7, <1>8
LEMMA HInvCalls == ASSUME HInv, Call \/ Part \/ PartsEnd PROVE HInv'
<1>1. drv' = drv /\ held' = held
  BY DEF Call, Part, PartsEnd
<1>2. Directed'
  <2>1. CASE Call
    BY <2>1 DEF Call, HInv, Directed, Dirs
  <2>2. CASE Part
    BY <2>2, AdjustKeepsDir DEF Part, HInv, Directed
  <2>3. CASE PartsEnd
    BY <2>3 DEF PartsEnd, HInv, Directed, call
  <2> QED
    BY <2>1, <2>2, <2>3
<1>3. pc' \in {"idle", "part", "send"}
  BY ReturnEnds DEF Call, Part, PartsEnd, Ends
<1> QED
  BY <1>1, <1>2, <1>3, Onwards DEF Settings

LEMMA HInvSerprog == ASSUME HInv, SerProgram PROVE HInv'
<1>1. UNCHANGED << drv, held, dir, op >>
  BY DEF SerProgram, SyncWrite, SyncRead, ExecWrite, ExecAck, ExecReply, Send, OpAck,
         OpRead, call
<1>2. Directed'
  BY <1>1 DEF HInv, Directed
<1>3. Unwinds(Stages) \/ pc' \in {"sync", "map", "freq", "idle", "part", "send", "ack", "data"}
  <2>1. CASE SyncWrite
    BY <2>1 DEF SyncWrite
  <2>2. CASE SyncRead
    BY <2>2 DEF SyncRead
  <2>3. ASSUME NEW cmd \in {"map", "freq"}, ExecWrite(cmd) \/ ExecAck(cmd) \/ ExecReply(cmd)
        PROVE  Unwinds(Stages) \/ pc' \in {"idle", "map", "freq"}
    BY <2>3 DEF ExecWrite, ExecAck, ExecReply, After
  <2>4. CASE Send
    BY <2>4, ReturnEnds DEF Send
  <2>5. CASE OpAck
    BY <2>5, ReturnEnds DEF OpAck
  <2>6. CASE OpRead
    BY <2>6, ReturnEnds DEF OpRead
  <2> QED
    BY <2>1, <2>2, <2>3, <2>4, <2>5, <2>6 DEF SerProgram
<1> QED
  BY <1>1, <1>2, <1>3, Onwards, GivingUp DEF Settings

LEMMA HInvFx2 == ASSUME HInv, FxProgram PROVE HInv'
<1>1. UNCHANGED << drv, held, dir, op >>
  BY DEF FxProgram, ResetOut, ResetIn, Phases, PacketsOut, PacketsIn, End, call
<1>2. Directed'
  BY <1>1 DEF HInv, Directed
<1>3. Unwinds(Stages) \/ pc' \in {"reset", "idle", "part", "none", "in", "out", "end"}
  <2>1. CASE ResetOut \/ ResetIn
    BY <2>1 DEF ResetOut, ResetIn
  <2>2. CASE Phases
    <3>1. DataPhase(op) \in {"none", "in", "out", "end"}
      BY DEF DataPhase, HInv, Directed, Dirs
    <3> QED
      BY <3>1, <2>2, ReturnEnds DEF Phases
  <2>3. CASE PacketsOut
    BY <2>3, ReturnEnds DEF PacketsOut
  <2>4. CASE PacketsIn
    BY <2>4, ReturnEnds DEF PacketsIn
  <2>5. CASE End
    BY <2>5, ReturnEnds DEF End
  <2> QED
    BY <2>1, <2>2, <2>3, <2>4, <2>5 DEF FxProgram
<1> QED
  BY <1>1, <1>2, <1>3, Onwards, GivingUp DEF Settings

(* A setting that is not taken closes nothing but after the first.         *)
LEMMA HInvSetting == ASSUME HInv, Setting PROVE HInv'
<1>1. UNCHANGED << drv, held, dir, op, page >>
  BY DEF Setting, call
<1>2. drv = "ch347" /\ page = 0 /\ pc \in Settings
  BY DEF Setting, HInv, SettingsFirst
<1>3. Directed'
  BY <1>1 DEF HInv, Directed
<1>4. CASE Unwinds(Stages)
  BY <1>1, <1>3, <1>4, GivingUp
<1>5. CASE pc' = "closed" /\ step' = 1
  BY <1>1, <1>2, <1>3, <1>5
     DEF HInv, Owned, SettingsFirst, Released, Settings, TakenBy, Stages
<1>6. CASE pc' \in {"info", "setup", "rate", "idle"}
  BY <1>1, <1>2, <1>3, <1>6
     DEF HInv, Owned, SettingsFirst, Released, Settings, TakenBy, Stages
<1>7. NextSetting[pc] \in {"setup", "rate", "idle"}
  BY <1>2 DEF Settings, NextSetting
<1>8. \/ Unwinds(Stages)
      \/ pc' = "closed" /\ step' = 1
      \/ pc' \in {"info", "setup", "rate", "idle"}
  BY <1>2, <1>7 DEF Setting, GivesUp, Settings
<1> QED
  BY <1>4, <1>5, <1>6, <1>8

LEMMA HInvCh347 == ASSUME HInv, ChProgram PROVE HInv'
<1>1. CASE Setting
  BY <1>1, HInvSetting
<1>2. CASE ~ Setting
  <2>1. UNCHANGED << drv, held, dir, op >>
    BY <1>2 DEF ChProgram, Select, ExchangeOut, ExchangeIn, HeadOut, BodyOut, BodyIn,
                Deselect, call
  <2>2. Directed'
    BY <2>1 DEF HInv, Directed
  <2>3. pc' \in {"exchange", "head", "idle", "part", "none", "in", "out", "sent", "broken"}
    <3>1. op.dir \in {"none", "in", "out"}
      BY DEF HInv, Directed, Dirs
    <3>2. CASE Select
      BY <3>2 DEF Select
    <3>3. CASE ExchangeOut
      BY <3>3, ReturnEnds DEF ExchangeOut
    <3>4. CASE ExchangeIn
      BY <3>4, ReturnEnds DEF ExchangeIn
    <3>5. CASE HeadOut
      BY <3>1, <3>5, ReturnEnds DEF HeadOut
    <3>6. CASE BodyOut
      BY <3>6, ReturnEnds DEF BodyOut, Deselecting
    <3>7. CASE BodyIn
      BY <3>7, ReturnEnds DEF BodyIn, Deselecting
    <3>8. CASE Deselect
      BY <3>8, ReturnEnds DEF Deselect
    <3> QED
      BY <1>2, <3>2, <3>3, <3>4, <3>5, <3>6, <3>7, <3>8 DEF ChProgram
  <2> QED
    BY <2>1, <2>2, <2>3, Onwards DEF Settings
<1> QED
  BY <1>1, <1>2

LEMMA HInvStep == ASSUME HInv, [Next]_vars PROVE HInv'
<1>1. CASE Common
  BY <1>1, HInvOpening, HInvCalls DEF Common
<1>2. CASE SerProgram
  BY <1>2, HInvSerprog
<1>3. CASE ChProgram
  BY <1>3, HInvCh347
<1>4. CASE FxProgram
  BY <1>4, HInvFx2
<1>5. CASE Device
  <2>1. UNCHANGED << drv, held, pc, step, dir, op, page >>
    BY <1>5 DEF Device, Programmer, Bridge, Firmware, call
  <2> QED
    BY <2>1 DEF HInv, Owned, SettingsFirst, Directed, Released, TakenBy, Stages
<1>6. CASE UNCHANGED vars
  BY <1>6 DEF vars, HInv, Owned, SettingsFirst, Directed, Released, TakenBy, Stages
<1> QED
  BY <1>1, <1>2, <1>3, <1>4, <1>5, <1>6 DEF Next, Program

(* Whatever fails, and wherever the program stops, what the adapter took   *)
(* has been given back, but for what ch347_probe leaves open when the      *)
(* settings of the bridge are not taken: ch347_open, fx2qspi_probe and     *)
(* serial_init with their labels, and the removal at the end of main.      *)
THEOREM Closes == Spec => []Released
<1>1. DrvsInit => HInv
  BY HInvInit
<1>2. HInv /\ [Next]_vars => HInv'
  BY HInvStep
<1>3. HInv => Released
  BY DEF HInv
<1> QED
  BY <1>1, <1>2, <1>3, PTL DEF Spec
-----------------------------------------------------------------------------
(* What crosses the line, and what the chip has been sent. *)
Value == (0 .. MaxCalls) \X Columns

Piece == [ t : {"sync", "map", "freq", "param", "dummy", "zero", "garbage",
                "opcode of another run"} ]
    \cup [ t : {"opcode"}, v : Dirs, wires : Nat, page : 0 .. MaxCalls ]
    \cup [ t : {"addr"}, v : Nat ]
    \cup [ t : {"byte"}, v : Value ]
    \cup [ t : {"hdr"}, wr : Nat, rd : Nat ]
    \cup [ t : {"phase"}, wires : Nat, len : Nat, reads : BOOLEAN ]

Cmds == {"info", "init", "trx", "write", "read"}

ToBridge == [ t : {"cut"} ]
    \cup [ t : {"cs"}, val : {"low", "high"}, auto : BOOLEAN ]
    \cup [ t : {"packet"}, cmd : Cmds, items : Seq(Piece), rd : Nat ]

Back == [ t : {"ack", "nak", "map", "freq", "rest"} ]
   \cup [ t : {"byte"}, v : Value ]
   \cup [ t : {"reply"}, cmd : Cmds, n : Nat, data : Seq(Value) ]

Item     == IF drv = "ch347" THEN ToBridge ELSE Piece
BackItem == IF drv = "fx2qspi" THEN Seq(Value) ELSE Back

Glitches == {"none", "now", "past", "left"}

LineTyped == down \in Seq(Item) /\ up \in Seq(BackItem)

FarTyped ==
    /\ dev \in [ mode : {"idle", "freq", "op", "selected", "auto", "out", "lost"},
                 need : Int, rd : Nat, seen : Seq(Piece) ]
    /\ { buf, loaded } \subseteq [ Columns -> Value ]
    /\ refused \in BOOLEAN /\ glitch \in Glitches

(* Where a call is in its page, and the operation under way. *)
Looping == /\ dir \in Dirs /\ page \in 0 .. MaxCalls
           /\ col \in 0 .. Bytes /\ left \in 0 .. Bytes
           /\ IF dir = "none" THEN col = 0 /\ left = 0 ELSE col + left = Bytes
           /\ outcome \in {"none", "done", "failed"}

InOp == {"send", "ack", "data", "exchange", "head", "in", "out", "sent", "broken", "end"}

OpShape ==
    /\ op \in Op
    /\ pc \in InOp => /\ op = WithData(Template, op.data.nbytes)
                      /\ op.data.nbytes <= left
                      /\ op.data.nbytes = 0 <=> dir = "none"
    /\ drv = "serprog" /\ pc = "send" => step \in {1} \cup 1 .. Len(Chunks(op))
    /\ pc \in {"head", "in", "out"} => dir # "none"
    /\ pc \in {"in", "out"} => dir = pc

Pcs == {"open", "unwind", "idle", "part", "send", "data", "closed"}
         \cup SerPcs \cup ChPcs \cup FxPcs

(* The states that only one of the adapters has. *)
OwnStates ==
    /\ pc \in SerPcs \cup {"data"} => drv = "serprog"
    /\ pc \in Settings \cup {"exchange", "head", "sent", "broken"} => drv = "ch347"
    /\ pc \in {"reset", "end"} => drv = "fx2qspi"

TInv == /\ pc \in Pcs /\ step \in Nat /\ Looping /\ OpShape /\ LineTyped /\ FarTyped
        /\ OwnStates
-----------------------------------------------------------------------------
LEMMA Sizes ==
    /\ Bytes \in Nat \ {0} /\ Field \in Nat /\ Field > 5 /\ MaxTrx \in Nat /\ MaxTrx > 5
    /\ MaxTransfer \in Nat \ {0} /\ MaxCalls \in Nat \ {0}
    /\ OpBuf \in Nat \ {0} /\ Eio \in Nat \ {0} /\ MapLen \in Nat \ {0}
    /\ BufSize \in Nat \ {0} /\ LenMod \in Nat \ {0} /\ ResetWrites \in Nat \ {0}
    /\ LenMod > 2
    /\ Stale \in Value
<1>1. Bytes \in Nat \ {0} /\ MaxCalls \in Nat \ {0}
  BY CallsAssumption DEF CallsAssumption
<1>2. Stale \in Value
  BY <1>1 DEF Stale, Value, Columns
<1> QED
  BY <1>2, CallsAssumption, Ch347Assumption, SerprogAssumption, Fx2Assumption
     DEF CallsAssumption, Ch347Assumption, SerprogAssumption, Fx2Assumption

LEMMA TemplateIs ==
    ASSUME dir \in Dirs
    PROVE  /\ Template \in Op /\ Template.dir = dir
           /\ Template.cmd = PhaseOf(1, 1) /\ Template.data.nbytes = 0
           /\ dir = "in" => /\ Template.addr = PhaseOf(2, 1)
                            /\ Template.dummy = PhaseOf(1, 1)
                            /\ Template.data.width = Wires
           /\ dir = "out" => /\ Template.addr = PhaseOf(2, 1)
                             /\ Template.dummy = PhaseOf(0, 0)
                             /\ Template.data.width = Wires
           /\ dir = "none" => /\ Template.addr = PhaseOf(0, 0)
                              /\ Template.dummy = PhaseOf(0, 0)
                              /\ Template.data.width = 0
<1>1. Wires \in Nat
  BY DEF Wires
<1> QED
  BY <1>1 DEF Template, ReadFromCache, ProgLoad, PhaseOf, Op, Phase, Dirs

LEMMA WithDataIs ==
    ASSUME NEW o \in Op, NEW n \in Nat
    PROVE  /\ WithData(o, n) \in Op
           /\ WithData(o, n).dir = o.dir /\ WithData(o, n).cmd = o.cmd
           /\ WithData(o, n).addr = o.addr /\ WithData(o, n).dummy = o.dummy
           /\ WithData(o, n).data.nbytes = n /\ WithData(o, n).data.width = o.data.width
           /\ \A m \in Nat : WithData(WithData(o, n), m) = WithData(o, m)
BY DEF WithData, Op, Phase
(* What adjust_op_size makes of the rest of a page is a part of it, and an *)
(* operation that no test on the way to the adapter refuses.               *)
LEMMA PartIs ==
    ASSUME drv \in Drvs, dir \in Dirs, left \in Nat, left = 0 <=> dir = "none",
           NEW o, o = Adjust(WithData(Template, left))
    PROVE  /\ o \in Op /\ o = WithData(Template, o.data.nbytes)
           /\ o.data.nbytes \in 0 .. left /\ (o.data.nbytes = 0 <=> dir = "none")
           /\ drv = "fx2qspi" => o.data.nbytes <= MaxTransfer
           /\ SupportsOp(Mode, o) /\ Takes(o)
<1>1. Template \in Op
  BY TemplateIs
<1>2. Template.addr.nbytes \in {0, 2} /\ Template.dummy.nbytes \in {0, 1}
  BY TemplateIs DEF PhaseOf, Dirs
<1>3. PICK limit \in Nat \ {0} :
         /\ o = AdjustDataSize(WithData(Template, left), limit)
         /\ drv = "serprog" => limit + 1 + Template.addr.nbytes + Template.dummy.nbytes = Field
         /\ drv = "fx2qspi" => limit = MaxTransfer
  <2>1. CASE drv = "serprog"
    <3>1. o = AdjustDataSize(WithData(Template, left),
                 Field - 1 - Template.addr.nbytes - Template.dummy.nbytes)
      BY <2>1, <1>1, WithDataIs DEF Adjust, AdjustOpSize
    <3> QED
      BY <2>1, <3>1, <1>2, Sizes
  <2>2. CASE drv = "ch347"
    <3>1. o = AdjustDataSize(WithData(Template, left),
                 MaxTrx - 1 - Template.addr.nbytes - Template.dummy.nbytes)
      BY <2>2, <1>1, WithDataIs DEF Adjust, AdjustOpSize
    <3> QED
      BY <2>2, <3>1, <1>2, Sizes
  <2>3. CASE drv = "fx2qspi"
    BY <2>3, Sizes DEF Adjust
  <2> QED
    BY <2>1, <2>2, <2>3, DriverNames
<1> DEFINE n == IF left > limit THEN limit ELSE left
<1>4. o = WithData(WithData(Template, left), n)
  BY <1>1, <1>3, WithDataIs DEF AdjustDataSize
<1>5. n \in 0 .. left /\ n <= limit /\ (n = 0 <=> dir = "none")
  OBVIOUS
<1> HIDE DEF n
<1>6. o = WithData(Template, n) /\ o \in Op
  BY <1>1, <1>4, <1>5, WithDataIs
<1>7. /\ o.data.nbytes = n /\ o.dir = dir /\ o.cmd = PhaseOf(1, 1)
      /\ o.addr = Template.addr /\ o.dummy = Template.dummy
      /\ o.data.width = Template.data.width
  BY <1>1, <1>5, <1>6, WithDataIs, TemplateIs
<1>8. SupportsOp(Mode, o)
  <2>1. CASE dir = "none"
    <3>1. o.addr = PhaseOf(0, 0) /\ o.dummy = PhaseOf(0, 0) /\ o.data.width = 0
      BY <2>1, <1>7, TemplateIs
    <3>2. BuswidthOk(Mode, 1, "out")
      BY DEF BuswidthOk
    <3>3. CheckOp(o)
      BY <2>1, <3>1, <1>5, <1>7 DEF CheckOp, PhaseOf
    <3>4. Carries(Mode, o)
      BY <2>1, <3>1, <3>2, <1>7 DEF Carries, PhaseOf
    <3> QED
      BY <3>3, <3>4 DEF SupportsOp
  <2>2. CASE dir \in {"in", "out"}
    <3>1. /\ o.addr = PhaseOf(2, 1) /\ o.dummy \in {PhaseOf(1, 1), PhaseOf(0, 0)}
          /\ o.data.width = Wires
      BY <2>2, <1>7, TemplateIs
    <3>2. BuswidthOk(Mode, 1, "out")
      BY DEF BuswidthOk
    <3>3. BuswidthOk(Mode, Wires, dir) /\ Wires \in {1, 4}
      BY <2>2 DEF BuswidthOk, Wires, Mode
    <3>4. CheckOp(o)
      BY <3>1, <3>3, <1>7 DEF CheckOp, PhaseOf
    <3>5. Carries(Mode, o)
      BY <3>1, <3>2, <3>3, <1>7 DEF Carries, PhaseOf
    <3> QED
      BY <3>4, <3>5 DEF SupportsOp
  <2> QED
    BY <2>1, <2>2 DEF Dirs
<1>9. Takes(o)
  <2>1. CASE drv = "serprog"
    <3>1. Head1(o) + n <= Field
      BY <2>1, <1>2, <1>3, <1>5, <1>7, Sizes DEF Head1
    <3>2. Head1(o) \in Nat
      BY <1>2, <1>7 DEF Head1
    <3> QED
      BY <2>1, <3>1, <3>2, <1>5, <1>7, Sizes DEF Takes, WrLen, RdLen
  <2>2. CASE drv # "serprog"
    BY <2>2, <1>2, <1>7 DEF Takes
  <2> QED
    BY <2>1, <2>2
<1> QED
  BY <1>3, <1>5, <1>6, <1>7, <1>8, <1>9
(* What of an operation is sent. *)
LEMMA OpFacts ==
    ASSUME TInv, pc \in InOp
    PROVE  /\ op.dir = dir /\ op.data.nbytes \in 0 .. left /\ op.cmd = PhaseOf(1, 1)
           /\ op.addr = Template.addr /\ op.dummy = Template.dummy
           /\ op.data.width = Template.data.width
           /\ op.addr.nbytes \in {0, 2} /\ op.dummy.nbytes \in {0, 1}
           /\ col + op.data.nbytes <= Bytes
<1>1. op \in Op /\ dir \in Dirs /\ op = WithData(Template, op.data.nbytes)
  BY DEF TInv, OpShape, Looping
<1>2. op.data.nbytes \in Nat
  BY <1>1 DEF Op, Phase
<1>3. /\ op.dir = dir /\ op.cmd = PhaseOf(1, 1)
      /\ op.addr = Template.addr /\ op.dummy = Template.dummy
      /\ op.data.width = Template.data.width
  BY <1>1, <1>2, TemplateIs, WithDataIs
<1>4. op.addr.nbytes \in {0, 2} /\ op.dummy.nbytes \in {0, 1}
  BY <1>1, <1>3, TemplateIs DEF PhaseOf, Dirs
<1>5. op.data.nbytes <= left /\ left \in Nat /\ col \in Nat
      /\ (dir # "none" => col + left = Bytes) /\ (dir = "none" => col = 0 /\ left = 0)
  BY DEF TInv, OpShape, Looping
<1>6. op.data.nbytes \in 0 .. left /\ col + op.data.nbytes <= Bytes
  BY <1>2, <1>5, Sizes
<1> QED
  BY <1>3, <1>4, <1>6

LEMMA HeadPieces ==
    ASSUME TInv, pc \in InOp
    PROVE  /\ HeadItems(op) \in Seq(Piece) /\ Len(HeadItems(op)) >= 1
           /\ HeadItems(op)[1] = Opcode(op)
<1>1. Opcode(op) \in Piece
  <2>1. op.dir \in Dirs /\ op.data.width \in Nat /\ page \in 0 .. MaxCalls
    BY DEF TInv, OpShape, Looping, Op, Phase
  <2> QED
    BY <2>1 DEF Opcode, Piece
<1>2. Address \in Piece
  <2>1. col \in Nat
    BY Sizes DEF TInv, Looping
  <2> QED
    BY <2>1 DEF Address, Piece
<1>3. Bare("dummy") \in Piece
  BY DEF Bare, Piece
<1> DEFINE a == IF op.addr.nbytes > 0 THEN << Address >> ELSE << >>
           d == [ k \in 1 .. op.dummy.nbytes |-> Bare("dummy") ]
<1>4. a \in Seq(Piece)
  BY <1>2
<1>5. op.dummy.nbytes \in Nat
  BY DEF TInv, OpShape, Op, Phase
<1>6. d \in Seq(Piece)
  BY <1>3, <1>5
<1>7. << Opcode(op) >> \in Seq(Piece)
  BY <1>1
<1>8. HeadItems(op) = (<< Opcode(op) >> \o a) \o d
  BY DEF HeadItems
<1> HIDE DEF a, d
<1>9. << Opcode(op) >> \o a \in Seq(Piece) /\ Len(<< Opcode(op) >> \o a) >= 1
      /\ (<< Opcode(op) >> \o a)[1] = Opcode(op)
  BY <1>4, <1>7
<1> QED
  BY <1>6, <1>8, <1>9

LEMMA DataPieces ==
    ASSUME TInv, pc \in InOp
    PROVE  DataOut(op) \in Seq(Piece)
<1>1. CASE op.dir # "out"
  BY <1>1 DEF DataOut
<1>2. CASE op.dir = "out"
  <2> DEFINE n == op.data.nbytes
  <2>1. n \in Nat /\ col \in Nat /\ col + n <= Bytes /\ page \in 0 .. MaxCalls
    BY OpFacts DEF TInv, Looping
  <2>2. ASSUME NEW k \in 1 .. n PROVE Byte(<< page, col + k - 1 >>) \in Piece
    <3>1. << page, col + k - 1 >> \in Value
      BY <2>1, <2>2, Sizes DEF Value, Columns
    <3> QED
      BY <3>1 DEF Byte, Piece
  <2>3. DataOut(op) = [ k \in 1 .. n |-> Byte(<< page, col + k - 1 >>) ]
    BY <1>2 DEF DataOut
  <2> DEFINE s == [ k \in 1 .. n |-> Byte(<< page, col + k - 1 >>) ]
  <2> HIDE DEF n
  <2>4. s \in [ 1 .. n -> Piece ]
    BY <2>2
  <2> HIDE DEF s
  <2>5. s \in Seq(Piece)
    BY <2>1, <2>4, SeqDef
  <2> QED
    BY <2>3, <2>5 DEF s
<1> QED
  BY <1>1, <1>2
LEMMA FcnIsSeq ==
    ASSUME NEW S, NEW n \in Nat, NEW s \in [ 1 .. n -> S ]
    PROVE  s \in Seq(S) /\ Len(s) = n
BY SeqDef

LEMMA RestOf ==
    ASSUME NEW S, NEW s \in Seq(S), NEW n \in Nat
    PROVE  /\ SubSeq(s, n + 1, Len(s)) \in Seq(S)
           /\ Len(SubSeq(s, n + 1, Len(s))) = IF n < Len(s) THEN Len(s) - n ELSE 0
           /\ \A i \in 1 .. Len(s) - n : SubSeq(s, n + 1, Len(s))[i] = s[n + i]
<1>1. Len(s) \in Nat /\ \A i \in 1 .. Len(s) : s[i] \in S
  OBVIOUS
<1>2. \A i \in n + 1 .. Len(s) : s[i] \in S
  BY <1>1
<1>3. n + 1 \in Int /\ Len(s) \in Int
  BY <1>1
<1> DEFINE r == SubSeq(s, n + 1, Len(s))
<1>4. /\ r \in Seq(S)
      /\ Len(r) = IF n + 1 <= Len(s) THEN Len(s) - (n + 1) + 1 ELSE 0
      /\ \A i \in 1 .. Len(s) - (n + 1) + 1 : r[i] = s[n + 1 + i - 1]
  BY <1>2, <1>3, SubSeqProperties
<1> HIDE DEF r
<1>5. Len(r) = IF n < Len(s) THEN Len(s) - n ELSE 0
  BY <1>1, <1>4
<1>6. \A i \in 1 .. Len(s) - n : r[i] = s[n + i]
  <2> TAKE i \in 1 .. Len(s) - n
  <2>1. i \in 1 .. Len(s) - (n + 1) + 1 /\ n + 1 + i - 1 = n + i
    BY <1>1
  <2> QED
    BY <2>1, <1>4
<1> QED
  BY <1>4, <1>5, <1>6 DEF r

(* The line, after what the program writes and reads. *)
LEMMA LineAfter ==
    ASSUME LineTyped, drv' = drv
    PROVE  /\ \A items \in Seq(Item) : Written(items) \/ WriteFails(items) => LineTyped'
           /\ \A n \in Nat : \A fault : Taken(n) \/ ReadFails(fault, n) => LineTyped'
           /\ TimesOut => LineTyped'
<1>1. Item' = Item /\ BackItem' = BackItem
  BY DEF Item, BackItem
<1>2. ASSUME NEW items \in Seq(Item), Written(items) \/ WriteFails(items)
      PROVE  LineTyped'
  <2>1. down' = down \o items /\ up' = up
    BY <1>2 DEF Written, WriteFails
  <2> QED
    BY <1>1, <2>1 DEF LineTyped
<1>3. ASSUME NEW n \in Nat, NEW fault, Taken(n) \/ ReadFails(fault, n)
      PROVE  LineTyped'
  <2>1. down' = down /\ up' = SubSeq(up, n + 1, Len(up))
    BY <1>3 DEF Taken, ReadFails
  <2>2. up' \in Seq(BackItem)
    BY <2>1, RestOf DEF LineTyped
  <2> QED
    BY <1>1, <2>1, <2>2 DEF LineTyped
<1>4. TimesOut => LineTyped'
  BY <1>1 DEF TimesOut, line, LineTyped
<1> QED
  BY <1>2, <1>3, <1>4

LEMMA GlitchAfter ==
    ASSUME glitch \in Glitches
    PROVE  /\ \A items : Written(items) \/ WriteFails(items) => glitch' \in Glitches
           /\ \A n, fault : Taken(n) \/ ReadFails(fault, n) => glitch' \in Glitches
           /\ TimesOut => glitch' \in Glitches
           /\ \A fault : Fails(fault) => glitch' \in Glitches
BY DEF Written, WriteFails, Taken, ReadFails, TimesOut, Fails, line, Glitches

LEMMA ReturnType ==
    ASSUME TInv, pc \in InOp \cup {"part"}, op.data.nbytes \in Nat, NEW r \in Int, Return(r),
           UNCHANGED << drv, dir, page >>
    PROVE  Looping' /\ pc' \in {"idle", "part"}
<1>1. CASE dir = "none"
  BY <1>1 DEF Return, Ends, TInv, Looping
<1>2. CASE dir # "none"
  <2> DEFINE n == IF r = 0 THEN op.data.nbytes ELSE r
  <2>1. n \in Int /\ col \in Nat /\ left \in Nat /\ col + left = Bytes /\ Bytes \in Nat
    BY <1>2, Sizes DEF TInv, Looping
  <2>2. CASE n <= 0 \/ n > left
    BY <1>2, <2>2 DEF Return, Ends, TInv, Looping
  <2>3. CASE ~ (n <= 0 \/ n > left)
    <3>1. pc' = "part" /\ col' = col + n /\ left' = left - n /\ outcome' = outcome
      BY <1>2, <2>3 DEF Return
    <3>2. n \in Nat /\ n <= left
      BY <2>1, <2>3
    <3> HIDE DEF n
    <3>3. col' \in 0 .. Bytes /\ left' \in 0 .. Bytes /\ col' + left' = Bytes
      BY <2>1, <3>1, <3>2
    <3> QED
      BY <1>2, <3>1, <3>3 DEF TInv, Looping
  <2> QED
    BY <2>2, <2>3
<1> QED
  BY <1>1, <1>2

LEMMA FilledType ==
    ASSUME buf \in [ Columns -> Value ], NEW at, NEW values \in Seq(Value)
    PROVE  Filled(at, values) \in [ Columns -> Value ]
BY DEF Filled

LEMMA ChipDataType ==
    ASSUME NEW seen \in Seq(Piece), NEW n \in Nat, NEW wires
    PROVE  ChipData(seen, n, wires) \in Seq(Value) /\ Len(ChipData(seen, n, wires)) = n
<1>1. ASSUME NEW k \in 1 .. n
      PROVE  ChipData(seen, n, wires)[k] \in Value
  <2> DEFINE c == Column(seen) + k - 1
  <2>1. ChipData(seen, n, wires)[k] = IF Is(seen, "in", wires) /\ c \in Columns
                                      THEN << seen[1].page, c >> ELSE Stale
    BY DEF ChipData
  <2>2. CASE Is(seen, "in", wires) /\ c \in Columns
    <3>1. Len(seen) \in Nat /\ Len(seen) > 0 /\ seen[1].t = "opcode" /\ seen[1] \in Piece
      BY <2>2 DEF Is
    <3>2. seen[1].page \in 0 .. MaxCalls
      BY <3>1 DEF Piece
    <3> QED
      BY <2>1, <2>2, <3>2 DEF Value
  <2>3. CASE ~ (Is(seen, "in", wires) /\ c \in Columns)
    BY <2>1, <2>3, Sizes
  <2> QED
    BY <2>2, <2>3
<1>2. ChipData(seen, n, wires) \in [ 1 .. n -> Value ]
  BY <1>1 DEF ChipData
<1> QED
  BY <1>2, FcnIsSeq

LEMMA ChipLoadsType ==
    ASSUME NEW seen \in Seq(Piece), NEW wires, loaded \in [ Columns -> Value ]
    PROVE  ChipLoads(seen, wires) \in [ Columns -> Value ]
<1>1. CASE ~ Is(seen, "out", wires)
  BY <1>1 DEF ChipLoads
<1>2. CASE Is(seen, "out", wires)
  <2>1. ASSUME NEW k \in 3 .. Len(seen), seen[k].t = "byte"
        PROVE  seen[k].v \in Value
    <3>1. seen[k] \in Piece
      OBVIOUS
    <3> QED
      BY <2>1, <3>1 DEF Piece
  <2> DEFINE at(c) == 3 + c - Column(seen)
  <2>2. ChipLoads(seen, wires) =
           [ c \in Columns |-> IF at(c) \in 3 .. Len(seen) /\ seen[at(c)].t = "byte"
                               THEN seen[at(c)].v ELSE loaded[c] ]
    BY <1>2 DEF ChipLoads
  <2> HIDE DEF at
  <2> QED
    BY <2>1, <2>2
<1> QED
  BY <1>1, <1>2
DevType == [ mode : {"idle", "freq", "op", "selected", "auto", "out", "lost"},
             need : Int, rd : Nat, seen : Seq(Piece) ]

LEMMA DevHas ==
    /\ Idle \in DevType /\ Lost \in DevType
    /\ \A mode \in {"idle", "freq", "op", "selected", "auto", "out", "lost"}, need \in Int,
          rd \in Nat, seen \in Seq(Piece) : Dev(mode, need, rd, seen) \in DevType
BY DEF Idle, Lost, Dev, DevType

(* The device's steps leave the program's part of TInv as it is. *)
LEMMA TDevice ==
    ASSUME TInv,
           UNCHANGED << drv, pc, step, dir, op, page, buf, col, left, outcome, glitch >>,
           down' \in Seq(Item), up' \in Seq(BackItem), loaded' \in [ Columns -> Value ],
           dev' \in DevType, refused' \in BOOLEAN
    PROVE  TInv'
<1>1. LineTyped' /\ FarTyped'
  BY DEF TInv, LineTyped, FarTyped, Item, BackItem, DevType
<1>2. Looping'
  BY DEF TInv, Looping
<1>3. Template' = Template /\ Chunks(op)' = Chunks(op)
  BY DEF Template, Wires, Chunks, Header, HeadItems, DataOut, Opcode, Address, WrLen,
         RdLen, Head1
<1>4. OpShape'
  BY <1>3 DEF TInv, OpShape
<1>5. OwnStates'
  BY DEF TInv, OwnStates
<1> QED
  BY <1>1, <1>2, <1>4, <1>5 DEF TInv

LEMMA TProgrammer == ASSUME TInv, Programmer PROVE TInv'
<1>1. /\ drv = "serprog" /\ down # << >> /\ down' = Tail(down) /\ Reads(Head(down))
      /\ UNCHANGED << drv, pc, step, dir, op, page, buf, col, left, outcome, glitch >>
  BY DEF Programmer, call, loop
<1>2. Item = Piece /\ BackItem = Back
  BY <1>1 DEF Item, BackItem
<1> DEFINE item == Head(down)
           seen == Append(dev.seen, item)
           need == dev.need - Size(item)
<1>3. item \in Piece /\ down' \in Seq(Item)
  BY <1>1, <1>2 DEF TInv, LineTyped
<1>4. dev \in DevType /\ loaded \in [ Columns -> Value ] /\ up \in Seq(Back)
      /\ refused \in BOOLEAN
  BY <1>2 DEF TInv, LineTyped, FarTyped, DevType
<1>5. seen \in Seq(Piece)
  BY <1>3, <1>4 DEF DevType
<1>6. need \in Int
  BY <1>4 DEF Size, DevType
<1>7. Bare("nak") \in Back /\ Bare("ack") \in Back /\ Bare("map") \in Back
      /\ Bare("freq") \in Back
  BY DEF Bare, Back
<1>8. SUFFICES up' \in Seq(Back) /\ dev' \in DevType /\ loaded' \in [ Columns -> Value ]
               /\ refused' \in BOOLEAN
  BY <1>1, <1>2, <1>3, TDevice
<1> HIDE DEF item, seen, need
<1>9. \/ UNCHANGED << dev, up, loaded, refused >>
      \/ /\ dev' = CASE item.t = "hdr"  -> Dev("op", item.wr, item.rd, << >>)
                     [] item.t = "freq" -> Dev("freq", 4, 0, << >>)
                     [] OTHER           -> Idle
         /\ Answer(CASE item.t \in {"hdr", "freq"} -> << >>
                     [] item.t = "sync" -> << Bare("nak"), Bare("ack") >>
                     [] item.t = "map"  -> << Bare("ack") >> \o
                                           [ k \in 1 .. MapLen |-> Bare("map") ]
                     [] OTHER           -> << Bare("nak") >>)
         /\ UNCHANGED << loaded, refused >>
      \/ /\ dev' = IF need > 0 THEN Dev(dev.mode, need, dev.rd, seen) ELSE Lost
         /\ UNCHANGED << up, loaded, refused >>
      \/ /\ dev' = Idle /\ UNCHANGED << loaded, refused >>
         /\ Answer(<< Bare("ack") >> \o [ k \in 1 .. 4 |-> Bare("freq") ])
      \/ \E refuse \in BOOLEAN :
            /\ dev' = Idle
            /\ Answer(IF refuse THEN << Bare("nak") >>
                      ELSE << Bare("ack") >> \o [ k \in 1 .. dev.rd |->
                           Byte(ChipData(seen, dev.rd, 1)[k]) ])
            /\ loaded' = IF refuse THEN loaded ELSE ChipLoads(seen, 1)
            /\ refused' = (refused \/ refuse)
  BY <1>1 DEF Reads, item, seen, need
<1>10. CASE UNCHANGED << dev, up, loaded, refused >>
  BY <1>4, <1>10
<1>11. CASE /\ dev' = CASE item.t = "hdr"  -> Dev("op", item.wr, item.rd, << >>)
                        [] item.t = "freq" -> Dev("freq", 4, 0, << >>)
                        [] OTHER           -> Idle
            /\ Answer(CASE item.t \in {"hdr", "freq"} -> << >>
                        [] item.t = "sync" -> << Bare("nak"), Bare("ack") >>
                        [] item.t = "map"  -> << Bare("ack") >> \o
                                              [ k \in 1 .. MapLen |-> Bare("map") ]
                        [] OTHER           -> << Bare("nak") >>)
            /\ UNCHANGED << loaded, refused >>
  <2>1. item.t = "hdr" => item.wr \in Nat /\ item.rd \in Nat
    BY <1>3 DEF Piece
  <2>2. dev' \in DevType
    <3>1. item.t = "hdr" => Dev("op", item.wr, item.rd, << >>) \in DevType
      BY <2>1 DEF Dev, DevType
    <3>2. Dev("freq", 4, 0, << >>) \in DevType /\ Idle \in DevType
      BY DEF Dev, Idle, DevType
    <3> QED
      BY <1>11, <3>1, <3>2
  <2> DEFINE map == [ k \in 1 .. MapLen |-> Bare("map") ]
  <2>3. map \in Seq(Back)
    BY <1>7, Sizes
  <2> HIDE DEF map
  <2>4. << >> \in Seq(Back) /\ << Bare("nak"), Bare("ack") >> \in Seq(Back)
        /\ << Bare("ack") >> \o map \in Seq(Back) /\ << Bare("nak") >> \in Seq(Back)
    BY <1>7, <2>3
  <2>5. \E items \in Seq(Back) : up' = up \o items
    BY <1>11, <2>4 DEF Answer, map
  <2> QED
    BY <1>4, <1>11, <2>2, <2>5
<1>12. CASE /\ dev' = IF need > 0 THEN Dev(dev.mode, need, dev.rd, seen) ELSE Lost
            /\ UNCHANGED << up, loaded, refused >>
  BY <1>4, <1>5, <1>6, <1>12, DevHas DEF DevType
<1>13. CASE /\ dev' = Idle /\ UNCHANGED << loaded, refused >>
            /\ Answer(<< Bare("ack") >> \o [ k \in 1 .. 4 |-> Bare("freq") ])
  <2>1. [ k \in 1 .. 4 |-> Bare("freq") ] \in Seq(Back)
    BY <1>7
  <2>2. << Bare("ack") >> \o [ k \in 1 .. 4 |-> Bare("freq") ] \in Seq(Back)
    BY <1>7, <2>1
  <2> QED
    BY <1>4, <1>13, <2>2, DevHas DEF Answer
<1>14. ASSUME NEW refuse \in BOOLEAN, dev' = Idle,
              Answer(IF refuse THEN << Bare("nak") >>
                     ELSE << Bare("ack") >> \o [ k \in 1 .. dev.rd |->
                            Byte(ChipData(seen, dev.rd, 1)[k]) ]),
              loaded' = IF refuse THEN loaded ELSE ChipLoads(seen, 1),
              refused' = (refused \/ refuse)
       PROVE  /\ up' \in Seq(Back) /\ dev' \in DevType /\ loaded' \in [ Columns -> Value ]
              /\ refused' \in BOOLEAN
  <2> DEFINE data == ChipData(seen, dev.rd, 1)
             bytes == [ k \in 1 .. dev.rd |-> Byte(data[k]) ]
  <2>1. dev.rd \in Nat
    BY <1>4 DEF DevType
  <2>2. data \in Seq(Value) /\ Len(data) = dev.rd
    BY <1>5, <2>1, ChipDataType
  <2>3. Answer(IF refuse THEN << Bare("nak") >> ELSE << Bare("ack") >> \o bytes)
    BY <1>14
  <2> HIDE DEF data
  <2>4. \A k \in 1 .. dev.rd : Byte(data[k]) \in Back
    BY <2>2 DEF Byte, Back
  <2>5. bytes \in [ 1 .. dev.rd -> Back ]
    BY <2>4
  <2> HIDE DEF bytes
  <2>6. bytes \in Seq(Back)
    BY <2>1, <2>5, FcnIsSeq
  <2>7. up' \in Seq(Back)
    BY <2>3, <2>6, <1>7, <1>4 DEF Answer
  <2>8. loaded' \in [ Columns -> Value ]
    BY <1>4, <1>5, <1>14, ChipLoadsType
  <2> QED
    BY <1>4, <1>14, <2>7, <2>8, DevHas
<1> QED
  BY <1>9, <1>10, <1>11, <1>12, <1>13, <1>14
(* What the bridge is sent, it is sent in packets of pieces. *)
LEMMA LengthOfType == ASSUME NEW s \in Seq(Piece) PROVE LengthOf(s) \in Nat
<1> DEFINE wide == { k \in DOMAIN s : s[k].t \in {"addr", "garbage"} }
<1>1. IsFiniteSet(DOMAIN s)
  BY FS_Interval
<1>2. IsFiniteSet(wide)
  BY <1>1, FS_Subset
<1>3. Cardinality(wide) \in Nat
  BY <1>2, FS_CardinalityType
<1>4. LengthOf(s) = Len(s) + Cardinality(wide)
  BY DEF LengthOf, Quantify
<1> HIDE DEF wide
<1> QED
  BY <1>3, <1>4

LEMMA SubSeqType ==
    ASSUME NEW S, NEW s \in Seq(S), NEW m \in Nat \ {0}, NEW n \in Nat, n <= Len(s)
    PROVE  SubSeq(s, m, n) \in Seq(S)
<1>1. \A i \in m .. n : s[i] \in S
  OBVIOUS
<1> QED
  BY <1>1, SubSeqProperties

LEMMA AnswerOne ==
    ASSUME NEW S, up \in Seq(S), NEW item \in S, Answer(<< item >>)
    PROVE  up' \in Seq(S)
<1>1. << item >> \in Seq(S)
  OBVIOUS
<1> QED
  BY <1>1, ConcatProperties DEF Answer

LEMMA TBridge == ASSUME TInv, Bridge PROVE TInv'
<1>1. /\ drv = "ch347" /\ down # << >> /\ down' = Tail(down) /\ BridgeTakes(Head(down))
      /\ UNCHANGED << drv, pc, step, dir, op, page, buf, col, left, outcome, glitch, refused >>
  BY DEF Bridge, call, loop
<1>2. Item = ToBridge /\ BackItem = Back
  BY <1>1 DEF Item, BackItem
<1> DEFINE p == Head(down)
<1>3. p \in ToBridge /\ down' \in Seq(Item)
  BY <1>1, <1>2 DEF TInv, LineTyped
<1>4. dev \in DevType /\ loaded \in [ Columns -> Value ] /\ up \in Seq(Back)
      /\ refused \in BOOLEAN
  BY <1>2 DEF TInv, LineTyped, FarTyped, DevType
<1>5. SUFFICES up' \in Seq(Back) /\ dev' \in DevType /\ loaded' \in [ Columns -> Value ]
  BY <1>1, <1>2, <1>3, <1>4, TDevice
<1> HIDE DEF p
<1>6. dev.mode \in {"idle", "freq", "op", "selected", "auto", "out", "lost"}
      /\ dev.need \in Int /\ dev.rd \in Nat /\ dev.seen \in Seq(Piece)
  BY <1>4 DEF DevType
<1>7. ASSUME NEW seen \in Seq(Piece), Deselects(seen)
      PROVE  dev' \in DevType /\ loaded' \in [ Columns -> Value ]
  BY <1>4, <1>7, ChipLoadsType, DevHas DEF Deselects
<1>8. CASE UNCHANGED << dev, up, loaded >>
  BY <1>4, <1>8
<1>9. CASE dev' = Lost /\ UNCHANGED << up, loaded >>
  BY <1>4, <1>9, DevHas
<1>10. CASE /\ p.t = "cs"
            /\ IF p.val = "high" THEN Deselects(dev.seen)
               ELSE /\ dev' = Dev(IF p.auto THEN "auto" ELSE "selected",
                                  dev.need, dev.rd, dev.seen)
                    /\ UNCHANGED loaded
            /\ UNCHANGED up
  <2>1. CASE Deselects(dev.seen)
    BY <1>4, <1>6, <1>7, <1>10, <2>1
  <2>2. CASE /\ dev' = Dev(IF p.auto THEN "auto" ELSE "selected", dev.need, dev.rd, dev.seen)
             /\ UNCHANGED loaded
    BY <1>4, <1>6, <1>10, <2>2, DevHas
  <2> QED
    BY <1>10, <2>1, <2>2
<1>11. CASE /\ p.t = "packet" /\ Replies(p)
            /\ IF p.cmd \in SetCmds THEN UNCHANGED << dev, loaded >> ELSE Exchange(p)
  <2>1. p.cmd \in Cmds /\ p.items \in Seq(Piece) /\ p.rd \in Nat
    BY <1>3, <1>11 DEF ToBridge
  <2> DEFINE seen == Clocked(p.items)
  <2>2. seen \in Seq(Piece)
    BY <1>6, <2>1 DEF Clocked
  <2> HIDE DEF seen
  <2>3. dev' \in DevType /\ loaded' \in [ Columns -> Value ]
    <3>1. CASE UNCHANGED << dev, loaded >>
      BY <1>4, <3>1
    <3>2. CASE Deselects(seen)
      BY <1>7, <2>2, <3>2
    <3>3. CASE dev' = Dev(dev.mode, dev.need, dev.rd, seen) /\ UNCHANGED loaded
      BY <1>4, <1>6, <2>2, <3>3, DevHas
    <3> QED
      BY <1>11, <3>1, <3>2, <3>3 DEF Exchange, seen
  <2>4. up' \in Seq(Back)
    <3> DEFINE data == ChipData(seen, p.rd, 1)
    <3>1. data \in Seq(Value) /\ Len(data) = p.rd
      BY <2>1, <2>2, ChipDataType
    <3>2. ASSUME NEW cmd \in Cmds, NEW n \in Nat, NEW s \in Seq(Value)
          PROVE  Reply(cmd, n, s) \in Back
      BY <3>2 DEF Reply, Back
    <3>3. /\ p.cmd = "read" => \E k \in 1 .. p.rd :
                Answer(<< Reply("read", k, SubSeq(data, 1, k)) >> \o
                       (IF k = p.rd THEN << >>
                        ELSE << Reply("read", p.rd - k, SubSeq(data, k + 1, p.rd)) >>))
          /\ p.cmd = "trx" => Answer(<< Reply("trx", LengthOf(p.items) + p.rd, data) >>)
          /\ p.cmd \notin {"read", "trx"} => Answer(<< Reply(p.cmd, 1, << Stale >>) >>)
      BY <1>11 DEF Replies, seen
    <3> HIDE DEF data
    <3>4. CASE p.cmd = "read"
      <4>1. PICK k \in 1 .. p.rd :
                Answer(<< Reply("read", k, SubSeq(data, 1, k)) >> \o
                       (IF k = p.rd THEN << >>
                        ELSE << Reply("read", p.rd - k, SubSeq(data, k + 1, p.rd)) >>))
        BY <3>3, <3>4
      <4>2. SubSeq(data, 1, k) \in Seq(Value) /\ SubSeq(data, k + 1, p.rd) \in Seq(Value)
        BY <2>1, <3>1, SubSeqType
      <4>3. Reply("read", k, SubSeq(data, 1, k)) \in Back
            /\ Reply("read", p.rd - k, SubSeq(data, k + 1, p.rd)) \in Back
        <5>1. k \in Nat /\ p.rd - k \in Nat /\ "read" \in Cmds
          BY <2>1 DEF Cmds
        <5> QED
          BY <3>2, <4>2, <5>1
      <4> DEFINE one == << Reply("read", k, SubSeq(data, 1, k)) >>
                 two == << Reply("read", p.rd - k, SubSeq(data, k + 1, p.rd)) >>
      <4>4. one \in Seq(Back) /\ two \in Seq(Back)
        BY <4>3
      <4>5. up' = up \o (one \o (IF k = p.rd THEN << >> ELSE two))
        BY <4>1 DEF Answer
      <4> HIDE DEF one, two
      <4>6. one \o (IF k = p.rd THEN << >> ELSE two) \in Seq(Back)
        BY <4>4
      <4> QED
        BY <1>4, <4>5, <4>6, ConcatProperties
    <3>5. CASE p.cmd = "trx"
      <4>1. LengthOf(p.items) + p.rd \in Nat /\ "trx" \in Cmds
        BY <2>1, LengthOfType DEF Cmds
      <4>2. Reply("trx", LengthOf(p.items) + p.rd, data) \in Back
        BY <3>1, <3>2, <4>1
      <4>3. Answer(<< Reply("trx", LengthOf(p.items) + p.rd, data) >>)
        BY <3>3, <3>5
      <4> QED
        BY <1>4, <4>2, <4>3, AnswerOne
    <3>6. CASE p.cmd \notin {"read", "trx"}
      <4>1. << Stale >> \in Seq(Value)
        BY Sizes
      <4>2. Reply(p.cmd, 1, << Stale >>) \in Back
        BY <2>1, <3>2, <4>1
      <4>3. Answer(<< Reply(p.cmd, 1, << Stale >>) >>)
        BY <3>3, <3>6
      <4> QED
        BY <1>4, <4>2, <4>3, AnswerOne
    <3> QED
      BY <3>4, <3>5, <3>6
  <2> QED
    BY <2>3, <2>4
<1> QED
  BY <1>1, <1>8, <1>9, <1>10, <1>11 DEF BridgeTakes, p
(* The packets of the firmware carry values, each a part of a buffer. *)
LEMMA PacketsType ==
    ASSUME NEW values \in Seq(Value)
    PROVE  Packets(values) \in Seq(Seq(Value))
<1> DEFINE n == (Len(values) + BufSize - 1) \div BufSize
           last(k) == IF k * BufSize < Len(values) THEN k * BufSize ELSE Len(values)
           s == [ k \in 1 .. n |-> SubSeq(values, (k - 1) * BufSize + 1, last(k)) ]
<1>1. BufSize \in Nat \ {0} /\ Len(values) \in Nat
  BY Sizes
<1>2. Len(values) + BufSize - 1 \in Nat
  BY <1>1
<1>3. n \in Nat
  BY <1>1, <1>2
<1>4. ASSUME NEW k \in 1 .. n
      PROVE  SubSeq(values, (k - 1) * BufSize + 1, last(k)) \in Seq(Value)
  <2>1. k \in Nat \ {0} /\ k - 1 \in Nat
    BY <1>3
  <2>2. (k - 1) * BufSize \in Nat /\ k * BufSize \in Nat
    BY <1>1, <2>1
  <2>3. last(k) \in Nat /\ last(k) <= Len(values)
    BY <1>1, <2>2
  <2> HIDE DEF last
  <2> QED
    BY <2>2, <2>3, SubSeqType
<1>5. Packets(values) = s
  BY DEF Packets
<1>6. s \in [ 1 .. n -> Seq(Value) ]
  BY <1>4
<1> HIDE DEF s, n
<1> QED
  BY <1>3, <1>5, <1>6, FcnIsSeq

LEMMA StaleType == \A n \in Nat : StaleBytes(n) \in Seq(Value)
<1> TAKE n \in Nat
<1>1. StaleBytes(n) \in [ 1 .. n -> Value ]
  BY Sizes DEF StaleBytes
<1> QED
  BY <1>1, FcnIsSeq

LEMMA TFirmware == ASSUME TInv, Firmware PROVE TInv'
<1>1. /\ drv = "fx2qspi" /\ down # << >> /\ down' = Tail(down) /\ FirmwareTakes(Head(down))
      /\ UNCHANGED << drv, pc, step, dir, op, page, buf, col, left, outcome, glitch, refused >>
  BY DEF Firmware, call, loop
<1>2. Item = Piece /\ BackItem = Seq(Value)
  BY <1>1 DEF Item, BackItem
<1> DEFINE item == Head(down)
           seen == Append(dev.seen, item)
           need == dev.need - LengthOf(<< item >>)
<1>3. item \in Piece /\ down' \in Seq(Item)
  BY <1>1, <1>2 DEF TInv, LineTyped
<1>4. dev \in DevType /\ loaded \in [ Columns -> Value ] /\ up \in Seq(Seq(Value))
      /\ refused \in BOOLEAN
  BY <1>2 DEF TInv, LineTyped, FarTyped, DevType
<1>5. /\ dev.mode \in {"idle", "freq", "op", "selected", "auto", "out", "lost"}
      /\ dev.need \in Int /\ dev.rd \in Nat /\ dev.seen \in Seq(Piece)
  BY <1>4 DEF DevType
<1>6. seen \in Seq(Piece)
  BY <1>3, <1>5
<1>7. need \in Int
  <2>0. << item >> \in Seq(Piece)
    BY <1>3
  <2>1. LengthOf(<< item >>) \in Nat
    BY <2>0, LengthOfType
  <2> QED
    BY <1>5, <2>1
<1>8. SUFFICES up' \in Seq(Seq(Value)) /\ dev' \in DevType /\ loaded' \in [ Columns -> Value ]
  BY <1>1, <1>2, <1>3, <1>4, TDevice
<1> HIDE DEF item, seen, need
<1>9. item.t = "phase" => item.len \in Nat /\ item.wires \in Nat
  BY <1>3 DEF Piece
<1>10. CASE UNCHANGED << dev, up, loaded >>
  BY <1>4, <1>10
<1>11. CASE dev' = Lost /\ UNCHANGED << up, loaded >>
  BY <1>4, <1>11, DevHas
<1>12. CASE /\ dev' = Dev(IF need = 0 THEN "idle" ELSE "out", need, dev.rd, seen)
            /\ UNCHANGED << up, loaded >>
  BY <1>4, <1>5, <1>6, <1>7, <1>12, DevHas
<1>13. CASE /\ item.t = "phase"
            /\ Answer(Packets(ChipData(dev.seen, item.len, item.wires)))
            /\ UNCHANGED << dev, loaded >>
  <2>1. ChipData(dev.seen, item.len, item.wires) \in Seq(Value)
    BY <1>5, <1>9, <1>13, ChipDataType
  <2>2. Packets(ChipData(dev.seen, item.len, item.wires)) \in Seq(Seq(Value))
    BY <2>1, PacketsType
  <2> QED
    BY <1>4, <1>13, <2>2 DEF Answer
<1>14. CASE /\ item.t = "phase" /\ dev' = Dev("out", item.len, item.wires, dev.seen)
            /\ UNCHANGED << up, loaded >>
  BY <1>4, <1>5, <1>9, <1>14, DevHas
<1>15. CASE dev' = Idle /\ loaded' = ChipLoads(dev.seen, dev.rd) /\ UNCHANGED up
  BY <1>4, <1>5, <1>15, DevHas, ChipLoadsType
<1>16. ASSUME NEW n \in 1 .. BufSize, Answer(<< StaleBytes(n) >>), UNCHANGED << dev, loaded >>
       PROVE  up' \in Seq(Seq(Value)) /\ dev' \in DevType /\ loaded' \in [ Columns -> Value ]
  <2>1. << StaleBytes(n) >> \in Seq(Seq(Value))
    BY Sizes, StaleType
  <2> QED
    BY <1>4, <1>16, <2>1 DEF Answer
<1> QED
  BY <1>1, <1>10, <1>11, <1>12, <1>13, <1>14, <1>15, <1>16
     DEF FirmwareTakes, item, seen, need
-----------------------------------------------------------------------------
(* The line after a step of the program. *)
Moved == LineTyped' /\ glitch' \in Glitches

LEMMA LineMoves ==
    ASSUME TInv, drv' = drv
    PROVE  /\ UNCHANGED line => Moved
           /\ \A items \in Seq(Item) : Written(items) \/ WriteFails(items) => Moved
           /\ \A n \in Nat : \A fault : Taken(n) \/ ReadFails(fault, n) => Moved
           /\ TimesOut => Moved
<1>1. LineTyped /\ glitch \in Glitches
  BY DEF TInv, FarTyped
<1>2. UNCHANGED line => Moved
  BY <1>1 DEF line, Moved, LineTyped, Item, BackItem
<1> QED
  BY <1>1, <1>2, LineAfter, GlitchAfter DEF Moved

LEMMA FrontOfType ==
    ASSUME NEW S, NEW s \in Seq(S), NEW n \in 0 .. Len(s)
    PROVE  SubSeq(s, 1, n) \in Seq(S)
BY SubSeqType

LEMMA OutFailsMoves ==
    ASSUME TInv, drv' = drv, NEW items \in Seq(Item), OutFails(items)
    PROVE  Moved
<1>1. PICK n \in 0 .. Len(items) : WriteFails(SubSeq(items, 1, n))
  BY DEF OutFails
<1>2. SubSeq(items, 1, n) \in Seq(Item)
  BY FrontOfType
<1> QED
  BY <1>1, <1>2, LineMoves

LEMMA InFailsMoves == ASSUME TInv, drv' = drv, InFails PROVE Moved
BY LineMoves DEF InFails

LEMMA CheckAckMoves == ASSUME TInv, drv' = drv, NEW ok, CheckAck(ok) PROVE Moved
<1>1. Taken(1) \/ ReadFails("read", 0)
  BY DEF CheckAck
<1> QED
  BY <1>1, LineMoves

(* On the line to the bridge a packet may also be cut, and what is left of *)
(* a reply stays on the line back.                                         *)
LEMMA BridgeMoves ==
    ASSUME TInv, drv = "ch347", drv' = drv
    PROVE  /\ \A p \in ToBridge : Written(<< p >>) \/ SendFails(p) => Moved
           /\ \A cmd, max : Receives(cmd, max) => Moved
           /\ \A cmd, max : ReceiveFails(cmd, max) => Moved
           /\ \A val \in {"low", "high"}, auto \in BOOLEAN :
                 ChipSelect(SetCs(val, auto)) => Moved
<1>1. Item = ToBridge /\ BackItem = Back /\ Item' = ToBridge /\ BackItem' = Back
  BY DEF Item, BackItem
<1>2. down \in Seq(ToBridge) /\ up \in Seq(Back) /\ glitch \in Glitches
  BY <1>1 DEF TInv, LineTyped, FarTyped
<1>3. Cut \in ToBridge /\ Rest \in Back
  BY DEF Cut, Rest, Bare, ToBridge, Back
<1>4. << >> \in Seq(Item) /\ << Cut >> \in Seq(Item)
  BY <1>1, <1>3
<1>5. ASSUME NEW p \in ToBridge, Written(<< p >>) \/ SendFails(p)
      PROVE  Moved
  <2>1. << p >> \in Seq(Item)
    BY <1>1
  <2>2. PICK items \in {<< >>, << Cut >>, << p >>} : Written(items) \/ WriteFails(items)
    BY <1>5 DEF SendFails
  <2>3. items \in Seq(Item)
    BY <1>4, <2>1
  <2> QED
    BY <2>2, <2>3, LineMoves
<1>6. ASSUME NEW cmd, NEW max, Receives(cmd, max) PROVE Moved
  BY <1>6, LineMoves DEF Receives
<1>7. ASSUME NEW cmd, NEW max, ReceiveFails(cmd, max) PROVE Moved
  <2>1. CASE TimesOut \/ ReadFails("read", 0)
    BY <2>1, LineMoves
  <2>2. CASE ~ (TimesOut \/ ReadFails("read", 0))
    <3>1. up # << >> /\ down' = down /\ (up' = Tail(up) \/ up' = << Rest >> \o Tail(up))
      BY <1>7, <2>2 DEF ReceiveFails, Fit
    <3>2. Fails("read") \/ glitch' = glitch
      BY <1>7, <2>2 DEF ReceiveFails
    <3>3. glitch' \in Glitches
      BY <1>2, <3>2, GlitchAfter
    <3>4. Tail(up) \in Seq(Back) /\ << Rest >> \in Seq(Back)
      BY <1>2, <1>3, <3>1
    <3>5. up' \in Seq(Back)
      BY <3>1, <3>4
    <3> QED
      BY <1>1, <1>2, <3>1, <3>3, <3>5 DEF Moved, LineTyped
  <2> QED
    BY <2>1, <2>2
<1>8. ASSUME NEW val \in {"low", "high"}, NEW auto \in BOOLEAN, ChipSelect(SetCs(val, auto))
      PROVE  Moved
  <2>1. SetCs(val, auto) \in ToBridge
    BY DEF SetCs, ToBridge
  <2>2. CASE Written(<< SetCs(val, auto) >>)
    BY <1>5, <2>1, <2>2
  <2>3. CASE Unseen /\ down' \in { down, down \o << Cut >>, down \o << SetCs(val, auto) >> }
    <3>1. << Cut >> \in Seq(ToBridge) /\ << SetCs(val, auto) >> \in Seq(ToBridge)
      BY <1>3, <2>1
    <3>2. /\ down \o << Cut >> \in Seq(ToBridge)
          /\ down \o << SetCs(val, auto) >> \in Seq(ToBridge)
      BY <1>2, <3>1, ConcatProperties
    <3>3. down' \in Seq(ToBridge)
      BY <1>2, <2>3, <3>2
    <3> QED
      BY <1>1, <1>2, <2>3, <3>3 DEF Moved, LineTyped, Unseen, Glitches
  <2> QED
    BY <1>8, <2>2, <2>3 DEF ChipSelect
<1> QED
  BY <1>5, <1>6, <1>7, <1>8

(* A step of the program keeps TInv if it keeps the parts it touches, and  *)
(* goes on with an operation only where one is under way.                  *)
LEMMA TOnwards ==
    ASSUME TInv, UNCHANGED << drv, dir, page, op >>, UNCHANGED far,
           pc' \in Pcs, step' \in Nat, Looping', Moved, buf' \in [ Columns -> Value ],
           OwnStates',
           pc' \in InOp => pc \in InOp /\ UNCHANGED << col, left >>,
           pc' \in {"head", "in", "out"} => dir # "none",
           pc' \in {"in", "out"} => dir = pc',
           drv = "serprog" /\ pc' = "send" => step' \in {1} \cup 1 .. Len(Chunks(op))
    PROVE  TInv'
<1>1. Template' = Template /\ op' = op
  BY DEF Template, Wires
<1>2. drv = "serprog" /\ pc' = "send" => Chunks(op)' = Chunks(op)
  BY DEF InOp, Chunks, Header, HeadItems, DataOut, Opcode, Address, WrLen, RdLen, Head1
<1>3. drv = "serprog" /\ pc' = "send" => step' \in {1} \cup 1 .. Len(Chunks(op))'
  BY <1>2
<1>4. OpShape'
  BY <1>1, <1>3 DEF TInv, OpShape
<1>5. FarTyped'
  BY DEF TInv, FarTyped, Moved, far
<1> QED
  BY <1>4, <1>5 DEF TInv, Moved
(* A part that returns, and any step that stays outside an operation.      *)
LEMMA TReturns ==
    ASSUME TInv, UNCHANGED << drv, dir, page, op >>, UNCHANGED far,
           pc \in InOp, NEW r \in Int, Return(r),
           step' \in Nat, Moved, buf' \in [ Columns -> Value ]
    PROVE  TInv'
<1>1. op.data.nbytes \in Nat
  BY DEF TInv, OpShape, Op, Phase
<1>2. Looping' /\ pc' \in {"idle", "part"}
  BY <1>1, ReturnType
<1>3. pc' \in Pcs /\ pc' \notin InOp
  BY <1>2 DEF Pcs, InOp
<1>4. OwnStates'
  BY <1>2 DEF OwnStates, SerPcs, Settings
<1> QED
  BY <1>2, <1>3, <1>4, TOnwards DEF InOp

LEMMA TOutside ==
    ASSUME TInv, UNCHANGED << drv, call, loop, far >>, step' \in Nat, Moved,
           pc' \in Pcs \ InOp, OwnStates'
    PROVE  TInv'
<1>1. UNCHANGED << dir, page, op, col, left, outcome, buf >>
  BY DEF call, loop
<1>2. Looping'
  BY <1>1 DEF TInv, Looping
<1>3. buf' \in [ Columns -> Value ]
  BY <1>1 DEF TInv, FarTyped
<1> QED
  BY <1>1, <1>2, <1>3, TOnwards DEF InOp

LEMMA TOpening ==
    ASSUME HInv, TInv, Open \/ OpenFails \/ Unwind \/ RemoveAdapter
    PROVE  TInv'
<1>1. UNCHANGED << drv, call, loop, line, far >>
  BY DEF Open, OpenFails, Unwind, RemoveAdapter
<1>2. Moved
  BY <1>1, LineMoves
<1>3. Stages \in Nat /\ step \in Nat
  BY StagesOf DEF HInv, TInv
<1>4. step' \in Nat
  <2>1. CASE Open
    BY <1>3, <2>1 DEF Open
  <2>2. CASE OpenFails
    BY <1>3, <2>2 DEF OpenFails, HInv, Owned, Unwinds
  <2>3. CASE Unwind
    BY <1>3, <2>3 DEF Unwind
  <2>4. CASE RemoveAdapter
    BY <1>3, <2>4 DEF RemoveAdapter
  <2> QED
    BY <2>1, <2>2, <2>3, <2>4
<1>5. pc' \in {"open", "unwind", "closed", "sync", "info", "reset"}
  <2>1. Probing[drv] \in {"sync", "info", "reset"}
    BY DriverNames DEF HInv, Probing
  <2> QED
    BY <2>1 DEF Open, OpenFails, Unwind, RemoveAdapter, Unwinds
<1>6. pc' \in Pcs \ InOp
  BY <1>5 DEF Pcs, InOp, SerPcs, ChPcs, FxPcs, Settings
<1>7. OwnStates'
  <2>1. \/ pc' \in {"open", "unwind", "closed"}
        \/ pc' = Probing[drv] /\ drv' = drv
    BY <1>1 DEF Open, OpenFails, Unwind, RemoveAdapter, Unwinds
  <2> QED
    BY <2>1, DriverNames DEF HInv, Probing, OwnStates, SerPcs, Settings
<1> QED
  BY <1>1, <1>2, <1>4, <1>6, <1>7, TOutside

LEMMA TCall == ASSUME TInv, Call PROVE TInv'
<1>1. /\ pc' = "part" /\ page \in 0 .. MaxCalls /\ page < MaxCalls /\ page' = page + 1
      /\ dir' \in Dirs /\ outcome' = "none" /\ col' = 0
      /\ left' = IF dir' = "none" THEN 0 ELSE Bytes
      /\ UNCHANGED << drv, step, op, down, up, dev, loaded >>
      /\ buf' = [ c \in Columns |-> Stale ] /\ refused' = FALSE
      /\ glitch' = IF glitch = "now" THEN "past" ELSE glitch
  BY DEF Call, TInv, Looping, Dirs
<1>2. Looping'
  BY <1>1, Sizes DEF Looping
<1>3. OpShape'
  BY <1>1 DEF OpShape, InOp, TInv
<1>4. FarTyped'
  BY <1>1, Sizes DEF FarTyped, TInv, Glitches
<1>5. LineTyped'
  BY <1>1 DEF LineTyped, Item, BackItem, TInv
<1>6. pc' \in Pcs /\ step' \in Nat
  BY <1>1 DEF Pcs, TInv
<1>7. OwnStates'
  BY <1>1 DEF OwnStates, SerPcs, Settings
<1> QED
  BY <1>2, <1>3, <1>4, <1>5, <1>6, <1>7 DEF TInv
LEMMA TPart == ASSUME HInv, TInv, Part PROVE TInv'
<1>1. /\ drv \in Drvs /\ dir \in Dirs /\ left \in Nat
      /\ (left = 0 <=> dir = "none")
  BY Sizes DEF HInv, TInv, Looping, Part
<1>2. op' = Adjust(WithData(Template, left))
  BY DEF Part
<1>3. /\ op' \in Op /\ op' = WithData(Template, op'.data.nbytes)
      /\ op'.data.nbytes \in 0 .. left /\ (op'.data.nbytes = 0 <=> dir = "none")
      /\ SupportsOp(Mode, op') /\ Takes(op')
  BY <1>1, <1>2, PartIs
<1>4. pc' = "send" /\ UNCHANGED loop /\ step' = 1
      /\ UNCHANGED << drv, held, dir, buf, page, line, far >>
  BY <1>3 DEF Part
<1>5. Template' = Template
  BY <1>4 DEF Template, Wires
<1>6. OpShape'
  BY <1>1, <1>3, <1>4, <1>5 DEF OpShape, InOp, loop
<1>7. Moved
  BY <1>4, LineMoves
<1>8. FarTyped' /\ Looping' /\ LineTyped'
  BY <1>4, <1>7 DEF FarTyped, Looping, TInv, Moved, far, loop
<1>9. pc' \in Pcs /\ step' \in Nat /\ OwnStates'
  BY <1>4 DEF Pcs, OwnStates, SerPcs, Settings
<1> QED
  BY <1>6, <1>8, <1>9 DEF TInv

LEMMA TPartsEnd == ASSUME TInv, PartsEnd PROVE TInv'
<1>1. /\ pc' = "idle" /\ outcome' = "done" /\ UNCHANGED << col, left >>
      /\ UNCHANGED << drv, step, call, line, far >>
  BY DEF PartsEnd, Ends
<1>2. Looping'
  BY <1>1 DEF TInv, Looping, call
<1>3. Moved
  BY <1>1, LineMoves
<1>4. pc' \in Pcs /\ pc' \notin InOp /\ step' \in Nat /\ OwnStates'
  BY <1>1 DEF Pcs, InOp, TInv, OwnStates, SerPcs, Settings
<1>5. buf' \in [ Columns -> Value ]
  BY <1>1 DEF TInv, FarTyped, call
<1> QED
  BY <1>1, <1>2, <1>3, <1>4, <1>5, TOnwards DEF InOp, call

(* The steps of serprog before the first call. *)
LEMMA TSerSetup ==
    ASSUME HInv, TInv,
           \/ SyncWrite \/ SyncRead
           \/ \E cmd \in {"map", "freq"} : ExecWrite(cmd) \/ ExecAck(cmd) \/ ExecReply(cmd)
    PROVE  TInv'
<1>1. UNCHANGED << drv, call, loop, far >>
  BY DEF SyncWrite, SyncRead, ExecWrite, ExecAck, ExecReply
<1>2. drv = "serprog" /\ Item = Piece
  BY DEF SyncWrite, SyncRead, ExecWrite, ExecAck, ExecReply, TInv, OwnStates, SerPcs, Item
<1>3. Stages \in Nat
  BY StagesOf DEF HInv
<1>4. /\ << Bare("sync") >> \in Seq(Item) /\ << >> \in Seq(Item)
      /\ << Bare("freq"), Bare("param") >> \in Seq(Item) /\ << Bare("map") >> \in Seq(Item)
  <2>1. Bare("sync") \in Item /\ Bare("freq") \in Item /\ Bare("param") \in Item
        /\ Bare("map") \in Item
    BY <1>2 DEF Bare, Piece
  <2> QED
    BY <2>1
<1>5. ASSUME NEW cmd \in {"map", "freq"}, ExecWrite(cmd)
      PROVE  Moved /\ step' \in Nat /\ pc' \in Pcs \ InOp /\ OwnStates'
  <2> DEFINE items == IF cmd = "freq" THEN << Bare("freq"), Bare("param") >>
                      ELSE << Bare("map") >>
  <2>1. items \in Seq(Item) /\ Len(items) >= 1
    BY <1>4
  <2>2. \A n \in 0 .. 1 : SubSeq(items, 1, n) \in Seq(Item)
    <3> HIDE DEF items
    <3> TAKE n \in 0 .. 1
    <3>1. n \in 0 .. Len(items)
      BY <2>1
    <3> QED
      BY <2>1, <3>1, FrontOfType
  <2>3. Written(items) \/ \E n \in 0 .. 1 : WriteFails(SubSeq(items, 1, n))
    BY <1>5 DEF ExecWrite
  <2> HIDE DEF items
  <2>4. Moved
    BY <1>1, <2>1, <2>2, <2>3, LineMoves
  <2>5. step' \in Nat /\ pc' \in {"idle", "map", "freq"}
    BY <1>5 DEF ExecWrite, After
  <2> QED
    BY <1>1, <1>2, <2>4, <2>5 DEF Pcs, InOp, SerPcs, OwnStates, Settings
<1>6. ASSUME NEW cmd \in {"map", "freq"}, ExecAck(cmd)
      PROVE  Moved /\ step' \in Nat /\ pc' \in Pcs \ InOp /\ OwnStates'
  <2>1. Moved
    BY <1>1, <1>6, CheckAckMoves DEF ExecAck
  <2>2. step' \in Nat /\ pc' \in {"unwind", "map", "freq"}
    BY <1>3, <1>6 DEF ExecAck, Unwinds
  <2> QED
    BY <1>1, <1>2, <2>1, <2>2 DEF Pcs, InOp, SerPcs, OwnStates, Settings
<1>7. ASSUME NEW cmd \in {"map", "freq"}, ExecReply(cmd)
      PROVE  Moved /\ step' \in Nat /\ pc' \in Pcs \ InOp /\ OwnStates'
  <2>1. \E n \in Nat : Taken(n) \/ ReadFails("short", n) \/ ReadFails("read", n)
    BY <1>7, Sizes DEF ExecReply
  <2>2. Moved
    BY <1>1, <2>1, LineMoves
  <2>3. step' \in Nat /\ pc' \in {"idle", "freq"}
    BY <1>7 DEF ExecReply, After
  <2> QED
    BY <1>1, <1>2, <2>2, <2>3 DEF Pcs, InOp, SerPcs, OwnStates, Settings
<1>8. CASE SyncWrite
  <2>1. Moved
    BY <1>1, <1>4, <1>8, LineMoves DEF SyncWrite
  <2>2. step' = 2 /\ pc' = "sync"
    BY <1>8 DEF SyncWrite
  <2>3. step' \in Nat /\ pc' \in Pcs \ InOp /\ OwnStates'
    BY <1>1, <1>2, <2>2 DEF Pcs, InOp, SerPcs, OwnStates, Settings
  <2> QED
    BY <1>1, <2>1, <2>3, TOutside
<1>9. CASE SyncRead
  <2>1. Taken(1) \/ ReadFails("read", 0)
    BY <1>9 DEF SyncRead
  <2>2. Moved
    BY <1>1, <2>1, LineMoves
  <2>3. step' \in Nat /\ pc' \in {"unwind", "sync", "map"}
    BY <1>3, <1>9 DEF SyncRead, Unwinds
  <2>4. pc' \in Pcs \ InOp /\ OwnStates'
    BY <1>1, <1>2, <2>3 DEF Pcs, InOp, SerPcs, OwnStates, Settings
  <2> QED
    BY <1>1, <2>2, <2>3, <2>4, TOutside
<1> QED
  BY <1>1, <1>5, <1>6, <1>7, <1>8, <1>9, TOutside
LEMMA ChunksType ==
    ASSUME TInv, pc \in InOp
    PROVE  Chunks(op) \in Seq(Piece) /\ Len(Chunks(op)) >= 1
<1>1. op.addr.nbytes \in Nat /\ op.dummy.nbytes \in Nat /\ op.data.nbytes \in Nat
  BY OpFacts DEF TInv, Looping
<1>2. WrLen(op) \in Nat /\ RdLen(op) \in Nat
  BY <1>1 DEF WrLen, RdLen, Head1
<1>3. << Header(op) >> \in Seq(Piece)
  <2>1. Header(op) \in Piece
    BY <1>2 DEF Header, Piece
  <2> QED
    BY <2>1
<1>4. HeadItems(op) \in Seq(Piece) /\ DataOut(op) \in Seq(Piece)
  BY HeadPieces, DataPieces
<1> QED
  BY <1>3, <1>4 DEF Chunks

LEMMA TSend == ASSUME TInv, Send PROVE TInv'
<1>1. drv = "serprog" /\ pc = "send" /\ UNCHANGED << drv, held, call, far >>
  BY DEF Send
<1>2. UNCHANGED << drv, dir, page, op, buf >> /\ pc \in InOp
  BY <1>1 DEF call, InOp
<1>3. step \in 1 .. Len(Chunks(op)) /\ Chunks(op) \in Seq(Piece)
  BY <1>1, <1>2, ChunksType DEF TInv, OpShape
<1>4. buf' \in [ Columns -> Value ]
  BY <1>2 DEF TInv, FarTyped
<1>5. CASE WriteFails(<< >>) /\ Return(Eio) /\ UNCHANGED step
  <2>1. << >> \in Seq(Item)
    OBVIOUS
  <2>2. Moved
    BY <1>2, <1>5, <2>1, LineMoves
  <2>3. Eio \in Int /\ step' \in Nat
    BY <1>5, Sizes DEF TInv
  <2> QED
    BY <1>1, <1>2, <1>4, <1>5, <2>2, <2>3, TReturns
<1>6. CASE /\ Written(<< Chunks(op)[step] >>)
           /\ IF step < Len(Chunks(op)) THEN pc' = "send" /\ step' = step + 1
              ELSE pc' = "ack" /\ step' = 0
           /\ UNCHANGED loop
  <2>1. Chunks(op)[step] \in Item
    BY <1>1, <1>3 DEF Item
  <2>2. << Chunks(op)[step] >> \in Seq(Item)
    BY <2>1
  <2>3. Moved
    BY <1>2, <1>6, <2>2, LineMoves
  <2>4. pc' \in {"send", "ack"} /\ step' \in Nat
        /\ (pc' = "send" => step' \in 1 .. Len(Chunks(op)))
    BY <1>3, <1>6
  <2>5. Looping'
    BY <1>2, <1>6 DEF TInv, Looping, loop
  <2>6. pc' \in Pcs /\ OwnStates'
    BY <1>1, <2>4 DEF Pcs, OwnStates, SerPcs, Settings
  <2> QED
    BY <1>1, <1>2, <1>4, <1>6, <2>3, <2>4, <2>5, <2>6, TOnwards DEF loop
<1> QED
  BY <1>5, <1>6 DEF Send

LEMMA TOpAck == ASSUME TInv, OpAck PROVE TInv'
<1>1. pc = "ack" /\ drv = "serprog" /\ UNCHANGED << drv, step, held, call, far >>
  BY DEF OpAck, TInv, OwnStates, SerPcs
<1>2. UNCHANGED << drv, dir, page, op, buf >> /\ pc \in InOp
  BY <1>1 DEF call, InOp
<1>3. buf' \in [ Columns -> Value ] /\ step' \in Nat
  BY <1>1, <1>2 DEF TInv, FarTyped
<1>4. PICK ok \in BOOLEAN :
         /\ CheckAck(ok)
         /\ Return(-1) \/ Return(0) \/ (pc' = "data" /\ UNCHANGED loop)
  BY DEF OpAck
<1>5. Moved
  BY <1>2, <1>4, CheckAckMoves
<1>6. CASE Return(-1) \/ Return(0)
  BY <1>1, <1>2, <1>3, <1>5, <1>6, TReturns
<1>7. CASE pc' = "data" /\ UNCHANGED loop
  <2>1. Looping' /\ OwnStates' /\ pc' \in Pcs
    BY <1>1, <1>2, <1>7 DEF TInv, Looping, loop, OwnStates, SerPcs, Settings, Pcs
  <2> QED
    BY <1>1, <1>2, <1>3, <1>5, <1>7, <2>1, TOnwards DEF loop
<1> QED
  BY <1>4, <1>6, <1>7

LEMMA TOpRead == ASSUME TInv, OpRead PROVE TInv'
<1>1. drv = "serprog" /\ pc = "data" /\ UNCHANGED << drv, held, dir, op, page, far >>
  BY DEF OpRead
<1>2. pc \in InOp /\ op.data.nbytes \in Nat /\ step \in Nat /\ up \in Seq(Back)
      /\ buf \in [ Columns -> Value ]
  BY <1>1, OpFacts DEF InOp, TInv, Looping, LineTyped, BackItem, FarTyped
<1>3. CASE ReadFails("read", 0) /\ Return(Eio) /\ UNCHANGED << buf, step >>
  <2>1. Moved /\ Eio \in Int
    BY <1>1, <1>3, LineMoves, Sizes
  <2> QED
    BY <1>1, <1>2, <1>3, <2>1, TReturns
<1>4. ASSUME NEW n \in 1 .. op.data.nbytes - step, n <= Len(up), Received(n),
             step' = step + n,
             IF step' < op.data.nbytes THEN UNCHANGED << pc, loop >> ELSE Return(0)
      PROVE  TInv'
  <2> DEFINE s == [ k \in 1 .. n |-> IF up[k].t = "byte" THEN up[k].v ELSE Stale ]
  <2>1. n \in Nat /\ step' \in Nat
    BY <1>2, <1>4
  <2>2. ASSUME NEW k \in 1 .. n PROVE (IF up[k].t = "byte" THEN up[k].v ELSE Stale) \in Value
    <3>1. up[k] \in Back
      BY <1>2, <1>4, <2>1
    <3>2. up[k].t = "byte" => up[k].v \in Value
      BY <3>1 DEF Back
    <3> QED
      BY <3>2, Sizes
  <2>3. s \in [ 1 .. n -> Value ]
    BY <2>2
  <2>4. Taken(n) /\ buf' = Filled(col + step, s)
    BY <1>4 DEF Received
  <2> HIDE DEF s
  <2>5. s \in Seq(Value)
    BY <2>1, <2>3, FcnIsSeq
  <2>6. buf' \in [ Columns -> Value ]
    BY <1>2, <2>4, <2>5, FilledType
  <2>7. Moved
    BY <1>1, <2>1, <2>4, LineMoves
  <2>8. CASE Return(0)
    BY <1>1, <1>2, <2>1, <2>6, <2>7, <2>8, TReturns
  <2>9. CASE UNCHANGED << pc, loop >>
    <3>1. Looping' /\ OwnStates' /\ pc' \in Pcs
      BY <1>1, <2>9 DEF TInv, Looping, loop, OwnStates, SerPcs, Settings, Pcs
    <3> QED
      BY <1>1, <1>2, <2>1, <2>6, <2>7, <2>9, <3>1, TOnwards DEF loop
  <2> QED
    BY <1>4, <2>8, <2>9
<1> QED
  BY <1>3, <1>4 DEF OpRead

LEMMA TSerprog == ASSUME HInv, TInv, SerProgram PROVE TInv'
BY TSerSetup, TSend, TOpAck, TOpRead DEF SerProgram
(* What the firmware is sent for an operation. *)
LEMMA StreamType ==
    ASSUME TInv, pc \in InOp, drv = "fx2qspi"
    PROVE  Stream(op) \in Seq(Piece)
<1>1. op \in Op /\ LenMod \in Nat \ {0}
  BY Sizes DEF TInv, OpShape
<1>2. ASSUME NEW wires \in Nat, NEW reads \in BOOLEAN, NEW len \in Nat
      PROVE  Phase2(wires, reads, len) \in Piece
  <2>1. len % LenMod \in Nat
    BY <1>1, <1>2
  <2> QED
    BY <2>1 DEF Phase2, Piece
<1>3. /\ op.cmd.width \in Nat /\ op.addr.width \in Nat /\ op.dummy.width \in Nat
      /\ op.data.width \in Nat /\ op.addr.nbytes \in Nat /\ op.dummy.nbytes \in Nat
      /\ op.data.nbytes \in Nat
  BY <1>1 DEF Op, Phase
<1>4. Opcode(op) \in Piece /\ Address \in Piece /\ Bare("dummy") \in Piece
  <2>1. op.dir \in Dirs /\ page \in 0 .. MaxCalls /\ col \in Nat
    BY <1>1, Sizes DEF TInv, Looping, Op
  <2> QED
    BY <1>3, <2>1 DEF Opcode, Address, Bare, Piece
<1> DEFINE dummies == [ k \in 1 .. op.dummy.nbytes |-> Bare("dummy") ]
           cmd   == << Phase2(op.cmd.width, FALSE, 1), Opcode(op) >>
           addr  == << Phase2(op.addr.width, FALSE, op.addr.nbytes), Address >>
           dummy == << Phase2(op.dummy.width, FALSE, op.dummy.nbytes) >>
           data  == << Phase2(op.data.width, op.dir = "in", op.data.nbytes) >>
<1>5. dummies \in Seq(Piece)
  BY <1>3, <1>4
<1>6. \A x, y \in Piece : << x, y >> \in Seq(Piece) /\ << x >> \in Seq(Piece)
  OBVIOUS
<1>7. /\ Phase2(op.cmd.width, FALSE, 1) \in Piece
      /\ Phase2(op.addr.width, FALSE, op.addr.nbytes) \in Piece
      /\ Phase2(op.dummy.width, FALSE, op.dummy.nbytes) \in Piece
      /\ Phase2(op.data.width, op.dir = "in", op.data.nbytes) \in Piece
  BY <1>2, <1>3
<1>8. cmd \in Seq(Piece) /\ addr \in Seq(Piece)
  BY <1>4, <1>6, <1>7
<1>9. dummy \in Seq(Piece) /\ data \in Seq(Piece)
  BY <1>6, <1>7
<1>10. Stream(op) = cmd \o (IF op.addr.nbytes = 0 THEN << >> ELSE addr)
                        \o (IF op.dummy.nbytes = 0 THEN << >> ELSE dummy \o dummies)
                        \o (IF op.data.nbytes = 0 THEN << >> ELSE data)
  BY DEF Stream
<1> HIDE DEF dummies, cmd, addr, dummy, data
<1>11. (IF op.addr.nbytes = 0 THEN << >> ELSE addr) \in Seq(Piece)
  BY <1>8
<1>12. (IF op.dummy.nbytes = 0 THEN << >> ELSE dummy \o dummies) \in Seq(Piece)
  BY <1>5, <1>9
<1>13. (IF op.data.nbytes = 0 THEN << >> ELSE data) \in Seq(Piece)
  BY <1>9
<1> QED
  BY <1>8, <1>10, <1>11, <1>12, <1>13

LEMMA TReset == ASSUME HInv, TInv, ResetOut \/ ResetIn PROVE TInv'
<1>1. drv = "fx2qspi" /\ pc = "reset" /\ UNCHANGED << drv, held, call, loop, far >>
  BY DEF ResetOut, ResetIn, TInv, OwnStates
<1>2. Item = Piece /\ Stages \in Nat /\ step \in Nat
  BY <1>1, StagesOf DEF HInv, TInv, Item
<1>3. Moved
  <2>1. CASE ResetOut
    <3> DEFINE items == IF step <= ResetWrites THEN Zeros
                        ELSE << Bare("garbage"), Bare("zero") >>
    <3>1. Bare("garbage") \in Piece /\ Bare("zero") \in Piece
      BY DEF Bare, Piece
    <3>2. Zeros \in Seq(Piece) /\ << Bare("garbage"), Bare("zero") >> \in Seq(Piece)
      BY <3>1, Sizes DEF Zeros
    <3>3. items \in Seq(Item)
      BY <1>2, <3>2
    <3>4. Written(items) \/ OutFails(items)
      BY <2>1 DEF ResetOut
    <3> HIDE DEF items
    <3> QED
      BY <1>1, <3>3, <3>4, LineMoves, OutFailsMoves
  <2>2. CASE ResetIn
    <3>1. Taken(1) \/ InFails
      BY <2>2 DEF ResetIn
    <3> QED
      BY <1>1, <3>1, LineMoves, InFailsMoves
  <2> QED
    BY <2>1, <2>2
<1>4. step' \in Nat /\ pc' \in {"reset", "idle", "unwind"}
  BY <1>1, <1>2 DEF ResetOut, ResetIn, Unwinds
<1>5. pc' \in Pcs \ InOp /\ OwnStates'
  BY <1>1, <1>4 DEF Pcs, InOp, FxPcs, OwnStates, SerPcs, Settings
<1> QED
  BY <1>1, <1>3, <1>4, <1>5, TOutside

LEMMA TPhases == ASSUME TInv, Phases PROVE TInv'
<1>1. drv = "fx2qspi" /\ pc = "send" /\ UNCHANGED << drv, held, call, far >>
  BY DEF Phases
<1>2. UNCHANGED << drv, dir, page, op, buf >> /\ pc \in InOp /\ Item = Piece
  BY <1>1 DEF call, InOp, Item
<1>3. buf' \in [ Columns -> Value ]
  BY <1>2 DEF TInv, FarTyped
<1>4. Stream(op) \in Seq(Item)
  BY <1>1, <1>2, StreamType
<1>5. Moved
  <2>1. Written(Stream(op)) \/ OutFails(Stream(op))
    BY DEF Phases
  <2> QED
    BY <1>2, <1>4, <2>1, LineMoves, OutFailsMoves
<1>6. CASE Return(-1) /\ UNCHANGED step
  <2>1. step' \in Nat
    BY <1>6 DEF TInv
  <2> QED
    BY <1>1, <1>2, <1>3, <1>5, <1>6, <2>1, TReturns
<1>7. CASE pc' = DataPhase(op) /\ step' = 0 /\ UNCHANGED loop
  <2>1. op.dir = dir /\ (op.data.nbytes = 0 <=> dir = "none") /\ dir \in {"none", "in", "out"}
    BY <1>2, OpFacts DEF TInv, OpShape, Looping, Dirs
  <2>2. pc' \in {"end", "in", "out"} /\ (pc' \in {"in", "out"} => dir = pc')
    BY <1>7, <2>1 DEF DataPhase
  <2>3. Looping' /\ OwnStates' /\ pc' \in Pcs
    BY <1>1, <1>2, <1>7, <2>2
       DEF TInv, Looping, loop, OwnStates, SerPcs, Settings, Pcs, FxPcs
  <2>4. step' \in Nat
    BY <1>7
  <2> QED
    BY <1>1, <1>2, <1>3, <1>5, <1>7, <2>2, <2>3, <2>4, TOnwards DEF loop
<1> QED
  BY <1>6, <1>7 DEF Phases

LEMMA TPackets == ASSUME TInv, PacketsOut \/ PacketsIn \/ End PROVE TInv'
<1>1. drv = "fx2qspi" /\ pc \in {"in", "out", "end"}
      /\ UNCHANGED << drv, held, dir, op, page, far >>
  BY DEF PacketsOut, PacketsIn, End, TInv, OwnStates, call
<1>2. pc \in InOp /\ Item = Piece /\ step \in Nat /\ buf \in [ Columns -> Value ]
  BY <1>1 DEF InOp, Item, TInv, FarTyped
<1>3. CASE PacketsOut \/ End
  <2>1. step' = step /\ buf' = buf
    BY <1>3 DEF PacketsOut, End, call
  <2>2. DataOut(op) \in Seq(Item) /\ << Bare("zero") >> \in Seq(Item)
    <3>1. Bare("zero") \in Piece
      BY DEF Bare, Piece
    <3> QED
      BY <1>2, <3>1, DataPieces
  <2>3. \E items \in {DataOut(op), << Bare("zero") >>} : Written(items) \/ OutFails(items)
    BY <1>3 DEF PacketsOut, End
  <2>4. Moved
    BY <1>1, <2>2, <2>3, LineMoves, OutFailsMoves
  <2>5. CASE Return(0) \/ Return(-1)
    BY <1>1, <1>2, <2>1, <2>4, <2>5, TReturns
  <2>6. CASE pc' = "end" /\ UNCHANGED loop
    <3>1. Looping' /\ OwnStates' /\ pc' \in Pcs
      BY <1>1, <2>6 DEF TInv, Looping, loop, OwnStates, SerPcs, Settings, Pcs, FxPcs
    <3> QED
      BY <1>1, <1>2, <2>1, <2>4, <2>6, <3>1, TOnwards DEF loop
  <2> QED
    BY <1>3, <2>5, <2>6 DEF PacketsOut, End
<1>4. CASE PacketsIn
  <2>1. CASE InFails /\ Return(-1) /\ UNCHANGED << buf, step >>
    <3>1. Moved
      BY <1>1, <2>1, InFailsMoves
    <3> QED
      BY <1>1, <1>2, <2>1, <3>1, TReturns
  <2>2. CASE /\ up # << >> /\ Taken(1)
             /\ buf' = Filled(col + step, up[1])
             /\ step' = step + Len(up[1])
             /\ pc' \in {"in", "end"}
             /\ UNCHANGED loop
    <3>1. up \in Seq(Seq(Value))
      BY <1>1 DEF TInv, LineTyped, BackItem
    <3>2. up[1] \in Seq(Value)
      BY <2>2, <3>1
    <3>3. buf' \in [ Columns -> Value ] /\ step' \in Nat
      BY <1>2, <2>2, <3>2, FilledType
    <3>4. Moved
      BY <1>1, <2>2, LineMoves
    <3>5. Looping' /\ OwnStates' /\ pc' \in Pcs
      BY <1>1, <2>2 DEF TInv, Looping, loop, OwnStates, SerPcs, Settings, Pcs, FxPcs
    <3>6. pc = "in" /\ dir = "in"
      BY <1>4 DEF PacketsIn, TInv, OpShape
    <3> QED
      BY <1>1, <1>2, <2>2, <3>3, <3>4, <3>5, <3>6, TOnwards DEF loop
  <2> QED
    BY <1>4, <2>1, <2>2 DEF PacketsIn
<1> QED
  BY <1>3, <1>4

LEMMA TFx2 == ASSUME HInv, TInv, FxProgram PROVE TInv'
BY TReset, TPhases, TPackets DEF FxProgram
(* The packets of the ch347. *)
LEMMA PacketType ==
    ASSUME NEW cmd \in Cmds, NEW items \in Seq(Piece), NEW rd \in Nat
    PROVE  Packet(cmd, items, rd) \in ToBridge
BY DEF Packet, ToBridge

LEMMA TSetting == ASSUME HInv, TInv, Setting PROVE TInv'
<1>1. drv = "ch347" /\ pc \in Settings /\ UNCHANGED << drv, held, call, loop, far >>
  BY DEF Setting, TInv, OwnStates
<1>2. Stages \in Nat
  BY StagesOf DEF HInv
<1>3. Packet(CmdOf[pc], << >>, 0) \in ToBridge
  <2>1. CmdOf[pc] \in Cmds /\ << >> \in Seq(Piece) /\ 0 \in Nat
    BY <1>1 DEF Settings, CmdOf, Cmds
  <2> QED
    BY <2>1, PacketType
<1>4. Moved
  <2>1. \/ Written(<< Packet(CmdOf[pc], << >>, 0) >>) \/ SendFails(Packet(CmdOf[pc], << >>, 0))
        \/ Receives(CmdOf[pc], 1) \/ ReceiveFails(CmdOf[pc], 1)
    BY DEF Setting
  <2> QED
    BY <1>1, <1>3, <2>1, BridgeMoves
<1>5. step' \in Nat /\ pc' \in {"unwind", "closed", "idle"} \cup Settings
  BY <1>1, <1>2 DEF Setting, GivesUp, Unwinds, NextSetting, Settings
<1>6. pc' \in Pcs \ InOp /\ OwnStates'
  BY <1>1, <1>5 DEF Pcs, InOp, ChPcs, OwnStates, SerPcs, Settings
<1> QED
  BY <1>1, <1>4, <1>5, <1>6, TOutside

LEMMA TSelect == ASSUME TInv, Select PROVE TInv'
<1>1. drv = "ch347" /\ pc = "send" /\ step' = 1 /\ UNCHANGED << drv, held, call, loop, far >>
      /\ ChipSelect(SetCs("low", Small(op)))
      /\ pc' = IF Small(op) THEN "exchange" ELSE "head"
  BY DEF Select
<1>2. UNCHANGED << drv, dir, page, op, buf, col, left >> /\ pc \in InOp
  BY <1>1 DEF call, loop, InOp
<1>3. Moved
  <2>1. Small(op) \in BOOLEAN
    BY DEF Small
  <2> QED
    BY <1>1, <2>1, BridgeMoves
<1>4. dir = "none" => Small(op)
  <2>1. dir = "none" => op.data.nbytes = 0 /\ op.addr = PhaseOf(0, 0) /\ op.dummy = PhaseOf(0, 0)
    BY <1>2, OpFacts, TemplateIs DEF TInv, OpShape, Looping
  <2> QED
    BY <2>1, Sizes DEF Small, Head1, PhaseOf
<1>5. Looping' /\ OwnStates' /\ pc' \in Pcs /\ buf' \in [ Columns -> Value ]
  BY <1>1, <1>2 DEF TInv, Looping, loop, OwnStates, SerPcs, Settings, Pcs, ChPcs, FarTyped
<1> QED
  BY <1>1, <1>2, <1>3, <1>4, <1>5, TOnwards

(* The exchange of an operation that fits buf. *)
LEMMA TExchange == ASSUME TInv, ExchangeOut \/ ExchangeIn PROVE TInv'
<1>1. drv = "ch347" /\ pc = "exchange" /\ UNCHANGED << drv, held, dir, op, page, far >>
  BY DEF ExchangeOut, ExchangeIn, TInv, OwnStates
<1>2. pc \in InOp /\ step \in Nat /\ buf \in [ Columns -> Value ] /\ up \in Seq(Back)
  BY <1>1 DEF InOp, TInv, FarTyped, LineTyped, BackItem
<1>3. RdLen(op) \in Nat
  BY <1>2, OpFacts DEF RdLen, TInv, Looping
<1>4. Whole1(op) \in ToBridge
  <2>1. HeadItems(op) \o DataOut(op) \in Seq(Piece) /\ "trx" \in Cmds
    BY <1>2, HeadPieces, DataPieces DEF Cmds
  <2> QED
    BY <1>3, <2>1, PacketType DEF Whole1
<1>5. Filled(col, [ k \in 1 .. RdLen(op) |-> Stale ]) \in [ Columns -> Value ]
  <2> DEFINE s == [ k \in 1 .. RdLen(op) |-> Stale ]
  <2>1. s \in [ 1 .. RdLen(op) -> Value ]
    BY Sizes
  <2> HIDE DEF s
  <2>2. s \in Seq(Value)
    BY <1>3, <2>1, FcnIsSeq
  <2>3. Filled(col, s) \in [ Columns -> Value ]
    BY <1>2, <2>2, FilledType
  <2> QED
    BY <2>3 DEF s
<1>6. CASE Written(<< Whole1(op) >>) /\ step' = 2 /\ UNCHANGED << pc, loop, buf >>
  <2>1. Moved
    BY <1>1, <1>4, <1>6, BridgeMoves
  <2>2. Looping' /\ OwnStates' /\ pc' \in Pcs
    BY <1>1, <1>6 DEF TInv, Looping, loop, OwnStates, SerPcs, Settings, Pcs, ChPcs
  <2> QED
    BY <1>1, <1>2, <1>6, <2>1, <2>2, TOnwards DEF loop
<1>7. CASE SendFails(Whole1(op)) /\ Return(-1) /\ step' = step
           /\ buf' = Filled(col, [ k \in 1 .. RdLen(op) |-> Stale ])
  <2>1. Moved
    BY <1>1, <1>4, <1>7, BridgeMoves
  <2>2. buf' \in [ Columns -> Value ] /\ step' \in Nat
    BY <1>2, <1>5, <1>7
  <2>3. Return(-1)
    BY <1>7
  <2> QED
    BY <1>1, <1>2, <2>1, <2>2, <2>3, TReturns
<1>8. CASE Receives("trx", TrxLen(op)) /\ (Return(0) \/ Return(-1)) /\ step' = step
           /\ buf' = Filled(col, up[1].data)
  <2>1. Moved
    BY <1>1, <1>8, BridgeMoves
  <2>2. up # << >> /\ up[1].t = "reply"
    BY <1>8 DEF Receives, Fit
  <2>3. up[1] \in Back
    BY <1>2, <2>2
  <2>4. up[1].data \in Seq(Value)
    BY <2>2, <2>3 DEF Back
  <2>5. buf' \in [ Columns -> Value ]
    BY <1>2, <1>8, <2>4, FilledType
  <2> QED
    BY <1>1, <1>2, <1>8, <2>1, <2>5, TReturns
<1>9. CASE ReceiveFails("trx", TrxLen(op)) /\ Return(-1) /\ step' = step
           /\ buf' = Filled(col, [ k \in 1 .. RdLen(op) |-> Stale ])
  <2>1. Moved
    BY <1>1, <1>9, BridgeMoves
  <2>2. buf' \in [ Columns -> Value ] /\ step' \in Nat
    BY <1>2, <1>5, <1>9
  <2>3. Return(-1)
    BY <1>9
  <2> QED
    BY <1>1, <1>2, <2>1, <2>2, <2>3, TReturns
<1> QED
  BY <1>6, <1>7, <1>8, <1>9 DEF ExchangeOut, ExchangeIn
LEMMA THeadOut == ASSUME TInv, HeadOut PROVE TInv'
<1>1. drv = "ch347" /\ pc = "head" /\ UNCHANGED << drv, held, call, far >>
  BY DEF HeadOut, TInv, OwnStates
<1>2. UNCHANGED << dir, page, op, buf >> /\ pc \in InOp /\ step \in Nat /\ dir # "none"
      /\ buf' \in [ Columns -> Value ] /\ op.dir = dir
  BY <1>1, OpFacts DEF call, InOp, TInv, FarTyped, OpShape
<1>3. Packet("write", HeadItems(op), 0) \in ToBridge
  <2>1. HeadItems(op) \in Seq(Piece) /\ "write" \in Cmds /\ 0 \in Nat
    BY <1>2, HeadPieces DEF Cmds
  <2> QED
    BY <2>1, PacketType
<1>4. Moved
  <2>1. \/ Written(<< Packet("write", HeadItems(op), 0) >>)
        \/ SendFails(Packet("write", HeadItems(op), 0))
        \/ Receives("write", 1) \/ ReceiveFails("write", 1)
    BY DEF HeadOut
  <2> QED
    BY <1>1, <1>3, <2>1, BridgeMoves
<1>5. CASE step' = step /\ Return(-1)
  BY <1>1, <1>2, <1>4, <1>5, TReturns
<1>6. CASE pc' \in {"head", op.dir} /\ step' \in {0, 2} /\ UNCHANGED loop
  <2>1. dir \in {"in", "out"}
    BY <1>2 DEF TInv, Looping, Dirs
  <2>2. Looping' /\ OwnStates' /\ pc' \in Pcs /\ step' \in Nat
    BY <1>1, <1>2, <1>6, <2>1
       DEF TInv, Looping, loop, OwnStates, SerPcs, Settings, Pcs, ChPcs
  <2> QED
    BY <1>1, <1>2, <1>4, <1>6, <2>1, <2>2, TOnwards DEF loop
<1> QED
  BY <1>1, <1>5, <1>6 DEF HeadOut

LEMMA TBodyOut == ASSUME TInv, BodyOut PROVE TInv'
<1>1. drv = "ch347" /\ pc = "out" /\ UNCHANGED << drv, held, call, far >>
  BY DEF BodyOut
<1>2. UNCHANGED << dir, page, op, buf >> /\ pc \in InOp /\ step \in Nat /\ dir = "out"
      /\ buf' \in [ Columns -> Value ]
  BY <1>1 DEF call, InOp, TInv, FarTyped, OpShape
<1>3. Packet("write", DataOut(op), 0) \in ToBridge
  <2>1. DataOut(op) \in Seq(Piece) /\ "write" \in Cmds /\ 0 \in Nat
    BY <1>2, DataPieces DEF Cmds
  <2> QED
    BY <2>1, PacketType
<1>4. Moved
  <2>1. \/ Written(<< Packet("write", DataOut(op), 0) >>)
        \/ SendFails(Packet("write", DataOut(op), 0))
        \/ Receives("write", 1) \/ ReceiveFails("write", 1)
    BY DEF BodyOut
  <2> QED
    BY <1>1, <1>3, <2>1, BridgeMoves
<1>5. pc' \in {"out", "sent", "broken"} /\ step' \in {step, 1} /\ UNCHANGED loop
  BY <1>1 DEF BodyOut, Deselecting
<1>6. Looping' /\ OwnStates' /\ pc' \in Pcs /\ step' \in Nat
  BY <1>1, <1>2, <1>5
     DEF TInv, Looping, loop, OwnStates, SerPcs, Settings, Pcs, ChPcs
<1> QED
  BY <1>1, <1>2, <1>4, <1>5, <1>6, TOnwards DEF loop

LEMMA TBodyIn == ASSUME TInv, BodyIn PROVE TInv'
<1>1. drv = "ch347" /\ pc = "in" /\ UNCHANGED << drv, held, dir, op, page, far >>
  BY DEF BodyIn
<1>2. pc \in InOp /\ step \in Nat /\ dir = "in" /\ buf \in [ Columns -> Value ]
      /\ op.data.nbytes \in Nat /\ up \in Seq(Back)
  BY <1>1, OpFacts DEF InOp, TInv, FarTyped, OpShape, LineTyped, BackItem, Looping
<1> DEFINE left1 == op.data.nbytes - (step - 1)
<1>3. pc' \in {"in", "sent", "broken"} /\ UNCHANGED loop
  BY <1>1 DEF BodyIn, Deselecting
<1>4. Looping' /\ OwnStates' /\ pc' \in Pcs
  BY <1>1, <1>2, <1>3
     DEF TInv, Looping, loop, OwnStates, SerPcs, Settings, Pcs, ChPcs
<1>5. SUFFICES Moved /\ buf' \in [ Columns -> Value ] /\ step' \in Nat
  BY <1>1, <1>2, <1>3, <1>4, TOnwards DEF loop
<1>6. CASE buf' = buf /\ step' \in {step, 1}
          /\ \/ Written(<< Packet("read", << >>, op.data.nbytes) >>)
             \/ SendFails(Packet("read", << >>, op.data.nbytes))
             \/ ReceiveFails("read", left1)
  <2>1. << >> \in Seq(Piece) /\ "read" \in Cmds
    BY DEF Cmds
  <2>2. Packet("read", << >>, op.data.nbytes) \in ToBridge
    BY <1>2, <2>1, PacketType
  <2>3. Moved
    BY <1>1, <1>6, <2>2, BridgeMoves
  <2> QED
    BY <1>2, <1>6, <2>3
<1>7. CASE Receives("read", left1) /\ step' = step + up[1].n
           /\ buf' = Filled(col + step - 1, up[1].data)
  <2>1. Moved
    BY <1>1, <1>7, BridgeMoves
  <2>2. up # << >> /\ up[1].t = "reply"
    BY <1>7 DEF Receives, Fit
  <2>3. up[1] \in Back
    BY <1>2, <2>2
  <2>4. up[1].data \in Seq(Value) /\ up[1].n \in Nat
    BY <2>2, <2>3 DEF Back
  <2>5. buf' \in [ Columns -> Value ]
    BY <1>2, <1>7, <2>4, FilledType
  <2> QED
    BY <1>2, <1>7, <2>1, <2>4, <2>5
<1> QED
  BY <1>6, <1>7 DEF BodyIn

LEMMA TDeselect == ASSUME TInv, Deselect PROVE TInv'
<1>1. drv = "ch347" /\ UNCHANGED << drv, step, held, call, far >>
      /\ ChipSelect(SetCs("high", FALSE)) /\ (Return(0) \/ Return(-1))
      /\ pc \in InOp
  BY DEF Deselect, TInv, OwnStates, InOp
<1>2. Moved
  BY <1>1, BridgeMoves
<1>3. UNCHANGED << dir, page, op >> /\ step' \in Nat /\ buf' \in [ Columns -> Value ]
  BY <1>1 DEF call, TInv, FarTyped
<1> QED
  BY <1>1, <1>2, <1>3, TReturns

LEMMA TCh347 == ASSUME HInv, TInv, ChProgram PROVE TInv'
BY TSetting, TSelect, TExchange, THeadOut, TBodyOut, TBodyIn, TDeselect DEF ChProgram

LEMMA TStep == ASSUME HInv, TInv, [Next]_vars PROVE TInv'
<1>1. CASE Common
  BY <1>1, TOpening, TCall, TPart, TPartsEnd DEF Common
<1>2. CASE SerProgram \/ ChProgram \/ FxProgram
  BY <1>2, TSerprog, TCh347, TFx2
<1>3. CASE Device
  BY <1>3, TProgrammer, TBridge, TFirmware DEF Device
<1>4. CASE UNCHANGED vars
  <2>1. Template' = Template /\ Chunks(op)' = Chunks(op)
    BY <1>4 DEF vars, Template, Wires, Chunks, Header, HeadItems, DataOut, Opcode, Address,
                WrLen, RdLen, Head1
  <2>2. OpShape' /\ Looping' /\ LineTyped' /\ FarTyped' /\ OwnStates'
    BY <1>4, <2>1 DEF vars, TInv, OpShape, Looping, LineTyped, FarTyped, OwnStates, Item,
                      BackItem
  <2> QED
    BY <1>4, <2>2 DEF vars, TInv
<1> QED
  BY <1>1, <1>2, <1>3, <1>4 DEF Next, Program
LEMMA TInit == DrvsInit => TInv
<1> SUFFICES ASSUME DrvsInit PROVE TInv
  OBVIOUS
<1>1. /\ drv \in Drvs /\ pc = "open" /\ step = 1 /\ dir = "none" /\ op = ProgLoad(1)
      /\ col = 0 /\ left = 0 /\ outcome = "none" /\ page = 0 /\ down = << >>
      /\ buf = [ c \in Columns |-> Stale ] /\ loaded = [ c \in Columns |-> Stale ]
      /\ refused = FALSE
  BY DEF DrvsInit, Init
<1>2. pc \in Pcs /\ step \in Nat /\ OwnStates
  BY <1>1 DEF Pcs, OwnStates, SerPcs, Settings
<1>3. Looping
  BY <1>1, Sizes DEF Looping, Dirs
<1>4. OpShape
  <2>1. op \in Op
    BY <1>1 DEF ProgLoad, PhaseOf, Op, Phase, Dirs
  <2> QED
    BY <1>1, <2>1 DEF OpShape, InOp
<1>5. glitch \in Glitches /\ dev \in DevType /\ up \in Seq(BackItem)
  <2>1. CASE drv = "serprog"
    <3>1. SerInit
      BY <2>1 DEF DrvsInit
    <3>2. dev = Idle \/ \E n \in 1 .. 2, rd \in 0 .. 1 : dev = Dev("op", n, rd, << >>)
      BY <3>1 DEF SerInit
    <3>3. \A n \in 1 .. 2, rd \in 0 .. 1 : Dev("op", n, rd, << >>) \in DevType
      BY DEF Dev, DevType
    <3>5. dev \in DevType
      BY <3>2, <3>3, DevHas
    <3>4. up = << >> /\ glitch = "none"
      BY <3>1 DEF SerInit
    <3> QED
      BY <3>4, <3>5 DEF Glitches
  <2>2. CASE drv = "ch347"
    <3>1. ChInit
      BY <2>2 DEF DrvsInit
    <3>2. Selected(<< Bare("opcode of another run") >>) \in DevType
      <4> DEFINE other == Bare("opcode of another run")
      <4>1. other \in Piece
        BY DEF Bare, Piece
      <4> HIDE DEF other
      <4>2. << other >> \in Seq(Piece)
        BY <4>1
      <4>3. Selected(<< other >>) \in DevType
        BY <4>2 DEF Selected, Dev, DevType
      <4> QED
        BY <4>3 DEF other
    <3>3. dev \in DevType
      BY <3>1, <3>2, DevHas DEF ChInit
    <3>4. \A cmd \in SetCmds \cup {"trx", "write", "read"} :
             << Reply(cmd, 1, << Stale >>) >> \in Seq(Back)
      <4> TAKE cmd \in SetCmds \cup {"trx", "write", "read"}
      <4>1. << Stale >> \in Seq(Value) /\ cmd \in Cmds
        BY Sizes DEF SetCmds, Cmds
      <4>2. Reply(cmd, 1, << Stale >>) \in Back
        BY <4>1 DEF Reply, Back
      <4> QED
        BY <4>2
    <3>5. up = << >> \/ \E cmd \in SetCmds \cup {"trx", "write", "read"} :
                             up = << Reply(cmd, 1, << Stale >>) >>
      BY <3>1 DEF ChInit
    <3>6. up \in Seq(Back)
      <4>1. << >> \in Seq(Back)
        OBVIOUS
      <4> QED
        BY <3>4, <3>5, <4>1, Zenon
    <3>7. glitch = "none"
      BY <3>1 DEF ChInit
    <3> QED
      BY <2>2, <3>3, <3>6, <3>7 DEF BackItem, Glitches
  <2>3. CASE drv = "fx2qspi"
    <3>1. FxInit
      BY <2>3 DEF DrvsInit
    <3>2. dev = Idle \/ \E n \in 1 .. Bytes : dev = Dev("out", n, 1, << >>)
      BY <3>1 DEF FxInit
    <3>3. \A n \in 1 .. Bytes : StaleBytes(n) \in Seq(Value)
      BY Sizes, StaleType
    <3>4. \A n \in 1 .. Bytes : Packets(StaleBytes(n)) \in Seq(Seq(Value))
      BY <3>3, PacketsType
    <3>5. dev \in DevType
      <4>1. \A n \in 1 .. Bytes : Dev("out", n, 1, << >>) \in DevType
        BY Sizes DEF Dev, DevType
      <4> QED
        BY <3>2, <4>1, DevHas
    <3>8. glitch \in Glitches
      BY <3>1 DEF FxInit, Glitches
    <3>6. up = << >> \/ \E n \in 1 .. Bytes : up = Packets(StaleBytes(n))
      BY <3>1 DEF FxInit
    <3>7. up \in Seq(Seq(Value))
      <4>1. << >> \in Seq(Seq(Value))
        OBVIOUS
      <4> QED
        BY <3>4, <3>6, <4>1, Zenon
    <3> QED
      BY <2>3, <3>5, <3>7, <3>8 DEF BackItem
  <2> QED
    BY <1>1, <2>1, <2>2, <2>3, DriverNames
<1>6. LineTyped /\ FarTyped
  <2>1. buf \in [ Columns -> Value ] /\ loaded \in [ Columns -> Value ]
    BY <1>1, Sizes
  <2>2. down \in Seq(Item)
    BY <1>1
  <2> QED
    BY <1>1, <1>5, <2>1, <2>2 DEF LineTyped, FarTyped, DevType
<1> QED
  BY <1>2, <1>3, <1>4, <1>6 DEF TInv

(* Every variable keeps to its set, whatever is read, cut short or refused *)
(* on the way: the page's column and what is left of it always add up to   *)
(* the page, across every part that adjust_op_size of an adapter makes of  *)
(* it, and what is read is filled into databuf and nowhere else.           *)
THEOREM TypeCorrect == Spec => []TypeOK
<1>1. DrvsInit => HInv /\ TInv
  BY HInvInit, TInit
<1>2. (HInv /\ TInv) /\ [Next]_vars => (HInv /\ TInv)'
  BY HInvStep, TStep
<1>3. HInv /\ TInv => TypeOK
  <2> SUFFICES ASSUME HInv, TInv PROVE TypeOK
    OBVIOUS
  <2>1. held \subseteq UNION { Opened[d][k] : d \in {drv}, k \in 1 .. Stages }
    BY DEF HInv, Owned, TakenBy
  <2>2. { buf, loaded } \subseteq [ Columns -> (0 .. MaxCalls) \X Columns ]
        /\ dev.mode \in {"idle", "freq", "op", "selected", "auto", "out", "lost"}
        /\ refused \in BOOLEAN /\ glitch \in Glitches
    BY DEF TInv, FarTyped, Value
  <2>6. glitch \in {"none", "now", "past", "left"}
    BY <2>2 DEF Glitches
  <2>3. drv \in Drvs /\ step \in Nat /\ op \in Op
    BY DEF HInv, TInv, OpShape
  <2>4. pc \in {"open", "unwind", "idle", "part", "send", "data", "closed"}
                 \cup SerPcs \cup ChPcs \cup FxPcs
    BY DEF TInv, Pcs
  <2>5. dir \in Dirs /\ col \in 0 .. Bytes /\ left \in 0 .. Bytes
        /\ (dir # "none" => col + left = Bytes)
        /\ outcome \in {"none", "done", "failed"} /\ page \in 0 .. MaxCalls
    BY DEF TInv, Looping
  <2> QED
    BY <2>1, <2>2, <2>3, <2>4, <2>5, <2>6 DEF TypeOK
<1> QED
  BY <1>1, <1>2, <1>3, PTL DEF Spec
=============================================================================
