------------------------- MODULE SpiNandInit_proofs -------------------------
(***************************************************************************)
(* What spinand_init leaves behind, for every number of dies, every table  *)
(* and every pattern of failed commands.                                   *)
(***************************************************************************)
EXTENDS SpiNandEcc, SequenceTheorems, WellFoundedInduction, TLAPS

CachedPcs == {"quad", "otp", "vendor", "bufread", "unlock", "unlocking", "ready"}
Known == pc \in CachedPcs \cup {"detected", "cache", "readcfg"} /\ info = part

(* The chip as the RESET leaves it. *)
Early == pc \in {"reset", "id"} => sel = 0 /\ cur = 0 /\ die \in [ Dies -> Register ]

(* cur_target is the selected die, and loops stay within the dies. *)
OnDie == Known => /\ die \in [ Dies -> Register ]
                  /\ sel \in Dies /\ cur = sel
                  /\ turn \in 0 .. part.ntargets
                  /\ pc \in {"readcfg", "bufread", "unlocking"} => turn \in Dies
                  /\ pc \in {"readcfg", "unlocking"} => sel = turn
                  /\ pc = "detected" => turn = 0
                  /\ pc = "vendor" /\ info.mfr # Winbond => turn = 0
                  /\ pc = "bufread" => info.mfr = Winbond

(* cfg_cache holds the registers read so far. *)
Cached == Known =>
    /\ pc # "detected" => cache \in [ Dies -> SUBSET Bits ]
    /\ \A d \in Dies : \/ pc \in CachedPcs
                       \/ pc \in {"cache", "readcfg"} /\ d < turn
                       => cache[d] = die[d].cfg

(* The dies unlocked so far. *)
Unlocked == Known =>
    /\ pc \in {"unlock", "unlocking"} => \A d \in Dies : d < turn => ~ die[d].locked
    /\ pc = "unlock" /\ turn > 0 => sel = turn - 1
    /\ pc = "ready" => sel = part.ntargets - 1 /\ \A d \in Dies : ~ die[d].locked

IInv == part \in Info /\ Early /\ OnDie /\ Cached /\ Unlocked

LEMMA Initially == Init => IInv
<1> SUFFICES ASSUME Init PROVE IInv
  OBVIOUS
<1>1. part \in Info
  BY InitAssumption DEF Init
<1>2. die \in [ Dies -> Register ]
  BY DEF Init, Register, BitsOf, Bits
<1> QED
  BY <1>1, <1>2 DEF Init, IInv, Early, OnDie, Cached, Unlocked, Known, CachedPcs

(* There is a die 0, and the targets of the loops are the dies. *)
LEMMA DieNumbers ==
    ASSUME IInv
    PROVE  /\ part.ntargets \in Nat \ {0} /\ 0 \in Dies
           /\ Known => Targets = Dies
BY DEF IInv, Info, Dies, Targets, Known

(* A die is selected, or everything stays. *)
LEMMA SelectFacts ==
    ASSUME IInv, Known, NEW t \in Dies, NEW ok \in BOOLEAN, Select(t, ok)
    PROVE  /\ ok => cur' = t /\ sel' = t
           /\ ~ ok => cur' = cur /\ sel' = sel
           /\ sel' \in Dies /\ cur' = sel'
<1>1. part.ntargets \in Nat \ {0} /\ sel \in Dies /\ cur = sel
  BY DieNumbers DEF IInv, OnDie
<1>2. CASE cur = t \/ info.ntargets = 1
  <2>1. ok /\ cur' = t /\ sel' = sel
    BY <1>2 DEF Select
  <2>2. sel = t
    BY <1>1, <1>2 DEF Dies, Known
  <2> QED
    BY <2>1, <2>2
<1>3. CASE ~ (cur = t \/ info.ntargets = 1)
  <2>1. IF ok THEN cur' = t /\ sel' = t ELSE UNCHANGED << cur, sel >>
    BY <1>3 DEF Select
  <2> QED
    BY <2>1, <1>1
<1> QED
  BY <1>2, <1>3

(* The register and its cached value change together, or not at all. *)
LEMMA UpdFacts ==
    ASSUME IInv, Known, pc \in CachedPcs,
           NEW mask, NEW val \in SUBSET Bits, NEW ok \in BOOLEAN,
           UpdCfg(mask, val, ok)
    PROVE  /\ die' \in [ Dies -> Register ] /\ cache' \in [ Dies -> SUBSET Bits ]
           /\ \A d \in Dies : /\ cache'[d] = die'[d].cfg
                              /\ die'[d].locked = die[d].locked
<1> DEFINE wanted == (cache[cur] \ mask) \cup val
<1>1. /\ die \in [ Dies -> Register ] /\ cache \in [ Dies -> SUBSET Bits ]
      /\ sel \in Dies /\ cur = sel
      /\ \A d \in Dies : cache[d] = die[d].cfg
  BY DEF IInv, OnDie, Cached, CachedPcs
<1>2. wanted \in SUBSET Bits
  BY <1>1
<1>3. CASE UNCHANGED << die, cache >>
  BY <1>1, <1>3
<1>4. CASE /\ die' = [ die EXCEPT ![sel].cfg = wanted ]
           /\ cache' = [ cache EXCEPT ![cur] = wanted ]
  <2>1. [ die[sel] EXCEPT !.cfg = wanted ] \in Register
    BY <1>1, <1>2 DEF Register
  <2>2. die' \in [ Dies -> Register ] /\ cache' \in [ Dies -> SUBSET Bits ]
    BY <1>1, <1>2, <1>4, <2>1
  <2>3. ASSUME NEW d \in Dies
        PROVE  cache'[d] = die'[d].cfg /\ die'[d].locked = die[d].locked
    BY <1>1, <1>2, <1>4 DEF Register
  <2> QED
    BY <2>2, <2>3
<1> QED
  BY <1>3, <1>4 DEF UpdCfg
-----------------------------------------------------------------------------
LEMMA Consecution == IInv /\ [Next]_vars => IInv'
<1> SUFFICES ASSUME IInv, [Next]_vars PROVE IInv'
  OBVIOUS
<1> USE DEF CachedPcs
<1>0. /\ part.ntargets \in Nat \ {0} /\ 0 \in Dies
      /\ Known => Targets = Dies
      /\ part \in Info
  BY DieNumbers DEF IInv
<1>1. CASE UNCHANGED vars
  BY <1>1 DEF vars, IInv, Early, OnDie, Cached, Unlocked, Known, Dies
<1>2. CASE Reset
  BY <1>2 DEF Reset, Proceed, chip, IInv, Early, OnDie, Cached, Unlocked, Known, Dies
<1>3. CASE ReadId
  <2>1. UNCHANGED << part, sel, die, cur >> /\ pc = "id"
    BY <1>3 DEF ReadId, chip
  <2>2. pc' \in {"id", "failed", "detected"} /\ (pc' = "detected" => turn' = 0)
    BY <1>3 DEF ReadId, Proceed
  <2>3. sel = 0 /\ cur = 0 /\ die \in [ Dies -> Register ]
    BY <2>1 DEF IInv, Early
  <2>4. Dies' = Dies
    BY <2>1 DEF Dies
  <2> QED
    BY <1>0, <2>1, <2>2, <2>3, <2>4
    DEF IInv, Early, OnDie, Cached, Unlocked, Known
<1>4. CASE Detected
  <2>1. UNCHANGED << part, sel, die, cur, turn, info >> /\ pc = "detected"
        /\ pc' \in {"failed", "cache"} /\ cache' = [ t \in Targets |-> {} ]
    BY <1>4 DEF Detected, chip
  <2> QED
    BY <1>0, <2>1 DEF IInv, Early, OnDie, Cached, Unlocked, Known, Dies
(* The selects of the three loops; Winbond's goes on after a failure. *)
<1>5. CASE CacheSelect
  <2>1. /\ UNCHANGED << part, die, turn, info, cache >> /\ pc = "cache"
        /\ turn \in Targets
        /\ \E ok \in BOOLEAN : /\ Select(turn, ok)
                               /\ pc' = IF ok THEN "readcfg" ELSE "failed"
    BY <1>5 DEF CacheSelect, Proceed
  <2>2. ASSUME Known, pc' # "failed"
        PROVE  turn \in Dies /\ pc' = "readcfg" /\ cur' = turn /\ sel' = turn
    BY <1>0, <2>1, <2>2, SelectFacts
  <2>3. pc' \in {"readcfg", "failed"}
    BY <2>1
  <2> QED
    BY <2>1, <2>2, <2>3 DEF IInv, Early, OnDie, Cached, Unlocked, Known, Dies
<1>6. CASE WinbondSelect
  <2>1. /\ UNCHANGED << part, die, turn, info, cache >> /\ pc = "vendor"
        /\ turn \in Targets /\ pc' = "bufread"
        /\ \E ok \in BOOLEAN : Select(turn, ok)
        /\ info.mfr = Winbond
    BY <1>6 DEF WinbondSelect
  <2>2. ASSUME Known
        PROVE  turn \in Dies /\ sel' \in Dies /\ cur' = sel'
    BY <1>0, <2>1, <2>2, SelectFacts
  <2>3. ASSUME Known
        PROVE  /\ die \in [ Dies -> Register ] /\ turn \in 0 .. part.ntargets
               /\ cache \in [ Dies -> SUBSET Bits ]
               /\ \A d \in Dies : cache[d] = die[d].cfg
    BY <2>1, <2>3 DEF IInv, OnDie, Cached
  <2>4. part' \in Info /\ Dies' = Dies /\ (Known' => Known)
    BY <1>0, <2>1 DEF Dies, Known
  <2> QED
    BY <2>1, <2>2, <2>3, <2>4 DEF IInv, Early, OnDie, Cached, Unlocked, Known
<1>7. CASE UnlockSelect
  <2>1. /\ UNCHANGED << part, die, turn, info, cache >> /\ pc = "unlock"
        /\ turn \in Targets
        /\ \E ok \in BOOLEAN : /\ Select(turn, ok)
                               /\ pc' = IF ok THEN "unlocking" ELSE "failed"
    BY <1>7 DEF UnlockSelect, Proceed
  <2>2. ASSUME Known, pc' # "failed"
        PROVE  turn \in Dies /\ pc' = "unlocking" /\ cur' = turn /\ sel' = turn
    BY <1>0, <2>1, <2>2, SelectFacts
  <2>3. pc' \in {"unlocking", "failed"}
    BY <2>1
  <2> QED
    BY <2>1, <2>2, <2>3 DEF IInv, Early, OnDie, Cached, Unlocked, Known, Dies
(* Reading a register, and unlocking. *)
<1>8. CASE CacheRead
  <2>1. /\ UNCHANGED << part, sel, die, info, cur >> /\ pc = "readcfg"
        /\ \/ /\ pc' = "cache" /\ turn' = turn + 1
              /\ cache' = [ cache EXCEPT ![turn] = die[sel].cfg ]
           \/ pc' = "failed"
    BY <1>8 DEF CacheRead, Proceed, chip, Outcomes
  <2>2. ASSUME Known, pc' = "cache"
        PROVE  /\ turn' \in 0 .. part.ntargets
               /\ cache' \in [ Dies -> SUBSET Bits ]
               /\ \A d \in Dies : d < turn' => cache'[d] = die[d].cfg
    <3>1. /\ turn \in Dies /\ sel = turn /\ die \in [ Dies -> Register ]
          /\ cache \in [ Dies -> SUBSET Bits ]
          /\ \A d \in Dies : d < turn => cache[d] = die[d].cfg
      BY <2>1, <2>2 DEF IInv, OnDie, Cached
    <3>2. die[turn].cfg \in SUBSET Bits
      BY <3>1 DEF Register
    <3>3. turn' \in 0 .. part.ntargets
      BY <1>0, <2>1, <2>2, <3>1 DEF Dies
    <3>4. cache' \in [ Dies -> SUBSET Bits ]
      BY <2>1, <2>2, <3>1, <3>2
    <3>5. ASSUME NEW d \in Dies, d < turn' PROVE cache'[d] = die[d].cfg
      <4>1. d = turn \/ d < turn
        BY <1>0, <2>1, <2>2, <3>1, <3>5 DEF Dies
      <4> QED
        BY <2>1, <2>2, <3>1, <4>1
    <3> QED
      BY <3>3, <3>4, <3>5
  <2> QED
    BY <2>1, <2>2 DEF IInv, Early, OnDie, Cached, Unlocked, Known, Dies
<1>9. CASE Unlock
  <2>1. /\ UNCHANGED << part, sel, info, cur, cache >> /\ pc = "unlocking"
        /\ \/ /\ pc' = "unlock" /\ turn' = turn + 1
              /\ die' = [ die EXCEPT ![sel].locked = FALSE ]
           \/ pc' = "failed"
    BY <1>9 DEF Unlock, Proceed, Outcomes
  <2>2. ASSUME Known, pc' = "unlock"
        PROVE  /\ turn' \in 0 .. part.ntargets /\ sel = turn' - 1
               /\ die' \in [ Dies -> Register ]
               /\ \A d \in Dies : die'[d].cfg = die[d].cfg
               /\ \A d \in Dies : d < turn' => ~ die'[d].locked
    <3>1. /\ turn \in Dies /\ sel = turn /\ die \in [ Dies -> Register ]
          /\ \A d \in Dies : d < turn => ~ die[d].locked
      BY <2>1, <2>2 DEF IInv, OnDie, Unlocked
    <3>2. turn' \in 0 .. part.ntargets /\ sel = turn' - 1
      BY <1>0, <2>1, <2>2, <3>1 DEF Dies
    <3>3. die' \in [ Dies -> Register ] /\ \A d \in Dies : die'[d].cfg = die[d].cfg
      <4>1. /\ [ die[sel] EXCEPT !.locked = FALSE ] \in Register
            /\ [ die[sel] EXCEPT !.locked = FALSE ].cfg = die[sel].cfg
        BY <3>1 DEF Register
      <4>2. die' = [ die EXCEPT ![sel] = [ die[sel] EXCEPT !.locked = FALSE ] ]
        BY <2>1, <2>2
      <4> QED
        BY <3>1, <4>1, <4>2
    <3>4. ASSUME NEW d \in Dies, d < turn' PROVE ~ die'[d].locked
      <4>1. d = turn \/ d < turn
        BY <1>0, <2>1, <2>2, <3>1, <3>4 DEF Dies
      <4> QED
        BY <2>1, <2>2, <3>1, <4>1 DEF Register
    <3> QED
      BY <3>2, <3>3, <3>4
  <2> QED
    BY <2>1, <2>2 DEF IInv, Early, OnDie, Cached, Unlocked, Known, Dies
(* The updates of a configuration register. *)
<1>10. CASE QuadEnable
  <2>1. /\ UNCHANGED << part, sel, turn, info, cur >> /\ pc = "quad"
        /\ pc' \in {"otp", "failed"}
        /\ \/ UNCHANGED << die, cache >>
           \/ \E ok \in BOOLEAN, val \in SUBSET Bits : UpdCfg({"quad"}, val, ok)
    BY <1>10 DEF QuadEnable, Proceed, Bits
  <2>2. ASSUME Known
        PROVE  /\ die' \in [ Dies -> Register ] /\ cache' \in [ Dies -> SUBSET Bits ]
               /\ \A d \in Dies : cache'[d] = die'[d].cfg
    BY <2>1, <2>2, UpdFacts DEF IInv, OnDie, Cached
  <2> QED
    BY <2>1, <2>2 DEF IInv, Early, OnDie, Cached, Unlocked, Known, Dies
<1>11. CASE OtpDisable
  <2>1. /\ UNCHANGED << part, sel, info, cur >> /\ pc = "otp" /\ turn' = 0
        /\ pc' \in {"vendor", "failed"}
        /\ \E ok \in BOOLEAN : UpdCfg({"otp"}, {}, ok)
    BY <1>11 DEF OtpDisable, Proceed
  <2>2. ASSUME Known
        PROVE  /\ die' \in [ Dies -> Register ] /\ cache' \in [ Dies -> SUBSET Bits ]
               /\ \A d \in Dies : cache'[d] = die'[d].cfg
    BY <2>1, <2>2, UpdFacts
  <2> QED
    BY <1>0, <2>1, <2>2 DEF IInv, Early, OnDie, Cached, Unlocked, Known, Dies
<1>12. CASE MicronInit
  <2>1. /\ UNCHANGED << part, sel, info, cur, turn >> /\ pc = "vendor"
        /\ info.mfr # Winbond /\ pc' \in {"unlock", "failed"}
        /\ \E ok \in BOOLEAN : UpdCfg({"cr"}, {}, ok)
    BY <1>12 DEF MicronInit, Proceed, Micron, Winbond
  <2>2. ASSUME Known
        PROVE  /\ die' \in [ Dies -> Register ] /\ cache' \in [ Dies -> SUBSET Bits ]
               /\ \A d \in Dies : cache'[d] = die'[d].cfg
    BY <2>1, <2>2, UpdFacts
  <2> QED
    BY <1>0, <2>1, <2>2 DEF IInv, Early, OnDie, Cached, Unlocked, Known, Dies
<1>13. CASE WinbondBufRead
  <2>1. /\ UNCHANGED << part, sel, info, cur >> /\ pc = "bufread"
        /\ turn' = turn + 1 /\ pc' = "vendor"
        /\ \E ok \in BOOLEAN : UpdCfg({"buf"}, {"buf"}, ok)
    BY <1>13 DEF WinbondBufRead
  <2>2. ASSUME Known
        PROVE  /\ die' \in [ Dies -> Register ] /\ cache' \in [ Dies -> SUBSET Bits ]
               /\ \A d \in Dies : cache'[d] = die'[d].cfg
    BY <2>1, <2>2, UpdFacts DEF Bits
  <2>3. Known => info.mfr = Winbond
    BY <2>1 DEF IInv, OnDie
  <2> QED
    BY <1>0, <2>1, <2>2, <2>3 DEF IInv, Early, OnDie, Cached, Unlocked, Known, Dies
(* The ends of the loops. *)
<1>14. CASE CacheEnds
  BY <1>0, <1>14 DEF CacheEnds, chip, IInv, Early, OnDie, Cached, Unlocked, Known, Dies
<1>15. CASE NoVendorInit
  BY <1>0, <1>15 DEF NoVendorInit, chip, IInv, Early, OnDie, Cached, Unlocked, Known, Dies
<1>16. CASE WinbondEnds
  BY <1>0, <1>16 DEF WinbondEnds, chip, IInv, Early, OnDie, Cached, Unlocked, Known, Dies
<1>17. CASE UnlockEnds
  BY <1>0, <1>17 DEF UnlockEnds, chip, IInv, Early, OnDie, Cached, Unlocked, Known, Dies
<1> QED
  BY <1>1, <1>2, <1>3, <1>4, <1>5, <1>6, <1>7, <1>8, <1>9, <1>10, <1>11, <1>12,
     <1>13, <1>14, <1>15, <1>16, <1>17 DEF Next

(* Whatever initialisation did, this holds of it all the way. *)
THEOREM Invariance == Spec => []IInv
BY Initially, Consecution, PTL DEF Spec

(* What SpiNandCore starts from: the last die is selected, cur_target says *)
(* so, and cfg_cache is right, though Winbond's setup ignores failures.    *)
THEOREM CacheHandedOver == Spec => []ReadyForCalls
<1>1. IInv => ReadyForCalls
  BY DEF IInv, OnDie, Cached, Unlocked, Known, CachedPcs, ReadyForCalls
<1> QED
  BY <1>1, Invariance, PTL

(* No die is left locked (core.c:823).                                     *)
THEOREM EveryDieUnlocked == Spec => []AllUnlocked
<1>1. IInv => AllUnlocked
  BY DEF IInv, Unlocked, Known, CachedPcs, AllUnlocked
<1> QED
  BY <1>1, Invariance, PTL
-----------------------------------------------------------------------------
(* The rest of what initialisation promises rests on the chip having been  *)
(* taken for the right one: identifiers first.                             *)
LEMMA LeastExists ==
    ASSUME NEW S \in SUBSET Nat, S # {}
    PROVE  \E k \in S : \A j \in S : k <= j
<1> DEFINE R == { ss \in Nat \X Nat : ss[1] < ss[2] }
<1>1. IsWellFoundedOn(R, Nat)
  BY NatLessThanWellFounded DEF OpToRel
<1>2. PICK k \in S : \A j \in S : << j, k >> \notin R
  BY <1>1, WFMin
<1>3. ASSUME NEW j \in S PROVE k <= j
  <2>1. << j, k >> \in Nat \X Nat /\ << j, k >> \notin R
    BY <1>2
  <2>2. ~ (j < k)
    BY <2>1
  <2>3. j \in Nat /\ k \in Nat
    OBVIOUS
  <2> QED
    BY <2>2, <2>3
<1> QED
  BY <1>3

LEMMA FirstIn ==
    ASSUME NEW S \in SUBSET Nat, S # {}
    PROVE  First(S) \in S
BY LeastExists DEF First

(* The four bytes read, by when the chip answers and when it was expected  *)
(* to.                                                                     *)
LEMMA IdBytesFacts ==
    ASSUME NEW p \in Info, Len(p.devid) \in 1 .. 3, NEW method
    PROVE  LET id == IdBytes(p, method)
           IN  /\ Late(p) /\ method = "opcode" => id[1] = Junk
               /\ ~ Late(p) /\ method # "opcode" => id[1] = p.devid[1]
               /\ (Late(p) <=> method # "opcode") =>
                     /\ id[1] = p.mfr
                     /\ \A k \in 1 .. Len(p.devid) : id[k + 1] = p.devid[k]
<1> DEFINE B == Nat \cup {Junk}
           n == Len(p.devid)
           pad == << Junk, Junk, Junk, Junk >>
           body == << p.mfr >> \o p.devid
           id == body \o pad
<1>1. p.mfr \in B /\ p.devid \in Seq(B) /\ n \in 1 .. 3 /\ Junk \in B
  BY DEF Info
<1>n. n = Len(p.devid)
  OBVIOUS
<1> HIDE DEF n
<1>2. << p.mfr >> \in Seq(B) /\ Len(<< p.mfr >>) = 1 /\ << p.mfr >>[1] = p.mfr
  BY <1>1
<1>3. pad \in Seq(B) /\ Len(pad) = 4
  BY <1>1
<1>4. /\ body \in Seq(B) /\ Len(body) = n + 1 /\ body[1] = p.mfr
      /\ \A k \in 1 .. n : body[k + 1] = p.devid[k]
  <2>1. /\ body \in Seq(B) /\ Len(body) = Len(<< p.mfr >>) + n
        /\ \A i \in 1 .. Len(<< p.mfr >>) + n :
              body[i] = IF i <= Len(<< p.mfr >>) THEN << p.mfr >>[i]
                        ELSE p.devid[i - Len(<< p.mfr >>)]
    BY <1>1, <1>2, <1>n, ConcatProperties
  <2> HIDE DEF body
  <2>2. /\ Len(body) = n + 1
        /\ \A i \in 1 .. n + 1 :
              body[i] = IF i <= 1 THEN << p.mfr >>[i] ELSE p.devid[i - 1]
    BY <1>1, <1>2, <2>1
  <2>3. body[1] = p.mfr
    BY <1>1, <1>2, <2>2
  <2>4. ASSUME NEW k \in 1 .. n PROVE body[k + 1] = p.devid[k]
    <3>1. k + 1 \in 1 .. n + 1 /\ ~ (k + 1 <= 1) /\ (k + 1) - 1 = k
      BY <1>1
    <3> QED
      BY <2>2, <3>1
  <2> QED
    BY <2>1, <2>2, <2>3, <2>4
<1> HIDE DEF body, pad
<1>5. /\ id \in Seq(B) /\ Len(id) = n + 5 /\ id[1] = p.mfr
      /\ \A k \in 1 .. n : id[k + 1] = p.devid[k]
  <2>1. /\ id \in Seq(B) /\ Len(id) = Len(body) + Len(pad)
        /\ \A i \in 1 .. Len(body) + Len(pad) :
              id[i] = IF i <= Len(body) THEN body[i] ELSE pad[i - Len(body)]
    BY <1>3, <1>4, ConcatProperties
  <2> HIDE DEF id
  <2>2. Len(id) = n + 5
    BY <1>1, <1>3, <1>4, <2>1
  <2>3. ASSUME NEW i \in 1 .. n + 1 PROVE id[i] = body[i]
    <3>1. i \in 1 .. Len(body) + Len(pad) /\ i <= Len(body)
      BY <1>1, <1>3, <1>4
    <3> QED
      BY <2>1, <3>1
  <2>4. id[1] = p.mfr
    BY <1>1, <1>4, <2>3
  <2>5. ASSUME NEW k \in 1 .. n PROVE id[k + 1] = p.devid[k]
    BY <1>1, <1>4, <2>3
  <2> QED
    BY <2>1, <2>2, <2>4, <2>5
<1> HIDE DEF id
(* SubSeq keeps the first four elements. *)
<1>6. ASSUME NEW s \in Seq(B), Len(s) >= 4
      PROVE  \A i \in 1 .. 4 : SubSeq(s, 1, 4)[i] = s[i]
  <2>1. \A i \in 1 .. 4 : s[i] \in B
    BY <1>6
  <2>2. \A i \in 1 .. 4 - 1 + 1 : SubSeq(s, 1, 4)[i] = s[1 + i - 1]
    BY <2>1, SubSeqProperties
  <2> QED
    BY <2>2
<1>7. CASE Late(p) /\ method = "opcode"
  <2> DEFINE t == << Junk >> \o id
  <2>1. IdBytes(p, method) = SubSeq(t, 1, 4)
    BY <1>7 DEF IdBytes, Late, id, body, pad
  <2>2. << Junk >> \in Seq(B) /\ Len(<< Junk >>) = 1 /\ << Junk >>[1] = Junk
    BY <1>1
  <2>3. /\ t \in Seq(B) /\ Len(t) = 1 + Len(id)
        /\ \A i \in 1 .. 1 + Len(id) : t[i] = IF i <= 1 THEN << Junk >>[i]
                                              ELSE id[i - 1]
    BY <2>2, <1>5, ConcatProperties
  <2> HIDE DEF t
  <2>4. t[1] = Junk /\ Len(t) >= 4
    <3>1. 1 \in 1 .. 1 + Len(id) /\ Len(t) = n + 6
      BY <1>1, <1>5, <2>3
    <3> QED
      BY <1>1, <2>2, <2>3, <3>1
  <2>5. SubSeq(t, 1, 4)[1] = t[1]
    BY <1>6, <2>3, <2>4
  <2> QED
    BY <1>7, <2>1, <2>4, <2>5
<1>8. CASE ~ Late(p) /\ method # "opcode"
  <2>1. IdBytes(p, method) = SubSeq(Tail(id), 1, 4)
    BY <1>8 DEF IdBytes, Late, id, body, pad
  <2>2. id # << >>
    BY <1>1, <1>5
  <2>3. /\ Tail(id) \in Seq(B) /\ Len(Tail(id)) = n + 4
        /\ \A i \in 1 .. Len(Tail(id)) : Tail(id)[i] = id[i + 1]
    BY <1>1, <1>5, <2>2, HeadTailProperties
  <2>4. Tail(id)[1] = p.devid[1] /\ Len(Tail(id)) >= 4
    BY <1>1, <1>5, <2>3
  <2>5. SubSeq(Tail(id), 1, 4)[1] = Tail(id)[1]
    BY <1>6, <2>3, <2>4
  <2> QED
    BY <1>8, <2>1, <2>4, <2>5
<1>9. CASE Late(p) <=> method # "opcode"
  <2>1. IdBytes(p, method) = SubSeq(id, 1, 4)
    BY <1>9 DEF IdBytes, Late, id, body, pad
  <2>2. \A i \in 1 .. 4 : SubSeq(id, 1, 4)[i] = id[i]
    BY <1>1, <1>5, <1>6
  <2>3. SubSeq(id, 1, 4)[1] = p.mfr
    BY <1>5, <2>2
  <2>4. ASSUME NEW k \in 1 .. n PROVE SubSeq(id, 1, 4)[k + 1] = p.devid[k]
    <3>1. k + 1 \in 1 .. 4
      BY <1>1
    <3> QED
      BY <1>5, <2>2, <3>1
  <2> QED
    BY <1>9, <1>n, <2>1, <2>3, <2>4
<1> QED
  BY <1>7, <1>8, <1>9

(* A row that matches is the chip's own. *)
LEMMA MatchIsPart ==
    ASSUME NEW p \in World, NEW k \in 1 .. Len(Table), NEW method,
           Matches(Table[k], IdBytes(p, method), method)
    PROVE  Table[k] = p
<1> DEFINE e == Table[k]
           id == IdBytes(p, method)
<1>1. e \in Rows /\ e \in Info /\ p \in Info
  BY InitAssumption DEF Rows
<1>2. Len(p.devid) \in 1 .. 3 /\ e.mfr # Junk
  BY <1>1, IdAssumption
<1>3. /\ id[1] = e.mfr /\ method = e.method
      /\ \A j \in 1 .. Len(e.devid) : id[j + 1] = e.devid[j]
  BY DEF Matches
<1>4. /\ Late(p) /\ method = "opcode" => id[1] = Junk
      /\ ~ Late(p) /\ method # "opcode" => id[1] = p.devid[1]
      /\ (Late(p) <=> method # "opcode") =>
            /\ id[1] = p.mfr
            /\ \A j \in 1 .. Len(p.devid) : id[j + 1] = p.devid[j]
  BY <1>1, <1>2, IdBytesFacts
<1> HIDE DEF id
<1>5. Late(p) <=> method # "opcode"
  <2>1. ~ (Late(p) /\ method = "opcode")
    BY <1>2, <1>3, <1>4
  <2>2. ~ (~ Late(p) /\ method # "opcode")
    <3> SUFFICES ASSUME ~ Late(p), method # "opcode" PROVE FALSE
      OBVIOUS
    <3>1. Late(e)
      BY <1>3 DEF Late
    <3>2. e.mfr # p.devid[1]
      BY <1>1, <3>1, IdAssumption
    <3> QED
      BY <1>3, <1>4, <3>2
  <2> QED
    BY <2>1, <2>2
<1>6. e.mfr = p.mfr /\ (Late(e) <=> Late(p))
  BY <1>3, <1>4, <1>5 DEF Late
<1>7. ASSUME NEW j \in 1 .. 3, j <= Len(e.devid), j <= Len(p.devid)
      PROVE  e.devid[j] = p.devid[j]
  <2>1. Len(e.devid) \in Nat /\ Len(p.devid) \in Nat
    BY <1>1, LenProperties DEF Info
  <2>2. j \in 1 .. Len(e.devid) /\ j \in 1 .. Len(p.devid)
    BY <1>7, <2>1
  <2> QED
    BY <1>3, <1>4, <1>5, <2>2
<1> HIDE DEF e
<1>8. e = p
  BY <1>1, <1>6, <1>7, IdAssumption
<1> QED
  BY <1>8 DEF e
-----------------------------------------------------------------------------
(* The loop of spinand_select_op_variant by the bytes left from which it   *)
(* succeeds: there is such a set, for every transfer moves at least a byte.*)
LEMMA LoopExists ==
    ASSUME NEW n \in Nat, NEW sup, NEW nb, \A l \in 1 .. n : nb[l] \in 1 .. l
    PROVE  \E F : \A l \in 0 .. n : l \in F <=> l = 0 \/ (l \in sup /\ l - nb[l] \in F)
<1> DEFINE Up(m, F) == \A l \in 0 .. m :
                          l \in F <=> l = 0 \/ (l \in sup /\ l - nb[l] \in F)
           Bad == { m \in 0 .. n : ~ \E F : Up(m, F) }
<1>1. Bad = {}
  <2> SUFFICES ASSUME Bad # {} PROVE FALSE
    OBVIOUS
  <2>1. Bad \in SUBSET Nat
    OBVIOUS
  <2>2. PICK m \in Bad : \A j \in Bad : m <= j
    BY <2>1, LeastExists
  <2>3. m \in 0 .. n /\ ~ \E F : Up(m, F)
    OBVIOUS
  <2>4. CASE m = 0
    <3>1. Up(m, {0})
      BY <2>4
    <3> QED
      BY <2>3, <3>1
  <2>5. CASE m > 0
    <3>1. m - 1 \in 0 .. n /\ ~ (m <= m - 1)
      BY <2>3, <2>5
    <3>2. m - 1 \notin Bad
      BY <2>2, <3>1
    <3>3. PICK F : Up(m - 1, F)
      BY <3>1, <3>2
    <3> DEFINE G == (F \cap (0 .. m - 1))
                      \cup { l \in {m} : m \in sup /\ m - nb[m] \in F }
    <3>4. ASSUME NEW l \in 0 .. m
          PROVE  l \in G <=> l = 0 \/ (l \in sup /\ l - nb[l] \in G)
      <4>1. CASE l = 0
        BY <2>3, <2>5, <3>3, <4>1
      <4>2. CASE l \in 1 .. m - 1
        <5>1. nb[l] \in 1 .. l
          BY <2>3, <4>2
        <5>2. l - nb[l] \in 0 .. m - 1 /\ l \in 0 .. m - 1
          BY <2>3, <4>2, <5>1
        <5> QED
          BY <2>3, <3>3, <4>2, <5>2
      <4>3. CASE l = m
        <5>1. nb[m] \in 1 .. m
          BY <2>3, <2>5
        <5>2. m - nb[m] \in 0 .. m - 1 /\ m \notin 0 .. m - 1 /\ m # 0
          BY <2>3, <2>5, <5>1
        <5> QED
          BY <4>3, <5>2
      <4> QED
        BY <2>3, <4>1, <4>2, <4>3
    <3> QED
      BY <2>3, <3>4
  <2> QED
    BY <2>3, <2>4, <2>5
<1>2. n \in 0 .. n
  OBVIOUS
<1>3. \E F : Up(n, F)
  <2> HIDE DEF Up
  <2> QED
    BY <1>1, <1>2
<1> QED
  BY <1>3

(* Shortening a transfer leaves something of it, and its wires. *)
LEMMA AdjustedFacts ==
    ASSUME NEW ad \in Adapters, NEW v \in Op, NEW n \in Nat \ {0},
           ad.limit > 1 + v.addr.nbytes + v.dummy.nbytes
    PROVE  LET op == Adjusted(ad, WithData(v, n))
           IN  /\ op.data.nbytes \in 1 .. n
               /\ op.data.width = v.data.width /\ op.dir = v.dir
<1>1. ad.limit \in Nat
  BY InitAssumption DEF Adapter
<1>2. v.addr.nbytes \in Nat /\ v.dummy.nbytes \in Nat
  BY DEF Op, Phase
<1> DEFINE w == WithData(v, n)
<1>3. /\ w.data.nbytes = n /\ w.data.width = v.data.width /\ w.dir = v.dir
      /\ w.addr = v.addr /\ w.dummy = v.dummy /\ w \in Op
  BY DEF WithData, Op, Phase
<1> HIDE DEF w
<1> DEFINE L == IF ad.whole THEN ad.limit - 1 - v.addr.nbytes - v.dummy.nbytes
                ELSE ad.limit
           nb == IF n > L THEN L ELSE n
<1>4. L \in Nat \ {0}
  BY <1>1, <1>2
<1>5. Adjusted(ad, w) = WithData(w, nb)
  BY <1>3 DEF Adjusted, AdjustOpSize, AdjustDataSize
<1>6. nb \in 1 .. n
  <2> HIDE DEF L
  <2> QED
    BY <1>4
<1> HIDE DEF nb
<1>7. /\ WithData(w, nb).data.nbytes = nb /\ WithData(w, nb).dir = w.dir
      /\ WithData(w, nb).data.width = w.data.width
  BY <1>3 DEF WithData, Op, Phase
<1> QED
  BY <1>3, <1>5, <1>6, <1>7 DEF w

(* A variant is chosen only if the adapter has the wires for it. *)
LEMMA MovesWires ==
    ASSUME NEW ad \in Adapters, NEW v \in Op, NEW n \in Nat \ {0},
           ad.limit > 1 + v.addr.nbytes + v.dummy.nbytes, v.dir # "none",
           Moves(ad, v, n)
    PROVE  BuswidthOk(ad.mode, v.data.width, v.dir)
<1> DEFINE A(l) == Adjusted(ad, WithData(v, l))
           sup == { l \in 1 .. n : SupportsOp(ad.mode, A(l)) }
           nb == [ l \in 1 .. n |-> A(l).data.nbytes ]
<1>1. \A l \in 1 .. n : A(l).data.nbytes \in 1 .. l
  BY AdjustedFacts
<1>2. \A l \in 1 .. n : nb[l] \in 1 .. l
  BY <1>1
<1>3. PICK F : \A l \in 0 .. n : l \in F <=> l = 0 \/ (l \in sup /\ l - nb[l] \in F)
  <2>1. n \in Nat
    OBVIOUS
  <2> HIDE DEF sup, nb
  <2> QED
    BY <2>1, <1>2, LoopExists
<1> DEFINE Loop(g) == g = [ left \in 0 .. n |->
                              \/ left = 0
                              \/ LET op == Adjusted(ad, WithData(v, left))
                                 IN  /\ SupportsOp(ad.mode, op)
                                     /\ g[left - op.data.nbytes] ]
           c == CHOOSE g : Loop(g)
<1> DEFINE f == [ l \in 0 .. n |-> l \in F ]
<1>4. Loop(f)
  <2>1. ASSUME NEW l \in 0 .. n
        PROVE  l \in F <=> l = 0 \/ (SupportsOp(ad.mode, A(l)) /\ f[l - A(l).data.nbytes])
    <3>1. l \in F <=> l = 0 \/ (l \in sup /\ l - nb[l] \in F)
      BY <1>3
    <3>2. CASE l = 0
      BY <3>1, <3>2
    <3>3. CASE l # 0
      <4>1. l \in 1 .. n
        BY <3>3
      <4>2. nb[l] = A(l).data.nbytes /\ (l \in sup <=> SupportsOp(ad.mode, A(l)))
        BY <4>1
      <4>3. l - nb[l] \in 0 .. n
        BY <1>2, <4>1
      <4>4. f[l - nb[l]] <=> l - nb[l] \in F
        BY <4>3
      <4> QED
        BY <3>1, <3>3, <4>2, <4>4
    <3> QED
      BY <3>2, <3>3
  <2> DEFINE body(l) == l = 0 \/ (SupportsOp(ad.mode, A(l)) /\ f[l - A(l).data.nbytes])
  <2>2. \A l \in 0 .. n : (l \in F) = body(l)
    BY <2>1
  <2>3. f = [ l \in 0 .. n |-> body(l) ]
    <3> HIDE DEF body
    <3> QED
      BY <2>2, Zenon
  <2> QED
    BY <2>3, Zenon
<1>5. Loop(c)
  <2> HIDE DEF Loop
  <2> QED
    BY <1>4
<1>6. c[n]
  BY DEF Moves
<1> HIDE DEF c
<1>7. n = 0 \/ (SupportsOp(ad.mode, A(n)) /\ c[n - A(n).data.nbytes])
  <2>1. n \in 0 .. n
    OBVIOUS
  <2>2. c[n] = (n = 0 \/ (SupportsOp(ad.mode, A(n)) /\ c[n - A(n).data.nbytes]))
    BY <1>5, <2>1
  <2> QED
    BY <1>6, <2>2
<1>8. SupportsOp(ad.mode, A(n))
  BY <1>7
<1>9. A(n).data.width = v.data.width /\ A(n).dir = v.dir
  BY AdjustedFacts
<1> HIDE DEF A
<1> QED
  BY <1>8, <1>9 DEF SupportsOp, Carries
-----------------------------------------------------------------------------
After == CachedPcs \cup {"detected", "cache", "readcfg"}

(* Once identified, the chip has been taken for the one it is. *)
Identified ==
    /\ info = NoInfo \/ (info = part /\ part \in Rows)
    /\ pc \in {"reset", "id"} => info = NoInfo
    /\ pc \in After => info = part /\ part \in Rows

(* What was chosen with four data wires has them. *)
Wired ==
    pc \in After =>
        \A o \in {ops.read, ops.write, ops.update} :
           o.data.width = 4 => \E m \in adapter.mode : m[2] >= 4

(* The quad bit from its setting on. *)
QuadSet ==
    pc \in CachedPcs \ {"quad"} /\ "qe" \in part.flags =>
        \A d \in Dies : "quad" \in die[d].cfg <=> Quad

(* The buffer read bit of the dies that winbond_spinand_init has visited. *)
BufSet ==
    part.mfr = Winbond /\ ~ hurt =>
        /\ pc \in {"vendor", "bufread"} =>
              \A d \in Dies : d < turn => "buf" \in die[d].cfg
        /\ pc = "bufread" => sel = turn
        /\ pc \in {"unlock", "unlocking", "ready"} =>
              \A d \in Dies : "buf" \in die[d].cfg

RInv == IInv /\ TypeOK /\ Identified /\ Wired /\ QuadSet /\ BufSet

LEMMA RInvKnown ==
    ASSUME RInv, pc \in After
    PROVE  Known /\ info = part /\ part \in Rows /\ Targets = Dies
BY DieNumbers DEF RInv, Identified, After, Known

(* What an update does to the register of the selected die, and that it    *)
(* leaves the others alone.                                                *)
LEMMA UpdExact ==
    ASSUME IInv, Known, pc \in CachedPcs,
           NEW mask, NEW val \in SUBSET Bits, NEW ok \in BOOLEAN,
           UpdCfg(mask, val, ok)
    PROVE  /\ \A d \in Dies : d # sel => die'[d] = die[d]
           /\ \/ die'[sel].cfg = die[sel].cfg
              \/ die'[sel].cfg = (die[sel].cfg \ mask) \cup val
           /\ ok => die'[sel].cfg = (die[sel].cfg \ mask) \cup val
<1> DEFINE wanted == (cache[cur] \ mask) \cup val
<1>1. /\ die \in [ Dies -> Register ] /\ sel \in Dies /\ cur = sel
      /\ cache[sel] = die[sel].cfg
  BY DEF IInv, OnDie, Cached, CachedPcs
<1>2. wanted = (die[sel].cfg \ mask) \cup val
  BY <1>1
<1> HIDE DEF wanted
<1>3. CASE cache[cur] = wanted /\ UNCHANGED << die, cache >>
  BY <1>1, <1>2, <1>3
<1>4. CASE ok /\ die' = [ die EXCEPT ![sel].cfg = wanted ]
  BY <1>1, <1>2, <1>4 DEF Register
<1>5. CASE ~ ok /\ UNCHANGED << die, cache >>
  BY <1>5
<1> QED
  BY <1>3, <1>4, <1>5 DEF UpdCfg, wanted

(* Whichever row was hit, it is the chip's, and what was chosen from it    *)
(* has its wires.                                                          *)
LEMMA ChosenWires ==
    ASSUME NEW e \in Rows, adapter \in Adapters, NEW variants \in {e.read, e.write},
           SelectOpVariant(adapter, variants, e.pagesize + e.oobsize) # NoOp,
           SelectOpVariant(adapter, variants, e.pagesize + e.oobsize).data.width = 4
    PROVE  \E m \in adapter.mode : m[2] >= 4
<1> DEFINE n == e.pagesize + e.oobsize
           usable == { k \in 1 .. Len(variants) : Moves(adapter, variants[k], n) }
           v == variants[First(usable)]
<1>1. e \in Info
  BY InitAssumption DEF Rows
<1>2. n \in Nat \ {0}
  <2>1. e.pagesize \in Nat /\ e.oobsize \in Nat /\ e.pagesize > 0
    BY <1>1, VariantAssumption DEF Info
  <2> QED
    BY <2>1
<1>3. variants \in Seq(Op)
  BY <1>1 DEF Info
<1>4. usable # {} /\ v.data.width = 4
  BY DEF SelectOpVariant
<1>5. usable \in SUBSET Nat
  OBVIOUS
<1>6. First(usable) \in usable
  <2> HIDE DEF usable
  <2> QED
    BY <1>4, <1>5, FirstIn
<1>7. First(usable) \in 1 .. Len(variants) /\ Moves(adapter, v, n)
  BY <1>6
<1> HIDE DEF usable, v, n
<1>8. v \in Op
  BY <1>3, <1>7 DEF v
<1>9. adapter.limit > 1 + v.addr.nbytes + v.dummy.nbytes /\ v.dir # "none"
  <2>1. v \in { e.read[k] : k \in 1 .. Len(e.read) }
               \cup { e.write[k] : k \in 1 .. Len(e.write) }
    BY <1>7 DEF v
  <2> QED
    BY <2>1, VariantAssumption
<1>10. BuswidthOk(adapter.mode, v.data.width, v.dir)
  BY <1>2, <1>7, <1>8, <1>9, MovesWires
<1>11. PICK w \in {2, 4, 8} : w >= 4 /\ << v.dir, w >> \in adapter.mode
  BY <1>4, <1>10 DEF BuswidthOk
<1> QED
  BY <1>11

LEMMA ReadIdFinds ==
    ASSUME RInv, ReadId
    PROVE  Identified' /\ Wired'
<1>1. /\ part' = part /\ adapter' = adapter /\ pc = "id" /\ info = NoInfo
      /\ part \in World /\ adapter \in Adapters
  BY DEF ReadId, chip, RInv, Identified, TypeOK
<1> DEFINE id == IdBytes(part, Methods[turn])
           hits == { k \in 1 .. Len(Table) : Matches(Table[k], id, Methods[turn]) }
           hit == Table[First(hits)]
           new == OpsFor(hit)
<1>2. \/ pc' \in {"id", "failed"} /\ info' = info
      \/ /\ pc' = "detected" /\ info' = hit /\ ops' = new
         /\ hits # {} /\ new.read # NoOp /\ new.write # NoOp
  BY DEF ReadId, Proceed
<1>3. CASE pc' \in {"id", "failed"} /\ info' = info
  BY <1>1, <1>3 DEF Identified, Wired, After, CachedPcs
<1>4. CASE /\ pc' = "detected" /\ info' = hit /\ ops' = new
           /\ hits # {} /\ new.read # NoOp /\ new.write # NoOp
  <2>1. hits \in SUBSET Nat
    OBVIOUS
  <2>2. First(hits) \in hits
    <3> HIDE DEF hits
    <3> QED
      BY <1>4, <2>1, FirstIn
  <2>3. /\ First(hits) \in 1 .. Len(Table)
        /\ Matches(Table[First(hits)], IdBytes(part, Methods[turn]), Methods[turn])
    BY <2>2
  <2> HIDE DEF hits
  <2>4. hit = part
    BY <1>1, <2>3, MatchIsPart
  <2>5. hit \in Rows
    BY <2>3 DEF Rows
  <2> HIDE DEF hit
  <2>6. hit.update = hit.write
    BY <2>5, VariantAssumption
  <2>7. /\ new.read = SelectOpVariant(adapter, hit.read, hit.pagesize + hit.oobsize)
        /\ new.write = SelectOpVariant(adapter, hit.write, hit.pagesize + hit.oobsize)
        /\ new.update = new.write
    BY <2>6 DEF OpsFor
  <2> HIDE DEF new
  <2>8. /\ new.read.data.width = 4 => \E m \in adapter.mode : m[2] >= 4
        /\ new.write.data.width = 4 => \E m \in adapter.mode : m[2] >= 4
    BY <1>1, <1>4, <2>5, <2>7, ChosenWires
  <2>9. Identified'
    BY <1>1, <1>4, <2>4, <2>5 DEF Identified, Rows, After, CachedPcs
  <2>10. Wired'
    BY <1>1, <1>4, <2>7, <2>8 DEF Wired
  <2> QED
    BY <2>9, <2>10
<1> QED
  BY <1>2, <1>3, <1>4
LEMMA RestOfDie ==
    ASSUME RInv
    PROVE  /\ sel \in Dies /\ cur \in Dies /\ die \in [ Dies -> Register ]
           /\ turn \in Nat /\ hurt \in BOOLEAN /\ part.ntargets \in Nat \ {0}
           /\ \A d \in Dies : die[d].cfg \in SUBSET Bits
BY DieNumbers DEF RInv, TypeOK, Register

(* The registers, in all states, those after a failure included. *)
LEMMA TypeStep ==
    ASSUME RInv, [Next]_vars
    PROVE  TypeOK'
<1>1. /\ sel \in Dies /\ cur \in Dies /\ die \in [ Dies -> Register ]
      /\ turn \in Nat /\ hurt \in BOOLEAN /\ part.ntargets \in Nat \ {0}
  BY RestOfDie
<1>2. IInv /\ TypeOK /\ Identified
  BY DEF RInv
<1>3. info' \in {NoInfo} \cup { Table[k] : k \in 1 .. Len(Table) }
      /\ part' = part /\ adapter' = adapter
  <2>1. CASE ReadId
    <3>1. Identified'
      BY <2>1, ReadIdFinds
    <3> QED
      BY <2>1, <3>1 DEF ReadId, chip, Identified, Rows
  <2>2. CASE ~ ReadId
    <3>1. UNCHANGED << part, adapter, info >>
      BY <2>2 DEF Next, vars, chip, Reset, Detected, CacheSelect, CacheRead,
         CacheEnds, QuadEnable, OtpDisable, NoVendorInit, MicronInit, WinbondSelect,
         WinbondBufRead, WinbondEnds, UnlockSelect, Unlock, UnlockEnds
    <3> QED
      BY <1>2, <3>1 DEF TypeOK
  <2> QED
    BY <2>1, <2>2
<1>4. Dies' = Dies
  BY <1>3 DEF Dies
<1> DEFINE Regs == /\ sel' \in Dies /\ cur' \in Dies /\ die' \in [ Dies -> Register ]
                   /\ turn' \in Nat /\ hurt' \in BOOLEAN
                   /\ pc' \in {"reset", "id", "detected", "cache", "readcfg", "quad",
                        "otp", "vendor", "bufread", "unlock", "unlocking", "ready",
                        "failed"}
                   /\ pc' \in {"reset", "id"} => info' = NoInfo
<1> SUFFICES Regs
  BY <1>2, <1>3, <1>4 DEF TypeOK
<1>5. CASE UNCHANGED vars
  BY <1>1, <1>2, <1>5 DEF vars, TypeOK
<1>6. CASE Reset
  BY <1>1, <1>2, <1>6 DEF Reset, Proceed, Outcomes, chip, TypeOK
<1>7. CASE ReadId
  <2>1. pc = "id" /\ UNCHANGED << sel, cur, die >>
    BY <1>7 DEF ReadId, chip
  <2>2. turn' \in {0, turn, turn + 1}
    BY <1>7 DEF ReadId
  <2>3. hurt' \in BOOLEAN
    BY <1>1, <1>7 DEF ReadId, Proceed
  <2>4. pc' = "detected" \/ (pc' \in {"id", "failed"} /\ info' = info)
    BY <1>7 DEF ReadId, Proceed
  <2>5. info = NoInfo
    BY <1>2, <2>1 DEF Identified
  <2> QED
    BY <1>1, <2>1, <2>2, <2>3, <2>4, <2>5
<1>8. CASE Detected
  BY <1>1, <1>2, <1>8 DEF Detected, chip, TypeOK
<1>9. CASE CacheRead
  BY <1>1, <1>2, <1>9 DEF CacheRead, Proceed, Outcomes, chip, TypeOK
<1>10. CASE CacheEnds \/ NoVendorInit \/ WinbondEnds \/ UnlockEnds
  <2>1. /\ UNCHANGED << sel, cur, die, hurt >> /\ turn' \in {0, turn}
        /\ pc' \in {"quad", "unlock", "ready"}
    BY <1>10 DEF CacheEnds, NoVendorInit, WinbondEnds, UnlockEnds, chip
  <2> QED
    BY <1>1, <2>1
<1>11. CASE CacheSelect \/ WinbondSelect \/ UnlockSelect
  <2>1. /\ pc \in After /\ die' = die /\ turn' = turn /\ turn \in Targets
        /\ pc' \in {"readcfg", "bufread", "unlocking", "failed"} /\ hurt' \in BOOLEAN
        /\ \E ok \in BOOLEAN : Select(turn, ok)
    BY <1>1, <1>11 DEF CacheSelect, WinbondSelect, UnlockSelect, Proceed, After, CachedPcs
  <2>2. Known /\ Targets = Dies
    BY <2>1, RInvKnown
  <2>3. sel' \in Dies /\ cur' = sel'
    BY <1>2, <2>1, <2>2, SelectFacts
  <2> QED
    BY <1>1, <2>1, <2>3
<1>12. CASE QuadEnable \/ OtpDisable \/ MicronInit \/ WinbondBufRead
  <2>1. /\ pc \in CachedPcs /\ UNCHANGED << sel, cur >> /\ turn' \in Nat
        /\ pc' \in {"otp", "vendor", "unlock", "failed"} /\ hurt' \in BOOLEAN
        /\ \/ UNCHANGED << die, cache >>
           \/ \E ok \in BOOLEAN, mask \in SUBSET Bits, val \in SUBSET Bits :
                 UpdCfg(mask, val, ok)
    <3>1. /\ pc \in CachedPcs /\ UNCHANGED << sel, cur >>
          /\ turn' \in {0, turn, turn + 1}
          /\ pc' \in {"otp", "vendor", "unlock", "failed"}
      BY <1>12 DEF QuadEnable, OtpDisable, MicronInit, WinbondBufRead, Proceed, CachedPcs
    <3>2. hurt' \in BOOLEAN
      BY <1>1, <1>12 DEF QuadEnable, OtpDisable, MicronInit, WinbondBufRead, Proceed
    <3>3. \/ UNCHANGED << die, cache >>
          \/ \E ok \in BOOLEAN, mask \in SUBSET Bits, val \in SUBSET Bits :
                UpdCfg(mask, val, ok)
      <4>1. CASE QuadEnable
        BY <4>1 DEF QuadEnable, Bits
      <4>2. CASE OtpDisable
        BY <4>2 DEF OtpDisable, Bits
      <4>3. CASE MicronInit
        BY <4>3 DEF MicronInit, Bits
      <4>4. CASE WinbondBufRead
        BY <4>4 DEF WinbondBufRead, Bits
      <4> QED
        BY <1>12, <4>1, <4>2, <4>3, <4>4
    <3> QED
      BY <1>1, <3>1, <3>2, <3>3
  <2>2. Known
    BY <2>1, RInvKnown DEF After
  <2>3. die' \in [ Dies -> Register ]
    BY <1>1, <1>2, <2>1, <2>2, UpdFacts
  <2> QED
    BY <1>1, <2>1, <2>3
<1>13. CASE Unlock
  <2>1. /\ UNCHANGED << sel, cur >> /\ turn' \in Nat /\ hurt' \in BOOLEAN
        /\ pc' \in {"unlock", "failed"}
        /\ die' = die \/ die' = [ die EXCEPT ![sel].locked = FALSE ]
    BY <1>1, <1>13 DEF Unlock, Proceed, Outcomes
  <2>2. [ die[sel] EXCEPT !.locked = FALSE ] \in Register
    BY <1>1 DEF Register
  <2>3. die' \in [ Dies -> Register ]
    BY <1>1, <2>1, <2>2
  <2> QED
    BY <1>1, <2>1, <2>3
<1> HIDE DEF Regs
<1> QED
  BY <1>5, <1>6, <1>7, <1>8, <1>9, <1>10, <1>11, <1>12, <1>13 DEF Next

LEMMA IdentifiedStep ==
    ASSUME RInv, [Next]_vars
    PROVE  Identified' /\ Wired'
<1>1. CASE ReadId
  BY <1>1, ReadIdFinds
<1>2. CASE ~ ReadId
  <2>1. UNCHANGED << part, adapter, info, ops >>
    BY <1>2 DEF Next, vars, chip, Reset, Detected, CacheSelect, CacheRead,
       CacheEnds, QuadEnable, OtpDisable, NoVendorInit, MicronInit, WinbondSelect,
       WinbondBufRead, WinbondEnds, UnlockSelect, Unlock, UnlockEnds
  <2>2. \/ pc' = pc
        \/ pc = "reset" /\ pc' \in {"id", "failed"}
        \/ pc \in After /\ pc' \in After \cup {"failed"}
    BY <1>2 DEF Next, vars, chip, Proceed, Reset, Detected, CacheSelect, CacheRead,
       CacheEnds, QuadEnable, OtpDisable, NoVendorInit, MicronInit, WinbondSelect,
       WinbondBufRead, WinbondEnds, UnlockSelect, Unlock, UnlockEnds, After, CachedPcs
  <2>3. pc' \in After => pc \in After
    BY <2>2 DEF After, CachedPcs
  <2>4. Identified'
    BY <2>1, <2>2, <2>3 DEF RInv, Identified, Rows, After, CachedPcs
  <2>5. Wired'
    BY <2>1, <2>3 DEF RInv, Wired
  <2> QED
    BY <2>4, <2>5
<1> QED
  BY <1>1, <1>2
(* The two settings after any step but an update: the configuration bits   *)
(* stay, and so do the operations they are compared with.                  *)
LEMMA QuadStep ==
    ASSUME RInv, [Next]_vars
    PROVE  QuadSet'
<1>1. /\ sel \in Dies /\ die \in [ Dies -> Register ] /\ part.ntargets \in Nat \ {0}
      /\ IInv /\ QuadSet
  BY RestOfDie DEF RInv
<1>2. /\ part' = part /\ Dies' = Dies
      /\ pc \in After => UNCHANGED << ops, info >>
  <2>1. part' = part
    BY DEF Next, vars, chip, Reset, ReadId, Detected, CacheSelect, CacheRead,
       CacheEnds, QuadEnable, OtpDisable, NoVendorInit, MicronInit, WinbondSelect,
       WinbondBufRead, WinbondEnds, UnlockSelect, Unlock, UnlockEnds
  <2>2. pc \in After => UNCHANGED << ops, info >>
    BY DEF Next, vars, chip, Reset, ReadId, Detected, CacheSelect, CacheRead,
       CacheEnds, QuadEnable, OtpDisable, NoVendorInit, MicronInit, WinbondSelect,
       WinbondBufRead, WinbondEnds, UnlockSelect, Unlock, UnlockEnds, After, CachedPcs
  <2> QED
    BY <2>1, <2>2 DEF Dies
<1> SUFFICES ASSUME pc' \in CachedPcs \ {"quad"}, "qe" \in part.flags
             PROVE  \A d \in Dies : "quad" \in die'[d].cfg <=> Quad'
  BY <1>2 DEF QuadSet
<1>3. pc \in CachedPcs
  BY DEF Next, vars, chip, Proceed, Reset, ReadId, Detected, CacheSelect, CacheRead,
     CacheEnds, QuadEnable, OtpDisable, NoVendorInit, MicronInit, WinbondSelect,
     WinbondBufRead, WinbondEnds, UnlockSelect, Unlock, UnlockEnds, CachedPcs
<1>4. Known /\ info = part /\ part \in Rows /\ UNCHANGED << ops, info >>
  BY <1>2, <1>3, RInvKnown DEF After
<1>5. Quad' = Quad
  BY <1>4 DEF Quad
<1>6. Dies = {0} /\ sel = 0
  <2>1. part.ntargets = 1
    BY <1>4, VariantAssumption
  <2> QED
    BY <1>1, <2>1 DEF Dies
<1>7. CASE QuadEnable
  <2>1. PICK ok \in BOOLEAN :
           UpdCfg({"quad"}, IF Quad THEN {"quad"} ELSE {}, ok) /\ Proceed(ok, "otp")
    BY <1>4, <1>7 DEF QuadEnable
  <2>2. ok
    BY <2>1 DEF Proceed, CachedPcs
  <2>3. (IF Quad THEN {"quad"} ELSE {}) \in SUBSET Bits
    BY DEF Bits
  <2>4. die'[sel].cfg = (die[sel].cfg \ {"quad"}) \cup (IF Quad THEN {"quad"} ELSE {})
    BY <1>1, <1>3, <1>4, <2>1, <2>2, <2>3, UpdExact
  <2>5. "quad" \in die'[0].cfg <=> Quad
    BY <1>6, <2>4
  <2> QED
    BY <1>5, <1>6, <2>5
<1>8. CASE ~ QuadEnable
  <2>1. pc # "quad"
    BY <1>8 DEF Next, vars, chip, Reset, ReadId, Detected, CacheSelect, CacheRead,
       CacheEnds, OtpDisable, NoVendorInit, MicronInit, WinbondSelect,
       WinbondBufRead, WinbondEnds, UnlockSelect, Unlock, UnlockEnds, CachedPcs
  <2>2. "quad" \in die[0].cfg <=> Quad
    BY <1>1, <1>3, <1>4, <1>6, <2>1 DEF QuadSet
  <2>3. "quad" \in die'[0].cfg <=> "quad" \in die[0].cfg
    <3>1. CASE die' = die
      BY <3>1
    <3>2. CASE die' = [ die EXCEPT ![sel].locked = FALSE ]
      BY <1>1, <1>6, <3>2 DEF Register
    <3>3. ASSUME NEW mask, NEW val \in SUBSET Bits, NEW ok \in BOOLEAN,
                 UpdCfg(mask, val, ok), "quad" \notin mask, "quad" \notin val
          PROVE  "quad" \in die'[0].cfg <=> "quad" \in die[0].cfg
      <4>1. \/ die'[sel].cfg = die[sel].cfg
            \/ die'[sel].cfg = (die[sel].cfg \ mask) \cup val
        BY <1>1, <1>3, <1>4, <3>3, UpdExact
      <4> QED
        BY <1>6, <3>3, <4>1
    <3>4. \/ die' = die
          \/ die' = [ die EXCEPT ![sel].locked = FALSE ]
          \/ \E ok \in BOOLEAN : \/ UpdCfg({"otp"}, {}, ok)
                                 \/ UpdCfg({"cr"}, {}, ok)
                                 \/ UpdCfg({"buf"}, {"buf"}, ok)
      BY <1>8 DEF Next, vars, chip, Reset, ReadId, Detected, CacheSelect, CacheRead,
         CacheEnds, OtpDisable, NoVendorInit, MicronInit, WinbondSelect,
         WinbondBufRead, WinbondEnds, UnlockSelect, Unlock, UnlockEnds
    <3>5. {} \in SUBSET Bits /\ {"buf"} \in SUBSET Bits
      BY DEF Bits
    <3> QED
      BY <3>1, <3>2, <3>3, <3>4, <3>5
  <2> QED
    BY <1>5, <1>6, <2>2, <2>3
<1> QED
  BY <1>7, <1>8

LEMMA BufStep ==
    ASSUME RInv, [Next]_vars
    PROVE  BufSet'
<1>1. /\ sel \in Dies /\ die \in [ Dies -> Register ] /\ part.ntargets \in Nat \ {0}
      /\ turn \in Nat /\ hurt \in BOOLEAN /\ IInv /\ BufSet /\ Identified
  BY RestOfDie DEF RInv
<1>2. part' = part /\ Dies' = Dies
  BY DEF Dies, Next, vars, chip, Reset, ReadId, Detected, CacheSelect, CacheRead,
     CacheEnds, QuadEnable, OtpDisable, NoVendorInit, MicronInit, WinbondSelect,
     WinbondBufRead, WinbondEnds, UnlockSelect, Unlock, UnlockEnds
<1>3. ~ hurt' => ~ hurt
  BY <1>1 DEF Next, vars, Proceed, Reset, ReadId, Detected, CacheSelect, CacheRead,
     CacheEnds, QuadEnable, OtpDisable, NoVendorInit, MicronInit, WinbondSelect,
     WinbondBufRead, WinbondEnds, UnlockSelect, Unlock, UnlockEnds
<1> SUFFICES ASSUME part.mfr = Winbond, ~ hurt', ~ hurt
             PROVE  /\ pc' \in {"vendor", "bufread"} =>
                          \A d \in Dies : d < turn' => "buf" \in die'[d].cfg
                    /\ pc' = "bufread" => sel' = turn'
                    /\ pc' \in {"unlock", "unlocking", "ready"} =>
                          \A d \in Dies : "buf" \in die'[d].cfg
  BY <1>2, <1>3 DEF BufSet
<1>4. pc \in After => Known /\ info = part /\ Targets = Dies
  BY RInvKnown
<1>5. CASE UNCHANGED vars
  BY <1>1, <1>5 DEF vars, BufSet
<1>6. CASE Reset \/ ReadId \/ Detected \/ CacheSelect \/ CacheRead \/ CacheEnds
           \/ QuadEnable
  <2>1. pc' \notin {"vendor", "bufread", "unlock", "unlocking", "ready"}
    BY <1>6 DEF Reset, ReadId, Detected, CacheSelect, CacheRead, CacheEnds,
       QuadEnable, Proceed
  <2> QED
    BY <2>1
<1>7. CASE OtpDisable
  <2>1. pc' \in {"vendor", "failed"} /\ turn' = 0
    BY <1>7 DEF OtpDisable, Proceed
  <2>2. \A d \in Dies : ~ (d < 0)
    BY <1>1 DEF Dies
  <2> QED
    BY <2>1, <2>2
<1>8. CASE NoVendorInit \/ MicronInit
  <2>1. pc = "vendor" /\ info.mfr # Winbond
    BY <1>8 DEF NoVendorInit, MicronInit, Micron, Winbond
  <2> QED
    BY <1>4, <2>1 DEF After, CachedPcs
<1>9. CASE WinbondSelect
  <2>1. /\ pc = "vendor" /\ turn \in Targets /\ pc' = "bufread"
        /\ UNCHANGED << die, turn >>
    BY <1>9 DEF WinbondSelect
  <2>2. PICK ok \in BOOLEAN : Select(turn, ok) /\ hurt' = (hurt \/ ~ ok)
    BY <1>9 DEF WinbondSelect
  <2>3. ok
    BY <2>2
  <2>4. Known /\ turn \in Dies
    BY <1>4, <2>1 DEF After, CachedPcs
  <2>5. sel' = turn
    BY <1>1, <2>2, <2>3, <2>4, SelectFacts
  <2> QED
    BY <1>1, <2>1, <2>5 DEF BufSet
<1>10. CASE WinbondBufRead
  <2>1. /\ pc = "bufread" /\ pc' = "vendor" /\ turn' = turn + 1
        /\ \A d \in Dies : d < turn => "buf" \in die[d].cfg
        /\ sel = turn
    BY <1>1, <1>10 DEF WinbondBufRead, BufSet
  <2>2. PICK ok \in BOOLEAN : UpdCfg({"buf"}, {"buf"}, ok) /\ hurt' = (hurt \/ ~ ok)
    BY <1>10 DEF WinbondBufRead
  <2>3. ok
    BY <2>2
  <2>4. Known /\ pc \in CachedPcs /\ {"buf"} \in SUBSET Bits
    BY <1>4, <2>1 DEF After, CachedPcs, Bits
  <2>5. /\ \A d \in Dies : d # sel => die'[d] = die[d]
        /\ die'[sel].cfg = (die[sel].cfg \ {"buf"}) \cup {"buf"}
    BY <1>1, <2>2, <2>3, <2>4, UpdExact
  <2>6. ASSUME NEW d \in Dies, d < turn' PROVE "buf" \in die'[d].cfg
    <3>1. d = sel \/ (d # sel /\ d < turn)
      BY <1>1, <2>1, <2>6 DEF Dies
    <3> QED
      BY <2>1, <2>5, <3>1
  <2> QED
    BY <2>1, <2>6
<1>11. CASE WinbondEnds
  <2>1. /\ pc = "vendor" /\ pc' = "unlock" /\ die' = die /\ turn \notin Targets
    BY <1>11 DEF WinbondEnds, chip
  <2>2. turn \notin Dies
    BY <1>4, <2>1 DEF After, CachedPcs
  <2>3. \A d \in Dies : d < turn
    BY <1>1, <2>2 DEF Dies
  <2> QED
    BY <1>1, <2>1, <2>3 DEF BufSet
<1>12. CASE UnlockSelect \/ UnlockEnds
  <2>1. /\ pc = "unlock" /\ pc' \in {"unlocking", "ready", "failed"} /\ die' = die
    BY <1>12 DEF UnlockSelect, UnlockEnds, chip, Proceed
  <2> QED
    BY <1>1, <2>1 DEF BufSet
<1>13. CASE Unlock
  <2>1. /\ pc = "unlocking" /\ pc' \in {"unlock", "failed"}
        /\ die' = die \/ die' = [ die EXCEPT ![sel].locked = FALSE ]
    BY <1>13 DEF Unlock, Proceed
  <2>2. \A d \in Dies : die'[d].cfg = die[d].cfg
    BY <1>1, <2>1 DEF Register
  <2> QED
    BY <1>1, <2>1, <2>2 DEF BufSet
<1> QED
  BY <1>5, <1>6, <1>7, <1>8, <1>9, <1>10, <1>11, <1>12, <1>13 DEF Next
-----------------------------------------------------------------------------
LEMMA RInvariance == Spec => []RInv
<1>1. Init => RInv
  <2> SUFFICES ASSUME Init PROVE RInv
    OBVIOUS
  <2>1. IInv
    BY Initially
  <2>2. part \in World /\ 0 \in Dies /\ die \in [ Dies -> Register ]
    BY <2>1, DieNumbers DEF Init, IInv, Early
  <2> QED
    BY <2>1, <2>2 DEF Init, RInv, TypeOK, Identified, Wired, QuadSet, BufSet, After,
       CachedPcs
<1>2. RInv /\ [Next]_vars => RInv'
  <2> SUFFICES ASSUME RInv, [Next]_vars PROVE RInv'
    OBVIOUS
  <2>1. IInv'
    BY Consecution DEF RInv
  <2> QED
    BY <2>1, TypeStep, IdentifiedStep, QuadStep, BufStep DEF RInv
<1> QED
  BY <1>1, <1>2, PTL DEF Spec

(* Every variable of spinand_init keeps to its set.                        *)
THEOREM TypeCorrect == Spec => []TypeOK
<1>1. RInv => TypeOK
  BY DEF RInv
<1> QED
  BY <1>1, RInvariance, PTL

(* A chip is taken for the one it is, whatever it answers to the methods   *)
(* tried before its own (core.c:593).                                      *)
THEOREM TakenForItself == Spec => []RightModel
<1>1. RInv => RightModel
  BY DEF RInv, Identified, RightModel
<1> QED
  BY <1>1, RInvariance, PTL

(* The quad bit is set exactly when an operation chosen for the adapter    *)
(* needs four wires, and those the adapter has.                            *)
THEOREM QuadFollowsAdapter == Spec => []QuadAsChosen
<1>1. RInv => QuadAsChosen
  <2> SUFFICES ASSUME RInv, pc = "ready", "qe" \in info.flags
               PROVE  LET widths == { o.data.width : o \in {ops.read, ops.write, ops.update} }
                      IN  /\ \A d \in Dies : "quad" \in die[d].cfg <=> 4 \in widths
                          /\ 4 \in widths => \E m \in adapter.mode : m[2] >= 4
    BY DEF QuadAsChosen
  <2>1. info = part /\ QuadSet /\ Wired /\ pc \in After /\ pc \in CachedPcs \ {"quad"}
    BY RInvKnown DEF RInv, After, CachedPcs
  <2>2. Quad <=> 4 \in { o.data.width : o \in {ops.read, ops.write, ops.update} }
    BY DEF Quad
  <2> QED
    BY <2>1, <2>2 DEF QuadSet, Wired
<1> QED
  BY <1>1, RInvariance, PTL

(* Every die of a Winbond chip is in buffer read mode (winbond.c:74) unless *)
(* a command failed, which that code ignores.                               *)
THEOREM BufferReadEverywhere == Spec => []BufferRead
<1>1. RInv => BufferRead
  BY RInvKnown DEF RInv, BufSet, BufferRead, After, CachedPcs
<1> QED
  BY <1>1, RInvariance, PTL
-----------------------------------------------------------------------------
(* The decoders.  What a field of a byte reads is the value it was given.  *)
LEMMA FieldReads ==
    ASSUME NEW v \in Nat
    PROVE  /\ v < 4 => \A b \in BytesWith(v, 16, 4) : b \in Nat /\ Field(b, 16, 4) = v
           /\ v < 8 => \A b \in BytesWith(v, 16, 8) : b \in Nat /\ Field(b, 16, 8) = v
           /\ v < 16 => \A b \in BytesWith(v, 16, 16) : b \in Nat /\ Field(b, 16, 16) = v
           /\ v < 16 => \A b \in BytesWith(v, 1, 16) : b \in Nat /\ Field(b, 1, 16) = v
BY DEF Field, BytesWith

(* What FlipsReported asks of one read; but for one code of one chip. *)
Reported(f, ok, ret, most) ==
    /\ f = Uncor <=> ret = EBADMSG
    /\ f >= 0 => \/ f <= ret /\ ret <= most /\ (f = 0 => ret = 0)
                 \/ ~ ok /\ ret = EIO

StatusBytes(by, code) == BytesWith(code, 16, CodeValues(by))

LEMMA Gd4xaReports ==
    ASSUME NEW f \in {Uncor} \cup 0 .. 8, NEW code \in EccCodes("gd5fxgq4xa", f),
           NEW status \in StatusBytes("gd5fxgq4xa", code)
    PROVE  Reported(f, TRUE, Gd5fxgq4xa(status), 8)
<1>1. code \in 0 .. 3
  BY DEF EccCodes, CodesOf, Uncor
<1>2. Field(status, 16, 4) = code
  BY <1>1, FieldReads DEF StatusBytes, CodeValues
<1> QED
  BY <1>1, <1>2 DEF Gd5fxgq4xa, Among, Reported, EccCodes, CodesOf, Uncor, EBADMSG, EIO

LEMMA Pn26Reports ==
    ASSUME NEW f \in {Uncor} \cup 0 .. 8, NEW code \in EccCodes("pn26g0xa", f),
           NEW status \in StatusBytes("pn26g0xa", code)
    PROVE  Reported(f, TRUE, Pn26g0xa(status), 8)
<1>1. code \in 0 .. 3
  BY DEF EccCodes, CodesOf, Uncor
<1>2. Field(status, 16, 4) = code
  BY <1>1, FieldReads DEF StatusBytes, CodeValues
<1> QED
  BY <1>1, <1>2
     DEF Pn26g0xa, Gd5fxgq4xa, Among, Reported, EccCodes, CodesOf, Uncor, EBADMSG, EIO

LEMMA Gd4uexxgReports ==
    ASSUME NEW f \in {Uncor} \cup 0 .. 8, NEW code \in EccCodes("gd5fxgq4uexxg", f),
           NEW status \in StatusBytes("gd5fxgq4uexxg", code),
           NEW ok \in BOOLEAN,
           NEW second \in IF ok THEN SecondBytes("gd5fxgq4uexxg", f) ELSE {EIO}
    PROVE  Reported(f, ok, Gd5fxgq4uexxg(status, second), 8)
<1>1. code \in 0 .. 3
  BY DEF EccCodes, CodesOf, Uncor
<1>2. Field(status, 16, 4) = code
  BY <1>1, FieldReads DEF StatusBytes, CodeValues
<1>3. CASE f \in {Uncor, 0, 8}
  BY <1>2, <1>3 DEF Gd5fxgq4uexxg, Among, Reported, EccCodes, CodesOf, Uncor, EBADMSG, EIO
<1>4. CASE f \in 1 .. 7 /\ ~ ok
  BY <1>2, <1>4 DEF Gd5fxgq4uexxg, Among, Reported, EccCodes, CodesOf, Uncor, EBADMSG, EIO
<1>5. CASE f \in 1 .. 7 /\ ok
  <2> DEFINE more == IF f <= 4 THEN 0 ELSE (f - 4) % 4
  <2>1. more \in 0 .. 3 /\ f <= 4 + more /\ 4 + more <= 8
    BY <1>5
  <2>2. second \in BytesWith(more, 16, 4)
    BY <1>5 DEF SecondBytes
  <2> HIDE DEF more
  <2>3. second \in Nat /\ Field(second, 16, 4) = more
    BY <2>1, <2>2, FieldReads
  <2>4. code = 1
    BY <1>5 DEF EccCodes, CodesOf, Uncor
  <2>5. Gd5fxgq4uexxg(status, second) = 4 + more
    BY <1>2, <2>1, <2>3, <2>4 DEF Gd5fxgq4uexxg, Among
  <2> QED
    BY <1>5, <2>1, <2>5 DEF Reported, Uncor, EBADMSG
<1> QED
  BY <1>3, <1>4, <1>5

LEMMA Gd5xexxgReports ==
    ASSUME NEW f \in {Uncor} \cup 0 .. 4, NEW code \in EccCodes("gd5fxgq5xexxg", f),
           NEW status \in StatusBytes("gd5fxgq5xexxg", code),
           NEW ok \in BOOLEAN,
           NEW second \in IF ok THEN SecondBytes("gd5fxgq5xexxg", f) ELSE {EIO}
    PROVE  LET ret == Gd5fxgq5xexxg(status, second)
           IN  Reported(f, ok, ret, 4) \/ (f # Uncor /\ code = 3 /\ ret = EINVAL)
<1>1. code \in 0 .. 3
  BY DEF EccCodes, CodesOf, Uncor
<1>2. Field(status, 16, 4) = code
  BY <1>1, FieldReads DEF StatusBytes, CodeValues
<1>3. CASE code # 3 /\ (f \in {Uncor, 0} \/ ~ ok)
  BY <1>2, <1>3 DEF Gd5fxgq5xexxg, Among, Reported, EccCodes, CodesOf, Uncor, EBADMSG, EIO
<1>4. CASE code # 3 /\ f \in 1 .. 4 /\ ok
  <2>1. second \in BytesWith(f - 1, 16, 4)
    BY <1>4 DEF SecondBytes
  <2>2. second \in Nat /\ Field(second, 16, 4) = f - 1
    BY <1>4, <2>1, FieldReads
  <2>3. code = 1
    BY <1>4 DEF EccCodes, CodesOf, Uncor
  <2>4. Gd5fxgq5xexxg(status, second) = f
    BY <1>2, <1>4, <2>2, <2>3 DEF Gd5fxgq5xexxg, Among
  <2> QED
    BY <1>4, <2>4 DEF Reported, Uncor, EBADMSG
<1>5. CASE code = 3
  <2>1. f # Uncor
    BY <1>5 DEF EccCodes, Uncor
  <2> QED
    BY <1>2, <1>5, <2>1 DEF Gd5fxgq5xexxg, Among
<1> QED
  BY <1>3, <1>4, <1>5

LEMMA Gd4ufxxgReports ==
    ASSUME NEW f \in {Uncor} \cup 0 .. 8, NEW code \in EccCodes("gd5fxgq4ufxxg", f),
           NEW status \in StatusBytes("gd5fxgq4ufxxg", code)
    PROVE  Reported(f, TRUE, Gd5fxgq4ufxxg(status), 8)
<1>1. code \in 0 .. 7
  BY DEF EccCodes, CodesOf, Uncor
<1>2. Field(status, 16, 8) = code
  BY <1>1, FieldReads DEF StatusBytes, CodeValues
<1> QED
  BY <1>1, <1>2 DEF Gd5fxgq4ufxxg, Among, Reported, EccCodes, CodesOf, Uncor, EBADMSG, EIO

LEMMA Micron8Reports ==
    ASSUME NEW f \in {Uncor} \cup 0 .. 8, NEW code \in EccCodes("micron_8", f),
           NEW status \in StatusBytes("micron_8", code)
    PROVE  Reported(f, TRUE, Micron8(status), 8)
<1>1. code \in 0 .. 5
  BY DEF EccCodes, CodesOf, Uncor
<1>2. Field(status, 16, 16) = code
  BY <1>1, FieldReads DEF StatusBytes, CodeValues
<1> QED
  BY <1>1, <1>2 DEF Micron8, Among, Reported, EccCodes, CodesOf, Uncor, EBADMSG, EIO

(* A count that is not to be relied on is believed from 1 to the most there *)
(* can be.                                                                  *)
LEMMA BelievedEnough ==
    ASSUME NEW most \in Nat \ {0}, NEW f \in 1 .. most, NEW n \in {f, 0, 15},
           most < 15
    PROVE  Believed(n, most) \in f .. most
BY DEF Believed

LEMMA Mx35Reports ==
    ASSUME NEW f \in {Uncor} \cup 0 .. 4, NEW code \in EccCodes("mx35lf1ge4ab", f),
           NEW status \in StatusBytes("mx35lf1ge4ab", code),
           NEW ok \in BOOLEAN,
           NEW second \in IF ok THEN SecondBytes("mx35lf1ge4ab", f) ELSE {EIO}
    PROVE  Reported(f, ok, Mx35lf1ge4ab(status, second, 4), 4)
<1>1. code \in 0 .. 3
  BY DEF EccCodes, CodesOf, Uncor
<1>2. Field(status, 16, 4) = code
  BY <1>1, FieldReads DEF StatusBytes, CodeValues
<1> DEFINE eccsr == IF second < 0 THEN 0 ELSE Field(second, 1, 16)
<1>3. CASE f \in {Uncor, 0}
  BY <1>2, <1>3 DEF Mx35lf1ge4ab, Among, Reported, EccCodes, CodesOf, Uncor, EBADMSG, EIO
<1>4. CASE f \in 1 .. 4
  <2>1. eccsr \in {f, 0, 15}
    <3>1. CASE ~ ok
      BY <3>1 DEF EIO
    <3>2. CASE ok
      <4>1. PICK n \in {f, 0, 15} : second \in BytesWith(n, 1, 16)
        BY <1>4, <3>2 DEF SecondBytes
      <4>2. second \in Nat /\ Field(second, 1, 16) = n
        BY <1>4, <4>1, FieldReads
      <4> QED
        BY <4>2
    <3> QED
      BY <3>1, <3>2
  <2> HIDE DEF eccsr
  <2>2. Believed(eccsr, 4) \in f .. 4
    BY <1>4, <2>1, BelievedEnough
  <2>3. code = 1
    BY <1>4 DEF EccCodes, CodesOf, Uncor
  <2>4. Mx35lf1ge4ab(status, second, 4) = Believed(eccsr, 4)
    BY <1>2, <2>3 DEF Mx35lf1ge4ab, Among, eccsr
  <2> QED
    BY <1>4, <2>2, <2>4 DEF Reported, Uncor, EBADMSG
<1> QED
  BY <1>3, <1>4

LEMMA Tx58Reports ==
    ASSUME NEW f \in {Uncor} \cup 0 .. 8, NEW code \in EccCodes("tx58cxgxsxraix", f),
           NEW status \in StatusBytes("tx58cxgxsxraix", code),
           NEW ok \in BOOLEAN,
           NEW second \in IF ok THEN SecondBytes("tx58cxgxsxraix", f) ELSE {EIO}
    PROVE  Reported(f, ok, Tx58cxgxsxraix(status, second, 8), 8)
<1>1. code \in 0 .. 3
  BY DEF EccCodes, CodesOf, Uncor
<1>2. Field(status, 16, 4) = code
  BY <1>1, FieldReads DEF StatusBytes, CodeValues
<1> DEFINE mbf == IF second < 0 THEN 0 ELSE Field(second, 16, 16)
<1>3. CASE f \in {Uncor, 0}
  BY <1>2, <1>3 DEF Tx58cxgxsxraix, Among, Reported, EccCodes, CodesOf, Uncor, EBADMSG, EIO
<1>4. CASE f \in 1 .. 8
  <2>1. mbf \in {f, 0, 15}
    <3>1. CASE ~ ok
      BY <3>1 DEF EIO
    <3>2. CASE ok
      <4>1. PICK n \in {f, 0, 15} : second \in BytesWith(n, 16, 16)
        BY <1>4, <3>2 DEF SecondBytes
      <4>2. second \in Nat /\ Field(second, 16, 16) = n
        BY <1>4, <4>1, FieldReads
      <4> QED
        BY <4>2
    <3> QED
      BY <3>1, <3>2
  <2> HIDE DEF mbf
  <2>2. Believed(mbf, 8) \in f .. 8
    BY <1>4, <2>1, BelievedEnough
  <2>3. code \in {1, 3}
    BY <1>4 DEF EccCodes, CodesOf, Uncor
  <2>4. Tx58cxgxsxraix(status, second, 8) = Believed(mbf, 8)
    BY <1>2, <2>3 DEF Tx58cxgxsxraix, Among, mbf
  <2> QED
    BY <1>4, <2>2, <2>4 DEF Reported, Uncor, EBADMSG
<1> QED
  BY <1>3, <1>4

(* The generic answer: some were corrected, take it for the most there are. *)
LEMMA GenericReports ==
    ASSUME NEW most \in 0 .. 4, NEW f \in {Uncor} \cup 0 .. most,
           NEW code \in EccCodes("null", f),
           NEW status \in StatusBytes("null", code)
    PROVE  Reported(f, TRUE, Among(<< 0, most, EBADMSG, EINVAL >>, Field(status, 16, 4)), most)
<1>1. code \in 0 .. 2 /\ (f = 0 => code = 0)
      /\ (f > 0 => code = 1) /\ (f = Uncor => code = 2)
  BY DEF EccCodes, CodesOf, Uncor
<1>2. Field(status, 16, 4) = code
  BY <1>1, FieldReads DEF StatusBytes, CodeValues
<1> QED
  BY <1>1, <1>2 DEF Among, Reported, Uncor, EBADMSG, EIO

(* The decoder of a chip is right about that chip, but for the code that    *)
(* one of them does not know.                                               *)
LEMMA EveryDecoderReports ==
    ASSUME NEW p \in World, p \in Info, NEW f \in {Uncor} \cup 0 .. p.ecc.strength,
           NEW ok \in BOOLEAN, NEW code \in EccCodes(p.ecc.get_status, f),
           NEW status \in StatusBytes(p.ecc.get_status, code),
           NEW second \in IF ok THEN SecondBytes(p.ecc.get_status, f) ELSE {EIO}
    PROVE  LET ret == CheckEccStatus(p.ecc, status, second)
           IN  \/ Reported(f, ok, ret, p.ecc.strength)
               \/ /\ p.ecc.get_status = "gd5fxgq5xexxg" /\ f # Uncor
                  /\ code = 3 /\ ret = EINVAL
<1> DEFINE by == p.ecc.get_status
           most == p.ecc.strength
<1>1. by \in {"gd5fxgq4xa", "gd5fxgq4uexxg", "gd5fxgq5xexxg", "gd5fxgq4ufxxg",
              "mx35lf1ge4ab", "micron_8", "pn26g0xa", "tx58cxgxsxraix", "null"}
      /\ most \in Nat
  BY DEF Info, EccInfo
<1>2. IF by = "null" THEN most <= Len(CodesOf[by]) ELSE most = Len(CodesOf[by])
  BY EccAssumption
<1>3. /\ by \in {"gd5fxgq5xexxg", "mx35lf1ge4ab"} => most = 4
      /\ by \in {"gd5fxgq4xa", "gd5fxgq4uexxg", "gd5fxgq4ufxxg", "micron_8", "pn26g0xa",
                 "tx58cxgxsxraix"} => most = 8
      /\ by = "null" => most \in 0 .. 4
  <2>1. /\ Len(CodesOf["gd5fxgq5xexxg"]) = 4 /\ Len(CodesOf["mx35lf1ge4ab"]) = 4
        /\ Len(CodesOf["null"]) = 4
        /\ Len(CodesOf["gd5fxgq4xa"]) = 8 /\ Len(CodesOf["gd5fxgq4uexxg"]) = 8
        /\ Len(CodesOf["gd5fxgq4ufxxg"]) = 8 /\ Len(CodesOf["micron_8"]) = 8
        /\ Len(CodesOf["pn26g0xa"]) = 8 /\ Len(CodesOf["tx58cxgxsxraix"]) = 8
    BY DEF CodesOf
  <2> HIDE DEF by, most
  <2>2. CASE by = "null"
    <3>1. most <= Len(CodesOf["null"])
      BY <1>2, <2>2
    <3>2. most \in 0 .. 4
      BY <1>1, <2>1, <3>1
    <3> QED
      BY <2>2, <3>2
  <2>3. CASE by \in {"gd5fxgq5xexxg", "mx35lf1ge4ab"}
    BY <1>2, <2>1, <2>3
  <2>4. CASE by \notin {"null", "gd5fxgq5xexxg", "mx35lf1ge4ab"}
    BY <1>1, <1>2, <2>1, <2>4
  <2> QED
    BY <2>2, <2>3, <2>4
<1>4. \A ret : Reported(f, TRUE, ret, most) => Reported(f, ok, ret, most)
  BY DEF Reported
<1>5. CASE by = "gd5fxgq4xa"
  BY <1>3, <1>4, <1>5, Gd4xaReports DEF CheckEccStatus
<1>6. CASE by = "gd5fxgq4uexxg"
  BY <1>3, <1>6, Gd4uexxgReports DEF CheckEccStatus
<1>7. CASE by = "gd5fxgq5xexxg"
  BY <1>3, <1>7, Gd5xexxgReports DEF CheckEccStatus
<1>8. CASE by = "gd5fxgq4ufxxg"
  BY <1>3, <1>4, <1>8, Gd4ufxxgReports DEF CheckEccStatus
<1>9. CASE by = "mx35lf1ge4ab"
  BY <1>3, <1>9, Mx35Reports DEF CheckEccStatus
<1>10. CASE by = "micron_8"
  BY <1>3, <1>4, <1>10, Micron8Reports DEF CheckEccStatus
<1>11. CASE by = "pn26g0xa"
  BY <1>3, <1>4, <1>11, Pn26Reports DEF CheckEccStatus
<1>12. CASE by = "tx58cxgxsxraix"
  BY <1>3, <1>12, Tx58Reports DEF CheckEccStatus
<1>13. CASE by = "null"
  BY <1>3, <1>4, <1>13, GenericReports DEF CheckEccStatus
<1> QED
  BY <1>1, <1>5, <1>6, <1>7, <1>8, <1>9, <1>10, <1>11, <1>12, <1>13

LEMMA PartStays == [Next]_vars => part' = part
<1> SUFFICES ASSUME [Next]_vars PROVE part' = part
  OBVIOUS
<1>1. CASE Reset \/ ReadId \/ Detected
  BY <1>1 DEF Reset, ReadId, Detected, chip
<1>2. CASE CacheSelect \/ CacheRead \/ CacheEnds
  BY <1>2 DEF CacheSelect, CacheRead, CacheEnds, Select, chip
<1>3. CASE QuadEnable \/ OtpDisable \/ NoVendorInit \/ MicronInit
  BY <1>3 DEF QuadEnable, OtpDisable, NoVendorInit, MicronInit, chip
<1>4. CASE WinbondSelect \/ WinbondBufRead \/ WinbondEnds
  BY <1>4 DEF WinbondSelect, WinbondBufRead, WinbondEnds, chip
<1>5. CASE UnlockSelect \/ Unlock \/ UnlockEnds
  BY <1>5 DEF UnlockSelect, Unlock, UnlockEnds, chip
<1>6. CASE UNCHANGED vars
  BY <1>6 DEF vars
<1> QED
  BY <1>1, <1>2, <1>3, <1>4, <1>5, <1>6 DEF Next

(* A read with ECC reports no fewer flips than the page had and no more    *)
(* than the chip corrects, reports none of a clean page, and never passes  *)
(* on lost data as good, and fails only when a command did or on the code  *)
(* for 4 flips of a GD5FxGQ5xE, which its decoder refuses: the get_status  *)
(* of every vendor file, on the chip it was written for, is what the       *)
(* driver calls on that chip.                                              *)
THEOREM ReportsFlips == EccSpec => []FlipsReported
<1>1. Spec => []RInv
  BY RInvariance
<1>2. EccSpec => Spec
  <2>1. EccInit => Init
    BY DEF EccInit
  <2>2. [EccNext]_eccvars => [Next]_vars
    BY DEF EccNext, ReadPage, eccvars
  <2> QED
    BY <2>1, <2>2, PTL DEF EccSpec, Spec
<1>3. EccInit /\ RInv => FlipsReported
  <2> SUFFICES ASSUME EccInit, RInv PROVE FlipsReported
    OBVIOUS
  <2>1. part.ecc.strength \in Nat
    BY DEF RInv, IInv, Info, EccInfo
  <2> QED
    BY <2>1 DEF EccInit, NoRead, FlipsReported, Uncor, EBADMSG
<1>4. RInv /\ FlipsReported /\ [EccNext]_eccvars => FlipsReported'
  <2> SUFFICES ASSUME RInv, FlipsReported, [EccNext]_eccvars PROVE FlipsReported'
    OBVIOUS
  <2>1. CASE Next /\ UNCHANGED got
    BY <2>1, PartStays DEF FlipsReported
  <2>2. CASE UNCHANGED eccvars
    BY <2>2, PartStays DEF FlipsReported, eccvars
  <2>3. CASE ReadPage
    <3>1. part' = part /\ pc = "ready"
      BY <2>3 DEF ReadPage, vars
    <3>2. info = part /\ part \in World /\ part \in Info
      BY <3>1, RInvKnown DEF RInv, IInv, TypeOK, After, CachedPcs
    <3>3. PICK f \in {Uncor} \cup 0 .. part.ecc.strength, ok \in Outcomes :
             \E code \in EccCodes(part.ecc.get_status, f) :
             \E status \in StatusBytes(part.ecc.get_status, code),
                second \in IF ok THEN SecondBytes(part.ecc.get_status, f) ELSE {EIO} :
                got' = [ flips |-> f, code |-> code, ok |-> ok,
                          ret |-> CheckEccStatus(info.ecc, status, second) ]
      BY <2>3 DEF ReadPage, StatusBytes
    <3>8. PICK code \in EccCodes(part.ecc.get_status, f) :
             \E status \in StatusBytes(part.ecc.get_status, code),
                second \in IF ok THEN SecondBytes(part.ecc.get_status, f) ELSE {EIO} :
                got' = [ flips |-> f, code |-> code, ok |-> ok,
                          ret |-> CheckEccStatus(info.ecc, status, second) ]
      BY <3>3
    <3>4. PICK status \in StatusBytes(part.ecc.get_status, code),
               second \in IF ok THEN SecondBytes(part.ecc.get_status, f) ELSE {EIO} :
             got' = [ flips |-> f, code |-> code, ok |-> ok,
                       ret |-> CheckEccStatus(info.ecc, status, second) ]
      BY <3>8
    <3> DEFINE ret == CheckEccStatus(part.ecc, status, second)
    <3>5. ok \in BOOLEAN
      BY DEF Outcomes
    <3>6. \/ Reported(f, ok, ret, part.ecc.strength)
          \/ /\ part.ecc.get_status = "gd5fxgq5xexxg" /\ f # Uncor
             /\ code = 3 /\ ret = EINVAL
      BY <3>2, <3>5, EveryDecoderReports
    <3>7. got' = [ flips |-> f, code |-> code, ok |-> ok, ret |-> ret ]
      BY <3>2, <3>4
    <3> HIDE DEF ret
    <3> QED
      BY <3>1, <3>6, <3>7 DEF Reported, FlipsReported, EINVAL, EBADMSG
  <2> QED
    BY <2>1, <2>2, <2>3 DEF EccNext
<1> QED
  BY <1>1, <1>2, <1>3, <1>4, PTL DEF EccSpec
=============================================================================
