------------------------------ MODULE FlashRead ------------------------------
(***************************************************************************)
(* snand_read and snand_scan_bbm of flashops.c, the program's two          *)
(* operations that leave the flash alone.  What a page holds is its place  *)
(* on the device, which is all a dump can get wrong.                       *)
(*                                                                         *)
(* A read fails for the pages in `broken' (the call fails on its way), for *)
(* those in `dead' when ECC is on, and past the last target                *)
(* (spinand_select_target).  A process reads a page once, so what fails on *)
(* its way is fixed for the process.  Corrected bit flips, progress output *)
(* and the -ENOMEM return are left out.                                    *)
(***************************************************************************)
EXTENDS NandGeometry, FiniteSetsExt, Sequences

CONSTANTS Reads,    \* the read command lines considered: offs, len, ecc
          SizeMod,  \* 2 to the width of size_t
          MaxTrouble,  \* how many pages are in trouble
          Zeroes    \* a page of zeroes in the output file

Read == [ offs : Nat, len : Nat, ecc : BOOLEAN ]

ASSUME FlashReadAssumption ==
    /\ SizeMod \in Nat /\ FlashSize < SizeMod
    /\ SizeMod % PageSize = 0       \* both are powers of two
    /\ Reads \subseteq Read
    /\ \A r \in Reads : r.offs < SizeMod /\ r.len < SizeMod
    /\ MaxTrouble \in Nat
    /\ Zeroes \notin Nat \X Nat

VARIABLES dead,      \* flash: pages with more bit flips than ECC corrects
          broken,    \* the pages whose read fails in this process
          marked,    \* flash: the eraseblocks whose marker is not 0xff
          pc,        \* idle, read, dumped, scan, scanned, refused
          req,       \* the arguments of snand_read
          len,       \* its len, once defaulted
          count,     \* rdlen of snand_read, offs of snand_scan_bbm
          pos,       \* io_req.pos, pos
          buf,       \* the last page read
          dump,      \* the output file
          reported   \* the lines snand_scan_bbm printed

flash == << dead, broken, marked >>
vars == << dead, broken, marked, pc, req, len, count, pos, buf, dump, reported >>

PageAt(p) == << EbIndex(p), p.page >>

Pages == Eraseblocks \X PageNos

NoRead == [ offs |-> 0, len |-> 0, ecc |-> FALSE ]
-----------------------------------------------------------------------------
Init ==
    /\ \E k \in 0 .. MaxTrouble :
          dead \in kSubset(k, Pages) /\ broken \in kSubset(MaxTrouble - k, Pages)
    /\ marked \in SUBSET Eraseblocks
    /\ pc = "idle" /\ req = NoRead /\ len = 0 /\ count = 0
    /\ pos = OffsToPos(0) /\ buf = Zeroes
    /\ dump = << >> /\ reported = {}

(* len defaults to the rest of the flash, in size_t arithmetic. *)
LengthOfFlash(r) ==                             \* mutant: offs forgotten
    IF r.len = 0 THEN FlashSize ELSE r.len
Length(r) ==
    IF r.len = 0 THEN (FlashSize + SizeMod - r.offs) % SizeMod ELSE r.len

StartRead(r) ==
    /\ pc = "idle"
    /\ r.offs % PageSize = 0
    /\ pc' = "read" /\ req' = r /\ len' = Length(r) /\ count' = 0
    /\ pos' = OffsToPos(r.offs)
    /\ UNCHANGED << flash, buf, dump, reported >>

(* The alignment check. *)
RefuseRead(r) ==
    /\ pc = "idle"
    /\ r.offs % PageSize # 0
    /\ pc' = "refused" /\ req' = r
    /\ UNCHANGED << flash, len, count, pos, buf, dump, reported >>

(* What spinand_read_page may answer. *)
CanRead(p, ecc) ==
    /\ p.target < NTargets
    /\ PageAt(p) \notin broken
    /\ ~ (ecc /\ PageAt(p) \in dead)

(* The result of the read, kept in buf for fwrite. *)
FetchKeepsStale ==                              \* mutant: no memset
    \/ CanRead(pos, req.ecc) /\ buf' = PageAt(pos)
    \/ ~ CanRead(pos, req.ecc) /\ buf' = buf
Fetch ==
    \/ CanRead(pos, req.ecc) /\ buf' = PageAt(pos)
    \/ ~ CanRead(pos, req.ecc) /\ buf' = Zeroes

(* One turn of the loop: the page goes to the file whether it was read or   *)
(* not.                                                                     *)
DumpPageSkipsBad ==                             \* mutant: continue on error
    /\ pc = "read" /\ count < len
    /\ Fetch
    /\ dump' = IF buf' = Zeroes THEN dump ELSE Append(dump, buf')
    /\ count' = (count + PageSize) % SizeMod
    /\ pos' = NextPage(pos)
    /\ UNCHANGED << flash, pc, req, len, reported >>
DumpPageRetries ==                              \* mutant: retry on error
    /\ pc = "read" /\ count < len
    /\ Fetch
    /\ IF buf' = Zeroes THEN UNCHANGED << count, pos, dump >>
       ELSE /\ count' = (count + PageSize) % SizeMod
            /\ pos' = NextPage(pos)
            /\ dump' = Append(dump, buf')
    /\ UNCHANGED << flash, pc, req, len, reported >>
DumpPage ==
    /\ pc = "read" /\ count < len
    /\ Fetch
    /\ dump' = Append(dump, buf')
    /\ count' = (count + PageSize) % SizeMod
    /\ pos' = NextPage(pos)
    /\ UNCHANGED << flash, pc, req, len, reported >>

ReadEnds ==
    /\ pc = "read" /\ count >= len
    /\ pc' = "dumped"
    /\ UNCHANGED << flash, req, len, count, pos, buf, dump, reported >>
-----------------------------------------------------------------------------
StartScan ==
    /\ pc = "idle"
    /\ pc' = "scan" /\ count' = 0 /\ pos' = OffsToPos(0)
    /\ UNCHANGED << flash, req, len, buf, dump, reported >>

(* The answer of snand_isbad: the marker, read without ECC; TRUE when the   *)
(* read fails, for the marker buffer starts out as zeroes.                  *)
IsBadDefaultsGood(p) ==                         \* mutant: buffer of 0xff
    CanRead(p, FALSE) /\ EbIndex(p) \in marked
IsBad(p) == CanRead(p, FALSE) => EbIndex(p) \in marked

(* The line printed names the target and the eraseblock, not the LUN. *)
Line(p) == << p.target, p.eraseblock >>

ScanBlock ==
    /\ pc = "scan" /\ count < FlashSize
    /\ reported' = IF IsBad(pos) THEN reported \cup {Line(pos)} ELSE reported
    /\ pos' = NextEraseblock(pos)
    /\ count' = count + EraseblockSize
    /\ UNCHANGED << flash, pc, req, len, buf, dump >>

ScanEnds ==
    /\ pc = "scan" /\ count >= FlashSize
    /\ pc' = "scanned"
    /\ UNCHANGED << flash, req, len, count, pos, buf, dump, reported >>
-----------------------------------------------------------------------------
(* main returns; the next process finds the same flash. *)
ProcessEnds ==
    /\ pc \in {"dumped", "scanned", "refused"}
    /\ pc' = "idle" /\ req' = NoRead /\ len' = 0 /\ count' = 0
    /\ pos' = OffsToPos(0) /\ buf' = Zeroes
    /\ dump' = << >> /\ reported' = {}
    /\ UNCHANGED flash

Step == DumpPage \/ ReadEnds \/ ScanBlock \/ ScanEnds

Next == \/ \E r \in Reads : StartRead(r) \/ RefuseRead(r)
        \/ StartScan
        \/ Step
        \/ ProcessEnds

Spec == Init /\ [][Next]_vars

(* Every page read returns. *)
FairSpec == Spec /\ WF_vars(Step)
-----------------------------------------------------------------------------
(* Every variable keeps to its set. *)
TypeOK ==
    /\ dead \subseteq Pages /\ broken \subseteq Pages /\ marked \subseteq Eraseblocks
    /\ pc \in {"idle", "read", "dumped", "scan", "scanned", "refused"}
    /\ req \in Read /\ len \in Nat /\ count \in Nat
    /\ pos \in Position
    /\ buf \in (Nat \X PageNos) \cup {Zeroes}
    /\ dump \in Seq((Nat \X PageNos) \cup {Zeroes})
    /\ reported \subseteq Nat \X (0 .. EraseblocksPerLun - 1)

PageOffs(at) == (at[1] * PagesPerEraseblock + at[2]) * PageSize

(* A dump is an image: whatever fails on the way, and across LUN and target *)
(* boundaries, page i of the file is page i of the flash or zeroes.         *)
DumpPlaced ==
    \A i \in 1 .. Len(dump) :
        dump[i] # Zeroes => PageOffs(dump[i]) = req.offs + (i - 1) * PageSize

(* No page that can be read is missing from the dump. *)
DumpKeepsReadable ==
    \A i \in 1 .. Len(dump) :
        LET p == OffsToPos(req.offs + (i - 1) * PageSize)
        IN  CanRead(p, req.ecc) => dump[i] = PageAt(p)

(* The pages a dump should have: those that hold the bytes asked for. *)
PagesAsked(r) ==
    ((IF r.len = 0 THEN FlashSize - r.offs ELSE r.len) + PageSize - 1)
       \div PageSize

(* A finished dump has the length asked for, by default up to the end of    *)
(* the flash.                                                               *)
DumpLength ==
    pc = "dumped" /\ req.offs <= FlashSize => Len(dump) = PagesAsked(req)

(* A finished scan has named the marked eraseblocks, and those whose marker *)
(* it could not read, all of them and no other.                             *)
ScanComplete ==
    pc = "scanned" =>
        reported = { Line(OffsToPos(b * EraseblockSize)) :
                       b \in { e \in Eraseblocks :
                               e \in marked \/ << e, 0 >> \in broken } }

(* Reading and scanning end, however many reads fail. *)
Terminates ==
    /\ pc = "read" ~> pc = "dumped"
    /\ pc = "scan" ~> pc = "scanned"
=============================================================================
