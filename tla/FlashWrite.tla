----------------------------- MODULE FlashWrite -----------------------------
(***************************************************************************)
(* snand_write of flashops.c, the program's write and erase operations,    *)
(* with the bad block handling under it (snand_isbad, snand_markbad,       *)
(* snand_erase_remark), run against a flash that may fail at any call.     *)
(*                                                                         *)
(* The flash is a page store that outlives the process: a run may be       *)
(* interrupted between any two calls and another one started.  The data of *)
(* a page is the piece of the input file it was programmed with.  The page *)
(* level driver below (SpiNandCore) answers each call with success or with *)
(* an error; Faults says which errors a configuration lets happen:         *)
(*   "read"    a page read fails (also the one that looks for a marker)    *)
(*   "erase"   a block erase reports failure                               *)
(*   "program" a page program reports failure                              *)
(*   "mark"    programming a bad block marker does not take                *)
(*   "silent"  a page program reports success and stores something else    *)
(*                                                                         *)
(* main.c passes zero for the marker offsets and lengths, so the marker is *)
(* the first two OOB bytes of a block's first page.  Progress output and   *)
(* the -ENOMEM return before the first access are left out.                *)
(***************************************************************************)
EXTENDS NandGeometry, Sequences, FiniteSets

CONSTANTS OobSize,     \* memorg.oobsize
          Requests,    \* the command lines considered
          FileLens,    \* the lengths of the input file considered, in bytes
          MarkedSrc,   \* file offsets of the pieces whose OOB bytes spell
                       \* a bad block marker (dumps taken with --with-oob)
          Faults,      \* see above
          Blank,       \* content of an erased page
          Garbage      \* content of a page that is not a piece of the file

(* A piece of the input file: len bytes read at file offset src. *)
Chunk == [ src : Nat, len : Nat ]

(* The arguments main.c passes: for "write" the user's choices and a file  *)
(* that fseek may or may not work on; for "erase" no file.                 *)
WriteRequest == [ offs : Nat, file : {TRUE}, ecc : BOOLEAN, oob : BOOLEAN,
                  rest : BOOLEAN, seekable : BOOLEAN ]

EraseRequest == [ offs : Nat, file : {FALSE}, ecc : {FALSE}, oob : {FALSE},
                  rest : {TRUE}, seekable : {FALSE} ]

ASSUME FlashWriteAssumption ==
    /\ OobSize \in Nat
    /\ \A r \in Requests : r \in WriteRequest \/ r \in EraseRequest
    /\ Requests # {}
    /\ FileLens \subseteq Nat /\ FileLens # {}
    /\ MarkedSrc \subseteq Nat
    /\ Faults \subseteq {"read", "erase", "program", "mark", "silent"}
    /\ Blank # Garbage /\ Blank \notin Chunk /\ Garbage \notin Chunk

VARIABLES mem,      \* flash: content of every page of every eraseblock
          marked,   \* flash: the eraseblocks whose marker is not 0xff
          pc,       \* where the process is: idle, loop, body, verify, bad,
                    \* done, refused
          req,      \* the arguments of the run
          flen,     \* length of the input file
          fpos,     \* position of fp
          pos,      \* wr_req.pos
          curOffs,  \* cur_offs
          ebRd,     \* eb_rd_offs: bytes read for the current eraseblock
          actual,   \* actual_read_len
          buf,      \* the piece in buf
          layout,   \* history: the pages this run counts as written, in order
          skipped   \* history: the eraseblocks this run gave up on

flash == << mem, marked >>
file  == << flen, fpos >>
vars  == << mem, marked, pc, req, flen, fpos, pos, curOffs, ebRd, actual,
            buf, layout, skipped >>

Contents == Chunk \cup {Blank, Garbage}

(* fread_len *)
FreadLen(r) == IF r.oob THEN PageSize + OobSize ELSE PageSize

(* The eraseblock under work. *)
Here == EbIndex(pos)

AllPages(c) == [ p \in PageNos |-> c ]
-----------------------------------------------------------------------------
NoChunk == [ src |-> 0, len |-> 0 ]

NoRequest == [ offs |-> 0, file |-> FALSE, ecc |-> FALSE, oob |-> FALSE,
               rest |-> TRUE, seekable |-> FALSE ]

(* No process yet: the flash is all there is. *)
Init ==
    /\ mem = [ b \in Eraseblocks |-> AllPages(Garbage) ]
    /\ marked \in SUBSET Eraseblocks
    /\ pc = "idle" /\ req = NoRequest
    /\ flen = 0 /\ fpos = 0
    /\ pos = OffsToPos(0) /\ curOffs = 0
    /\ ebRd = 0 /\ actual = 0 /\ buf = NoChunk
    /\ layout = << >> /\ skipped = {}

(* if (fp) actual_read_len = fread_len: what passes the end-of-file test of *)
(* the first pass when there is a file.                                     *)
InitialReadLen(r) == IF r.file THEN FreadLen(r) ELSE 0

(* snand_write up to the loop. *)
Start(r, n) ==
    /\ pc = "idle"
    /\ r.offs % EraseblockSize = 0
    /\ pc' = "loop" /\ req' = r
    /\ flen' = n /\ fpos' = 0
    /\ pos' = OffsToPos(r.offs) /\ curOffs' = r.offs
    /\ ebRd' = 0 /\ buf' = NoChunk
    /\ actual' = InitialReadLen(r)
    /\ layout' = << >> /\ skipped' = {}
    /\ UNCHANGED flash

(* The alignment check: -EINVAL, which main drops. *)
Refuse(r) ==
    /\ pc = "idle"
    /\ r.offs % EraseblockSize # 0
    /\ pc' = "refused" /\ req' = r
    /\ UNCHANGED << flash, file, pos, curOffs, ebRd, actual, buf, layout,
                    skipped >>
-----------------------------------------------------------------------------
(* snand_markbad, whose result no caller looks at. *)
MarkBadLate(b) == marked' = marked \cup {EbIndex(NextEraseblock(pos))}
                                            \* mutant: pos moved first
MarkBad(b) ==
    \/ marked' = marked \cup {b}
    \/ "mark" \in Faults /\ marked' = marked

InLoop == pc = "loop" /\ curOffs < FlashSize

(* cur_offs += eb_size and the next eraseblock. *)
SkipAheadNot == UNCHANGED << curOffs, pos >>    \* mutant: retry it forever
SkipAheadTwice ==                               \* mutant: caller and callee
    /\ curOffs' = curOffs + 2 * EraseblockSize
    /\ pos' = NextEraseblock(NextEraseblock(pos))
SkipAhead ==
    /\ curOffs' = curOffs + EraseblockSize
    /\ pos' = NextEraseblock(pos)

(* What snand_isbad may answer: the marker, or TRUE when the page could not *)
(* be read, for the buffer it tests starts out as zeroes and the error is   *)
(* dropped.                                                                 *)
IsBadNever(b) == {FALSE}                        \* mutant: no marker check
IsBad(b) == {b \in marked} \cup (IF "read" \in Faults THEN {TRUE} ELSE {})

(* A failed erase leaves the eraseblock as it was, erased, or in between. *)
EraseFails ==
    /\ "erase" \in Faults
    /\ \E c \in { mem[Here], AllPages(Blank), AllPages(Garbage) } :
          mem' = [ mem EXCEPT ![Here] = c ]

(* snand_erase_remark fails: the marker is rewritten, the loop skips the    *)
(* eraseblock.                                                              *)
SkipBlock ==
    /\ InLoop /\ pos.page = 0
    /\ \/ TRUE \in IsBad(Here) /\ mem' = mem
       \/ FALSE \in IsBad(Here) /\ EraseFails
    /\ MarkBad(Here)
    /\ ebRd' = 0
    /\ SkipAhead
    /\ skipped' = skipped \cup {Here}
    /\ UNCHANGED << pc, req, file, actual, buf, layout >>

(* snand_erase_remark succeeds: every page, the marker included, is 0xff. *)
EraseBlock ==
    /\ InLoop /\ pos.page = 0
    /\ FALSE \in IsBad(Here)
    /\ mem' = [ mem EXCEPT ![Here] = AllPages(Blank) ]
    /\ marked' = marked \ {Here}
    /\ ebRd' = 0
    /\ pc' = "body"
    /\ UNCHANGED << req, file, pos, curOffs, actual, buf, layout, skipped >>
-----------------------------------------------------------------------------
(* Past the erase, at the test of actual_read_len. *)
AtBody == pc = "body" \/ (InLoop /\ pos.page # 0)

(* fread(buf, 1, fread_len, fp) *)
NextChunkDataOnly ==                            \* mutant: OOB bytes not read
    LET left == flen - fpos
    IN  [ src |-> fpos, len |-> IF left < PageSize THEN left ELSE PageSize ]
NextChunk ==
    LET left == flen - fpos
    IN  [ src |-> fpos,
          len |-> IF left < FreadLen(req) THEN left ELSE FreadLen(req) ]

(* Programming clears bits only: the result is the data when the page was   *)
(* blank.                                                                   *)
Programmed(old, c) == IF old = Blank THEN c ELSE Garbage

(* Does programming piece c here put a bad block marker on the block? *)
CarriesMarker(c) ==
    req.oob /\ pos.page = 0 /\ c.len > PageSize /\ c.src \in MarkedSrc

(* The page counts as written: on to the next. *)
Advance ==
    /\ layout' = Append(layout, << Here, pos.page >>)
    /\ curOffs' = curOffs + PageSize
    /\ pos' = NextPage(pos)
    /\ pc' = "loop"

FillBufLast(c) ==                               \* mutant: eb_rd_offs = ...
    actual' = c.len /\ fpos' = fpos + c.len /\ ebRd' = c.len /\ buf' = c
FillBuf(c) ==
    /\ actual' = c.len
    /\ fpos' = fpos + c.len
    /\ ebRd' = ebRd + c.len
    /\ buf' = c

(* fread and spinand_write_page; without verification, the advance too. *)
WritePage ==
    /\ AtBody /\ actual = FreadLen(req)
    /\ LET c == NextChunk
           old == mem[Here][pos.page]
       IN  /\ FillBuf(c)
           /\ \E d \in {Programmed(old, c)}
                         \cup (IF "silent" \in Faults THEN {Garbage} ELSE {}) :
                mem' = [ mem EXCEPT ![Here][pos.page] = d ]
           /\ marked' = marked \cup (IF CarriesMarker(c) THEN {Here} ELSE {})
    /\ IF req.ecc /\ ~ req.oob
       THEN pc' = "verify" /\ UNCHANGED << pos, curOffs, layout >>
       ELSE Advance
    /\ UNCHANGED << req, flen, skipped >>

(* spinand_write_page reports a failure; the page may hold anything. *)
WriteFails ==
    /\ AtBody /\ actual = FreadLen(req)
    /\ "program" \in Faults
    /\ LET c == NextChunk
           old == mem[Here][pos.page]
       IN  /\ FillBuf(c)
           /\ \E d \in {old, Programmed(old, c), Garbage} :
                mem' = [ mem EXCEPT ![Here][pos.page] = d ]
           /\ \/ marked' = marked
              \/ CarriesMarker(c) /\ marked' = marked \cup {Here}
    /\ pc' = "bad"
    /\ UNCHANGED << req, flen, pos, curOffs, layout, skipped >>

(* The page is read back and compares equal. *)
VerifyPage ==
    /\ pc = "verify"
    /\ mem[Here][pos.page] = buf
    /\ Advance
    /\ UNCHANGED << flash, req, file, ebRd, actual, buf, skipped >>

(* Reading back fails or memcmp finds a difference. *)
VerifyFails ==
    /\ pc = "verify"
    /\ "read" \in Faults \/ mem[Here][pos.page] # buf
    /\ pc' = "bad"
    /\ UNCHANGED << flash, req, file, pos, curOffs, ebRd, actual, buf,
                    layout, skipped >>

(* fseek(fp, -eb_rd_offs, SEEK_CUR), its result ignored: on a pipe it does  *)
(* nothing.                                                                 *)
RewoundOnePage == IF req.seekable THEN fpos - actual ELSE fpos   \* mutant
RewoundForward == IF req.seekable THEN fpos + ebRd ELSE fpos     \* mutant
Rewound == IF req.seekable THEN fpos - ebRd ELSE fpos

(* The BAD_BLOCK label: mark, rewind the file to the eraseblock's first     *)
(* byte, next eraseblock.  actual_read_len keeps its value.                 *)
BadBlock ==
    /\ pc = "bad"
    /\ MarkBad(Here)
    /\ fpos' = Rewound
    /\ pos' = NextEraseblock(pos)
    /\ curOffs' = PosToOffs(NextEraseblock(pos))
    /\ layout' = SubSeq(layout, 1, Len(layout) - pos.page)
    /\ skipped' = skipped \cup {Here}
    /\ pc' = "loop"
    /\ UNCHANGED << mem, req, flen, ebRd, actual, buf >>

(* The file is exhausted and --erase-rest, or there is no file: go on to   *)
(* the next eraseblock, leaving this one erased.                           *)
EraseRestIgnored ==                             \* mutant: option dropped
    /\ AtBody /\ actual # FreadLen(req) /\ req.rest
    /\ pc' = "done"
    /\ UNCHANGED << flash, req, file, pos, curOffs, ebRd, actual, buf,
                    layout, skipped >>
EraseRest ==
    /\ AtBody /\ actual # FreadLen(req) /\ req.rest
    /\ pos' = NextEraseblock(pos)
    /\ curOffs' = PosToOffs(NextEraseblock(pos))
    /\ pc' = "loop"
    /\ UNCHANGED << flash, req, file, ebRd, actual, buf, layout, skipped >>

(* The file is exhausted: leave the loop. *)
Break ==
    /\ AtBody /\ actual # FreadLen(req) /\ ~ req.rest
    /\ pc' = "done"
    /\ UNCHANGED << flash, req, file, pos, curOffs, ebRd, actual, buf,
                    layout, skipped >>

(* The end of the flash. *)
LoopEnds ==
    /\ pc = "loop" /\ curOffs >= FlashSize
    /\ pc' = "done"
    /\ UNCHANGED << flash, req, file, pos, curOffs, ebRd, actual, buf,
                    layout, skipped >>

(* The process ends: main returns, or it is killed, or the power fails      *)
(* between two calls.  Only the flash remains; what was a piece of this     *)
(* run's file is old data to the next.                                      *)
ProcessEnds ==
    /\ pc # "idle"
    /\ pc' = "idle" /\ req' = NoRequest
    /\ flen' = 0 /\ fpos' = 0
    /\ pos' = OffsToPos(0) /\ curOffs' = 0
    /\ ebRd' = 0 /\ actual' = 0 /\ buf' = NoChunk
    /\ layout' = << >> /\ skipped' = {}
    /\ mem' = [ b \in Eraseblocks |->
                  [ p \in PageNos |->
                      IF mem[b][p] = Blank THEN Blank ELSE Garbage ] ]
    /\ UNCHANGED marked
-----------------------------------------------------------------------------
Step == \/ SkipBlock \/ EraseBlock \/ WritePage \/ WriteFails
        \/ VerifyPage \/ VerifyFails \/ BadBlock
        \/ EraseRest \/ Break \/ LoopEnds

Next == \/ \E r \in Requests, n \in FileLens : Start(r, n)
        \/ \E r \in Requests : Refuse(r)
        \/ Step
        \/ ProcessEnds

Spec == Init /\ [][Next]_vars

(* Every call of the loop returns, so a run that is not killed proceeds. *)
FairSpec == Spec /\ WF_vars(Step)
-----------------------------------------------------------------------------
(* Every variable keeps to its set. *)
TypeOK ==
    /\ mem \in [ Eraseblocks -> [ PageNos -> Contents ] ]
    /\ marked \subseteq Eraseblocks
    /\ pc \in {"idle", "loop", "body", "verify", "bad", "done", "refused"}
    /\ req \in WriteRequest \cup EraseRequest
    /\ flen \in Nat /\ fpos \in 0 .. flen
    /\ pos \in Position
    /\ curOffs \in Nat /\ ebRd \in Nat /\ actual \in Nat
    /\ buf \in Chunk
    /\ layout \in Seq(Eraseblocks \X PageNos)
    /\ skipped \subseteq Eraseblocks

(* The two cursors of the loop, the offset that ends it and the position    *)
(* the calls are made with, never come apart, and a call is only made for a *)
(* page of the device.                                                      *)
OffsetTracksPosition ==
    /\ pc \in {"loop", "body", "verify", "bad", "done"} =>
          curOffs = PosToOffs(pos)
    /\ pc \in {"body", "verify", "bad"} => Here \in Eraseblocks

(* When BAD_BLOCK is reached, eb_rd_offs is the distance back to the piece  *)
(* the eraseblock's first page got: what fseek rewinds to is what the pages *)
(* of the earlier eraseblocks end with.                                     *)
RewindToBlockStart ==
    pc = "bad" /\ req.seekable =>
        fpos - ebRd = (Len(layout) - pos.page) * FreadLen(req)

(* The i-th piece of the file. *)
Piece(i) ==
    LET src  == (i - 1) * FreadLen(req)
        left == flen - src
    IN  [ src |-> src,
          len |-> IF left < FreadLen(req) THEN left ELSE FreadLen(req) ]

Content(at) == mem[at[1]][at[2]]

(* Programming errors the program is told about, or checks for itself. *)
ErrorsShow == "silent" \notin Faults \/ (req.ecc /\ ~ req.oob)

Right(c, i) == c = Piece(i) \/ (~ ErrorsShow /\ c = Garbage)

(* The pages a run counts as written hold the pieces of the file, in order  *)
(* and from the first byte on, however many eraseblocks failed on the way   *)
(* and at whichever page.  Only a page that is not read back can be wrong,  *)
(* when the chip does not report it; no page ever holds a wrong piece.      *)
ImageLaidOut ==
    req.seekable =>
        \A i \in 1 .. Len(layout) : Right(Content(layout[i]), i)

(* Eraseblocks lo .. hi - 1 were given up. *)
GaveUp(lo, hi) == \A b \in Eraseblocks : lo <= b /\ b < hi => b \in skipped

Follows(a, b) ==
    \/ b[1] = a[1] /\ b[2] = a[2] + 1
    \/ /\ a[2] = PagesPerEraseblock - 1 /\ b[2] = 0
       /\ b[1] > a[1] /\ GaveUp(a[1] + 1, b[1])

(* The pages written follow one another on the device; the only gaps are    *)
(* whole eraseblocks that were given up, and none of those holds a piece.   *)
LayoutContiguous ==
    /\ \A i \in 1 .. Len(layout) : layout[i][1] \notin skipped
    /\ layout # << >> =>
          /\ layout[1][2] = 0
          /\ layout[1][1] * EraseblockSize >= req.offs
          /\ GaveUp(req.offs \div EraseblockSize, layout[1][1])
    /\ \A i \in 1 .. Len(layout) - 1 : Follows(layout[i], layout[i + 1])

(* README.md:12 "Skip bad blocks during writing": bad blocks cost space,    *)
(* not data.  A run that ends has written the whole file or has run out of  *)
(* flash.                                                                   *)
ImageComplete ==
    pc = "done" /\ req.file /\ req.seekable =>
        fpos = flen \/ curOffs >= FlashSize

(* That holds but for one case: what was last read of the file is its last *)
(* piece, which is short or empty, and the eraseblock it went to was given *)
(* up.  In no other way is a piece of the file lost, whatever fails and in *)
(* whatever order.                                                         *)
TailLost == /\ buf.len < FreadLen(req) /\ buf.src + buf.len = flen
            /\ Here > 0 /\ Here - 1 \in skipped

OnlyTailLost ==
    pc = "done" /\ req.file /\ req.seekable =>
        fpos = flen \/ curOffs >= FlashSize \/ TailLost

(* Whenever a page is about to be programmed, it and every later page of    *)
(* its eraseblock are blank, and the eraseblock has no marker (but one the  *)
(* file itself put there): no page is programmed twice, and the pages of an *)
(* eraseblock are programmed in ascending order, as NAND requires.          *)
BlankAhead ==
    AtBody /\ actual = FreadLen(req) =>
        /\ Here \notin marked \/ req.oob
        /\ \A p \in PageNos : p >= pos.page => mem[Here][p] = Blank

(* With --erase-rest, and for the erase operation, every eraseblock from    *)
(* the offset to the end of the device ends up given up, or with nothing on *)
(* it but pieces of the file.                                               *)
EraseRestCovers ==
    pc = "done" /\ req.rest =>
        \A b \in Eraseblocks, p \in PageNos :
            b * EraseblockSize >= req.offs =>
                \/ b \in skipped
                \/ mem[b][p] = Blank
                \/ \E i \in 1 .. Len(layout) : layout[i] = << b, p >>

(* The erase operation passes a null fp: no step of it comes near fread or  *)
(* fseek.                                                                   *)
NoFileNoAccess ==
    ~ req.file => actual # FreadLen(req) /\ pc \notin {"verify", "bad"}
-----------------------------------------------------------------------------
(* An eraseblock found marked is never erased and never written: neither a  *)
(* factory mark nor one an earlier run left is lost.                        *)
MarkedLeftAlone ==
    [][ pc' # "idle" =>
          \A b \in marked : b \in marked' /\ (mem'[b] = mem[b] \/ req.oob) ]_vars

(* Nothing in front of the offset is touched. *)
FrontUntouched ==
    [][ pc' # "idle" =>
          \A b \in Eraseblocks : (b + 1) * EraseblockSize <= req.offs =>
              mem'[b] = mem[b] /\ (b \in marked' <=> b \in marked) ]_vars

(* The only eraseblock a step gives a mark is one it gives up, or one whose *)
(* first piece carries a mark.                                              *)
MarksWhatItSkips ==
    [][ \A b \in marked' \ marked :
            b \in skipped' \/ req.oob ]_vars

(* The detailed run implements the store of an image it promises, when the  *)
(* file can be rewound and the errors of the flash show: what the layout    *)
(* holds is taken from the flash, page by page.  Other runs promise nothing *)
(* and store nothing, and neither does one that was refused.                *)
Promised == req.seekable /\ ErrorsShow /\ pc \notin {"idle", "refused"}

Promise ==
    INSTANCE ImageStore WITH
        PiecesPerBlock <- PagesPerEraseblock,
        writing <- Promised,
        size    <- IF Promised THEN flen ELSE 0,
        unit    <- IF Promised THEN FreadLen(req) ELSE PageSize,
        stored  <- IF Promised
                   THEN [ i \in 1 .. Len(layout) |-> Content(layout[i]) ]
                   ELSE << >>

StoresImage == Promise!Spec

(* A run that is not killed comes to an end. *)
Terminates == pc = "loop" ~> pc \in {"done", "idle"}
=============================================================================
