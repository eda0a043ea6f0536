-------------------------- MODULE FlashWrite_proofs --------------------------
(***************************************************************************)
(* Safety of the write and erase operations for every memory organisation, *)
(* every set of command lines and files and every combination of faults.   *)
(*                                                                         *)
(* None of the properties is inductive alone.  IInv adds what the loop of  *)
(* snand_write relies on without saying so: how many bytes of the file are *)
(* accounted for at each label (Account), which pages of the current       *)
(* eraseblock are still blank (BlankLeft), and that the pages counted as   *)
(* written all lie behind the position (Behind).                           *)
(***************************************************************************)
EXTENDS FlashWrite, NandGeometry_proofs, SequenceTheorems

FL == FreadLen(req)

InRun == pc \in {"loop", "body", "verify", "bad"}

(* The pages counted as written lie behind the position. *)
Behind ==
    /\ InRun =>
          /\ pos.page <= Len(layout)
          /\ \A i \in 1 .. Len(layout) :
                \/ layout[i][1] < Here
                \/ layout[i][1] = Here /\ layout[i][2] < pos.page
    /\ pc \in {"idle", "refused"} => Len(layout) = 0

(* Bytes read so far, and of those the bytes read for this eraseblock. *)
Account ==
    /\ pc \in {"loop", "body"} /\ actual = FL /\ req.seekable =>
          /\ fpos = Len(layout) * FL
          /\ pc = "body" \/ pos.page # 0 => ebRd = pos.page * FL
    /\ pc \in {"verify", "bad"} =>
          /\ actual = buf.len
          /\ req.seekable =>
                /\ fpos = Len(layout) * FL + buf.len
                /\ ebRd = pos.page * FL + buf.len
                /\ buf = Piece(Len(layout) + 1)

(* The pages of the eraseblock that have not been programmed since its     *)
(* erase.                                                                  *)
BlankLeft ==
    /\ AtBody => \A p \in PageNos : p >= pos.page => mem[Here][p] = Blank
    /\ pc = "verify" => \A p \in PageNos : p > pos.page => mem[Here][p] = Blank
    /\ AtBody \/ pc = "verify" => Here \notin marked \/ req.oob

NoFile ==
    /\ ~ req.file => actual = 0 /\ pc \notin {"verify", "bad"}
    /\ pc \in {"idle", "refused"} => actual = 0

IInv ==
    /\ TypeOK
    /\ OffsetTracksPosition
    /\ Behind
    /\ Account
    /\ BlankLeft
    /\ NoFile
    /\ ImageLaidOut
-----------------------------------------------------------------------------
LEMMA FreadLenPositive ==
    ASSUME NEW r \in WriteRequest \cup EraseRequest
    PROVE  FreadLen(r) \in Nat \ {0}
BY MemorgAssumption, FlashWriteAssumption DEF FreadLen

LEMMA RequestType ==
    ASSUME NEW r \in Requests
    PROVE  /\ r \in WriteRequest \cup EraseRequest
           /\ r.offs \in Nat
           /\ ~ r.file => ~ r.seekable
           /\ r.file => r \in WriteRequest
BY FlashWriteAssumption DEF WriteRequest, EraseRequest

LEMMA NoRequestType == NoRequest \in EraseRequest
BY DEF NoRequest, EraseRequest

LEMMA FirstPage == 0 \in PageNos
BY MemorgAssumption DEF PageNos

LEMMA OffsZero == OffsToPos(0) \in Position /\ PosToOffs(OffsToPos(0)) = 0
<1>1. 0 * PageSize = 0
  BY MemorgAssumption
<1> QED
  BY <1>1, OffsToPosInverse

(* The piece fread returns is the next one of the file, and fits. *)
LEMMA NextChunkFacts ==
    ASSUME TypeOK
    PROVE  /\ NextChunk \in Chunk
           /\ NextChunk.src = fpos
           /\ NextChunk.len <= FL
           /\ fpos + NextChunk.len \in 0 .. flen
<1>1. FL \in Nat \ {0}
  BY FreadLenPositive DEF TypeOK, FL
<1>2. flen - fpos \in Nat /\ fpos \in Nat /\ flen \in Nat
  BY DEF TypeOK
<1> QED
  BY <1>1, <1>2 DEF NextChunk, Chunk, FL

LEMMA NextChunkIsPiece ==
    ASSUME TypeOK, fpos = Len(layout) * FL
    PROVE  NextChunk = Piece(Len(layout) + 1)
<1>1. Len(layout) \in Nat
  BY LenProperties DEF TypeOK
<1>2. (Len(layout) + 1) - 1 = Len(layout)
  BY <1>1
<1> QED
  BY <1>2 DEF NextChunk, Piece, FL

-----------------------------------------------------------------------------
LEMMA InitInv == Init => IInv
<1> SUFFICES ASSUME Init PROVE IInv
  OBVIOUS
<1>1. TypeOK
  <2>1. mem \in [ Eraseblocks -> [ PageNos -> Contents ] ]
    BY DEF Init, AllPages, Contents
  <2>2. buf \in Chunk
    BY DEF Init, NoChunk, Chunk
  <2>3. layout \in Seq(Eraseblocks \X PageNos)
    BY EmptySeq DEF Init
  <2> QED
    BY <2>1, <2>2, <2>3, OffsZero, NoRequestType DEF TypeOK, Init
<1>2. Len(layout) = 0
  BY EmptySeq DEF Init
<1> QED
  BY <1>1, <1>2 DEF Init, IInv, OffsetTracksPosition, Behind, Account, BlankLeft,
     NoFile, ImageLaidOut, InRun, AtBody, InLoop, NoRequest

LEMMA StartInv ==
    ASSUME IInv, NEW r \in Requests, NEW n \in FileLens, Start(r, n)
    PROVE  IInv'
<1>1. r \in WriteRequest \cup EraseRequest /\ n \in Nat /\ FreadLen(r) \in Nat \ {0}
      /\ r.offs \in Nat /\ (~ r.file => ~ r.seekable)
  BY RequestType, FreadLenPositive, FlashWriteAssumption
<1>2. /\ OffsToPos(r.offs) \in Position
      /\ PosToOffs(OffsToPos(r.offs)) = r.offs
      /\ OffsToPos(r.offs).page = 0
  BY <1>1, AlignedOffsToPos DEF Start
<1>3. layout' \in Seq(Eraseblocks \X PageNos) /\ Len(layout') = 0
  BY EmptySeq DEF Start
<1>4. r.file \in BOOLEAN
  BY <1>1 DEF WriteRequest, EraseRequest
<1>5. TypeOK'
  BY <1>1, <1>2, <1>3, <1>4 DEF TypeOK, IInv, Start, flash, InitialReadLen, NoChunk, Chunk
<1>6. 0 * FreadLen(r) = 0
  BY <1>1
<1>7. pos'.page = 0 /\ pc' = "loop" /\ fpos' = 0 /\ curOffs' = PosToOffs(pos')
  BY <1>2 DEF Start
<1>8. Account'
  BY <1>3, <1>6, <1>7 DEF Account, FL, Start
<1> QED
  BY <1>1, <1>3, <1>5, <1>7, <1>8 DEF IInv, OffsetTracksPosition, Behind, BlankLeft,
     NoFile, ImageLaidOut, InRun, AtBody, InLoop, Start, InitialReadLen

LEMMA RefuseInv ==
    ASSUME IInv, NEW r \in Requests, Refuse(r)
    PROVE  IInv'
<1>1. r \in WriteRequest \cup EraseRequest
  BY RequestType
<1>2. TypeOK'
  BY <1>1 DEF TypeOK, IInv, Refuse, flash, file
<1>3. Len(layout') = 0 /\ pc' = "refused" /\ actual' = 0
  BY DEF IInv, Behind, NoFile, Refuse, flash, file
<1> QED
  BY <1>2, <1>3 DEF IInv, OffsetTracksPosition, Behind, Account, BlankLeft,
     NoFile, ImageLaidOut, InRun, AtBody, InLoop
-----------------------------------------------------------------------------
(* Facts every step of a run starts from. *)
LEMMA RunFacts ==
    ASSUME IInv
    PROVE  /\ pos \in Position /\ pos.page \in PageNos /\ PageNos \subseteq Nat
           /\ Len(layout) \in Nat
           /\ layout \in Seq(Eraseblocks \X PageNos)
           /\ \A i \in 1 .. Len(layout) :
                 layout[i][1] \in Eraseblocks /\ layout[i][2] \in PageNos
           /\ InLoop \/ pc \in {"body", "verify", "bad"} => Here \in Eraseblocks
           /\ AtBody => Here \in Eraseblocks
           /\ FL \in Nat \ {0}
           /\ Here \in Nat
<1>1. TypeOK
  BY DEF IInv
<1>2. pos \in Position /\ layout \in Seq(Eraseblocks \X PageNos)
  BY <1>1 DEF TypeOK
<1>3. Len(layout) \in Nat
      /\ \A i \in 1 .. Len(layout) : layout[i] \in Eraseblocks \X PageNos
  BY <1>2, LenProperties, ElementOfSeq
<1>4. InLoop => Here \in Eraseblocks
  BY <1>2, InDevice DEF InLoop, IInv, OffsetTracksPosition, Here
<1>5. pc \in {"body", "verify", "bad"} => Here \in Eraseblocks
  BY DEF IInv, OffsetTracksPosition
<1>6. FL \in Nat \ {0}
  BY <1>1, FreadLenPositive DEF TypeOK, FL
<1>7. Here \in Nat
  BY <1>2, EbIndexNat DEF Here
<1>8. pos.page \in PageNos /\ PageNos \subseteq Nat
  BY <1>2, MemorgAssumption DEF Position, PageNos
<1> QED
  BY <1>2, <1>3, <1>4, <1>5, <1>6, <1>7, <1>8 DEF AtBody

(* A step that touches nothing in front of the position leaves what the    *)
(* pages counted as written hold.                                          *)
LEMMA EarlierKept ==
    ASSUME IInv, InRun, NEW i \in 1 .. Len(layout),
           \A b \in Eraseblocks, p \in PageNos :
              b # Here \/ p < pos.page => mem'[b][p] = mem[b][p]
    PROVE  mem'[layout[i][1]][layout[i][2]] = Content(layout[i])
<1>1. layout[i][1] \in Eraseblocks /\ layout[i][2] \in PageNos
  BY RunFacts
<1>2. layout[i][1] # Here \/ layout[i][2] < pos.page
  <2>1. \/ layout[i][1] < Here
        \/ layout[i][1] = Here /\ layout[i][2] < pos.page
    BY DEF IInv, Behind
  <2>2. layout[i][1] \in Nat /\ Here \in Nat
    BY <1>1, RunFacts, SizesPositive DEF Eraseblocks
  <2> QED
    BY <2>1, <2>2
<1> QED
  BY <1>1, <1>2 DEF Content

(* Writing one page, or one eraseblock from its first page on, leaves what *)
(* is in front of the position.                                            *)
LEMMA PageWriteKeeps ==
    ASSUME TypeOK, Here \in Eraseblocks, pos.page \in PageNos, NEW d \in Contents,
           mem' = [ mem EXCEPT ![Here][pos.page] = d ]
    PROVE  /\ mem' \in [ Eraseblocks -> [ PageNos -> Contents ] ]
           /\ mem'[Here][pos.page] = d
           /\ \A b \in Eraseblocks, p \in PageNos :
                 b # Here \/ p # pos.page => mem'[b][p] = mem[b][p]
BY DEF TypeOK

LEMMA BlockWriteKeeps ==
    ASSUME TypeOK, Here \in Eraseblocks, NEW c \in [ PageNos -> Contents ],
           mem' = [ mem EXCEPT ![Here] = c ]
    PROVE  /\ mem' \in [ Eraseblocks -> [ PageNos -> Contents ] ]
           /\ mem'[Here] = c
           /\ \A b \in Eraseblocks, p \in PageNos :
                 b # Here => mem'[b][p] = mem[b][p]
BY DEF TypeOK

(* The move to the next eraseblock puts the whole layout behind the new    *)
(* position.                                                               *)
LEMMA NextBlockBehind ==
    ASSUME IInv, InRun, pos' = NextEraseblock(pos)
    PROVE  /\ pos' \in Position /\ pos'.page = 0
           /\ Here' = Here + 1
           /\ \A i \in 1 .. Len(layout) : layout[i][1] < Here'
<1>1. pos' \in Position /\ pos'.page = 0 /\ Here' = Here + 1
  BY RunFacts, NextEraseblockType, NextEraseblockAdvances DEF Here
<1>2. ASSUME NEW i \in 1 .. Len(layout)
      PROVE  layout[i][1] < Here'
  <2>1. layout[i][1] < Here \/ layout[i][1] = Here
    BY DEF IInv, Behind
  <2>2. layout[i][1] \in Nat /\ Here \in Nat
    BY RunFacts, SizesPositive DEF Eraseblocks
  <2> QED
    BY <1>1, <2>1, <2>2
<1> QED
  BY <1>1, <1>2

LEMMA MarkBadType ==
    ASSUME TypeOK, NEW b \in Eraseblocks, MarkBad(b)
    PROVE  marked' \subseteq Eraseblocks
BY DEF MarkBad, TypeOK
-----------------------------------------------------------------------------
LEMMA SkipBlockInv ==
    ASSUME IInv, SkipBlock
    PROVE  IInv'
<1>1. /\ InRun /\ InLoop /\ pc = "loop" /\ pc' = "loop" /\ Here \in Eraseblocks
      /\ pos.page = 0
  BY RunFacts DEF SkipBlock, InRun, InLoop
<1>2. mem' \in [ Eraseblocks -> [ PageNos -> Contents ] ]
      /\ \A b \in Eraseblocks, p \in PageNos :
            b # Here \/ p < pos.page => mem'[b][p] = mem[b][p]
  <2>1. CASE mem' = mem
    BY <2>1 DEF IInv, TypeOK
  <2>2. CASE EraseFails
    <3>1. PICK c \in { mem[Here], AllPages(Blank), AllPages(Garbage) } :
             mem' = [ mem EXCEPT ![Here] = c ]
      BY <2>2 DEF EraseFails
    <3>2. c \in [ PageNos -> Contents ]
      BY <1>1, <3>1 DEF IInv, TypeOK, AllPages, Contents
    <3>3. \A p \in PageNos : ~ (p < pos.page)
      BY <1>1, RunFacts
    <3> QED
      BY <1>1, <3>1, <3>2, <3>3, BlockWriteKeeps DEF IInv
  <2> QED
    BY <2>1, <2>2 DEF SkipBlock
<1>3. /\ pos' = NextEraseblock(pos) /\ curOffs' = curOffs + EraseblockSize
      /\ UNCHANGED << pc, req, flen, fpos, actual, buf, layout >>
      /\ ebRd' = 0 /\ skipped' = skipped \cup {Here}
  BY DEF SkipBlock, SkipAhead, file
<1>4. pos' \in Position /\ pos'.page = 0
      /\ \A i \in 1 .. Len(layout) : layout[i][1] < Here'
  BY <1>1, <1>3, NextBlockBehind
<1>5. curOffs' = PosToOffs(pos') /\ curOffs' \in Nat
  BY <1>1, <1>3, RunFacts, NextEraseblockOffset, SizesPositive
     DEF IInv, OffsetTracksPosition, TypeOK
<1>6. marked' \subseteq Eraseblocks
  BY <1>1, MarkBadType DEF IInv, SkipBlock
<1>7. TypeOK'
  BY <1>1, <1>2, <1>3, <1>4, <1>5, <1>6 DEF IInv, TypeOK
<1>8. Behind'
  BY <1>1, <1>3, <1>4, RunFacts DEF Behind
<1>9. Account'
  BY <1>1, <1>3, <1>4 DEF IInv, Account, FL
<1>10. ImageLaidOut'
  BY <1>1, <1>2, <1>3, EarlierKept DEF IInv, ImageLaidOut, Right, ErrorsShow, Content, Piece
<1> QED
  BY <1>1, <1>3, <1>4, <1>5, <1>7, <1>8, <1>9, <1>10
     DEF IInv, OffsetTracksPosition, BlankLeft, NoFile, AtBody

LEMMA EraseBlockInv ==
    ASSUME IInv, EraseBlock
    PROVE  IInv'
<1>1. /\ InRun /\ InLoop /\ pc = "loop" /\ pc' = "body" /\ Here \in Eraseblocks
      /\ pos.page = 0
  BY RunFacts DEF EraseBlock, InRun, InLoop
<1>2. AllPages(Blank) \in [ PageNos -> Contents ]
      /\ mem' = [ mem EXCEPT ![Here] = AllPages(Blank) ]
  BY DEF EraseBlock, AllPages, Contents
<1>3. /\ mem' \in [ Eraseblocks -> [ PageNos -> Contents ] ]
      /\ mem'[Here] = AllPages(Blank)
      /\ \A b \in Eraseblocks, p \in PageNos :
            b # Here \/ p < pos.page => mem'[b][p] = mem[b][p]
  <2>1. \A p \in PageNos : ~ (p < pos.page)
    BY <1>1, RunFacts
  <2> QED
    BY <1>1, <1>2, <2>1, BlockWriteKeeps DEF IInv
<1>4. /\ UNCHANGED << req, flen, fpos, pos, curOffs, actual, buf, layout, skipped >>
      /\ ebRd' = 0 /\ marked' = marked \ {Here} /\ Here' = Here
  BY DEF EraseBlock, file, Here
<1>5. TypeOK'
  BY <1>1, <1>3, <1>4 DEF IInv, TypeOK
<1>6. Behind'
  BY <1>1, <1>4 DEF IInv, Behind, InRun
<1>7. 0 * FL = 0
  BY RunFacts
<1>8. Account'
  BY <1>1, <1>4, <1>7 DEF IInv, Account, FL
<1>9. BlankLeft'
  BY <1>1, <1>3, <1>4 DEF BlankLeft, AllPages
<1>10. ImageLaidOut'
  BY <1>1, <1>3, <1>4, EarlierKept DEF IInv, ImageLaidOut, Right, ErrorsShow, Content, Piece
<1> QED
  BY <1>1, <1>4, <1>5, <1>6, <1>8, <1>9, <1>10
     DEF IInv, OffsetTracksPosition, NoFile
-----------------------------------------------------------------------------
(* Counting the page at the position as written keeps the accounts, when   *)
(* the page holds what buf does.                                           *)
LEMMA AdvanceFacts ==
    ASSUME IInv, InRun, Here \in Eraseblocks, curOffs = PosToOffs(pos), Advance
    PROVE  /\ pos' \in Position
           /\ layout' \in Seq(Eraseblocks \X PageNos)
           /\ Len(layout') = Len(layout) + 1
           /\ \A i \in 1 .. Len(layout) : layout'[i] = layout[i]
           /\ layout'[Len(layout) + 1] = << Here, pos.page >>
           /\ pc' = "loop"
           /\ curOffs' = PosToOffs(pos') /\ curOffs' \in Nat
           /\ pos'.page <= Len(layout')
           /\ \A i \in 1 .. Len(layout') :
                 \/ layout'[i][1] < Here'
                 \/ layout'[i][1] = Here' /\ layout'[i][2] < pos'.page
           /\ \/ Here' = Here /\ pos'.page = pos.page + 1
              \/ Here' = Here + 1 /\ pos'.page = 0
<1>1. pos \in Position /\ pos.page \in PageNos /\ PageNos \subseteq Nat /\ Here \in Nat
      /\ Len(layout) \in Nat /\ layout \in Seq(Eraseblocks \X PageNos)
  BY RunFacts
<1>2. << Here, pos.page >> \in Eraseblocks \X PageNos
  BY <1>1
<1>3. /\ layout' \in Seq(Eraseblocks \X PageNos)
      /\ Len(layout') = Len(layout) + 1
      /\ \A i \in 1 .. Len(layout) : layout'[i] = layout[i]
      /\ layout'[Len(layout) + 1] = << Here, pos.page >>
  BY <1>1, <1>2, AppendProperties DEF Advance
<1>4. pos' \in Position /\ pos' = NextPage(pos) /\ pc' = "loop"
  BY <1>1, NextPageType DEF Advance
<1>5. curOffs' = PosToOffs(pos') /\ curOffs' \in Nat
  BY <1>1, NextPageAdvances, MemorgAssumption DEF Advance, IInv, TypeOK
<1>6. \/ Here' = Here /\ pos'.page = pos.page + 1
      \/ Here' = Here + 1 /\ pos'.page = 0
  BY <1>1, <1>4, NextPageStays DEF Here
<1>a. pos.page \in Nat /\ pos.page <= Len(layout)
  BY <1>1 DEF IInv, Behind
<1>7. pos'.page <= Len(layout')
  <2>1. Len(layout') = Len(layout) + 1
    BY <1>3
  <2>2. CASE pos'.page = pos.page + 1
    BY <1>1, <1>a, <2>1, <2>2
  <2>3. CASE pos'.page = 0
    BY <1>1, <1>a, <2>1, <2>3
  <2> QED
    BY <1>6, <2>2, <2>3
<1>8. ASSUME NEW i \in 1 .. Len(layout')
      PROVE  \/ layout'[i][1] < Here'
             \/ layout'[i][1] = Here' /\ layout'[i][2] < pos'.page
  <2>1. Len(layout) \in Nat /\ Len(layout') = Len(layout) + 1 /\ Here \in Nat
    BY <1>1, <1>3
  <2>2. i \in 1 .. Len(layout) \/ i = Len(layout) + 1
    BY <2>1
  <2>3. CASE i = Len(layout) + 1
    <3>1. layout'[i][1] = Here /\ layout'[i][2] = pos.page
      BY <1>3, <2>3
    <3>2. CASE Here' = Here /\ pos'.page = pos.page + 1
      BY <3>1, <3>2, <1>a
    <3>3. CASE Here' = Here + 1
      BY <3>1, <3>3, <2>1
    <3> QED
      BY <1>6, <3>2, <3>3
  <2>4. CASE i \in 1 .. Len(layout)
    <3>1. layout'[i] = layout[i]
      BY <1>3, <2>4
    <3>2. \/ layout[i][1] < Here
          \/ layout[i][1] = Here /\ layout[i][2] < pos.page
      BY <2>4 DEF IInv, Behind
    <3>3. layout[i][1] \in Nat /\ layout[i][2] \in Nat
      <4>1. layout[i][1] \in Eraseblocks /\ layout[i][2] \in PageNos
        BY <2>4, RunFacts
      <4>2. layout[i][1] \in Nat
        BY <4>1, SizesPositive DEF Eraseblocks
      <4> QED
        BY <1>1, <4>1, <4>2
    <3>4. CASE Here' = Here /\ pos'.page = pos.page + 1
      BY <3>1, <3>2, <3>3, <3>4, <1>a
    <3>5. CASE Here' = Here + 1
      BY <3>1, <3>2, <3>3, <3>5, <2>1
    <3> QED
      BY <1>6, <3>4, <3>5
  <2> QED
    BY <2>2, <2>3, <2>4
<1> QED
  BY <1>3, <1>4, <1>5, <1>6, <1>7, <1>8

LEMMA PieceStable ==
    ASSUME UNCHANGED << req, flen >>, NEW i
    PROVE  Piece(i)' = Piece(i)
BY DEF Piece, FreadLen

(* The accounts when one more page is counted: the file has been read up   *)
(* to the end of the layout, and eb_rd_offs covers this eraseblock.        *)
LEMMA AdvanceAccount ==
    ASSUME IInv, InRun, Here \in Eraseblocks, curOffs = PosToOffs(pos), Advance,
           UNCHANGED req,
           req.seekable /\ actual' = FL =>
              /\ fpos' = Len(layout) * FL + FL
              /\ ebRd' = pos.page * FL + FL
    PROVE  Account'
<1>1. Len(layout) \in Nat /\ FL \in Nat \ {0} /\ pos.page \in Nat /\ FL' = FL
  BY RunFacts DEF FL
<1>2. (Len(layout) + 1) * FL = Len(layout) * FL + FL
      /\ (pos.page + 1) * FL = pos.page * FL + FL
  BY <1>1
<1>3. pc' = "loop" /\ Len(layout') = Len(layout) + 1
      /\ (pos'.page = pos.page + 1 \/ pos'.page = 0)
  BY AdvanceFacts
<1> QED
  BY <1>1, <1>2, <1>3 DEF Account
-----------------------------------------------------------------------------
(* What fread and the program call have in common, whatever the outcome.   *)
LEMMA FillFacts ==
    ASSUME IInv, AtBody, actual = FL, FillBuf(NextChunk)
    PROVE  /\ InRun /\ Here \in Eraseblocks /\ curOffs = PosToOffs(pos)
           /\ pos.page \in PageNos
           /\ NextChunk \in Chunk
           /\ actual' \in Nat /\ actual' = NextChunk.len
           /\ fpos' \in 0 .. flen /\ fpos' = fpos + NextChunk.len
           /\ ebRd' \in Nat
           /\ buf' = NextChunk
           /\ req.file
           /\ req.seekable =>
                 /\ fpos = Len(layout) * FL
                 /\ ebRd' = pos.page * FL + NextChunk.len
                 /\ NextChunk = Piece(Len(layout) + 1)
<1>1. TypeOK /\ FL \in Nat \ {0} /\ Len(layout) \in Nat
  BY RunFacts DEF IInv
<1>2. InRun /\ pc \in {"loop", "body"} /\ (pc = "body" \/ pos.page # 0)
  BY DEF AtBody, InLoop, InRun
<1>3. Here \in Eraseblocks /\ pos.page \in PageNos
  BY RunFacts
<1>4. curOffs = PosToOffs(pos)
  BY <1>2 DEF IInv, OffsetTracksPosition
<1>5. /\ NextChunk \in Chunk /\ NextChunk.len \in Nat
      /\ fpos + NextChunk.len \in 0 .. flen
  BY <1>1, NextChunkFacts DEF Chunk
<1>6. req.seekable => fpos = Len(layout) * FL /\ ebRd = pos.page * FL
  BY <1>2 DEF IInv, Account
<1>7. req.seekable => NextChunk = Piece(Len(layout) + 1)
  BY <1>1, <1>6, NextChunkIsPiece
<1>8. req.file
  BY <1>1 DEF IInv, NoFile, TypeOK, WriteRequest, EraseRequest
<1> QED
  BY <1>1, <1>2, <1>3, <1>4, <1>5, <1>6, <1>7, <1>8 DEF FillBuf, TypeOK

(* A page programmed while blank, with errors that show, holds the piece.  *)
LEMMA ContentsProgrammed ==
    ASSUME NEW old \in Contents, NEW c \in Chunk
    PROVE  Programmed(old, c) \in Contents
BY DEF Programmed, Contents

LEMMA WriteFailsInv ==
    ASSUME IInv, WriteFails
    PROVE  IInv'
<1> DEFINE c == NextChunk
           old == mem[Here][pos.page]
<1>1. AtBody /\ actual = FL /\ FillBuf(c) /\ pc' = "bad"
      /\ UNCHANGED << req, flen, pos, curOffs, layout, skipped >>
  BY DEF WriteFails, FL
<1>2. /\ InRun /\ Here \in Eraseblocks /\ curOffs = PosToOffs(pos)
      /\ pos.page \in PageNos
      /\ c \in Chunk
      /\ actual' \in Nat /\ actual' = c.len
      /\ fpos' \in 0 .. flen /\ fpos' = fpos + c.len
      /\ ebRd' \in Nat
      /\ buf' = c
      /\ req.file
      /\ req.seekable =>
            /\ fpos = Len(layout) * FL
            /\ ebRd' = pos.page * FL + c.len
            /\ c = Piece(Len(layout) + 1)
  BY <1>1, FillFacts
<1>3. old \in Contents
  BY <1>2 DEF IInv, TypeOK
<1>4. PICK d \in {old, Programmed(old, c), Garbage} :
         mem' = [ mem EXCEPT ![Here][pos.page] = d ]
  BY DEF WriteFails
<1>5. d \in Contents
  BY <1>2, <1>3, <1>4, ContentsProgrammed DEF Contents
<1>6. /\ mem' \in [ Eraseblocks -> [ PageNos -> Contents ] ]
      /\ \A b \in Eraseblocks, p \in PageNos :
            b # Here \/ p < pos.page => mem'[b][p] = mem[b][p]
  <2>1. \A p \in PageNos : p < pos.page => p # pos.page
    BY RunFacts
  <2> HIDE DEF c, old
  <2> QED
    BY <1>2, <1>4, <1>5, <2>1, PageWriteKeeps DEF IInv
<1> HIDE DEF c, old
<1>7. marked' \subseteq Eraseblocks
  BY <1>2 DEF WriteFails, IInv, TypeOK
<1>8. TypeOK'
  BY <1>1, <1>2, <1>6, <1>7 DEF IInv, TypeOK
<1>9. Here' = Here /\ FL' = FL
  BY <1>1 DEF Here, FL
<1>10. Behind'
  BY <1>1, <1>2, <1>9 DEF IInv, Behind, InRun
<1>11. Account'
  BY <1>1, <1>2, <1>9, PieceStable DEF Account
<1>12. ImageLaidOut'
  BY <1>1, <1>2, <1>6, EarlierKept, PieceStable DEF IInv, ImageLaidOut, Right, ErrorsShow, Content
<1> QED
  BY <1>1, <1>2, <1>8, <1>9, <1>10, <1>11, <1>12
     DEF IInv, OffsetTracksPosition, BlankLeft, NoFile, AtBody, InLoop
-----------------------------------------------------------------------------
(* The image grows by the page at the position.                            *)
LEMMA AdvanceImage ==
    ASSUME IInv, InRun, Here \in Eraseblocks, curOffs = PosToOffs(pos), Advance,
           UNCHANGED << req, flen >>,
           \A b \in Eraseblocks, p \in PageNos :
              b # Here \/ p < pos.page => mem'[b][p] = mem[b][p],
           req.seekable => Right(mem'[Here][pos.page], Len(layout) + 1)
    PROVE  ImageLaidOut'
<1> SUFFICES ASSUME req.seekable, NEW i \in 1 .. Len(layout')
             PROVE  Right(mem'[layout'[i][1]][layout'[i][2]], i)
  BY PieceStable DEF ImageLaidOut, Right, ErrorsShow, Content
<1>1. /\ Len(layout) \in Nat /\ Len(layout') = Len(layout) + 1
      /\ \A j \in 1 .. Len(layout) : layout'[j] = layout[j]
      /\ layout'[Len(layout) + 1] = << Here, pos.page >>
  BY AdvanceFacts, RunFacts
<1>2. i \in 1 .. Len(layout) \/ i = Len(layout) + 1
  BY <1>1
<1>3. CASE i = Len(layout) + 1
  BY <1>1, <1>3
<1>4. CASE i \in 1 .. Len(layout)
  <2>1. mem'[layout[i][1]][layout[i][2]] = Content(layout[i])
    BY <1>4, EarlierKept
  <2>2. Right(Content(layout[i]), i)
    BY <1>4 DEF IInv, ImageLaidOut
  <2>3. layout'[i] = layout[i]
    BY <1>1, <1>4
  <2> QED
    BY <2>1, <2>2, <2>3
<1> QED
  BY <1>2, <1>3, <1>4

(* Past the page just counted, the eraseblock is as blank as before.       *)
LEMMA AdvanceBlank ==
    ASSUME IInv, InRun, Here \in Eraseblocks, curOffs = PosToOffs(pos), Advance,
           UNCHANGED req,
           \A p \in PageNos : p > pos.page => mem'[Here][p] = Blank,
           Here \notin marked' \/ req.oob
    PROVE  BlankLeft'
<1>1. pc' = "loop" /\ pos.page \in Nat /\ PageNos \subseteq Nat
      /\ \/ Here' = Here /\ pos'.page = pos.page + 1
         \/ Here' = Here + 1 /\ pos'.page = 0
  BY AdvanceFacts, RunFacts
<1>2. CASE pos'.page = 0
  BY <1>1, <1>2 DEF BlankLeft, AtBody
<1>3. CASE Here' = Here /\ pos'.page = pos.page + 1
  <2>1. \A p \in PageNos : p >= pos'.page => p > pos.page
    BY <1>1, <1>3
  <2> QED
    BY <1>1, <1>3, <2>1 DEF BlankLeft
<1> QED
  BY <1>1, <1>2, <1>3

LEMMA WritePageInv ==
    ASSUME IInv, WritePage
    PROVE  IInv'
<1> DEFINE c == NextChunk
           old == mem[Here][pos.page]
<1>1. AtBody /\ actual = FL /\ FillBuf(c) /\ UNCHANGED << req, flen, skipped >>
  BY DEF WritePage, FL
<1>2. /\ InRun /\ Here \in Eraseblocks /\ curOffs = PosToOffs(pos)
      /\ pos.page \in PageNos
      /\ c \in Chunk
      /\ actual' \in Nat /\ actual' = c.len
      /\ fpos' \in 0 .. flen /\ fpos' = fpos + c.len
      /\ ebRd' \in Nat
      /\ buf' = c
      /\ req.file
      /\ req.seekable =>
            /\ fpos = Len(layout) * FL
            /\ ebRd' = pos.page * FL + c.len
            /\ c = Piece(Len(layout) + 1)
  BY <1>1, FillFacts
<1>3. old \in Contents /\ old = Blank
  BY <1>1, <1>2, RunFacts DEF IInv, TypeOK, BlankLeft
<1>4. PICK d \in {Programmed(old, c)} \cup (IF "silent" \in Faults THEN {Garbage} ELSE {}) :
         mem' = [ mem EXCEPT ![Here][pos.page] = d ]
  BY DEF WritePage
<1>5. d \in Contents /\ (d = c \/ ("silent" \in Faults /\ d = Garbage))
  BY <1>2, <1>3, <1>4 DEF Contents, Programmed
<1>6. /\ mem' \in [ Eraseblocks -> [ PageNos -> Contents ] ]
      /\ mem'[Here][pos.page] = d
      /\ \A b \in Eraseblocks, p \in PageNos :
            b # Here \/ p # pos.page => mem'[b][p] = mem[b][p]
  <2> HIDE DEF c, old
  <2> QED
    BY <1>2, <1>4, <1>5, PageWriteKeeps DEF IInv
<1>7. marked' \subseteq Eraseblocks
      /\ (Here \notin marked' \/ req.oob)
  BY <1>1, <1>2 DEF WritePage, CarriesMarker, IInv, TypeOK, BlankLeft
<1>8. \A b \in Eraseblocks, p \in PageNos :
         b # Here \/ p < pos.page => mem'[b][p] = mem[b][p]
  BY <1>2, <1>6, RunFacts
<1>9. \A p \in PageNos : p > pos.page => mem'[Here][p] = Blank
  <2>1. \A p \in PageNos : p > pos.page => p >= pos.page /\ p # pos.page
    BY <1>2, RunFacts
  <2> QED
    BY <1>1, <1>2, <1>6, <2>1 DEF IInv, BlankLeft
<1> HIDE DEF c, old
<1>10. c.len \in Nat
  BY <1>2 DEF Chunk
<1>11. CASE req.ecc /\ ~ req.oob
  <2>1. pc' = "verify" /\ UNCHANGED << pos, curOffs, layout >>
    BY <1>11 DEF WritePage
  <2>2. Here' = Here /\ FL' = FL
    BY <1>1, <2>1 DEF Here, FL
  <2>3. TypeOK'
    BY <1>1, <1>2, <1>6, <1>7, <2>1 DEF IInv, TypeOK
  <2>4. Behind'
    BY <1>1, <1>2, <2>1, <2>2 DEF IInv, Behind, InRun
  <2>5. Account'
    BY <1>1, <1>2, <2>1, <2>2, PieceStable DEF Account
  <2>6. ImageLaidOut'
    BY <1>1, <1>2, <1>8, <2>1, EarlierKept, PieceStable
       DEF IInv, ImageLaidOut, Right, ErrorsShow, Content
  <2>7. BlankLeft'
    BY <1>1, <1>7, <1>9, <2>1, <2>2 DEF BlankLeft, AtBody, InLoop
  <2> QED
    BY <1>1, <1>2, <2>1, <2>2, <2>3, <2>4, <2>5, <2>6, <2>7
       DEF IInv, OffsetTracksPosition, NoFile
<1>12. CASE ~ (req.ecc /\ ~ req.oob)
  <2>1. Advance
    BY <1>12 DEF WritePage
  <2>2. /\ pos' \in Position
        /\ layout' \in Seq(Eraseblocks \X PageNos)
        /\ pc' = "loop"
        /\ curOffs' = PosToOffs(pos') /\ curOffs' \in Nat
        /\ pos'.page <= Len(layout')
        /\ \A i \in 1 .. Len(layout') :
              \/ layout'[i][1] < Here'
              \/ layout'[i][1] = Here' /\ layout'[i][2] < pos'.page
    BY <1>2, <2>1, AdvanceFacts
  <2>3. TypeOK'
    BY <1>1, <1>2, <1>6, <1>7, <2>2 DEF IInv, TypeOK
  <2>4. Behind'
    BY <2>2 DEF Behind
  <2>5. Account'
    <3>1. req.seekable /\ actual' = FL =>
            fpos' = Len(layout) * FL + FL /\ ebRd' = pos.page * FL + FL
      BY <1>2
    <3> QED
      BY <1>1, <1>2, <2>1, <3>1, AdvanceAccount
  <2>6. ImageLaidOut'
    <3>1. req.seekable => Right(mem'[Here][pos.page], Len(layout) + 1)
      BY <1>2, <1>5, <1>6, <1>12 DEF Right, ErrorsShow
    <3> QED
      BY <1>1, <1>2, <1>8, <2>1, <3>1, AdvanceImage
  <2>7. BlankLeft'
    BY <1>1, <1>2, <1>7, <1>9, <2>1, AdvanceBlank
  <2> QED
    BY <1>1, <1>2, <2>2, <2>3, <2>4, <2>5, <2>6, <2>7
       DEF IInv, OffsetTracksPosition, NoFile
<1> QED
  BY <1>11, <1>12

LEMMA VerifyPageInv ==
    ASSUME IInv, VerifyPage
    PROVE  IInv'
<1>1. /\ pc = "verify" /\ mem[Here][pos.page] = buf /\ Advance
      /\ UNCHANGED << mem, marked, req, flen, fpos, ebRd, actual, buf, skipped >>
  BY DEF VerifyPage, flash, file
<1>2. InRun /\ Here \in Eraseblocks /\ curOffs = PosToOffs(pos)
  BY <1>1 DEF InRun, IInv, OffsetTracksPosition
<1>3. /\ pos' \in Position
      /\ layout' \in Seq(Eraseblocks \X PageNos)
      /\ pc' = "loop"
      /\ curOffs' = PosToOffs(pos') /\ curOffs' \in Nat
      /\ pos'.page <= Len(layout')
      /\ \A i \in 1 .. Len(layout') :
            \/ layout'[i][1] < Here'
            \/ layout'[i][1] = Here' /\ layout'[i][2] < pos'.page
  BY <1>1, <1>2, AdvanceFacts
<1>4. TypeOK'
  BY <1>1, <1>3 DEF IInv, TypeOK
<1>5. /\ actual = buf.len
      /\ req.seekable =>
            /\ fpos = Len(layout) * FL + buf.len
            /\ ebRd = pos.page * FL + buf.len
            /\ buf = Piece(Len(layout) + 1)
  BY <1>1 DEF IInv, Account
<1>6. Account'
  BY <1>1, <1>2, <1>5, AdvanceAccount
<1>7. ImageLaidOut'
  BY <1>1, <1>2, <1>5, AdvanceImage DEF Right
<1>8. BlankLeft'
  BY <1>1, <1>2, AdvanceBlank DEF IInv, BlankLeft
<1> QED
  BY <1>1, <1>2, <1>3, <1>4, <1>6, <1>7, <1>8
     DEF IInv, OffsetTracksPosition, NoFile, Behind

LEMMA VerifyFailsInv ==
    ASSUME IInv, VerifyFails
    PROVE  IInv'
<1>1. /\ pc = "verify" /\ pc' = "bad"
      /\ UNCHANGED << mem, marked, req, flen, fpos, pos, curOffs, ebRd, actual,
                      buf, layout, skipped >>
  BY DEF VerifyFails, flash, file
<1>2. TypeOK'
  BY <1>1 DEF IInv, TypeOK
<1>3. Here' = Here /\ FL' = FL
  BY <1>1 DEF Here, FL
<1>4. Behind'
  BY <1>1, <1>3 DEF IInv, Behind, InRun
<1>5. Account'
  BY <1>1, <1>3, PieceStable DEF IInv, Account
<1>6. ImageLaidOut'
  BY <1>1, PieceStable DEF IInv, ImageLaidOut, Right, ErrorsShow, Content
<1> QED
  BY <1>1, <1>2, <1>3, <1>4, <1>5, <1>6
     DEF IInv, OffsetTracksPosition, BlankLeft, AtBody, InLoop, NoFile
-----------------------------------------------------------------------------
(* At BAD_BLOCK the distance eb_rd_offs leads back exactly to the pieces of *)
(* the earlier eraseblocks.                                                *)
LEMMA RewindFacts ==
    ASSUME IInv, pc = "bad", req.seekable
    PROVE  /\ fpos - ebRd = (Len(layout) - pos.page) * FL
           /\ fpos - ebRd \in 0 .. flen
<1>1. /\ Len(layout) \in Nat /\ pos.page \in Nat /\ FL \in Nat \ {0}
      /\ pos.page <= Len(layout)
  BY RunFacts DEF IInv, Behind, InRun
<1>2. /\ fpos = Len(layout) * FL + buf.len
      /\ ebRd = pos.page * FL + buf.len
      /\ buf.len \in Nat /\ fpos \in 0 .. flen /\ flen \in Nat
  BY DEF IInv, Account, TypeOK, Chunk
<1> DEFINE k == Len(layout) - pos.page
<1>3. k \in Nat /\ Len(layout) = pos.page + k
  BY <1>1
<1> HIDE DEF k
<1>4. Len(layout) * FL = pos.page * FL + k * FL
  BY <1>1, <1>3
<1>5. pos.page * FL \in Nat /\ k * FL \in Nat
  BY <1>1, <1>3, ProductNat
<1>6. fpos - ebRd = k * FL
  <2> DEFINE A == pos.page * FL
             B == k * FL
  <2>1. A \in Nat /\ B \in Nat /\ fpos = (A + B) + buf.len /\ ebRd = A + buf.len
    BY <1>2, <1>4, <1>5
  <2> HIDE DEF A, B
  <2>2. fpos - ebRd = B
    BY <1>2, <2>1
  <2> QED
    BY <2>2 DEF B
<1>7. fpos - ebRd <= fpos
  BY <1>2, <1>5
<1> QED
  BY <1>2, <1>5, <1>6, <1>7 DEF k

LEMMA BadBlockInv ==
    ASSUME IInv, BadBlock
    PROVE  IInv'
<1> DEFINE n == Len(layout) - pos.page
<1>1. /\ pc = "bad" /\ pc' = "loop" /\ pos' = NextEraseblock(pos)
      /\ curOffs' = PosToOffs(pos') /\ layout' = SubSeq(layout, 1, n)
      /\ fpos' = Rewound /\ MarkBad(Here) /\ skipped' = skipped \cup {Here}
      /\ UNCHANGED << mem, req, flen, ebRd, actual, buf >>
  BY DEF BadBlock
<1>2. InRun /\ Here \in Eraseblocks /\ FL' = FL
  BY <1>1, RunFacts DEF InRun, FL
<1>3. /\ Len(layout) \in Nat /\ pos.page \in Nat /\ pos.page <= Len(layout)
      /\ n \in 0 .. Len(layout) /\ layout \in Seq(Eraseblocks \X PageNos)
  BY <1>2, RunFacts DEF IInv, Behind
<1>4. /\ layout' \in Seq(Eraseblocks \X PageNos)
      /\ Len(layout') = n
      /\ \A i \in 1 .. n : layout'[i] = layout[i]
  <2>1. \A i \in 1 .. n : layout[i] \in Eraseblocks \X PageNos
    BY <1>3, ElementOfSeq
  <2> HIDE DEF n
  <2>2. /\ SubSeq(layout, 1, n) \in Seq(Eraseblocks \X PageNos)
        /\ Len(SubSeq(layout, 1, n)) = IF 1 <= n THEN n - 1 + 1 ELSE 0
        /\ \A i \in 1 .. n - 1 + 1 : SubSeq(layout, 1, n)[i] = layout[1 + i - 1]
    BY <1>3, <2>1, SubSeqProperties
  <2>3. Len(layout') = n
    BY <1>1, <1>3, <2>2
  <2>4. ASSUME NEW i \in 1 .. n PROVE layout'[i] = layout[i]
    <3>1. i \in 1 .. n - 1 + 1 /\ 1 + i - 1 = i
      BY <1>3
    <3>2. SubSeq(layout, 1, n)[i] = layout[1 + i - 1]
      BY <2>2, <3>1
    <3> QED
      BY <1>1, <3>1, <3>2
  <2> QED
    BY <1>1, <2>2, <2>3, <2>4
<1>5. pos' \in Position /\ pos'.page = 0
      /\ \A i \in 1 .. Len(layout) : layout[i][1] < Here'
  BY <1>1, <1>2, NextBlockBehind
<1>6. PosToOffs(pos') \in Nat
  <2>1. EbIndex(pos') * PagesPerEraseblock \in Nat
    BY <1>5, EbIndexNat, ProductNat, MemorgAssumption
  <2> QED
    BY <1>5, <2>1, ProductNat, MemorgAssumption DEF PosToOffs
<1>7. fpos' \in 0 .. flen
      /\ (req.seekable => fpos' = n * FL)
  BY <1>1, RewindFacts DEF Rewound, IInv, TypeOK
<1>8. marked' \subseteq Eraseblocks
  BY <1>1, <1>2, MarkBadType DEF IInv
<1> HIDE DEF n
<1>9. TypeOK'
  BY <1>1, <1>2, <1>4, <1>5, <1>6, <1>7, <1>8 DEF IInv, TypeOK
<1>10. \A i \in 1 .. n : i \in 1 .. Len(layout)
  BY <1>3
<1>11. Behind'
  <2>1. pos'.page <= Len(layout')
    BY <1>3, <1>4, <1>5
  <2>2. \A i \in 1 .. Len(layout') : layout'[i][1] < Here'
    BY <1>4, <1>5, <1>10
  <2> QED
    BY <1>1, <2>1, <2>2 DEF Behind
<1>12. Account'
  BY <1>1, <1>2, <1>4, <1>5, <1>7 DEF Account
<1>13. ImageLaidOut'
  <2> SUFFICES ASSUME req.seekable, NEW i \in 1 .. n
               PROVE  Right(mem[layout[i][1]][layout[i][2]], i)
    BY <1>1, <1>4, PieceStable DEF ImageLaidOut, Right, ErrorsShow, Content
  <2> QED
    BY <1>10 DEF IInv, ImageLaidOut, Content
<1> QED
  BY <1>1, <1>5, <1>9, <1>11, <1>12, <1>13
     DEF IInv, OffsetTracksPosition, BlankLeft, AtBody, NoFile

LEMMA EraseRestInv ==
    ASSUME IInv, EraseRest
    PROVE  IInv'
<1>1. /\ AtBody /\ pc' = "loop" /\ actual # FL /\ pos' = NextEraseblock(pos)
      /\ curOffs' = PosToOffs(pos')
      /\ UNCHANGED << mem, marked, req, flen, fpos, ebRd, actual, buf, layout,
                      skipped >>
  BY DEF EraseRest, FL, flash, file
<1>2. InRun /\ FL' = FL
  BY <1>1 DEF AtBody, InLoop, InRun, FL
<1>3. pos' \in Position /\ pos'.page = 0
      /\ \A i \in 1 .. Len(layout) : layout[i][1] < Here'
  BY <1>1, <1>2, NextBlockBehind
<1>4. PosToOffs(pos') \in Nat
  <2>1. EbIndex(pos') * PagesPerEraseblock \in Nat
    BY <1>3, EbIndexNat, ProductNat, MemorgAssumption
  <2> QED
    BY <1>3, <2>1, ProductNat, MemorgAssumption DEF PosToOffs
<1>5. TypeOK'
  BY <1>1, <1>3, <1>4 DEF IInv, TypeOK
<1>6. Behind'
  BY <1>1, <1>3, RunFacts DEF Behind
<1>7. ImageLaidOut'
  BY <1>1, PieceStable DEF IInv, ImageLaidOut, Right, ErrorsShow, Content
<1> QED
  BY <1>1, <1>2, <1>3, <1>5, <1>6, <1>7
     DEF IInv, OffsetTracksPosition, Account, BlankLeft, AtBody, NoFile

(* The two ways out of the loop leave everything but pc as it is.          *)
LEMMA LeaveLoopInv ==
    ASSUME IInv, InRun, pc' = "done",
           UNCHANGED << mem, marked, req, flen, fpos, pos, curOffs, ebRd, actual,
                        buf, layout, skipped >>,
           pc \in {"loop", "body"}
    PROVE  IInv'
<1>1. TypeOK'
  BY DEF IInv, TypeOK
<1>2. ImageLaidOut'
  BY PieceStable DEF IInv, ImageLaidOut, Right, ErrorsShow, Content
<1>3. curOffs' = PosToOffs(pos')
  BY DEF IInv, OffsetTracksPosition
<1> QED
  BY <1>1, <1>2, <1>3
     DEF IInv, OffsetTracksPosition, Behind, Account, BlankLeft, AtBody, InLoop,
         InRun, NoFile

LEMMA BreakInv ==
    ASSUME IInv, Break
    PROVE  IInv'
BY LeaveLoopInv DEF Break, AtBody, InLoop, InRun, flash, file

LEMMA LoopEndsInv ==
    ASSUME IInv, LoopEnds
    PROVE  IInv'
BY LeaveLoopInv DEF LoopEnds, InRun, flash, file

LEMMA ProcessEndsInv ==
    ASSUME IInv, ProcessEnds
    PROVE  IInv'
<1>1. mem' \in [ Eraseblocks -> [ PageNos -> Contents ] ]
  BY DEF ProcessEnds, Contents
<1>2. layout' \in Seq(Eraseblocks \X PageNos) /\ Len(layout') = 0
  BY EmptySeq DEF ProcessEnds
<1>3. TypeOK'
  BY <1>1, <1>2, OffsZero, NoRequestType
     DEF ProcessEnds, IInv, TypeOK, NoChunk, Chunk
<1> QED
  BY <1>2, <1>3 DEF ProcessEnds, IInv, OffsetTracksPosition, Behind, Account,
     BlankLeft, NoFile, ImageLaidOut, InRun, AtBody, InLoop, NoRequest

LEMMA StutterInv ==
    ASSUME IInv, UNCHANGED vars
    PROVE  IInv'
<1>1. TypeOK'
  BY DEF IInv, TypeOK, vars
<1>2. ImageLaidOut'
  BY PieceStable DEF IInv, ImageLaidOut, Right, ErrorsShow, Content, vars
<1>3. Here' = Here /\ FL' = FL
  BY DEF Here, FL, vars
<1>4. Account'
  BY <1>3, PieceStable DEF IInv, Account, vars
<1> QED
  BY <1>1, <1>2, <1>3, <1>4 DEF IInv, OffsetTracksPosition, Behind, BlankLeft,
     NoFile, InRun, AtBody, InLoop, vars
-----------------------------------------------------------------------------
LEMMA NextInv ==
    ASSUME IInv, [Next]_vars
    PROVE  IInv'
<1>1. ASSUME NEW r \in Requests, NEW n \in FileLens, Start(r, n) PROVE IInv'
  BY <1>1, StartInv
<1>2. ASSUME NEW r \in Requests, Refuse(r) PROVE IInv'
  BY <1>2, RefuseInv
<1>3. CASE SkipBlock
  BY <1>3, SkipBlockInv
<1>4. CASE EraseBlock
  BY <1>4, EraseBlockInv
<1>5. CASE WritePage
  BY <1>5, WritePageInv
<1>6. CASE WriteFails
  BY <1>6, WriteFailsInv
<1>7. CASE VerifyPage
  BY <1>7, VerifyPageInv
<1>8. CASE VerifyFails
  BY <1>8, VerifyFailsInv
<1>9. CASE BadBlock
  BY <1>9, BadBlockInv
<1>10. CASE EraseRest
  BY <1>10, EraseRestInv
<1>11. CASE Break
  BY <1>11, BreakInv
<1>12. CASE LoopEnds
  BY <1>12, LoopEndsInv
<1>13. CASE ProcessEnds
  BY <1>13, ProcessEndsInv
<1>14. CASE UNCHANGED vars
  BY <1>14, StutterInv
<1> QED
  BY <1>1, <1>2, <1>3, <1>4, <1>5, <1>6, <1>7, <1>8, <1>9, <1>10, <1>11, <1>12,
     <1>13, <1>14 DEF Next, Step

(* IInv is an inductive invariant of the write operation.                  *)
THEOREM Invariance == Spec => []IInv
<1>1. Init => IInv
  BY InitInv
<1>2. IInv /\ [Next]_vars => IInv'
  BY NextInv
<1> QED
  BY <1>1, <1>2, PTL DEF Spec

(* Every variable of the write operation keeps to its set; in particular    *)
(* the rewind of BAD_BLOCK never leaves the file.                           *)
THEOREM TypeCorrect == Spec => []TypeOK
<1>1. IInv => TypeOK
  BY DEF IInv
<1> QED
  BY <1>1, Invariance, PTL

(* cur_offs is at all times the offset of wr_req.pos, across LUN and target *)
(* boundaries and every way of skipping an eraseblock, and no call is made  *)
(* for a page beyond the device.                                            *)
THEOREM OffsetTracks == Spec => []OffsetTracksPosition
<1>1. IInv => OffsetTracksPosition
  BY DEF IInv
<1> QED
  BY <1>1, Invariance, PTL

(* Every program call finds its page and the pages after it blank.          *)
THEOREM ProgramsBlankPages == Spec => []BlankAhead
<1>1. IInv => BlankAhead
  BY DEF IInv, BlankLeft, BlankAhead
<1> QED
  BY <1>1, Invariance, PTL

(* The seek of BAD_BLOCK goes back exactly to the byte the first page of    *)
(* the failed eraseblock was written from.                                  *)
THEOREM RewindsToBlockStart == Spec => []RewindToBlockStart
<1>1. IInv => RewindToBlockStart
  BY RewindFacts DEF RewindToBlockStart, FL
<1> QED
  BY <1>1, Invariance, PTL

(* The erase operation, which has no file, never reads or rewinds one.      *)
THEOREM NullFileSafe == Spec => []NoFileNoAccess
<1>1. IInv => NoFileNoAccess
  <2> SUFFICES ASSUME IInv PROVE NoFileNoAccess
    OBVIOUS
  <2>1. FL \in Nat \ {0}
    BY RunFacts
  <2> QED
    BY <2>1 DEF IInv, NoFile, NoFileNoAccess, FL
<1> QED
  BY <1>1, Invariance, PTL

(* Whatever blocks fail, in whatever way the flash reports, the pages a     *)
(* run counts as written hold the pieces of the file in order.              *)
THEOREM ImageInOrder == Spec => []ImageLaidOut
<1>1. IInv => ImageLaidOut
  BY DEF IInv
<1> QED
  BY <1>1, Invariance, PTL

-----------------------------------------------------------------------------
(***************************************************************************)
(* Where snand_write puts the pages, what it leaves alone and what of the  *)
(* file it may lose, for every memory organisation, every command line and *)
(* file and every combination of faults.                                   *)
(*                                                                         *)
(* What the loop knows of the pages behind it is Joined: as long as there  *)
(* is more of the file to write, the pages written are those of whole      *)
(* eraseblocks, then those of the one under work, and nothing but          *)
(* eraseblocks given up lies between.  It is what makes BAD_BLOCK take     *)
(* back the pages of one eraseblock, no more and no less.                  *)
(***************************************************************************)
FirstBlock == req.offs \div EraseblockSize

(* The position never falls behind the offset, nor a block given up before *)
(* the position.                                                           *)
Beyond ==
    InRun => /\ req.offs = FirstBlock * EraseblockSize
             /\ FirstBlock <= Here
             /\ \A b \in skipped : b < Here

(* Another piece of the file may follow, or has just been taken. *)
Feeding == pc \in {"verify", "bad"} \/ (pc \in {"loop", "body"} /\ actual = FL)

(* The pages written in eraseblocks that are finished. *)
Full == Len(layout) - pos.page

Joined ==
    Feeding =>
        /\ Full % PagesPerEraseblock = 0
        /\ \A i \in 1 .. Len(layout) :
              IF i <= Full THEN layout[i][1] < Here
              ELSE layout[i] = << Here, i - Full - 1 >>
        /\ IF Full = 0 THEN GaveUp(FirstBlock, Here)
           ELSE /\ layout[Full][2] = PagesPerEraseblock - 1
                /\ GaveUp(layout[Full][1] + 1, Here)

(* With --erase-rest, the pages behind the position. *)
Covered ==
    InRun /\ req.rest =>
        \A b \in Eraseblocks, p \in PageNos :
            b * EraseblockSize >= req.offs /\ (b < Here \/ (b = Here /\ p < pos.page)) =>
                \/ b \in skipped
                \/ mem[b][p] = Blank
                \/ \E i \in 1 .. Len(layout) : layout[i] = << b, p >>

(* Once the file has come to its end. *)
TailKept ==
    pc \in {"loop", "body"} /\ req.file /\ req.seekable /\ actual # FL /\ ~ req.rest
        => fpos = flen \/ TailLost

LInv ==
    /\ IInv
    /\ Beyond
    /\ Joined
    /\ LayoutContiguous
    /\ Covered /\ EraseRestCovers
    /\ TailKept /\ OnlyTailLost
-----------------------------------------------------------------------------
LEMMA BlockStart ==
    ASSUME NEW p \in Position, p.page = 0
    PROVE  PosToOffs(p) = EbIndex(p) * EraseblockSize
<1> DEFINE e == EbIndex(p)
<1>1. e \in Nat /\ PagesPerEraseblock \in Nat \ {0} /\ PageSize \in Nat \ {0}
  BY EbIndexNat, MemorgAssumption
<1>2. PosToOffs(p) = (0 + e * PagesPerEraseblock) * PageSize
  BY DEF PosToOffs
<1> HIDE DEF e
<1>3. (0 + e * PagesPerEraseblock) * PageSize = e * (PageSize * PagesPerEraseblock)
  BY <1>1
<1> QED
  BY <1>2, <1>3 DEF EraseblockSize, e

(* A position whose offset is past the end is past the last eraseblock. *)
LEMMA PastDevice ==
    ASSUME NEW p \in Position, PosToOffs(p) >= FlashSize
    PROVE  EbIndex(p) >= NEraseblocks
<1> DEFINE P == PagesPerEraseblock
           S == PageSize
           e == EbIndex(p)
           N == NEraseblocks
<1>1. P \in Nat \ {0} /\ S \in Nat \ {0} /\ e \in Nat /\ N \in Nat \ {0}
      /\ p.page \in 0 .. P - 1
  BY MemorgAssumption, EbIndexNat, SizesPositive DEF Position, PageNos
<1>2. (p.page + e * P) * S >= N * (S * P)
  BY DEF PosToOffs, FlashSize, EraseblockSize
<1> HIDE DEF e, N
<1>3. ASSUME e < N PROVE FALSE
  <2>1. PICK k \in Nat : N = e + 1 + k
    BY <1>1, <1>3
  <2>2. N * (S * P) = (e * P + P + k * P) * S
    BY <1>1, <2>1
  <2>3. e * P \in Nat /\ k * P \in Nat
    BY <1>1, ProductNat
  <2>4. p.page + e * P < e * P + P + k * P
    BY <1>1, <2>3
  <2>5. (p.page + e * P) * S < (e * P + P + k * P) * S
    <3> DEFINE a == p.page + e * P
               b == e * P + P + k * P
    <3>1. a \in Nat /\ b \in Nat /\ a < b
      BY <1>1, <2>3, <2>4
    <3> HIDE DEF a, b
    <3>2. PICK j \in Nat \ {0} : b = a + j
      BY <3>1
    <3>3. b * S = a * S + j * S /\ j * S \in Nat \ {0} /\ a * S \in Nat
      BY <1>1, <3>1, <3>2, ProductPositive, ProductNat
    <3>4. a * S < b * S
      BY <3>3
    <3> QED
      BY <3>4 DEF a, b
  <2>6. (p.page + e * P) * S \in Nat /\ (e * P + P + k * P) * S \in Nat
    BY <1>1, <2>3, ProductNat
  <2> QED
    BY <1>2, <2>2, <2>5, <2>6
<1> QED
  BY <1>1, <1>3 DEF e, N

LEMMA NextMultiple ==
    ASSUME NEW d \in Nat \ {0}, NEW a \in Nat, a % d = 0
    PROVE  (a + d) % d = 0
<1> DEFINE q == a \div d
<1>1. q \in Nat /\ a = q * d + (a % d)
  BY DivModFacts
<1> HIDE DEF q
<1>2. a + d = (q + 1) * d + 0
  BY <1>1
<1>3. q + 1 \in Nat /\ 0 \in 0 .. d - 1
  BY <1>1
<1> QED
  BY <1>2, <1>3, DivOfSum

(* The offset of an aligned request is the first byte of an eraseblock, at *)
(* which the position starts.                                              *)
LEMMA StartBlock ==
    ASSUME NEW offs \in Nat, offs % EraseblockSize = 0
    PROVE  /\ offs = (offs \div EraseblockSize) * EraseblockSize
           /\ EbIndex(OffsToPos(offs)) = offs \div EraseblockSize
<1> DEFINE k == offs \div EraseblockSize
           e == EbIndex(OffsToPos(offs))
<1>1. EraseblockSize \in Nat \ {0}
  BY SizesPositive
<1>2. k \in Nat /\ offs = k * EraseblockSize + (offs % EraseblockSize)
  BY <1>1, DivModFacts
<1>3. OffsToPos(offs) \in Position /\ PosToOffs(OffsToPos(offs)) = offs
      /\ OffsToPos(offs).page = 0
  BY AlignedOffsToPos
<1>4. e \in Nat /\ offs = e * EraseblockSize
  BY <1>3, BlockStart, EbIndexNat
<1> HIDE DEF k, e
<1>5. k * EraseblockSize \in Nat
  BY <1>1, <1>2, ProductNat
<1>6. offs = k * EraseblockSize + 0 /\ e * EraseblockSize + 0 = k * EraseblockSize + 0
  BY <1>2, <1>4, <1>5, <1>1, ProductNat
<1>7. e = k
  BY <1>1, <1>2, <1>4, <1>6, QuotientUnique
<1> QED
  BY <1>2, <1>5, <1>7 DEF k, e
-----------------------------------------------------------------------------
(* The steps of a run, by what they do to the position.                    *)
Counts ==
    /\ Advance
    /\ Here \in Eraseblocks /\ curOffs = PosToOffs(pos)
    /\ Feeding /\ UNCHANGED skipped
    /\ req.seekable /\ actual' # FL => fpos' = flen

Skips ==
    /\ pc = "loop" /\ pc' = "loop" /\ pos.page = 0 /\ Here \in Eraseblocks
    /\ pos' = NextEraseblock(pos)
    /\ skipped' = skipped \cup {Here}
    /\ UNCHANGED << layout, actual, fpos, buf >>

Stays ==
    /\ UNCHANGED << pos, layout, skipped >>
    /\ Feeding' => Feeding
    /\ pc' \in {"loop", "body"} =>
          pc = "loop" /\ UNCHANGED << actual, fpos, buf >>
    /\ pc' = "done" =>
          /\ UNCHANGED << mem, curOffs, fpos, buf >>
          /\ \/ pc = "loop" /\ curOffs >= FlashSize
             \/ pc \in {"loop", "body"} /\ actual # FL /\ ~ req.rest

(* A piece shorter than asked for ends the file.                           *)
LEMMA ShortPiece ==
    ASSUME IInv, pc \in {"verify", "bad"}, req.seekable, actual # FL
    PROVE  fpos = flen /\ buf.len < FL /\ buf.src + buf.len = flen
<1>1. /\ actual = buf.len /\ fpos = Len(layout) * FL + buf.len
      /\ buf = Piece(Len(layout) + 1)
  BY DEF IInv, Account
<1>2. Len(layout) \in Nat /\ FL \in Nat \ {0} /\ flen \in Nat /\ fpos \in 0 .. flen
  BY RunFacts DEF IInv, TypeOK
<1> DEFINE s == Len(layout) * FL
<1>3. s \in Nat /\ (Len(layout) + 1) - 1 = Len(layout)
  BY <1>2, ProductNat
<1>4. buf.src = s /\ buf.len = IF flen - s < FL THEN flen - s ELSE FL
  BY <1>1, <1>3 DEF Piece, FL
<1> HIDE DEF s
<1>5. buf.len = flen - s /\ flen - s < FL
  BY <1>1, <1>4
<1>6. fpos = s + buf.len
  BY <1>1 DEF s
<1> QED
  BY <1>2, <1>3, <1>4, <1>5, <1>6

(* A step changes neither the request nor a page in front of the position. *)
LEMMA StepFrame ==
    ASSUME IInv, Step
    PROVE  /\ InRun
           /\ UNCHANGED << req, flen >> /\ FL' = FL
           /\ \A b \in Eraseblocks, p \in PageNos :
                 b # Here \/ p < pos.page => mem'[b][p] = mem[b][p]
<1>1. InRun
  BY DEF Step, SkipBlock, EraseBlock, WritePage, WriteFails, VerifyPage, VerifyFails,
     BadBlock, EraseRest, Break, LoopEnds, AtBody, InLoop, InRun
<1>2. UNCHANGED << req, flen >>
  BY DEF Step, SkipBlock, EraseBlock, WritePage, WriteFails, VerifyPage, VerifyFails,
     BadBlock, EraseRest, Break, LoopEnds, file
<1>3. FL' = FL
  BY <1>2 DEF FL
<1>4. TypeOK /\ pos.page \in PageNos /\ PageNos \subseteq Nat
  BY RunFacts DEF IInv
<1>5. ASSUME NEW b \in Eraseblocks, NEW p \in PageNos, b # Here \/ p < pos.page
      PROVE  mem'[b][p] = mem[b][p]
  <2>1. CASE mem' = mem
    BY <2>1
  <2>2. CASE SkipBlock \/ EraseBlock
    <3>1. pos.page = 0
      BY <2>2 DEF SkipBlock, EraseBlock
    <3>2. b # Here
      BY <1>4, <1>5, <3>1
    <3> QED
      BY <1>4, <1>5, <2>2, <3>2 DEF SkipBlock, EraseBlock, EraseFails, TypeOK
  <2>3. CASE WritePage \/ WriteFails
    <3>1. b # Here \/ p # pos.page
      BY <1>4, <1>5
    <3>2. \E d : mem' = [ mem EXCEPT ![Here][pos.page] = d ]
      BY <2>3 DEF WritePage, WriteFails
    <3> QED
      BY <1>4, <3>1, <3>2 DEF TypeOK
  <2> QED
    BY <2>1, <2>2, <2>3 DEF Step, VerifyPage, VerifyFails, BadBlock, EraseRest,
       Break, LoopEnds, flash
<1> QED
  BY <1>1, <1>2, <1>3, <1>5

LEMMA Moves ==
    ASSUME IInv, Step
    PROVE  Counts \/ Skips \/ BadBlock \/ EraseRest \/ Stays
<1>1. FL' = FL /\ flen' = flen /\ InRun
  BY StepFrame
<1>2. CASE SkipBlock
  BY <1>2, RunFacts DEF Skips, SkipBlock, InLoop, SkipAhead, file
<1>3. CASE EraseBlock
  BY <1>1, <1>3 DEF Stays, Feeding, EraseBlock, InLoop, file
<1>4. CASE WritePage
  <2>1. AtBody /\ actual = FL /\ FillBuf(NextChunk) /\ UNCHANGED skipped
    BY <1>4 DEF WritePage, FL
  <2>2. Feeding
    BY <2>1 DEF Feeding, AtBody, InLoop
  <2>3. CASE req.ecc /\ ~ req.oob
    BY <1>4, <2>1, <2>2, <2>3 DEF WritePage, Stays
  <2>4. CASE ~ (req.ecc /\ ~ req.oob)
    <3>1. Advance
      BY <1>4, <2>4 DEF WritePage
    <3>2. Here \in Eraseblocks /\ curOffs = PosToOffs(pos)
          /\ actual' = NextChunk.len /\ fpos' = fpos + NextChunk.len
      BY <2>1, FillFacts
    <3>3. actual' # FL => fpos' = flen
      <4>1. fpos \in Nat /\ flen \in Nat
        BY DEF IInv, TypeOK
      <4>2. NextChunk.len = IF flen - fpos < FL THEN flen - fpos ELSE FL
        BY DEF NextChunk, FL
      <4> QED
        BY <3>2, <4>1, <4>2
    <3> QED
      BY <2>1, <2>2, <3>1, <3>2, <3>3 DEF Counts
  <2> QED
    BY <2>3, <2>4
<1>5. CASE WriteFails
  BY <1>1, <1>5 DEF Stays, Feeding, WriteFails, AtBody, InLoop, FL
<1>6. CASE VerifyPage
  <2>1. /\ pc = "verify" /\ Advance /\ Feeding
        /\ UNCHANGED << skipped, actual, fpos >>
    BY <1>6 DEF VerifyPage, file, Feeding
  <2>2. Here \in Eraseblocks /\ curOffs = PosToOffs(pos)
    BY <2>1 DEF IInv, OffsetTracksPosition
  <2> QED
    BY <1>1, <2>1, <2>2, ShortPiece DEF Counts
<1>7. CASE VerifyFails
  BY <1>1, <1>7 DEF Stays, Feeding, VerifyFails
<1>8. CASE Break
  BY <1>1, <1>8 DEF Stays, Feeding, Break, AtBody, InLoop, FL, flash, file
<1>9. CASE LoopEnds
  BY <1>1, <1>9 DEF Stays, Feeding, LoopEnds, flash, file
<1> QED
  BY <1>2, <1>3, <1>4, <1>5, <1>6, <1>7, <1>8, <1>9 DEF Step

(* Moving on to the next eraseblock, whether it is given up or not.        *)
LEMMA BadBlockFacts ==
    ASSUME IInv, BadBlock
    PROVE  /\ pc = "bad" /\ Feeding /\ Here \in Eraseblocks
           /\ Here' = Here + 1 /\ pos'.page = 0
           /\ Full \in 0 .. Len(layout) /\ Len(layout) \in Nat
           /\ layout' \in Seq(Eraseblocks \X PageNos)
           /\ Len(layout') = Full
           /\ \A i \in 1 .. Full : layout'[i] = layout[i]
           /\ skipped' = skipped \cup {Here}
           /\ UNCHANGED << mem, actual, buf >>
<1>1. /\ pc = "bad" /\ pos' = NextEraseblock(pos)
      /\ layout' = SubSeq(layout, 1, Full) /\ skipped' = skipped \cup {Here}
      /\ UNCHANGED << mem, actual, buf >>
  BY DEF BadBlock, Full
<1>2. InRun /\ Here \in Eraseblocks
  BY <1>1, RunFacts DEF InRun
<1>3. /\ Len(layout) \in Nat /\ pos.page \in Nat /\ pos.page <= Len(layout)
      /\ layout \in Seq(Eraseblocks \X PageNos)
  BY <1>2, RunFacts DEF IInv, Behind
<1>4. Full \in 0 .. Len(layout)
  BY <1>3 DEF Full
<1>5. pos'.page = 0 /\ Here' = Here + 1
  BY <1>1, <1>2, NextBlockBehind
<1>6. \A i \in 1 .. Full : layout[i] \in Eraseblocks \X PageNos
  BY <1>3, <1>4, ElementOfSeq
<1>7. /\ SubSeq(layout, 1, Full) \in Seq(Eraseblocks \X PageNos)
      /\ Len(SubSeq(layout, 1, Full)) = IF 1 <= Full THEN Full - 1 + 1 ELSE 0
      /\ \A i \in 1 .. Full - 1 + 1 : SubSeq(layout, 1, Full)[i] = layout[1 + i - 1]
  BY <1>4, <1>6, SubSeqProperties
<1>8. Len(layout') = Full
  BY <1>1, <1>4, <1>7
<1>9. ASSUME NEW i \in 1 .. Full PROVE layout'[i] = layout[i]
  <2>1. i \in 1 .. Full - 1 + 1 /\ 1 + i - 1 = i
    BY <1>4
  <2> QED
    BY <1>1, <1>7, <2>1
<1> QED
  BY <1>1, <1>2, <1>3, <1>4, <1>5, <1>7, <1>8, <1>9 DEF Feeding
-----------------------------------------------------------------------------
(* What Advance makes of the joined layout. *)
LEMMA CountsFacts ==
    ASSUME IInv, Step, Counts, Joined
    PROVE  /\ pos.page \in Nat /\ Here \in Nat /\ Len(layout) \in Nat
           /\ pos.page <= Len(layout) /\ Full = Len(layout) - pos.page
           /\ layout' \in Seq(Eraseblocks \X PageNos)
           /\ Len(layout') = Len(layout) + 1
           /\ \A i \in 1 .. Len(layout) : layout'[i] = layout[i]
           /\ layout'[Len(layout) + 1] = << Here, pos.page >>
           /\ pc' = "loop"
           /\ \/ Here' = Here /\ pos'.page = pos.page + 1
              \/ Here' = Here + 1 /\ pos'.page = 0 /\ pos.page = PagesPerEraseblock - 1
           /\ \A i \in 1 .. Len(layout') :
                 \/ layout'[i][1] < Here'
                 \/ layout'[i][1] = Here' /\ layout'[i][2] < pos'.page
<1>1. InRun
  BY StepFrame
<1>2. pos' = NextPage(pos) /\ pos \in Position /\ pos.page \in Nat
      /\ Here \in Nat /\ Len(layout) \in Nat
  BY RunFacts DEF Counts, Advance
<1>3. \/ Here' = Here /\ pos'.page = pos.page + 1
      \/ Here' = Here + 1 /\ pos'.page = 0 /\ pos.page = PagesPerEraseblock - 1
  BY <1>2, NextPageStays DEF Here
<1>4. pos.page <= Len(layout)
  BY <1>1 DEF IInv, Behind
<1> QED
  BY <1>1, <1>2, <1>3, <1>4, AdvanceFacts DEF Counts, Full

LEMMA LayoutTypes ==
    ASSUME IInv
    PROVE  \A i \in 1 .. Len(layout) : layout[i][1] \in Nat /\ layout[i][2] \in Nat
BY RunFacts, SizesPositive DEF Eraseblocks

LEMMA RestFacts ==
    ASSUME IInv, EraseRest
    PROVE  /\ AtBody /\ pc' = "loop" /\ actual' # FL' /\ req.rest
           /\ Here' = Here + 1 /\ pos'.page = 0
           /\ UNCHANGED << mem, layout, skipped, req >>
<1>1. AtBody /\ pc' = "loop" /\ actual # FL /\ pos' = NextEraseblock(pos) /\ req.rest
      /\ UNCHANGED << mem, layout, skipped, req, actual >>
  BY DEF EraseRest, FL, flash
<1>2. InRun /\ FL' = FL
  BY <1>1 DEF AtBody, InLoop, InRun, FL
<1> QED
  BY <1>1, <1>2, NextBlockBehind

LEMMA SkipsFacts ==
    ASSUME IInv, Skips
    PROVE  /\ Here' = Here + 1 /\ pos'.page = 0 /\ Here \in Nat
           /\ Len(layout) \in Nat /\ Full = Len(layout)
           /\ \A i \in 1 .. Len(layout) : layout[i][1] < Here
<1>1. InRun /\ pos' = NextEraseblock(pos) /\ pos.page = 0
  BY DEF Skips, InRun
<1>2. Here' = Here + 1 /\ pos'.page = 0
  BY <1>1, NextBlockBehind
<1>3. ASSUME NEW i \in 1 .. Len(layout) PROVE layout[i][1] < Here
  <2>1. layout[i][2] \in Nat
    BY LayoutTypes
  <2> QED
    BY <1>1, <2>1 DEF IInv, Behind
<1>4. Len(layout) \in Nat /\ Here \in Nat
  BY RunFacts
<1> QED
  BY <1>1, <1>2, <1>3, <1>4 DEF Full
-----------------------------------------------------------------------------
LEMMA StepBeyond ==
    ASSUME IInv, Step, Beyond, Joined
    PROVE  Beyond'
<1>1. InRun /\ FirstBlock' = FirstBlock /\ req' = req /\ Here \in Nat
  BY StepFrame, RunFacts DEF FirstBlock
<1>2. req.offs \in Nat /\ EraseblockSize \in Nat \ {0}
  BY SizesPositive DEF IInv, TypeOK, WriteRequest, EraseRequest
<1>3. FirstBlock \in Nat
  BY <1>2, DivModFacts DEF FirstBlock
<1>4. skipped \subseteq Nat
  BY SizesPositive DEF IInv, TypeOK, Eraseblocks
<1>5. \/ Here' \in {Here, Here + 1} /\ skipped' = skipped
      \/ Here' = Here + 1 /\ skipped' = skipped \cup {Here}
  <2>1. CASE Counts
    BY <2>1, CountsFacts DEF Counts
  <2>2. CASE Skips
    BY <2>2, SkipsFacts DEF Skips
  <2>3. CASE BadBlock
    BY <2>3, BadBlockFacts
  <2>4. CASE EraseRest
    BY <2>4, RestFacts
  <2>5. CASE Stays
    BY <2>5 DEF Stays, Here
  <2> QED
    BY <2>1, <2>2, <2>3, <2>4, <2>5, Moves
<1>6. \A b \in skipped : b < Here
  BY <1>1 DEF Beyond
<1>7. ASSUME NEW b \in skipped' PROVE b < Here'
  <2>1. b \in skipped \/ b = Here
    BY <1>5
  <2>2. CASE b \in skipped
    <3>1. b \in Nat /\ b < Here
      BY <1>4, <1>6, <2>2
    <3> QED
      BY <1>1, <1>5, <3>1
  <2>3. CASE b = Here /\ b \notin skipped
    BY <1>1, <1>5, <2>3
  <2> QED
    BY <2>1, <2>2, <2>3
<1>8. FirstBlock <= Here'
  BY <1>1, <1>3, <1>5 DEF Beyond
<1> QED
  BY <1>1, <1>7, <1>8 DEF Beyond

(* An eraseblock given up stays given up while the run lasts. *)
LEMMA StillGivenUp ==
    ASSUME skipped \subseteq skipped', NEW lo, NEW hi, GaveUp(lo, hi)
    PROVE  \A b \in Eraseblocks : lo <= b /\ b < hi => b \in skipped'
BY DEF GaveUp

LEMMA StepJoined ==
    ASSUME IInv, Step, Joined
    PROVE  Joined'
<1>1. InRun /\ FL' = FL /\ FirstBlock' = FirstBlock /\ Here \in Nat
  BY StepFrame, RunFacts DEF FirstBlock
<1>2. CASE Counts
  <2>1. Feeding /\ skipped' = skipped
    BY <1>2 DEF Counts
  <2>2. /\ pos.page \in Nat /\ Here \in Nat /\ Len(layout) \in Nat
        /\ pos.page <= Len(layout) /\ Full = Len(layout) - pos.page
        /\ Len(layout') = Len(layout) + 1
        /\ \A i \in 1 .. Len(layout) : layout'[i] = layout[i]
        /\ layout'[Len(layout) + 1] = << Here, pos.page >>
        /\ \A i \in 1 .. Len(layout') :
                 \/ layout'[i][1] < Here'
                 \/ layout'[i][1] = Here' /\ layout'[i][2] < pos'.page
    BY <1>2, CountsFacts
  <2>3. /\ Full % PagesPerEraseblock = 0
        /\ \A i \in 1 .. Len(layout) :
              IF i <= Full THEN layout[i][1] < Here
              ELSE layout[i] = << Here, i - Full - 1 >>
        /\ IF Full = 0 THEN GaveUp(FirstBlock, Here)
           ELSE /\ layout[Full][2] = PagesPerEraseblock - 1
                /\ GaveUp(layout[Full][1] + 1, Here)
    BY <2>1 DEF Joined
  <2>4. CASE Here' = Here /\ pos'.page = pos.page + 1
    <3>1. Full' = Full /\ Full \in Nat
      BY <2>2, <2>4 DEF Full
    <3>2. ASSUME NEW i \in 1 .. Len(layout')
          PROVE  IF i <= Full' THEN layout'[i][1] < Here'
                 ELSE layout'[i] = << Here', i - Full' - 1 >>
      <4>1. i \in 1 .. Len(layout) \/ i = Len(layout) + 1
        BY <2>2
      <4>2. CASE i \in 1 .. Len(layout)
        <5>1. layout'[i] = layout[i]
          BY <2>2, <4>2
        <5> QED
          BY <2>3, <2>4, <3>1, <4>2, <5>1
      <4>3. CASE i = Len(layout) + 1
        <5>1. ~ (i <= Full') /\ i - Full' - 1 = pos.page
          BY <2>2, <3>1, <4>3
        <5> QED
          BY <2>2, <2>4, <4>3, <5>1
      <4> QED
        BY <4>1, <4>2, <4>3
    <3>3. Full # 0 => layout'[Full] = layout[Full]
      <4>1. Full # 0 => Full \in 1 .. Len(layout)
        BY <2>2, <3>1
      <4> QED
        BY <2>2, <4>1
    <3>4. IF Full' = 0 THEN GaveUp(FirstBlock, Here)'
          ELSE /\ layout'[Full'][2] = PagesPerEraseblock - 1
               /\ GaveUp(layout[Full][1] + 1, Here)' /\ layout'[Full'][1] = layout[Full][1]
      BY <1>1, <2>1, <2>3, <2>4, <3>1, <3>3 DEF GaveUp
    <3> QED
      BY <1>1, <2>3, <2>4, <3>1, <3>2, <3>3, <3>4 DEF Joined, GaveUp
  <2>5. CASE Here' = Here + 1 /\ pos'.page = 0 /\ pos.page = PagesPerEraseblock - 1
    <3>1. Full' = Full + PagesPerEraseblock /\ Full \in Nat /\ Full' = Len(layout')
          /\ Full' = Len(layout) + 1
      BY <2>2, <2>5, MemorgAssumption DEF Full
    <3>2. Full' % PagesPerEraseblock = 0
      BY <2>3, <3>1, NextMultiple, MemorgAssumption
    <3>3. \A i \in 1 .. Len(layout') : layout'[i][1] < Here'
      <4> SUFFICES ASSUME NEW i \in 1 .. Len(layout') PROVE layout'[i][1] < Here'
        OBVIOUS
      <4>1. layout' \in Seq(Eraseblocks \X PageNos)
        BY <1>2, CountsFacts
      <4>2. layout'[i] \in Eraseblocks \X PageNos
        BY <4>1, ElementOfSeq
      <4>3. layout'[i][2] \in Nat
        BY <4>2, MemorgAssumption DEF PageNos
      <4> QED
        BY <2>2, <2>5, <4>3
    <3>4. layout'[Full'] = << Here, PagesPerEraseblock - 1 >> /\ Full' # 0
      BY <2>2, <2>5, <3>1
    <3>5. \A b \in Eraseblocks : ~ (Here + 1 <= b /\ b < Here')
      BY <2>2, <2>5, SizesPositive DEF Eraseblocks
    <3>6. \A i \in 1 .. Len(layout') : i <= Full'
      BY <3>1, <2>2
    <3> QED
      BY <3>1, <3>2, <3>3, <3>4, <3>5, <3>6 DEF Joined, GaveUp
  <2> QED
    BY <1>2, <2>4, <2>5, CountsFacts
<1>3. CASE Skips
  <2>1. /\ Here' = Here + 1 /\ pos'.page = 0 /\ Full = Len(layout) /\ Len(layout) \in Nat
        /\ \A i \in 1 .. Len(layout) : layout[i][1] < Here
        /\ layout' = layout /\ skipped' = skipped \cup {Here}
    BY <1>3, SkipsFacts DEF Skips
  <2>2. Feeding' => Feeding
    BY <1>1, <1>3 DEF Feeding, Skips
  <2>3. Full' = Full
    BY <2>1 DEF Full
  <2>4. \A i \in 1 .. Len(layout) : i <= Full /\ layout[i][1] < Here'
    BY <1>1, <2>1, LayoutTypes
  <2>5. \A b \in Eraseblocks : b < Here' => b < Here \/ b = Here
    BY <1>1, <2>1, SizesPositive DEF Eraseblocks
  <2>6. \A lo : GaveUp(lo, Here) => GaveUp(lo, Here)' /\
           \A b \in Eraseblocks : lo <= b /\ b < Here' => b \in skipped'
    BY <2>1, <2>5 DEF GaveUp
  <2> QED
    BY <1>1, <2>1, <2>2, <2>3, <2>4, <2>6 DEF Joined, GaveUp
<1>4. CASE BadBlock
  <2>1. /\ Here' = Here + 1 /\ pos'.page = 0 /\ Full \in 0 .. Len(layout)
        /\ Len(layout) \in Nat /\ Len(layout') = Full
        /\ \A i \in 1 .. Full : layout'[i] = layout[i]
        /\ skipped' = skipped \cup {Here} /\ Feeding
    BY <1>4, BadBlockFacts
  <2>2. Full' = Full
    BY <2>1 DEF Full
  <2>3. ASSUME NEW i \in 1 .. Full PROVE layout'[i][1] < Here'
    <3>1. i \in 1 .. Len(layout) /\ i <= Full /\ layout'[i] = layout[i]
      BY <2>1
    <3>2. layout[i][1] < Here /\ layout[i][1] \in Nat
      BY <2>1, <3>1, LayoutTypes DEF Joined
    <3> QED
      BY <1>1, <2>1, <3>1, <3>2
  <2>4. Full # 0 => layout'[Full] = layout[Full]
    BY <2>1
  <2>5. \A b \in Eraseblocks : b < Here' => b < Here \/ b = Here
    BY <1>1, <2>1, SizesPositive DEF Eraseblocks
  <2>6. \A lo : GaveUp(lo, Here) =>
           \A b \in Eraseblocks : lo <= b /\ b < Here' => b \in skipped'
    BY <2>1, <2>5 DEF GaveUp
  <2>7. \A i \in 1 .. Full : i <= Full
    BY <2>1
  <2> QED
    BY <1>1, <2>1, <2>2, <2>3, <2>4, <2>6, <2>7 DEF Joined, GaveUp
<1>5. CASE EraseRest
  BY <1>5, RestFacts DEF Joined, Feeding
<1>6. CASE Stays
  <2>1. UNCHANGED << pos, layout, skipped, Here, Full, FirstBlock >> /\ (Feeding' => Feeding)
    BY <1>1, <1>6 DEF Stays, Here, Full
  <2> QED
    BY <2>1 DEF Joined, GaveUp
<1> QED
  BY <1>2, <1>3, <1>4, <1>5, <1>6, Moves
-----------------------------------------------------------------------------
(* Cutting the layout short, or giving up an eraseblock behind it, leaves  *)
(* it contiguous.                                                          *)
LEMMA PrefixContiguous ==
    ASSUME IInv, LayoutContiguous, UNCHANGED req,
           NEW m \in 0 .. Len(layout), Len(layout') = m,
           layout' \in Seq(Eraseblocks \X PageNos),
           \A i \in 1 .. m : layout'[i] = layout[i],
           skipped \subseteq skipped',
           \A i \in 1 .. m : layout[i][1] \notin skipped'
    PROVE  LayoutContiguous'
<1>1. Len(layout) \in Nat /\ layout \in Seq(Eraseblocks \X PageNos)
  BY RunFacts
<1>2. \A lo, hi : GaveUp(lo, hi) => GaveUp(lo, hi)'
  BY DEF GaveUp
<1>3. \A i \in 1 .. Len(layout') : layout'[i][1] \notin skipped'
  OBVIOUS
<1>4. ASSUME layout' # << >>
      PROVE  /\ layout'[1][2] = 0
             /\ layout'[1][1] * EraseblockSize >= req'.offs
             /\ GaveUp(req.offs \div EraseblockSize, layout[1][1])'
             /\ layout'[1] = layout[1]
  <2>1. m # 0 /\ 1 \in 1 .. m
    BY <1>4, EmptySeq
  <2>2. layout # << >> /\ layout'[1] = layout[1]
    BY <1>1, <2>1, EmptySeq
  <2> QED
    BY <1>2, <2>2 DEF LayoutContiguous, GaveUp
<1>5. ASSUME NEW i \in 1 .. Len(layout') - 1
      PROVE  Follows(layout[i], layout[i + 1])' /\ layout'[i] = layout[i]
             /\ layout'[i + 1] = layout[i + 1]
  <2>1. i \in 1 .. m /\ i + 1 \in 1 .. m /\ i \in 1 .. Len(layout) - 1
    BY <1>1
  <2>2. layout'[i] = layout[i] /\ layout'[i + 1] = layout[i + 1]
    BY <2>1
  <2>3. Follows(layout[i], layout[i + 1])
    BY <2>1 DEF LayoutContiguous
  <2> QED
    BY <1>2, <2>2, <2>3 DEF Follows, GaveUp
<1> QED
  BY <1>3, <1>4, <1>5 DEF LayoutContiguous, Follows, GaveUp

(* The page counted next comes right after the last one, or after nothing  *)
(* but eraseblocks given up.                                               *)
LEMMA CountsContiguous ==
    ASSUME IInv, Step, Counts, Beyond, Joined, LayoutContiguous
    PROVE  LayoutContiguous'
<1> DEFINE k == Len(layout)
<1>1. InRun /\ req' = req /\ skipped' = skipped /\ Feeding
  BY StepFrame DEF Counts
<1>2. /\ pos.page \in Nat /\ Here \in Nat /\ k \in Nat
      /\ pos.page <= k /\ Full = k - pos.page
      /\ Len(layout') = k + 1
      /\ \A i \in 1 .. k : layout'[i] = layout[i]
      /\ layout'[k + 1] = << Here, pos.page >>
  BY CountsFacts
<1>3. /\ \A i \in 1 .. k :
            IF i <= Full THEN layout[i][1] < Here
            ELSE layout[i] = << Here, i - Full - 1 >>
      /\ IF Full = 0 THEN GaveUp(FirstBlock, Here)
         ELSE /\ layout[Full][2] = PagesPerEraseblock - 1
              /\ GaveUp(layout[Full][1] + 1, Here)
  BY <1>1 DEF Joined
<1>4. layout \in Seq(Eraseblocks \X PageNos) /\ layout' \in Seq(Eraseblocks \X PageNos)
  BY RunFacts, CountsFacts
<1> HIDE DEF k
<1>5. ASSUME NEW i \in 1 .. k + 1 PROVE layout'[i][1] \notin skipped
  <2>1. CASE i \in 1 .. k
    BY <1>2, <2>1 DEF LayoutContiguous, k
  <2>2. CASE i = k + 1
    BY <1>1, <1>2, <2>2 DEF Beyond
  <2> QED
    BY <1>2, <2>1, <2>2
<1>6. /\ layout'[1][2] = 0
      /\ layout'[1][1] * EraseblockSize >= req.offs
      /\ GaveUp(FirstBlock, layout'[1][1])
  <2>1. CASE k = 0
    <3>1. pos.page = 0 /\ Full = 0 /\ layout'[1] = << Here, 0 >>
      BY <1>2, <2>1
    <3>2. FirstBlock <= Here /\ req.offs = FirstBlock * EraseblockSize
      BY <1>1 DEF Beyond
    <3>3. Here * EraseblockSize >= FirstBlock * EraseblockSize
      <4>1. FirstBlock \in Nat /\ EraseblockSize \in Nat
        BY SizesPositive, DivModFacts DEF FirstBlock, IInv, TypeOK, WriteRequest, EraseRequest
      <4>2. PICK j \in Nat : Here = FirstBlock + j
        BY <1>2, <3>2, <4>1
      <4> HIDE DEF FirstBlock
      <4>3. Here * EraseblockSize = FirstBlock * EraseblockSize + j * EraseblockSize
        BY <4>1, <4>2
      <4> QED
        BY <4>1, <4>3, ProductNat
    <3> QED
      BY <1>3, <3>1, <3>2, <3>3
  <2>2. CASE k # 0
    <3>1. 1 \in 1 .. k /\ layout # << >>
      BY <1>2, <1>4, <2>2, EmptySeq DEF k
    <3> QED
      BY <1>2, <3>1 DEF LayoutContiguous, FirstBlock
  <2> QED
    BY <2>1, <2>2
<1>7. ASSUME NEW i \in 1 .. k PROVE Follows(layout'[i], layout'[i + 1])
  <2>1. CASE i \in 1 .. k - 1
    <3>1. i + 1 \in 1 .. k
      BY <1>2, <2>1
    <3> QED
      BY <1>2, <2>1, <3>1 DEF LayoutContiguous, k
  <2>2. CASE i = k
    <3>1. layout'[i] = layout[i] /\ layout'[i + 1] = << Here, pos.page >>
      BY <1>2, <2>2
    <3>2. CASE pos.page = 0
      <4>1. Full = k /\ Full # 0 /\ i <= Full
        BY <1>2, <2>2, <3>2
      <4>2. layout[i][1] < Here /\ layout[i][2] = PagesPerEraseblock - 1
            /\ GaveUp(layout[i][1] + 1, Here)
        BY <1>3, <2>2, <4>1
      <4>3. layout[i][1] \in Nat
        BY LayoutTypes DEF k
      <4> QED
        BY <1>2, <3>1, <3>2, <4>2, <4>3 DEF Follows
    <3>3. CASE pos.page # 0
      <4>1. ~ (i <= Full) /\ i - Full - 1 = pos.page - 1
        BY <1>2, <2>2, <3>3
      <4>2. layout[i] = << Here, pos.page - 1 >>
        BY <1>3, <4>1
      <4> QED
        BY <1>2, <3>1, <4>2 DEF Follows
    <3> QED
      BY <3>2, <3>3
  <2> QED
    BY <1>2, <2>1, <2>2
<1>8. Len(layout') - 1 = k
  BY <1>2
<1> QED
  BY <1>1, <1>2, <1>5, <1>6, <1>7, <1>8 DEF LayoutContiguous, FirstBlock, Follows, GaveUp

LEMMA StepContiguous ==
    ASSUME IInv, Step, Beyond, Joined, LayoutContiguous
    PROVE  LayoutContiguous'
<1>1. req' = req /\ InRun
  BY StepFrame
<1>2. layout \in Seq(Eraseblocks \X PageNos) /\ Len(layout) \in Nat /\ Here \in Nat
  BY RunFacts
<1>3. \A i \in 1 .. Len(layout) : layout[i][1] \notin skipped /\ layout[i][1] \in Nat
  BY LayoutTypes DEF LayoutContiguous
<1>4. CASE Counts
  BY <1>4, CountsContiguous
<1>5. CASE Skips
  <2>1. layout' = layout /\ skipped' = skipped \cup {Here}
        /\ \A i \in 1 .. Len(layout) : layout[i][1] < Here
    BY <1>5, SkipsFacts DEF Skips
  <2>2. \A i \in 1 .. Len(layout) : layout[i][1] \notin skipped'
    BY <1>2, <1>3, <2>1
  <2>3. Len(layout) \in 0 .. Len(layout)
    BY <1>2
  <2> QED
    BY <1>1, <1>2, <2>1, <2>2, <2>3, PrefixContiguous
<1>6. CASE BadBlock
  <2>1. /\ Full \in 0 .. Len(layout) /\ Len(layout') = Full /\ Feeding
        /\ layout' \in Seq(Eraseblocks \X PageNos)
        /\ \A i \in 1 .. Full : layout'[i] = layout[i]
        /\ skipped' = skipped \cup {Here}
    BY <1>6, BadBlockFacts
  <2>2. ASSUME NEW i \in 1 .. Full PROVE layout[i][1] \notin skipped'
    <3>1. i \in 1 .. Len(layout) /\ i <= Full
      BY <1>2, <2>1
    <3>2. layout[i][1] < Here
      BY <2>1, <3>1 DEF Joined
    <3> QED
      BY <1>2, <1>3, <2>1, <3>1, <3>2
  <2> QED
    BY <1>1, <2>1, <2>2, PrefixContiguous
<1>7. CASE EraseRest \/ Stays
  <2>1. layout' = layout /\ skipped' = skipped
    BY <1>7, RestFacts DEF Stays
  <2> QED
    BY <1>1, <2>1 DEF LayoutContiguous, Follows, GaveUp
<1> QED
  BY <1>4, <1>5, <1>6, <1>7, Moves
-----------------------------------------------------------------------------
LEMMA StepCovered ==
    ASSUME IInv, Step, Joined, Covered
    PROVE  Covered'
<1>1. /\ InRun /\ req' = req /\ Here \in Nat /\ pos.page \in Nat
      /\ \A b \in Eraseblocks, p \in PageNos :
            b # Here \/ p < pos.page => mem'[b][p] = mem[b][p]
  BY StepFrame, RunFacts
<1> SUFFICES ASSUME InRun', req.rest, NEW b \in Eraseblocks, NEW p \in PageNos,
                    b * EraseblockSize >= req.offs,
                    b < Here' \/ (b = Here' /\ p < pos'.page)
             PROVE  \/ b \in skipped'
                    \/ mem'[b][p] = Blank
                    \/ \E i \in 1 .. Len(layout') : layout'[i] = << b, p >>
  BY <1>1 DEF Covered
<1>2. b \in Nat /\ p \in Nat /\ p <= PagesPerEraseblock - 1 /\ Len(layout) \in Nat
  BY SizesPositive, MemorgAssumption, RunFacts DEF Eraseblocks, PageNos
<1> DEFINE Was == b < Here \/ (b = Here /\ p < pos.page)
<1>3. Was => \/ b \in skipped
             \/ mem[b][p] = Blank
             \/ \E i \in 1 .. Len(layout) : layout[i] = << b, p >>
  BY <1>1 DEF Covered
<1>4. Was => mem'[b][p] = mem[b][p]
  BY <1>1, <1>2
<1>5. CASE Counts
  <2>1. /\ Len(layout') = Len(layout) + 1
        /\ \A i \in 1 .. Len(layout) : layout'[i] = layout[i]
        /\ layout'[Len(layout) + 1] = << Here, pos.page >>
        /\ \/ Here' = Here /\ pos'.page = pos.page + 1
           \/ Here' = Here + 1 /\ pos'.page = 0 /\ pos.page = PagesPerEraseblock - 1
    BY <1>5, CountsFacts
  <2>2. Was \/ (b = Here /\ p = pos.page)
    BY <1>1, <1>2, <2>1
  <2>3. CASE Was
    <3>1. \A i \in 1 .. Len(layout) : i \in 1 .. Len(layout') /\ layout'[i] = layout[i]
      BY <1>2, <2>1
    <3> QED
      BY <1>3, <1>4, <1>5, <2>3, <3>1 DEF Counts
  <2>4. CASE b = Here /\ p = pos.page
    BY <1>2, <2>1, <2>4
  <2> QED
    BY <2>2, <2>3, <2>4
<1>6. CASE Skips
  <2>1. /\ Here' = Here + 1 /\ pos'.page = 0 /\ layout' = layout
        /\ skipped' = skipped \cup {Here}
    BY <1>6, SkipsFacts DEF Skips
  <2>2. b = Here \/ b < Here
    BY <1>1, <1>2, <2>1
  <2> QED
    BY <1>3, <1>4, <2>1, <2>2
<1>7. CASE BadBlock
  <2>1. /\ Here' = Here + 1 /\ pos'.page = 0 /\ Full \in 0 .. Len(layout)
        /\ Len(layout') = Full /\ Feeding
        /\ \A i \in 1 .. Full : layout'[i] = layout[i]
        /\ skipped' = skipped \cup {Here}
    BY <1>7, BadBlockFacts
  <2>2. b = Here \/ b < Here
    BY <1>1, <1>2, <2>1
  <2>3. CASE b < Here
    <3>1. ASSUME NEW i \in 1 .. Len(layout), layout[i] = << b, p >>
          PROVE  i \in 1 .. Full
      <4>1. layout[i][1] # Here
        BY <1>1, <1>2, <2>3, <3>1
      <4>2. i <= Full
        BY <2>1, <4>1 DEF Joined
      <4> QED
        BY <1>2, <2>1, <4>2
    <3> QED
      BY <1>3, <1>4, <2>1, <2>3, <3>1
  <2> QED
    BY <2>1, <2>2, <2>3
<1>8. CASE EraseRest
  <2>1. /\ AtBody /\ Here' = Here + 1 /\ pos'.page = 0
        /\ UNCHANGED << mem, layout, skipped >>
    BY <1>8, RestFacts
  <2>2. Was \/ (b = Here /\ p >= pos.page)
    BY <1>1, <1>2, <2>1
  <2>3. b = Here /\ p >= pos.page => mem[b][p] = Blank
    BY <2>1 DEF IInv, BlankLeft
  <2> QED
    BY <1>3, <1>4, <2>1, <2>2, <2>3
<1>9. CASE Stays
  <2>1. UNCHANGED << pos, layout, skipped, Here >>
    BY <1>9 DEF Stays, Here
  <2> QED
    BY <1>3, <1>4, <2>1
<1> QED
  BY <1>5, <1>6, <1>7, <1>8, <1>9, Moves

(* At the end of the device every eraseblock is behind the position. *)
LEMMA StepRestCovered ==
    ASSUME IInv, Step, Covered
    PROVE  EraseRestCovers'
<1> SUFFICES ASSUME pc' = "done", req'.rest PROVE EraseRestCovers'
  BY DEF EraseRestCovers
<1>1. Stays
  BY Moves, RestFacts DEF Counts, Advance, Skips, BadBlock
<1>2. /\ InRun /\ UNCHANGED << req, mem, layout, skipped >>
      /\ pc = "loop" /\ curOffs >= FlashSize
  BY <1>1, StepFrame DEF Stays
<1>3. pos \in Position /\ curOffs = PosToOffs(pos)
  BY <1>2, RunFacts DEF IInv, OffsetTracksPosition
<1>4. Here >= NEraseblocks
  BY <1>2, <1>3, PastDevice DEF Here
<1>5. \A b \in Eraseblocks : b < Here
  BY <1>4, SizesPositive, RunFacts DEF Eraseblocks
<1> QED
  BY <1>2, <1>5 DEF EraseRestCovers, Covered

LEMMA StepTail ==
    ASSUME IInv, Step, TailKept
    PROVE  TailKept' /\ OnlyTailLost'
<1>1. /\ InRun /\ req' = req /\ flen' = flen /\ FL' = FL /\ FreadLen(req) = FL
      /\ Here \in Nat
  BY StepFrame, RunFacts DEF FL
<1>2. CASE Counts
  BY <1>1, <1>2 DEF Counts, Advance, TailKept, OnlyTailLost
<1>3. CASE Skips
  <2>1. /\ pc = "loop" /\ pc' = "loop" /\ Here' = Here + 1
        /\ UNCHANGED << actual, fpos, buf >> /\ skipped' = skipped \cup {Here}
    BY <1>3, SkipsFacts DEF Skips
  <2>2. Here' > 0 /\ Here' - 1 = Here
    BY <1>1, <2>1
  <2> QED
    BY <1>1, <2>1, <2>2 DEF TailKept, OnlyTailLost, TailLost, FL
<1>4. CASE BadBlock
  <2>1. /\ pc = "bad" /\ Here' = Here + 1 /\ UNCHANGED << actual, buf >>
        /\ skipped' = skipped \cup {Here} /\ pc' = "loop"
    BY <1>4, BadBlockFacts DEF BadBlock
  <2>2. Here' > 0 /\ Here' - 1 = Here
    BY <1>1, <2>1
  <2>3. req.seekable /\ actual # FL => buf.len < FL /\ buf.src + buf.len = flen
    BY <2>1, ShortPiece
  <2> QED
    BY <1>1, <2>1, <2>2, <2>3 DEF TailKept, OnlyTailLost, TailLost, FL
<1>5. CASE EraseRest
  BY <1>1, <1>5, RestFacts DEF TailKept, OnlyTailLost
<1>6. CASE Stays
  <2>1. UNCHANGED << pos, layout, skipped, Here >>
    BY <1>6 DEF Stays, Here
  <2>2. TailKept'
    BY <1>1, <1>6, <2>1 DEF Stays, TailKept, TailLost, FL
  <2>3. OnlyTailLost'
    BY <1>1, <1>6, <2>1 DEF Stays, TailKept, OnlyTailLost, TailLost, FL
  <2> QED
    BY <2>2, <2>3
<1> QED
  BY <1>2, <1>3, <1>4, <1>5, <1>6, Moves
-----------------------------------------------------------------------------
(* No run, or one that has counted nothing: nothing is laid out. *)
LEMMA NothingLaidOut ==
    ASSUME layout \in Seq(Eraseblocks \X PageNos), Len(layout) = 0
    PROVE  LayoutContiguous
<1>1. layout = << >>
  BY EmptySeq
<1> QED
  BY <1>1 DEF LayoutContiguous

LEMMA InitLayout == Init => LInv
<1> SUFFICES ASSUME Init PROVE LInv
  OBVIOUS
<1>1. IInv
  BY InitInv
<1>2. layout \in Seq(Eraseblocks \X PageNos) /\ Len(layout) = 0
  BY <1>1, EmptySeq DEF Init, IInv, TypeOK
<1>3. LayoutContiguous
  BY <1>2, NothingLaidOut
<1> QED
  BY <1>1, <1>3 DEF LInv, Init, Beyond, Joined, Feeding, Covered, EraseRestCovers,
     TailKept, OnlyTailLost, InRun

LEMMA StartLayout ==
    ASSUME IInv, NEW r \in Requests, NEW n \in FileLens, Start(r, n)
    PROVE  LInv'
<1>1. IInv'
  BY StartInv
<1>2. /\ req' = r /\ pc' = "loop" /\ layout' = << >> /\ skipped' = {}
      /\ pos' = OffsToPos(r.offs) /\ r.offs \in Nat /\ r.offs % EraseblockSize = 0
      /\ actual' = InitialReadLen(r)
  BY RequestType DEF Start
<1>3. layout' \in Seq(Eraseblocks \X PageNos) /\ Len(layout') = 0
  BY <1>2, EmptySeq
<1>4. /\ r.offs = FirstBlock' * EraseblockSize /\ Here' = FirstBlock'
      /\ pos'.page = 0 /\ FirstBlock' \in Nat
  BY <1>2, StartBlock, AlignedOffsToPos, DivModFacts, SizesPositive DEF Here, FirstBlock
<1>5. Beyond'
  BY <1>2, <1>4 DEF Beyond
<1>6. Full' = 0 /\ 0 % PagesPerEraseblock = 0
  BY <1>3, <1>4, MemorgAssumption DEF Full
<1>7. Joined'
  <2>1. GaveUp(FirstBlock, Here)'
    BY <1>4, SizesPositive DEF GaveUp, Eraseblocks
  <2> QED
    BY <1>3, <1>6, <2>1 DEF Joined
<1>8. LayoutContiguous'
  BY <1>2 DEF LayoutContiguous
<1>9. Covered'
  <2> SUFFICES ASSUME NEW b \in Eraseblocks, NEW p \in PageNos,
                      b * EraseblockSize >= r.offs,
                      b < Here' \/ (b = Here' /\ p < pos'.page)
               PROVE  FALSE
    BY <1>2 DEF Covered
  <2>1. b \in Nat /\ b < FirstBlock' /\ EraseblockSize \in Nat \ {0}
    BY <1>4, SizesPositive, MemorgAssumption DEF Eraseblocks, PageNos
  <2>2. PICK j \in Nat : FirstBlock' = b + 1 + j
    BY <1>4, <2>1
  <2>3. r.offs = b * EraseblockSize + EraseblockSize + j * EraseblockSize
    BY <1>4, <2>1, <2>2
  <2>4. b * EraseblockSize \in Nat /\ j * EraseblockSize \in Nat
    BY <2>1, <2>2, ProductNat
  <2> QED
    BY <2>1, <2>3, <2>4
<1>10. TailKept' /\ OnlyTailLost' /\ EraseRestCovers'
  BY <1>2 DEF TailKept, OnlyTailLost, EraseRestCovers, FL, InitialReadLen
<1> QED
  BY <1>1, <1>5, <1>7, <1>8, <1>9, <1>10 DEF LInv

LEMMA IdleLayout ==
    ASSUME IInv', pc' \in {"idle", "refused"}
    PROVE  LInv'
<1>1. layout' \in Seq(Eraseblocks \X PageNos) /\ Len(layout') = 0
  BY DEF IInv, TypeOK, Behind
<1>2. LayoutContiguous'
  <2>1. layout' = << >>
    BY <1>1, EmptySeq
  <2> QED
    BY <2>1 DEF LayoutContiguous
<1> QED
  BY <1>2 DEF LInv, Beyond, Joined, Feeding, Covered, EraseRestCovers,
     TailKept, OnlyTailLost, InRun

LEMMA NextLayout ==
    ASSUME LInv, [Next]_vars
    PROVE  LInv'
<1>1. IInv /\ IInv'
  BY NextInv DEF LInv
<1>2. ASSUME NEW r \in Requests, NEW n \in FileLens, Start(r, n) PROVE LInv'
  BY <1>1, <1>2, StartLayout
<1>3. CASE (\E r \in Requests : Refuse(r)) \/ ProcessEnds
  BY <1>1, <1>3, IdleLayout DEF Refuse, ProcessEnds
<1>4. CASE Step
  BY <1>1, <1>4, StepBeyond, StepJoined, StepContiguous, StepCovered,
     StepRestCovered, StepTail DEF LInv
<1>5. CASE UNCHANGED vars
  <2>1. UNCHANGED << mem, pc, req, flen, fpos, pos, curOffs, actual, buf, layout, skipped >>
    BY <1>5 DEF vars
  <2>2. UNCHANGED << Here, Full, FL, FirstBlock >>
    BY <2>1 DEF Here, Full, FL, FirstBlock
  <2>3. Beyond' /\ Joined' /\ LayoutContiguous'
    BY <2>1, <2>2 DEF LInv, Beyond, Joined, LayoutContiguous, Feeding, InRun,
       Follows, GaveUp
  <2>4. Covered' /\ EraseRestCovers'
    BY <2>1, <2>2 DEF LInv, Covered, EraseRestCovers, InRun
  <2>5. TailKept' /\ OnlyTailLost'
    BY <2>1, <2>2 DEF LInv, TailKept, OnlyTailLost, TailLost, FL
  <2> QED
    BY <1>1, <2>3, <2>4, <2>5 DEF LInv
<1> QED
  BY <1>2, <1>3, <1>4, <1>5 DEF Next

(* LInv is an inductive invariant of the write operation. *)
THEOREM LayoutInvariance == Spec => []LInv
<1>1. Init => LInv
  BY InitLayout
<1>2. LInv /\ [Next]_vars => LInv'
  BY NextLayout
<1> QED
  BY <1>1, <1>2, PTL DEF Spec

(* However many eraseblocks fail, and wherever in an eraseblock a page      *)
(* fails, the pages written lie one after another from the offset on; the   *)
(* gaps are whole eraseblocks given up, and none of those counts a page.    *)
THEOREM Contiguous == Spec => []LayoutContiguous
<1>1. LInv => LayoutContiguous
  BY DEF LInv
<1> QED
  BY <1>1, LayoutInvariance, PTL

(* --erase-rest and the erase operation leave no page behind the offset    *)
(* with old data on it, except on eraseblocks they gave up.                *)
THEOREM RestErased == Spec => []EraseRestCovers
<1>1. LInv => EraseRestCovers
  BY DEF LInv
<1> QED
  BY <1>1, LayoutInvariance, PTL

(* A run that comes to its end short of the end of the file has filled the *)
(* device, or lost the short last piece with the eraseblock it was on.     *)
THEOREM LosesOnlyTail == Spec => []OnlyTailLost
<1>1. LInv => OnlyTailLost
  BY DEF LInv
<1> QED
  BY <1>1, LayoutInvariance, PTL
-----------------------------------------------------------------------------
(* An eraseblock with a marker is neither erased nor written, by any step   *)
(* of any run, except where the image itself carries the marker             *)
(* (--with-oob).                                                            *)
THEOREM MarksKept == Spec => MarkedLeftAlone
<1> DEFINE A == pc' # "idle" =>
                   \A b \in marked : b \in marked' /\ (mem'[b] = mem[b] \/ req.oob)
<1>1. ASSUME IInv, [Next]_vars PROVE A
  <2> SUFFICES ASSUME pc' # "idle", NEW b \in marked
               PROVE  b \in marked' /\ (mem'[b] = mem[b] \/ req.oob)
    OBVIOUS
  <2>1. TypeOK /\ b \in Eraseblocks
    BY <1>1 DEF IInv, TypeOK
  <2>2. CASE UNCHANGED vars \/ (\E r \in Requests, n \in FileLens : Start(r, n))
              \/ (\E r \in Requests : Refuse(r)) \/ VerifyPage \/ VerifyFails
              \/ EraseRest \/ Break \/ LoopEnds
    BY <2>2 DEF vars, Start, Refuse, VerifyPage, VerifyFails, EraseRest, Break,
       LoopEnds, flash
  <2>3. CASE SkipBlock
    <3>1. b \in marked'
      BY <2>3 DEF SkipBlock, MarkBad
    <3>2. CASE mem' = mem
      BY <3>1, <3>2
    <3>3. CASE FALSE \in IsBad(Here) /\ EraseFails
      <4>1. b # Here
        BY <3>3 DEF IsBad
      <4>2. \E c : mem' = [ mem EXCEPT ![Here] = c ]
        BY <3>3 DEF EraseFails
      <4>3. mem'[b] = mem[b]
        BY <2>1, <4>1, <4>2 DEF TypeOK
      <4> QED
        BY <3>1, <4>3
    <3> QED
      BY <2>3, <3>2, <3>3 DEF SkipBlock
  <2>4. CASE EraseBlock
    <3>1. b # Here
      BY <2>4 DEF EraseBlock, IsBad
    <3> QED
      BY <2>1, <2>4, <3>1 DEF EraseBlock, TypeOK
  <2>5. CASE WritePage \/ WriteFails
    <3>1. b \in marked' /\ AtBody
      BY <2>5 DEF WritePage, WriteFails
    <3>2. b # Here \/ req.oob
      BY <1>1, <3>1 DEF IInv, BlankLeft
    <3>3. \E d : mem' = [ mem EXCEPT ![Here][pos.page] = d ]
      BY <2>5 DEF WritePage, WriteFails
    <3>4. b # Here => mem'[b] = mem[b]
      BY <2>1, <3>3 DEF TypeOK
    <3> QED
      BY <3>1, <3>2, <3>4
  <2>6. CASE BadBlock
    BY <2>6 DEF BadBlock, MarkBad
  <2> QED
    BY <1>1, <2>2, <2>3, <2>4, <2>5, <2>6 DEF Next, Step, ProcessEnds
<1>2. IInv /\ [Next]_vars => [A]_vars
  BY <1>1
<1> QED
  BY <1>2, Invariance, PTL DEF Spec, MarkedLeftAlone

(* No step changes the data or the marker of an eraseblock in front of the  *)
(* offset.                                                                  *)
THEOREM FrontKept == Spec => FrontUntouched
<1> DEFINE A == pc' # "idle" =>
                   \A b \in Eraseblocks : (b + 1) * EraseblockSize <= req.offs =>
                      mem'[b] = mem[b] /\ (b \in marked' <=> b \in marked)
<1>1. ASSUME LInv, [Next]_vars PROVE A
  <2> SUFFICES ASSUME pc' # "idle", NEW b \in Eraseblocks,
                      (b + 1) * EraseblockSize <= req.offs
               PROVE  mem'[b] = mem[b] /\ (b \in marked' <=> b \in marked)
    OBVIOUS
  <2>1. TypeOK /\ Here \in Nat /\ b \in Nat /\ EraseblockSize \in Nat \ {0}
    BY <1>1, RunFacts, SizesPositive DEF LInv, IInv, Eraseblocks
  <2>2. CASE UNCHANGED vars \/ (\E r \in Requests, n \in FileLens : Start(r, n))
              \/ (\E r \in Requests : Refuse(r))
    BY <2>2 DEF vars, Start, Refuse, flash
  <2>3. CASE Step
    <3>1. InRun
      BY <1>1, <2>3, StepFrame DEF LInv
    <3>2. req.offs = FirstBlock * EraseblockSize /\ FirstBlock <= Here
      BY <1>1, <3>1 DEF LInv, Beyond
    <3>3. FirstBlock \in Nat
      BY <2>1, DivModFacts DEF FirstBlock, TypeOK, WriteRequest, EraseRequest
    <3>4. b # Here
      <4> SUFFICES ASSUME b = Here PROVE FALSE
        OBVIOUS
      <4> HIDE DEF FirstBlock
      <4>1. PICK j \in Nat : b + 1 = FirstBlock + 1 + j
        BY <2>1, <3>2, <3>3
      <4>2. (b + 1) * EraseblockSize
               = FirstBlock * EraseblockSize + EraseblockSize + j * EraseblockSize
        BY <2>1, <3>3, <4>1
      <4>3. j * EraseblockSize \in Nat /\ FirstBlock * EraseblockSize \in Nat
        BY <2>1, <3>3, <4>1, ProductNat
      <4> QED
        BY <2>1, <3>2, <4>2, <4>3
    <3>5. mem'[b] = mem[b]
      BY <2>1, <2>3, <3>4 DEF Step, SkipBlock, EraseBlock, EraseFails, WritePage,
         WriteFails, VerifyPage, VerifyFails, BadBlock, EraseRest, Break, LoopEnds,
         flash, TypeOK
    <3>6. b \in marked' <=> b \in marked
      BY <2>3, <3>4 DEF Step, SkipBlock, EraseBlock, MarkBad, WritePage,
         WriteFails, VerifyPage, VerifyFails, BadBlock, EraseRest, Break, LoopEnds,
         flash
    <3> QED
      BY <3>5, <3>6
  <2> QED
    BY <1>1, <2>2, <2>3 DEF Next, ProcessEnds
<1>2. LInv /\ [Next]_vars => [A]_vars
  BY <1>1
<1> QED
  BY <1>2, LayoutInvariance, PTL DEF Spec, FrontUntouched

(* A step marks no eraseblock but one it gives up, or one whose image       *)
(* carries the marker: the program never condemns an eraseblock it uses.    *)
THEOREM MarksOnlySkipped == Spec => MarksWhatItSkips
<1> DEFINE A == \A b \in marked' \ marked : b \in skipped' \/ req.oob
<1>1. ASSUME [Next]_vars PROVE A
  BY <1>1 DEF Next, Step, Start, Refuse, ProcessEnds, SkipBlock, EraseBlock, MarkBad,
     WritePage, WriteFails, CarriesMarker, VerifyPage, VerifyFails, BadBlock,
     EraseRest, Break, LoopEnds, flash, vars
<1>2. [Next]_vars => [A]_vars
  BY <1>1
<1> QED
  BY <1>2, PTL DEF Spec, MarksWhatItSkips

-----------------------------------------------------------------------------
(***************************************************************************)
(* snand_write, with everything that may fail under it, implements the     *)
(* store of an image: step by step, for every memory organisation, every   *)
(* request and every set of faults under which the request promises one.   *)
(*                                                                         *)
(* What the abstract store holds is read off the flash through the layout; *)
(* ImageLaidOut, which holds before and after every step, says it is made  *)
(* of pieces of the file, so a step is followed on Pieces.  A page counted *)
(* is a Store, BAD_BLOCK is a LoseBlock, every other step of the loop a    *)
(* stutter.                                                                *)
(***************************************************************************)
(* The first n pieces of the file. *)
Pieces(n) == [ i \in 1 .. n |-> Piece(i) ]

(* The image of the mapping. *)
Unit == IF Promised THEN FL ELSE PageSize
Size == IF Promised THEN flen ELSE 0
Stored == IF Promised THEN [ i \in 1 .. Len(layout) |-> Content(layout[i]) ] ELSE << >>

-----------------------------------------------------------------------------
LEMMA PiecesSeq ==
    ASSUME NEW n \in Nat
    PROVE  Pieces(n) \in Seq({ Piece(i) : i \in Nat }) /\ Len(Pieces(n)) = n
           /\ \A i \in 1 .. n : Pieces(n)[i] = Piece(i)
BY IsASeq DEF Pieces

LEMMA PiecesNone == Pieces(0) = << >>
BY PiecesSeq, EmptySeq

LEMMA PiecesAppend ==
    ASSUME NEW n \in Nat
    PROVE  Append(Pieces(n), Piece(n + 1)) = Pieces(n + 1)
<1> DEFINE S == { Piece(i) : i \in Nat }
           s == Append(Pieces(n), Piece(n + 1))
           t == Pieces(n + 1)
<1>1. Pieces(n) \in Seq(S) /\ Len(Pieces(n)) = n
      /\ \A i \in 1 .. n : Pieces(n)[i] = Piece(i)
  BY PiecesSeq
<1>2. t \in Seq(S) /\ Len(t) = n + 1 /\ \A i \in 1 .. n + 1 : t[i] = Piece(i)
  BY PiecesSeq
<1>3. Piece(n + 1) \in S
  OBVIOUS
<1> HIDE DEF S, t
<1>4. /\ s \in Seq(S) /\ Len(s) = n + 1 /\ s[n + 1] = Piece(n + 1)
      /\ \A i \in 1 .. n : s[i] = Piece(i)
  BY <1>1, <1>3, AppendProperties
<1> HIDE DEF s
<1>5. \A i \in 1 .. n + 1 : i \in 1 .. n \/ i = n + 1
  OBVIOUS
<1>6. \A i \in 1 .. Len(s) : s[i] = t[i]
  BY <1>2, <1>4, <1>5
<1>7. s = t
  BY <1>2, <1>4, <1>6, SeqEqual
<1> QED
  BY <1>7 DEF s, t

LEMMA PiecesCut ==
    ASSUME NEW n \in Nat, NEW m \in 0 .. n
    PROVE  SubSeq(Pieces(n), 1, m) = Pieces(m)
<1> DEFINE S == { Piece(i) : i \in Nat }
           s == SubSeq(Pieces(n), 1, m)
           t == Pieces(m)
<1>1. Pieces(n) \in Seq(S) /\ Len(Pieces(n)) = n
      /\ \A i \in 1 .. n : Pieces(n)[i] = Piece(i)
  BY PiecesSeq
<1>2. t \in Seq(S) /\ Len(t) = m /\ \A i \in 1 .. m : t[i] = Piece(i)
  <2>1. m \in Nat
    OBVIOUS
  <2> QED
    BY <2>1, PiecesSeq
<1>3. \A i \in 1 .. m : Pieces(n)[i] \in S
  BY <1>1
<1> HIDE DEF S, t
<1>4. /\ s \in Seq(S) /\ Len(s) = IF 1 <= m THEN m - 1 + 1 ELSE 0
      /\ \A i \in 1 .. m - 1 + 1 : s[i] = Pieces(n)[1 + i - 1]
  BY <1>1, <1>3, SubSeqProperties
<1> HIDE DEF s
<1>5. Len(s) = m
  BY <1>4
<1>6. ASSUME NEW i \in 1 .. m PROVE s[i] = t[i]
  <2>1. i \in 1 .. m - 1 + 1 /\ 1 + i - 1 = i /\ i \in 1 .. n
    OBVIOUS
  <2> QED
    BY <1>1, <1>2, <1>4, <2>1
<1>7. s = t
  BY <1>2, <1>4, <1>5, <1>6, SeqEqual
<1> QED
  BY <1>7 DEF s, t

LEMMA PromisedBoolean ==
    (Promised \in BOOLEAN) /\ (Promised' \in BOOLEAN)
BY DEF Promised

(* What the flash holds for the layout is the pieces of the file. *)
LEMMA StoredPieces ==
    ASSUME IInv, Promised
    PROVE  Stored = Pieces(Len(layout)) /\ Len(layout) \in Nat
           /\ Size = flen /\ Unit = FL
<1>1. \A i \in 1 .. Len(layout) : Content(layout[i]) = Piece(i)
  BY DEF IInv, ImageLaidOut, Right, Promised
<1> QED
  BY <1>1, RunFacts DEF Stored, Pieces, Size, Unit
-----------------------------------------------------------------------------
(* The steps of a run are steps of the store, or leave it alone. *)
LEMMA StepStores ==
    ASSUME LInv, LInv', Step
    PROVE  [Promise!Next]_(Promise!vars)
<1>1. /\ IInv /\ IInv' /\ InRun /\ UNCHANGED << req, flen, FL >>
      /\ FL \in Nat \ {0} /\ Len(layout) \in Nat
  BY StepFrame, RunFacts DEF LInv
<1>2. pc' \notin {"idle", "refused"} /\ pc \notin {"idle", "refused"}
  BY <1>1 DEF InRun, Step, SkipBlock, EraseBlock, WritePage, WriteFails, VerifyPage,
     VerifyFails, BadBlock, EraseRest, Break, LoopEnds, Advance, InLoop
<1>3. Promised' = Promised
  BY <1>1, <1>2 DEF Promised, ErrorsShow
<1>4. CASE ~ Promised
  BY <1>3, <1>4 DEF Promise!vars
<1>5. CASE Promised
  <2>1. /\ Stored = Pieces(Len(layout)) /\ Size = flen /\ Unit = FL
        /\ UNCHANGED << Size, Unit >> /\ Len(layout') \in Nat
        /\ Stored' = Pieces(Len(layout'))
    <3>1. (Stored = Pieces(Len(layout)) /\ Size = flen /\ Unit = FL)'
          /\ Len(layout') \in Nat
      <4>1. Len(layout') \in Nat
        BY <1>1, LenProperties DEF IInv, TypeOK
      <4>2. \A i \in 1 .. Len(layout') : Content(layout[i])' = Piece(i)'
        BY <1>1, <1>3, <1>5 DEF IInv, ImageLaidOut, Right, Promised
      <4> QED
        BY <1>3, <1>5, <4>1, <4>2 DEF Stored, Pieces, Size, Unit
    <3>2. \A i : Piece(i)' = Piece(i)
      BY <1>1, PieceStable
    <3> QED
      BY <1>1, <1>5, <3>1, <3>2, StoredPieces DEF Pieces
  <2>2. Len(Stored) = Len(layout)
    BY <1>1, <2>1, PiecesSeq
  <2>3. CASE Counts
    <3>1. Len(layout') = Len(layout) + 1 /\ Feeding
      BY <1>1, <2>3, CountsFacts DEF LInv, Counts
    <3>2. Len(layout) * FL <= flen
      <4>1. Len(layout) * FL \in Nat /\ flen \in Nat /\ fpos \in 0 .. flen
            /\ buf.len \in Nat
        BY <1>1, ProductNat DEF IInv, TypeOK, Chunk
      <4>2. CASE pc \in {"loop", "body"} /\ actual = FL
        BY <1>1, <1>5, <4>1, <4>2 DEF IInv, Account, Promised
      <4>3. CASE pc \in {"verify", "bad"}
        BY <1>1, <1>5, <4>1, <4>3 DEF IInv, Account, Promised
      <4> QED
        BY <3>1, <4>2, <4>3 DEF Feeding
    <3>3. Promise!PieceAfter(Len(layout)) = Piece(Len(layout) + 1)
      <4>1. (Len(layout) + 1) - 1 = Len(layout)
        BY <1>1
      <4> QED
        BY <1>5, <4>1 DEF Promise!PieceAfter, Piece, FL
    <3>4. Stored' = Append(Stored, Promise!PieceAfter(Len(Stored)))
      BY <1>1, <2>1, <2>2, <3>1, <3>3, PiecesAppend
    <3>5. Promise!Store
      BY <1>3, <1>5, <2>1, <2>2, <3>2, <3>4 DEF Promise!Store, Stored, Size, Unit, FL
    <3> QED
      BY <3>5 DEF Promise!Next
  <2>4. CASE BadBlock
    <3>1. /\ Full \in 0 .. Len(layout) /\ Len(layout') = Full /\ Feeding
      BY <1>1, <2>4, BadBlockFacts
    <3>2. Full % PagesPerEraseblock = 0
      BY <3>1 DEF LInv, Joined
    <3>3. Len(layout) - Full < PagesPerEraseblock
      BY <1>1, <3>1, RunFacts, MemorgAssumption DEF Full, PageNos
    <3>4. Stored' = SubSeq(Stored, 1, Full)
      BY <1>1, <2>1, <3>1, PiecesCut
    <3>5. Promise!LoseBlock
      BY <1>3, <1>5, <2>1, <2>2, <3>1, <3>2, <3>3, <3>4
         DEF Promise!LoseBlock, Stored, Size, Unit, FL
    <3> QED
      BY <3>5 DEF Promise!Next
  <2>5. CASE Skips \/ EraseRest \/ Stays
    <3>1. layout' = layout
      BY <1>1, <2>5, RestFacts DEF Skips, Stays
    <3>2. UNCHANGED << Promised, Size, Unit, Stored >>
      BY <1>3, <2>1, <3>1
    <3> QED
      BY <3>2 DEF Promise!vars, Stored, Size, Unit, FL
  <2> QED
    BY <1>1, <2>3, <2>4, <2>5, Moves
<1> QED
  BY <1>4, <1>5

LEMMA NextStores ==
    ASSUME LInv, LInv', [Next]_vars
    PROVE  [Promise!Next]_(Promise!vars)
<1>1. ASSUME NEW r \in Requests, NEW n \in FileLens, Start(r, n)
      PROVE  [Promise!Next]_(Promise!vars)
  <2>1. ~ Promised /\ req' = r /\ flen' = n /\ layout' = << >>
    BY <1>1 DEF Start, Promised
  <2>2. CASE Promised'
    <3>1. n \in Nat /\ FreadLen(r) \in Nat
      BY RequestType, FreadLenPositive, FlashWriteAssumption
    <3>2. Len(layout') = 0
      BY <2>1, EmptySeq
    <3>3. Stored' = << >>
      <4>1. Stored' = Pieces(0)
        BY <2>2, <3>2 DEF Stored, Pieces
      <4> QED
        BY <4>1, PiecesNone
    <3>4. Promise!Begin
      BY <2>1, <2>2, <3>1, <3>3 DEF Promise!Begin, Stored
    <3> QED
      BY <3>4 DEF Promise!Next
  <2>3. CASE ~ Promised'
    BY <2>1, <2>3, PromisedBoolean DEF Promise!vars
  <2> QED
    BY <2>2, <2>3
<1>2. ASSUME NEW r \in Requests, Refuse(r)
      PROVE  [Promise!Next]_(Promise!vars)
  BY <1>2 DEF Refuse, Promised, Promise!vars
<1>3. CASE Step
  BY <1>3, StepStores
<1>4. CASE ProcessEnds
  <2>1. ~ Promised'
    BY <1>4 DEF ProcessEnds, Promised
  <2>2. CASE Promised
    <3>1. PageSize \in Nat
      BY MemorgAssumption
    <3>2. Promise!End
      BY <2>1, <2>2, <3>1 DEF Promise!End
    <3> QED
      BY <3>2 DEF Promise!Next
  <2>3. CASE ~ Promised
    BY <2>1, <2>3, PromisedBoolean DEF Promise!vars
  <2> QED
    BY <2>2, <2>3
<1>5. CASE UNCHANGED vars
  <2>1. UNCHANGED << mem, pc, req, flen, layout >>
    BY <1>5 DEF vars
  <2> QED
    BY <2>1 DEF Promise!vars, Promised, ErrorsShow, Content, FreadLen
<1> QED
  BY <1>1, <1>2, <1>3, <1>4, <1>5 DEF Next

(* The write operation stores an image: the pages it counts as written are  *)
(* at every moment a prefix of the file's pieces, which grows by the next   *)
(* piece and shrinks only by the pieces of one failed eraseblock.           *)
THEOREM StoresAnImage == Spec => StoresImage
<1>1. Init => Promise!Init
  BY MemorgAssumption DEF Init, Promised, Promise!Init
<1>2. LInv /\ LInv' /\ [Next]_vars => [Promise!Next]_(Promise!vars)
  BY NextStores
<1> QED
  BY <1>1, <1>2, LayoutInvariance, PTL DEF Spec, StoresImage, Promise!Spec
=============================================================================
