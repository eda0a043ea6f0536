----------------------------- MODULE ImageStore -----------------------------
(***************************************************************************)
(* What the write operation of the programmer promises, without blocks,    *)
(* offsets or device calls: the pieces of a file are stored one after the  *)
(* other; a bad block takes back the pieces stored on it and nothing else. *)
(***************************************************************************)
EXTENDS Naturals, Sequences

CONSTANT PiecesPerBlock

VARIABLES writing,  \* is a run under way or finished, its result in place?
          size,     \* bytes in the file
          unit,     \* bytes per piece
          stored    \* the pieces in place, in device order

vars == << writing, size, unit, stored >>

(* The piece that starts after n pieces. *)
PieceAfter(n) ==
    LET left == size - n * unit
    IN  [ src |-> n * unit, len |-> IF left < unit THEN left ELSE unit ]

Init == ~ writing /\ size = 0 /\ stored = << >> /\ unit \in Nat

Begin ==
    /\ ~ writing /\ writing' = TRUE
    /\ size' \in Nat /\ unit' \in Nat
    /\ stored' = << >>

(* The next piece, the empty one after the last full one included. *)
Store ==
    /\ writing
    /\ Len(stored) * unit <= size
    /\ stored' = Append(stored, PieceAfter(Len(stored)))
    /\ UNCHANGED << writing, size, unit >>

(* A block fails: the pieces of the blocks before it stay. *)
LoseBlock ==
    /\ writing
    /\ \E n \in 0 .. Len(stored) :
          /\ n % PiecesPerBlock = 0
          /\ Len(stored) - n < PiecesPerBlock
          /\ stored' = SubSeq(stored, 1, n)
    /\ UNCHANGED << writing, size, unit >>

End ==
    /\ writing /\ writing' = FALSE
    /\ size' = 0 /\ unit' \in Nat /\ stored' = << >>

Next == Begin \/ Store \/ LoseBlock \/ End

Spec == Init /\ [][Next]_vars
=============================================================================
