---------------------------- MODULE MCSpiMemDrvs ----------------------------
(***************************************************************************)
(* SpiMemDrvs with a page of eight bytes.  The lengths of serprog and of   *)
(* the ch347 take two operations a page; the second, of the ch347, fits    *)
(* the small buffer.  The fx2 takes a page in three packets of which the   *)
(* last is short, and its reset writes less than a page of zeros.          *)
(***************************************************************************)
EXTENDS SpiMemDrvs

AllFaults  == {"open", "write", "read", "short", "nak", "killed"}
LineFaults == {"write", "read"}
Killed     == {"killed"}
NoFaults   == {}
=============================================================================
