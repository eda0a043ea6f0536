----------------------------- MODULE PageDevice -----------------------------
(***************************************************************************)
(* What spi-nand/core.c promises flashops.c: pages that are read, written  *)
(* in part or whole, and erased by the block, one call at a time.  A call  *)
(* that returns success has had its effect, exactly once and nowhere else; *)
(* one that returns an error has had it, half of it, or none.              *)
(***************************************************************************)
CONSTANTS Calls,      \* the calls considered
          NoCall,
          NoAnswer,
          Contents,   \* all states of the pages
          Read(_, _),   \* Read(mem, call): the set of what it may read
          Effect(_, _), \* Effect(mem, call): the pages after the call
          Damage(_, _)  \* Damage(mem, call): what a failing call may leave

VARIABLES mem,      \* the pages
          call,     \* the call under way
          effect,   \* has it had its effect: none, done, failed
          answer    \* what the last call returned

vars == << mem, call, effect, answer >>

Init ==
    /\ mem \in Contents
    /\ call = NoCall /\ effect = "none" /\ answer = NoAnswer

Invoke ==
    /\ call = NoCall
    /\ call' \in Calls
    /\ effect' = "none" /\ answer' = NoAnswer
    /\ UNCHANGED mem

TakeEffect ==
    /\ call # NoCall /\ effect = "none" /\ call.op # "read"
    /\ \/ effect' = "done" /\ mem' = Effect(mem, call)
       \/ effect' = "failed" /\ mem' \in Damage(mem, call)
    /\ UNCHANGED << call, answer >>

Succeed ==
    /\ call # NoCall
    /\ IF call.op = "read"
       THEN \E r \in Read(mem, call) : answer' = [ ok |-> TRUE, data |-> r ]
       ELSE effect = "done" /\ answer' = [ ok |-> TRUE, data |-> << >> ]
    /\ call' = NoCall
    /\ UNCHANGED << mem, effect >>

Fail ==
    /\ call # NoCall
    /\ answer' = [ ok |-> FALSE, data |-> << >> ]
    /\ call' = NoCall
    /\ UNCHANGED << mem, effect >>

Next == Invoke \/ TakeEffect \/ Succeed \/ Fail

Spec == Init /\ [][Next]_vars
=============================================================================
