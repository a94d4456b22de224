----------------------------- MODULE Allocator -----------------------------
(***************************************************************************)
(* What a heap promises its callers: the block it hands out was free, lies *)
(* in the heap's address range and is aligned when that was asked for; a   *)
(* block stays its caller's until it is freed.                             *)
(***************************************************************************)
EXTENDS Naturals

CONSTANTS Page, Low, High, Sizes, Aligns

VARIABLE live          \* the blocks in use: address -> size

Cells(p, size) == p..(p + size - 1)

Free(p, size) == \A q \in DOMAIN live :
                   Cells(p, size) \cap Cells(q, live[q]) = {}

Init == live = <<>>

Allocate ==
  \E p \in Low..High, size \in Sizes, align \in Aligns :
    /\ p \notin DOMAIN live /\ Free(p, size) /\ p + size <= High
    /\ align => p % Page = 0
    /\ live' = [q \in DOMAIN live \cup {p} |-> IF q = p THEN size ELSE live[q]]

Release == \E p \in DOMAIN live : live' = [q \in DOMAIN live \ {p} |-> live[q]]

Next == Allocate \/ Release

Spec == Init /\ [][Next]_live
=============================================================================
