----------------------------- MODULE LossyFifo -----------------------------
(***************************************************************************)
(* What a bounded buffer between a device and a reader promises: items     *)
(* come out in the order in which they went in, none twice; an item that   *)
(* finds no room is dropped (which changes nothing here).                  *)
(***************************************************************************)
EXTENDS Naturals, Sequences

CONSTANTS Size, Item, NoItem

VARIABLES queue, taken

Init == queue = <<>> /\ taken = NoItem

Write == /\ Len(queue) < Size
         /\ \E v \in Item : queue' = Append(queue, v)
         /\ UNCHANGED taken

Read == /\ queue # <<>>
        /\ taken' = Head(queue) /\ queue' = Tail(queue)

Next == Write \/ Read

Spec == Init /\ [][Next]_<<queue, taken>>
=============================================================================
