----------------------------- MODULE RoundRobin -----------------------------
(***************************************************************************)
(* What the scheduler promises while no task exits: the queued tasks run   *)
(* in turn, in the order in which they were created, and a new task is     *)
(* queued behind all others.  A pid tells the place in that order.         *)
(***************************************************************************)
EXTENDS Naturals

CONSTANT Pid

VARIABLES running, queued      \* 0 runs until the first task starts

Init == running = 0 /\ queued = {}

Start == /\ running = 0
         /\ \E t \in Pid : running' = t /\ queued' = {t}

Admit == /\ running # 0
         /\ \E t \in Pid : /\ \A u \in queued : u < t
                           /\ queued' = queued \cup {t}
         /\ UNCHANGED running

First(tasks) == CHOOSE t \in tasks : \A u \in tasks : t <= u
Younger(t) == {u \in queued : u > t}

Turn == /\ running # 0
        /\ running' = First(IF Younger(running) = {} THEN queued
                                                     ELSE Younger(running))
        /\ UNCHANGED queued

Spec == Init /\ [][Start \/ Admit \/ Turn]_<<running, queued>>
=============================================================================
