--------------------------- MODULE MCOrderedArray ---------------------------
(* Four items, two of which compare as equal. *)
EXTENDS OrderedArraySteps

CONSTANTS a, b, c, d

MCItem == {a, b, c, d}
MCKey == a :> 1 @@ b :> 2 @@ c :> 2 @@ d :> 4
=============================================================================
