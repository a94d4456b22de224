------------------------------ MODULE MCInitrd ------------------------------
(* Names that are empty, the directory's, or can be two files'; names with *)
(* nothing or a character left behind them, which may be one too many.     *)
EXTENDS Initrd

MCNames == {<<>>, <<97>>, Dev}
MCJunk == {<<>>, <<120>>}

\* No definition tells one client from another.
Symmetry == Permutations(Clients)
=============================================================================
