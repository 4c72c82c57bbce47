--------------------------- MODULE MCOrderTracker ---------------------------
(* Two lines of one lot each, or one line that can be filled in parts.     *)
EXTENDS OrderTracker, TLC

CONSTANTS a, b

SmallVolumes == {(a :> 2) @@ (b :> 0), (a :> 0) @@ (b :> 2), (a :> 1) @@ (b :> 1)}

(* Lines are only compared for equality.                                   *)
Symmetry == Permutations(Lines)
=============================================================================
