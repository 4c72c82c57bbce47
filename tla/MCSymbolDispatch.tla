-------------------------- MODULE MCSymbolDispatch --------------------------
(* A position that is closed before another one is opened, and two that    *)
(* are reduced side by side, one of them to change its side.               *)
EXTENDS SymbolDispatch, TLC

CONSTANTS a, b

From(p, t) == [pos |-> p, target |-> t]

SmallWorlds == {(a :> From(1, 0)) @@ (b :> From(0, 1)), (a :> From(1, -1)) @@ (b :> From(1, 0))}
=============================================================================
