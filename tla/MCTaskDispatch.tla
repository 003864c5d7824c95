-------------------------- MODULE MCTaskDispatch --------------------------
(* Small workflows for TLC: one package, and one with a successor. *)
EXTENDS TaskDispatch

CONSTANTS a, b

ChainWps == {a, b}
ChainDeps == [w \in ChainWps |-> IF w = b THEN {a} ELSE {}]
ChainOracled == {a, b}

SoloDeps == [w \in {a} |-> {}]
=============================================================================
