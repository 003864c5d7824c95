-------------------------- MODULE MCStreamConsumer --------------------------
(* Small instances of StreamConsumer. *)
EXTENDS StreamConsumer, TLC

CONSTANTS m1, m2, bad, odd, c1, c2, o1

Processes == Permutations({c1, c2})
=============================================================================
