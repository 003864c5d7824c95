---------------------------- MODULE WpLifecycle ----------------------------
(***************************************************************************)
(* What the task manager promises about the work packages of one workflow, *)
(* with no mention of leases, snapshots, signals or sweeps: a package is   *)
(* started once all it depends on is done, is tried at most MaxAttempts    *)
(* times without a person, is given up to a person after that, and is      *)
(* granted one more try at a time.                                         *)
(*                                                                         *)
(* The phases and the five steps between them are the table WP_TRANSITIONS *)
(* restricted to the transitions that production code writes.              *)
(***************************************************************************)
EXTENDS Integers

CONSTANTS
  Wps,          \* the work packages of the workflow
  Deps,         \* Deps[w]: the packages w depends on
  MaxAttempts   \* tries before a package is handed to a person

VARIABLES
  phase,   \* phase[w]: where w stands
  tries    \* tries[w]: how often w was handed to a worker

vars == <<phase, tries>>

Phases == {"DRAFTED", "DISPATCHED", "DONE", "ESCALATED"}

Init == /\ phase = [w \in Wps |-> "DRAFTED"]
        /\ tries = [w \in Wps |-> 0]

Move(w, from, to) == /\ phase[w] = from
                     /\ phase' = [phase EXCEPT ![w] = to]

Try(w) == tries' = [tries EXCEPT ![w] = @ + 1]

Start(w) == /\ \A d \in Deps[w] : phase[d] = "DONE"
            /\ Move(w, "DRAFTED", "DISPATCHED")
            /\ Try(w)

Retry(w) == /\ tries[w] < MaxAttempts
            /\ Move(w, "DISPATCHED", "DISPATCHED")
            /\ Try(w)

Finish(w) == Move(w, "DISPATCHED", "DONE") /\ UNCHANGED tries

GiveUp(w) == /\ tries[w] >= MaxAttempts
             /\ Move(w, "DISPATCHED", "ESCALATED")
             /\ UNCHANGED tries

Grant(w) == Move(w, "ESCALATED", "DISPATCHED") /\ Try(w)

Next == \E w \in Wps : Start(w) \/ Retry(w) \/ Finish(w) \/ GiveUp(w) \/ Grant(w)

Spec == Init /\ [][Next]_vars
=============================================================================
