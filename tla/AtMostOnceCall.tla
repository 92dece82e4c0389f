---------------------------- MODULE AtMostOnceCall ----------------------------
(***************************************************************************)
(* What a caller may assume of one call to WHMCS: a mutating action is     *)
(* performed at most once whatever happens on the way, success is reported *)
(* only for an action that was performed, and an error says nothing either *)
(* way: the action may have been performed, or may still be.               *)
(***************************************************************************)
EXTENDS Naturals

VARIABLES
  mutating,   \* whether the action changes state in WHMCS
  performed,  \* how often WHMCS has performed the action for this call
  outcome     \* "none" until the call returns, then "ok" or "error"

callVars == <<mutating, performed, outcome>>

Init ==
  /\ mutating \in BOOLEAN
  /\ performed = 0
  /\ outcome = "none"

Perform ==
  /\ mutating => performed = 0
  /\ performed' = performed + 1
  /\ UNCHANGED <<mutating, outcome>>

Succeed ==
  /\ outcome = "none"
  /\ performed > 0
  /\ outcome' = "ok"
  /\ UNCHANGED <<mutating, performed>>

Fail ==
  /\ outcome = "none"
  /\ outcome' = "error"
  /\ UNCHANGED <<mutating, performed>>

Next == Perform \/ Succeed \/ Fail

Spec == Init /\ [][Next]_callVars
===============================================================================
