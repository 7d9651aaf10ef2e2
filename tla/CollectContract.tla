--------------------------- MODULE CollectContract ---------------------------
(***************************************************************************)
(* What provider.CollectResources promises its caller, whatever it does    *)
(* inside (pkg/provider/provider.go, interface Provider): either it fails  *)
(* and hands nothing over, or it succeeds and hands over a collection with *)
(* every resource of the scan once, those excepted that it never asks for  *)
(* and those that a failed call has cost which it goes on after.           *)
(***************************************************************************)
EXTENDS Sequences, SequencesExt, Functions

VARIABLES
  expected,            \* the resources a complete scan finds
  excused,             \* those never asked for or lost to a failure passed over
  result,              \* "none" until the call returns, then "ok" or "error"
  reported             \* the resources handed to the caller, in their order

contractVars == <<expected, excused, result, reported>>

\* s holds nothing but members of S, each of them once, and all of T.
ListsOnce(s, S, T) ==
  /\ ToSet(s) \subseteq S /\ T \subseteq ToSet(s)
  /\ IsInjective(s)

Init ==
  /\ excused \subseteq expected
  /\ result = "none"
  /\ reported = <<>>

\* A call fails, and the provider goes on without what it was to give.
PassOver ==
  /\ result = "none"
  /\ excused \subseteq excused'
  /\ UNCHANGED <<expected, result, reported>>

Succeed ==
  /\ result = "none"
  /\ result' = "ok"
  /\ ListsOnce(reported', expected, expected \ excused)
  /\ UNCHANGED <<expected, excused>>

Fail ==
  /\ result = "none"
  /\ result' = "error"
  /\ reported' = <<>>
  /\ excused \subseteq excused'
  /\ UNCHANGED expected

Next == PassOver \/ Succeed \/ Fail

Spec == Init /\ [][Next]_contractVars
=============================================================================
