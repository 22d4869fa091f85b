-------------------------- MODULE MCHarnessRunner --------------------------
(* Small instances of HarnessRunner for TLC.  Surfaces are interchangeable. *)
EXTENDS HarnessRunner, TLC

CONSTANTS s1, s2

SurfaceSymmetry == Permutations(Surface)

(* A run is resumed and healed around a crash; or, without a crash, its     *)
(* approvals are answered twice, commands come between and it is canceled.  *)
MCTwoSettings ==
  {[offered |-> {"allow once", "never"}, requests |-> {"resume", "heal"}, crashes |-> 1],
   [offered |-> {"always", "deny"}, crashes |-> 0,
    requests |-> {"resume", "cancel", "command", "repeat"}]}

(* People only answer, and may cancel the run.                              *)
MCAnswers   == {[offered |-> Decision, requests |-> {}, crashes |-> 0]}
MCCancelled == {[offered |-> Decision, requests |-> {"cancel"}, crashes |-> 0]}

=============================================================================
