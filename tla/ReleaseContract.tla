-------------------------- MODULE ReleaseContract --------------------------
(***************************************************************************)
(* What the controller promises about a release, apart from how: the door  *)
(* is idle, open until a fixed time, or the controller has ended its       *)
(* service for good (faulted or shut down).  A release is granted for      *)
(* exactly ReleaseSeconds, is never prolonged, does not expire early, and  *)
(* no release follows the end.  AccessController is shown to implement it. *)
(***************************************************************************)
EXTENDS Integers

CONSTANTS ReleaseSeconds, MaxTime

VARIABLES now, phase, until

contractVars == <<now, phase, until>>

NoDeadline == -1

Init == now = 0 /\ phase = "idle" /\ until = NoDeadline

Advance == now < MaxTime /\ now' = now + 1 /\ UNCHANGED <<phase, until>>

Grant ==
  /\ phase = "idle"
  /\ phase' = "open"
  /\ until' = now + ReleaseSeconds
  /\ UNCHANGED now

Expire ==
  /\ phase = "open"
  /\ now >= until
  /\ phase' = "idle"
  /\ until' = NoDeadline
  /\ UNCHANGED now

End ==
  /\ phase' = "ended"
  /\ until' = NoDeadline
  /\ UNCHANGED now

Next == Advance \/ Grant \/ Expire \/ End

SafeSpec == Init /\ [][Next]_contractVars

=============================================================================
