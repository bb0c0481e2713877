------------------------------ MODULE Filtering ------------------------------
(***************************************************************************)
(* A list comprehension that leaves elements out: mark_delivered of        *)
(* DurableNotificationQueue writes one, and the failures that observe_api  *)
(* of run_hardware_service has not seen yet are another.  It is what       *)
(* SelectSeq says, written out so that it can be reasoned about: to the    *)
(* provers SelectSeq is a name without a definition.                       *)
(***************************************************************************)
EXTENDS Integers, Sequences

(* The elements of seq that are not in S, in their order. *)
Dropping(seq, S) ==
  LET kept[n \in 0..Len(seq)] ==
        IF n = 0 THEN <<>>
        ELSE IF seq[n] \in S THEN kept[n - 1]
        ELSE Append(kept[n - 1], seq[n])
  IN  kept[Len(seq)]

=============================================================================
