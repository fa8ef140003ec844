--------------------------- MODULE BoundedIntake ---------------------------
(***************************************************************************)
(* What a UDP queue promises its senders, whatever happens inside: a       *)
(* message meets exactly one fate, it is refused only when Room messages   *)
(* are already being taken care of, never more than Room + Slack are, and  *)
(* one that was accepted is finished.                                      *)
(***************************************************************************)
EXTENDS Naturals, FiniteSets

CONSTANTS Messages, Room, Slack

VARIABLE fate

Fate == {"new", "discarded", "refused", "accepted", "finished"}

Accepted == {m \in Messages : fate[m] = "accepted"}

IntakeInit == fate = [m \in Messages |-> "new"]

Meets(m, from, to) == fate[m] = from /\ fate' = [fate EXCEPT ![m] = to]

Discard(m) == Meets(m, "new", "discarded")
Refuse(m)  == Cardinality(Accepted) >= Room /\ Meets(m, "new", "refused")
Accept(m)  == Cardinality(Accepted) < Room + Slack /\ Meets(m, "new", "accepted")
Finish(m)  == Meets(m, "accepted", "finished")

IntakeNext ==
    \E m \in Messages : Discard(m) \/ Refuse(m) \/ Accept(m) \/ Finish(m)

\* What is promised of every step ...
IntakeSafety == IntakeInit /\ [][IntakeNext]_fate

\* ... and of the end.
IntakeSpec ==
    /\ IntakeSafety
    /\ \A m \in Messages : WF_fate(Finish(m))
=============================================================================
