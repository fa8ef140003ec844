---------------------------- MODULE AppendOnlyLog ----------------------------
(***************************************************************************)
(* What a buffered destination promises: what it accepts is stored in the  *)
(* order it was accepted, without gaps or repetitions.  A restart may lose *)
(* the accepted rows that are not stored yet, and nothing else.            *)
(***************************************************************************)
EXTENDS Naturals, Sequences

CONSTANT Row

VARIABLES
    accepted,   \* the rows accepted that have not been lost
    stored      \* the rows that can be read back

vars == <<accepted, stored>>

TypeOK == accepted \in Seq(Row) /\ stored \in Seq(Row)

Init == accepted = <<>> /\ stored = <<>>

Accept == \E r \in Row : accepted' = Append(accepted, r) /\ UNCHANGED stored

\* Some of the accepted rows that come next are added to the stored ones.
Store ==
    \E n \in Len(stored) + 1 .. Len(accepted) :
        stored' = SubSeq(accepted, 1, n) /\ UNCHANGED accepted

Lose == accepted' = stored /\ UNCHANGED stored

Next == Accept \/ Store \/ Lose

Spec == Init /\ [][Next]_vars
=============================================================================
