-------------------------- MODULE MCSigningClient --------------------------
(* TLC instances of SigningClient: two calls for one account. *)
EXTENDS SigningClient, TLC

CONSTANTS c1, c2, m1, m2, foreign

TwoCalls == {c1, c2}
TwoMsgs == {m1, m2}
SecondMsg == {m2}
ForeignMsg == {foreign}
Unedited == {FALSE}
NoSequences == {}
Ahead == {1}
FreeOrAwait == {"free", "await"}
Retry == {"retry"}

\* The calls are interchangeable.
Symmetry == Permutations(Calls)
=============================================================================
