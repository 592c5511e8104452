------------------------ MODULE MCContributionWindow ------------------------
(* Small instances of ContributionWindow, and of InactivityTimer in it, for TLC. *)
EXTENDS ContributionWindow, TLC

CONSTANTS s1, s2

\* Sockets are interchangeable.
Symmetry == Permutations(Sockets)
=============================================================================
