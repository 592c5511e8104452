-------------------------- MODULE MCInactivityTimer --------------------------
(* Small instances of InactivityTimer for TLC. *)
EXTENDS InactivityTimer, TLC

CONSTANTS s1, s2

\* Sockets are interchangeable.
Symmetry == Permutations(Sockets)
=============================================================================
