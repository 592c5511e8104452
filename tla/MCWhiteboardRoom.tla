-------------------------- MODULE MCWhiteboardRoom --------------------------
(* Small instances of WhiteboardRoom for TLC. *)
EXTENDS WhiteboardRoom, TLC

CONSTANTS s1, s2, b, e1, e2, v1, v2, c1, c2

\* Sockets and slots are interchangeable; the edits outside Base are too.
Symmetry == Permutations(Sockets) \cup Permutations(SaveSlots)
            \cup Permutations(CloserSlots) \cup Permutations(Edits \ Base)
=============================================================================
