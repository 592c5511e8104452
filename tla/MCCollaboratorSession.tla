------------------------ MODULE MCCollaboratorSession ------------------------
(* CollaboratorSession for TLC: two sockets that compete for one place. *)
EXTENDS CollaboratorSession

CONSTANTS s1, s2
=============================================================================
