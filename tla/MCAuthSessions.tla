---------------------------- MODULE MCAuthSessions ----------------------------
(* Small instances of AuthSessions. *)
EXTENDS AuthSessions, TLC

Symmetry == Permutations(Handlers) \cup Permutations(Browsers)
=============================================================================
