--------------------------- MODULE MCSessionClose ---------------------------
(* Instances of a session's close for TLC. *)
EXTENDS SessionClose, TLC

(* Requesters differ in nothing but their name. *)
RequesterSymmetry == Permutations(Requesters)
=============================================================================
