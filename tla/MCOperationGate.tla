-------------------------- MODULE MCOperationGate --------------------------
(* Instances of the operation gate for TLC. *)
EXTENDS OperationGate, TLC

(* Tasks differ in nothing but their name. *)
TaskSymmetry == Permutations(Tasks)
=============================================================================
