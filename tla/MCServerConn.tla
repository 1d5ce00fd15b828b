---------------------------- MODULE MCServerConn ----------------------------
(* Instances of ServerConn for TLC. *)
EXTENDS ServerConn, TLC

(* Without liveness the tasks are interchangeable. *)
TaskSymmetry == Permutations(Tasks)

=============================================================================
