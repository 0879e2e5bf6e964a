-------------------------- MODULE MCProgressCalls --------------------------
(* Instances of ProgressCalls for TLC. *)
EXTENDS ProgressCalls

MCBatch == {0, 1, 2}
MCSizes == {1, 3}
=============================================================================
