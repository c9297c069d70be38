-------------------------- MODULE MCCameraFrames --------------------------
(* A camera whose second picture is broken and whose first raises an alarm. *)
EXTENDS CameraFrames, TLC

CONSTANTS t1, t2, wall, blur

Symmetry == Permutations(Threads)
=============================================================================
