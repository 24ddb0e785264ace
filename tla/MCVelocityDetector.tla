-------------------------- MODULE MCVelocityDetector --------------------------
(* VelocityDetector for TLC. *)
EXTENDS VelocityDetector

\* main passes the behavior id where a priority is expected.
BehaviorIds == {"T1059"}
=============================================================================
