---------------------------- MODULE MCAutonomous ----------------------------
(* Small instances of Autonomous for TLC.  The coins are interchangeable,  *)
(* but liveness is checked, so no symmetry is used.                        *)
EXTENDS Autonomous
=============================================================================
