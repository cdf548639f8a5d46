---------------------------- MODULE MCLiveService ----------------------------
(* Small instances of LiveService for TLC.                                 *)
EXTENDS LiveService
=============================================================================
