---------------------------- MODULE MCStageSync ----------------------------
(* Small instances of StageSync for TLC.                                   *)
EXTENDS StageSync
=============================================================================
