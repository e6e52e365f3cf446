--------------------------- MODULE MCPostSendSync ---------------------------
(* Small instances of PostSendSync for TLC.                                *)
EXTENDS PostSendSync

CONSTANTS m1, m2, w1, w2
=============================================================================
