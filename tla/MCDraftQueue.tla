---------------------------- MODULE MCDraftQueue ----------------------------
(* Small instances of DraftQueue for TLC.                                  *)
EXTENDS DraftQueue, TLC

CONSTANTS j1, j2, a1, w1, w2

(* A ticket's jobs and the workers are only compared, never chosen by name.*)
TicketSymmetry == Permutations({j1, j2})
WorkerSymmetry == Permutations({w1, w2})
=============================================================================
