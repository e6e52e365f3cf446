---------------------------- MODULE MCSendWorker ----------------------------
(* Small instances of SendWorker for TLC.                                  *)
EXTENDS SendWorker, TLC

CONSTANTS m1, m2, w1, w2, b1, b2

(* Texts and workers are only compared, never chosen by name.              *)
WorkerSymmetry == Permutations({w1, w2})
TextSymmetry == Permutations({b1, b2}) \cup WorkerSymmetry
=============================================================================
