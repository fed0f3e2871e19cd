------------------------- MODULE MCScanLifecycle -------------------------
(* Instances of ScanLifecycle for TLC: symmetric sets of model values. *)
EXTENDS ScanLifecycle, TLC

Symmetry == Permutations(Scans) \cup Permutations(Readers) \cup Permutations(Targets)
==========================================================================
