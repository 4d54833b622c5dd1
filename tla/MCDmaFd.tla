-------------------------------- MODULE MCDmaFd --------------------------------
(* Instances of DmaFd for TLC. *)
EXTENDS DmaFd, TLC

CONSTANTS t1, t2

TwoThreads == {t1, t2}
TwoFds == {0, 1}
OneHandle == {"h1"}
TwoSizes == {1, 2}
OpenOrBoth == {{"open"}, {"open", "close"}}
ThreadSymmetry == Permutations(TwoThreads)
================================================================================
