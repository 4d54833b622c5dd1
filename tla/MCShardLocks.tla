----------------------------- MODULE MCShardLocks ------------------------------
EXTENDS ShardLocks, TLC

CONSTANTS t1, t2

TwoThreads == {t1, t2}
ThreadSymmetry == Permutations(TwoThreads)
===============================================================================
