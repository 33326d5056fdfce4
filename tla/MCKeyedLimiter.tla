--------------------------- MODULE MCKeyedLimiter ---------------------------
EXTENDS KeyedLimiter, TLC

CONSTANTS t1, t2, t3, k1, k2

TwoThreads == {t1, t2}

ThreeThreads == {t1, t2, t3}

OneKey == {k1}

TwoKeys == {k1, k2}

FirstShard == [k \in Keys |-> 1]

TwoShards == [k \in Keys |-> IF k = k1 THEN 1 ELSE 2]

Symmetry == Permutations(Threads)
=============================================================================
