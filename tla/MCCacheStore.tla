----------------------------- MODULE MCCacheStore -----------------------------
EXTENDS CacheStore, TLC

CONSTANTS r1, r2, r3

\* Two callers in one process, one in another.
MCReader == {r1, r2, r3}
MCProcessOf == [r \in MCReader |-> IF r = r3 THEN 2 ELSE 1]

\* The callers of the first process are alike.
ReaderSymmetry == Permutations({r1, r2})
===============================================================================
