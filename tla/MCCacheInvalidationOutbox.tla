---------------------- MODULE MCCacheInvalidationOutbox ----------------------
EXTENDS CacheInvalidationOutbox, TLC

CONSTANTS r1

MCReader == {r1}
MCProcessOf == [r \in MCReader |-> 1]

\* The outbox alone.
NoReader == {}
NoProcess == [r \in NoReader |-> 1]

WorkerSymmetry == Permutations(Worker)
===============================================================================
