--------------------------- MODULE CacheStoreProofs ---------------------------
(***************************************************************************)
(* The lookups of CacheStore keep their types, load the source once when   *)
(* nothing disturbs them and lose their lock to nobody; with generations   *)
(* they answer with nothing older than what was invalidated before they    *)
(* began, that is, they implement FreshReads.  All of it holds for any     *)
(* number of readers, processes, writes, tokens and disturbances.          *)
(***************************************************************************)
EXTENDS CacheStore, TLAPS

\* The phases and the domains, for the leaves that need them.
LEMMA Domains ==
    /\ Nothing \notin Version /\ 0 \in Version /\ 0 \in Key
    /\ \A v \in Version : v \in Nat
    /\ \A k \in Key : k \in Nat
  BY CacheAssumption DEF Nothing, Version, Key

\* Drawing a token keeps the generation well typed.
LEMMA DrawTypes ==
    ASSUME TypeOK, Draw
    PROVE  /\ token' \in 0..lastToken' /\ lastToken' \in Key
           /\ born' \in [Key -> Version]
<1>1. lastToken + 1 \in Key
  BY CacheAssumption DEF Draw, TypeOK, Key
<1> QED
  BY <1>1, CacheAssumption DEF Draw, TypeOK, Key

\* The type invariant is kept by every step.
LEMMA TypeStep == TypeOK /\ [StoreNext]_storeVars => TypeOK'
<1> SUFFICES ASSUME TypeOK, [StoreNext]_storeVars PROVE TypeOK'
  OBVIOUS
<1> USE Domains
<1>1. ASSUME NEW r \in Reader, Resolve(r) PROVE TypeOK'
  <2>1. /\ at' \in [Reader -> Phase] /\ since' \in [Reader -> Version]
        /\ got' \in [Reader -> Version \cup {Nothing}]
        /\ owns' \in [Reader -> BOOLEAN] /\ late' \in [Reader -> BOOLEAN]
        /\ flight' \in [Reader -> Reader \cup {Nobody}]
    BY <1>1 DEF Resolve, Begin, Go, Get, TypeOK, Phase
  <2>2. /\ token' \in 0..lastToken' /\ lastToken' \in Key /\ born' \in [Key -> Version]
    BY <1>1, DrawTypes DEF Resolve, TypeOK
  <2>3. token' \in Key
    BY <2>2, CacheAssumption DEF Key
  <2>4. key' \in [Reader -> Key]
    BY <1>1, <2>3 DEF Resolve, TypeOK
  <2> QED
    BY <1>1, <2>1, <2>2, <2>4 DEF Resolve, TypeOK, source
<1>2. ASSUME NEW r \in Reader, ResolveFails(r) PROVE TypeOK'
  BY <1>2, CacheAssumption DEF ResolveFails, Begin, Go, Get, Fault, TypeOK, Phase, source, redis
<1>3. ASSUME NEW r \in Reader, Lead(r) \/ Fetch(r) PROVE TypeOK'
  BY <1>3 DEF Lead, Fetch, Go, Get, TypeOK, Phase, Leading, source, redis, lookup
<1>4. ASSUME NEW r \in Reader, Join(r) PROVE TypeOK'
  BY <1>4 DEF Join, Flight, Go, TypeOK, Phase, source, redis, lookup
<1>5. ASSUME NEW r \in Reader, Settle(r) PROVE TypeOK'
  BY <1>5 DEF Settle, TypeOK, Phase, source, redis, lookup
<1>6. ASSUME NEW r \in Reader, Read(r) \/ Poll(r) \/ Confirm(r) \/ Recheck(r) PROVE TypeOK'
  <2>1. key[r] \in Key /\ store[key[r]] \in Version \cup {Nothing}
    BY DEF TypeOK
  <2>2. PICK hit \in Leading, miss \in Leading : ReadStore(r, hit, miss)
    BY <1>6 DEF Read, Poll, Confirm, Recheck, Leading
  <2>3. at' \in [Reader -> Phase] /\ got' \in [Reader -> Version \cup {Nothing}]
    BY <2>1, <2>2 DEF ReadStore, Go, Get, TypeOK, Phase
  <2> QED
    BY <2>2, <2>3 DEF ReadStore, TypeOK, source, redis, lookup
<1>7. ASSUME NEW r \in Reader, ReadFails(r) PROVE TypeOK'
  BY <1>7, CacheAssumption DEF ReadFails, Go, Fault, TypeOK, Phase, Leading, source, redis, lookup
<1>8. ASSUME NEW r \in Reader, Acquire(r) PROVE TypeOK'
  BY <1>8 DEF Acquire, Go, TypeOK, Phase, Leading, source, lookup
<1>9. ASSUME NEW r \in Reader, Contend(r) \/ NoticeRelease(r) \/ WaitTimeout(r) PROVE TypeOK'
  BY <1>9 DEF Contend, NoticeRelease, WaitTimeout, Go, TypeOK, Phase, Leading, source, redis, lookup
<1>10. ASSUME NEW r \in Reader, AcquireFails(r) PROVE TypeOK'
  BY <1>10, CacheAssumption DEF AcquireFails, Go, Fault, TypeOK, Phase, Leading, source, lookup
<1>11. ASSUME NEW r \in Reader, Load(r) PROVE TypeOK'
  <2>1. loads' \in [Key -> 0..2]
    BY <1>11 DEF Load, TypeOK
  <2> QED
    BY <1>11, <2>1 DEF Load, Go, Get, TypeOK, Phase, Leading, source, redis, lookup
<1>12. ASSUME NEW r \in Reader,
              FetchFails(r) \/ LoadFails(r) \/ PopulateFails(r) \/ ReleaseFails(r)
       PROVE  TypeOK'
  <2>1. /\ at' \in [Reader -> Phase] /\ owns' \in [Reader -> BOOLEAN]
        /\ got' \in [Reader -> Version \cup {Nothing}]
    BY <1>12
    DEF FetchFails, LoadFails, PopulateFails, ReleaseFails, Loaded, Go, Get, TypeOK, Phase, Leading
  <2>2. faults' \in 0..MaxFaults /\ UNCHANGED <<source, redis, lookup, flight, loads>>
    BY <1>12, CacheAssumption DEF FetchFails, LoadFails, PopulateFails, ReleaseFails, Fault, TypeOK
  <2> QED
    BY <2>1, <2>2 DEF TypeOK, source, redis, lookup
<1>13. ASSUME NEW r \in Reader, Populate(r) PROVE TypeOK'
  <2>1. store' \in [Key -> Version \cup {Nothing}]
    BY <1>13 DEF Populate, TypeOK
  <2> QED
    BY <1>13, <2>1 DEF Populate, Loaded, Go, TypeOK, Phase, Leading, source, lookup
<1>14. ASSUME NEW r \in Reader, Release(r) PROVE TypeOK'
  <2>1. lock' \in [Key -> Reader \cup {Nobody}]
    BY <1>14 DEF Release, TypeOK
  <2> QED
    BY <1>14, <2>1 DEF Release, Go, TypeOK, Phase, Leading, source, lookup
<1>15. CASE Commit
  BY <1>15, CacheAssumption DEF Commit, TypeOK, Version, redis, lookup
<1>16. CASE Invalidate
  BY <1>16, DrawTypes DEF Invalidate, TypeOK, lookup
<1>17. ASSUME NEW k \in Key, Evict(k) \/ LockExpires(k) PROVE TypeOK'
  BY <1>17, CacheAssumption DEF Evict, LockExpires, Expire, Fault, TypeOK, source, lookup
<1>18. CASE ControlExpires \/ Flush
  BY <1>18, CacheAssumption DEF ControlExpires, Flush, Fault, TypeOK, source, lookup
<1>19. ASSUME NEW r \in Reader, DeadlinePasses(r) PROVE TypeOK'
  BY <1>19, CacheAssumption DEF DeadlinePasses, Fault, TypeOK, source, redis
<1>20. ASSUME NEW p, Crash(p) PROVE TypeOK'
  <2>1. /\ at' \in [Reader -> Phase] /\ owns' \in [Reader -> BOOLEAN]
        /\ got' \in [Reader -> Version \cup {Nothing}]
    BY <1>20 DEF Crash, TypeOK, Phase
  <2>2. faults' \in 0..MaxFaults /\ UNCHANGED <<source, redis, lookup, flight, loads>>
    BY <1>20, CacheAssumption DEF Crash, Fault, TypeOK
  <2> QED
    BY <2>1, <2>2 DEF TypeOK, source, redis, lookup
<1>21. CASE UNCHANGED storeVars
  BY <1>21 DEF storeVars, TypeOK, source, redis, lookup
<1> QED
  BY <1>1, <1>2, <1>3, <1>4, <1>5, <1>6, <1>7, <1>8, <1>9, <1>10, <1>11, <1>12, <1>13, <1>14,
     <1>15, <1>16, <1>17, <1>18, <1>19, <1>20, <1>21
  DEF StoreNext, Lookups, Progress, Failure

\* The variables of the store stay in their types, and a token is never one
\* that was not drawn.
THEOREM StoreTypeCorrect == StoreSpec => []TypeOK
<1>1. StoreInit => TypeOK
  BY Domains, CacheAssumption DEF StoreInit, TypeOK, Phase
<1> QED
  BY <1>1, TypeStep, PTL DEF StoreSpec

-------------------------------------------------------------------------------
(* One load of the source *)

\* What is about to be stored is a value.
LEMMA PopulatingStep ==
    ASSUME TypeOK, FlightInv, [StoreNext]_storeVars
    PROVE  \A r \in Reader : at'[r] = "populating" => got'[r] # Nothing
<1> USE Domains DEF FlightInv, TypeOK, Phase, Leading
<1>1. ASSUME NEW r \in Reader, Resolve(r) \/ ResolveFails(r)
      PROVE  \A q \in Reader : at'[q] = "populating" => got'[q] # Nothing
  BY <1>1 DEF Resolve, ResolveFails, Begin, Go, Get
<1>2. ASSUME NEW r \in Reader, Join(r) \/ Lead(r) \/ Fetch(r) \/ Contend(r)
                               \/ NoticeRelease(r) \/ WaitTimeout(r)
      PROVE  \A q \in Reader : at'[q] = "populating" => got'[q] # Nothing
  BY <1>2 DEF Join, Lead, Fetch, Contend, NoticeRelease, WaitTimeout, Go, Get
<1>3. ASSUME NEW r \in Reader, Settle(r)
      PROVE  \A q \in Reader : at'[q] = "populating" => got'[q] # Nothing
  BY <1>3 DEF Settle
<1>4. ASSUME NEW r \in Reader, Read(r) \/ Poll(r) \/ Confirm(r) \/ Recheck(r)
      PROVE  \A q \in Reader : at'[q] = "populating" => got'[q] # Nothing
  BY <1>4 DEF Read, Poll, Confirm, Recheck, ReadStore, Go, Get
<1>5. ASSUME NEW r \in Reader, Acquire(r) \/ Populate(r) \/ Release(r) \/ ReadFails(r)
                               \/ AcquireFails(r)
      PROVE  \A q \in Reader : at'[q] = "populating" => got'[q] # Nothing
  BY <1>5 DEF Acquire, Populate, Release, ReadFails, AcquireFails, Go, Loaded
<1>6. ASSUME NEW r \in Reader, Load(r)
      PROVE  \A q \in Reader : at'[q] = "populating" => got'[q] # Nothing
  BY <1>6 DEF Load, Go, Get
<1>7. ASSUME NEW r \in Reader,
             FetchFails(r) \/ LoadFails(r) \/ PopulateFails(r) \/ ReleaseFails(r)
      PROVE  \A q \in Reader : at'[q] = "populating" => got'[q] # Nothing
  BY <1>7 DEF FetchFails, LoadFails, PopulateFails, ReleaseFails, Go, Get, Loaded
<1>8. CASE UNCHANGED <<at, got>>
  BY <1>8
<1>9. ASSUME NEW p, Crash(p)
      PROVE  \A q \in Reader : at'[q] = "populating" => got'[q] # Nothing
  BY <1>9 DEF Crash
<1>10. CASE UNCHANGED storeVars \/ Commit \/ Invalidate \/ ControlExpires \/ Flush
  BY <1>8, <1>10 DEF storeVars, Commit, Invalidate, ControlExpires, Flush
<1>11. ASSUME NEW k \in Key, Evict(k) \/ LockExpires(k) PROVE UNCHANGED <<at, got>>
  BY <1>11 DEF Evict, LockExpires
<1>12. ASSUME NEW r \in Reader, DeadlinePasses(r) PROVE UNCHANGED <<at, got>>
  BY <1>12 DEF DeadlinePasses
<1> QED
  BY <1>1, <1>2, <1>3, <1>4, <1>5, <1>6, <1>7, <1>8, <1>9, <1>10, <1>11, <1>12
  DEF StoreNext, Lookups, Progress, Failure

\* The steps that disturb nothing.
Undisturbed ==
    \/ \E r \in Reader : Resolve(r) \/ Progress(r)
    \/ \E k \in Key : ~Owned(k) /\ LockExpires(k)
    \/ Commit \/ Invalidate \/ UNCHANGED storeVars

\* Every other step is counted.
LEMMA DisturbancesCount ==
    ASSUME TypeOK, [StoreNext]_storeVars, faults' = 0
    PROVE  faults = 0 /\ Undisturbed
<1> USE DEF TypeOK
<1>1. ~Fault
  BY DEF Fault
<1>2. ~\E r \in Reader : Failure(r) \/ Crash(ProcessOf[r])
  <2>1. ASSUME NEW r \in Reader, ResolveFails(r) PROVE FALSE
    <3>1. faults' = faults /\ faults > 0
      BY <1>1, <2>1 DEF ResolveFails, Outage
    <3> QED
      BY <3>1
  <2>2. ASSUME NEW r \in Reader, (Failure(r) /\ ~ResolveFails(r)) \/ Crash(ProcessOf[r]) PROVE FALSE
    BY <1>1, <2>2
    DEF Failure, Crash, FetchFails, ReadFails, AcquireFails, LoadFails, PopulateFails,
        ReleaseFails, DeadlinePasses
  <2> QED
    BY <2>1, <2>2
<1>3. ~ControlExpires /\ ~Flush /\ \A k \in Key : ~Evict(k)
  BY <1>1 DEF ControlExpires, Flush, Evict
<1>4. ASSUME NEW k \in Key, LockExpires(k) PROVE ~Owned(k)
  BY <1>1, <1>4 DEF LockExpires
<1>5. Undisturbed
  BY <1>2, <1>3, <1>4 DEF StoreNext, Lookups, Undisturbed
<1>6. faults' = faults
  <2>1. ASSUME NEW r \in Reader, Resolve(r) \/ Progress(r) PROVE faults' = faults
    BY <2>1
    DEF Resolve, Progress, Join, Lead, Fetch, Settle, Read, Poll, Confirm, Recheck,
        ReadStore, Acquire, Contend, NoticeRelease, WaitTimeout, Load, Populate, Release
  <2>2. ASSUME NEW k \in Key, ~Owned(k), LockExpires(k) PROVE faults' = faults
    BY <2>2 DEF LockExpires
  <2>3. CASE Commit \/ Invalidate \/ UNCHANGED storeVars
    BY <2>3 DEF Commit, Invalidate, storeVars
  <2> QED
    BY <1>5, <2>1, <2>2, <2>3 DEF Undisturbed
<1> QED
  BY <1>5, <1>6

\* Undisturbed, the lock keeps all but one reader of a key from loading it.
LEMMA SerialisedStep ==
    ASSUME TypeOK, FlightInv, [StoreNext]_storeVars, faults' = 0
    PROVE  Serialised'
<1>1. faults = 0 /\ Undisturbed
  BY DisturbancesCount
<1>2. Serialised
  BY <1>1 DEF FlightInv
<1>3. \A r \in Reader : at[r] = "populating" => got[r] # Nothing
  BY DEF FlightInv
<1>4. \A q, r \in Reader :
         at[q] \in Holding /\ at[r] \in Holding /\ key[q] = key[r] => q = r
  BY <1>2 DEF Serialised
<1> USE DEF Serialised, Holding, TypeOK
<1>5. ASSUME NEW r \in Reader, Resolve(r) PROVE Serialised'
  BY <1>2, <1>5 DEF Resolve, Begin, Go
<1>6. ASSUME NEW r \in Reader, Join(r) \/ Lead(r) \/ Fetch(r)
                               \/ NoticeRelease(r) \/ Contend(r)
      PROVE  Serialised'
  <2>1. UNCHANGED <<lock, store, key, late, loads, owns>>
    BY <1>6 DEF Join, Lead, Fetch, NoticeRelease, Contend, redis, lookup
  <2>2. PICK p \in {"joined", "reading", "fetching", "settling", "confirming", "waiting"} :
           Go(r, p) /\ at[r] # "populating"
    BY <1>2, <1>6 DEF Join, Lead, Fetch, NoticeRelease, Contend
  <2> QED
    BY <1>2, <2>1, <2>2 DEF Go
<1>7. ASSUME NEW r \in Reader, WaitTimeout(r) PROVE Serialised'
  BY <1>2, <1>7 DEF WaitTimeout
<1>8. ASSUME NEW r \in Reader, Settle(r) PROVE Serialised'
  <2>1. UNCHANGED <<lock, store, key, late, loads, owns>>
    BY <1>8 DEF Settle, redis, lookup
  <2>2. \A q \in Reader : at'[q] = at[q] \/ (at'[q] = "idle" /\ at[q] # "populating")
    BY <1>8 DEF Settle
  <2> QED
    BY <1>2, <2>1, <2>2
<1>9. ASSUME NEW r \in Reader, Read(r) \/ Poll(r) \/ Confirm(r) PROVE Serialised'
  <2>1. UNCHANGED <<lock, store, key, late, loads, owns>>
    BY <1>9 DEF Read, Poll, Confirm, ReadStore, redis, lookup
  <2>2. PICK p \in {"settling", "locking", "waiting"} : Go(r, p) /\ at[r] # "populating"
    BY <1>9 DEF Read, Poll, Confirm, ReadStore
  <2> QED
    BY <1>2, <2>1, <2>2 DEF Go
<1>10. ASSUME NEW r \in Reader, Recheck(r) PROVE Serialised'
  <2>1. UNCHANGED <<lock, store, key, late, loads, owns>> /\ at[r] = "rechecking"
    BY <1>10 DEF Recheck, ReadStore, redis, lookup
  <2>2. \/ Go(r, "releasing")
        \/ Go(r, "loading") /\ store[key[r]] = Nothing
    BY <1>10 DEF Recheck, ReadStore
  <2>3. store[key[r]] = Nothing => loads[key[r]] = 0
    BY <1>2, <1>4, <2>1
  <2> QED
    BY <1>2, <2>1, <2>2, <2>3 DEF Go
<1>11. ASSUME NEW r \in Reader, Acquire(r) PROVE Serialised'
  <2>1. UNCHANGED <<store, key, late, loads>>
    BY <1>11 DEF Acquire, lookup
  <2>2. \A q \in Reader : at[q] \in Holding => key[q] # key[r]
    BY <1>2, <1>11, CacheAssumption DEF Acquire
  <2> QED
    BY <1>2, <1>11, <2>1, <2>2 DEF Acquire, Go
<1>12. ASSUME NEW r \in Reader, Load(r) PROVE Serialised'
  <2>1. UNCHANGED <<lock, store, key, late, owns>> /\ at[r] = "loading"
    BY <1>12 DEF Load, redis, lookup
  <2>2. /\ loads'[key[r]] = 1
        /\ \A k \in Key : k # key[r] => loads'[k] = loads[k]
    BY <1>2, <1>12 DEF Load
  <2>3. /\ at'[r] = "populating"
        /\ \A q \in Reader : q # r => at'[q] = at[q]
    BY <1>12 DEF Load, Go
  <2>4. \A q \in Reader : at'[q] = "loading" => loads'[key[q]] = 0
    BY <1>2, <1>4, <2>1, <2>2, <2>3
  <2>5. \A q \in Reader : at'[q] \in Holding => owns[q] /\ lock[key[q]] = q
    BY <1>2, <2>1, <2>3
  <2>6. \A k \in Key : /\ loads'[k] <= 1
                       /\ \/ loads'[k] = 0 \/ store[k] # Nothing
                          \/ \E q \in Reader : at'[q] = "populating" /\ key[q] = k
    BY <1>2, <2>1, <2>2, <2>3
  <2> QED
    BY <1>2, <2>1, <2>4, <2>5, <2>6
<1>13. ASSUME NEW r \in Reader, Populate(r) PROVE Serialised'
  <2>1. UNCHANGED <<lock, key, late, owns, loads>> /\ at[r] = "populating"
    BY <1>13 DEF Populate, lookup
  <2>2. /\ store'[key[r]] # Nothing
        /\ \A k \in Key : k # key[r] => store'[k] = store[k]
    BY <1>3, <1>13 DEF Populate
  <2>3. /\ at'[r] = "releasing"
        /\ \A q \in Reader : q # r => at'[q] = at[q]
    BY <1>2, <1>13 DEF Populate, Go, Loaded
  <2>4. \A k \in Key : \/ loads[k] = 0 \/ store'[k] # Nothing
                       \/ \E q \in Reader : at'[q] = "populating" /\ key[q] = k
    BY <1>2, <2>2, <2>3
  <2> QED
    BY <1>2, <2>1, <2>3, <2>4
<1>14. ASSUME NEW r \in Reader, Release(r) PROVE Serialised'
  <2>1. UNCHANGED <<store, key, late, loads>> /\ at[r] = "releasing"
    BY <1>14 DEF Release, lookup
  <2>2. \A q \in Reader : q # r /\ at[q] \in Holding => key[q] # key[r]
    BY <1>4, <2>1
  <2> QED
    BY <1>2, <1>14, <2>1, <2>2 DEF Release, Go
<1>15. ASSUME NEW k \in Key, ~Owned(k), LockExpires(k) PROVE Serialised'
  <2>1. UNCHANGED <<store, key, late, loads, at, owns>>
    BY <1>15 DEF LockExpires, lookup
  <2>2. \A q \in Reader : at[q] \in Holding => key[q] # k
    BY <1>2, <1>15 DEF Owned
  <2>3. \A j \in Key : j # k => lock'[j] = lock[j]
    BY <1>15 DEF LockExpires, Expire
  <2> QED
    BY <1>2, <2>1, <2>2, <2>3
<1>16. CASE Commit \/ UNCHANGED storeVars
  BY <1>2, <1>16 DEF Commit, storeVars, redis, lookup
<1>17. CASE Invalidate
  <2>1. UNCHANGED <<lock, key, late, owns, at>>
    BY <1>17 DEF Invalidate, lookup
  <2>2. \A k \in Key : \/ loads'[k] = 0
                       \/ loads'[k] = loads[k] /\ store'[k] = store[k]
    BY <1>17, Domains DEF Invalidate
  <2> QED
    BY <1>2, <2>1, <2>2
<1> QED
  BY <1>1, <1>5, <1>6, <1>7, <1>8, <1>9, <1>10, <1>11, <1>12, <1>13, <1>14, <1>15, <1>16, <1>17
  DEF Undisturbed, Progress

\* Every step keeps the lock serialising the readers of a key.
LEMMA FlightStep == TypeOK /\ FlightInv /\ [StoreNext]_storeVars => FlightInv'
  BY PopulatingStep, SerialisedStep DEF FlightInv

\* However many callers of however many processes miss a physical key, the
\* source is loaded once for it unless a disturbance is counted.
THEOREM OneLoad == StoreSpec => []LoadedOnce
<1>1. StoreInit => FlightInv
  BY Domains DEF StoreInit, FlightInv, Serialised, Holding
<1>2. FlightInv => LoadedOnce
  BY DEF FlightInv, Serialised, LoadedOnce
<1> QED
  BY <1>1, <1>2, FlightStep, StoreTypeCorrect, PTL DEF StoreSpec

-------------------------------------------------------------------------------
(* The lock *)

\* Whoever holds a lock, only its own release takes it away without a
\* disturbance that is counted: no late release, no abandoned one.
THEOREM LockIsFenced == StoreSpec => ReleaseIsFenced
<1>1. TypeOK /\ [StoreNext]_storeVars => [Fenced]_storeVars
  <2> SUFFICES ASSUME TypeOK, [StoreNext]_storeVars,
                      NEW k \in Key, NEW q \in Reader,
                      lock[k] = q, owns[q], key[q] = k, lock'[k] # q, faults' = faults
               PROVE  at[q] = "releasing" /\ at'[q] = "settling"
    BY DEF Fenced
  <2> USE DEF TypeOK
  <2>1. faults \in Nat /\ ~Fault
    BY DEF Fault
  <2>2. q # Nobody /\ Owned(k)
    BY CacheAssumption DEF Owned
  <2>3. ASSUME NEW r \in Reader, Release(r) PROVE at[q] = "releasing" /\ at'[q] = "settling"
    BY <2>3 DEF Release, Go
  <2>4. ASSUME NEW r \in Reader, Acquire(r) PROVE FALSE
    BY <2>2, <2>4 DEF Acquire
  <2>5. ~LockExpires(k)
    BY <2>1, <2>2 DEF LockExpires
  <2>6. ASSUME NEW j \in Key, j # k, LockExpires(j) PROVE FALSE
    BY <2>6 DEF LockExpires, Expire
  <2>9. lock' # lock
    OBVIOUS
  <2>7. ASSUME NEW r \in Reader, Failure(r) \/ Crash(ProcessOf[r]) PROVE FALSE
    BY <2>1, <2>9, <2>7
    DEF Failure, Crash, ResolveFails, FetchFails, ReadFails, AcquireFails, LoadFails, PopulateFails,
        ReleaseFails, DeadlinePasses, redis
  <2>8. ~ControlExpires /\ ~Flush /\ \A j \in Key : ~Evict(j)
    BY <2>1 DEF ControlExpires, Flush, Evict
  <2>10. ~Commit /\ ~Invalidate /\ ~UNCHANGED storeVars
    BY <2>9 DEF Commit, Invalidate, storeVars, redis
  <2>11. ASSUME NEW r \in Reader, Resolve(r) PROVE FALSE
    BY <2>9, <2>11 DEF Resolve
  <2>12. ASSUME NEW r \in Reader, Progress(r), ~Release(r), ~Acquire(r) PROVE FALSE
    BY <2>9, <2>12
    DEF Progress, Join, Lead, Fetch, Settle, Read, Poll, Confirm, Recheck, ReadStore,
        Contend, NoticeRelease, WaitTimeout, Load, Populate, redis
  <2> QED
    BY <2>3, <2>4, <2>5, <2>6, <2>7, <2>8, <2>10, <2>11, <2>12 DEF StoreNext, Lookups
<1> QED
  BY <1>1, StoreTypeCorrect, PTL DEF StoreSpec, ReleaseIsFenced

-------------------------------------------------------------------------------
(* Freshness *)

\* What a leader with a physical key does between its first read and the end of
\* its flight.
Move(r) ==
    /\ at[r] \in Leading \ {"fetching", "settling"} /\ at'[r] \in Leading
    /\ \A q \in Reader : q # r => at'[q] = at[q] /\ got'[q] = got[q]
    /\ got'[r] \in {got[r], Nothing, store[key[r]], db}
    /\ \/ UNCHANGED store
       \/ store' = [store EXCEPT ![key[r]] = got[r]] /\ got[r] # Nothing
    /\ UNCHANGED <<db, invalidated, token, lastToken, born, key, since, flight>>

\* One without a key loads the source, or fails to.
Bypass(r) ==
    /\ at[r] = "fetching" /\ at'[r] = "settling"
    /\ \A q \in Reader : q # r => at'[q] = at[q] /\ got'[q] = got[q]
    /\ got'[r] \in {Nothing, db}
    /\ UNCHANGED <<source, redis, key, since, flight>>

\* All steps of a leader before its flight settles are of these two kinds.
LEMMA Moves ==
    ASSUME TypeOK, FlightInv, NEW r \in Reader,
           \/ Read(r) \/ Poll(r) \/ Confirm(r) \/ Recheck(r) \/ ReadFails(r)
           \/ Acquire(r) \/ Contend(r) \/ AcquireFails(r) \/ NoticeRelease(r) \/ WaitTimeout(r)
           \/ Load(r) \/ LoadFails(r) \/ Populate(r) \/ PopulateFails(r)
           \/ Release(r) \/ ReleaseFails(r) \/ Fetch(r) \/ FetchFails(r)
    PROVE  Move(r) \/ Bypass(r)
<1> USE DEF TypeOK, Leading, Move, Go, Get, source, redis, lookup
<1>1. CASE Read(r) \/ Poll(r) \/ Confirm(r) \/ Recheck(r)
  BY <1>1 DEF Read, Poll, Confirm, Recheck, ReadStore
<1>2. CASE Acquire(r) \/ Contend(r) \/ NoticeRelease(r) \/ WaitTimeout(r) \/ Release(r)
  BY <1>2 DEF Acquire, Contend, NoticeRelease, WaitTimeout, Release
<1>3. CASE ReadFails(r) \/ AcquireFails(r) \/ ReleaseFails(r) \/ PopulateFails(r)
  BY <1>3 DEF ReadFails, AcquireFails, ReleaseFails, PopulateFails, Loaded
<1>4. CASE Load(r) \/ LoadFails(r)
  BY <1>4 DEF Load, LoadFails, Loaded
<1>5. CASE Populate(r)
  BY <1>5 DEF Populate, Loaded, FlightInv
<1>6. CASE Fetch(r) \/ FetchFails(r)
  BY <1>6 DEF Fetch, FetchFails, Bypass
<1> QED
  BY <1>1, <1>2, <1>3, <1>4, <1>5, <1>6

\* A flight is only joined with the key of its leader, who stays with it.
LEMMA JoinStep == TypeOK /\ FlightInv /\ JoinInv /\ [StoreNext]_storeVars => JoinInv'
<1> SUFFICES ASSUME TypeOK, FlightInv, JoinInv, [StoreNext]_storeVars PROVE JoinInv'
  OBVIOUS
<1> USE DEF JoinInv, TypeOK
<1>1. ASSUME NEW r \in Reader, Resolve(r) \/ ResolveFails(r) PROVE JoinInv'
  <2>1. /\ at[r] = "idle" /\ at'[r] = "entering"
        /\ \A q \in Reader : q # r => at'[q] = at[q] /\ key'[q] = key[q] /\ flight'[q] = flight[q]
    BY <1>1 DEF Resolve, ResolveFails, Begin, Go
  <2> QED
    BY <2>1 DEF Leading
<1>2. ASSUME NEW r \in Reader, Lead(r) PROVE JoinInv'
  <2>1. /\ at[r] = "entering" /\ at'[r] \in {"fetching", "reading"}
        /\ \A q \in Reader : q # r => at'[q] = at[q]
        /\ UNCHANGED <<key, flight>>
    BY <1>2 DEF Lead, Go, lookup
  <2> QED
    BY <2>1 DEF Leading
<1>3. ASSUME NEW r \in Reader, Join(r) PROVE JoinInv'
  <2>1. PICK l \in Flight(r) : flight' = [flight EXCEPT ![r] = l]
    BY <1>3 DEF Join
  <2>2. /\ at[r] = "entering" /\ at'[r] = "joined"
        /\ \A q \in Reader : q # r => at'[q] = at[q]
        /\ UNCHANGED key
    BY <1>3 DEF Join, Go, lookup
  <2>3. l \in Reader /\ ProcessOf[l] = ProcessOf[r] /\ key[l] = key[r] /\ at[l] \in Leading
    BY DEF Flight
  <2>4. l # r /\ flight'[r] = l /\ \A q \in Reader : q # r => flight'[q] = flight[q]
    BY <2>1, <2>2, <2>3 DEF Leading
  <2> QED
    BY <2>2, <2>3, <2>4 DEF Leading
<1>4. ASSUME NEW l \in Reader, Settle(l) PROVE JoinInv'
  <2>1. UNCHANGED <<key, flight>>
    BY <1>4 DEF Settle, lookup
  <2>2. \A q \in Reader : \/ at'[q] = at[q] /\ q # l /\ ~(at[q] = "joined" /\ flight[q] = l)
                          \/ at'[q] = "idle" /\ (q = l \/ at[q] = "joined")
    BY <1>4 DEF Settle
  <2> QED
    BY <2>1, <2>2 DEF Leading
<1>5. ASSUME NEW r \in Reader, Move(r) \/ Bypass(r) PROVE JoinInv'
  BY <1>5 DEF Move, Bypass, Leading
<1>6. ASSUME UNCHANGED <<at, key, flight>> PROVE JoinInv'
  BY <1>6
<1>7. ASSUME NEW p, Crash(p) PROVE JoinInv'
  <2>1. UNCHANGED <<key, flight>>
    BY <1>7 DEF Crash, lookup
  <2>2. \A q \in Reader : IF ProcessOf[q] = p THEN at'[q] = "idle" ELSE at'[q] = at[q]
    BY <1>7 DEF Crash
  <2> QED
    BY <2>1, <2>2
<1>8. CASE Commit \/ Invalidate \/ ControlExpires \/ Flush \/ UNCHANGED storeVars
  BY <1>6, <1>8 DEF Commit, Invalidate, ControlExpires, Flush, storeVars, lookup
<1>9. ASSUME NEW k \in Key, Evict(k) \/ LockExpires(k) PROVE JoinInv'
  BY <1>6, <1>9 DEF Evict, LockExpires, lookup
<1>10. ASSUME NEW r \in Reader, DeadlinePasses(r) PROVE JoinInv'
  BY <1>6, <1>10 DEF DeadlinePasses
<1> QED
  BY <1>1, <1>2, <1>3, <1>4, <1>5, <1>7, <1>8, <1>9, <1>10, Moves
  DEF StoreNext, Lookups, Progress, Failure

\* The frame of steps that change neither the generation nor what is stored.
LEMMA SameGeneration ==
    ASSUME TokenInv, UNCHANGED <<source, token, lastToken, store, born>>
    PROVE  TokenInv'
  BY DEF TokenInv, source

\* A drawn token is as young as the source, and nothing is stored under it yet.
LEMMA DrawnToken ==
    ASSUME TypeOK, TokenInv, Draw
    PROVE  /\ token' = lastToken' /\ lastToken' = lastToken + 1 /\ born'[token'] = db
           /\ token' \in Key /\ store[token'] = Nothing
           /\ \A k \in Key : k # token' => born'[k] = born[k]
           /\ \A k \in 0..lastToken : k \in Key /\ born'[k] = born[k]
<1>1. lastToken + 1 \in Key /\ lastToken \in Nat
  BY CacheAssumption DEF Draw, TypeOK, Key
<1>2. \A k \in 0..lastToken : k \in Key /\ k # lastToken + 1
  BY <1>1, CacheAssumption DEF Draw, Key
<1> QED
  BY <1>1, <1>2 DEF Draw, TypeOK, TokenInv

\* Drawing a token keeps what is known of the generations.
LEMMA DrawStep ==
    ASSUME TypeOK, TokenInv, Draw, UNCHANGED store,
           db' = db, invalidated' \in {invalidated, db}
    PROVE  TokenInv'
<1> USE DrawnToken, Domains DEF TypeOK
<1>1. invalidated' <= db' /\ invalidated' <= born'[token']
  BY DEF TokenInv
<1>2. \A k \in Key : k > lastToken' => store'[k] = Nothing
  BY DEF TokenInv
<1>3. \A k \in Key : born'[k] <= db'
  BY DEF TokenInv
<1>4. \A k \in Key : store'[k] # Nothing => born'[k] <= store'[k] /\ store'[k] <= db'
  BY DEF TokenInv
<1> QED
  BY <1>1, <1>2, <1>3, <1>4 DEF TokenInv

\* A new lookup gets a token no older than the last invalidation.
LEMMA ResolveStep ==
    ASSUME TypeOK, ~Exact, TokenInv, ReaderInv, NEW r \in Reader, Resolve(r)
    PROVE  TokenInv' /\ ReaderInv'
<1> USE Domains DEF TypeOK
<1>1. UNCHANGED <<db, invalidated, store>>
  BY DEF Resolve, source
<1>2. TokenInv'
  <2>1. CASE token = 0 /\ Draw
    BY <1>1, <2>1, DrawStep
  <2>2. CASE UNCHANGED <<token, lastToken, born>>
    BY <1>1, <2>2, SameGeneration DEF source
  <2> QED
    BY <2>1, <2>2 DEF Resolve
<1>3. /\ token' \in 1..lastToken' /\ invalidated <= born'[token']
      /\ \A k \in 1..lastToken : k \in 1..lastToken' /\ k \in Key /\ born'[k] = born[k]
  <2>1. CASE token = 0 /\ Draw
    BY <2>1, DrawnToken DEF TokenInv
  <2>2. CASE token # 0 /\ UNCHANGED <<token, lastToken, born>>
    BY <2>2, CacheAssumption DEF TokenInv, Key
  <2> QED
    BY <2>1, <2>2 DEF Resolve
<1>4. /\ at[r] = "idle" /\ at'[r] = "entering" /\ key'[r] = token'
      /\ since'[r] = invalidated /\ got'[r] = Nothing
      /\ \A q \in Reader : q # r => /\ at'[q] = at[q] /\ key'[q] = key[q]
                                   /\ since'[q] = since[q] /\ got'[q] = got[q]
  BY DEF Resolve, Begin, Go, Get
<1>5. ReaderInv'
  BY <1>1, <1>3, <1>4 DEF ReaderInv, Keyed, Leading, Keyless
<1> QED
  BY <1>2, <1>5

\* The moves of a leader store and read nothing older than its token.
LEMMA MoveStep ==
    ASSUME TypeOK, ~Exact, TokenInv, ReaderInv, NEW r \in Reader, Move(r)
    PROVE  TokenInv' /\ ReaderInv'
<1> USE Domains DEF TypeOK
<1>0. at[r] \in Keyed /\ at'[r] \in Keyed /\ ~Keyless(r)
  BY DEF Move, ReaderInv, Keyed, Leading
<1>1. /\ key[r] \in Key /\ key[r] \in 1..lastToken
      /\ got[r] # Nothing => born[key[r]] <= got[r] /\ got[r] <= db
  BY <1>0 DEF ReaderInv
<1>2. TokenInv'
  <2>1. CASE UNCHANGED store
    BY <2>1, SameGeneration DEF Move, source
  <2>2. CASE store' = [store EXCEPT ![key[r]] = got[r]] /\ got[r] # Nothing
    BY <1>1, <2>2 DEF Move, TokenInv
  <2> QED
    BY <2>1, <2>2 DEF Move
<1>3. got'[r] # Nothing => born[key[r]] <= got'[r] /\ got'[r] <= db
  BY <1>1 DEF Move, TokenInv
<1>4. /\ \A q \in Reader : q # r => at'[q] = at[q] /\ got'[q] = got[q]
      /\ UNCHANGED <<db, invalidated, lastToken, born, key, since>>
  BY DEF Move
<1>5. ReaderInv'
  BY <1>0, <1>1, <1>3, <1>4 DEF ReaderInv, Keyless
<1> QED
  BY <1>2, <1>5

\* What a leader without a key loads is as new as its own lookup asks for.
LEMMA BypassStep ==
    ASSUME TypeOK, TokenInv, ReaderInv, NEW r \in Reader, Bypass(r)
    PROVE  TokenInv' /\ ReaderInv'
<1> USE Domains DEF TypeOK
<1>1. TokenInv'
  BY SameGeneration DEF Bypass, redis
<1>2. at[r] \in Keyed /\ at'[r] = "settling"
  BY DEF Bypass, Keyed, Leading
<1>3. since[r] <= db /\ born[key[r]] <= db
  BY DEF ReaderInv, TokenInv
<1>4. got'[r] # Nothing => got'[r] = db
  BY DEF Bypass
<1>5. /\ \A q \in Reader : q # r => at'[q] = at[q] /\ got'[q] = got[q]
      /\ UNCHANGED <<db, invalidated, lastToken, born, key, since>>
  BY DEF Bypass, source, redis
<1>6. ReaderInv'
  BY <1>2, <1>3, <1>4, <1>5 DEF ReaderInv, Keyless
<1> QED
  BY <1>1, <1>6

\* Steps after which a reader is where and has what it had, or looks nothing up.
LEMMA IdleStep ==
    ASSUME TokenInv, ReaderInv, UNCHANGED <<source, redis, key, since>>,
           \A q \in Reader : at'[q] = "idle" \/ (at'[q] = at[q] /\ got'[q] = got[q])
    PROVE  TokenInv' /\ ReaderInv'
<1>1. TokenInv'
  BY SameGeneration DEF redis
<1>2. ReaderInv'
  BY DEF ReaderInv, Keyed, Leading, Keyless, source, redis
<1> QED
  BY <1>1, <1>2

\* With generations, every step keeps what is known of tokens and readers.
LEMMA GenerationStep ==
    TypeOK /\ FlightInv /\ GenerationInv /\ [StoreNext]_storeVars => GenerationInv'
<1> SUFFICES ASSUME TypeOK, FlightInv, TokenInv, ReaderInv, ~Exact, [StoreNext]_storeVars
             PROVE  TokenInv' /\ ReaderInv'
  BY DEF GenerationInv
<1> USE Domains DEF TypeOK
<1>1. ASSUME NEW r \in Reader, Resolve(r) PROVE TokenInv' /\ ReaderInv'
  BY <1>1, ResolveStep
<1>2. ASSUME NEW r \in Reader, Settle(r) PROVE TokenInv' /\ ReaderInv'
  BY <1>2, IdleStep DEF Settle, lookup
<1>3. ASSUME NEW r \in Reader, Move(r) \/ Bypass(r) PROVE TokenInv' /\ ReaderInv'
  BY <1>3, MoveStep, BypassStep
<1>4. ASSUME NEW r \in Reader, ResolveFails(r) PROVE TokenInv' /\ ReaderInv'
  <2>1. TokenInv'
    BY <1>4, SameGeneration DEF ResolveFails, redis
  <2>2. /\ at'[r] = "entering" /\ key'[r] = 0 /\ since'[r] = invalidated /\ got'[r] = Nothing
        /\ \A q \in Reader : q # r => /\ at'[q] = at[q] /\ key'[q] = key[q]
                                     /\ since'[q] = since[q] /\ got'[q] = got[q]
        /\ UNCHANGED <<db, invalidated, lastToken, born>>
    BY <1>4 DEF ResolveFails, Begin, Go, Get, source, redis
  <2>3. ReaderInv'
    BY <2>2 DEF ReaderInv, Keyed, Leading, Keyless
  <2> QED
    BY <2>1, <2>3
<1>5. ASSUME NEW r \in Reader, Join(r) \/ Lead(r) PROVE TokenInv' /\ ReaderInv'
  <2>1. UNCHANGED <<source, redis, key, since, got>>
    BY <1>5 DEF Join, Lead, lookup
  <2>2. TokenInv'
    BY <2>1, SameGeneration DEF redis
  <2>3. /\ at[r] = "entering"
        /\ at'[r] = "joined" \/ at'[r] = IF Keyless(r) THEN "fetching" ELSE "reading"
        /\ \A q \in Reader : q # r => at'[q] = at[q]
    BY <1>5 DEF Join, Lead, Go
  <2>4. ReaderInv'
    BY <2>1, <2>3 DEF ReaderInv, Keyed, Leading, Keyless, source, redis
  <2> QED
    BY <2>2, <2>4
<1>6. ASSUME NEW p, Crash(p) PROVE TokenInv' /\ ReaderInv'
  BY <1>6, IdleStep DEF Crash, lookup
<1>7. CASE Commit
  <2>1. db' = db + 1 /\ UNCHANGED <<invalidated, redis, lookup, at, got>>
    BY <1>7 DEF Commit
  <2> QED
    BY <2>1 DEF TokenInv, ReaderInv, Keyless, redis, lookup
<1>8. CASE Invalidate
  <2>1. Draw /\ invalidated' = db /\ UNCHANGED <<db, store, lookup, at, got>>
    BY <1>8 DEF Invalidate
  <2>2. TokenInv'
    BY <2>1, DrawStep
  <2>3. \A k \in 1..lastToken : k \in 1..lastToken' /\ born'[k] = born[k]
    BY <2>1, DrawnToken
  <2>4. invalidated <= db
    BY DEF TokenInv
  <2>5. ReaderInv'
    BY <2>1, <2>3, <2>4 DEF ReaderInv, Keyless, lookup
  <2> QED
    BY <2>2, <2>5
<1>9. ASSUME UNCHANGED <<source, lastToken, born, key, since, at, got>>,
             token' \in {token, 0}, \A k \in Key : store'[k] \in {store[k], Nothing}
      PROVE  TokenInv' /\ ReaderInv'
  BY <1>9 DEF TokenInv, ReaderInv, Keyless, source
<1>10. CASE ControlExpires \/ Flush \/ UNCHANGED storeVars
  BY <1>9, <1>10 DEF ControlExpires, Flush, storeVars, redis, lookup
<1>11. ASSUME NEW k \in Key, Evict(k) \/ LockExpires(k) PROVE TokenInv' /\ ReaderInv'
  BY <1>9, <1>11 DEF Evict, LockExpires, lookup
<1>12. ASSUME NEW r \in Reader, DeadlinePasses(r) PROVE TokenInv' /\ ReaderInv'
  BY <1>9, <1>12 DEF DeadlinePasses, redis
<1> QED
  BY <1>1, <1>2, <1>3, <1>4, <1>5, <1>6, <1>7, <1>8, <1>10, <1>11, <1>12, Moves
  DEF StoreNext, Lookups, Progress, Failure

\* What the inductive argument carries.
LEMMA StoreInvariant == StoreSpec => [](TypeOK /\ FlightInv /\ JoinInv /\ GenerationInv)
<1>1. StoreInit => FlightInv /\ JoinInv
  BY Domains DEF StoreInit, FlightInv, Serialised, Holding, JoinInv
<1>2. StoreInit => GenerationInv
  BY Domains DEF StoreInit, GenerationInv, TokenInv, ReaderInv, Keyed, Leading
<1> QED
  BY <1>1, <1>2, FlightStep, JoinStep, GenerationStep, StoreTypeCorrect, PTL DEF StoreSpec

\* A caller that joined a flight always has a leader to wait for: a lookup of its
\* own process and its own key, physical or not, that is still under way, also
\* after crashes, so nobody is handed the value of another key or forgotten.
THEOREM FlightsAreLed == StoreSpec => []JoinInv
  BY StoreInvariant, PTL

\* Only a flight that settles answers: every other step leaves a lookup open or,
\* when the process crashes, without an answer.
LEMMA SettledOnly ==
    ASSUME TypeOK, FlightInv, [StoreNext]_storeVars, NEW q \in Reader, Answered(q)
    PROVE  \E l \in Reader : Settle(l)
<1> USE DEF TypeOK, Answered
<1>1. ASSUME NEW r \in Reader, Resolve(r) \/ ResolveFails(r) \/ Join(r) \/ Lead(r) PROVE FALSE
  BY <1>1 DEF Resolve, ResolveFails, Begin, Join, Lead, Go
<1>2. ASSUME NEW r \in Reader, Move(r) \/ Bypass(r) PROVE FALSE
  BY <1>2 DEF Move, Bypass, Leading
<1>3. ASSUME NEW p, Crash(p) PROVE FALSE
  BY <1>3 DEF Crash
<1>4. ASSUME UNCHANGED at PROVE FALSE
  BY <1>4
<1>5. ~ControlExpires /\ ~Flush /\ ~Commit /\ ~Invalidate /\ ~UNCHANGED storeVars
  BY <1>4 DEF ControlExpires, Flush, Commit, Invalidate, storeVars
<1>6. ASSUME NEW k \in Key, Evict(k) \/ LockExpires(k) PROVE FALSE
  BY <1>4, <1>6 DEF Evict, LockExpires
<1>7. ASSUME NEW r \in Reader, DeadlinePasses(r) PROVE FALSE
  BY <1>4, <1>7 DEF DeadlinePasses
<1> QED
  BY <1>1, <1>2, <1>3, <1>5, <1>6, <1>7, Moves DEF StoreNext, Lookups, Progress, Failure

\* Who shares a flight with a physical key shares the token in it, so the value of
\* the flight is as young as the token of all of them; without a key it is as new
\* as the lookup of the leader asks for.
LEMMA SettledValue ==
    ASSUME TypeOK, JoinInv, ~Exact, ReaderInv, NEW l \in Reader, Settle(l), got[l] # Nothing,
           NEW q \in Reader, q = l \/ (at[q] = "joined" /\ flight[q] = l)
    PROVE  since[Basis(q)] <= got[l] /\ got[l] <= db
<1> USE DEF TypeOK
<1>1. at[l] = "settling" /\ at[l] \in Keyed /\ at[q] \in Keyed
  BY DEF Settle, Keyed, Leading
<1>2. key[q] = key[l] /\ (Keyless(q) <=> Keyless(l))
  BY DEF JoinInv, Keyless
<1>3. CASE Keyless(l)
  <2>1. Basis(q) = l
    BY <1>1, <1>2, <1>3 DEF Basis
  <2> QED
    BY <1>1, <1>3, <2>1 DEF ReaderInv
<1>4. CASE ~Keyless(l)
  <2>1. Basis(q) = q
    BY <1>2, <1>4 DEF Basis
  <2>2. /\ since[q] <= born[key[l]] /\ born[key[l]] <= got[l] /\ got[l] <= db
        /\ key[l] \in Key
    BY <1>1, <1>2, <1>4 DEF ReaderInv
  <2> QED
    BY <2>1, <2>2, Domains
<1> QED
  BY <1>3, <1>4

\* With generations, a lookup answers with nothing older than what was
\* invalidated before it began, or, in a flight without a physical key, before the
\* lookup that leads the flight began, whatever fails or expires meanwhile.
THEOREM FreshGenerations ==
    ASSUME ~Exact
    PROVE  StoreSpec => FreshAnswers
<1>1. TypeOK /\ FlightInv /\ JoinInv /\ GenerationInv /\ [StoreNext]_storeVars
         => [\A r \in Reader : Answered(r) => got'[r] >= since[Basis(r)]]_storeVars
  <2> SUFFICES ASSUME TypeOK, FlightInv, JoinInv, ReaderInv, [StoreNext]_storeVars,
                      NEW r \in Reader, Answered(r)
               PROVE  got'[r] >= since[Basis(r)]
    BY DEF GenerationInv
  <2>1. PICK l \in Reader : Settle(l)
    BY SettledOnly
  <2>2. /\ r = l \/ (at[r] = "joined" /\ flight[r] = l)
        /\ got'[r] = got[l] /\ got[l] # Nothing
    BY <2>1 DEF Settle, Answered, TypeOK
  <2>3. since[Basis(r)] <= got[l]
    BY <2>1, <2>2, SettledValue
  <2>4. since[Basis(r)] \in Nat /\ got[l] \in Nat
    <3>1. Basis(r) \in Reader
      BY <2>1, <2>2 DEF Basis, Settle
    <3> QED
      BY <2>2, <3>1, Domains DEF TypeOK
  <2> QED
    BY <2>2, <2>3, <2>4
<1> QED
  BY <1>1, StoreInvariant, PTL DEF StoreSpec, FreshAnswers

\* What FreshReads sees of the readers.
Open == {q \in Reader : Looking(q)}
Adrift == {q \in Reader : Looking(q) /\ Keyless(q) /\ BypassShared}
AtLeast == [q \in Reader |-> IF Looking(q) THEN since[Basis(q)] ELSE 0]
Answers == [q \in Reader |-> IF Looking(q) THEN Nothing ELSE got[q]]

\* Steps within a lookup are unseen, unless a flight without a key is joined.
LEMMA InsideIsUnseen ==
    ASSUME \A q \in Reader : /\ Looking(q)' <=> Looking(q)
                             /\ Looking(q) => (Basis(q))' = Basis(q)
                             /\ ~Looking(q) => got'[q] = got[q],
           UNCHANGED <<db, invalidated, key, since>>
    PROVE  UNCHANGED <<db, invalidated, Open, Adrift, AtLeast, Answers>>
<1>1. UNCHANGED <<Open, Answers>>
  BY DEF Open, Answers
<1>2. UNCHANGED Adrift
  BY DEF Adrift, Keyless
<1>3. UNCHANGED AtLeast
  BY DEF AtLeast
<1> QED
  BY <1>1, <1>2, <1>3

\* A lookup begins, with a physical key or without one.
LEMMA BeginIsSeen ==
    ASSUME TypeOK, JoinInv, NEW r \in Reader, Resolve(r) \/ ResolveFails(r)
    PROVE  Reads!Begin(r)
<1> USE DEF TypeOK, Looking
<1>1. /\ at[r] = "idle" /\ at'[r] = "entering"
      /\ \A q \in Reader : q # r => /\ at'[q] = at[q] /\ got'[q] = got[q] /\ key'[q] = key[q]
                                   /\ flight'[q] = flight[q] /\ since'[q] = since[q]
      /\ since'[r] = invalidated
      /\ UNCHANGED <<db, invalidated>>
  BY DEF Resolve, ResolveFails, Begin, Go, Get, source
<1>2. r \notin Open /\ Open' = Open \cup {r}
  BY <1>1 DEF Open
<1>3. Adrift' \in {Adrift, Adrift \cup {r}}
  <2>1. \A q \in Reader : q # r => (q \in Adrift' <=> q \in Adrift)
    BY <1>1 DEF Adrift, Keyless
  <2>2. /\ \A q \in Adrift : q \in Reader /\ q # r
        /\ \A q \in Adrift' : q \in Reader
    BY <1>1 DEF Adrift
  <2>3. ASSUME r \in Adrift' PROVE Adrift' = Adrift \cup {r}
    BY <2>1, <2>2, <2>3
  <2>4. ASSUME r \notin Adrift' PROVE Adrift' = Adrift
    BY <2>1, <2>2, <2>4
  <2> QED
    BY <2>3, <2>4
<1>4. AtLeast' = [AtLeast EXCEPT ![r] = invalidated]
  <2>1. Looking(r)' /\ Basis(r)' = r
    BY <1>1 DEF Basis
  <2>2. ASSUME NEW q \in Reader, q # r, Looking(q)
        PROVE  Basis(q)' = Basis(q) /\ Basis(q) \in Reader /\ Basis(q) # r
    <3>1. at[q] = "joined" => flight[q] \in Reader /\ flight[q] # r
      BY <1>1, <2>2 DEF JoinInv, Leading
    <3> QED
      BY <1>1, <2>2, <3>1 DEF Basis, Keyless
  <2>3. ASSUME NEW q \in Reader, q # r
        PROVE  /\ Looking(q)' <=> Looking(q)
               /\ Looking(q) => since'[Basis(q)'] = since[Basis(q)]
    BY <1>1, <2>2, <2>3
  <2> QED
    BY <1>1, <2>1, <2>3 DEF AtLeast
<1>5. Answers' = [Answers EXCEPT ![r] = Nothing]
  BY <1>1 DEF Answers
<1> QED
  BY <1>1, <1>2, <1>3, <1>4, <1>5 DEF Reads!Begin, Open, Adrift, AtLeast, Answers

\* Joining a flight without a key takes over what its leader has to be as new as;
\* joining any other flight is unseen.
LEMMA JoinIsSeen ==
    ASSUME TypeOK, NEW r \in Reader, Join(r)
    PROVE  \/ \E l \in Reader : Reads!Share(r, l)
           \/ UNCHANGED <<db, invalidated, Open, Adrift, AtLeast, Answers>>
<1> USE DEF TypeOK, Looking
<1>1. PICK l \in Flight(r) : flight' = [flight EXCEPT ![r] = l]
  BY DEF Join
<1>2. /\ at[r] = "entering" /\ at'[r] = "joined"
      /\ \A q \in Reader : q # r => at'[q] = at[q] /\ flight'[q] = flight[q]
      /\ UNCHANGED <<db, invalidated, key, since, got>> /\ flight'[r] = l
  BY <1>1 DEF Join, Go, source, lookup
<1>3. l \in Reader /\ key[l] = key[r] /\ at[l] \in Leading /\ (Keyless(r) => BypassShared)
  BY DEF Flight
<1>4. \A q \in Reader : q # r => /\ Looking(q)' <=> Looking(q)
                                /\ Basis(q)' = Basis(q)
  BY <1>2 DEF Basis, Keyless
<1>5. Looking(r) /\ Looking(r)' /\ Basis(r) = r /\ Basis(l) = l
  BY <1>2, <1>3 DEF Basis, Leading
<1>6. CASE Keyless(r)
  <2>1. {r, l} \subseteq Adrift
    BY <1>3, <1>5, <1>6 DEF Adrift, Keyless, Leading
  <2>2. Basis(r)' = l
    BY <1>2, <1>6 DEF Basis, Keyless
  <2>3. AtLeast' = [AtLeast EXCEPT ![r] = AtLeast[l]]
    <3>1. AtLeast[l] = since[l]
      BY <1>3, <1>5 DEF AtLeast, Leading
    <3> QED
      BY <1>2, <1>4, <1>5, <2>2, <3>1 DEF AtLeast
  <2>4. UNCHANGED <<Open, Adrift, Answers>>
    BY <1>2, <1>4, <1>5 DEF Open, Adrift, Answers, Keyless
  <2>5. Reads!Share(r, l)
    BY <1>2, <2>1, <2>3, <2>4 DEF Reads!Share, Open, Adrift, AtLeast, Answers
  <2> QED
    BY <1>3, <2>5
<1>7. CASE ~Keyless(r)
  <2>1. Basis(r)' = r
    BY <1>2, <1>7 DEF Basis, Keyless
  <2> QED
    BY <1>2, <1>4, <1>5, <2>1, InsideIsUnseen
<1> QED
  BY <1>6, <1>7

\* What FreshReads sees of lookups that end together.
LEMMA FinishIsSeen ==
    ASSUME TypeOK, JoinInv, NEW R \in SUBSET Reader, NEW v,
           \A q \in Reader : IF q \in R THEN at'[q] = "idle" /\ got'[q] = v
                                        ELSE at'[q] = at[q] /\ got'[q] = got[q],
           UNCHANGED <<db, invalidated, key, since, flight>>
    PROVE  Reads!Finish(R, v)
<1> USE DEF Looking
<1>1. Open' = Open \ R
  BY DEF Open
<1>2. Adrift' = Adrift \ R
  BY DEF Adrift, Keyless
<1>3. AtLeast' = [q \in Reader |-> IF q \in R THEN 0 ELSE AtLeast[q]]
  <2>1. \A q \in Reader : q \notin R => Basis(q)' = Basis(q)
    BY DEF Basis, Keyless
  <2> QED
    BY <2>1 DEF AtLeast
<1>4. Answers' = [q \in Reader |-> IF q \in R THEN v ELSE Answers[q]]
  BY DEF Answers
<1> QED
  BY <1>1, <1>2, <1>3, <1>4 DEF Reads!Finish, Open, Adrift, AtLeast, Answers

\* A flight that settles answers all who share it, with nothing older than any of
\* them may have.
LEMMA SettleIsSeen ==
    ASSUME TypeOK, JoinInv, ~Exact, ReaderInv, NEW l \in Reader, Settle(l)
    PROVE  \E R \in SUBSET Reader : \E v \in 0..db \cup {Nothing} : Reads!Answer(R, v)
<1> USE Domains DEF TypeOK
<1>1. at[l] = "settling" /\ UNCHANGED <<db, invalidated, key, since, flight>>
  BY DEF Settle, source, lookup
<1>2. PICK R \in SUBSET Reader : R = {l} \cup {q \in Reader : at[q] = "joined" /\ flight[q] = l}
  OBVIOUS
<1>3. \A q \in Reader : IF q \in R THEN at'[q] = "idle" /\ got'[q] = got[l]
                                   ELSE at'[q] = at[q] /\ got'[q] = got[q]
  BY <1>2 DEF Settle
<1>4. Reads!Finish(R, got[l])
  <2>1. PICK v : v = got[l]
    OBVIOUS
  <2>2. \A q \in Reader : IF q \in R THEN at'[q] = "idle" /\ got'[q] = v
                                     ELSE at'[q] = at[q] /\ got'[q] = got[q]
    BY <1>3, <2>1
  <2>3. R \in SUBSET Reader
    BY <1>2
  <2>4. TypeOK /\ JoinInv /\ UNCHANGED <<db, invalidated, key, since, flight>>
    BY <1>1
  <2>5. Reads!Finish(R, v)
    BY ONLY <2>2, <2>3, <2>4, FinishIsSeen
  <2> QED
    BY <2>1, <2>5 DEF Reads!Finish
<1>5. R \subseteq Open
  BY <1>1, <1>2 DEF Open, Looking
<1>6. got[l] # Nothing => \A q \in R : since[Basis(q)] <= got[l] /\ got[l] <= db
  BY <1>2, SettledValue
<1>7. got[l] # Nothing => got[l] <= db /\ \A q \in R : AtLeast[q] <= got[l]
  <2>1. l \in R /\ \A q \in R : q \in Reader /\ Looking(q)
    BY <1>2, <1>5 DEF Open
  <2> QED
    BY <1>6, <2>1 DEF AtLeast
<1>8. got[l] \in 0..db \cup {Nothing}
  <2>1. got[l] # Nothing => got[l] \in Nat /\ got[l] <= db /\ db \in Nat
    BY <1>7
  <2> QED
    BY <2>1
<1>9. Reads!Answer(R, got[l])
  BY <1>4, <1>5, <1>7 DEF Reads!Answer, Open, AtLeast
<1> QED
  BY <1>8, <1>9

\* Every step of the cache is a step of FreshReads or leaves it alone.
LEMMA ReadStep ==
    ASSUME ~Exact, TypeOK, FlightInv, JoinInv, GenerationInv, [StoreNext]_storeVars
    PROVE  [Reads!ReadNext]_<<db, invalidated, Reads!readVars>>
<1> USE DEF TypeOK
<1> DEFINE Unseen == UNCHANGED <<db, invalidated, Open, Adrift, AtLeast, Answers>>
<1>1. ASSUME Unseen PROVE UNCHANGED <<db, invalidated, Reads!readVars>>
  BY <1>1 DEF Reads!readVars, Open, Adrift, AtLeast, Answers
<1>2. ASSUME NEW r \in Reader, Resolve(r) \/ ResolveFails(r) PROVE Reads!ReadNext
  BY <1>2, BeginIsSeen DEF Reads!ReadNext
<1>3. ASSUME NEW r \in Reader, Join(r) PROVE Reads!ReadNext \/ Unseen
  BY <1>3, JoinIsSeen DEF Reads!ReadNext
<1>4. ASSUME NEW r \in Reader, Settle(r) PROVE Reads!ReadNext
  BY <1>4, SettleIsSeen DEF GenerationInv, Reads!ReadNext
<1>5. ASSUME NEW p, Crash(p) PROVE Reads!ReadNext
  <2> DEFINE R == {q \in Reader : ProcessOf[q] = p}
  <2>1. /\ \A q \in Reader : IF q \in R THEN at'[q] = "idle" /\ got'[q] = Nothing
                                        ELSE at'[q] = at[q] /\ got'[q] = got[q]
        /\ UNCHANGED <<db, invalidated, key, since, flight>>
    BY <1>5 DEF Crash, source, lookup
  <2>2. Reads!Abort(R)
    BY <2>1, FinishIsSeen DEF Reads!Abort
  <2> QED
    BY <2>2 DEF Reads!ReadNext
<1>6. CASE Commit
  <2>1. db' = db + 1 /\ UNCHANGED <<invalidated, since, at, got, key, flight>>
    BY <1>6 DEF Commit, lookup
  <2> QED
    BY <2>1 DEF Reads!ReadNext, Reads!Write, Reads!readVars, Looking, Keyless, Basis
<1>7. CASE Invalidate
  <2>1. invalidated' = db /\ UNCHANGED <<db, since, at, got, key, flight>>
    BY <1>7 DEF Invalidate, lookup
  <2> QED
    BY <2>1 DEF Reads!ReadNext, Reads!Cover, Reads!readVars, Looking, Keyless, Basis
<1>8. ASSUME NEW r \in Reader, Move(r) \/ Bypass(r) \/ Lead(r) PROVE Unseen
  <2>1. UNCHANGED <<db, invalidated, key, since, flight>>
    BY <1>8 DEF Move, Bypass, Lead, source, lookup
  <2>2. /\ at[r] \notin {"idle", "joined"} /\ at'[r] \notin {"idle", "joined"}
        /\ \A q \in Reader : q # r => at'[q] = at[q] /\ got'[q] = got[q]
    BY <1>8 DEF Move, Bypass, Lead, Leading, Go
  <2> QED
    BY <2>1, <2>2, InsideIsUnseen DEF Looking, Basis, Keyless
<1>9. ASSUME UNCHANGED <<db, invalidated, key, since, flight, at, got>> PROVE Unseen
  BY <1>9, InsideIsUnseen DEF Looking, Basis, Keyless
<1>10. ASSUME ControlExpires \/ Flush \/ UNCHANGED storeVars PROVE Unseen
  <2>1. UNCHANGED <<db, invalidated, key, since, flight, at, got>>
    BY <1>10 DEF ControlExpires, Flush, storeVars, source, lookup
  <2> QED
    BY <1>9, <2>1
<1>11. ASSUME NEW k \in Key, Evict(k) \/ LockExpires(k) PROVE Unseen
  BY <1>9, <1>11 DEF Evict, LockExpires, source, lookup
<1>12. ASSUME NEW r \in Reader, DeadlinePasses(r) PROVE Unseen
  BY <1>9, <1>12 DEF DeadlinePasses, source
<1> HIDE DEF Unseen
<1> QED
  BY <1>1, <1>2, <1>3, <1>4, <1>5, <1>6, <1>7, <1>8, <1>10, <1>11, <1>12, Moves
  DEF StoreNext, Lookups, Progress, Failure

\* With generations, the cache keeps the promise of FreshReads: every lookup,
\* invalidation and crash is a step of it, a flight without a key that is joined
\* is a Share, the rest is invisible.
THEOREM Implementation ==
    ASSUME ~Exact
    PROVE  StoreSpec => ImplementsFreshReads
<1>1. StoreInit => Reads!ReadInit
  BY DEF StoreInit, Reads!ReadInit, Looking
<1>2. TypeOK /\ FlightInv /\ JoinInv /\ GenerationInv /\ [StoreNext]_storeVars
         => [Reads!ReadNext]_<<db, invalidated, Reads!readVars>>
  BY ReadStep
<1> QED
  BY <1>1, <1>2, StoreInvariant, PTL DEF StoreSpec, ImplementsFreshReads, Reads!ReadSpec
===============================================================================
