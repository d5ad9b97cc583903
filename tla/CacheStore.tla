------------------------------ MODULE CacheStore ------------------------------
(***************************************************************************)
(* Cached lookups of one logical key.  A lookup resolves the generation    *)
(* token of the key's namespace, which becomes part of the physical key,   *)
(* and remembers under that key: callers of a process share one flight,    *)
(* flights of several processes share a lock in Redis, and whoever holds   *)
(* the lock loads the source and populates the cache.  An invalidation     *)
(* draws a fresh token, or deletes the key when no generation is routed to *)
(* its pattern (Exact).  A lookup that finds no token has no physical key: *)
(* it loads the source alone, or in a flight under the logical key         *)
(* (BypassShared), which no invalidation changes.                          *)
(*                                                                         *)
(* Every Redis command is one step.  A key may live in several namespaces: *)
(* their tokens are resolved by one script, so one token stands for all.   *)
(* A disturbance is whatever the code tolerates but nobody wants: a failed *)
(* command or load, an eviction, an expiry, a wait that is too long, a     *)
(* crash.                                                                  *)
(***************************************************************************)
EXTENDS Integers

CONSTANTS
    Reader,        \* callers of remember
    ProcessOf,     \* the application process of a caller
    Nobody,        \* the owner of a free lock, the leader of no flight
    Exact,         \* the key has no generation
    BypassShared,  \* without a physical key the query shares a flight, too
    MaxVersion,    \* bound on the writes of the source
    MaxToken,      \* bound on the generation tokens drawn
    MaxFaults      \* bound on the disturbances

ASSUME CacheAssumption ==
    /\ Nobody \notin Reader
    /\ Exact \in BOOLEAN
    /\ BypassShared \in BOOLEAN
    /\ MaxVersion \in Nat
    /\ MaxToken \in Nat
    /\ MaxFaults \in Nat

Nothing == -1                 \* a cache miss, a lookup without a value
Version == 0..MaxVersion
Key == 0..MaxToken            \* keys of flights; 0 is the logical key, others have a token

VARIABLES
    db,            \* version of the source
    invalidated,   \* history: version the last invalidation covered
    token,         \* generation control key, 0 when it is missing
    lastToken,     \* tokens drawn so far
    store,         \* cached version of a physical key
    lock,          \* owner token of the single flight lock of a key
    at,            \* where a reader is
    key,           \* its physical key
    since,         \* history: invalidated when its lookup began
    got,           \* the version it has
    owns,          \* it acquired the lock
    late,          \* its wait deadline passed
    flight,        \* the leader of the flight it joined
    born,          \* history: db when a token was drawn
    loads,         \* history: loads of the source for a key
    faults         \* disturbances so far

redis == <<token, lastToken, store, lock, born>>
source == <<db, invalidated>>
lookup == <<key, since, late>>
storeVars == <<source, redis, lookup, at, got, owns, flight, loads, faults>>

Leading == {"reading", "locking", "waiting", "confirming", "rechecking", "loading",
            "populating", "releasing", "fetching", "settling"}
Phase == {"idle", "entering", "joined"} \cup Leading

\* What the variables hold: tokens are drawn ones, keys and locks are known.
TypeOK ==
    /\ db \in Version /\ invalidated \in Version
    /\ token \in 0..lastToken /\ lastToken \in Key
    /\ store \in [Key -> Version \cup {Nothing}]
    /\ lock \in [Key -> Reader \cup {Nobody}]
    /\ at \in [Reader -> Phase]
    /\ key \in [Reader -> Key]
    /\ since \in [Reader -> Version]
    /\ got \in [Reader -> Version \cup {Nothing}]
    /\ owns \in [Reader -> BOOLEAN]
    /\ late \in [Reader -> BOOLEAN]
    /\ flight \in [Reader -> Reader \cup {Nobody}]
    /\ born \in [Key -> Version]
    /\ loads \in [Key -> 0..2]
    /\ faults \in 0..MaxFaults

StoreInit ==
    /\ db = 0 /\ invalidated = 0
    /\ token = 0 /\ lastToken = 0
    /\ store = [k \in Key |-> Nothing]
    /\ lock = [k \in Key |-> Nobody]
    /\ at = [r \in Reader |-> "idle"]
    /\ key = [r \in Reader |-> 0]
    /\ since = [r \in Reader |-> 0]
    /\ got = [r \in Reader |-> Nothing]
    /\ owns = [r \in Reader |-> FALSE]
    /\ late = [r \in Reader |-> FALSE]
    /\ flight = [r \in Reader |-> Nobody]
    /\ born = [k \in Key |-> 0]
    /\ loads = [k \in Key |-> 0]
    /\ faults = 0

Fault == faults < MaxFaults /\ faults' = faults + 1
Go(r, p) == at' = [at EXCEPT ![r] = p]
Get(r, v) == got' = [got EXCEPT ![r] = v]

-------------------------------------------------------------------------------
(* resolveVersionedKeyBestEffort, rotateGeneration *)

\* Mutant of Draw: the token is not known to have been used.
DrawUncounted ==
    /\ lastToken < MaxToken
    /\ token' = lastToken + 1
    /\ born' = [born EXCEPT ![lastToken + 1] = db]
    /\ UNCHANGED lastToken

\* A token nobody has seen before.
Draw ==
    /\ lastToken < MaxToken
    /\ lastToken' = lastToken + 1
    /\ token' = lastToken + 1
    /\ born' = [born EXCEPT ![lastToken + 1] = db]

Begin(r) ==
    /\ at[r] = "idle"
    /\ since' = [since EXCEPT ![r] = invalidated]
    /\ Get(r, Nothing)
    /\ owns' = [owns EXCEPT ![r] = FALSE]
    /\ late' = [late EXCEPT ![r] = FALSE]
    /\ flight' = [flight EXCEPT ![r] = Nobody]

\* A missing control key gets a fresh token.  Without generations the physical
\* key is the logical one.
Resolve(r) ==
    /\ Begin(r)
    /\ Go(r, "entering")
    /\ IF ~Exact /\ token = 0 THEN Draw ELSE UNCHANGED <<token, lastToken, born>>
    /\ key' = [key EXCEPT ![r] = token']
    /\ UNCHANGED <<source, store, lock, loads, faults>>

\* The lookups that found Redis unavailable have no physical key.
Keyless(r) == ~Exact /\ key[r] = 0
Outage == faults > 0 /\ \E r \in Reader : at[r] # "idle" /\ Keyless(r)

\* An outage, which may meet several lookups, is one disturbance.
ResolveFails(r) ==
    /\ ~Exact
    /\ Begin(r)
    /\ IF Outage THEN UNCHANGED faults ELSE Fault
    /\ Go(r, "entering")
    /\ key' = [key EXCEPT ![r] = 0]
    /\ UNCHANGED <<source, redis, loads>>

-------------------------------------------------------------------------------
(* remember and executeSingleFlight: the flight of a process *)

\* Mutant of Flight: the registry knows the logical key only.
FlightOfAnyKey(r) ==
    {l \in Reader : ProcessOf[l] = ProcessOf[r] /\ at[l] \in Leading}

\* The promise in the registry under the key of r, if r looks for one.
Flight(r) ==
    {l \in Reader : /\ ProcessOf[l] = ProcessOf[r] /\ key[l] = key[r] /\ at[l] \in Leading
                    /\ Keyless(r) => BypassShared}

Join(r) ==
    /\ at[r] = "entering"
    /\ \E l \in Flight(r) : flight' = [flight EXCEPT ![r] = l]
    /\ Go(r, "joined")
    /\ UNCHANGED <<source, redis, lookup, got, owns, loads, faults>>

Lead(r) ==
    /\ at[r] = "entering"
    /\ Flight(r) = {}
    /\ Go(r, IF Keyless(r) THEN "fetching" ELSE "reading")
    /\ UNCHANGED <<source, redis, lookup, got, owns, flight, loads, faults>>

\* The cache is bypassed: the source is loaded and nothing is stored.
Fetch(r) ==
    /\ at[r] = "fetching"
    /\ Get(r, db)
    /\ Go(r, "settling")
    /\ UNCHANGED <<source, redis, lookup, owns, flight, loads, faults>>

FetchFails(r) ==
    /\ at[r] = "fetching"
    /\ Fault
    /\ Get(r, Nothing)
    /\ Go(r, "settling")
    /\ UNCHANGED <<source, redis, lookup, owns, flight, loads>>

\* Mutant of Settle: whoever shares the promise is not told.
SettleAlone(l) ==
    /\ at[l] = "settling"
    /\ Go(l, "idle")
    /\ UNCHANGED <<source, redis, lookup, got, owns, flight, loads, faults>>

\* The promise settles: it leaves the registry, and all who share it have its value.
Settle(l) ==
    LET sharing == {l} \cup {r \in Reader : at[r] = "joined" /\ flight[r] = l} IN
    /\ at[l] = "settling"
    /\ at' = [r \in Reader |-> IF r \in sharing THEN "idle" ELSE at[r]]
    /\ got' = [r \in Reader |-> IF r \in sharing THEN got[l] ELSE got[r]]
    /\ UNCHANGED <<source, redis, lookup, owns, flight, loads, faults>>

-------------------------------------------------------------------------------
(* remember, rememberAcrossProcesses: reads and the lock *)

\* A read of the key: the value, if there is one, sends r to hit, else to miss.
ReadStore(r, hit, miss) ==
    /\ IF store[key[r]] # Nothing THEN Go(r, hit) ELSE Go(r, miss)
    /\ Get(r, store[key[r]])
    /\ UNCHANGED <<source, redis, lookup, owns, flight, loads, faults>>

\* Mutant of Recheck: the owner of the lock loads without a second look.
RecheckSkipped(r) ==
    /\ at[r] = "rechecking"
    /\ Go(r, "loading")
    /\ UNCHANGED <<source, redis, lookup, got, owns, flight, loads, faults>>

Read(r) == at[r] = "reading" /\ ReadStore(r, "settling", "locking")
Poll(r) == at[r] = "waiting" /\ store[key[r]] # Nothing /\ ReadStore(r, "settling", "waiting")
Confirm(r) == at[r] = "confirming" /\ ReadStore(r, "settling", "locking")
Recheck(r) == at[r] = "rechecking" /\ ReadStore(r, "releasing", "loading")

\* A read that fails counts as a miss, except that waiters give up waiting.
ReadFails(r) ==
    /\ Fault
    /\ \/ at[r] = "reading" /\ Go(r, "locking")
       \/ at[r] \in {"waiting", "confirming", "rechecking"} /\ Go(r, "loading")
    /\ UNCHANGED <<source, redis, lookup, got, owns, flight, loads>>

Acquire(r) ==
    /\ at[r] = "locking"
    /\ lock[key[r]] = Nobody
    /\ lock' = [lock EXCEPT ![key[r]] = r]
    /\ owns' = [owns EXCEPT ![r] = TRUE]
    /\ Go(r, "rechecking")
    /\ UNCHANGED <<source, token, lastToken, store, born, lookup, got, flight, loads, faults>>

Contend(r) ==
    /\ at[r] = "locking"
    /\ lock[key[r]] # Nobody
    /\ Go(r, IF late[r] THEN "loading" ELSE "waiting")
    /\ UNCHANGED <<source, redis, lookup, got, owns, flight, loads, faults>>

\* The command fails, or it took the lock and its answer was lost.
AcquireFails(r) ==
    /\ at[r] = "locking"
    /\ Fault
    /\ \/ UNCHANGED lock
       \/ lock[key[r]] = Nobody /\ lock' = [lock EXCEPT ![key[r]] = r]
    /\ Go(r, "loading")
    /\ UNCHANGED <<source, token, lastToken, store, born, lookup, got, owns, flight, loads>>

\* The lock is gone while r waits for the value: it looks once more.
NoticeRelease(r) ==
    /\ at[r] = "waiting"
    /\ lock[key[r]] = Nobody
    /\ Go(r, "confirming")
    /\ UNCHANGED <<source, redis, lookup, got, owns, flight, loads, faults>>

WaitTimeout(r) ==
    /\ at[r] = "waiting"
    /\ late[r]
    /\ Go(r, "loading")
    /\ UNCHANGED <<source, redis, lookup, got, owns, flight, loads, faults>>

-------------------------------------------------------------------------------
(* computeAndPopulate, releaseDistributedLock *)

Loaded(r) == IF owns[r] THEN "releasing" ELSE "settling"

Load(r) ==
    /\ at[r] = "loading"
    /\ Get(r, db)
    /\ loads' = [loads EXCEPT ![key[r]] = IF @ = 0 THEN 1 ELSE 2]
    /\ Go(r, "populating")
    /\ UNCHANGED <<source, redis, lookup, owns, flight, faults>>

LoadFails(r) ==
    /\ at[r] = "loading"
    /\ Fault
    /\ Get(r, Nothing)
    /\ Go(r, Loaded(r))
    /\ UNCHANGED <<source, redis, lookup, owns, flight, loads>>

Populate(r) ==
    /\ at[r] = "populating"
    /\ store' = [store EXCEPT ![key[r]] = got[r]]
    /\ Go(r, Loaded(r))
    /\ UNCHANGED <<source, token, lastToken, lock, born, lookup, got, owns, flight, loads, faults>>

PopulateFails(r) ==
    /\ at[r] = "populating"
    /\ Fault
    /\ Go(r, Loaded(r))
    /\ UNCHANGED <<source, redis, lookup, got, owns, flight, loads>>

\* Mutant of Release: the lock is deleted, whoever owns it.
ReleaseBlindly(r) ==
    /\ at[r] = "releasing"
    /\ lock' = [lock EXCEPT ![key[r]] = Nobody]
    /\ owns' = [owns EXCEPT ![r] = FALSE]
    /\ Go(r, "settling")
    /\ UNCHANGED <<source, token, lastToken, store, born, lookup, got, flight, loads, faults>>

\* Compare and delete.
Release(r) ==
    /\ at[r] = "releasing"
    /\ lock' = [lock EXCEPT ![key[r]] = IF @ = r THEN Nobody ELSE @]
    /\ owns' = [owns EXCEPT ![r] = FALSE]
    /\ Go(r, "settling")
    /\ UNCHANGED <<source, token, lastToken, store, born, lookup, got, flight, loads, faults>>

ReleaseFails(r) ==
    /\ at[r] = "releasing"
    /\ Fault
    /\ owns' = [owns EXCEPT ![r] = FALSE]
    /\ Go(r, "settling")
    /\ UNCHANGED <<source, redis, lookup, got, flight, loads>>

-------------------------------------------------------------------------------
(* The source, invalidations and the rest of the world *)

Commit ==
    /\ db < MaxVersion
    /\ db' = db + 1
    /\ UNCHANGED <<invalidated, redis, lookup, at, got, owns, flight, loads, faults>>

\* Mutant of Invalidate: the current physical key is deleted, its token stays.
InvalidateByDelete ==
    /\ store' = [store EXCEPT ![token] = Nothing]
    /\ loads' = [loads EXCEPT ![token] = 0]
    /\ invalidated' = db
    /\ UNCHANGED <<db, token, lastToken, born, lock, lookup, at, got, owns, flight, faults>>

\* deleteByPattern: a pattern with a generation rotates it, any other deletes.
Invalidate ==
    /\ \/ /\ ~Exact
          /\ Draw
          /\ UNCHANGED <<store, loads>>
       \/ /\ Exact
          /\ store' = [store EXCEPT ![0] = Nothing]
          /\ loads' = [loads EXCEPT ![0] = 0]
          /\ UNCHANGED <<token, lastToken, born>>
    /\ invalidated' = db
    /\ UNCHANGED <<db, lock, lookup, at, got, owns, flight, faults>>

\* The time to live of a value passes, or Redis needs the memory.
Evict(k) ==
    /\ store[k] # Nothing
    /\ Fault
    /\ store' = [store EXCEPT ![k] = Nothing]
    /\ UNCHANGED <<source, token, lastToken, lock, born, lookup, at, got, owns, flight, loads>>

ControlExpires ==
    /\ token # 0
    /\ Fault
    /\ token' = 0
    /\ UNCHANGED <<source, lastToken, store, lock, born, lookup, at, got, owns, flight, loads>>

Flush ==
    /\ Fault
    /\ token' = 0
    /\ store' = [k \in Key |-> Nothing]
    /\ lock' = [k \in Key |-> Nobody]
    /\ UNCHANGED <<source, lastToken, born, lookup, at, got, owns, flight, loads>>

Owned(k) == \E r \in Reader : lock[k] = r /\ owns[r] /\ key[r] = k

\* Nobody renews an abandoned lock.  The lock of a living owner expires when its
\* heartbeat fails, comes too late or reached the lifetime it is capped at.
Expire(k) == lock[k] # Nobody /\ lock' = [lock EXCEPT ![k] = Nobody]

LockExpires(k) ==
    /\ Expire(k)
    /\ IF Owned(k) THEN Fault ELSE UNCHANGED faults
    /\ UNCHANGED <<source, token, lastToken, store, born, lookup, at, got, owns, flight, loads>>

DeadlinePasses(r) ==
    /\ at[r] \in {"locking", "waiting", "confirming"}
    /\ ~late[r]
    /\ Fault
    /\ late' = [late EXCEPT ![r] = TRUE]
    /\ UNCHANGED <<source, redis, key, since, at, got, owns, flight, loads>>

\* The registry and the callers of the process are gone, a lock it holds is not.
Crash(p) ==
    LET lost == {r \in Reader : ProcessOf[r] = p} IN
    /\ \E r \in lost : at[r] # "idle"
    /\ Fault
    /\ at' = [r \in Reader |-> IF r \in lost THEN "idle" ELSE at[r]]
    /\ got' = [r \in Reader |-> IF r \in lost THEN Nothing ELSE got[r]]
    /\ owns' = [r \in Reader |-> IF r \in lost THEN FALSE ELSE owns[r]]
    /\ UNCHANGED <<source, redis, lookup, flight, loads>>

Progress(r) ==
    \/ Join(r) \/ Lead(r) \/ Fetch(r) \/ Settle(r)
    \/ Read(r) \/ Poll(r) \/ Confirm(r) \/ Recheck(r)
    \/ Acquire(r) \/ Contend(r) \/ NoticeRelease(r) \/ WaitTimeout(r)
    \/ Load(r) \/ Populate(r) \/ Release(r)

Failure(r) ==
    \/ ResolveFails(r) \/ FetchFails(r) \/ ReadFails(r) \/ AcquireFails(r)
    \/ LoadFails(r) \/ PopulateFails(r) \/ ReleaseFails(r) \/ DeadlinePasses(r)

Lookups ==
    \/ \E r \in Reader : Resolve(r) \/ Progress(r) \/ Failure(r) \/ Crash(ProcessOf[r])
    \/ \E k \in Key : Evict(k) \/ LockExpires(k)
    \/ ControlExpires
    \/ Flush

StoreNext == Lookups \/ Commit \/ Invalidate

StoreSpec == StoreInit /\ [][StoreNext]_storeVars

\* Node and Redis answer, and Redis expires what nobody renews.
StoreFairness ==
    /\ \A r \in Reader : WF_storeVars(Progress(r))
    /\ \A k \in Key : WF_storeVars(~Owned(k) /\ LockExpires(k))

FairStoreSpec == StoreSpec /\ StoreFairness

-------------------------------------------------------------------------------
(* What is checked *)

\* Whose load answers the lookup of r when no physical key keeps them apart.
Basis(r) == IF at[r] = "joined" /\ Keyless(r) THEN flight[r] ELSE r

Answered(r) == at[r] # "idle" /\ at'[r] = "idle" /\ got'[r] # Nothing

\* A lookup answers with nothing older than what was invalidated before it began;
\* one that shares a flight without a physical key may miss what was invalidated
\* since the lookup that leads the flight began, and nothing older.
FreshAnswers ==
    [][\A r \in Reader : Answered(r) => got'[r] >= since[Basis(r)]]_storeVars

\* Undisturbed, the source is loaded once for a physical key, however many
\* callers of however many processes look it up at the same time.
LoadedOnce == faults = 0 => \A k \in Key : loads[k] <= 1

\* Undisturbed, a lock only goes when its owner releases it.
Fenced ==
    \A k \in Key, q \in Reader :
        lock[k] = q /\ owns[q] /\ key[q] = k /\ lock'[k] # q /\ faults' = faults
            => at[q] = "releasing" /\ at'[q] = "settling"

\* The same of every step.
ReleaseIsFenced == [][Fenced]_storeVars

\* Every lookup ends.
LookupsEnd == \A r \in Reader : at[r] # "idle" ~> at[r] = "idle"

Looking(r) == at[r] # "idle"

Reads == INSTANCE FreshReads WITH
    Caller <- Reader,
    current <- db,
    covered <- invalidated,
    open <- {r \in Reader : Looking(r)},
    adrift <- {r \in Reader : Looking(r) /\ Keyless(r) /\ BypassShared},
    atLeast <- [r \in Reader |-> IF Looking(r) THEN since[Basis(r)] ELSE 0],
    answer <- [r \in Reader |-> IF Looking(r) THEN Nothing ELSE got[r]]

\* Flights, locks and physical keys are invisible: the cache keeps the promise
\* of FreshReads.
ImplementsFreshReads == Reads!ReadSpec
-------------------------------------------------------------------------------
(* The inductive invariants *)

Keyed == {"entering", "joined"} \cup Leading
Holding == {"rechecking", "loading", "populating", "releasing"}

\* The lock serialises the readers of a key from their second look until they
\* have populated it, and only a reader that found nothing loads.
Serialised ==
    /\ \A r \in Reader :
          /\ ~late[r]
          /\ at[r] \in Holding => owns[r] /\ lock[key[r]] = r
          /\ at[r] = "loading" => loads[key[r]] = 0
    /\ \A k \in Key :
          /\ loads[k] <= 1
          /\ \/ loads[k] = 0
             \/ store[k] # Nothing
             \/ \E r \in Reader : at[r] = "populating" /\ key[r] = k

FlightInv ==
    /\ \A r \in Reader : at[r] = "populating" => got[r] # Nothing
    /\ faults = 0 => Serialised

\* A flight is led by a reader of the same process with the same key.
JoinInv ==
    \A r \in Reader : at[r] = "joined" =>
        /\ flight[r] \in Reader
        /\ ProcessOf[flight[r]] = ProcessOf[r]
        /\ key[flight[r]] = key[r]
        /\ at[flight[r]] \in Leading

\* A token is at least as young as the last invalidation, what is stored under
\* it as the token, and what a reader with it has as both.
TokenInv ==
    /\ invalidated <= db
    /\ token # 0 => invalidated <= born[token]
    /\ \A k \in Key : k > lastToken => store[k] = Nothing
    /\ \A k \in Key : born[k] <= db
    /\ \A k \in Key : store[k] # Nothing => born[k] <= store[k] /\ store[k] <= db

\* A reader with a physical key has nothing older than the token in it, one
\* without a key nothing older than its own lookup.
ReaderInv ==
    \A r \in Reader :
        /\ since[r] <= invalidated
        /\ at[r] \in Keyed /\ ~Keyless(r) => key[r] \in 1..lastToken /\ since[r] <= born[key[r]]
        /\ at[r] \in Keyed /\ ~Keyless(r) /\ got[r] # Nothing
              => born[key[r]] <= got[r] /\ got[r] <= db
        /\ at[r] \in Keyed /\ Keyless(r)
              => /\ at[r] \in {"entering", "joined", "fetching", "settling"}
                 /\ got[r] # Nothing => since[r] <= got[r] /\ got[r] <= db

GenerationInv == ~Exact => TokenInv /\ ReaderInv
===============================================================================
