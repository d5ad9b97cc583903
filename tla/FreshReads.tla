------------------------------ MODULE FreshReads ------------------------------
(***************************************************************************)
(* What a cache in front of a table promises its callers: a lookup answers *)
(* with a committed version of the source that is at least as new as every *)
(* write whose invalidation was over when the lookup began.  Lookups that  *)
(* are adrift, for want of a key, may take over the load of another one    *)
(* that is, and with it what that one has to be as new as.                 *)
(***************************************************************************)
EXTENDS Integers

CONSTANTS
    Caller,       \* whoever looks the source up
    Nothing       \* the answer of a lookup that failed or never was

VARIABLES
    current,      \* committed version of the source
    covered,      \* version the last invalidation covered
    open,         \* callers with a lookup under way
    adrift,       \* those that found no key
    atLeast,      \* what the lookup of a caller has to be as new as
    answer        \* the answer to the last finished lookup of a caller

readVars == <<open, adrift, atLeast, answer>>

ReadInit ==
    /\ current = 0
    /\ covered = 0
    /\ open = {}
    /\ adrift = {}
    /\ atLeast = [r \in Caller |-> 0]
    /\ answer = [r \in Caller |-> Nothing]

Write == current' = current + 1 /\ UNCHANGED <<covered, readVars>>

Cover == covered' = current /\ UNCHANGED <<current, readVars>>

Begin(r) ==
    /\ r \notin open
    /\ open' = open \cup {r}
    /\ adrift' \in {adrift, adrift \cup {r}}
    /\ atLeast' = [atLeast EXCEPT ![r] = covered]
    /\ answer' = [answer EXCEPT ![r] = Nothing]
    /\ UNCHANGED <<current, covered>>

Share(r, q) ==
    /\ {r, q} \subseteq adrift
    /\ atLeast' = [atLeast EXCEPT ![r] = atLeast[q]]
    /\ UNCHANGED <<current, covered, open, adrift, answer>>

Finish(R, v) ==
    /\ open' = open \ R
    /\ adrift' = adrift \ R
    /\ atLeast' = [r \in Caller |-> IF r \in R THEN 0 ELSE atLeast[r]]
    /\ answer' = [r \in Caller |-> IF r \in R THEN v ELSE answer[r]]
    /\ UNCHANGED <<current, covered>>

\* One load may answer several lookups.
Answer(R, v) ==
    /\ R \subseteq open
    /\ v # Nothing => v <= current /\ \A r \in R : atLeast[r] <= v
    /\ Finish(R, v)

Abort(R) == Finish(R, Nothing)

ReadNext ==
    \/ Write
    \/ Cover
    \/ \E r \in Caller : Begin(r)
    \/ \E r, q \in Caller : Share(r, q)
    \/ \E R \in SUBSET Caller :
          \/ \E v \in 0..current \cup {Nothing} : Answer(R, v)
          \/ Abort(R)

ReadSpec == ReadInit /\ [][ReadNext]_<<current, covered, readVars>>
===============================================================================
