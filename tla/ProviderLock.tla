---------------------------- MODULE ProviderLock ----------------------------
(***************************************************************************)
(* The Redis lock that serialises chat jobs of one user on one provider:   *)
(* apps/worker/src/services/concurrencyLock.ts and its only user,          *)
(* chatJobProcessor.  A key is lock:chat:<user>:<provider>; its value is   *)
(* the random token of the run that took it, represented here by the       *)
(* worker slot executing that run.  Redis drops the key by itself once     *)
(* LOCK_TTL_MS has passed, whether or not the run is over.                 *)
(* AcquireOverwriting, ReleaseBlind and the like, each directly before the  *)
(* definition it distorts, are mistakes for mutation tests (see README.md). *)
(***************************************************************************)

CONSTANTS Workers,   \* job slots of the worker (concurrency x processes)
          Keys,      \* lock keys: one per user and provider
          Nobody,    \* the key is not set
          Stale      \* the key holds the token of a run that is gone

ASSUME LockAssumption == /\ Nobody \notin Workers
                         /\ Stale \notin Workers
                         /\ Nobody # Stale

VARIABLES lock,      \* the value of each key in Redis
          holding,   \* the keys each slot believes it holds (its lockToken)
          lapsed     \* history: the slot's key reached its TTL while it ran

lockVars == <<lock, holding, lapsed>>

LockTypeOK == /\ lock \in [Keys -> Workers \cup {Nobody, Stale}]
              /\ holding \in [Workers -> SUBSET Keys]
              /\ lapsed \in [Workers -> BOOLEAN]

LockInit == /\ lock = [k \in Keys |-> Nobody]
            /\ holding = [w \in Workers |-> {}]
            /\ lapsed = [w \in Workers |-> FALSE]

-----------------------------------------------------------------------------

\* SET key token PX ttl NX answered nil: another token is there.
Busy(k) == lock[k] # Nobody

\* SET key token PX ttl NX answered OK.
AcquireOverwriting(w, k) ==
    /\ holding[w] = {}
    /\ lock' = [lock EXCEPT ![k] = w]
    /\ holding' = [holding EXCEPT ![w] = {k}]
    /\ lapsed' = [lapsed EXCEPT ![w] = FALSE]
Acquire(w, k) ==
    /\ holding[w] = {}
    /\ ~Busy(k)
    /\ lock' = [lock EXCEPT ![k] = w]
    /\ holding' = [holding EXCEPT ![w] = {k}]
    /\ lapsed' = [lapsed EXCEPT ![w] = FALSE]

\* The script deletes the key only while it still holds the caller's token.
ReleaseBlind(w, k) ==
    /\ k \in holding[w]
    /\ lock' = [lock EXCEPT ![k] = Nobody]
    /\ holding' = [holding EXCEPT ![w] = {}]
    /\ lapsed' = [lapsed EXCEPT ![w] = FALSE]
Release(w, k) ==
    /\ k \in holding[w]
    /\ lock' = IF lock[k] = w THEN [lock EXCEPT ![k] = Nobody] ELSE lock
    /\ holding' = [holding EXCEPT ![w] = {}]
    /\ lapsed' = [lapsed EXCEPT ![w] = FALSE]

\* The slots of S go away without deleting their keys: the worker process
\* died, or the release call failed and its error was swallowed.
Abandon(S) ==
    /\ lock' = [k \in Keys |-> IF lock[k] \in S THEN Stale ELSE lock[k]]
    /\ holding' = [w \in Workers |-> IF w \in S THEN {} ELSE holding[w]]
    /\ lapsed' = [w \in Workers |-> IF w \in S THEN FALSE ELSE lapsed[w]]

\* The key reaches its TTL; a run that still uses it is not told.
Expire(k) ==
    /\ Busy(k)
    /\ lock' = [lock EXCEPT ![k] = Nobody]
    /\ lapsed' = [w \in Workers |-> lapsed[w] \/ lock[k] = w]
    /\ UNCHANGED holding

LockNext == \/ \E w \in Workers, k \in Keys : Acquire(w, k) \/ Release(w, k)
            \/ \E S \in SUBSET Workers : Abandon(S)
            \/ \E k \in Keys : Expire(k)

LockSpec == LockInit /\ [][LockNext]_lockVars

-----------------------------------------------------------------------------

(* While the TTL has not passed, the key keeps the token of the run that    *)
(* took it: no release, crash or acquisition of another run removes or      *)
(* replaces it.  This is what the token comparison in release() is for.     *)
LeaseIntact == \A w \in Workers, k \in Keys :
                   k \in holding[w] /\ ~lapsed[w] => lock[k] = w

(* A slot's token is in Redis only while the slot is inside its section, so *)
(* a token found there is never one that its owner forgot to give back.     *)
TokenLive == \A w \in Workers, k \in Keys :
                 lock[k] = w => k \in holding[w]

(* "one active job per user_id + provider": two runs are inside the section *)
(* of one key only if one of them outlived its TTL.                         *)
Exclusive == \A w1, w2 \in Workers : \A k \in Keys :
                 /\ w1 # w2
                 /\ k \in holding[w1]
                 /\ k \in holding[w2]
                 => lapsed[w1] \/ lapsed[w2]

=============================================================================
