--------------------------- MODULE ServicesProofs ---------------------------
(* Proofs about services of the API, for any number of callers: the runs of *)
(* a scheduler on several replicas, the limits and scopes of keys, what the *)
(* health incidents say of a provider once its calls are over, and whether a*)
(* drift alert tells the last run that was compared with a baseline.        *)
EXTENDS Schedulers, Gateway, Incidents, Drift, NaturalLemmas, FiniteSetTheorems, TLAPS

-----------------------------------------------------------------------------
(* Schedulers *)

\* The replicas that took the lock and have not yet given it back.
Holders == {p \in Replicas : run[p] \in {"start", "usage", "events", "finish", "fail", "get", "del"}}

\* The lock is the holder's own until it ends by time, or a DEL that came late
\* removes it; and a DEL that has not been overtaken is about its own lock.
SchedInv ==
    /\ run \in [Replicas -> {"waiting", "skip", "start", "usage", "events", "finish", "fail", "get", "del"}]
    /\ lock \in Replicas \cup {NoReplica}
    /\ lapsed \in [Replicas -> BOOLEAN]
    /\ \A p \in Holders : lapsed[p] \/ raced \/ lock = p
    /\ \A p \in Replicas : run[p] = "del" => raced \/ lock = p

LEMMA SchedInit == SchedulersInit => SchedInv
<1> SUFFICES ASSUME SchedulersInit PROVE SchedInv OBVIOUS
<1>1. \A p \in Replicas : run[p] = "waiting"
  BY DEF SchedulersInit
<1> QED BY <1>1 DEF SchedulersInit, SchedInv, Holders

\* A step of p that leaves the lock and its lapses alone, and keeps p among the
\* holders or lets it go, but does not bring it to the DEL.
LEMMA KeepsLock ==
  ASSUME SchedInv, NEW p \in Replicas,
         NEW pc \in {"waiting", "start", "usage", "events", "finish", "fail", "get"},
         Goto(p, pc), UNCHANGED <<lock, lapsed, raced>>,
         p \in Holders \/ pc = "waiting"
  PROVE  SchedInv'
<1>1. run' \in [Replicas -> {"waiting", "skip", "start", "usage", "events", "finish", "fail", "get", "del"}]
  BY DEF Goto, SchedInv
<1>2. \A q \in Replicas : q # p => run'[q] = run[q]
  BY DEF Goto, SchedInv
<1>3. run'[p] = pc
  BY DEF Goto, SchedInv
<1>4. \A q \in Holders' : q \in Holders
  BY <1>2, <1>3 DEF Holders
<1>5. \A q \in Replicas : run'[q] = "del" => run[q] = "del"
  BY <1>2, <1>3
<1> QED BY <1>1, <1>4, <1>5 DEF SchedInv

LEMMA AcquireInv ==
  ASSUME SchedInv, NEW p \in Replicas, Acquire(p)
  PROVE  SchedInv'
<1>1. CASE lock = NoReplica
  <2>1. /\ lock' = p /\ run' = [run EXCEPT ![p] = "start"]
        /\ lapsed' = [lapsed EXCEPT ![p] = FALSE] /\ raced' = raced
    BY <1>1 DEF Acquire, Goto
  <2>2. \A q \in Replicas : q # p => run'[q] = run[q] /\ lapsed'[q] = lapsed[q]
    BY <2>1 DEF SchedInv
  <2>3. run'[p] = "start"
    BY <2>1 DEF SchedInv
  <2>4. \A q \in Holders' : q = p \/ (q \in Holders /\ lapsed'[q] = lapsed[q])
    BY <2>2 DEF Holders
  <2>5. \A q \in Replicas : lock # q
    BY <1>1, SchedulersAssumption
  <2>6. \A q \in Holders' : lapsed'[q] \/ raced' \/ lock' = q
    BY <2>1, <2>4, <2>5 DEF SchedInv, Holders
  <2>7. \A q \in Replicas : run'[q] = "del" => raced' \/ lock' = q
    BY <2>1, <2>2, <2>3, <2>5 DEF SchedInv
  <2>8. /\ run' \in [Replicas -> {"waiting", "skip", "start", "usage", "events", "finish", "fail", "get", "del"}]
        /\ lock' \in Replicas \cup {NoReplica} /\ lapsed' \in [Replicas -> BOOLEAN]
    BY <2>1 DEF SchedInv
  <2> QED BY <2>6, <2>7, <2>8 DEF SchedInv
<1>2. CASE lock # NoReplica
  <2>1. run' = [run EXCEPT ![p] = "skip"] /\ UNCHANGED <<lock, lapsed, raced>>
    BY <1>2 DEF Acquire, Goto
  <2>2. \A q \in Replicas : run'[q] = run[q] \/ run'[q] = "skip"
    BY <2>1 DEF SchedInv
  <2>3. \A q \in Holders' : q \in Holders
    BY <2>2 DEF Holders
  <2>4. run' \in [Replicas -> {"waiting", "skip", "start", "usage", "events", "finish", "fail", "get", "del"}]
    BY <2>1 DEF SchedInv
  <2> QED BY <2>1, <2>2, <2>3, <2>4 DEF SchedInv
<1> QED BY <1>1, <1>2

LEMMA ReleaseInv ==
  ASSUME SchedInv, NEW p \in Replicas, ReadLock(p) \/ DeleteLock(p)
  PROVE  SchedInv'
<1>1. CASE ReadLock(p) /\ lock = p
  <2>1. run' = [run EXCEPT ![p] = "del"] /\ UNCHANGED <<lock, lapsed, raced>> /\ run[p] = "get"
    BY <1>1 DEF ReadLock, Goto
  <2>2. \A q \in Replicas : q # p => run'[q] = run[q]
    BY <2>1 DEF SchedInv
  <2>3. \A q \in Holders' : q \in Holders
    BY <2>1, <2>2 DEF Holders
  <2>4. run' \in [Replicas -> {"waiting", "skip", "start", "usage", "events", "finish", "fail", "get", "del"}]
    BY <2>1 DEF SchedInv
  <2>5. \A q \in Replicas : run'[q] = "del" => raced' \/ lock' = q
    BY <1>1, <2>1, <2>2 DEF SchedInv
  <2> QED BY <2>1, <2>3, <2>4, <2>5 DEF SchedInv
<1>2. CASE ReadLock(p) /\ lock # p
  BY <1>2, KeepsLock DEF ReadLock, Holders
<1>3. CASE DeleteLock(p)
  <2>1. /\ run' = [run EXCEPT ![p] = "waiting"] /\ lock' = NoReplica
        /\ UNCHANGED <<lapsed, raced>> /\ run[p] = "del"
    BY <1>3 DEF DeleteLock, Goto
  <2>2. \A q \in Replicas : q # p => run'[q] = run[q]
    BY <2>1 DEF SchedInv
  <2>3. run'[p] = "waiting"
    BY <2>1 DEF SchedInv
  <2>4. raced \/ lock = p
    BY <2>1 DEF SchedInv
  <2>5. \A q \in Holders' : q \in Holders /\ q # p
    BY <2>2, <2>3 DEF Holders
  <2>6. run' \in [Replicas -> {"waiting", "skip", "start", "usage", "events", "finish", "fail", "get", "del"}]
    BY <2>1 DEF SchedInv
  <2>7. \A q \in Replicas : run'[q] = "del" => raced'
    BY <2>1, <2>2, <2>3, <2>4 DEF SchedInv
  <2> QED BY <2>1, <2>4, <2>5, <2>6, <2>7 DEF SchedInv
<1> QED BY <1>1, <1>2, <1>3

LEMMA LapseInv ==
  ASSUME SchedInv, Lapse
  PROVE  SchedInv'
<1>1. /\ lock \in Replicas /\ lock' = NoReplica /\ run' = run
      /\ lapsed' = [lapsed EXCEPT ![lock] = @ \/ run[lock] # "waiting"]
      /\ raced' = (raced \/ run[lock] = "del")
  BY DEF Lapse, SchedInv
<1>2. lapsed' \in [Replicas -> BOOLEAN]
  BY <1>1, Zenon DEF SchedInv
<1>3. ASSUME NEW q \in Holders', ~lapsed'[q], ~raced' PROVE FALSE
  <2>1. q \in Holders /\ q \in Replicas /\ run[q] # "waiting"
    BY <1>1, <1>3 DEF Holders
  <2>2. CASE q = lock
    BY <1>1, <1>3, <2>1, <2>2, Zenon DEF SchedInv
  <2>3. CASE q # lock
    BY <1>1, <1>3, <2>1, <2>3, Zenon DEF SchedInv
  <2> QED BY <2>2, <2>3
<1>4. ASSUME NEW q \in Replicas, run'[q] = "del" PROVE raced'
  BY <1>1, <1>4 DEF SchedInv
<1> QED BY <1>1, <1>2, <1>3, <1>4 DEF SchedInv

LEMMA SchedStep == SchedInv /\ [SchedulersNext]_schedulerVars => SchedInv'
<1> SUFFICES ASSUME SchedInv, [SchedulersNext]_schedulerVars PROVE SchedInv' OBVIOUS
<1>1. CASE UNCHANGED schedulerVars
  BY <1>1 DEF schedulerVars, SchedInv, Holders
<1>2. ASSUME NEW p \in Replicas,
             \/ RecordSkipped(p) \/ RecordStarted(p) \/ CleanUp(p) \/ CleanUpFails(p)
             \/ RecordEnd(p) \/ ReleaseFails(p)
      PROVE  SchedInv'
  BY <1>2, KeepsLock
  DEF RecordSkipped, RecordStarted, CleanUp, CleanUpFails, RecordEnd, ReleaseFails, Holders
<1>3. ASSUME NEW p \in Replicas, Restart(p) PROVE SchedInv'
  <2>1. /\ run' = [run EXCEPT ![p] = "waiting"] /\ lapsed' = [lapsed EXCEPT ![p] = FALSE]
        /\ UNCHANGED <<lock, raced>>
    BY <1>3 DEF Restart, Goto
  <2>2. \A q \in Replicas : q # p => run'[q] = run[q] /\ lapsed'[q] = lapsed[q]
    BY <2>1 DEF SchedInv
  <2>3. run'[p] = "waiting"
    BY <2>1 DEF SchedInv
  <2>4. \A q \in Holders' : q \in Holders /\ lapsed'[q] = lapsed[q]
    BY <2>2, <2>3 DEF Holders
  <2>5. /\ run' \in [Replicas -> {"waiting", "skip", "start", "usage", "events", "finish", "fail", "get", "del"}]
        /\ lapsed' \in [Replicas -> BOOLEAN]
    BY <2>1 DEF SchedInv
  <2>6. \A q \in Replicas : run'[q] = "del" => run[q] = "del"
    BY <2>2, <2>3
  <2> QED BY <2>1, <2>4, <2>5, <2>6 DEF SchedInv
<1> QED BY <1>1, <1>2, <1>3, AcquireInv, ReleaseInv, LapseInv DEF SchedulersNext

\* README.md:364: runs of the retention clean-up are "Redis-locked".  On any
\* number of replicas two are at work only after a lock ended by time.
THEOREM OneRun == SchedulersSpec => []SingleFlight
<1>1. SchedInv => SingleFlight
  BY DEF SchedInv, SingleFlight, Working, Holders
<1> QED BY <1>1, SchedInit, SchedStep, PTL DEF SchedulersSpec

LEMMA RowStep == SchedInv /\ RunningIsRun /\ [SchedulersNext]_schedulerVars => RunningIsRun'
<1> SUFFICES ASSUME SchedInv, RunningIsRun, [SchedulersNext]_schedulerVars,
                    note' = "running", ~mute'
             PROVE  Working' # {}
  BY DEF RunningIsRun
<1>1. CASE UNCHANGED schedulerVars
  BY <1>1 DEF schedulerVars, RunningIsRun, Working
<1>2. ASSUME NEW p \in Replicas, RecordStarted(p) PROVE Working' # {}
  BY <1>2 DEF RecordStarted, Goto, Working, SchedInv
<1>3. ASSUME NEW p \in Replicas, RecordSkipped(p) \/ RecordEnd(p) PROVE FALSE
  BY <1>3 DEF RecordSkipped, RecordEnd, Record
<1>4. ASSUME NEW p \in Replicas, CleanUp(p) \/ CleanUpFails(p) PROVE Working' # {}
  BY <1>4 DEF CleanUp, CleanUpFails, Goto, Working, SchedInv
\* The other steps leave the row alone and take no replica from its work.
<1>5. ASSUME NEW p \in Replicas,
             \/ Acquire(p) \/ ReadLock(p) \/ DeleteLock(p) \/ ReleaseFails(p) \/ Restart(p)
      PROVE  Working' # {}
  <2>1. note = "running" /\ ~mute /\ p \notin Working
    <3>1. CASE Restart(p)
      <4>1. note' = note /\ mute' = (mute \/ p \in Working)
        BY <3>1 DEF Restart
      <4> QED BY <4>1
    <3>2. CASE Acquire(p) \/ ReadLock(p) \/ DeleteLock(p) \/ ReleaseFails(p)
      <4>1. note' = note /\ mute' = mute /\ run[p] \in {"waiting", "get", "del"}
        BY <3>2 DEF Acquire, ReadLock, DeleteLock, ReleaseFails
      <4> QED BY <4>1 DEF Working
    <3> QED BY <1>5, <3>1, <3>2
  <2>2. PICK q \in Working : TRUE
    BY <2>1 DEF RunningIsRun
  <2>3. run'[q] = run[q]
    BY <1>5, <2>1, <2>2
    DEF Acquire, ReadLock, DeleteLock, ReleaseFails, Restart, Goto, Working, SchedInv
  <2> QED BY <2>2, <2>3 DEF Working
<1>6. CASE Lapse
  BY <1>6 DEF Lapse, RunningIsRun, Working
<1> QED BY <1>1, <1>2, <1>3, <1>4, <1>5, <1>6 DEF SchedulersNext

\* schedulerStatusService.ts: for any number of replicas the status row says running
\* only while one is at work, unless a process died or a write of the row was rejected.
THEOREM RowIsTrue == SchedulersSpec => []RunningIsRun
<1>1. SchedulersInit => RunningIsRun
  BY DEF SchedulersInit, RunningIsRun
<1> QED BY <1>1, SchedInit, SchedStep, RowStep, PTL DEF SchedulersSpec

-----------------------------------------------------------------------------
(* Keys, limits and scopes *)

ReqRecords ==
    [pc : {"idle", "rate", "list", "start", "model", "scope", "cap", "count", "check",
           "enqueue", "handed", "done"},
     key : Callers \cup {WrongKey}, want : Models \cup {NoModel, Listing},
     limit : Nat, code : Nat,
     log : {"none", "queued", "failed", "rate_limited", "requires_login"}]

\* A request under way has a key that exists, and past its check a model.
RequestOK(q) ==
    /\ q.pc \notin {"idle", "done"} =>
          q.key \in Callers /\ (q.key \in Keys => key[q.key].status # "none")
    /\ q.pc \in {"start", "model"} => q.want # Listing
    /\ q.pc \in {"scope", "cap", "count", "check", "enqueue"} => q.want \in Models

RequestsOK == req \in [Requests -> ReqRecords] /\ \A r \in Requests : RequestOK(req[r])

\* What the owner has set.
OwnerOK ==
    /\ key \in [Keys -> [status : {"none", "active", "revoked"}, scopes : SUBSET Models, limit : Nat]]
    /\ rotation \in [pc : {"idle", "revoke", "create"}, key : Callers, scopes : SUBSET Models,
                     limit : Nat]
    /\ rotation.pc # "idle" => rotation.key \in Keys /\ key[rotation.key].status # "none"
    /\ on \subseteq Models
    /\ cap \in [Models -> Nat]
    /\ granted \in [Keys -> SUBSET SUBSET Models]
    /\ opened \in [Keys -> SUBSET Models]

\* Every request let through was counted, under a limit it did not exceed.
Counted ==
    /\ hits \in [Callers -> Nat] /\ admitted \in [Callers -> Nat] /\ top \in [Callers -> Nat]
    /\ phits \in [Models -> Nat] /\ padmitted \in [Models -> Nat] /\ ptop \in [Models -> Nat]
    /\ \A k \in Callers : admitted[k] <= hits[k] /\ admitted[k] <= top[k]
    /\ \A m \in Models : padmitted[m] <= phits[m] /\ padmitted[m] <= ptop[m]

\* The scopes of a key were given to it, and a key that is not there opens nothing.
Given ==
    \A k \in Keys : IF key[k].status = "none" THEN opened[k] = {} ELSE key[k].scopes \in granted[k]

GatewayInv == RequestsOK /\ OwnerOK /\ Counted /\ Given /\ ScopesHold

LEMMA GatewayInitInv == GatewayInit => GatewayInv
<1> SUFFICES ASSUME GatewayInit PROVE GatewayInv OBVIOUS
<1>1. RequestsOK
  <2>1. NoRequest \in ReqRecords /\ RequestOK(NoRequest)
    BY DEF NoRequest, ReqRecords, RequestOK
  <2> QED BY <2>1 DEF GatewayInit, RequestsOK
<1>2. OwnerOK
  <2>1. NoRotation \in [pc : {"idle", "revoke", "create"}, key : Callers, scopes : SUBSET Models,
                        limit : Nat] /\ NoRotation.pc = "idle"
    BY DEF NoRotation, Callers
  <2> QED BY <2>1 DEF GatewayInit, OwnerOK
<1>3. Counted
  BY DEF GatewayInit, Counted
<1>4. Given /\ ScopesHold
  BY DEF GatewayInit, Given, ScopesHold
<1> QED BY <1>1, <1>2, <1>3, <1>4 DEF GatewayInv

\* One request takes a step that leaves every key as it is.
LEMMA RequestSteps ==
  ASSUME RequestsOK, NEW r \in Requests, NEW q \in ReqRecords, RequestOK(q),
         req' = [req EXCEPT ![r] = q], UNCHANGED key
  PROVE  RequestsOK'
<1>1. req' \in [Requests -> ReqRecords]
  BY DEF RequestsOK
<1>2. \A s \in Requests : RequestOK(req'[s])
  BY DEF RequestsOK
<1> QED BY <1>1, <1>2 DEF RequestsOK, RequestOK

LEMMA EndsOK ==
  ASSUME RequestsOK, NEW r \in Requests, NEW code \in Nat,
         NEW log \in {"none", "queued", "failed", "rate_limited", "requires_login"},
         Ends(r, code, log), UNCHANGED key
  PROVE  RequestsOK'
<1> DEFINE q == [NoRequest EXCEPT !.pc = "done", !.code = code, !.log = log]
<1>1. q \in ReqRecords /\ RequestOK(q)
  BY DEF NoRequest, ReqRecords, RequestOK
<1> QED BY <1>1, RequestSteps DEF Ends

LEMMA GoesOK ==
  ASSUME RequestsOK, NEW r \in Requests,
         NEW pc \in {"rate", "list", "start", "model", "scope", "cap", "count", "check", "enqueue",
                     "handed"},
         Goes(r, pc), UNCHANGED key, req[r].pc \notin {"idle", "done"},
         pc \in {"start", "model"} => req[r].want # Listing,
         pc \in {"scope", "cap", "count", "check", "enqueue"} => req[r].want \in Models
  PROVE  RequestsOK'
<1> DEFINE q == [req[r] EXCEPT !.pc = pc]
<1>1. q \in ReqRecords /\ RequestOK(q)
  BY DEF RequestsOK, ReqRecords, RequestOK
<1>2. req' = [req EXCEPT ![r] = q]
  BY DEF Goes
<1> QED BY <1>1, <1>2, RequestSteps

LEMMA AnswerOK ==
  ASSUME RequestsOK, NEW r \in Requests, NEW code \in Nat,
         NEW as \in {"failed", "rate_limited", "requires_login"},
         Answer(r, code, as), UNCHANGED key
  PROVE  RequestsOK'
<1>1. req[r].log \in {"none", "queued", "failed", "rate_limited", "requires_login"}
  BY DEF RequestsOK, ReqRecords
<1> QED BY <1>1, EndsOK DEF Answer, Noted

LEMMA AuthenticateOK ==
  ASSUME GatewayInv, NEW r \in Requests, Authenticate(r)
  PROVE  RequestsOK'
<1>1. UNCHANGED key
  BY DEF Authenticate, ownerVars
<1>2. PICK t \in Callers \cup {WrongKey}, w \in Models \cup {NoModel, Listing} :
         LET row == t \in Keys /\ key[t].status = "active"
             ok == row \/ t = EnvKey
         IN  IF ok
             THEN req' = [req EXCEPT ![r] =
                 [pc |-> "rate", key |-> t, want |-> w, code |-> 0, log |-> "none",
                  limit |-> IF row /\ key[t].limit # 0 THEN key[t].limit ELSE EnvLimit]]
             ELSE Ends(r, 401, "none")
  BY DEF Authenticate
<1>3. CASE (t \in Keys /\ key[t].status = "active") \/ t = EnvKey
  <2> DEFINE n == IF (t \in Keys /\ key[t].status = "active") /\ key[t].limit # 0
                  THEN key[t].limit ELSE EnvLimit
             q == [pc |-> "rate", key |-> t, want |-> w, code |-> 0, log |-> "none", limit |-> n]
  <2>1. n \in Nat
    BY GatewayAssumption DEF GatewayInv, OwnerOK
  <2>2. t \in Callers /\ (t \in Keys => key[t].status # "none")
    BY <1>3, GatewayAssumption DEF Callers
  <2> HIDE DEF n
  <2>3. q \in ReqRecords /\ RequestOK(q)
    BY <2>1, <2>2 DEF ReqRecords, RequestOK
  <2>4. req' = [req EXCEPT ![r] = q]
    BY <1>2, <1>3 DEF n
  <2> QED BY <1>1, <2>3, <2>4, RequestSteps DEF GatewayInv
<1>4. CASE ~((t \in Keys /\ key[t].status = "active") \/ t = EnvKey)
  BY <1>1, <1>2, <1>4, EndsOK DEF GatewayInv
<1> QED BY <1>3, <1>4

\* The counters come before the comparisons, so that a request let through is the
\* last one counted.
LEMMA CountOK ==
  ASSUME GatewayInv, NEW r \in Requests, CountHit(r)
  PROVE  RequestsOK' /\ Counted'
<1> DEFINE k == req[r].key
           n == req[r].limit
<1>1. k \in Callers /\ n \in Nat /\ hits[k] \in Nat /\ admitted[k] \in Nat /\ top[k] \in Nat
  BY DEF CountHit, GatewayInv, RequestsOK, RequestOK, ReqRecords, Counted
<1>2. UNCHANGED key /\ hits' = [hits EXCEPT ![k] = @ + 1] /\ UNCHANGED pcountVars
  BY DEF CountHit, ownerVars
<1>3. CASE hits[k] + 1 <= n
  <2>1. /\ admitted' = [admitted EXCEPT ![k] = @ + 1] /\ top' = [top EXCEPT ![k] = Larger(@, n)]
        /\ req' = [req EXCEPT ![r] = [req[r] EXCEPT
               !.pc = IF req[r].want = Listing THEN "list" ELSE "start", !.limit = 0]]
    BY <1>3 DEF CountHit
  <2>2. Larger(top[k], n) \in Nat /\ Larger(top[k], n) >= n /\ Larger(top[k], n) >= top[k]
    BY <1>1 DEF Larger
  <2>3. Counted'
    BY <1>1, <1>2, <1>3, <2>1, <2>2 DEF GatewayInv, Counted, pcountVars
  <2> DEFINE q == [req[r] EXCEPT !.pc = IF req[r].want = Listing THEN "list" ELSE "start",
                                 !.limit = 0]
  <2>4. q \in ReqRecords /\ RequestOK(q)
    <3>1. req[r] \in ReqRecords /\ RequestOK(req[r]) /\ req[r].pc = "rate"
      BY DEF CountHit, GatewayInv, RequestsOK
    <3> QED BY <3>1 DEF ReqRecords, RequestOK
  <2>5. RequestsOK'
    BY <1>2, <2>1, <2>4, RequestSteps DEF GatewayInv
  <2> QED BY <2>3, <2>5
<1>4. CASE ~(hits[k] + 1 <= n)
  <2>1. Ends(r, 429, "rate_limited") /\ UNCHANGED <<admitted, top>>
    BY <1>4 DEF CountHit
  <2>2. Counted'
    BY <1>1, <1>2, <2>1 DEF GatewayInv, Counted, pcountVars
  <2> QED BY <1>2, <2>1, <2>2, EndsOK DEF GatewayInv
<1> QED BY <1>3, <1>4

LEMMA CountProviderOK ==
  ASSUME GatewayInv, NEW r \in Requests, CountProviderHit(r)
  PROVE  RequestsOK' /\ Counted'
<1> DEFINE m == req[r].want
           n == req[r].limit
<1>1. m \in Models /\ n \in Nat /\ phits[m] \in Nat /\ padmitted[m] \in Nat /\ ptop[m] \in Nat
  BY DEF CountProviderHit, GatewayInv, RequestsOK, RequestOK, ReqRecords, Counted
<1>2. UNCHANGED key /\ phits' = [phits EXCEPT ![m] = @ + 1] /\ UNCHANGED countVars
  BY DEF CountProviderHit, ownerVars
<1>3. CASE phits[m] + 1 <= n
  <2>1. /\ padmitted' = [padmitted EXCEPT ![m] = @ + 1] /\ ptop' = [ptop EXCEPT ![m] = Larger(@, n)]
        /\ req' = [req EXCEPT ![r] = [req[r] EXCEPT !.pc = "check", !.limit = 0]]
    BY <1>3 DEF CountProviderHit
  <2>2. Larger(ptop[m], n) \in Nat /\ Larger(ptop[m], n) >= n /\ Larger(ptop[m], n) >= ptop[m]
    BY <1>1 DEF Larger
  <2>3. Counted'
    BY <1>1, <1>2, <1>3, <2>1, <2>2 DEF GatewayInv, Counted, countVars
  <2> DEFINE q == [req[r] EXCEPT !.pc = "check", !.limit = 0]
  <2>4. q \in ReqRecords /\ RequestOK(q)
    <3>1. req[r] \in ReqRecords /\ RequestOK(req[r]) /\ req[r].pc = "count"
      BY DEF CountProviderHit, GatewayInv, RequestsOK
    <3> QED BY <3>1 DEF ReqRecords, RequestOK
  <2>5. RequestsOK'
    BY <1>2, <2>1, <2>4, RequestSteps DEF GatewayInv
  <2> QED BY <2>3, <2>5
<1>4. CASE ~(phits[m] + 1 <= n)
  <2>1. Ends(r, 429, "rate_limited") /\ UNCHANGED <<padmitted, ptop>>
    BY <1>4 DEF CountProviderHit
  <2>2. Counted'
    BY <1>1, <1>2, <2>1 DEF GatewayInv, Counted, countVars
  <2> QED BY <1>2, <2>1, <2>2, EndsOK DEF GatewayInv
<1> QED BY <1>3, <1>4

\* What neither a request's place nor a counter shows.
LEMMA OthersKept ==
  ASSUME GatewayInv, UNCHANGED <<ownerVars, opened>>
  PROVE  OwnerOK' /\ Given' /\ ScopesHold'
<1>1. UNCHANGED <<key, rotation, on, cap, granted, opened>>
  BY DEF ownerVars
<1>2. OwnerOK'
  BY <1>1 DEF GatewayInv, OwnerOK
<1>3. Given'
  BY <1>1 DEF GatewayInv, Given
<1>4. ScopesHold'
  BY <1>1 DEF GatewayInv, ScopesHold
<1> QED BY <1>2, <1>3, <1>4

\* What a key may use now is in a list it was given, or that list is empty.
LEMMA AllowedGiven ==
  ASSUME GatewayInv, NEW k \in Keys, key[k].status # "none", NEW m \in Allowed(k)
  PROVE  m \in Models /\ \E ms \in granted[k] : ms = {} \/ m \in ms
<1>1. key[k].scopes \in granted[k] /\ key[k].scopes \subseteq Models
  BY DEF GatewayInv, OwnerOK, Given
<1>2. k # EnvKey
  BY GatewayAssumption
<1> QED BY <1>1, <1>2 DEF Allowed

LEMMA OpensOK ==
  ASSUME GatewayInv, NEW k \in Callers, k \in Keys => key[k].status # "none",
         NEW ms \in SUBSET Allowed(k), Opens(k, ms), UNCHANGED ownerVars
  PROVE  OwnerOK' /\ Given' /\ ScopesHold'
<1>1. UNCHANGED <<key, rotation, on, cap, granted>>
  BY DEF ownerVars
<1>2. CASE k \notin Keys
  BY <1>2, OthersKept DEF Opens
<1>3. CASE k \in Keys
  <2>1. opened' = [opened EXCEPT ![k] = @ \cup ms]
    BY <1>3 DEF Opens
  <2>2. ms \subseteq Models /\ \A m \in ms : \E given \in granted[k] : given = {} \/ m \in given
    BY <1>3, AllowedGiven
  <2>3. opened' \in [Keys -> SUBSET Models]
    BY <1>3, <2>1, <2>2 DEF GatewayInv, OwnerOK
  <2>4. \A j \in Keys : opened'[j] = IF j = k THEN opened[j] \cup ms ELSE opened[j]
    BY <2>1 DEF GatewayInv, OwnerOK
  <2>5. OwnerOK'
    BY <1>1, <2>3 DEF GatewayInv, OwnerOK
  <2>6. Given'
    BY <1>1, <2>4 DEF GatewayInv, Given
  <2>7. ScopesHold'
    BY <1>1, <2>2, <2>4 DEF GatewayInv, ScopesHold
  <2> QED BY <2>5, <2>6, <2>7
<1> QED BY <1>2, <1>3

LEMMA CountedKept ==
  ASSUME Counted, UNCHANGED <<countVars, pcountVars>>
  PROVE  Counted'
BY DEF Counted, countVars, pcountVars

LEMMA ListOK ==
  ASSUME GatewayInv, NEW r \in Requests, ListModels(r)
  PROVE  GatewayInv'
<1>1. req[r].key \in Callers /\ (req[r].key \in Keys => key[req[r].key].status # "none")
  BY DEF ListModels, GatewayInv, RequestsOK, RequestOK
<1>2. UNCHANGED ownerVars /\ UNCHANGED key /\ UNCHANGED <<countVars, pcountVars>>
  BY DEF ListModels, ownerVars
<1>3. OwnerOK' /\ Given' /\ ScopesHold'
  BY <1>1, <1>2, OpensOK DEF ListModels
<1>4. RequestsOK'
  BY <1>2, EndsOK DEF ListModels, GatewayInv
<1>5. Counted'
  BY <1>2, CountedKept DEF GatewayInv
<1> QED BY <1>3, <1>4, <1>5 DEF GatewayInv

LEMMA ScopeOK ==
  ASSUME GatewayInv, NEW r \in Requests, CheckScope(r)
  PROVE  GatewayInv'
<1>1. /\ req[r].key \in Callers /\ (req[r].key \in Keys => key[req[r].key].status # "none")
      /\ req[r].want \in Models /\ req[r].pc = "scope"
  BY DEF CheckScope, GatewayInv, RequestsOK, RequestOK
<1>2. UNCHANGED ownerVars /\ UNCHANGED key /\ UNCHANGED <<countVars, pcountVars>>
  BY DEF CheckScope, ownerVars
<1>3. Counted'
  BY <1>2, CountedKept DEF GatewayInv
<1>4. CASE req[r].want \in Allowed(req[r].key)
  <2>1. Goes(r, "cap") /\ Opens(req[r].key, {req[r].want})
    BY <1>4 DEF CheckScope
  <2>2. RequestsOK'
    BY <1>1, <1>2, <2>1, GoesOK DEF GatewayInv
  <2>3. OwnerOK' /\ Given' /\ ScopesHold'
    BY <1>1, <1>2, <1>4, <2>1, OpensOK
  <2> QED BY <1>3, <2>2, <2>3 DEF GatewayInv
<1>5. CASE req[r].want \notin Allowed(req[r].key)
  <2>1. Answer(r, 403, "failed") /\ UNCHANGED opened
    BY <1>5 DEF CheckScope
  <2>2. RequestsOK'
    BY <1>2, <2>1, AnswerOK DEF GatewayInv
  <2> QED BY <1>2, <1>3, <2>1, <2>2, OthersKept DEF GatewayInv
<1> QED BY <1>4, <1>5

\* The steps of a request that count nothing and open nothing.
LEMMA PlainOK ==
  ASSUME GatewayInv, NEW r \in Requests,
         \/ StartUsage(r) \/ CheckModel(r) \/ ReadCap(r) \/ CapUnavailable(r)
         \/ CheckProvider(r) \/ Enqueue(r) \/ Break(r)
  PROVE  GatewayInv'
<1>1. UNCHANGED <<ownerVars, countVars, pcountVars, opened>> /\ UNCHANGED key
  BY DEF StartUsage, CheckModel, ReadCap, CapUnavailable, CheckProvider, Enqueue, Break, ownerVars
<1>2. req[r] \in ReqRecords /\ RequestOK(req[r])
  BY DEF GatewayInv, RequestsOK
<1>3. CASE StartUsage(r)
  <2> DEFINE q == [req[r] EXCEPT !.pc = "model", !.log = "queued"]
  <2>1. q \in ReqRecords /\ RequestOK(q)
    BY <1>2, <1>3 DEF StartUsage, ReqRecords, RequestOK
  <2>2. req' = [req EXCEPT ![r] = q] \/ Goes(r, "model")
    BY <1>3 DEF StartUsage
  <2>3. req[r].pc \notin {"idle", "done"} /\ req[r].want # Listing
    BY <1>2, <1>3 DEF StartUsage, RequestOK
  <2> QED BY <1>1, <2>1, <2>2, <2>3, RequestSteps, GoesOK, CountedKept, OthersKept DEF GatewayInv
<1>4. CASE CheckModel(r)
  <2>1. \/ Answer(r, 400, "failed") \/ Answer(r, 403, "failed")
        \/ /\ req[r].want \in on /\ Goes(r, IF req[r].key = EnvKey THEN "cap" ELSE "scope")
    <3>1. req[r].want # Listing
      BY <1>2, <1>4 DEF CheckModel, RequestOK
    <3>2. req[r].want = NoModel \/ req[r].want \in Models \ on \/ req[r].want \in on
      BY <1>2, <3>1 DEF ReqRecords
    <3>3. NoModel \notin Models /\ on \subseteq Models
      BY GatewayAssumption DEF GatewayInv, OwnerOK
    <3>4. CASE req[r].want = NoModel
      BY <1>4, <3>3, <3>4 DEF CheckModel
    <3>5. CASE req[r].want \in Models \ on
      BY <1>4, <3>3, <3>5 DEF CheckModel
    <3>6. CASE req[r].want \in on
      BY <1>4, <3>3, <3>6 DEF CheckModel
    <3> QED BY <3>2, <3>4, <3>5, <3>6
  <2>2. on \subseteq Models /\ req[r].pc \notin {"idle", "done"}
    BY <1>4 DEF CheckModel, GatewayInv, OwnerOK
  <2>3. RequestsOK'
    BY <1>1, <2>1, <2>2, AnswerOK, GoesOK DEF GatewayInv
  <2> QED BY <1>1, <2>3, CountedKept, OthersKept DEF GatewayInv
<1>5. CASE ReadCap(r)
  <2> DEFINE q == [req[r] EXCEPT !.pc = "count",
                      !.limit = IF cap[req[r].want] = 0 THEN EnvCap ELSE cap[req[r].want]]
  <2>1. cap[req[r].want] \in Nat /\ EnvCap \in Nat
    BY <1>2, <1>5, GatewayAssumption DEF ReadCap, RequestOK, GatewayInv, OwnerOK
  <2>2. q \in ReqRecords /\ RequestOK(q)
    BY <1>2, <1>5, <2>1 DEF ReadCap, ReqRecords, RequestOK
  <2>3. RequestsOK'
    BY <1>1, <1>5, <2>2, RequestSteps DEF ReadCap, GatewayInv
  <2> QED BY <1>1, <2>3, CountedKept, OthersKept DEF GatewayInv
<1>6. CASE CapUnavailable(r) \/ Break(r)
  <2>1. /\ req[r].log \in {"none", "queued", "failed", "rate_limited", "requires_login"}
        /\ Noted(r, "failed") \in {"none", "queued", "failed", "rate_limited", "requires_login"}
    BY <1>2 DEF ReqRecords, Noted
  <2>2. RequestsOK'
    BY <1>1, <1>6, <2>1, EndsOK DEF CapUnavailable, Break, GatewayInv
  <2> QED BY <1>1, <2>2, CountedKept, OthersKept DEF GatewayInv
<1>7. CASE CheckProvider(r)
  <2>1. req[r].want \in Models /\ req[r].pc \notin {"idle", "done"}
    BY <1>2, <1>7 DEF CheckProvider, RequestOK
  <2>2. RequestsOK'
    BY <1>1, <1>7, <2>1, AnswerOK, GoesOK DEF CheckProvider, GatewayInv
  <2> QED BY <1>1, <2>2, CountedKept, OthersKept DEF GatewayInv
<1>8. CASE Enqueue(r)
  <2>1. Noted(r, "failed") \in {"none", "queued", "failed", "rate_limited", "requires_login"}
    BY DEF Noted
  <2>2. RequestsOK'
    BY <1>1, <1>8, <2>1, EndsOK, GoesOK DEF Enqueue, GatewayInv
  <2> QED BY <1>1, <2>2, CountedKept, OthersKept DEF GatewayInv
<1> QED BY <1>3, <1>4, <1>5, <1>6, <1>7, <1>8

LEMMA RequestOKStep ==
  ASSUME GatewayInv, NEW r \in Requests,
         \/ Authenticate(r) \/ CountHit(r) \/ ListModels(r) \/ StartUsage(r)
         \/ CheckModel(r) \/ CheckScope(r) \/ ReadCap(r) \/ CountProviderHit(r)
         \/ CapUnavailable(r) \/ CheckProvider(r) \/ Enqueue(r) \/ Break(r)
  PROVE  GatewayInv'
<1>1. CASE Authenticate(r)
  <2>1. UNCHANGED <<ownerVars, countVars, pcountVars, opened>>
    BY <1>1 DEF Authenticate
  <2> QED BY <1>1, <2>1, AuthenticateOK, CountedKept, OthersKept DEF GatewayInv
<1>2. CASE CountHit(r)
  BY <1>2, CountOK, OthersKept DEF CountHit, GatewayInv
<1>3. CASE CountProviderHit(r)
  BY <1>3, CountProviderOK, OthersKept DEF CountProviderHit, GatewayInv
<1> QED BY <1>1, <1>2, <1>3, ListOK, ScopeOK, PlainOK

\* The owner writes one key's row: with scopes that count as given, and nothing
\* that was given to a key that was there is forgotten.
LEMMA KeyWritten ==
  ASSUME GatewayInv, NEW k \in Keys,
         NEW row \in [status : {"none", "active", "revoked"}, scopes : SUBSET Models, limit : Nat],
         NEW lists \in SUBSET SUBSET Models,
         key' = [key EXCEPT ![k] = row], granted' = [granted EXCEPT ![k] = lists],
         row.status # "none", row.scopes \in lists,
         key[k].status = "none" \/ granted[k] \subseteq lists,
         UNCHANGED <<req, countVars, pcountVars, opened, on, cap>>,
         \/ UNCHANGED rotation
         \/ /\ rotation'.pc = "idle" \/ (rotation'.pc = "create" /\ rotation'.key = k)
            /\ rotation' \in [pc : {"idle", "revoke", "create"}, key : Callers,
                              scopes : SUBSET Models, limit : Nat]
  PROVE  GatewayInv'
<1>1. \A j \in Keys : /\ key'[j] = IF j = k THEN row ELSE key[j]
                      /\ granted'[j] = IF j = k THEN lists ELSE granted[j]
                      /\ opened'[j] = opened[j]
  BY DEF GatewayInv, OwnerOK
<1>2. RequestsOK'
  <2>1. \A q \in ReqRecords : RequestOK(q) => RequestOK(q)'
    BY <1>1 DEF RequestOK
  <2> QED BY <2>1 DEF GatewayInv, RequestsOK
<1>3. OwnerOK'
  <2>1. /\ key' \in [Keys -> [status : {"none", "active", "revoked"}, scopes : SUBSET Models, limit : Nat]]
        /\ granted' \in [Keys -> SUBSET SUBSET Models]
    BY DEF GatewayInv, OwnerOK
  <2>2. CASE UNCHANGED rotation
    BY <1>1, <2>1, <2>2 DEF GatewayInv, OwnerOK
  <2>3. CASE ~UNCHANGED rotation
    BY <1>1, <2>1, <2>3 DEF GatewayInv, OwnerOK
  <2> QED BY <2>2, <2>3
<1>4. Counted'
  BY CountedKept DEF GatewayInv
<1>5. Given'
  BY <1>1 DEF GatewayInv, Given
<1>6. ScopesHold'
  <2> SUFFICES ASSUME NEW j \in Keys, NEW m \in opened[j]
      PROVE  \E ms \in granted'[j] : ms = {} \/ m \in ms
    BY <1>1 DEF ScopesHold
  <2>1. PICK ms \in granted[j] : ms = {} \/ m \in ms
    BY DEF GatewayInv, ScopesHold
  <2>2. j = k => key[k].status # "none"
    BY DEF GatewayInv, Given
  <2> QED BY <1>1, <2>1, <2>2
<1> QED BY <1>2, <1>3, <1>4, <1>5, <1>6 DEF GatewayInv

LEMMA OwnerOKStep ==
  ASSUME GatewayInv, Owner \/ RotationFails
  PROVE  GatewayInv'
<1> USE DEF ownerVars
<1>1. key \in [Keys -> [status : {"none", "active", "revoked"}, scopes : SUBSET Models, limit : Nat]]
  BY DEF GatewayInv, OwnerOK
<1>2. granted \in [Keys -> SUBSET SUBSET Models]
  BY DEF GatewayInv, OwnerOK
<1>3. Caps \subseteq Nat
  BY GatewayAssumption
<1>4. ASSUME NEW k \in Keys, NEW ms \in SUBSET Models, NEW n \in Caps \cup {0}, Owner, CreateKey(k, ms, n)
      PROVE  GatewayInv'
  <2> DEFINE row == [status |-> "active", scopes |-> ms, limit |-> n]
  <2>1. row \in [status : {"none", "active", "revoked"}, scopes : SUBSET Models, limit : Nat]
    BY <1>3
  <2>2. {ms} \in SUBSET SUBSET Models /\ row.scopes \in {ms} /\ row.status # "none"
    OBVIOUS
  <2>3. key' = [key EXCEPT ![k] = row] /\ granted' = [granted EXCEPT ![k] = {ms}] /\ key[k].status = "none"
    BY <1>4 DEF CreateKey
  <2>4. UNCHANGED <<req, countVars, pcountVars, opened, on, cap, rotation>>
    BY <1>4 DEF CreateKey, Owner
  <2> HIDE DEF row
  <2> QED BY <2>1, <2>2, <2>3, <2>4, KeyWritten
<1>5. ASSUME NEW k \in Keys, Owner, Revoke(k)
      PROVE  GatewayInv'
  <2> DEFINE row == [key[k] EXCEPT !.status = "revoked"]
  <2>1. row \in [status : {"none", "active", "revoked"}, scopes : SUBSET Models, limit : Nat]
    BY <1>1
  <2>2. row.scopes \in granted[k] /\ granted[k] \in SUBSET SUBSET Models
    BY <1>1, <1>2, <1>5 DEF Revoke, GatewayInv, Given
  <2>3. granted' = [granted EXCEPT ![k] = granted[k]]
    BY <1>2, <1>5 DEF Revoke
  <2>4. key' = [key EXCEPT ![k] = row] /\ row.status # "none"
    BY <1>1, <1>5 DEF Revoke
  <2>5. UNCHANGED <<req, countVars, pcountVars, opened, on, cap, rotation>>
    BY <1>5 DEF Revoke, Owner
  <2> QED BY <2>1, <2>2, <2>3, <2>4, <2>5, KeyWritten
<1>6. ASSUME NEW k \in Keys, NEW ms \in SUBSET Models, Owner, SetScopes(k, ms)
      PROVE  GatewayInv'
  <2> DEFINE row == [key[k] EXCEPT !.scopes = ms]
             lists == granted[k] \cup {ms}
  <2>1. row \in [status : {"none", "active", "revoked"}, scopes : SUBSET Models, limit : Nat]
    BY <1>1
  <2>2. row.scopes \in lists /\ lists \in SUBSET SUBSET Models /\ granted[k] \subseteq lists
    BY <1>1, <1>2
  <2>3. granted' = [granted EXCEPT ![k] = lists]
    BY <1>6 DEF SetScopes
  <2>4. key' = [key EXCEPT ![k] = row] /\ row.status # "none"
    BY <1>1, <1>6 DEF SetScopes
  <2>5. UNCHANGED <<req, countVars, pcountVars, opened, on, cap, rotation>>
    BY <1>6 DEF SetScopes, Owner
  <2> HIDE DEF row, lists
  <2> QED BY <2>1, <2>2, <2>3, <2>4, <2>5, KeyWritten
<1>7. ASSUME NEW k \in Keys, NEW n \in Caps \cup {0}, Owner, SetLimit(k, n)
      PROVE  GatewayInv'
  <2> DEFINE row == [key[k] EXCEPT !.limit = n]
  <2>1. row \in [status : {"none", "active", "revoked"}, scopes : SUBSET Models, limit : Nat]
    BY <1>1, <1>3
  <2>2. row.scopes \in granted[k] /\ granted[k] \in SUBSET SUBSET Models
    BY <1>1, <1>2, <1>7 DEF SetLimit, GatewayInv, Given
  <2>3. granted' = [granted EXCEPT ![k] = granted[k]]
    BY <1>2, <1>7 DEF SetLimit
  <2>4. key' = [key EXCEPT ![k] = row] /\ row.status # "none"
    BY <1>1, <1>7 DEF SetLimit
  <2>5. UNCHANGED <<req, countVars, pcountVars, opened, on, cap, rotation>>
    BY <1>7 DEF SetLimit, Owner
  <2> QED BY <2>1, <2>2, <2>3, <2>4, <2>5, KeyWritten
<1>8. ASSUME NEW k \in Keys, NEW keep \in BOOLEAN, Owner, BeginRotation(k, keep)
      PROVE  GatewayInv'
  <2>1. /\ rotation' = [pc |-> "revoke", key |-> k, limit |-> key[k].limit,
                        scopes |-> IF keep THEN key[k].scopes ELSE {}]
        /\ key[k].status # "none"
        /\ UNCHANGED <<req, key, on, cap, granted, countVars, pcountVars, opened>>
    BY <1>8 DEF BeginRotation, Owner
  <2>2. /\ rotation' \in [pc : {"idle", "revoke", "create"}, key : Callers, scopes : SUBSET Models,
                          limit : Nat]
        /\ rotation'.key = k
    BY <1>1, <2>1 DEF Callers
  <2>3. OwnerOK'
    BY <2>1, <2>2 DEF GatewayInv, OwnerOK
  <2>4. RequestsOK' /\ Given'
    BY <2>1 DEF GatewayInv, RequestsOK, RequestOK, Given
  <2>5. ScopesHold'
    BY <2>1 DEF GatewayInv, ScopesHold
  <2> QED BY <2>1, <2>3, <2>4, <2>5, CountedKept DEF GatewayInv
<1>9. ASSUME Owner, RevokeRotated
      PROVE  GatewayInv'
  <2> DEFINE k == rotation.key
             row == [key[k] EXCEPT !.status = "revoked"]
  <2>1. k \in Keys /\ key[k].status # "none"
    BY <1>9 DEF RevokeRotated, GatewayInv, OwnerOK
  <2>2. row \in [status : {"none", "active", "revoked"}, scopes : SUBSET Models, limit : Nat]
    BY <1>1, <2>1
  <2>3. row.scopes \in granted[k] /\ granted[k] \in SUBSET SUBSET Models
    BY <1>1, <1>2, <2>1 DEF GatewayInv, Given
  <2>4. granted' = [granted EXCEPT ![k] = granted[k]]
    BY <1>2, <1>9, <2>1 DEF RevokeRotated
  <2>5. key' = [key EXCEPT ![k] = row] /\ row.status # "none"
    BY <1>1, <1>9, <2>1 DEF RevokeRotated
  <2>6. UNCHANGED <<req, countVars, pcountVars, opened, on, cap>>
    BY <1>9 DEF RevokeRotated, Owner
  <2>7. /\ rotation'.pc = "create" /\ rotation'.key = k
        /\ rotation' \in [pc : {"idle", "revoke", "create"}, key : Callers, scopes : SUBSET Models,
                          limit : Nat]
    BY <1>9 DEF RevokeRotated, GatewayInv, OwnerOK
  <2> HIDE DEF k, row
  <2> QED BY <2>1, <2>2, <2>3, <2>4, <2>5, <2>6, <2>7, KeyWritten
<1>10. ASSUME NEW k \in Keys, Owner, CreateRotated(k)
       PROVE  GatewayInv'
  <2> DEFINE row == [status |-> "active", scopes |-> rotation.scopes, limit |-> rotation.limit]
             lists == {rotation.scopes}
  <2>1. row \in [status : {"none", "active", "revoked"}, scopes : SUBSET Models, limit : Nat]
    BY DEF GatewayInv, OwnerOK
  <2>2. row.scopes \in lists /\ lists \in SUBSET SUBSET Models /\ row.status # "none"
    BY DEF GatewayInv, OwnerOK
  <2>3. key' = [key EXCEPT ![k] = row] /\ granted' = [granted EXCEPT ![k] = lists] /\ key[k].status = "none"
    BY <1>10 DEF CreateRotated
  <2>4. UNCHANGED <<req, countVars, pcountVars, opened, on, cap>>
    BY <1>10 DEF CreateRotated, Owner
  <2>5. rotation'.pc = "idle" /\ rotation' \in [pc : {"idle", "revoke", "create"}, key : Callers,
                                               scopes : SUBSET Models, limit : Nat]
    BY <1>10 DEF CreateRotated, NoRotation, Callers
  <2> HIDE DEF row, lists
  <2> QED BY <2>1, <2>2, <2>3, <2>4, <2>5, KeyWritten
<1>11. ASSUME Owner \/ RotationFails,
              \/ \E ms \in SUBSET Models : UpdateModelPreferences(ms)
              \/ \E m \in Models, n \in Caps \cup {0} : UpdateProviderRateLimit(m, n)
              \/ RotationFails
       PROVE  GatewayInv'
  <2>1. UNCHANGED <<req, key, granted, countVars, pcountVars, opened>>
    BY <1>11 DEF Owner, RotationFails, UpdateModelPreferences, UpdateProviderRateLimit
  <2>2. OwnerOK'
    <3>1. UNCHANGED rotation \/ rotation' = NoRotation
      BY <1>11 DEF RotationFails, UpdateModelPreferences, UpdateProviderRateLimit
    <3>2. NoRotation \in [pc : {"idle", "revoke", "create"}, key : Callers, scopes : SUBSET Models,
                          limit : Nat] /\ NoRotation.pc = "idle"
      BY DEF NoRotation, Callers
    <3>3. on' \subseteq Models /\ cap' \in [Models -> Nat]
      BY <1>3, <1>11 DEF RotationFails, UpdateModelPreferences, UpdateProviderRateLimit, GatewayInv,
                        OwnerOK
    <3> QED BY <2>1, <3>1, <3>2, <3>3 DEF GatewayInv, OwnerOK
  <2>3. RequestsOK' /\ Given'
    BY <2>1 DEF GatewayInv, RequestsOK, RequestOK, Given
  <2>4. ScopesHold'
    BY <2>1 DEF GatewayInv, ScopesHold
  <2> QED BY <2>1, <2>2, <2>3, <2>4, CountedKept DEF GatewayInv
<1> QED BY <1>4, <1>5, <1>6, <1>7, <1>8, <1>9, <1>10, <1>11 DEF Owner

LEMMA GatewayStep == GatewayInv /\ [GatewayNext]_gatewayVars => GatewayInv'
<1> SUFFICES ASSUME GatewayInv, [GatewayNext]_gatewayVars PROVE GatewayInv' OBVIOUS
<1>1. CASE UNCHANGED gatewayVars \/ \E m \in Models : Reconnect(m)
  <2>1. UNCHANGED <<req, key, rotation, on, cap, granted, countVars, pcountVars, opened>>
    BY <1>1 DEF gatewayVars, ownerVars, Reconnect
  <2>2. RequestsOK'
    BY <2>1 DEF GatewayInv, RequestsOK, RequestOK
  <2> QED BY <2>1, <2>2, CountedKept, OthersKept DEF GatewayInv, ownerVars
<1>2. CASE NextMinute
  <2>1. UNCHANGED <<req, ownerVars, opened>> /\ UNCHANGED key
    BY <1>2 DEF NextMinute, ownerVars
  <2>2. Counted'
    BY <1>2 DEF NextMinute, Counted
  <2>3. RequestsOK'
    BY <2>1 DEF GatewayInv, RequestsOK, RequestOK
  <2> QED BY <2>1, <2>2, <2>3, OthersKept DEF GatewayInv
<1> QED BY <1>1, <1>2, RequestOKStep, OwnerOKStep DEF GatewayNext

\* The inductive invariant of the endpoint for programs (openaiCompat.ts, internalApiAuth.ts).
THEOREM GatewayInvariant == GatewaySpec => []GatewayInv
  BY GatewayInitInv, GatewayStep, PTL DEF GatewaySpec

\* README.md:171: for any number of keys, models and requests, a minute lets no more
\* through than the highest limit that was read.
THEOREM LimitSafety == GatewaySpec => []WithinLimits
<1>1. GatewayInv => WithinLimits
  BY DEF GatewayInv, Counted, WithinLimits
<1> QED BY <1>1, GatewayInvariant, PTL

\* README.md:169: for any number of keys and models, a key never reaches a model
\* that no list of its owner names.
THEOREM ScopeSafety == GatewaySpec => []ScopesHold
<1>1. GatewayInv => ScopesHold
  BY DEF GatewayInv
<1> QED BY <1>1, GatewayInvariant, PTL

-----------------------------------------------------------------------------
(* Health incidents.                                                       *)

Verdicts == Issues \cup {"connected"}
IncidentRecords == [state : {"none", "open", "resolved"}, issue : Verdicts, count : Nat,
                    event : {0} \cup Events]
RefreshRecords == [pc : {"idle", "observe", "bump", "close", "create"}, issue : Verdicts,
                   row : 0..MaxRows, count : Nat]
EventKinds == Verdicts \cup {"none", Spike}
LoadRecords == [pc : {"idle", "analyse", "look", "create", "link", "write"}, issue : Verdicts,
                at : 0..MaxRows, spike : {0} \cup Events, now : {0} \cup Events, row : 0..MaxRows]

IncidentTypes ==
    /\ status \in Verdicts /\ validated \in 0..MaxRows
    /\ incident \in [Rows -> IncidentRecords]
    /\ refresh \in [Refreshes -> RefreshRecords]
    /\ event \in [Events -> EventKinds]
    /\ load \in [Loads -> LoadRecords]
    /\ seen \in [Rows -> Nat]
    /\ unsure \subseteq Loads /\ blurred \subseteq Rows /\ spiked \subseteq Rows

\* The loops of a load are at one of its events, the status's or a spike's.
LoopAt(x) ==
    /\ x.spike = 0 \/ x.spike > MaxRows
    /\ x.pc \in {"look", "create", "link", "write"} => x.now # 0 /\ x.now \in {x.at, x.spike}

\* Rows are used one after the other, and a refresh or load that has found one
\* writes to it.
RowsFound ==
    /\ \A i, k \in Rows : i < k /\ incident[i].state = "none" => incident[k].state = "none"
    /\ \A r \in Refreshes : refresh[r].pc \in {"bump", "close"} =>
          refresh[r].row # 0 /\ incident[refresh[r].row].state # "none"
    /\ \A r \in Refreshes :
          refresh[r].pc \in {"bump", "close", "create"} => refresh[r].issue # "connected"
    /\ \A l \in Loads : load[l].at \in 0..validated /\ LoopAt(load[l])
    /\ \A l \in Loads : load[l].pc = "idle" => load[l] = NoLoad
    /\ \A l \in Loads : load[l].pc = "write" => load[l].row # 0

\* The latest open incident is of this issue.
LatestIs(v) == Open # {} /\ incident[Latest].issue = v

\* Unless the status is stale, one refresh at most is under way, about the
\* present status; the open incident it is to bump tells that status.
RefreshTells ==
    /\ ~stale => \A r \in Busy : /\ Busy = {r} /\ refresh[r].issue = status
                                 /\ refresh[r].pc = "bump" => LatestIs(status)
    /\ OpenTellsStatus

\* Until two refreshes overlap, one is under way at most, and what it has read
\* of the only open incident still holds.
RefreshCounts ==
    ~doubled =>
        /\ \A r, s \in Busy : r = s
        /\ \A i, k \in Open : i = k
        /\ \A i \in Open : incident[i].count = seen[i]
        /\ \A r \in Refreshes :
              /\ refresh[r].pc = "bump" => refresh[r].count = seen[refresh[r].row]
              /\ refresh[r].pc = "close" => Open \subseteq {refresh[r].row}
              /\ refresh[r].pc = "create" => Open = {}

\* Validation n found v: so does everything say that still refers to it.
Says(n, v) ==
    /\ n \in 1..validated
    /\ n = validated => status = v
    /\ \A l \in Loads : load[l].at = n => load[l].issue = v
    /\ event[n] # "none" => event[n] = v

\* A load under which nothing changed tells of the latest open incident's issue; by
\* the time it comes to a spike, that incident is linked.
Sure(l) ==
    /\ LatestIs(load[l].issue)
    /\ load[l].pc = "write" => load[l].row = Latest /\ load[l].now = load[l].at
    /\ load[l].pc = "link" /\ load[l].now # load[l].at => incident[Latest].event # 0

\* The references agree.
LinksAgree ==
    /\ \A l \in Loads : load[l].at # 0 => Says(load[l].at, load[l].issue)
    /\ \A n \in Rows : event[n] # "none" => Says(n, event[n])
    /\ \A n \in Events \ Rows : event[n] \in {"none", Spike}
    /\ \A i \in Rows \ blurred : incident[i].event # 0 =>
          IF i \in spiked THEN incident[i].event \in Events \ Rows
          ELSE incident[i].event \in Rows /\ Says(incident[i].event, incident[i].issue)
    /\ \A l \in Loads \ unsure : load[l].at # 0 => Sure(l)

\* The inductive invariant.
IncidentsInv == IncidentTypes /\ RowsFound /\ RefreshTells /\ RefreshCounts /\ LinksAgree

LEMMA InitIncidents == IncidentsInit => IncidentsInv
<1> SUFFICES ASSUME IncidentsInit PROVE IncidentsInv
  OBVIOUS
<1>1. MaxRows \in Nat /\ Rows = 1..MaxRows
  BY IncidentsAssumption DEF Rows
<1>2. IncidentTypes
  BY <1>1 DEF IncidentsInit, IncidentTypes, IncidentRecords, RefreshRecords, EventKinds,
              LoadRecords, NoRefresh, NoLoad, Verdicts
<1>3. /\ \A r \in Refreshes : refresh[r].pc = "idle"
      /\ \A l \in Loads : load[l] = NoLoad /\ load[l].pc = "idle" /\ load[l].at = 0 /\ LoopAt(load[l])
      /\ \A i \in Rows : incident[i].state = "none" /\ incident[i].event = 0
      /\ \A n \in Events : event[n] = "none"
  BY DEF IncidentsInit, NoRefresh, NoLoad, LoopAt
<1>4. Open = {} /\ Busy = {}
  BY <1>3 DEF Open, Busy
<1>5. RowsFound
  BY <1>3 DEF RowsFound, IncidentsInit
<1>6. RefreshTells /\ RefreshCounts
  BY <1>3, <1>4 DEF RefreshTells, RefreshCounts, OpenTellsStatus, IncidentsInit
<1>7. LinksAgree
  <2>1. Rows \subseteq Events
    BY <1>1, IncidentsAssumption DEF Rows, Events
  <2> QED BY <1>3, <2>1 DEF LinksAgree
<1> QED BY <1>2, <1>5, <1>6, <1>7 DEF IncidentsInv

\* What the query for the latest open incident returns.
LatestReturns == /\ Open \subseteq Rows
                 /\ Open = {} => Latest = 0
                 /\ Open # {} => Latest \in Open /\ \A k \in Open : Latest >= k

LEMMA LatestProven == LatestReturns
<1>1. Open \subseteq 0..MaxRows /\ MaxRows \in Nat /\ Open \subseteq Rows
  BY IncidentsAssumption DEF Open, Rows
<1>2. ASSUME Open # {} PROVE Latest \in Open /\ \A k \in Open : Latest >= k
  <2>1. \E x \in Open : \A y \in Open : x >= y
    BY <1>1, <1>2, NatGreatest
  <2> HIDE DEF Open
  <2>2. Latest = CHOOSE x \in Open : \A y \in Open : x >= y
    BY <1>2 DEF Latest, Max
  <2> QED BY <2>1, <2>2
<1> QED BY <1>1, <1>2 DEF Latest, LatestReturns

LEMMA LatestProps ==
  /\ Open \subseteq Rows
  /\ Open = {} => Latest = 0
  /\ Open # {} => Latest \in Open /\ \A k \in Open : Latest >= k
  BY LatestProven DEF LatestReturns

LEMMA LatestNext == LatestReturns'
  BY LatestProven, PTL

\* Where the incidents keep their state and issue the latest open one is the same.
LEMMA LatestKept ==
  ASSUME Open' = Open, \A i \in Rows : incident'[i].issue = incident[i].issue, NEW v
  PROVE  Latest' = Latest /\ (LatestIs(v)' <=> LatestIs(v))
<1>1. Latest' = Latest
  BY DEF Latest
<1>2. Open # {} => Latest \in Rows
  BY LatestProps
<1> QED BY <1>1, <1>2 DEF LatestIs

\* Loads and their events leave the refreshes alone.
LEMMA RefreshKept ==
  ASSUME IncidentsInv, UNCHANGED <<status, refresh, stale, doubled, seen>>, Open' = Open,
         \A i \in Rows : incident'[i].issue = incident[i].issue
                          /\ incident'[i].count = incident[i].count
  PROVE  RefreshTells' /\ RefreshCounts'
<1>1. Busy' = Busy
  BY DEF Busy
<1>2. RefreshTells'
  <2>1. Latest' = Latest /\ (LatestIs(status)' <=> LatestIs(status))
    <3>1. \A v : LatestIs(v)' <=> LatestIs(v)
      BY LatestKept
    <3> QED BY <3>1, LatestKept DEF LatestIs
  <2>2. Open # {} => Latest \in Rows
    BY LatestProps
  <2> QED BY <1>1, <2>1, <2>2 DEF IncidentsInv, RefreshTells, OpenTellsStatus
<1>3. RefreshCounts'
  BY <1>1, LatestProps DEF IncidentsInv, RefreshCounts
<1> QED BY <1>2, <1>3

\* The refreshes, the user and others leave the loads alone, or make them unsure.
LEMMA LinksKept ==
  ASSUME IncidentsInv, UNCHANGED <<load, event, blurred, spiked>>,
         UNCHANGED rowVars \/ (validated' = validated + 1 /\ validated' \in Nat),
         \A i \in Rows : incident'[i].event # 0 =>
             incident'[i].event = incident[i].event /\ incident'[i].issue = incident[i].issue,
         \/ Disturbs
         \/ /\ unsure' = unsure /\ Open' = Open
            /\ \A i \in Rows : /\ incident'[i].issue = incident[i].issue
                               /\ incident'[i].event = incident[i].event
  PROVE  LinksAgree'
<1>1. validated \in Nat
  BY IncidentsAssumption DEF IncidentsInv, IncidentTypes
<1>2. ASSUME NEW n, NEW v, Says(n, v) PROVE Says(n, v)'
  BY <1>1, <1>2 DEF Says, rowVars
<1>3. \A l \in Loads : load'[l].at # 0 => Says(load[l].at, load[l].issue)'
  BY <1>2 DEF IncidentsInv, LinksAgree
<1>4. \A n \in Rows : event'[n] # "none" => Says(n, event[n])'
  BY <1>2 DEF IncidentsInv, LinksAgree
<1>5. \A i \in Rows \ blurred : incident'[i].event # 0 =>
          IF i \in spiked THEN incident'[i].event \in Events \ Rows
          ELSE incident'[i].event \in Rows /\ Says(incident[i].event, incident[i].issue)'
  BY <1>2 DEF IncidentsInv, LinksAgree
<1>6. ASSUME NEW l \in Loads \ unsure', load'[l].at # 0 PROVE Sure(l)'
  <2>1. load[l].pc # "idle" \/ load[l] = NoLoad
    BY DEF IncidentsInv, RowsFound
  <2>2. /\ unsure' = unsure /\ Open' = Open
        /\ \A i \in Rows : /\ incident'[i].issue = incident[i].issue
                           /\ incident'[i].event = incident[i].event
    BY <1>6, <2>1 DEF Disturbs, NoLoad
  <2>3. Sure(l)
    BY <1>6, <2>2 DEF IncidentsInv, LinksAgree
  <2>4. Latest' = Latest /\ Latest \in Rows
    BY <2>2, <2>3, LatestKept, LatestProps DEF LatestIs, Sure
  <2> QED BY <2>2, <2>3, <2>4 DEF Sure, LatestIs
<1> QED BY <1>3, <1>4, <1>5, <1>6 DEF IncidentsInv, LinksAgree

LEMMA IncidentFacts ==
  ASSUME IncidentsInv
  PROVE  /\ MaxRows \in Nat /\ Rows = 1..MaxRows /\ validated \in 0..MaxRows
         /\ status \in Verdicts
         /\ \A i \in Rows : incident[i] \in IncidentRecords
         /\ \A r \in Refreshes : refresh[r] \in RefreshRecords
         /\ \A l \in Loads : load[l] \in LoadRecords
         /\ \A n \in Events : event[n] \in EventKinds
         /\ Rows \subseteq Events
         /\ \A i \in Rows : seen[i] \in Nat
  BY IncidentsAssumption DEF IncidentsInv, IncidentTypes, Rows, Events

LEMMA ValidateIncidents ==
  ASSUME IncidentsInv, NEW r \in Refreshes, NEW v \in Verdicts, Validate(r, v)
  PROVE  IncidentsInv'
<1> DEFINE new == [NoRefresh EXCEPT !.pc = "observe", !.issue = v]
<1>1. /\ refresh[r].pc = "idle" /\ validated < MaxRows
      /\ refresh' = [refresh EXCEPT ![r] = new]
      /\ \/ status' = v /\ validated' = validated + 1 /\ stale' = (Busy # {})
         \/ stale' = TRUE /\ UNCHANGED rowVars
      /\ doubled' = (doubled \/ Busy # {})
      /\ Disturbs /\ UNCHANGED <<incident, event, load, seen, blurred, spiked>>
  BY DEF Validate
<1>2. new \in RefreshRecords /\ new.pc = "observe" /\ new.issue = v
  <2>1. NoRefresh \in RefreshRecords
    BY IncidentFacts DEF NoRefresh, RefreshRecords, Verdicts
  <2>2. [NoRefresh EXCEPT !.pc = "observe"] \in RefreshRecords
    BY <2>1 DEF RefreshRecords
  <2> QED BY <2>1, <2>2 DEF RefreshRecords
<1>3. new \in RefreshRecords
  BY <1>2
<1> HIDE DEF new
<1>4. /\ \A s \in Refreshes : s # r => refresh'[s] = refresh[s]
      /\ refresh'[r] = new
  BY <1>1 DEF IncidentsInv, IncidentTypes
<1>5. Busy' = Busy \cup {r} /\ Open' = Open
  BY <1>1, <1>2, <1>4 DEF Busy, Open
<1>6. IncidentTypes'
  <2>1. validated' \in 0..MaxRows /\ status' \in Verdicts
    BY <1>1, IncidentFacts DEF rowVars
  <2>2. unsure' \subseteq Loads
    BY <1>1 DEF Disturbs, IncidentsInv, IncidentTypes
  <2>3. refresh' \in [Refreshes -> RefreshRecords]
    BY <1>1, <1>3 DEF IncidentsInv, IncidentTypes
  <2> QED BY <1>1, <2>1, <2>2, <2>3 DEF IncidentsInv, IncidentTypes
<1>7. RowsFound'
  <2>1. \A l \in Loads : load[l].at \in 0..validated'
    BY <1>1, IncidentFacts DEF IncidentsInv, RowsFound, rowVars
  <2> QED BY <1>1, <1>2, <1>4, <2>1 DEF IncidentsInv, RowsFound
<1>8. RefreshTells'
  BY <1>1, <1>2, <1>4, <1>5 DEF RefreshTells, OpenTellsStatus
<1>9. RefreshCounts'
  BY <1>1, <1>2, <1>4, <1>5 DEF IncidentsInv, RefreshCounts
<1>10. LinksAgree'
  <2>1. UNCHANGED rowVars \/ (validated' = validated + 1 /\ validated' \in Nat)
    BY <1>1, IncidentFacts
  <2> QED BY <1>1, <2>1, LinksKept
<1> QED BY <1>6, <1>7, <1>8, <1>9, <1>10 DEF IncidentsInv

LEMMA WriteStatusIncidents ==
  ASSUME IncidentsInv, NEW v \in Verdicts, WriteStatus(v)
  PROVE  IncidentsInv'
<1>1. /\ validated < MaxRows /\ status' = v /\ validated' = validated + 1 /\ stale' = TRUE
      /\ Disturbs /\ UNCHANGED <<incident, refresh, event, load, doubled, seen, blurred, spiked>>
  BY DEF WriteStatus
<1>2. Busy' = Busy /\ Open' = Open
  BY <1>1 DEF Busy, Open
<1>3. IncidentTypes'
  <2>1. validated' \in 0..MaxRows
    BY <1>1, IncidentFacts
  <2> QED BY <1>1, <2>1 DEF Disturbs, IncidentsInv, IncidentTypes
<1>4. RowsFound'
  <2>1. \A l \in Loads : load[l].at \in 0..validated'
    BY <1>1, IncidentFacts DEF IncidentsInv, RowsFound
  <2> QED BY <1>1, <2>1 DEF IncidentsInv, RowsFound
<1>5. RefreshTells' /\ RefreshCounts'
  BY <1>1, <1>2 DEF IncidentsInv, RefreshTells, RefreshCounts, OpenTellsStatus
<1>6. LinksAgree'
  <2>1. validated' \in Nat
    BY <1>1, IncidentFacts
  <2> QED BY <1>1, <2>1, LinksKept
<1> QED BY <1>3, <1>4, <1>5, <1>6 DEF IncidentsInv

\* A refresh that ends.
LEMMA Ended ==
  ASSUME IncidentsInv, NEW r \in Refreshes, refresh' = [refresh EXCEPT ![r] = NoRefresh]
  PROVE  /\ refresh' \in [Refreshes -> RefreshRecords]
         /\ \A s \in Refreshes : s # r => refresh'[s] = refresh[s]
         /\ refresh'[r].pc = "idle"
         /\ Busy' = Busy \ {r}
<1>1. NoRefresh \in RefreshRecords /\ NoRefresh.pc = "idle"
  BY IncidentFacts DEF NoRefresh, RefreshRecords, Verdicts
<1> QED BY <1>1 DEF IncidentsInv, IncidentTypes, Busy

\* A refresh that ends, or is about to create an incident.
LEMMA RowsKept ==
  ASSUME IncidentsInv, NEW r \in Refreshes,
         \A s \in Refreshes : s # r => refresh'[s] = refresh[s],
         \/ refresh'[r].pc = "idle"
         \/ refresh'[r].pc = "create" /\ refresh'[r].issue # "connected",
         UNCHANGED <<validated, load>>,
         \A i \in Rows : incident'[i].state = "none" <=> incident[i].state = "none"
  PROVE  RowsFound'
<1>1. \A s \in Refreshes : refresh[s].row # 0 => refresh[s].row \in Rows
  BY IncidentFacts DEF RefreshRecords
<1>2. \A s \in Refreshes : refresh'[s].pc \in {"bump", "close"} =>
         refresh'[s].row # 0 /\ incident'[refresh'[s].row].state # "none"
  BY <1>1 DEF IncidentsInv, RowsFound
<1> QED BY <1>2 DEF IncidentsInv, RowsFound

LEMMA ResolveOpenIncidents ==
  ASSUME IncidentsInv, NEW r \in Refreshes, ResolveOpen(r)
  PROVE  IncidentsInv'
<1>1. /\ refresh[r].pc = "observe" /\ refresh[r].issue = "connected"
      /\ incident' = [i \in Rows |-> IF i \in Open THEN [incident[i] EXCEPT !.state = "resolved"]
                                     ELSE incident[i]]
      /\ refresh' = [refresh EXCEPT ![r] = NoRefresh]
      /\ doubled' = (Busy # {r}) /\ Disturbs
      /\ UNCHANGED <<rowVars, event, load, stale, seen, blurred, spiked>>
  BY DEF ResolveOpen
<1>2. \A i \in Rows : /\ incident'[i] \in IncidentRecords
                      /\ incident'[i].event = incident[i].event
                      /\ incident'[i].issue = incident[i].issue
                      /\ incident'[i].state # "open"
                      /\ incident'[i].state = "none" <=> incident[i].state = "none"
  <2> SUFFICES ASSUME NEW i \in Rows
               PROVE  /\ incident'[i] \in IncidentRecords
                      /\ incident'[i].event = incident[i].event
                      /\ incident'[i].issue = incident[i].issue
                      /\ incident'[i].state # "open"
                      /\ incident'[i].state = "none" <=> incident[i].state = "none"
    OBVIOUS
  <2>1. incident[i] \in IncidentRecords
    BY IncidentFacts
  <2>2. CASE i \in Open
    BY <1>1, <2>1, <2>2 DEF Open, IncidentRecords
  <2>3. CASE i \notin Open
    BY <1>1, <2>1, <2>3 DEF Open
  <2> QED BY <2>2, <2>3
<1>3. Open' = {}
  BY <1>2 DEF Open
<1>4. IncidentTypes'
  <2>1. incident' \in [Rows -> IncidentRecords]
    <3>1. incident' = [i \in Rows |-> incident'[i]]
      BY <1>1
    <3> QED BY <1>2, <3>1
  <2> QED BY <1>1, <2>1, Ended DEF rowVars, Disturbs, IncidentsInv, IncidentTypes
<1>5. RowsFound'
  BY <1>1, <1>2, Ended, RowsKept DEF rowVars
<1>6. RefreshTells'
  <2>1. ~stale => refresh[r].issue = status /\ Busy = {r}
    BY <1>1 DEF IncidentsInv, RefreshTells, Busy
  <2> QED BY <1>1, <1>3, <2>1, Ended DEF rowVars, RefreshTells, OpenTellsStatus
<1>7. RefreshCounts'
  <2>1. ~doubled' => Busy' = {}
    BY <1>1, Ended
  <2>2. ~doubled' => \A s \in Refreshes : refresh'[s].pc = "idle"
    BY <2>1 DEF Busy
  <2> QED BY <1>3, <2>1, <2>2 DEF RefreshCounts
<1>8. LinksAgree'
  BY <1>1, <1>2, LinksKept
<1> QED BY <1>4, <1>5, <1>6, <1>7, <1>8 DEF IncidentsInv

LEMMA FindOpenIncidents ==
  ASSUME IncidentsInv, NEW r \in Refreshes, FindOpen(r)
  PROVE  IncidentsInv'
<1> DEFINE pc == CASE Latest = 0 -> "create"
                   [] Latest # 0 /\ incident[Latest].issue = refresh[r].issue -> "bump"
                   [] Latest # 0 /\ incident[Latest].issue # refresh[r].issue -> "close"
           count == IF Latest = 0 THEN 0 ELSE incident[Latest].count
<1>1. /\ refresh[r].pc = "observe" /\ refresh[r].issue # "connected"
      /\ refresh' = [refresh EXCEPT ![r].row = Latest, ![r].count = count, ![r].pc = pc]
      /\ UNCHANGED <<rowVars, incident, event, load, pastVars>>
  BY DEF FindOpen
<1>2. /\ pc \in {"create", "bump", "close"}
      /\ pc = "create" <=> Latest = 0
      /\ pc = "bump" => incident[Latest].issue = refresh[r].issue
  OBVIOUS
<1>3. Latest \in 0..MaxRows /\ (Latest # 0 => Latest \in Open) /\ (Latest = 0 => Open = {})
  <2>1. MaxRows \in Nat /\ Rows = 1..MaxRows
    BY IncidentFacts
  <2>2. \A i \in Rows : i \in 0..MaxRows /\ i # 0
    BY <2>1
  <2>3. 0 \in 0..MaxRows
    BY <2>1
  <2> QED BY <2>2, <2>3, LatestProps
<1>4. count \in Nat /\ (Latest # 0 => count = incident[Latest].count)
  BY <1>3, LatestProps, IncidentFacts DEF IncidentRecords
<1> HIDE DEF pc, count
<1>5. /\ refresh' \in [Refreshes -> RefreshRecords]
      /\ \A s \in Refreshes : s # r => refresh'[s] = refresh[s]
      /\ refresh'[r].row = Latest /\ refresh'[r].count = count /\ refresh'[r].pc = pc
      /\ refresh'[r].issue = refresh[r].issue
  <2>1. refresh[r] \in RefreshRecords /\ refresh \in [Refreshes -> RefreshRecords]
    BY DEF IncidentsInv, IncidentTypes
  <2> QED BY <1>1, <1>2, <1>3, <1>4, <2>1 DEF RefreshRecords
<1>6. Busy' = Busy /\ Open' = Open /\ r \in Busy
  BY <1>1, <1>2, <1>5 DEF Busy, Open
<1>7. IncidentTypes'
  BY <1>1, <1>5 DEF rowVars, pastVars, IncidentsInv, IncidentTypes
<1>8. RowsFound'
  <2>1. Latest # 0 => incident[Latest].state # "none"
    BY <1>3 DEF Open
  <2> QED BY <1>1, <1>2, <1>5, <2>1 DEF rowVars, pastVars, IncidentsInv, RowsFound
<1>9. RefreshTells'
  <2>1. \A v : LatestIs(v)' <=> LatestIs(v)
    BY <1>1, <1>6, LatestKept
  <2>2. ~stale => Busy = {r} /\ refresh[r].issue = status
    BY <1>6 DEF IncidentsInv, RefreshTells
  <2>3. ~stale => (pc = "bump" => LatestIs(status))
    BY <1>2, <1>3, <2>2 DEF LatestIs
  <2>4. UNCHANGED <<status, stale>>
    BY <1>1 DEF rowVars, pastVars
  <2> QED BY <1>6, <2>1, <2>2, <2>3, <2>4, <1>5 DEF RefreshTells, OpenTellsStatus, LatestIs
<1>10. RefreshCounts'
  <2>1. UNCHANGED <<doubled, seen, incident>>
    BY <1>1 DEF pastVars
  <2>2. ASSUME ~doubled
        PROVE  /\ pc = "bump" => count = seen[Latest]
               /\ pc = "close" => Open \subseteq {Latest}
               /\ pc = "create" => Open = {}
    BY <1>2, <1>3, <1>4, <2>2 DEF IncidentsInv, RefreshCounts
  <2> QED BY <1>5, <1>6, <2>1, <2>2 DEF IncidentsInv, RefreshCounts
<1>11. LinksAgree'
  BY <1>1, <1>6, LinksKept DEF pastVars
<1> QED BY <1>7, <1>8, <1>9, <1>10, <1>11 DEF IncidentsInv

LEMMA BumpIncidents ==
  ASSUME IncidentsInv, NEW r \in Refreshes, Bump(r)
  PROVE  IncidentsInv'
<1> DEFINE i == refresh[r].row
           n == refresh[r].count + 1
<1>1. /\ refresh[r].pc = "bump"
      /\ incident' = [incident EXCEPT ![i].count = n]
      /\ seen' = [seen EXCEPT ![i] = @ + 1]
      /\ refresh' = [refresh EXCEPT ![r] = NoRefresh]
      /\ UNCHANGED <<rowVars, event, load, stale, doubled, unsure, blurred, spiked>>
  BY DEF Bump
<1>2. i \in Rows /\ n \in Nat
  BY <1>1, IncidentFacts DEF IncidentsInv, RowsFound, RefreshRecords
<1> HIDE DEF i, n
<1>3. /\ incident' \in [Rows -> IncidentRecords]
      /\ \A k \in Rows : /\ incident'[k].event = incident[k].event
                         /\ incident'[k].issue = incident[k].issue
                         /\ incident'[k].state = incident[k].state
                         /\ k # i => incident'[k].count = incident[k].count
      /\ incident'[i].count = n
  <2>1. incident \in [Rows -> IncidentRecords]
    BY DEF IncidentsInv, IncidentTypes
  <2> QED BY <1>1, <1>2, <2>1 DEF IncidentRecords
<1>4. /\ seen' \in [Rows -> Nat] /\ seen'[i] = seen[i] + 1
      /\ \A k \in Rows : k # i => seen'[k] = seen[k]
  BY <1>1, <1>2 DEF IncidentsInv, IncidentTypes
<1>5. Open' = Open
  BY <1>3 DEF Open
<1>6. IncidentTypes'
  BY <1>1, <1>3, <1>4, Ended DEF rowVars, IncidentsInv, IncidentTypes
<1>7. RowsFound'
  BY <1>1, <1>3, Ended, RowsKept DEF rowVars
<1>8. RefreshTells'
  <2>1. ~stale => Busy = {r} /\ LatestIs(status) /\ refresh[r].issue = status /\ status # "connected"
    BY <1>1 DEF IncidentsInv, RefreshTells, RowsFound, Busy
  <2>2. \A v : LatestIs(v)' <=> LatestIs(v)
    BY <1>3, <1>5, LatestKept
  <2>3. Latest' = Latest /\ (Open # {} => Latest \in Rows)
    BY <1>3, <1>5, LatestKept, LatestProps
  <2>4. UNCHANGED <<status, stale>>
    BY <1>1 DEF rowVars
  <2>5. ~stale => Open' # {} /\ incident'[Latest'].issue = status
    BY <1>3, <1>5, <2>1, <2>3 DEF LatestIs
  <2>6. ~stale => Busy' = {}
    BY <1>1, <2>1, Ended
  <2> QED BY <2>1, <2>4, <2>5, <2>6 DEF RefreshTells, OpenTellsStatus
<1>9. RefreshCounts'
  <2> SUFFICES ASSUME ~doubled PROVE RefreshCounts'
    BY <1>1 DEF RefreshCounts
  <2>1. \A s \in Refreshes : s # r => refresh[s].pc = "idle" /\ refresh'[s].pc = "idle"
    <3>1. r \in Busy
      BY <1>1 DEF Busy
    <3>2. \A s \in Busy : s = r
      BY <3>1 DEF IncidentsInv, RefreshCounts
    <3> QED BY <1>1, <3>2, Ended DEF Busy
  <2>2. \A s \in Refreshes : refresh'[s].pc = "idle"
    BY <1>1, <2>1, Ended
  <2>3. n = seen[i] + 1
    BY <1>1 DEF IncidentsInv, RefreshCounts, i, n
  <2>4. \A k \in Open : k \in Rows /\ incident'[k].count = seen'[k]
    BY <1>3, <1>4, <2>3, LatestProps DEF IncidentsInv, RefreshCounts
  <2>5. Busy' = {}
    BY <2>2 DEF Busy
  <2> QED BY <1>5, <2>2, <2>4, <2>5 DEF IncidentsInv, RefreshCounts
<1>10. LinksAgree'
  BY <1>1, <1>3, <1>5, LinksKept
<1> QED BY <1>6, <1>7, <1>8, <1>9, <1>10 DEF IncidentsInv

LEMMA CloseIncidents ==
  ASSUME IncidentsInv, NEW r \in Refreshes, Close(r)
  PROVE  IncidentsInv'
<1> DEFINE i == refresh[r].row
<1>1. /\ refresh[r].pc = "close"
      /\ incident' = [incident EXCEPT ![i].state = "resolved"]
      /\ refresh' = [refresh EXCEPT ![r].pc = "create"]
      /\ Disturbs
      /\ UNCHANGED <<rowVars, event, load, stale, doubled, seen, blurred, spiked>>
  BY DEF Close
<1>2. i \in Rows
  BY <1>1, IncidentFacts DEF IncidentsInv, RowsFound, RefreshRecords
<1>3. /\ incident' \in [Rows -> IncidentRecords]
      /\ \A k \in Rows : /\ incident'[k].event = incident[k].event
                         /\ incident'[k].issue = incident[k].issue
                         /\ incident'[k].count = incident[k].count
                         /\ incident'[k].state = IF k = i THEN "resolved" ELSE incident[k].state
  <2>1. incident \in [Rows -> IncidentRecords]
    BY DEF IncidentsInv, IncidentTypes
  <2> HIDE DEF i
  <2> QED BY <1>1, <1>2, <2>1 DEF IncidentRecords
<1>4. /\ refresh' \in [Refreshes -> RefreshRecords]
      /\ \A s \in Refreshes : s # r => refresh'[s] = refresh[s]
      /\ refresh'[r].row = refresh[r].row /\ refresh'[r].pc = "create"
      /\ refresh'[r].issue = refresh[r].issue
  <2>1. refresh[r] \in RefreshRecords /\ refresh \in [Refreshes -> RefreshRecords]
    BY DEF IncidentsInv, IncidentTypes
  <2> QED BY <1>1, <2>1 DEF RefreshRecords
<1>5. Open' = Open \ {i} /\ Busy' = Busy /\ r \in Busy
  BY <1>1, <1>3, <1>4 DEF Open, Busy
<1>6. IncidentTypes'
  BY <1>1, <1>3, <1>4 DEF rowVars, Disturbs, IncidentsInv, IncidentTypes
<1>7. RowsFound'
  <2>1. incident[i].state # "none" /\ refresh[r].issue # "connected"
    BY <1>1 DEF IncidentsInv, RowsFound
  <2> QED BY <1>1, <1>3, <1>4, <2>1, RowsKept DEF rowVars
<1>8. RefreshTells'
  <2>1. ~stale => Busy = {r} /\ refresh[r].issue = status
    BY <1>5 DEF IncidentsInv, RefreshTells
  <2>2. UNCHANGED <<status, stale>>
    BY <1>1 DEF rowVars
  <2> QED BY <1>4, <1>5, <2>1, <2>2 DEF RefreshTells, OpenTellsStatus
<1>9. RefreshCounts'
  <2> SUFFICES ASSUME ~doubled PROVE RefreshCounts'
    BY <1>1 DEF RefreshCounts
  <2>1. Open \subseteq {i}
    BY <1>1 DEF IncidentsInv, RefreshCounts
  <2>2. Open' = {}
    BY <1>5, <2>1
  <2>3. \A s \in Refreshes : s # r => refresh[s].pc = "idle"
    BY <1>5 DEF IncidentsInv, RefreshCounts, Busy
  <2> QED BY <1>1, <1>4, <1>5, <2>2, <2>3 DEF IncidentsInv, RefreshCounts
<1>10. LinksAgree'
  BY <1>1, <1>3, LinksKept
<1> QED BY <1>6, <1>7, <1>8, <1>9, <1>10 DEF IncidentsInv

LEMMA CreateIncidents ==
  ASSUME IncidentsInv, NEW r \in Refreshes, Create(r)
  PROVE  IncidentsInv'
<1> DEFINE new == [state |-> "open", issue |-> refresh[r].issue, count |-> 1, event |-> 0]
<1>1. PICK i \in Rows :
         /\ incident[i].state = "none" /\ \A n \in 1..(i - 1) : incident[n].state # "none"
         /\ incident' = [incident EXCEPT ![i] = new]
         /\ seen' = [seen EXCEPT ![i] = 1]
  BY DEF Create
<1>2. /\ refresh[r].pc = "create"
      /\ refresh' = [refresh EXCEPT ![r] = NoRefresh]
      /\ Disturbs
      /\ UNCHANGED <<rowVars, event, load, stale, doubled, blurred, spiked>>
  BY DEF Create
<1>3. new \in IncidentRecords /\ refresh[r].issue # "connected"
  BY <1>2, IncidentFacts DEF IncidentsInv, RowsFound, IncidentRecords, RefreshRecords
<1> HIDE DEF new
<1>4. /\ incident' \in [Rows -> IncidentRecords] /\ incident'[i] = new
      /\ \A k \in Rows : k # i => incident'[k] = incident[k]
      /\ seen' \in [Rows -> Nat] /\ seen'[i] = 1
      /\ \A k \in Rows : k # i => seen'[k] = seen[k]
  BY <1>1, <1>3 DEF IncidentsInv, IncidentTypes
<1>5. /\ new.state = "open" /\ new.issue = refresh[r].issue /\ new.count = 1 /\ new.event = 0
  BY DEF new
<1>6. Open' = Open \cup {i}
  BY <1>4, <1>5 DEF Open
<1>7. \A k \in Open : k <= i
  <2> SUFFICES ASSUME NEW k \in Rows, k > i, incident[k].state = "open" PROVE FALSE
    BY IncidentFacts, LatestProps DEF Open
  <2> QED BY <1>1 DEF IncidentsInv, RowsFound
<1>8. Latest' = i
  <2>1. Open' # {} /\ i \in Open'
    BY <1>6
  <2>2. Open' # {} => Latest' \in Open' /\ \A k \in Open' : Latest' >= k
    BY LatestNext DEF LatestReturns
  <2>3. Latest' \in Open' /\ Latest' >= i /\ Open \subseteq Rows
    BY <2>1, <2>2, LatestProps
  <2> QED BY <1>6, <1>7, <2>3, IncidentFacts
<1>9. IncidentTypes'
  BY <1>2, <1>4, Ended DEF rowVars, Disturbs, IncidentsInv, IncidentTypes
<1>10. RowsFound'
  <2>1. \A k, m \in Rows : k < m /\ incident'[k].state = "none" => incident'[m].state = "none"
    <3> SUFFICES ASSUME NEW k \in Rows, NEW m \in Rows, k < m, incident'[k].state = "none"
                 PROVE  incident'[m].state = "none"
      OBVIOUS
    <3>1. k # i /\ incident[k].state = "none"
      BY <1>4, <1>5
    <3>2. ~(k < i)
      <4>1. k < i => k \in 1..(i - 1)
        BY IncidentFacts
      <4> QED BY <1>1, <3>1, <4>1
    <3>3. m # i
      BY <3>2
    <3> QED BY <1>4, <3>1, <3>3 DEF IncidentsInv, RowsFound
  <2>2. \A s \in Refreshes : refresh[s].row # 0 => refresh[s].row \in Rows
    BY IncidentFacts DEF RefreshRecords
  <2>3. \A k \in Rows : incident[k].state # "none" => incident'[k].state # "none"
    BY <1>4, <1>5
  <2>4. \A s \in Refreshes : refresh'[s].pc \in {"bump", "close"} =>
           refresh'[s].row # 0 /\ incident'[refresh'[s].row].state # "none"
    BY <1>2, <2>2, <2>3, Ended DEF IncidentsInv, RowsFound
  <2> QED BY <1>2, <2>1, <2>4, Ended DEF rowVars, IncidentsInv, RowsFound
<1>11. RefreshTells'
  <2>1. ~stale => Busy = {r} /\ refresh[r].issue = status
    BY <1>2 DEF IncidentsInv, RefreshTells, Busy
  <2>2. UNCHANGED <<status, stale>>
    BY <1>2 DEF rowVars
  <2>3. ~stale => Busy' = {}
    BY <1>2, <2>1, Ended
  <2> QED BY <1>3, <1>4, <1>5, <1>6, <1>8, <2>1, <2>2, <2>3 DEF RefreshTells, OpenTellsStatus
<1>12. RefreshCounts'
  <2> SUFFICES ASSUME ~doubled PROVE RefreshCounts'
    BY <1>2 DEF RefreshCounts
  <2>1. Open = {}
    BY <1>2 DEF IncidentsInv, RefreshCounts
  <2>2. Open' = {i}
    BY <1>6, <2>1
  <2>3. \A s \in Refreshes : s # r => refresh[s].pc = "idle"
    BY <1>2 DEF IncidentsInv, RefreshCounts, Busy
  <2>4. \A s \in Refreshes : refresh'[s].pc = "idle"
    BY <1>2, <2>3, Ended
  <2>5. Busy' = {}
    BY <2>4 DEF Busy
  <2> QED BY <1>4, <1>5, <2>2, <2>4, <2>5 DEF RefreshCounts
<1>13. LinksAgree'
  <2>1. \A k \in Rows : incident'[k].event # 0 =>
           incident'[k].event = incident[k].event /\ incident'[k].issue = incident[k].issue
    BY <1>4, <1>5
  <2> QED BY <1>2, <2>1, LinksKept
<1> QED BY <1>9, <1>10, <1>11, <1>12, <1>13 DEF IncidentsInv

LEMMA RefreshFailsIncidents ==
  ASSUME IncidentsInv, NEW r \in Refreshes, RefreshFails(r)
  PROVE  IncidentsInv'
<1>1. /\ refresh' = [refresh EXCEPT ![r] = NoRefresh] /\ stale' = TRUE
      /\ UNCHANGED <<rowVars, incident, event, load, doubled, seen, unsure, blurred, spiked>>
  BY DEF RefreshFails
<1>2. Open' = Open
  BY <1>1 DEF Open
<1>3. IncidentTypes'
  BY <1>1, Ended DEF rowVars, IncidentsInv, IncidentTypes
<1>4. RowsFound'
  BY <1>1, Ended, RowsKept DEF rowVars
<1>5. RefreshTells'
  BY <1>1 DEF RefreshTells, OpenTellsStatus
<1>6. RefreshCounts'
  BY <1>1, <1>2, Ended DEF IncidentsInv, RefreshCounts
<1>7. LinksAgree'
  BY <1>1, <1>2, LinksKept
<1> QED BY <1>3, <1>4, <1>5, <1>6, <1>7 DEF IncidentsInv

LEMMA ResolveIncidentIncidents ==
  ASSUME IncidentsInv, NEW i \in Rows, ResolveIncident(i)
  PROVE  IncidentsInv'
<1>1. /\ incident[i].state # "none"
      /\ incident' = [incident EXCEPT ![i].state = "resolved"] /\ stale' = TRUE
      /\ Disturbs
      /\ UNCHANGED <<rowVars, refresh, event, load, doubled, seen, blurred, spiked>>
  BY DEF ResolveIncident
<1>2. /\ incident' \in [Rows -> IncidentRecords]
      /\ \A k \in Rows : /\ incident'[k].event = incident[k].event
                         /\ incident'[k].issue = incident[k].issue
                         /\ incident'[k].count = incident[k].count
                         /\ incident'[k].state = IF k = i THEN "resolved" ELSE incident[k].state
  <2>1. incident \in [Rows -> IncidentRecords]
    BY DEF IncidentsInv, IncidentTypes
  <2> QED BY <1>1, <2>1 DEF IncidentRecords
<1>3. Open' = Open \ {i} /\ Busy' = Busy
  BY <1>1, <1>2 DEF Open, Busy
<1>4. IncidentTypes'
  BY <1>1, <1>2 DEF rowVars, Disturbs, IncidentsInv, IncidentTypes
<1>5. RowsFound'
  <2>1. \A s \in Refreshes : refresh[s].row # 0 => refresh[s].row \in Rows
    BY IncidentFacts DEF RefreshRecords
  <2>2. \A k \in Rows : incident'[k].state = "none" <=> incident[k].state = "none"
    BY <1>1, <1>2
  <2> QED BY <1>1, <2>1, <2>2 DEF rowVars, IncidentsInv, RowsFound
<1>6. RefreshTells'
  BY <1>1 DEF RefreshTells, OpenTellsStatus
<1>7. RefreshCounts'
  BY <1>1, <1>2, <1>3, LatestProps DEF IncidentsInv, RefreshCounts
<1>8. LinksAgree'
  BY <1>1, <1>2, LinksKept
<1> QED BY <1>4, <1>5, <1>6, <1>7, <1>8 DEF IncidentsInv

LEMMA BeginLoadIncidents ==
  ASSUME IncidentsInv, NEW l \in Loads, BeginLoad(l)
  PROVE  IncidentsInv'
<1>1. PICK n \in {0, validated} :
         /\ n # 0 => status \in Told
         /\ load' = [load EXCEPT ![l] = [NoLoad EXCEPT !.pc = "analyse", !.issue = status,
                                                       !.at = n]]
  BY DEF BeginLoad
<1>2. /\ load[l].pc = "idle"
      /\ unsure' = IF stale \/ Busy # {} THEN unsure \cup {l} ELSE unsure \ {l}
      /\ UNCHANGED <<rowVars, incident, refresh, event, stale, doubled, seen, blurred, spiked>>
  BY DEF BeginLoad
<1> DEFINE new == [NoLoad EXCEPT !.pc = "analyse", !.issue = status, !.at = n]
<1>3. /\ new \in LoadRecords /\ new.pc = "analyse" /\ new.issue = status /\ new.at = n
      /\ new.spike = 0
  <2>1. n \in 0..MaxRows /\ 0 \in 0..MaxRows
    BY IncidentFacts
  <2>2. NoLoad \in LoadRecords /\ NoLoad.spike = 0
    BY <2>1 DEF NoLoad, LoadRecords, Verdicts
  <2>3. status \in Verdicts
    BY IncidentFacts
  <2> HIDE DEF NoLoad
  <2> QED BY <2>1, <2>2, <2>3 DEF LoadRecords
<1> HIDE DEF new
<1>4. /\ load' \in [Loads -> LoadRecords] /\ load'[l] = new
      /\ \A m \in Loads : m # l => load'[m] = load[m]
  BY <1>1, <1>3 DEF IncidentsInv, IncidentTypes, new
<1>5. Open' = Open
  BY <1>2 DEF Open
<1>6. IncidentTypes'
  BY <1>2, <1>4 DEF rowVars, IncidentsInv, IncidentTypes
<1>7. RowsFound'
  <2>1. LoopAt(new) /\ n \in 0..validated
    BY <1>3, IncidentFacts DEF LoopAt
  <2> QED BY <1>2, <1>3, <1>4, <2>1 DEF rowVars, IncidentsInv, RowsFound
<1>8. RefreshTells' /\ RefreshCounts'
  BY <1>2, <1>5, RefreshKept DEF rowVars
<1>9. ASSUME NEW k, NEW v, Says(k, v) PROVE Says(k, v)'
  <2>1. k # 0 /\ (k = n => status = v)
    BY <1>9, IncidentFacts DEF Says
  <2> QED BY <1>2, <1>3, <1>4, <1>9, <2>1 DEF Says, rowVars
<1>10. n # 0 => Says(n, status)
  <2> SUFFICES ASSUME n # 0 PROVE Says(validated, status)
    OBVIOUS
  <2>1. validated \in 1..validated /\ validated \in Rows
    BY IncidentFacts
  <2>2. \A m \in Loads : load[m].at = validated => load[m].issue = status
    BY <2>1, IncidentFacts DEF IncidentsInv, LinksAgree, Says
  <2>3. event[validated] # "none" => event[validated] = status
    BY <2>1 DEF IncidentsInv, LinksAgree, Says
  <2> QED BY <2>1, <2>2, <2>3 DEF Says
<1>11. LinksAgree'
  <2>1. \A m \in Loads : load'[m].at # 0 => Says(load[m].at, load[m].issue)'
    BY <1>2, <1>3, <1>4, <1>9, <1>10 DEF IncidentsInv, LinksAgree
  <2>2. \A k \in Rows : event'[k] # "none" => Says(k, event[k])'
    BY <1>2, <1>9 DEF IncidentsInv, LinksAgree
  <2>3. \A k \in Events \ Rows : event'[k] \in {"none", Spike}
    BY <1>2 DEF IncidentsInv, LinksAgree
  <2>4. \A i \in Rows \ blurred' : incident'[i].event # 0 =>
            IF i \in spiked' THEN incident'[i].event \in Events \ Rows
            ELSE incident'[i].event \in Rows /\ Says(incident[i].event, incident[i].issue)'
    BY <1>2, <1>9 DEF IncidentsInv, LinksAgree
  <2>5. Latest' = Latest /\ \A v : LatestIs(v)' <=> LatestIs(v)
    BY <1>2, <1>5, LatestKept
  <2>6. ASSUME NEW m \in Loads \ unsure', load'[m].at # 0 PROVE Sure(m)'
    <3>1. CASE m = l
      <4>1. ~stale /\ Busy = {} /\ status # "connected"
        BY <1>1, <1>2, <1>3, <1>4, <2>6, <3>1, IncidentsAssumption
      <4>2. LatestIs(status)
        BY <4>1 DEF IncidentsInv, RefreshTells, OpenTellsStatus, LatestIs
      <4>3. LatestIs(status)' /\ load'[l].issue = status' /\ load'[l].pc = "analyse"
        BY <1>2, <1>3, <1>4, <2>5, <4>2 DEF rowVars, LatestIs
      <4> QED BY <3>1, <4>3 DEF Sure, LatestIs
    <3>2. CASE m # l
      <4>1. Sure(m) /\ load'[m] = load[m]
        BY <1>2, <1>4, <2>6, <3>2 DEF IncidentsInv, LinksAgree
      <4> QED BY <1>2, <2>5, <4>1 DEF Sure, LatestIs
    <3> QED BY <3>1, <3>2
  <2> QED BY <2>1, <2>2, <2>3, <2>4, <2>6 DEF LinksAgree
<1> QED BY <1>6, <1>7, <1>8, <1>11 DEF IncidentsInv

\* A load that links an incident, or none.
Links(l) ==
    \/ UNCHANGED <<incident, blurred, spiked>>
    \/ /\ load[l].pc = "write"
       /\ incident' = [incident EXCEPT ![load[l].row].event = load[l].now]
       /\ blurred' = IF l \in unsure THEN blurred \cup {load[l].row} ELSE blurred
       /\ spiked' = IF load[l].at = 0 THEN spiked \cup {load[l].row} ELSE spiked \ {load[l].row}

\* A load that goes on, or ends.
GoesOn(l) ==
    /\ load' \in [Loads -> LoadRecords]
    /\ \A m \in Loads : m # l => load'[m] = load[m]
    /\ \/ load'[l] = NoLoad
       \/ /\ load'[l].pc # "idle"
          /\ load'[l].at = load[l].at /\ load'[l].issue = load[l].issue
    /\ LoopAt(load'[l])
    /\ load'[l].pc = "write" => load'[l].row = Latest /\ Latest # 0
    /\ l \notin unsure /\ load[l].at # 0 =>
          /\ load'[l].pc = "write" => load'[l].now = load'[l].at
          /\ load'[l].pc = "link" /\ load'[l].now # load'[l].at => incident'[Latest].event # 0

LEMMA LinkProps ==
  ASSUME IncidentsInv, NEW l \in Loads, Links(l)
  PROVE  /\ incident' \in [Rows -> IncidentRecords]
         /\ \A i \in Rows : /\ incident'[i].state = incident[i].state
                            /\ incident'[i].issue = incident[i].issue
                            /\ incident'[i].count = incident[i].count
                            /\ incident'[i].event # incident[i].event =>
                                  incident'[i].event = load[l].now /\ load[l].now # 0
<1>1. /\ incident \in [Rows -> IncidentRecords]
      /\ load[l] \in LoadRecords
  BY DEF IncidentsInv, IncidentTypes
<1>2. CASE UNCHANGED incident
  BY <1>1, <1>2
<1>3. CASE /\ load[l].pc = "write"
           /\ incident' = [incident EXCEPT ![load[l].row].event = load[l].now]
  <2> DEFINE i == load[l].row
             n == load[l].now
  <2>1. i \in Rows
    BY <1>1, <1>3, IncidentFacts DEF IncidentsInv, RowsFound, LoadRecords
  <2>2. n \in {0} \cup Events
    BY <1>1 DEF LoadRecords
  <2>3. n # 0
    BY <1>3 DEF IncidentsInv, RowsFound, LoopAt
  <2>4. incident' = [incident EXCEPT ![i].event = n]
    BY <1>3
  <2> HIDE DEF i, n
  <2>5. incident'[i] = [incident[i] EXCEPT !.event = n]
    BY <1>1, <2>1, <2>4
  <2>6. \A k \in Rows : k # i => incident'[k] = incident[k]
    BY <1>1, <2>1, <2>4
  <2>7. incident[i] \in IncidentRecords
    BY <1>1, <2>1
  <2>8. /\ incident'[i] \in IncidentRecords
        /\ incident'[i].state = incident[i].state
        /\ incident'[i].issue = incident[i].issue
        /\ incident'[i].count = incident[i].count
        /\ incident'[i].event = n
    BY <2>2, <2>5, <2>7 DEF IncidentRecords
  <2>9. incident' \in [Rows -> IncidentRecords]
    BY <1>1, <2>4, <2>6, <2>8
  <2> QED BY <2>3, <2>6, <2>8, <2>9 DEF n
<1> QED BY <1>2, <1>3 DEF Links

\* A later step of a load: it may write one event, or link one incident.
LEMMA LoadIncidents ==
  ASSUME IncidentsInv, NEW l \in Loads, load[l].pc # "idle",
         UNCHANGED <<rowVars, refresh, stale, doubled, seen, unsure>>,
         GoesOn(l), Links(l), event' \in [Events -> EventKinds],
         \A n \in Events : event'[n] # event[n] =>
             load[l].pc = "create" /\ n = load[l].now /\ event'[n] = KindOf(l, n)
  PROVE  IncidentsInv'
<1>1. Open' = Open
  BY LinkProps DEF Open
<1>2. IncidentTypes'
  <2>1. load[l].pc = "write" => load[l].row \in Rows
    BY IncidentFacts DEF IncidentsInv, RowsFound, LoadRecords
  <2>2. blurred' \subseteq Rows /\ spiked' \subseteq Rows
    BY <2>1 DEF Links, IncidentsInv, IncidentTypes
  <2> QED BY <2>2, LinkProps DEF GoesOn, rowVars, IncidentsInv, IncidentTypes
<1>3. RowsFound'
  <2>1. \A r \in Refreshes : refresh[r].row # 0 => refresh[r].row \in Rows
    BY IncidentFacts DEF RefreshRecords
  <2>2. \A i, k \in Rows : i < k /\ incident'[i].state = "none" => incident'[k].state = "none"
    BY LinkProps DEF IncidentsInv, RowsFound
  <2>3. \A r \in Refreshes : refresh'[r].pc \in {"bump", "close"} =>
           refresh'[r].row # 0 /\ incident'[refresh'[r].row].state # "none"
    BY <2>1, LinkProps DEF IncidentsInv, RowsFound
  <2>4. \A r \in Refreshes :
           refresh'[r].pc \in {"bump", "close", "create"} => refresh'[r].issue # "connected"
    BY DEF IncidentsInv, RowsFound
  <2>5. ASSUME NEW m \in Loads
        PROVE  /\ load'[m].at \in 0..validated' /\ LoopAt(load'[m])
               /\ load'[m].pc = "idle" => load'[m] = NoLoad
               /\ load'[m].pc = "write" => load'[m].row # 0
    <3>1. CASE m = l
      <4>1. 0 \in 0..validated'
        BY IncidentFacts DEF rowVars
      <4> QED BY <3>1, <4>1 DEF GoesOn, rowVars, NoLoad, IncidentsInv, RowsFound
    <3>2. CASE m # l
      BY <3>2 DEF GoesOn, rowVars, IncidentsInv, RowsFound
    <3> QED BY <3>1, <3>2
  <2> QED BY <2>2, <2>3, <2>4, <2>5 DEF RowsFound
<1>4. RefreshTells' /\ RefreshCounts'
  BY <1>1, LinkProps, RefreshKept DEF rowVars
<1>5. \A n \in Rows : n <= MaxRows /\ n \in Events
  BY IncidentFacts
\* What the load writes about a validation is its status.
<1>6. ASSUME NEW n \in Rows, event'[n] # event[n]
      PROVE  n = load[l].at /\ event'[n] = load[l].issue
  <2>1. load[l].pc = "create" /\ n = load[l].now /\ event'[n] = KindOf(l, n)
    BY <1>5, <1>6
  <2>2. LoopAt(load[l])
    BY DEF IncidentsInv, RowsFound
  <2>3. n = load[l].at
    BY <1>5, <2>1, <2>2, IncidentFacts DEF LoopAt
  <2>4. ~(n > MaxRows)
    BY <1>5, IncidentFacts
  <2> QED BY <2>1, <2>3, <2>4 DEF KindOf
<1>7. ASSUME NEW n, NEW v, Says(n, v) PROVE Says(n, v)'
  <2>1. n \in 1..validated' /\ (n = validated' => status' = v)
    BY <1>7 DEF Says, rowVars
  <2>2. n \in Rows /\ n # 0
    BY <1>7, IncidentFacts DEF Says
  <2>3. \A m \in Loads : load'[m].at = n => load'[m].issue = v
    BY <1>7, <2>2 DEF Says, GoesOn, NoLoad
  <2>4. event'[n] # "none" => event'[n] = v
    BY <1>6, <1>7, <2>2 DEF Says
  <2> QED BY <2>1, <2>3, <2>4 DEF Says
<1>8. \A m \in Loads : load'[m].at # 0 => Says(load[m].at, load[m].issue)'
  <2> SUFFICES ASSUME NEW m \in Loads, load'[m].at # 0
               PROVE  Says(load[m].at, load[m].issue)'
    OBVIOUS
  <2>1. load'[m].at = load[m].at /\ load'[m].issue = load[m].issue
    BY DEF GoesOn, NoLoad
  <2>2. Says(load[m].at, load[m].issue)
    BY <2>1 DEF IncidentsInv, LinksAgree
  <2> QED BY <1>7, <2>1, <2>2
<1>9. \A n \in Rows : event'[n] # "none" => Says(n, event[n])'
  <2> SUFFICES ASSUME NEW n \in Rows, event'[n] # "none" PROVE Says(n, event[n])'
    OBVIOUS
  <2>1. CASE event'[n] = event[n]
    BY <1>7, <2>1 DEF IncidentsInv, LinksAgree
  <2>2. CASE event'[n] # event[n]
    <3>1. n = load[l].at /\ event'[n] = load[l].issue /\ n # 0
      BY <1>6, <2>2, IncidentFacts
    <3>2. Says(n, load[l].issue)
      BY <3>1 DEF IncidentsInv, LinksAgree
    <3> QED BY <1>7, <3>1, <3>2
  <2> QED BY <2>1, <2>2
<1>10. \A n \in Events \ Rows : event'[n] \in {"none", Spike}
  <2> SUFFICES ASSUME NEW n \in Events \ Rows, event'[n] # event[n]
               PROVE  event'[n] = Spike
    BY DEF IncidentsInv, LinksAgree
  <2>1. n > MaxRows
    BY IncidentFacts, IncidentsAssumption DEF Events
  <2> QED BY <2>1 DEF KindOf
<1>11. \A i \in Rows \ blurred' : incident'[i].event # 0 =>
           IF i \in spiked' THEN incident'[i].event \in Events \ Rows
           ELSE incident'[i].event \in Rows /\ Says(incident[i].event, incident[i].issue)'
  <2> DEFINE k == load[l].row
             now == load[l].now
  <2> SUFFICES ASSUME NEW i \in Rows \ blurred', incident'[i].event # 0
               PROVE  IF i \in spiked' THEN incident'[i].event \in Events \ Rows
                      ELSE incident'[i].event \in Rows
                           /\ Says(incident[i].event, incident[i].issue)'
    OBVIOUS
  <2>1. incident'[i].issue = incident[i].issue
    BY LinkProps
  <2>2. CASE incident'[i].event = incident[i].event /\ (i \in spiked' <=> i \in spiked)
             /\ i \notin blurred
    BY <1>7, <2>1, <2>2 DEF IncidentsInv, LinksAgree
  <2>3. CASE UNCHANGED <<incident, blurred, spiked>>
    BY <2>2, <2>3
  <2>4. CASE /\ load[l].pc = "write" /\ incident' = [incident EXCEPT ![k].event = now]
             /\ blurred' = IF l \in unsure THEN blurred \cup {k} ELSE blurred
             /\ spiked' = IF load[l].at = 0 THEN spiked \cup {k} ELSE spiked \ {k}
    <3>1. CASE i # k
      <4> HIDE DEF now, k
      <4>1. incident'[i].event = incident[i].event
        BY <2>4, <3>1 DEF IncidentsInv, IncidentTypes
      <4> QED BY <2>2, <2>4, <3>1, <4>1
    <3>2. CASE i = k
      <4>1. incident'[i].event = now /\ l \notin unsure
        <5>1. incident[i] \in IncidentRecords /\ incident \in [Rows -> IncidentRecords]
          BY DEF IncidentsInv, IncidentTypes
        <5>2. l \notin unsure
          BY <2>4, <3>2
        <5> HIDE DEF now, k
        <5> QED BY <2>4, <3>2, <5>1, <5>2 DEF IncidentRecords
      <4>2. /\ load[l].spike = 0 \/ load[l].spike > MaxRows
            /\ now # 0 /\ now \in {load[l].at, load[l].spike} /\ now \in {0} \cup Events
        BY <2>4 DEF IncidentsInv, IncidentTypes, LoadRecords, RowsFound, LoopAt
      <4>3. CASE load[l].at = 0
        <5>1. now \in Events /\ now > MaxRows
          BY <4>2, <4>3
        <5>2. now \notin Rows
          BY <1>5, <5>1, IncidentFacts
        <5> QED BY <2>4, <3>2, <4>1, <4>3, <5>1, <5>2
      <4>4. CASE load[l].at # 0
        <5>1. Sure(l) /\ Says(load[l].at, load[l].issue)
          BY <4>1, <4>4 DEF IncidentsInv, LinksAgree
        <5>2. now = load[l].at /\ incident[i].issue = load[l].issue /\ i \notin spiked'
          BY <2>4, <3>2, <4>4, <5>1 DEF Sure, LatestIs
        <5>3. now \in Rows
          BY <5>1, <5>2, IncidentFacts DEF Says
        <5> QED BY <1>7, <2>1, <4>1, <5>1, <5>2, <5>3
      <4> QED BY <4>3, <4>4
    <3> QED BY <3>1, <3>2
  <2> QED BY <2>3, <2>4 DEF Links
<1>12. Latest' = Latest /\ \A v : LatestIs(v)' <=> LatestIs(v)
  BY <1>1, LinkProps, LatestKept
<1>13. ASSUME NEW m \in Loads \ unsure', load'[m].at # 0 PROVE Sure(m)'
  <2>1. load'[m].at = load[m].at /\ load'[m].issue = load[m].issue /\ m \notin unsure
    BY <1>13 DEF GoesOn, NoLoad
  <2>2. Sure(m)
    BY <1>13, <2>1 DEF IncidentsInv, LinksAgree
  <2>3. LatestIs(load[m].issue)'
    BY <1>12, <2>1, <2>2 DEF Sure, LatestIs
  <2>4. CASE m = l
    BY <1>12, <1>13, <2>1, <2>3, <2>4 DEF Sure, GoesOn, LatestIs
  <2>5. CASE m # l
    <3>1. load'[m] = load[m]
      BY <2>5 DEF GoesOn
    <3>2. incident[Latest].event # 0 /\ Latest \in Rows => incident'[Latest].event # 0
      BY LinkProps
    <3>3. Latest \in Rows
      BY <2>2, LatestProps DEF Sure, LatestIs
    <3> QED BY <1>12, <2>2, <2>3, <3>1, <3>2, <3>3 DEF Sure, LatestIs
  <2> QED BY <2>4, <2>5
<1>14. LinksAgree'
  BY <1>8, <1>9, <1>10, <1>11, <1>13 DEF LinksAgree
<1> QED BY <1>2, <1>3, <1>4, <1>14 DEF IncidentsInv

\* What a load has in hand while its loops run.
LEMMA LoopFacts ==
  ASSUME IncidentsInv, NEW l \in Loads, load[l].pc \notin {"idle", "analyse"}
  PROVE  /\ load \in [Loads -> LoadRecords] /\ load[l] \in LoadRecords
         /\ load[l].spike = 0 \/ load[l].spike > MaxRows
         /\ load[l].now # 0 /\ load[l].now \in {load[l].at, load[l].spike}
         /\ First(l) # 0 /\ First(l) \in {load[l].at, load[l].spike}
         /\ load[l].at # 0 => First(l) = load[l].at
         /\ After(l) # 0 => After(l) = load[l].spike
<1>1. load \in [Loads -> LoadRecords] /\ load[l] \in LoadRecords
  BY DEF IncidentsInv, IncidentTypes
<1>2. LoopAt(load[l]) /\ load[l].pc \in {"look", "create", "link", "write"}
  BY <1>1 DEF IncidentsInv, RowsFound, LoadRecords
<1> QED BY <1>1, <1>2 DEF LoopAt, First, After

LEMMA AdvanceGoesOn ==
  ASSUME IncidentsInv, NEW l \in Loads, load[l].pc \notin {"idle", "analyse"},
         NEW pc \in {"look", "create", "link"}, NEW n \in {load[l].at, load[l].spike}, n # 0,
         Advance(l, pc, n),
         l \notin unsure /\ load[l].at # 0 /\ pc = "link" /\ n # load[l].at
            => incident'[Latest].event # 0
  PROVE  GoesOn(l)
<1>1. load[l] \in LoadRecords /\ load \in [Loads -> LoadRecords]
      /\ (load[l].spike = 0 \/ load[l].spike > MaxRows)
  BY LoopFacts
<1>2. n \in {0} \cup Events
  BY <1>1, IncidentFacts DEF LoadRecords
<1>3. load'[l] = [load[l] EXCEPT !.pc = pc, !.now = n]
  BY <1>1 DEF Advance
<1>4. /\ load'[l] \in LoadRecords
      /\ load'[l].pc = pc /\ load'[l].now = n /\ load'[l].at = load[l].at
      /\ load'[l].issue = load[l].issue /\ load'[l].spike = load[l].spike
  BY <1>1, <1>2, <1>3 DEF LoadRecords
<1>5. load' \in [Loads -> LoadRecords] /\ \A m \in Loads : m # l => load'[m] = load[m]
  BY <1>1, <1>3, <1>4 DEF Advance
<1>6. LoopAt(load'[l])
  BY <1>1, <1>4 DEF LoopAt
<1> QED BY <1>4, <1>5, <1>6 DEF GoesOn

LEMMA EndGoesOn ==
  ASSUME IncidentsInv, NEW l \in Loads, load' = [load EXCEPT ![l] = NoLoad]
  PROVE  GoesOn(l)
<1>1. NoLoad \in LoadRecords /\ LoopAt(NoLoad) /\ NoLoad.pc = "idle"
  BY IncidentFacts DEF NoLoad, LoadRecords, LoopAt, Verdicts
<1> QED BY <1>1 DEF GoesOn, IncidentsInv, IncidentTypes

LEMMA MaterializedGoesOn ==
  ASSUME IncidentsInv, NEW l \in Loads, load[l].pc \notin {"idle", "analyse"}, Materialized(l)
  PROVE  GoesOn(l)
<1>1. CASE After(l) # 0
  <2>1. Advance(l, "look", After(l)) /\ After(l) \in {load[l].at, load[l].spike}
    BY <1>1, LoopFacts DEF Materialized
  <2> QED BY <1>1, <2>1, AdvanceGoesOn
<1>2. CASE After(l) = 0
  <2>1. /\ Advance(l, "link", First(l)) /\ First(l) \in {load[l].at, load[l].spike}
        /\ First(l) # 0 /\ (load[l].at # 0 => First(l) = load[l].at)
    BY <1>2, LoopFacts DEF Materialized
  <2> QED BY <2>1, AdvanceGoesOn
<1> QED BY <1>1, <1>2

LEMMA LinkedGoesOn ==
  ASSUME IncidentsInv, NEW l \in Loads, load[l].pc \notin {"idle", "analyse"}, Linked(l),
         l \notin unsure /\ load[l].at # 0 => incident'[Latest].event # 0
  PROVE  GoesOn(l)
<1>1. CASE After(l) # 0
  <2>1. Advance(l, "link", After(l)) /\ After(l) \in {load[l].at, load[l].spike}
    BY <1>1, LoopFacts DEF Linked
  <2> QED BY <1>1, <2>1, AdvanceGoesOn
<1>2. CASE After(l) = 0
  BY <1>2, EndGoesOn DEF Linked, EndLoad
<1> QED BY <1>1, <1>2

LEMMA LoadsIncidents ==
  ASSUME IncidentsInv, NEW l \in Loads,
         \/ ReadSpikes(l) \/ LookForEvent(l) \/ CreateEvent(l)
         \/ FindUnlinked(l) \/ WriteLink(l) \/ LoadFails(l)
  PROVE  IncidentsInv'
<1>1. /\ load \in [Loads -> LoadRecords] /\ load[l] \in LoadRecords
      /\ event \in [Events -> EventKinds] /\ incident \in [Rows -> IncidentRecords]
  BY DEF IncidentsInv, IncidentTypes
<1>2. CASE ReadSpikes(l)
  <2>1. load[l].pc = "analyse" /\ UNCHANGED <<rowVars, incident, refresh, event, pastVars>>
    BY <1>2 DEF ReadSpikes
  <2>2. PICK b \in 0..MaxBuckets :
           LET n == IF b = 0 THEN 0 ELSE MaxRows + b
               now == IF load[l].at # 0 THEN load[l].at ELSE n
           IN  load' = [load EXCEPT ![l] = IF now = 0 THEN NoLoad
                           ELSE [load[l] EXCEPT !.pc = "look", !.spike = n, !.now = now]]
    BY <1>2 DEF ReadSpikes
  <2> DEFINE n == IF b = 0 THEN 0 ELSE MaxRows + b
             now == IF load[l].at # 0 THEN load[l].at ELSE n
             new == [load[l] EXCEPT !.pc = "look", !.spike = n, !.now = now]
  <2>3. GoesOn(l)
    <3>1. CASE now = 0
      BY <2>2, <3>1, EndGoesOn
    <3>2. CASE now # 0
      <4>1. n \in {0} \cup Events /\ (n = 0 \/ n > MaxRows)
        BY IncidentsAssumption DEF Events
      <4>2. now \in {0} \cup Events /\ now \in {load[l].at, n}
        BY <1>1, <4>1, IncidentFacts DEF LoadRecords
      <4>3. load' = [load EXCEPT ![l] = new]
        BY <2>2, <3>2
      <4> HIDE DEF n, now
      <4>4. /\ new \in LoadRecords /\ new.pc = "look" /\ new.at = load[l].at
            /\ new.issue = load[l].issue /\ new.spike = n /\ new.now = now
        BY <1>1, <4>1, <4>2 DEF LoadRecords
      <4>5. LoopAt(new)
        BY <3>2, <4>1, <4>2, <4>4 DEF LoopAt
      <4> HIDE DEF new
      <4> QED BY <1>1, <4>3, <4>4, <4>5 DEF GoesOn
    <3> QED BY <3>1, <3>2
  <2> QED BY <1>1, <2>1, <2>3, LoadIncidents DEF Links, pastVars
<1>3. CASE LookForEvent(l)
  <2>1. load[l].pc = "look" /\ UNCHANGED <<rowVars, incident, refresh, event, pastVars>>
    BY <1>3 DEF LookForEvent
  <2>2. Advance(l, "create", load[l].now) \/ Materialized(l)
    BY <1>3 DEF LookForEvent
  <2>3. GoesOn(l)
    BY <2>1, <2>2, LoopFacts, AdvanceGoesOn, MaterializedGoesOn
  <2> QED BY <1>1, <2>1, <2>3, LoadIncidents DEF Links, pastVars
<1>4. CASE CreateEvent(l)
  <2> DEFINE n == load[l].now
  <2>1. /\ load[l].pc = "create" /\ UNCHANGED <<rowVars, incident, refresh, pastVars>>
        /\ \/ event' = [event EXCEPT ![n] = KindOf(l, n)] /\ Materialized(l)
           \/ EndLoad(l) /\ event' = event
    BY <1>4 DEF CreateEvent
  <2>2. GoesOn(l)
    BY <2>1, EndGoesOn, MaterializedGoesOn DEF EndLoad
  <2>3. KindOf(l, n) \in EventKinds
    BY <1>1 DEF KindOf, EventKinds, LoadRecords
  <2>4. /\ event' \in [Events -> EventKinds]
        /\ \A k \in Events : event'[k] # event[k] => k = n /\ event'[k] = KindOf(l, n)
    <3> HIDE DEF n
    <3> QED BY <1>1, <2>1, <2>3
  <2>5. \A k \in Events : event'[k] # event[k] =>
           load[l].pc = "create" /\ k = load[l].now /\ event'[k] = KindOf(l, k)
    BY <2>1, <2>4
  <2>6. Links(l)
    BY <2>1 DEF Links, pastVars
  <2> QED BY <2>1, <2>2, <2>4, <2>5, <2>6, LoadIncidents DEF pastVars
<1>5. CASE FindUnlinked(l)
  <2>1. load[l].pc = "link" /\ UNCHANGED <<rowVars, incident, refresh, event, pastVars>>
    BY <1>5 DEF FindUnlinked
  <2>2. l \notin unsure /\ load[l].at # 0 =>
           /\ Latest # 0 /\ Sure(l)
    <3> SUFFICES ASSUME l \notin unsure, load[l].at # 0 PROVE Latest # 0 /\ Sure(l)
      OBVIOUS
    <3>1. Sure(l)
      BY DEF IncidentsInv, LinksAgree
    <3> QED BY <3>1, LatestProps, IncidentFacts DEF Sure, LatestIs
  <2>3. GoesOn(l)
    <3>1. CASE Latest # 0 /\ incident[Latest].event = 0
      <4> DEFINE new == [load[l] EXCEPT !.pc = "write", !.row = Latest]
      <4>1. load' = [load EXCEPT ![l] = new]
        BY <1>1, <1>5, <3>1 DEF FindUnlinked
      <4>2. Latest \in 0..MaxRows
        BY <3>1, LatestProps, IncidentFacts
      <4>3. /\ new \in LoadRecords /\ new.pc = "write" /\ new.at = load[l].at
            /\ new.issue = load[l].issue /\ new.spike = load[l].spike
            /\ new.now = load[l].now /\ new.row = Latest
        BY <1>1, <4>2 DEF LoadRecords
      <4>4. LoopAt(new)
        BY <2>1, <4>3, LoopFacts DEF LoopAt
      <4>5. l \notin unsure /\ load[l].at # 0 => load[l].now = load[l].at
        BY <2>1, <2>2, <3>1 DEF Sure
      <4> HIDE DEF new
      <4> QED BY <1>1, <3>1, <4>1, <4>3, <4>4, <4>5 DEF GoesOn
    <3>2. CASE ~(Latest # 0 /\ incident[Latest].event = 0)
      <4>1. Linked(l) /\ incident' = incident
        BY <1>5, <2>1, <3>2 DEF FindUnlinked
      <4> QED BY <2>1, <2>2, <3>2, <4>1, LinkedGoesOn
    <3> QED BY <3>1, <3>2
  <2> QED BY <1>1, <2>1, <2>3, LoadIncidents DEF Links, pastVars
<1>6. CASE WriteLink(l)
  <2>1. /\ load[l].pc = "write" /\ Linked(l)
        /\ UNCHANGED <<rowVars, refresh, event, stale, doubled, seen, unsure>>
    BY <1>6 DEF WriteLink
  <2>2. Links(l) /\ incident' = [incident EXCEPT ![load[l].row].event = load[l].now]
    BY <1>6 DEF WriteLink, Links
  <2>3. l \notin unsure /\ load[l].at # 0 => incident'[Latest].event # 0
    <3> SUFFICES ASSUME l \notin unsure, load[l].at # 0 PROVE incident'[Latest].event # 0
      OBVIOUS
    <3>1. Sure(l)
      BY DEF IncidentsInv, LinksAgree
    <3>2. load[l].row = Latest /\ Latest \in Rows /\ load[l].now # 0
      BY <2>1, <3>1, LatestProps, LoopFacts DEF Sure, LatestIs
    <3> DEFINE i == Latest
               n == load[l].now
    <3>3. incident[i] \in IncidentRecords /\ incident' = [incident EXCEPT ![i].event = n]
          /\ i \in Rows
      BY <1>1, <2>2, <3>2
    <3> HIDE DEF i, n
    <3>4. incident'[i].event = n
      BY <1>1, <3>3 DEF IncidentRecords
    <3> QED BY <3>2, <3>4 DEF i, n
  <2>4. GoesOn(l)
    BY <2>1, <2>3, LinkedGoesOn
  <2> QED BY <1>1, <2>1, <2>2, <2>4, LoadIncidents
<1>7. CASE LoadFails(l)
  <2>1. load[l].pc # "idle" /\ UNCHANGED <<rowVars, incident, refresh, event, pastVars>>
    BY <1>7 DEF LoadFails
  <2>2. GoesOn(l)
    BY <1>7, EndGoesOn DEF LoadFails, EndLoad
  <2> QED BY <1>1, <2>1, <2>2, LoadIncidents DEF Links, pastVars
<1> QED BY <1>2, <1>3, <1>4, <1>5, <1>6, <1>7

LEMMA EventIncidents ==
  ASSUME IncidentsInv, DeleteOld
  PROVE  IncidentsInv'
<1>1. UNCHANGED <<rowVars, incident, refresh, load, pastVars>>
  BY DEF DeleteOld
<1>2. /\ event' \in [Events -> EventKinds]
      /\ \A n \in Events : event'[n] \in {"none", event[n]}
  <2>1. PICK N \in SUBSET {n \in Events : event[n] # "none"} :
           event' = [n \in Events |-> IF n \in N THEN "none" ELSE event[n]]
    BY DEF DeleteOld
  <2>2. \A n \in Events : event[n] \in EventKinds
    BY IncidentFacts
  <2> QED BY <2>1, <2>2 DEF EventKinds
<1>3. Open' = Open
  BY <1>1 DEF Open
<1>4. IncidentTypes'
  BY <1>1, <1>2 DEF rowVars, pastVars, IncidentsInv, IncidentTypes
<1>5. RowsFound'
  BY <1>1 DEF rowVars, IncidentsInv, RowsFound
<1>6. RefreshTells' /\ RefreshCounts'
  BY <1>1, <1>3, RefreshKept DEF rowVars, pastVars
<1>7. ASSUME NEW n, NEW v, Says(n, v) PROVE Says(n, v)'
  <2>1. n \in Events
    BY <1>7, IncidentFacts DEF Says
  <2> QED BY <1>1, <1>2, <1>7, <2>1 DEF Says, rowVars
<1>8. LinksAgree'
  <2>1. \A m \in Loads : load'[m].at # 0 => Says(load[m].at, load[m].issue)'
    BY <1>1, <1>7 DEF IncidentsInv, LinksAgree
  <2>2. \A n \in Rows : event'[n] # "none" => Says(n, event[n])'
    BY <1>2, <1>7, IncidentFacts DEF IncidentsInv, LinksAgree
  <2>3. \A n \in Events \ Rows : event'[n] \in {"none", Spike}
    BY <1>2 DEF IncidentsInv, LinksAgree
  <2>4. \A i \in Rows \ blurred' : incident'[i].event # 0 =>
            IF i \in spiked' THEN incident'[i].event \in Events \ Rows
            ELSE incident'[i].event \in Rows /\ Says(incident[i].event, incident[i].issue)'
    BY <1>1, <1>7 DEF pastVars, IncidentsInv, LinksAgree
  <2>5. Latest' = Latest /\ \A v : LatestIs(v)' <=> LatestIs(v)
    BY <1>1, <1>3, LatestKept
  <2>6. \A m \in Loads \ unsure' : load'[m].at # 0 => Sure(m)'
    BY <1>1, <2>5 DEF pastVars, IncidentsInv, LinksAgree, Sure, LatestIs
  <2> QED BY <2>1, <2>2, <2>3, <2>4, <2>6 DEF LinksAgree
<1> QED BY <1>4, <1>5, <1>6, <1>8 DEF IncidentsInv

LEMMA NextIncidents == IncidentsInv /\ [IncidentsNext]_incidentVars => IncidentsInv'
<1> SUFFICES ASSUME IncidentsInv, [IncidentsNext]_incidentVars PROVE IncidentsInv'
  OBVIOUS
<1>1. CASE UNCHANGED incidentVars
  <2>1. UNCHANGED <<rowVars, incident, refresh, load, event, troubles, pastVars>>
    BY <1>1 DEF incidentVars
  <2>2. Open' = Open
    BY <2>1 DEF Open
  <2>3. IncidentTypes' /\ RowsFound'
    BY <2>1 DEF rowVars, pastVars, IncidentsInv, IncidentTypes, RowsFound
  <2>4. RefreshTells' /\ RefreshCounts'
    BY <2>1, <2>2, RefreshKept DEF rowVars, pastVars
  <2>5. LinksAgree'
    BY <2>1, <2>2, LinksKept DEF pastVars
  <2> QED BY <2>3, <2>4, <2>5 DEF IncidentsInv
<1>2. CASE IncidentsNext
  BY <1>2, ValidateIncidents, WriteStatusIncidents, ResolveOpenIncidents, FindOpenIncidents,
     BumpIncidents, CloseIncidents, CreateIncidents, RefreshFailsIncidents,
     ResolveIncidentIncidents, BeginLoadIncidents, LoadsIncidents, EventIncidents
  DEF IncidentsNext, Verdicts
<1> QED BY <1>1, <1>2

\* The inductive invariant of the health incidents and of the notifications about a
\* provider's status and its spikes (providerHealthIncidentService.ts,
\* notificationEventService.ts).
THEOREM IncidentsInvariant == IncidentsSpec => []IncidentsInv
  BY InitIncidents, NextIncidents, PTL DEF IncidentsSpec

\* README.md:222: for any number of refreshes, loads and validations, however they
\* interleave, the incidents tell the status, are one and counted, and are linked to a
\* notification of their own issue, or to a spike by a load that told of no status.
THEOREM IncidentsSafety == IncidentsSpec => []IncidentsTell
<1>1. IncidentsInv => IncidentsTell
  <2> SUFFICES ASSUME IncidentsInv PROVE IncidentsTell
    OBVIOUS
  <2>1. OpenTellsStatus
    BY DEF IncidentsInv, RefreshTells
  <2>2. OneOpenCounted
    <3> SUFFICES ASSUME ~doubled PROVE OneOpenCounted
      BY DEF OneOpenCounted
    <3>1. Open = {} \/ \E i \in Open : Open = {i}
      BY DEF IncidentsInv, RefreshCounts
    <3>2. Cardinality(Open) <= 1
      BY <3>1, FS_EmptySet, FS_Singleton
    <3> QED BY <3>2 DEF OneOpenCounted, IncidentsInv, RefreshCounts
  <2>3. LinkMatches
    <3> SUFFICES ASSUME NEW i \in Rows \ blurred, incident[i].event # 0,
                        event[incident[i].event] # "none"
                 PROVE  event[incident[i].event] = IF i \in spiked THEN Spike ELSE incident[i].issue
      BY DEF LinkMatches
    <3>1. CASE i \in spiked
      BY <3>1 DEF IncidentsInv, LinksAgree
    <3>2. CASE i \notin spiked
      BY <3>2 DEF IncidentsInv, LinksAgree, Says
    <3> QED BY <3>1, <3>2
  <2> QED BY <2>1, <2>2, <2>3 DEF IncidentsTell
<1> QED BY <1>1, IncidentsInvariant, PTL

-----------------------------------------------------------------------------
(* Drift alerts.                                                           *)

Flags == BOOLEAN
RunRecords == [ok : Flags, detected : SUBSET Kinds, missing : SUBSET Kinds, hint : SUBSET Kinds]
BaselineRecords == [made : Flags, active : Flags, run : RunRecords]
SetterRecords == [pc : {"idle", "create"}, run : RunRecords]
AlertRecords == [state : {"none", "open", "resolved"}, baseline : 0..MaxBaselines, score : Nat]
EvaluationRecords == [pc : {"idle", "find", "write", "create"}, baseline : 0..MaxBaselines,
                      score : Nat, alerts : SUBSET Alerts]

DriftTypes ==
    /\ baseline \in [Baselines -> BaselineRecords]
    /\ setter \in [Setters -> SetterRecords]
    /\ alert \in [Alerts -> AlertRecords]
    /\ evaluation \in [Evaluations -> EvaluationRecords]
    /\ lastRun \in [Baselines -> RunRecords]

\* What is compared has been made, and its run stays as it is.
Made ==
    /\ \A b \in Baselines : baseline[b].active \/ lastRun[b] # Disturbed => baseline[b].made
    /\ \A e \in Evaluating :
          evaluation[e].baseline \in Baselines /\ baseline[evaluation[e].baseline].made

\* An evaluation writes to alerts of its baseline only.
OwnAlerts ==
    /\ \A a \in Alerts : alert[a].state = "open" => alert[a].baseline \in Baselines
    /\ \A e \in Evaluating : \A a \in evaluation[e].alerts :
          alert[a].state # "none" /\ alert[a].baseline = evaluation[e].baseline

Score(b) == DriftScore(baseline[b].run, lastRun[b])
On(b) == {e \in Evaluating : evaluation[e].baseline = b}

\* The alerts of a baseline tell its last run, or its only evaluation will see to it.
Tells(b) ==
    lastRun[b] # Disturbed =>
        /\ \A e \in On(b) :
              /\ On(b) = {e} /\ evaluation[e].score = Score(b)
              /\ evaluation[e].pc = "create" => ShouldAlert(Score(b))
              /\ evaluation[e].pc = "write" =>
                    /\ evaluation[e].alerts # {}
                    /\ ShouldAlert(Score(b)) => evaluation[e].alerts \subseteq OpenAlerts(b)
                    /\ ~ShouldAlert(Score(b)) => OpenAlerts(b) \subseteq evaluation[e].alerts
        /\ On(b) = {} => /\ ShouldAlert(Score(b)) => OpenAlerts(b) # {}
                         /\ ~ShouldAlert(Score(b)) => OpenAlerts(b) = {}

\* The inductive invariant.
DriftInv == DriftTypes /\ Made /\ OwnAlerts /\ \A b \in Baselines : Tells(b)

-----------------------------------------------------------------------------
(* The score.                                                               *)

LEMMA MinIs ==
  ASSUME NEW x \in Nat
  PROVE  /\ Min({100, x}) \in Nat /\ (ShouldAlert(Min({100, x})) <=> x >= 25)
<1>1. \E m \in {100, x} : \A y \in {100, x} : m <= y
  <2>1. CASE x <= 100
    BY <2>1
  <2>2. CASE 100 <= x
    BY <2>2
  <2> QED BY <2>1, <2>2
<1> DEFINE m == Min({100, x})
<1>2. m \in {100, x} /\ m <= 100 /\ m <= x
  BY <1>1 DEF Min
<1> HIDE DEF m
<1>3. m \in Nat /\ (m >= 25 <=> x >= 25)
  BY <1>2
<1> QED BY <1>3 DEF m, ShouldAlert

LEMMA KindsCounted ==
  ASSUME NEW S \in SUBSET Kinds
  PROVE  Cardinality(S) \in Nat /\ (S # {} => Cardinality(S) >= 1) /\ (S = {} => Cardinality(S) = 0)
<1>1. IsFiniteSet(S)
  BY DriftAssumption, FS_Subset
<1>2. Cardinality(S) \in Nat /\ (Cardinality(S) = 0 <=> S = {})
  BY <1>1, FS_CardinalityType, FS_EmptySet
<1> QED BY <1>2

\* A capability lost or newly missed is an alert, and a run like the baseline none.
LEMMA ScoreTells ==
  ASSUME NEW b \in RunRecords, NEW n \in RunRecords
  PROVE  /\ DriftScore(b, n) \in Nat
         /\ ~(b.detected \subseteq n.detected /\ n.missing \subseteq b.missing)
                => ShouldAlert(DriftScore(b, n))
         /\ b = n => ~ShouldAlert(DriftScore(b, n))
<1> DEFINE lost == Cardinality(b.detected \ n.detected)
           missed == Cardinality(n.missing \ b.missing)
           changed == Cardinality(ChangedHints(b, n))
           new == Cardinality(n.detected \ b.detected)
           broken == IF b.ok # n.ok /\ ~n.ok THEN 30 ELSE 0
           x == 25 * lost + 30 * missed + 10 * changed + 5 * new + broken
<1>1. b.detected \subseteq Kinds /\ n.detected \subseteq Kinds /\ n.missing \subseteq Kinds
  BY DEF RunRecords
<1>2. ChangedHints(b, n) \subseteq Kinds /\ (b = n => ChangedHints(b, n) = {})
  BY <1>1 DEF ChangedHints
<1>3. lost \in Nat /\ missed \in Nat /\ changed \in Nat /\ new \in Nat /\ broken \in Nat
  <2>1. broken \in Nat
    OBVIOUS
  <2>2. /\ b.detected \ n.detected \in SUBSET Kinds /\ n.missing \ b.missing \in SUBSET Kinds
        /\ n.detected \ b.detected \in SUBSET Kinds
    BY <1>1
  <2> QED BY <1>2, <2>1, <2>2, KindsCounted
<1>4. ~(b.detected \subseteq n.detected) => lost >= 1
  <2>1. ~(b.detected \subseteq n.detected) => b.detected \ n.detected # {}
    OBVIOUS
  <2>2. b.detected \ n.detected \in SUBSET Kinds
    BY <1>1
  <2> QED BY <2>1, <2>2, KindsCounted
<1>5. ~(n.missing \subseteq b.missing) => missed >= 1
  <2>1. ~(n.missing \subseteq b.missing) => n.missing \ b.missing # {}
    OBVIOUS
  <2>2. n.missing \ b.missing \in SUBSET Kinds
    BY <1>1
  <2> QED BY <2>1, <2>2, KindsCounted
<1>6. b = n => lost = 0 /\ missed = 0 /\ changed = 0 /\ new = 0 /\ broken = 0
  <2> SUFFICES ASSUME b = n PROVE lost = 0 /\ missed = 0 /\ changed = 0 /\ new = 0 /\ broken = 0
    OBVIOUS
  <2>1. /\ b.detected \ n.detected = {} /\ n.missing \ b.missing = {}
        /\ n.detected \ b.detected = {} /\ ChangedHints(b, n) = {} /\ broken = 0
    BY <1>2
  <2>2. Cardinality({}) = 0
    BY FS_EmptySet
  <2> QED BY <2>1, <2>2
<1>7. DriftScore(b, n) = Min({100, x})
  BY DEF DriftScore
<1> HIDE DEF lost, missed, changed, new, broken
<1>8. /\ x \in Nat
      /\ lost >= 1 \/ missed >= 1 => x >= 25
      /\ lost = 0 /\ missed = 0 /\ changed = 0 /\ new = 0 /\ broken = 0 => ~(x >= 25)
  BY <1>3
<1> HIDE DEF x
<1>9. Min({100, x}) \in Nat /\ (ShouldAlert(Min({100, x})) <=> x >= 25)
  BY <1>8, MinIs
<1> QED BY <1>4, <1>5, <1>6, <1>7, <1>8, <1>9

-----------------------------------------------------------------------------
(* The invariant.                                                           *)

LEMMA NoFindIs ==
  /\ NoFind \in RunRecords /\ Disturbed \in RunRecords
  /\ NoEvaluation \in EvaluationRecords /\ NoSetter \in SetterRecords
  /\ NoEvaluation.pc = "idle"
<1>1. NoFind \in RunRecords /\ Disturbed \in RunRecords
  BY DEF NoFind, Disturbed, RunRecords, Flags
<1>2. NoEvaluation \in EvaluationRecords /\ NoEvaluation.pc = "idle"
  BY DriftAssumption DEF NoEvaluation, EvaluationRecords
<1>3. NoSetter \in SetterRecords
  BY <1>1 DEF NoSetter, SetterRecords
<1> QED BY <1>1, <1>2, <1>3

LEMMA FoundIs == ASSUME NEW n \in Found \cup {NoFind} PROVE n \in RunRecords
<1>1. CASE n \in Found
  <2>1. PICK D \in SUBSET Kinds, H \in SUBSET Kinds, V \in SUBSET Kinds :
           n = [ok |-> TRUE, detected |-> D, missing |-> Expected \ H, hint |-> V]
    BY <1>1 DEF Found, Runs
  <2>2. Expected \ H \in SUBSET Kinds
    BY DriftAssumption
  <2> QED BY <2>1, <2>2 DEF RunRecords, Flags
<1> QED BY <1>1, NoFindIs

LEMMA DriftFacts ==
  ASSUME DriftInv
  PROVE  /\ \A b \in Baselines : /\ baseline[b] \in BaselineRecords
                                 /\ baseline[b].run \in RunRecords
                                 /\ lastRun[b] \in RunRecords
                                 /\ Score(b) \in Nat
         /\ \A e \in Evaluations : /\ evaluation[e] \in EvaluationRecords
                                   /\ evaluation[e].score \in Nat
                                   /\ evaluation[e].baseline \in 0..MaxBaselines
                                   /\ evaluation[e].alerts \subseteq Alerts
         /\ \A a \in Alerts : alert[a] \in AlertRecords
         /\ \A s \in Setters : setter[s] \in SetterRecords /\ setter[s].run \in RunRecords
<1>1. /\ \A b \in Baselines : /\ baseline[b] \in BaselineRecords /\ lastRun[b] \in RunRecords
      /\ \A e \in Evaluations : evaluation[e] \in EvaluationRecords
      /\ \A a \in Alerts : alert[a] \in AlertRecords
      /\ \A s \in Setters : setter[s] \in SetterRecords
  BY DEF DriftInv, DriftTypes
<1>2. \A b \in Baselines : baseline[b].run \in RunRecords
  BY <1>1 DEF BaselineRecords
<1>3. \A b \in Baselines : Score(b) \in Nat
  BY <1>1, <1>2, ScoreTells DEF Score
<1>4. \A e \in Evaluations : /\ evaluation[e].score \in Nat
                             /\ evaluation[e].baseline \in 0..MaxBaselines
                             /\ evaluation[e].alerts \subseteq Alerts
  BY <1>1 DEF EvaluationRecords
<1>5. \A s \in Setters : setter[s].run \in RunRecords
  BY <1>1 DEF SetterRecords
<1> QED BY <1>1, <1>2, <1>3, <1>4, <1>5

\* What an action that leaves a baseline's run, evaluations and alerts alone keeps.
LEMMA TellsKept ==
  ASSUME NEW b, Tells(b), lastRun'[b] = lastRun[b],
         lastRun[b] # Disturbed => baseline'[b].run = baseline[b].run,
         OpenAlerts(b)' = OpenAlerts(b), On(b)' = On(b),
         \A e \in On(b) : evaluation'[e] = evaluation[e]
  PROVE  Tells(b)'
<1>1. CASE lastRun[b] = Disturbed
  BY <1>1 DEF Tells
<1>2. CASE lastRun[b] # Disturbed
  <2>1. Score(b)' = Score(b)
    BY <1>2 DEF Score
  <2> QED BY <1>2, <2>1 DEF Tells
<1> QED BY <1>1, <1>2

LEMMA InitDrift == DriftInit => DriftInv
<1> SUFFICES ASSUME DriftInit PROVE DriftInv
  OBVIOUS
<1>1. DriftTypes
  <2>1. [made |-> FALSE, active |-> FALSE, run |-> NoFind] \in BaselineRecords
    BY NoFindIs DEF BaselineRecords, Flags
  <2>2. [state |-> "none", baseline |-> 0, score |-> 0] \in AlertRecords
    BY DriftAssumption DEF AlertRecords
  <2> QED BY <2>1, <2>2, NoFindIs DEF DriftInit, DriftTypes
<1>2. Evaluating = {}
  BY NoFindIs DEF DriftInit, Evaluating
<1>3. Made
  BY <1>2 DEF Made, DriftInit
<1>4. OwnAlerts
  BY <1>2 DEF OwnAlerts, DriftInit
<1> QED BY <1>1, <1>3, <1>4 DEF DriftInv, Tells, DriftInit

LEMMA DeactivateOthersDrift ==
  ASSUME DriftInv, NEW s \in Setters, NEW n \in Found \cup {NoFind}, DeactivateOthers(s, n)
  PROVE  DriftInv'
<1>1. /\ setter' = [setter EXCEPT ![s] = [pc |-> "create", run |-> n]]
      /\ baseline' = [b \in Baselines |-> [baseline[b] EXCEPT !.active = FALSE]]
      /\ UNCHANGED <<alert, evaluation, lastRun>>
  BY DEF DeactivateOthers
<1>2. \A b \in Baselines : /\ baseline'[b] \in BaselineRecords
                           /\ baseline'[b].run = baseline[b].run
                           /\ baseline'[b].made <=> baseline[b].made
                           /\ ~baseline'[b].active
  BY <1>1, DriftFacts DEF BaselineRecords, Flags
<1>3. DriftTypes'
  <2>1. [pc |-> "create", run |-> n] \in SetterRecords
    BY FoundIs DEF SetterRecords
  <2>2. baseline' \in [Baselines -> BaselineRecords]
    <3>1. baseline' = [b \in Baselines |-> baseline'[b]]
      BY <1>1
    <3> QED BY <1>2, <3>1
  <2> QED BY <1>1, <2>1, <2>2 DEF DriftInv, DriftTypes
<1>4. Evaluating' = Evaluating
  BY <1>1 DEF Evaluating
<1>5. Made'
  BY <1>1, <1>2, <1>4 DEF DriftInv, Made
<1>6. OwnAlerts'
  BY <1>1, <1>4 DEF DriftInv, OwnAlerts
<1>7. \A b \in Baselines : Tells(b)'
  BY <1>1, <1>2, <1>4, TellsKept DEF DriftInv, On, OpenAlerts
<1> QED BY <1>3, <1>5, <1>6, <1>7 DEF DriftInv

LEMMA CreateBaselineDrift ==
  ASSUME DriftInv, NEW s \in Setters, CreateBaseline(s)
  PROVE  DriftInv'
<1>1. PICK c \in Baselines :
         /\ ~baseline[c].made
         /\ baseline' = [baseline EXCEPT ![c] =
                            [made |-> TRUE, active |-> TRUE, run |-> setter[s].run]]
  BY DEF CreateBaseline
<1>2. setter' = [setter EXCEPT ![s] = NoSetter] /\ UNCHANGED <<alert, evaluation, lastRun>>
  BY DEF CreateBaseline
<1>3. DriftTypes'
  <2>1. [made |-> TRUE, active |-> TRUE, run |-> setter[s].run] \in BaselineRecords
    BY DriftFacts DEF BaselineRecords, Flags
  <2> QED BY <1>1, <1>2, <2>1, NoFindIs DEF DriftInv, DriftTypes
<1>4. /\ \A b \in Baselines \ {c} : baseline'[b] = baseline[b]
      /\ baseline'[c].made /\ lastRun[c] = Disturbed
  BY <1>1 DEF DriftInv, DriftTypes, Made
<1>5. Evaluating' = Evaluating
  BY <1>2 DEF Evaluating
<1>6. Made'
  BY <1>2, <1>4, <1>5 DEF DriftInv, Made
<1>7. OwnAlerts'
  BY <1>2, <1>5 DEF DriftInv, OwnAlerts
<1>8. \A b \in Baselines : Tells(b)'
  BY <1>2, <1>4, <1>5, TellsKept DEF DriftInv, On, OpenAlerts
<1> QED BY <1>3, <1>6, <1>7, <1>8 DEF DriftInv

LEMMA DeactivateDrift ==
  ASSUME DriftInv, NEW c \in Baselines, Deactivate(c)
  PROVE  DriftInv'
<1>1. /\ baseline' = [baseline EXCEPT ![c].active = FALSE]
      /\ UNCHANGED <<setter, alert, evaluation, lastRun>>
  BY DEF Deactivate
<1>2. /\ baseline' \in [Baselines -> BaselineRecords]
      /\ \A b \in Baselines : /\ baseline'[b].run = baseline[b].run
                              /\ baseline'[b].made <=> baseline[b].made
                              /\ baseline'[b].active => baseline[b].active
  <2>1. baseline \in [Baselines -> BaselineRecords]
    BY DEF DriftInv, DriftTypes
  <2>2. /\ [baseline[c] EXCEPT !.active = FALSE] \in BaselineRecords
        /\ baseline' = [baseline EXCEPT ![c] = [baseline[c] EXCEPT !.active = FALSE]]
    BY <1>1, <2>1 DEF BaselineRecords, Flags
  <2> QED BY <2>1, <2>2 DEF BaselineRecords
<1>3. DriftTypes'
  BY <1>1, <1>2 DEF DriftInv, DriftTypes
<1>4. Evaluating' = Evaluating
  BY <1>1 DEF Evaluating
<1>5. Made'
  BY <1>1, <1>2, <1>4 DEF DriftInv, Made
<1>6. OwnAlerts'
  BY <1>1, <1>4 DEF DriftInv, OwnAlerts
<1>7. \A b \in Baselines : Tells(b)'
  BY <1>1, <1>2, <1>4, TellsKept DEF DriftInv, On, OpenAlerts
<1> QED BY <1>3, <1>5, <1>6, <1>7 DEF DriftInv

LEMMA SetterFailsDrift ==
  ASSUME DriftInv, NEW s \in Setters, SetterFails(s)
  PROVE  DriftInv'
<1>1. /\ setter' = [setter EXCEPT ![s] = NoSetter]
      /\ UNCHANGED <<baseline, alert, evaluation, lastRun>>
  BY DEF SetterFails
<1>2. DriftTypes'
  BY <1>1, NoFindIs DEF DriftInv, DriftTypes
<1>3. Evaluating' = Evaluating
  BY <1>1 DEF Evaluating
<1>4. Made' /\ OwnAlerts'
  BY <1>1, <1>3 DEF DriftInv, Made, OwnAlerts
<1>5. \A b \in Baselines : Tells(b)'
  BY <1>1, <1>3, TellsKept DEF DriftInv, On, OpenAlerts
<1> QED BY <1>2, <1>4, <1>5 DEF DriftInv

LEMMA LatestActive ==
  ASSUME Active # {}
  PROVE  Max(Active) \in Active
<1>1. Active \subseteq 0..MaxBaselines /\ MaxBaselines \in Nat
  BY DriftAssumption DEF Active, Baselines
<1>2. \E x \in Active : \A y \in Active : x >= y
  BY <1>1, NatGreatest
<1> QED BY <1>2 DEF Max

LEMMA EvaluateDrift ==
  ASSUME DriftInv, NEW e \in Evaluations, NEW n \in Found \cup {NoFind}, Evaluate(e, n)
  PROVE  DriftInv'
<1>0. Active # {}
  BY DEF Evaluate
<1> PICK b \in Baselines : b = Max(Active) /\ b \in Active
  BY <1>0, LatestActive DEF Active
<1> DEFINE score == DriftScore(baseline[b].run, n)
           new == [pc |-> "find", baseline |-> b, score |-> score, alerts |-> {}]
<1>1. /\ evaluation[e].pc = "idle"
      /\ evaluation' = [evaluation EXCEPT ![e] = new]
      /\ lastRun' = [lastRun EXCEPT ![b] = IF \E x \in Evaluating : evaluation[x].baseline = b
                                             THEN Disturbed ELSE n]
      /\ UNCHANGED <<baseline, setter, alert>>
  BY DEF Evaluate
<1>2. b \in Baselines /\ baseline[b].made /\ n \in RunRecords
  <2>1. baseline[b].active
    BY DEF Active
  <2>2. baseline[b].made
    BY <2>1 DEF DriftInv, Made
  <2> QED BY <2>2, FoundIs
<1>3. score \in Nat
  BY <1>2, DriftFacts, ScoreTells
<1> HIDE DEF score
<1>4. new \in EvaluationRecords
  BY <1>2, <1>3 DEF EvaluationRecords, Baselines
<1>5. new.pc = "find" /\ new.baseline = b /\ new.score = score /\ new.alerts = {}
  OBVIOUS
<1> HIDE DEF new
<1>6. DriftTypes'
  BY <1>1, <1>2, <1>4, NoFindIs DEF DriftInv, DriftTypes
<1>7. evaluation'[e] = new /\ \A x \in Evaluations \ {e} : evaluation'[x] = evaluation[x]
  BY <1>1 DEF DriftInv, DriftTypes
<1>8. Evaluating' = Evaluating \cup {e} /\ e \notin Evaluating
  BY <1>1, <1>5, <1>7 DEF Evaluating
<1>9. Made'
  <2>1. \A d \in Baselines \ {b} : lastRun'[d] = lastRun[d]
    BY <1>1 DEF DriftInv, DriftTypes
  <2>2. \A d \in Baselines : baseline'[d].active \/ lastRun'[d] # Disturbed => baseline'[d].made
    BY <1>1, <1>2, <2>1 DEF DriftInv, Made
  <2>3. ASSUME NEW x \in Evaluating'
        PROVE  evaluation'[x].baseline \in Baselines /\ baseline'[evaluation'[x].baseline].made
    <3>1. CASE x = e
      BY <1>1, <1>2, <1>5, <1>7, <3>1
    <3>2. CASE x # e
      <4>1. x \in Evaluating /\ evaluation'[x] = evaluation[x]
        BY <1>7, <1>8, <3>2 DEF Evaluating
      <4> QED BY <1>1, <4>1 DEF DriftInv, Made
    <3> QED BY <3>1, <3>2
  <2> QED BY <2>2, <2>3 DEF Made
<1>10. OwnAlerts'
  <2>1. \A x \in Evaluating' : x = e \/ (x \in Evaluating /\ evaluation'[x] = evaluation[x])
    BY <1>7, <1>8 DEF Evaluating
  <2>2. \A a \in Alerts : alert'[a].state = "open" => alert'[a].baseline \in Baselines
    BY <1>1 DEF DriftInv, OwnAlerts
  <2>3. \A x \in Evaluating' : \A a \in evaluation'[x].alerts :
           alert'[a].state # "none" /\ alert'[a].baseline = evaluation'[x].baseline
    BY <1>1, <1>5, <1>7, <2>1 DEF DriftInv, OwnAlerts
  <2> QED BY <2>2, <2>3 DEF OwnAlerts
<1>11. ASSUME NEW d \in Baselines
       PROVE  Tells(d)'
  <2>1. CASE d = b
    <3>1. CASE \E x \in Evaluating : evaluation[x].baseline = b
      BY <1>1, <1>2, <2>1, <3>1 DEF Tells, DriftInv, DriftTypes
    <3>2. CASE ~\E x \in Evaluating : evaluation[x].baseline = b
      <4>1. lastRun'[b] = n
        BY <1>1, <1>2, <3>2 DEF DriftInv, DriftTypes
      <4>2. Score(b)' = score
        BY <1>1, <4>1 DEF Score, score
      <4>3. On(b)' = {e}
        <5>1. \A x \in Evaluating : evaluation'[x] = evaluation[x]
          BY <1>7, <1>8 DEF Evaluating
        <5> QED BY <1>5, <1>7, <1>8, <3>2, <5>1 DEF On
      <4> QED BY <1>5, <1>7, <2>1, <4>2, <4>3 DEF Tells
    <3> QED BY <3>1, <3>2
  <2>2. CASE d # b
    <3>1. \A x \in Evaluating : evaluation'[x] = evaluation[x]
      BY <1>7, <1>8 DEF Evaluating
    <3>2. On(d)' = On(d)
      BY <1>5, <1>7, <1>8, <2>2, <3>1 DEF On
    <3>3. \A x \in On(d) : evaluation'[x] = evaluation[x]
      BY <3>1 DEF On
    <3>4. lastRun'[d] = lastRun[d]
      BY <1>1, <2>2 DEF DriftInv, DriftTypes
    <3> QED BY <1>1, <3>2, <3>3, <3>4, TellsKept DEF DriftInv, OpenAlerts
  <2> QED BY <2>1, <2>2
<1> QED BY <1>6, <1>9, <1>10, <1>11 DEF DriftInv

\* What a step of one evaluation that stays on its baseline leaves as it was.
LEMMA OtherEvaluationsKept ==
  ASSUME DriftInv, NEW e \in Evaluations, NEW v \in EvaluationRecords,
         evaluation' = [evaluation EXCEPT ![e] = v], evaluation[e].pc # "idle",
         v.pc # "idle" => v.baseline = evaluation[e].baseline
  PROVE  /\ e \in Evaluating /\ evaluation[e].baseline \in Baselines
         /\ evaluation' \in [Evaluations -> EvaluationRecords] /\ evaluation'[e] = v
         /\ \A x \in Evaluations \ {e} : evaluation'[x] = evaluation[x]
         /\ Evaluating' \subseteq Evaluating
         /\ e \in Evaluating' <=> v.pc # "idle"
         /\ \A d \in Baselines \ {evaluation[e].baseline} :
               On(d)' = On(d) /\ \A x \in On(d) : evaluation'[x] = evaluation[x]
         /\ \A d \in Baselines : d = evaluation[e].baseline =>
               On(d)' = IF v.pc = "idle" THEN On(d) \ {e} ELSE On(d)
         /\ \A x \in Evaluating' : evaluation'[x].baseline = evaluation[x].baseline
<1>1. /\ evaluation' \in [Evaluations -> EvaluationRecords] /\ evaluation'[e] = v
      /\ \A x \in Evaluations \ {e} : evaluation'[x] = evaluation[x]
  BY DEF DriftInv, DriftTypes
<1>2. e \in Evaluating /\ evaluation[e].baseline \in Baselines
  BY DEF DriftInv, Made, Evaluating
<1>3. Evaluating' = IF v.pc = "idle" THEN Evaluating \ {e} ELSE Evaluating
  BY <1>1, <1>2 DEF Evaluating
<1>4. \A x \in Evaluating' : evaluation'[x].baseline = evaluation[x].baseline
  BY <1>1, <1>3 DEF Evaluating
<1>5. e \in Evaluating' <=> v.pc # "idle"
  BY <1>2, <1>3
<1>6. Evaluating \subseteq Evaluations
  BY DEF Evaluating
<1>7. \A d \in Baselines \ {evaluation[e].baseline} :
         On(d)' = On(d) /\ \A x \in On(d) : evaluation'[x] = evaluation[x]
  <2> SUFFICES ASSUME NEW d \in Baselines \ {evaluation[e].baseline}
               PROVE  On(d)' = On(d) /\ \A x \in On(d) : evaluation'[x] = evaluation[x]
    OBVIOUS
  <2>1. \A x \in On(d) : x # e /\ x \in Evaluating'
    BY <1>3 DEF On
  <2>2. \A x \in On(d) : evaluation'[x] = evaluation[x]
    BY <1>1, <1>6, <2>1 DEF On
  <2>3. \A x \in On(d)' : x \in On(d)
    BY <1>3, <1>4 DEF On
  <2>4. \A x \in On(d) : x \in On(d)'
    BY <2>1, <2>2 DEF On
  <2> QED BY <2>2, <2>3, <2>4
<1>8. \A d \in Baselines : d = evaluation[e].baseline =>
         On(d)' = IF v.pc = "idle" THEN On(d) \ {e} ELSE On(d)
  <2> SUFFICES ASSUME NEW d \in Baselines, d = evaluation[e].baseline
               PROVE  On(d)' = IF v.pc = "idle" THEN On(d) \ {e} ELSE On(d)
    OBVIOUS
  <2>1. \A x \in Evaluating \ {e} : evaluation'[x] = evaluation[x]
    BY <1>1, <1>6
  <2>2. \A x \in On(d)' : x \in On(d) /\ (v.pc = "idle" => x # e)
    BY <1>3, <1>4 DEF On
  <2>3. \A x \in On(d) : x # e => x \in On(d)'
    BY <1>3, <2>1 DEF On
  <2>4. v.pc # "idle" => e \in On(d)'
    BY <1>1, <1>3, <1>2 DEF On
  <2> QED BY <2>2, <2>3, <2>4
<1> QED BY <1>1, <1>2, <1>3, <1>4, <1>5, <1>7, <1>8

\* An evaluation that has gone on or ended has not changed the other baselines.
LEMMA StepDrift ==
  ASSUME DriftInv, NEW e \in Evaluations, NEW v \in EvaluationRecords,
         evaluation' = [evaluation EXCEPT ![e] = v], evaluation[e].pc # "idle",
         v.pc # "idle" => v.baseline = evaluation[e].baseline,
         UNCHANGED <<baseline, setter>>,
         alert' \in [Alerts -> AlertRecords], lastRun' \in [Baselines -> RunRecords],
         \A d \in Baselines \ {evaluation[e].baseline} :
            OpenAlerts(d)' = OpenAlerts(d) /\ lastRun'[d] = lastRun[d],
         \A d \in Baselines : d = evaluation[e].baseline => Tells(d)',
         lastRun'[evaluation[e].baseline] \in {lastRun[evaluation[e].baseline], Disturbed},
         \A a \in Alerts : alert'[a].state = "open" => alert'[a].baseline \in Baselines,
         \A a \in Alerts : alert[a].state # "none" =>
            alert'[a].state # "none" /\ alert'[a].baseline = alert[a].baseline,
         \A a \in Alerts : v.pc # "idle" /\ a \in v.alerts =>
            alert'[a].state # "none" /\ alert'[a].baseline = evaluation[e].baseline
  PROVE  DriftInv'
<1>1. /\ e \in Evaluating /\ evaluation[e].baseline \in Baselines
      /\ evaluation' \in [Evaluations -> EvaluationRecords] /\ evaluation'[e] = v
      /\ \A x \in Evaluations \ {e} : evaluation'[x] = evaluation[x]
      /\ Evaluating' \subseteq Evaluating
      /\ e \in Evaluating' <=> v.pc # "idle"
      /\ \A d \in Baselines \ {evaluation[e].baseline} :
            On(d)' = On(d) /\ \A x \in On(d) : evaluation'[x] = evaluation[x]
      /\ \A x \in Evaluating' : evaluation'[x].baseline = evaluation[x].baseline
  BY OtherEvaluationsKept
<1>2. DriftTypes'
  BY <1>1 DEF DriftInv, DriftTypes
<1>3. Made'
  BY <1>1 DEF DriftInv, Made
<1>4. OwnAlerts'
  <2>1. ASSUME NEW x \in Evaluating', NEW a \in evaluation'[x].alerts, a \in Alerts
        PROVE  alert'[a].state # "none" /\ alert'[a].baseline = evaluation'[x].baseline
    <3>1. CASE x = e
      BY <1>1, <2>1, <3>1
    <3>2. CASE x # e
      <4>1. x \in Evaluating /\ evaluation'[x] = evaluation[x]
        BY <1>1, <3>2 DEF Evaluating
      <4> QED BY <2>1, <4>1 DEF DriftInv, OwnAlerts
    <3> QED BY <3>1, <3>2
  <2>2. \A x \in Evaluating' : evaluation'[x].alerts \subseteq Alerts
    BY <1>1 DEF EvaluationRecords, Evaluating
  <2> QED BY <2>1, <2>2 DEF OwnAlerts
<1>5. ASSUME NEW d \in Baselines PROVE Tells(d)'
  <2>1. CASE d = evaluation[e].baseline
    BY <2>1
  <2>2. CASE d # evaluation[e].baseline
    BY <1>1, <2>2, TellsKept DEF DriftInv
  <2> QED BY <2>1, <2>2
<1> QED BY <1>2, <1>3, <1>4, <1>5 DEF DriftInv

LEMMA DriftEnded ==
  ASSUME DriftInv, NEW e \in Evaluations,
         evaluation' = [evaluation EXCEPT ![e] = NoEvaluation], evaluation[e].pc # "idle",
         UNCHANGED <<baseline, setter>>,
         alert' \in [Alerts -> AlertRecords], lastRun' \in [Baselines -> RunRecords],
         \A d \in Baselines \ {evaluation[e].baseline} :
            OpenAlerts(d)' = OpenAlerts(d) /\ lastRun'[d] = lastRun[d],
         \A d \in Baselines : d = evaluation[e].baseline => Tells(d)',
         lastRun'[evaluation[e].baseline] \in {lastRun[evaluation[e].baseline], Disturbed},
         \A a \in Alerts : alert'[a].state = "open" => alert'[a].baseline \in Baselines,
         \A a \in Alerts : alert[a].state # "none" =>
            alert'[a].state # "none" /\ alert'[a].baseline = alert[a].baseline
  PROVE  DriftInv'
BY NoFindIs, StepDrift

LEMMA FindAlertsDrift ==
  ASSUME DriftInv, NEW e \in Evaluations, FindAlerts(e)
  PROVE  DriftInv'
<1> PICK A \in IF ShouldAlert(evaluation[e].score) /\ OpenAlerts(evaluation[e].baseline) # {}
               THEN {{a} : a \in OpenAlerts(evaluation[e].baseline)}
               ELSE {OpenAlerts(evaluation[e].baseline)} :
         evaluation' = [evaluation EXCEPT ![e].alerts = A,
              ![e].pc = CASE ShouldAlert(evaluation[e].score) /\ A = {} -> "create"
                          [] A # {} -> "write"
                          [] OTHER -> "idle"]
  BY DEF FindAlerts
<1> DEFINE pc == CASE ShouldAlert(evaluation[e].score) /\ A = {} -> "create"
                   [] A # {} -> "write"
                   [] OTHER -> "idle"
           v == [evaluation[e] EXCEPT !.alerts = A, !.pc = pc]
<1>1. evaluation[e].pc = "find" /\ UNCHANGED <<baseline, setter, alert, lastRun>>
  BY DEF FindAlerts
<1>2. /\ pc \in {"create", "write", "idle"}
      /\ pc = "create" <=> ShouldAlert(evaluation[e].score) /\ A = {}
      /\ pc = "write" <=> A # {}
  OBVIOUS
<1> HIDE DEF pc
<1>3. evaluation[e] \in EvaluationRecords /\ A \subseteq Alerts
  BY DriftFacts DEF OpenAlerts
<1>4. /\ v \in EvaluationRecords /\ v.pc = pc /\ v.alerts = A
      /\ v.baseline = evaluation[e].baseline /\ v.score = evaluation[e].score
  BY <1>2, <1>3 DEF EvaluationRecords
<1>5. evaluation' = [evaluation EXCEPT ![e] = v]
  BY DEF DriftInv, DriftTypes, pc
<1> HIDE DEF v
<1>6. \A d \in Baselines : OpenAlerts(d)' = OpenAlerts(d) /\ Score(d)' = Score(d)
  BY <1>1 DEF OpenAlerts, Score
<1>7. A \subseteq OpenAlerts(evaluation[e].baseline)
  OBVIOUS
<1>8. ASSUME NEW d \in Baselines, d = evaluation[e].baseline PROVE Tells(d)'
  <2>1. /\ On(d)' = IF v.pc = "idle" THEN On(d) \ {e} ELSE On(d)
        /\ evaluation'[e] = v /\ e \in On(d)
    <3>1. e \in Evaluating
      BY <1>1 DEF Evaluating
    <3>2. e \in On(d)
      BY <1>8, <3>1 DEF On
    <3>3. evaluation[e].pc # "idle"
      BY <1>1
    <3>4. /\ evaluation'[e] = v
          /\ \A x \in Baselines : x = evaluation[e].baseline =>
                On(x)' = IF v.pc = "idle" THEN On(x) \ {e} ELSE On(x)
      BY <1>4, <1>5, <3>3, OtherEvaluationsKept
    <3> QED BY <1>8, <3>2, <3>4
  <2>2. CASE lastRun[d] = Disturbed
    BY <1>1, <2>2 DEF Tells
  <2>3. CASE lastRun[d] # Disturbed
    <3>1. On(d) = {e} /\ evaluation[e].score = Score(d)
      BY <2>1, <2>3 DEF DriftInv, Tells
    <3>2. CASE pc = "idle"
      <4>1. ~ShouldAlert(Score(d)) /\ OpenAlerts(d) = {}
        BY <1>2, <1>8, <3>1, <3>2
      <4> QED BY <1>4, <1>6, <2>1, <3>1, <3>2, <4>1 DEF Tells
    <3>3. CASE pc = "create"
      <4>1. ShouldAlert(Score(d))
        BY <1>2, <3>1, <3>3
      <4> QED BY <1>4, <1>6, <2>1, <3>1, <3>3, <4>1 DEF Tells
    <3>4. CASE pc = "write"
      <4>1. A # {} /\ A \subseteq OpenAlerts(d)
        BY <1>2, <1>7, <1>8, <3>4
      <4>2. ~ShouldAlert(Score(d)) => OpenAlerts(d) \subseteq A
        BY <1>8, <3>1
      <4> QED BY <1>4, <1>6, <2>1, <3>1, <3>4, <4>1, <4>2 DEF Tells
    <3> QED BY <1>2, <3>2, <3>3, <3>4
  <2> QED BY <2>2, <2>3
<1>9. \A a \in A : alert[a].state = "open" /\ alert[a].baseline = evaluation[e].baseline
  BY <1>7 DEF OpenAlerts
<1>10. \A a \in Alerts : alert'[a].state = "open" => alert'[a].baseline \in Baselines
  BY <1>1 DEF DriftInv, OwnAlerts
<1> QED
  <2>1. alert' \in [Alerts -> AlertRecords] /\ lastRun' \in [Baselines -> RunRecords]
    BY <1>1 DEF DriftInv, DriftTypes
  <2> QED BY <1>1, <1>4, <1>5, <1>6, <1>8, <1>9, <1>10, <2>1, StepDrift

LEMMA WriteAlertDrift ==
  ASSUME DriftInv, NEW e \in Evaluations, WriteAlert(e)
  PROVE  DriftInv'
<1> PICK a \in evaluation[e].alerts :
      /\ alert' = IF ShouldAlert(evaluation[e].score)
                  THEN [alert EXCEPT ![a].score = evaluation[e].score]
                  ELSE [alert EXCEPT ![a].state = "resolved"]
      /\ evaluation' = [evaluation EXCEPT ![e] =
            IF evaluation[e].alerts = {a} THEN NoEvaluation
            ELSE [evaluation[e] EXCEPT !.alerts = evaluation[e].alerts \ {a}]]
  BY DEF WriteAlert
<1> DEFINE rest == [evaluation[e] EXCEPT !.alerts = evaluation[e].alerts \ {a}]
           v == IF evaluation[e].alerts = {a} THEN NoEvaluation ELSE rest
<1>1. evaluation[e].pc = "write" /\ UNCHANGED <<baseline, setter, lastRun>>
  BY DEF WriteAlert
<1>2. e \in Evaluating /\ evaluation[e] \in EvaluationRecords /\ a \in Alerts
  BY <1>1, DriftFacts DEF Evaluating
<1>3. /\ rest \in EvaluationRecords /\ rest.pc = "write"
      /\ rest.alerts = evaluation[e].alerts \ {a}
      /\ rest.baseline = evaluation[e].baseline /\ rest.score = evaluation[e].score
  BY <1>1, <1>2 DEF EvaluationRecords
<1>4. evaluation' = [evaluation EXCEPT ![e] = v]
  OBVIOUS
<1> HIDE DEF rest
<1>5. v \in EvaluationRecords /\ (v.pc # "idle" <=> evaluation[e].alerts # {a})
  BY <1>3, NoFindIs
<1>6. evaluation[e].alerts # {a} => v = rest
  OBVIOUS
<1> HIDE DEF v
<1>7. alert[a].state # "none" /\ alert[a].baseline = evaluation[e].baseline
  BY <1>2 DEF DriftInv, OwnAlerts
<1>8. /\ alert' \in [Alerts -> AlertRecords]
      /\ \A c \in Alerts : /\ alert'[c].baseline = alert[c].baseline
                           /\ alert'[c].state =
                                 IF c = a /\ ~ShouldAlert(evaluation[e].score) THEN "resolved"
                                 ELSE alert[c].state
  <2>1. alert \in [Alerts -> AlertRecords] /\ evaluation[e].score \in Nat
    BY DriftFacts DEF DriftInv, DriftTypes
  <2>2. CASE ShouldAlert(evaluation[e].score)
    <3>1. [alert[a] EXCEPT !.score = evaluation[e].score] \in AlertRecords
      BY <1>2, <2>1 DEF AlertRecords
    <3>2. alert' = [alert EXCEPT ![a] = [alert[a] EXCEPT !.score = evaluation[e].score]]
      BY <1>2, <2>1, <2>2
    <3>3. \A c \in Alerts : alert[c] \in AlertRecords
      BY <2>1
    <3> QED BY <1>2, <2>1, <2>2, <3>1, <3>2, <3>3 DEF AlertRecords
  <2>3. CASE ~ShouldAlert(evaluation[e].score)
    <3>1. [alert[a] EXCEPT !.state = "resolved"] \in AlertRecords
      BY <1>2, <2>1 DEF AlertRecords
    <3>2. alert' = [alert EXCEPT ![a] = [alert[a] EXCEPT !.state = "resolved"]]
      BY <1>2, <2>1, <2>3
    <3>3. \A c \in Alerts : alert[c] \in AlertRecords
      BY <2>1
    <3> QED BY <1>2, <2>1, <2>3, <3>1, <3>2, <3>3 DEF AlertRecords
  <2> QED BY <2>2, <2>3
<1>9. \A d \in Baselines :
         OpenAlerts(d)' = IF d = evaluation[e].baseline /\ ~ShouldAlert(evaluation[e].score)
                          THEN OpenAlerts(d) \ {a} ELSE OpenAlerts(d)
  BY <1>2, <1>7, <1>8 DEF OpenAlerts
<1>10. ASSUME NEW d \in Baselines, d = evaluation[e].baseline PROVE Tells(d)'
  <2>1. e \in On(d) /\ evaluation[e].pc # "idle"
    BY <1>1, <1>2, <1>10 DEF On
  <2>2. (v.pc # "idle") => v.baseline = evaluation[e].baseline
    BY <1>3, <1>5, <1>6
  <2>3. /\ On(d)' = IF v.pc = "idle" THEN On(d) \ {e} ELSE On(d)
        /\ evaluation'[e] = v
    <3>1. /\ evaluation'[e] = v
          /\ \A x \in Baselines : x = evaluation[e].baseline =>
                On(x)' = IF v.pc = "idle" THEN On(x) \ {e} ELSE On(x)
      BY <1>4, <1>5, <2>1, <2>2, OtherEvaluationsKept
    <3> QED BY <1>10, <3>1
  <2>4. CASE lastRun[d] = Disturbed
    BY <1>1, <2>4 DEF Tells
  <2>5. CASE lastRun[d] # Disturbed
    <3>1. /\ On(d) = {e} /\ evaluation[e].score = Score(d)
          /\ ShouldAlert(Score(d)) => evaluation[e].alerts \subseteq OpenAlerts(d)
          /\ ~ShouldAlert(Score(d)) => OpenAlerts(d) \subseteq evaluation[e].alerts
      BY <1>1, <2>1, <2>5 DEF DriftInv, Tells
    <3>2. Score(d)' = Score(d)
      BY <1>1 DEF Score
    <3>3. OpenAlerts(d)' = IF ShouldAlert(Score(d)) THEN OpenAlerts(d) ELSE OpenAlerts(d) \ {a}
      BY <1>9, <1>10, <3>1
    <3>4. CASE evaluation[e].alerts = {a}
      <4>1. On(d)' = {}
        BY <1>5, <2>3, <3>1, <3>4
      <4>2. ShouldAlert(Score(d)) => OpenAlerts(d)' # {}
        BY <3>1, <3>3
      <4>3. ~ShouldAlert(Score(d)) => OpenAlerts(d)' = {}
        BY <3>1, <3>3, <3>4
      <4> QED BY <1>1, <3>2, <4>1, <4>2, <4>3 DEF Tells
    <3>5. CASE evaluation[e].alerts # {a}
      <4>1. On(d)' = {e} /\ evaluation'[e] = rest
        BY <1>5, <1>6, <2>3, <3>1, <3>5
      <4>2. rest.alerts # {}
        BY <1>3, <3>5
      <4>3. /\ ShouldAlert(Score(d)) => rest.alerts \subseteq OpenAlerts(d)'
            /\ ~ShouldAlert(Score(d)) => OpenAlerts(d)' \subseteq rest.alerts
        BY <1>3, <3>1, <3>3
      <4> QED BY <1>1, <1>3, <3>1, <3>2, <4>1, <4>2, <4>3 DEF Tells
    <3> QED BY <3>4, <3>5
  <2> QED BY <2>4, <2>5
<1>11. \A c \in Alerts : alert'[c].state = "open" => alert'[c].baseline \in Baselines
  BY <1>8 DEF DriftInv, OwnAlerts
<1>12. \A c \in Alerts : alert[c].state # "none" =>
          alert'[c].state # "none" /\ alert'[c].baseline = alert[c].baseline
  BY <1>8
<1>13. \A c \in Alerts : v.pc # "idle" /\ c \in v.alerts =>
          alert'[c].state # "none" /\ alert'[c].baseline = evaluation[e].baseline
  <2>1. \A c \in evaluation[e].alerts : c \in Alerts =>
           alert[c].state # "none" /\ alert[c].baseline = evaluation[e].baseline
    BY <1>2 DEF DriftInv, OwnAlerts
  <2> QED BY <1>3, <1>5, <1>6, <1>12, <2>1
<1>14. (v.pc # "idle") => v.baseline = evaluation[e].baseline
  BY <1>3, <1>5, <1>6
<1>15. lastRun' \in [Baselines -> RunRecords]
  BY <1>1 DEF DriftInv, DriftTypes
<1> QED BY <1>1, <1>4, <1>5, <1>8, <1>9, <1>10, <1>11, <1>12, <1>13, <1>14, <1>15, StepDrift

LEMMA CreateAlertDrift ==
  ASSUME DriftInv, NEW e \in Evaluations, CreateAlert(e)
  PROVE  DriftInv'
<1> DEFINE new == [state |-> "open", baseline |-> evaluation[e].baseline,
                   score |-> evaluation[e].score]
<1> PICK a \in Alerts : alert[a].state = "none" /\ alert' = [alert EXCEPT ![a] = new]
  BY DEF CreateAlert
<1>1. /\ evaluation[e].pc = "create" /\ evaluation' = [evaluation EXCEPT ![e] = NoEvaluation]
      /\ UNCHANGED <<baseline, setter, lastRun>>
  BY DEF CreateAlert
<1>2. /\ new \in AlertRecords /\ new.state = "open" /\ new.baseline = evaluation[e].baseline
      /\ evaluation[e].baseline \in Baselines
  BY <1>1, DriftFacts DEF AlertRecords, DriftInv, Made, Evaluating
<1> HIDE DEF new
<1>3. /\ alert' \in [Alerts -> AlertRecords] /\ alert'[a] = new
      /\ \A c \in Alerts \ {a} : alert'[c] = alert[c]
  BY <1>2 DEF DriftInv, DriftTypes
<1>4. \A d \in Baselines :
         OpenAlerts(d)' = IF d = evaluation[e].baseline THEN OpenAlerts(d) \cup {a}
                          ELSE OpenAlerts(d)
  BY <1>2, <1>3 DEF OpenAlerts
<1>5. ASSUME NEW d \in Baselines, d = evaluation[e].baseline PROVE Tells(d)'
  <2>1. e \in On(d)
    BY <1>1, <1>5 DEF On, Evaluating
  <2>2. On(d)' = On(d) \ {e}
    BY <1>1, <1>5, NoFindIs, OtherEvaluationsKept
  <2>3. CASE lastRun[d] = Disturbed
    BY <1>1, <2>3 DEF Tells
  <2>4. CASE lastRun[d] # Disturbed
    <3>1. On(d) = {e} /\ ShouldAlert(Score(d))
      BY <1>1, <2>1, <2>4 DEF DriftInv, Tells
    <3>2. Score(d)' = Score(d) /\ On(d)' = {} /\ OpenAlerts(d)' # {}
      BY <1>1, <1>4, <1>5, <2>2, <3>1 DEF Score
    <3> QED BY <3>1, <3>2 DEF Tells
  <2> QED BY <2>3, <2>4
<1>6. \A c \in Alerts : alert'[c].state = "open" => alert'[c].baseline \in Baselines
  BY <1>2, <1>3 DEF DriftInv, OwnAlerts
<1>7. \A c \in Alerts : alert[c].state # "none" =>
         alert'[c].state # "none" /\ alert'[c].baseline = alert[c].baseline
  BY <1>3
<1>8. lastRun' \in [Baselines -> RunRecords]
  BY <1>1 DEF DriftInv, DriftTypes
<1> QED BY <1>1, <1>3, <1>4, <1>5, <1>6, <1>7, <1>8, DriftEnded

LEMMA EvaluationFailsDrift ==
  ASSUME DriftInv, NEW e \in Evaluations, EvaluationFails(e)
  PROVE  DriftInv'
<1>1. /\ evaluation[e].pc # "idle" /\ evaluation' = [evaluation EXCEPT ![e] = NoEvaluation]
      /\ lastRun' = [lastRun EXCEPT ![evaluation[e].baseline] = Disturbed]
      /\ UNCHANGED <<baseline, setter, alert>>
  BY DEF EvaluationFails
<1>2. evaluation[e].baseline \in Baselines
  BY <1>1 DEF DriftInv, Made, Evaluating
<1>3. /\ lastRun' \in [Baselines -> RunRecords] /\ alert' \in [Alerts -> AlertRecords]
      /\ lastRun'[evaluation[e].baseline] = Disturbed
      /\ \A d \in Baselines \ {evaluation[e].baseline} : lastRun'[d] = lastRun[d]
  BY <1>1, <1>2, NoFindIs DEF DriftInv, DriftTypes
<1>4. \A d \in Baselines : OpenAlerts(d)' = OpenAlerts(d)
  BY <1>1 DEF OpenAlerts
<1>5. ASSUME NEW d \in Baselines, d = evaluation[e].baseline PROVE Tells(d)'
  BY <1>3, <1>5 DEF Tells
<1>6. \A c \in Alerts : alert'[c].state = "open" => alert'[c].baseline \in Baselines
  BY <1>1 DEF DriftInv, OwnAlerts
<1>7. \A c \in Alerts : alert'[c] = alert[c]
  BY <1>1
<1> QED BY <1>1, <1>3, <1>4, <1>5, <1>6, <1>7, DriftEnded

LEMMA ResolveAlertDrift ==
  ASSUME DriftInv, NEW a \in Alerts, ResolveAlert(a)
  PROVE  DriftInv'
<1>1. /\ alert[a].state = "open" /\ alert' = [alert EXCEPT ![a].state = "resolved"]
      /\ lastRun' = [lastRun EXCEPT ![alert[a].baseline] = Disturbed]
      /\ UNCHANGED <<baseline, setter, evaluation>>
  BY DEF ResolveAlert
<1>2. alert[a].baseline \in Baselines
  BY <1>1 DEF DriftInv, OwnAlerts
<1>3. /\ lastRun' \in [Baselines -> RunRecords] /\ lastRun'[alert[a].baseline] = Disturbed
      /\ \A d \in Baselines \ {alert[a].baseline} : lastRun'[d] = lastRun[d]
  BY <1>1, <1>2, NoFindIs DEF DriftInv, DriftTypes
<1>4. /\ alert' \in [Alerts -> AlertRecords]
      /\ \A c \in Alerts : /\ alert'[c].baseline = alert[c].baseline
                           /\ alert'[c].state = IF c = a THEN "resolved" ELSE alert[c].state
  <2>1. alert \in [Alerts -> AlertRecords]
    BY DEF DriftInv, DriftTypes
  <2> QED BY <1>1, <2>1 DEF AlertRecords
<1>5. Evaluating' = Evaluating
  BY <1>1 DEF Evaluating
<1>6. DriftTypes'
  BY <1>1, <1>3, <1>4 DEF DriftInv, DriftTypes
<1>7. Made'
  BY <1>1, <1>3, <1>5 DEF DriftInv, Made
<1>8. OwnAlerts'
  BY <1>1, <1>4, <1>5 DEF DriftInv, OwnAlerts
<1>9. ASSUME NEW d \in Baselines PROVE Tells(d)'
  <2>1. CASE d = alert[a].baseline
    BY <1>3, <2>1 DEF Tells
  <2>2. CASE d # alert[a].baseline
    <3>1. OpenAlerts(d)' = OpenAlerts(d)
      BY <1>4, <2>2 DEF OpenAlerts
    <3> QED BY <1>1, <1>3, <1>5, <2>2, <3>1, TellsKept DEF DriftInv, On
  <2> QED BY <2>1, <2>2
<1> QED BY <1>6, <1>7, <1>8, <1>9 DEF DriftInv

LEMMA NextDrift == DriftInv /\ [DriftNext]_driftVars => DriftInv'
<1> SUFFICES ASSUME DriftInv, [DriftNext]_driftVars PROVE DriftInv'
  OBVIOUS
<1>1. CASE UNCHANGED driftVars
  BY <1>1 DEF driftVars, DriftInv, DriftTypes, Made, OwnAlerts, Tells, Score, On, Evaluating,
              OpenAlerts
<1>2. CASE DriftNext
  <2>1. CASE \E s \in Setters : \/ \E n \in Found \cup {NoFind} : DeactivateOthers(s, n)
                                \/ CreateBaseline(s) \/ SetterFails(s)
    BY <2>1, DeactivateOthersDrift, CreateBaselineDrift, SetterFailsDrift
  <2>2. CASE \E b \in Baselines : Deactivate(b)
    BY <2>2, DeactivateDrift
  <2>3. CASE \E e \in Evaluations : \/ \E n \in Found \cup {NoFind} : Evaluate(e, n)
                                    \/ FindAlerts(e) \/ WriteAlert(e) \/ CreateAlert(e)
                                    \/ EvaluationFails(e)
    BY <2>3, EvaluateDrift, FindAlertsDrift, WriteAlertDrift, CreateAlertDrift,
       EvaluationFailsDrift
  <2>4. CASE \E a \in Alerts : ResolveAlert(a)
    BY <2>4, ResolveAlertDrift
  <2> QED BY <1>2, <2>1, <2>2, <2>3, <2>4 DEF DriftNext
<1> QED BY <1>1, <1>2

\* README.md:222, diagnostics detect selector drift: whatever the evaluations of runs,
\* the changes of the baseline and the user's resolutions do between their queries, once
\* the evaluation of a run is over (providerDiagnosticsDriftAlertService.ts), an alert of
\* its baseline is open if the run has lost a capability or misses one the baseline had,
\* and none is open if nothing has changed.
THEOREM DriftSafety == DriftSpec => []AlertTellsDrift
<1>1. DriftInv => AlertTellsDrift
  <2> SUFFICES ASSUME DriftInv, NEW b \in Baselines, lastRun[b] # Disturbed,
                      \A e \in Evaluating : evaluation[e].baseline # b
               PROVE  /\ ~(/\ baseline[b].run.detected \subseteq lastRun[b].detected
                           /\ lastRun[b].missing \subseteq baseline[b].run.missing)
                              => OpenAlerts(b) # {}
                      /\ baseline[b].run = lastRun[b] => OpenAlerts(b) = {}
    BY DEF AlertTellsDrift
  <2>1. On(b) = {}
    BY DEF On
  <2>2. /\ ShouldAlert(Score(b)) => OpenAlerts(b) # {}
        /\ ~ShouldAlert(Score(b)) => OpenAlerts(b) = {}
    BY <2>1 DEF DriftInv, Tells
  <2>3. /\ ~(/\ baseline[b].run.detected \subseteq lastRun[b].detected
             /\ lastRun[b].missing \subseteq baseline[b].run.missing)
                => ShouldAlert(Score(b))
        /\ baseline[b].run = lastRun[b] => ~ShouldAlert(Score(b))
    BY DriftFacts, ScoreTells DEF Score
  <2> QED BY <2>2, <2>3
<1> QED BY <1>1, InitDrift, NextDrift, PTL DEF DriftSpec
=============================================================================
