------------------------------- MODULE Gateway -------------------------------
(***************************************************************************)
(* The way of a request to the OpenAI-compatible endpoint from its key to  *)
(* the job queue: authentication (internalApiAuth.ts), the counter of its  *)
(* key per minute (rateLimiter.ts), the usage row, the model's switch, the *)
(* key's scopes, the counter of the provider per minute, the connection,   *)
(* the job (openaiCompat.ts); beside the requests the owner creates,       *)
(* rotates, revokes and restricts keys, sets limits and switches models    *)
(* (apiKeyService.ts, providerRateLimitService.ts,                         *)
(* modelPreferenceService.ts).  Completion.tla takes over from the queue.  *)
(*                                                                         *)
(* Every model is one provider's (openaiCompatModels.ts), so that Models   *)
(* stands for the providers too.  A limit of 0 is the null of the row: the *)
(* default of the environment holds.                                       *)
(***************************************************************************)
EXTENDS Naturals, FiniteSets

CONSTANTS Requests, Keys, Models,
          EnvKey,         \* INTERNAL_API_KEY, which has no row
          WrongKey,       \* a token that is neither
          NoModel,        \* a model the endpoint does not serve
          Listing,        \* GET /v1/models instead of a completion
          Caps,           \* the limits an owner may set
          EnvLimit,       \* INTERNAL_API_RATE_LIMIT_PER_MINUTE
          EnvCap,         \* PROVIDER_RATE_LIMIT_*_PER_MINUTE
          MaxOthers       \* edits, logins, minutes and rejected calls

ASSUME GatewayAssumption ==
    /\ Caps \subseteq Nat \ {0}
    /\ EnvLimit \in Nat \ {0} /\ EnvCap \in Nat \ {0}
    /\ MaxOthers \in Nat
    /\ EnvKey \notin Keys /\ WrongKey \notin Keys /\ EnvKey # WrongKey
    /\ NoModel \notin Models /\ Listing \notin Models /\ NoModel # Listing

VARIABLES
    req,        \* the requests: awaited call, key, model, limit read, answer, usage row
    key,        \* the rows of the keys with their scopes
    rotation,   \* a rotateApiKey under way: next call, key, scopes it read, limit it read
    on,         \* the models that are enabled
    cap,        \* the limits per provider
    connected,  \* the providers a job can run on
    hits, phits,            \* the counters of this minute, per key and per provider
    admitted, padmitted,    \* history: requests let through this minute
    top, ptop,              \* history: the highest limit one of them was under
    granted,    \* history: the scopes the owner has given each key
    opened,     \* history: the models each key was let through to or shown
    others      \* what has happened beside the requests

countVars == <<hits, admitted, top>>
pcountVars == <<phits, padmitted, ptop>>
ownerVars == <<key, rotation, on, cap, granted>>
gatewayVars == <<req, ownerVars, connected, countVars, pcountVars, opened, others>>

Callers == Keys \cup {EnvKey}
Larger(a, b) == IF a > b THEN a ELSE b
Other == others < MaxOthers /\ others' = others + 1

NoRequest == [pc |-> "idle", key |-> WrongKey, want |-> NoModel, limit |-> 0,
              code |-> 0, log |-> "none"]
NoRotation == [pc |-> "idle", key |-> EnvKey, scopes |-> {}, limit |-> 0]

GatewayInit ==
    /\ req = [r \in Requests |-> NoRequest]
    /\ key = [k \in Keys |-> [status |-> "none", scopes |-> {}, limit |-> 0]]
    /\ rotation = NoRotation
    /\ on = Models
    /\ cap = [m \in Models |-> 0]
    /\ connected = Models
    /\ hits = [k \in Callers |-> 0] /\ phits = [m \in Models |-> 0]
    /\ admitted = [k \in Callers |-> 0] /\ padmitted = [m \in Models |-> 0]
    /\ top = [k \in Callers |-> 0] /\ ptop = [m \in Models |-> 0]
    /\ granted = [k \in Keys |-> {}]
    /\ opened = [k \in Keys |-> {}]
    /\ others = 0

-----------------------------------------------------------------------------
(* The request.  Answer ends it; its usage row, if there is one, takes the *)
(* status first, unless that update is rejected, which is only warned of.  *)

Goes(r, pc) == req' = [req EXCEPT ![r].pc = pc]
Ends(r, code, log) ==
    req' = [req EXCEPT ![r] = [NoRequest EXCEPT !.pc = "done", !.code = code, !.log = log]]
Noted(r, status) == IF req[r].log = "none" THEN "none" ELSE status

Answer(r, code, status) ==
    \/ Ends(r, code, Noted(r, status)) /\ UNCHANGED others
    \/ req[r].log # "none" /\ Other /\ Ends(r, code, req[r].log)

\* verifyApiKey looks for an active row with the hash of the token; any other
\* token must be the key of the environment.
Authenticate(r) ==
    /\ req[r].pc = "idle"
    /\ \E t \in Callers \cup {WrongKey}, w \in Models \cup {NoModel, Listing} :
          LET row == t \in Keys /\ key[t].status = "active"
              ok == row \/ t = EnvKey
          IN  IF ok
              THEN req' = [req EXCEPT ![r] =
                  [pc |-> "rate", key |-> t, want |-> w, code |-> 0, log |-> "none",
                   limit |-> IF row /\ key[t].limit # 0 THEN key[t].limit ELSE EnvLimit]]
              ELSE Ends(r, 401, "none")
    /\ UNCHANGED <<ownerVars, connected, countVars, pcountVars, opened, others>>

\* INCR of the key's counter, then the comparison; a refusal writes a row.
CountHitThenAdmitAt(r) ==
    LET k == req[r].key
        ok == hits[k] <= req[r].limit
    IN
    /\ req[r].pc = "rate"
    /\ hits' = [hits EXCEPT ![k] = @ + 1]
    /\ IF ok
       THEN /\ req' = [req EXCEPT ![r].pc = IF req[r].want = Listing THEN "list" ELSE "start",
                                 ![r].limit = 0]
            /\ admitted' = [admitted EXCEPT ![k] = @ + 1]
            /\ top' = [top EXCEPT ![k] = Larger(@, req[r].limit)]
       ELSE /\ Ends(r, 429, "rate_limited")
            /\ UNCHANGED <<admitted, top>>
    /\ UNCHANGED <<ownerVars, connected, pcountVars, opened, others>>
CountHit(r) ==
    LET k == req[r].key
        ok == hits[k] + 1 <= req[r].limit
    IN
    /\ req[r].pc = "rate"
    /\ hits' = [hits EXCEPT ![k] = @ + 1]
    /\ IF ok
       THEN /\ req' = [req EXCEPT ![r].pc = IF req[r].want = Listing THEN "list" ELSE "start",
                                 ![r].limit = 0]
            /\ admitted' = [admitted EXCEPT ![k] = @ + 1]
            /\ top' = [top EXCEPT ![k] = Larger(@, req[r].limit)]
       ELSE /\ Ends(r, 429, "rate_limited")
            /\ UNCHANGED <<admitted, top>>
    /\ UNCHANGED <<ownerVars, connected, pcountVars, opened, others>>

\* The models a caller may use now: an empty list of scopes restricts nothing.
Allowed(k) == IF k = EnvKey \/ key[k].scopes = {} THEN Models ELSE key[k].scopes

Opens(k, ms) ==
    opened' = IF k \in Keys THEN [opened EXCEPT ![k] = @ \cup ms] ELSE opened

ListModels(r) ==
    /\ req[r].pc = "list"
    /\ Ends(r, 200, "none")
    /\ Opens(req[r].key, Allowed(req[r].key))
    /\ UNCHANGED <<ownerVars, connected, countVars, pcountVars, others>>

\* createUsageStart; a rejection is swallowed and the request goes on without a row.
StartUsage(r) ==
    /\ req[r].pc = "start"
    /\ \/ req' = [req EXCEPT ![r].pc = "model", ![r].log = "queued"] /\ UNCHANGED others
       \/ Goes(r, "model") /\ Other
    /\ UNCHANGED <<ownerVars, connected, countVars, pcountVars, opened>>

CheckModel(r) ==
    /\ req[r].pc = "model"
    /\ CASE req[r].want = NoModel -> Answer(r, 400, "failed")
         [] req[r].want \in Models \ on -> Answer(r, 403, "failed")
         [] req[r].want \in on -> /\ Goes(r, IF req[r].key = EnvKey THEN "cap" ELSE "scope")
                                  /\ UNCHANGED others
    /\ UNCHANGED <<ownerVars, connected, countVars, pcountVars, opened>>

CheckScope(r) ==
    /\ req[r].pc = "scope"
    /\ IF req[r].want \in Allowed(req[r].key)
       THEN Goes(r, "cap") /\ Opens(req[r].key, {req[r].want}) /\ UNCHANGED others
       ELSE Answer(r, 403, "failed") /\ UNCHANGED opened
    /\ UNCHANGED <<ownerVars, connected, countVars, pcountVars>>

\* resolveProviderRateLimit.
ReadCap(r) ==
    /\ req[r].pc = "cap"
    /\ req' = [req EXCEPT ![r].pc = "count",
                   ![r].limit = IF cap[req[r].want] = 0 THEN EnvCap ELSE cap[req[r].want]]
    /\ UNCHANGED <<ownerVars, connected, countVars, pcountVars, opened, others>>

\* INCR of the provider's counter.  A refusal is noted on the row, or on a new
\* one; a rejected call of this check is answered as unavailable.
CountProviderHit(r) ==
    LET m == req[r].want
        ok == phits[m] + 1 <= req[r].limit
    IN
    /\ req[r].pc = "count"
    /\ phits' = [phits EXCEPT ![m] = @ + 1]
    /\ IF ok
       THEN /\ req' = [req EXCEPT ![r].pc = "check", ![r].limit = 0]
            /\ padmitted' = [padmitted EXCEPT ![m] = @ + 1]
            /\ ptop' = [ptop EXCEPT ![m] = Larger(@, req[r].limit)]
       ELSE /\ Ends(r, 429, "rate_limited")
            /\ UNCHANGED <<padmitted, ptop>>
    /\ UNCHANGED <<ownerVars, connected, countVars, opened, others>>

CapUnavailable(r) ==
    /\ req[r].pc \in {"cap", "count"} /\ Other
    /\ Ends(r, 503, Noted(r, "failed"))
    /\ UNCHANGED <<ownerVars, connected, countVars, pcountVars, opened>>

CheckProvider(r) ==
    /\ req[r].pc = "check"
    /\ IF req[r].want \in connected
       THEN Goes(r, "enqueue") /\ UNCHANGED others
       ELSE Answer(r, 409, "requires_login")
    /\ UNCHANGED <<ownerVars, connected, countVars, pcountVars, opened>>

\* Thread, job row and message are written and the job is enqueued; the
\* request then waits for the job's events.
Enqueue(r) ==
    /\ req[r].pc = "enqueue"
    /\ \/ Goes(r, "handed") /\ UNCHANGED others
       \/ Other /\ Ends(r, 503, Noted(r, "failed"))
    /\ UNCHANGED <<ownerVars, connected, countVars, pcountVars, opened>>

\* Any other rejected call ends the request in a 500 and leaves its row as it is.
Break(r) ==
    /\ req[r].pc \in {"rate", "list", "model", "scope", "check", "enqueue"} /\ Other
    /\ Ends(r, 500, req[r].log)
    /\ UNCHANGED <<ownerVars, connected, countVars, pcountVars, opened>>

-----------------------------------------------------------------------------
(* The owner's settings pages.                                              *)

\* One insert with its scopes.
CreateKey(k, ms, n) ==
    /\ Other
    /\ key[k].status = "none"
    /\ key' = [key EXCEPT ![k] = [status |-> "active", scopes |-> ms, limit |-> n]]
    /\ granted' = [granted EXCEPT ![k] = {ms}]
    /\ UNCHANGED <<rotation, on, cap>>

Revoke(k) ==
    /\ Other
    /\ key[k].status # "none"
    /\ key' = [key EXCEPT ![k].status = "revoked"]
    /\ UNCHANGED <<rotation, on, cap, granted>>

\* deleteMany and createMany in one transaction: a rejection of the second undoes
\* the first.
SetScopesUnlessRejected(k, ms) ==
    /\ Other
    /\ key[k].status # "none"
    /\ \E written \in {{}, ms} : key' = [key EXCEPT ![k].scopes = written]
    /\ granted' = [granted EXCEPT ![k] = @ \cup {ms}]
    /\ UNCHANGED <<rotation, on, cap>>
SetScopes(k, ms) ==
    /\ Other
    /\ key[k].status # "none"
    /\ key' = [key EXCEPT ![k].scopes = ms]
    /\ granted' = [granted EXCEPT ![k] = @ \cup {ms}]
    /\ UNCHANGED <<rotation, on, cap>>

SetLimit(k, n) ==
    /\ Other
    /\ key[k].status # "none"
    /\ key' = [key EXCEPT ![k].limit = n]
    /\ UNCHANGED <<rotation, on, cap, granted>>

\* rotateApiKey reads the key, revokes and stamps it, and creates its successor
\* with what it read; it does not look at the status.
BeginRotation(k, keep) ==
    /\ Other
    /\ rotation.pc = "idle" /\ key[k].status # "none"
    /\ rotation' = [pc |-> "revoke", key |-> k, limit |-> key[k].limit,
                    scopes |-> IF keep THEN key[k].scopes ELSE {}]
    /\ UNCHANGED <<key, on, cap, granted>>

RevokeRotated ==
    /\ rotation.pc = "revoke"
    /\ key' = [key EXCEPT ![rotation.key].status = "revoked"]
    /\ rotation' = [rotation EXCEPT !.pc = "create"]
    /\ UNCHANGED <<on, cap, granted, others>>

CreateRotated(k) ==
    /\ rotation.pc = "create" /\ key[k].status = "none"
    /\ key' = [key EXCEPT ![k] = [status |-> "active", scopes |-> rotation.scopes,
                                  limit |-> rotation.limit]]
    /\ granted' = [granted EXCEPT ![k] = {rotation.scopes}]
    /\ rotation' = NoRotation
    /\ UNCHANGED <<on, cap, others>>

\* PUT /settings/models writes the whole list in one transaction.
UpdateModelPreferences(ms) ==
    /\ Other
    /\ on' = ms
    /\ UNCHANGED <<key, rotation, cap, granted>>

UpdateProviderRateLimit(m, n) ==
    /\ Other
    /\ cap' = [cap EXCEPT ![m] = n]
    /\ UNCHANGED <<key, rotation, on, granted>>

Owner ==
    /\ \/ \E k \in Keys, ms \in SUBSET Models, n \in Caps \cup {0} : CreateKey(k, ms, n)
       \/ \E k \in Keys : Revoke(k)
       \/ \E k \in Keys, ms \in SUBSET Models : SetScopes(k, ms)
       \/ \E k \in Keys, n \in Caps \cup {0} : SetLimit(k, n)
       \/ \E k \in Keys, keep \in BOOLEAN : BeginRotation(k, keep)
       \/ RevokeRotated
       \/ \E k \in Keys : CreateRotated(k)
       \/ \E ms \in SUBSET Models : UpdateModelPreferences(ms)
       \/ \E m \in Models, n \in Caps \cup {0} : UpdateProviderRateLimit(m, n)
    /\ UNCHANGED <<req, connected, countVars, pcountVars, opened>>

\* A rejected call of a rotation leaves the owner with a revoked key.
RotationFails ==
    /\ rotation.pc # "idle" /\ Other
    /\ rotation' = NoRotation
    /\ UNCHANGED <<req, key, on, cap, granted, connected, countVars, pcountVars, opened>>

-----------------------------------------------------------------------------

\* Logins and lost sessions, as in ProviderConnection.
Reconnect(m) ==
    /\ Other
    /\ connected' = IF m \in connected THEN connected \ {m} ELSE connected \cup {m}
    /\ UNCHANGED <<req, key, rotation, on, cap, granted, countVars, pcountVars, opened>>

\* A new minute has counters of its own; EXPIRE outlives the old ones.
NextMinute ==
    /\ Other
    /\ hits' = [k \in Callers |-> 0] /\ phits' = [m \in Models |-> 0]
    /\ admitted' = [k \in Callers |-> 0] /\ padmitted' = [m \in Models |-> 0]
    /\ top' = [k \in Callers |-> 0] /\ ptop' = [m \in Models |-> 0]
    /\ UNCHANGED <<req, ownerVars, connected, opened>>

GatewayNext ==
    \/ \E r \in Requests :
          \/ Authenticate(r) \/ CountHit(r) \/ ListModels(r) \/ StartUsage(r)
          \/ CheckModel(r) \/ CheckScope(r) \/ ReadCap(r) \/ CountProviderHit(r)
          \/ CapUnavailable(r) \/ CheckProvider(r) \/ Enqueue(r) \/ Break(r)
    \/ Owner
    \/ RotationFails
    \/ \E m \in Models : Reconnect(m)
    \/ NextMinute

GatewaySpec == GatewayInit /\ [][GatewayNext]_gatewayVars

-----------------------------------------------------------------------------

GatewayTypeOK ==
    /\ req \in [Requests ->
          [pc : {"idle", "rate", "list", "start", "model", "scope", "cap", "count",
                 "check", "enqueue", "handed", "done"},
           key : Callers \cup {WrongKey}, want : Models \cup {NoModel, Listing},
           limit : Nat, code : Nat,
           log : {"none", "queued", "failed", "rate_limited", "requires_login"}]]
    /\ \A r \in Requests : /\ req[r].pc \notin {"idle", "done"} => req[r].key \in Callers
                           /\ req[r].pc \in {"scope", "cap", "count", "check", "enqueue",
                                             "handed"} => req[r].want \in Models
    /\ key \in [Keys -> [status : {"none", "active", "revoked"}, scopes : SUBSET Models,
                         limit : Nat]]
    /\ rotation \in [pc : {"idle", "revoke", "create"}, key : Callers,
                     scopes : SUBSET Models, limit : Nat]
    /\ rotation.pc # "idle" => rotation.key \in Keys
    /\ on \subseteq Models /\ connected \subseteq Models
    /\ cap \in [Models -> Nat]
    /\ hits \in [Callers -> Nat] /\ admitted \in [Callers -> Nat] /\ top \in [Callers -> Nat]
    /\ phits \in [Models -> Nat] /\ padmitted \in [Models -> Nat] /\ ptop \in [Models -> Nat]
    /\ granted \in [Keys -> SUBSET SUBSET Models]
    /\ opened \in [Keys -> SUBSET Models]
    /\ others \in Nat

\* README.md:171: in a minute no key and no provider lets through more
\* requests than the highest limit that one of them was read under, however the
\* requests interleave with one another and with changes of the limits.
WithinLimits ==
    /\ \A k \in Callers : admitted[k] <= top[k]
    /\ \A m \in Models : padmitted[m] <= ptop[m]

\* README.md:169: a key reaches, or is shown, only models of a list the owner
\* gave it; that an empty list restricts nothing must not show while a list is
\* replaced, a key is rotated or a call is rejected.
ScopesHold ==
    \A k \in Keys : \A m \in opened[k] : \E ms \in granted[k] : ms = {} \/ m \in ms
=============================================================================
