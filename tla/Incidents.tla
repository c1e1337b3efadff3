------------------------------ MODULE Incidents ------------------------------
(***************************************************************************)
(* The health incidents of one user's provider                             *)
(* (providerHealthIncidentService.ts), as refreshes of its health record   *)
(* what they observed (providerHealthService.ts), the user resolves        *)
(* incidents, and loads of the workspace turn the present status, and the   *)
(* provider's limit hits when there are many, into notifications and link   *)
(* them to an incident (workspaceNotificationService,                       *)
(* notificationEventService).  Every query is a step; nothing serialises   *)
(* the refreshes of the settings page, of an incident's action and of the  *)
(* scheduler.                                                              *)
(***************************************************************************)
EXTENDS Naturals, FiniteSets, FiniteSetsExt

CONSTANTS Refreshes, Loads,
          Issues,       \* statuses other than "connected"
          Told,         \* those that become notification events
          MaxRows,      \* incidents and validations
          MaxBuckets,   \* multiples of the spike threshold that the hits reach
          MaxTroubles   \* rejected calls and writes of others

Spike == "spike"    \* the kind of a provider_limit_spike notification

ASSUME IncidentsAssumption ==
    /\ Issues \cap {"connected", "none", Spike} = {} /\ Told \subseteq Issues
    /\ MaxRows \in Nat \ {0} /\ MaxBuckets \in Nat /\ MaxTroubles \in Nat

VARIABLES
    status, validated,  \* the connection row: its status and lastValidatedAt
    incident,   \* the rows, in the order of startedAt
    refresh,    \* a refresh: next await, issue, incident found, count read
    event,      \* notification events by the validation or bucket in their fingerprint:
                \* the kind of each, without its readAt
    load,       \* a load: next await, status read, its event and the spike's (0: none),
                \* the one its loop is at, incident found
    troubles,
    stale,      \* history: the status was not, or not alone, written by the last refresh
    doubled,    \* history: two refreshes have overlapped since all was resolved
    seen,       \* history: the observations of each incident
    unsure,     \* history: loads under which the status or the incidents changed
    blurred,    \* history: incidents such a load has linked
    spiked      \* history: incidents linked last by a load that told of no status

rowVars == <<status, validated>>
pastVars == <<stale, doubled, seen, unsure, blurred, spiked>>
incidentVars == <<rowVars, incident, refresh, event, load, troubles, pastVars>>

Rows == 1..MaxRows
Events == 1..(MaxRows + MaxBuckets)   \* those of validations, then the buckets'
Open == {i \in Rows : incident[i].state = "open"}
Latest == IF Open = {} THEN 0 ELSE Max(Open)
Busy == {r \in Refreshes : refresh[r].pc # "idle"}

NoRefresh == [pc |-> "idle", issue |-> "connected", row |-> 0, count |-> 0]
NoLoad == [pc |-> "idle", issue |-> "connected", at |-> 0, spike |-> 0, now |-> 0, row |-> 0]
IncidentsInit ==
    /\ status = "connected" /\ validated = 0
    /\ incident = [i \in Rows |-> [state |-> "none", issue |-> "connected", count |-> 0,
                                   event |-> 0]]
    /\ refresh = [r \in Refreshes |-> NoRefresh]
    /\ event = [n \in Events |-> "none"]
    /\ load = [l \in Loads |-> NoLoad]
    /\ troubles = 0
    /\ stale = FALSE /\ doubled = FALSE
    /\ seen = [i \in Rows |-> 0]
    /\ unsure = {} /\ blurred = {} /\ spiked = {}

Trouble == troubles < MaxTroubles /\ troubles' = troubles + 1
Disturbs == unsure' = unsure \cup {l \in Loads : load[l].pc # "idle"}

-----------------------------------------------------------------------------
(* Refreshes.                                                               *)

\* updateConnectionStatus with the verdict of a validation; a rejected update is
\* swallowed and the observation recorded all the same.
Validate(r, v) ==
    /\ refresh[r].pc = "idle" /\ validated < MaxRows
    /\ refresh' = [refresh EXCEPT ![r] = [NoRefresh EXCEPT !.pc = "observe", !.issue = v]]
    /\ \/ status' = v /\ validated' = validated + 1 /\ stale' = (Busy # {}) /\ UNCHANGED troubles
       \/ Trouble /\ stale' = TRUE /\ UNCHANGED rowVars
    /\ doubled' = (doubled \/ Busy # {})
    /\ Disturbs
    /\ UNCHANGED <<incident, event, load, seen, blurred, spiked>>

\* The status changes and no incident is told: a refresh without a session that
\* decrypts, a connect, a disconnect, a chat job's verdict.
WriteStatus(v) ==
    /\ Trouble /\ validated < MaxRows
    /\ status' = v /\ validated' = validated + 1
    /\ stale' = TRUE
    /\ Disturbs
    /\ UNCHANGED <<incident, refresh, event, load, doubled, seen, blurred, spiked>>

ResolveOpen(r) ==
    /\ refresh[r].pc = "observe" /\ refresh[r].issue = "connected"
    /\ incident' = [i \in Rows |-> IF i \in Open THEN [incident[i] EXCEPT !.state = "resolved"]
                                   ELSE incident[i]]
    /\ refresh' = [refresh EXCEPT ![r] = NoRefresh]
    /\ doubled' = (Busy # {r})
    /\ Disturbs
    /\ UNCHANGED <<rowVars, event, load, troubles, stale, seen, blurred, spiked>>

FindOpenOfProvider(r) ==
    /\ refresh[r].pc = "observe" /\ refresh[r].issue # "connected"
    /\ refresh' = [refresh EXCEPT
          ![r].row = Latest,
          ![r].count = IF Latest = 0 THEN 0 ELSE incident[Latest].count,
          ![r].pc = IF Latest = 0 THEN "create" ELSE "bump"]
    /\ UNCHANGED <<rowVars, incident, event, load, troubles, pastVars>>
FindOpen(r) ==
    /\ refresh[r].pc = "observe" /\ refresh[r].issue # "connected"
    /\ refresh' = [refresh EXCEPT
          ![r].row = Latest,
          ![r].count = IF Latest = 0 THEN 0 ELSE incident[Latest].count,
          ![r].pc = CASE Latest = 0 -> "create"
                      [] Latest # 0 /\ incident[Latest].issue = refresh[r].issue -> "bump"
                      [] Latest # 0 /\ incident[Latest].issue # refresh[r].issue -> "close"]
    /\ UNCHANGED <<rowVars, incident, event, load, troubles, pastVars>>

Bump(r) ==
    LET i == refresh[r].row
    IN
    /\ refresh[r].pc = "bump"
    /\ incident' = [incident EXCEPT ![i].count = refresh[r].count + 1]
    /\ seen' = [seen EXCEPT ![i] = @ + 1]
    /\ refresh' = [refresh EXCEPT ![r] = NoRefresh]
    /\ UNCHANGED <<rowVars, event, load, troubles, stale, doubled, unsure, blurred, spiked>>

Close(r) ==
    /\ refresh[r].pc = "close"
    /\ incident' = [incident EXCEPT ![refresh[r].row].state = "resolved"]
    /\ refresh' = [refresh EXCEPT ![r].pc = "create"]
    /\ Disturbs
    /\ UNCHANGED <<rowVars, event, load, troubles, stale, doubled, seen, blurred, spiked>>

Create(r) ==
    /\ refresh[r].pc = "create"
    /\ \E i \in Rows :
          /\ incident[i].state = "none" /\ \A n \in 1..(i - 1) : incident[n].state # "none"
          /\ incident' = [incident EXCEPT ![i] =
                 [state |-> "open", issue |-> refresh[r].issue, count |-> 1, event |-> 0]]
          /\ seen' = [seen EXCEPT ![i] = 1]
    /\ refresh' = [refresh EXCEPT ![r] = NoRefresh]
    /\ Disturbs
    /\ UNCHANGED <<rowVars, event, load, troubles, stale, doubled, blurred, spiked>>

\* A rejected query ends the refresh; its caller is told, or skips the provider.
RefreshFails(r) ==
    /\ refresh[r].pc # "idle" /\ Trouble
    /\ refresh' = [refresh EXCEPT ![r] = NoRefresh]
    /\ stale' = TRUE
    /\ UNCHANGED <<rowVars, incident, event, load, doubled, seen, unsure, blurred, spiked>>

\* resolveIncident does not look at resolvedAt.
ResolveIncident(i) ==
    /\ incident[i].state # "none" /\ Trouble
    /\ incident' = [incident EXCEPT ![i].state = "resolved"]
    /\ stale' = TRUE
    /\ Disturbs
    /\ UNCHANGED <<rowVars, refresh, event, load, doubled, seen, blurred, spiked>>

-----------------------------------------------------------------------------
(* Notifications.                                                           *)

KindOf(l, n) == IF n > MaxRows THEN Spike ELSE load[l].issue

\* The loops of materializeNotificationEvents and linkNotificationEvents take the
\* event of the status first, then the spike's.
First(l) == IF load[l].at # 0 THEN load[l].at ELSE load[l].spike
After(l) == IF load[l].now = load[l].at THEN load[l].spike ELSE 0
Advance(l, pc, n) == load' = [load EXCEPT ![l].pc = pc, ![l].now = n]
EndLoad(l) == load' = [load EXCEPT ![l] = NoLoad]

\* getProviderHealth.  Nothing is told of a status while the preference is off or
\* the provider has no enabled model.
BeginLoad(l) ==
    /\ load[l].pc = "idle"
    /\ \E n \in IF status \in Told /\ validated > 0 THEN {0, validated} ELSE {0} :
          load' = [load EXCEPT ![l] = [NoLoad EXCEPT !.pc = "analyse", !.issue = status, !.at = n]]
    /\ unsure' = IF stale \/ Busy # {} THEN unsure \cup {l} ELSE unsure \ {l}
    /\ UNCHANGED <<rowVars, incident, refresh, event, troubles, stale, doubled, seen, blurred,
                   spiked>>

\* getProviderLimitAnalytics: no spike, or one of some bucket.
ReadSpikes(l) ==
    /\ load[l].pc = "analyse"
    /\ \E b \in 0..MaxBuckets :
          LET n == IF b = 0 THEN 0 ELSE MaxRows + b
              now == IF load[l].at # 0 THEN load[l].at ELSE n
          IN  load' = [load EXCEPT ![l] = IF now = 0 THEN NoLoad
                          ELSE [load[l] EXCEPT !.pc = "look", !.spike = n, !.now = now]]
    /\ UNCHANGED <<rowVars, incident, refresh, event, troubles, pastVars>>

Materialized(l) == IF After(l) # 0 THEN Advance(l, "look", After(l)) ELSE Advance(l, "link", First(l))

LookForEvent(l) ==
    /\ load[l].pc = "look"
    /\ IF event[load[l].now] = "none" THEN Advance(l, "create", load[l].now)
       ELSE Materialized(l)
    /\ UNCHANGED <<rowVars, incident, refresh, event, troubles, pastVars>>

\* The fingerprint is unique: of two loads that found none, one is answered 500.
CreateEvent(l) ==
    LET n == load[l].now
    IN
    /\ load[l].pc = "create"
    /\ IF event[n] = "none"
       THEN /\ event' = [event EXCEPT ![n] = KindOf(l, n)]
            /\ Materialized(l)
       ELSE EndLoad(l) /\ UNCHANGED event
    /\ UNCHANGED <<rowVars, incident, refresh, troubles, pastVars>>

Linked(l) == IF After(l) # 0 THEN Advance(l, "link", After(l)) ELSE EndLoad(l)

\* linkNotificationEvents: the latest open incident, whatever its issue, if it has
\* no event yet.
FindUnlinked(l) ==
    /\ load[l].pc = "link"
    /\ IF Latest # 0 /\ incident[Latest].event = 0
       THEN load' = [load EXCEPT ![l].pc = "write", ![l].row = Latest]
       ELSE Linked(l)
    /\ UNCHANGED <<rowVars, incident, refresh, event, troubles, pastVars>>

WriteLink(l) ==
    LET i == load[l].row
    IN
    /\ load[l].pc = "write"
    /\ incident' = [incident EXCEPT ![i].event = load[l].now]
    /\ Linked(l)
    /\ blurred' = IF l \in unsure THEN blurred \cup {i} ELSE blurred
    /\ spiked' = IF load[l].at = 0 THEN spiked \cup {i} ELSE spiked \ {i}
    /\ UNCHANGED <<rowVars, refresh, event, troubles, stale, doubled, seen, unsure>>

\* A rejected query ends the load, or its linking, where it is.
LoadFails(l) ==
    /\ load[l].pc # "idle" /\ Trouble /\ EndLoad(l)
    /\ UNCHANGED <<rowVars, incident, refresh, event, pastVars>>

\* deleteOldNotificationEvents: whatever is older than the cutoff, read or not (the
\* order in which events were written is not kept, so any set of them).
DeleteOld ==
    /\ \E N \in SUBSET {n \in Events : event[n] # "none"} :
          /\ N # {}
          /\ event' = [n \in Events |-> IF n \in N THEN "none" ELSE event[n]]
    /\ Trouble
    /\ UNCHANGED <<rowVars, incident, refresh, load, pastVars>>

IncidentsNext ==
    \/ \E r \in Refreshes :
          \/ \E v \in Issues \cup {"connected"} : Validate(r, v)
          \/ ResolveOpen(r) \/ FindOpen(r) \/ Bump(r) \/ Close(r) \/ Create(r)
          \/ RefreshFails(r)
    \/ \E v \in Issues \cup {"connected"} : WriteStatus(v)
    \/ \E i \in Rows : ResolveIncident(i)
    \/ \E l \in Loads : \/ BeginLoad(l) \/ ReadSpikes(l) \/ LookForEvent(l) \/ CreateEvent(l)
                        \/ FindUnlinked(l) \/ WriteLink(l) \/ LoadFails(l)
    \/ DeleteOld

IncidentsSpec == IncidentsInit /\ [][IncidentsNext]_incidentVars

-----------------------------------------------------------------------------

IncidentsTypeOK ==
    /\ status \in Issues \cup {"connected"} /\ validated \in 0..MaxRows
    /\ \A i \in Rows : /\ incident[i].state \in {"none", "open", "resolved"}
                       /\ incident[i].count \in Nat /\ incident[i].event \in Events \cup {0}
    /\ \A r \in Refreshes : refresh[r].pc \in {"idle", "observe", "bump", "close", "create"}
    /\ \A l \in Loads : load[l].pc \in {"idle", "analyse", "look", "create", "link", "write"}

\* README.md:222: incidents are tracked per user.  When the last refresh is
\* over, a provider it found usable has no open incident, and any other has one of
\* that very issue, however often the issue changed before; unless something else
\* wrote the status, a call was rejected, or the user resolved the incident.
OpenTellsStatus ==
    Busy = {} /\ ~stale =>
        IF status = "connected" THEN Open = {}
        ELSE Open # {} /\ incident[Latest].issue = status

\* As long as no two refreshes overlap, a provider has one open incident at most
\* and its occurrences are counted exactly, the user's and the loads' writes to the
\* same rows notwithstanding.
OneOpenCounted ==
    ~doubled => /\ Cardinality(Open) <= 1
                /\ \A i \in Open : incident[i].count = seen[i]

\* workspaceNotificationService.ts:33-71, providerHealthIncidentService.ts:159-180:
\* an incident is linked to a notification of its own issue, although spikes of the
\* provider's limit go to the same incident: to a spike only by a load that told of
\* no status; unless the status or the incidents changed while the page was loading.
LinkMatches ==
    \A i \in Rows \ blurred :
        LET e == incident[i].event
        IN  e # 0 /\ event[e] # "none"
                => event[e] = IF i \in spiked THEN Spike ELSE incident[i].issue

\* Refreshes, loads of the page and the user interleave at every await, and the
\* incidents tell the status, are one and counted, and have their own notification.
IncidentsTell == OpenTellsStatus /\ OneOpenCounted /\ LinkMatches
=============================================================================
