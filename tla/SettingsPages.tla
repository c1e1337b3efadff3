---------------------------- MODULE SettingsPages ----------------------------
(***************************************************************************)
(* The settings pages of the web app hold a copy of a list the API keeps:   *)
(*                                                                         *)
(*   api-keys/page.tsx, DiagnosticsDriftAlertsPanel, IncidentTimeline and   *)
(*   the storage card of settings/page.tsx                                  *)
(*       act, and load the list again after the answer                      *)
(*   provider-rate-limits/page.tsx, provider-health/page.tsx                *)
(*       put the answer into the list                                       *)
(*   models/page.tsx, and the preferences of notifications/page.tsx         *)
(*       are edited in place, saved as a whole, and take the answer         *)
(*   the events of notifications/page.tsx                                   *)
(*       are marked as read in the copy too                                 *)
(*   api-usage/page.tsx, IncidentTimeline                                   *)
(*       load the list again when another range or filter is chosen         *)
(*                                                                         *)
(* A behaviour is about one page.  Calls and their answers overtake one     *)
(* another, fail, or are answered into the void.  Nobody else changes the   *)
(* list.  What is listed is a value per item, Unlisted for an item that is    *)
(* not.  AnsweredQuietly is a mistake for mutation tests (see README.md).   *)
(***************************************************************************)
EXTENDS Naturals, FiniteSets

CONSTANTS Items,    \* keys, alerts, incidents, providers, models or events
          Values,   \* what an item can be set to
          MaxCalls  \* bound on the calls of a page

ASSUME PagesAssumption ==
    /\ IsFiniteSet(Items)
    /\ Values \subseteq Nat \ {0} /\ Values # {} /\ MaxCalls \in Nat

Unlisted == 0
Read == 1    \* of an event; any other value is unread
Unread(list) == Cardinality({i \in Items : list[i] \notin {Unlisted, Read}})
Filters == {"all", "some"}

VARIABLES
    page,              \* the page that is open
    server,            \* the list the API keeps
    shown, shownFor,   \* the copy, and the filter it was loaded for
    filter,            \* the range or filter that is chosen
    unread,            \* the counter of unread events
    calls,             \* calls under way
    sent, handled,     \* calls sent by the page, and handled by the API
    loading, error,    \* what the page shows of its calls; an alert() is an error
    armed,             \* resolvingId of the timeline
    saving,            \* savingProvider
    edited,            \* the items with an edit that was not saved
    typed,             \* history: what was typed into them
    latest,            \* history: the latest call that the API handled
    applied,           \* history: the latest handling the page knows
    excuses            \* history: why the copy may differ

listVars == <<server, shown, shownFor, unread>>
callVars == <<calls, sent, handled, latest>>
editVars == <<edited, typed>>
pagesVars == <<page, listVars, filter, callVars, loading, error, armed, saving, editVars, applied, excuses>>

Nobody == [i \in Items |-> Unlisted]
Defaults == [i \in Items |-> Read]   \* defaultPreferences
Reloading == {"keys", "alerts", "timeline", "overview"}
Filtered == {"timeline", "usage"}
Edited == {"models", "preferences"}
Pages == Reloading \cup Filtered \cup Edited \cup {"limits", "health", "events"}
Loaded == shownFor \in Filters

Call(does, i, list, n) ==
    [n |-> n, does |-> does, item |-> i, list |-> list, filter |-> filter,
     stage |-> "sent", got |-> Nobody, at |-> 0]
Pending(does) == {c \in calls : c.does = does}
Every == "everyItem"

Send(does, i, list) ==
    /\ sent < MaxCalls
    /\ sent' = sent + 1
    /\ calls' = calls \cup {Call(does, i, list, sent + 1)}
    /\ UNCHANGED <<page, listVars, handled, latest, loading, applied>>

PagesInit ==
    /\ page = "none" /\ server = Nobody /\ shown = Nobody /\ shownFor = "nothing"
    /\ filter = "all" /\ unread = 0
    /\ calls = {} /\ sent = 0 /\ handled = 0 /\ latest = 0
    /\ loading = FALSE /\ error = FALSE /\ armed = Every /\ saving = {}
    /\ edited = {} /\ typed = Nobody
    /\ applied = 0 /\ excuses = {}

\* The page mounts: its effect loads the list.
Mount(p, list) ==
    /\ page = "none"
    /\ page' = p /\ server' = list
    /\ shown' = IF p = "preferences" THEN Defaults ELSE Nobody
    /\ calls' = {Call("load", Every, Nobody, 1)} /\ sent' = 1 /\ loading' = TRUE
    /\ UNCHANGED <<shownFor, filter, unread, handled, latest, error, armed, saving, editVars,
                   applied, excuses>>

-----------------------------------------------------------------------------
(* Handlers of the pages *)

\* handleCreate: the button is disabled while a creation is under way.
CreateKey(v) ==
    /\ page = "keys" /\ Loaded /\ Pending("create") = {}
    /\ Send("create", Every, [i \in Items |-> v]) /\ error' = FALSE
    /\ UNCHANGED <<filter, armed, saving, editVars, excuses>>

\* handleRevoke, handleRotate
ChangeKey(i, v) ==
    /\ page = "keys" /\ shown[i] # Unlisted
    /\ Send("change", i, [Nobody EXCEPT ![i] = v])
    /\ UNCHANGED <<filter, error, armed, saving, editVars, excuses>>

\* saveEditedScopes, saveEditedRateLimit
SaveKey(i, v, dialog) ==
    /\ page = "keys" /\ shown[i] # Unlisted /\ Pending(dialog) = {}
    /\ Send(dialog, i, [Nobody EXCEPT ![i] = v]) /\ error' = FALSE
    /\ UNCHANGED <<filter, armed, saving, editVars, excuses>>

\* handleResolve of an alert.  Accepting the change sets a baseline first.
ResolveAlert(i) ==
    /\ page = "alerts" /\ shown[i] # Unlisted
    /\ \E does \in {"change", "setBaseline"} : Send(does, i, Nobody)
    /\ UNCHANGED <<filter, error, armed, saving, editVars, excuses>>

\* The Refresh button of the alerts.
Refresh ==
    /\ page = "alerts" /\ ~loading /\ sent < MaxCalls
    /\ sent' = sent + 1
    /\ calls' = calls \cup {Call("load", Every, Nobody, sent + 1)}
    /\ loading' = TRUE /\ error' = FALSE
    /\ UNCHANGED <<page, listVars, filter, handled, latest, armed, saving, editVars, applied, excuses>>

\* runCleanup: disabled until the storage is loaded again.
RunCleanup(v) ==
    /\ page = "overview" /\ Loaded /\ calls = {}
    /\ Send("change", Every, [i \in Items |-> v])
    /\ UNCHANGED <<filter, error, armed, saving, editVars, excuses>>

\* handleResolve of an incident.  The first click asks for a note; the next
\* click, on any incident, resolves that one, and loads for the filter of now.
ArmResolve(i) ==
    /\ page = "timeline" /\ shown[i] # Unlisted /\ armed = Every
    /\ armed' = i
    /\ UNCHANGED <<page, listVars, filter, callVars, loading, error, saving, editVars, applied, excuses>>
Disarm ==
    /\ armed # Every /\ armed' = Every
    /\ UNCHANGED <<page, listVars, filter, callVars, loading, error, saving, editVars, applied, excuses>>
ResolveIncident(i) ==
    /\ page = "timeline" /\ shown[i] # Unlisted /\ armed # Every
    /\ Send("change", i, Nobody) /\ error' = FALSE
    /\ UNCHANGED <<filter, armed, saving, editVars, excuses>>

\* The effect of another range or filter.
Choose(f) ==
    /\ page \in Filtered /\ f # filter /\ sent < MaxCalls
    /\ filter' = f /\ loading' = TRUE /\ error' = FALSE
    /\ sent' = sent + 1
    /\ calls' = calls \cup {[Call("load", Every, Nobody, sent + 1) EXCEPT !.filter = f]}
    /\ excuses' = IF Pending("change") # {} THEN excuses \cup {"switched"} ELSE excuses
    /\ UNCHANGED <<page, listVars, handled, latest, armed, saving, editVars, applied>>

\* saveProvider: only the last saved provider's button is disabled.
SaveLimit(i, v) ==
    /\ page = "limits" /\ shown[i] # Unlisted /\ i \notin saving
    /\ Send("save", i, [Nobody EXCEPT ![i] = v])
    /\ saving' = {i} /\ error' = FALSE
    /\ UNCHANGED <<filter, armed, editVars, excuses>>

\* The Reset button of a provider saves no limit, whatever is under way, and what the
\* page shows of other calls stays.  The limit of the environment is the API's.
ResetLimit(i, v) ==
    /\ page = "limits" /\ shown[i] # Unlisted
    /\ Send("reset", i, [Nobody EXCEPT ![i] = v])
    /\ UNCHANGED <<filter, error, armed, saving, editVars, excuses>>

\* handleRefreshSingle; what the check finds is the API's.
RefreshProvider(i, v) ==
    /\ page = "health" /\ shown[i] # Unlisted /\ \A c \in Pending("save") : c.item # i
    /\ Send("save", i, [Nobody EXCEPT ![i] = v]) /\ error' = FALSE
    /\ UNCHANGED <<filter, armed, saving, editVars, excuses>>

\* handleRefreshAll
RefreshAll(found) ==
    /\ page = "health" /\ Loaded /\ Pending("saveAll") = {}
    /\ Send("saveAll", Every, found) /\ error' = FALSE
    /\ UNCHANGED <<filter, armed, saving, editVars, excuses>>

\* updateDraft, handleToggleEnabled and the like: also while a save is under way.
EditItem(i, v) ==
    /\ page \in Edited /\ ~loading /\ shown[i] \notin {Unlisted, v}
    /\ shown' = [shown EXCEPT ![i] = v]
    /\ edited' = edited \cup {i} /\ typed' = [typed EXCEPT ![i] = v]
    /\ excuses' = IF calls # {} THEN excuses \cup {"edited"} ELSE excuses
    /\ UNCHANGED <<page, server, shownFor, unread, filter, callVars, loading, error, armed, saving, applied>>

\* handleSave, savePreferences.  The preferences are the defaults when their
\* load failed.
SaveAll ==
    /\ page \in Edited /\ (page = "models" => Loaded)
    /\ ~loading /\ Pending("saveAll") = {}
    /\ Send("saveAll", Every, shown) /\ error' = FALSE
    /\ UNCHANGED <<filter, armed, saving, editVars, excuses>>

\* resetDefaults
ResetDefaults ==
    /\ page = "preferences" /\ calls = {} /\ sent < MaxCalls
    /\ shown' = Defaults /\ edited' = Items /\ typed' = Defaults
    /\ sent' = sent + 1
    /\ calls' = {Call("saveAll", Every, Defaults, sent + 1)} /\ error' = FALSE
    /\ UNCHANGED <<page, server, shownFor, unread, filter, handled, latest, loading, armed, saving, applied, excuses>>

\* handleMarkRead: an event has its button until the answer.
MarkRead(i) ==
    /\ page = "events" /\ shown[i] \notin {Unlisted, Read}
    /\ Send("mark", i, [Nobody EXCEPT ![i] = Read])
    /\ excuses' = IF \E c \in Pending("mark") : c.item = i THEN excuses \cup {"twice"} ELSE excuses
    /\ UNCHANGED <<filter, error, armed, saving, editVars>>

\* handleMarkAllRead
MarkAllRead ==
    /\ page = "events" /\ unread > 0
    /\ Send("markAll", Every, Nobody)
    /\ UNCHANGED <<filter, error, armed, saving, editVars, excuses>>

-----------------------------------------------------------------------------
(* The API *)

Changed(c) ==
    [server EXCEPT ![c.item] = IF server[c.item] = Unlisted THEN Unlisted ELSE c.list[c.item]]
Overwritten(list) == [i \in Items |-> IF server[i] = Unlisted THEN Unlisted ELSE list[i]]

\* apiCreateApiKey gives one more key; revoking, rotating and the two dialogs
\* change one.
AfterKeys(c) ==
    IF c.does = "create"
    THEN {[server EXCEPT ![i] = c.list[i]] : i \in {j \in Items : server[j] = Unlisted}}
    ELSE {Changed(c)}
\* A resolved alert is not open any more; a baseline leaves the alerts alone.
\* What is too old goes.
AfterCleanup(c) == {Overwritten(c.list)}
AfterAlerts(c) == IF c.does = "change" THEN {Changed(c)} ELSE {server}
AfterIncidents(c) == {Changed(c)}
AfterLimits(c) == {Changed(c)}
\* What the checks find is theirs: c.list.
AfterHealth(c) == IF c.does = "save" THEN {Changed(c)} ELSE {Overwritten(c.list)}
AfterModels(c) == {Overwritten(c.list)}
AfterPreferences(c) == {Overwritten(c.list)}
AfterEvents(c) == IF c.does = "mark" THEN {Changed(c)} ELSE {Overwritten([i \in Items |-> Read])}

After(c) ==
    CASE c.does = "load" -> {server}
      [] c.does # "load" /\ page = "keys" -> AfterKeys(c)
      [] c.does # "load" /\ page = "overview" -> AfterCleanup(c)
      [] c.does # "load" /\ page = "alerts" -> AfterAlerts(c)
      [] c.does # "load" /\ page = "timeline" -> AfterIncidents(c)
      [] c.does # "load" /\ page = "limits" -> AfterLimits(c)
      [] c.does # "load" /\ page = "health" -> AfterHealth(c)
      [] c.does # "load" /\ page = "models" -> AfterModels(c)
      [] c.does # "load" /\ page = "preferences" -> AfterPreferences(c)
      [] OTHER -> AfterEvents(c)

Handle(c) ==
    /\ c.stage = "sent"
    /\ handled' = handled + 1
    /\ latest' = IF c.n < latest THEN latest ELSE c.n
    /\ excuses' = IF c.n < latest THEN excuses \cup {"swapped"} ELSE excuses
    /\ server' \in After(c)
    /\ calls' = (calls \ {c}) \cup {[c EXCEPT !.stage = "done", !.got = server', !.at = handled']}
    /\ UNCHANGED <<page, shown, shownFor, filter, unread, sent, loading, error, armed, saving, editVars, applied>>

-----------------------------------------------------------------------------
(* What the handlers do after their await *)

Put(list, i, got) == [list EXCEPT ![i] = IF @ = Unlisted THEN Unlisted ELSE got[i]]

\* The copy after the answer to c.
Taken(c) ==
    CASE c.does \in {"load", "saveAll"} -> c.got
      [] c.does \in {"save", "reset"} -> Put(shown, c.item, c.got)
      [] c.does = "mark" -> Put(shown, c.item, c.list)
      [] c.does = "markAll" -> [i \in Items |-> IF shown[i] = Unlisted THEN Unlisted ELSE Read]
      [] OTHER -> shown

UnreadAfter(c) ==
    CASE c.does = "load" -> Unread(c.got)
      [] c.does = "mark" /\ unread > 0 -> unread - 1
      [] c.does = "markAll" -> 0
      [] OTHER -> unread

\* The calls that the answer to c leads to, which are not awaited.
Following(c) ==
    IF c.does = "setBaseline" THEN {[Call("change", c.item, Nobody, sent + 1) EXCEPT !.filter = c.filter]}
    ELSE IF page \in Reloading /\ c.does # "load"
    THEN {[Call("load", Every, Nobody, sent + 1) EXCEPT !.filter = c.filter]}
    ELSE {}

Settle(c) ==
    /\ loading' = (IF c.does = "load" THEN FALSE ELSE loading)
    /\ saving' = IF c.does = "reset" THEN saving ELSE {}

AnsweredQuietly(c) ==
    /\ c.stage = "done" /\ Settle(c)
    /\ calls' = calls \ {c}
    /\ shown' = Taken(c) /\ unread' = UnreadAfter(c)
    /\ shownFor' = IF c.does = "load" THEN c.filter ELSE shownFor
    /\ edited' = IF c.does = "saveAll" THEN {} ELSE edited
    /\ applied' = c.at
    /\ excuses' = IF c.at < applied THEN excuses \cup {"overtaken"} ELSE excuses
    /\ UNCHANGED <<page, server, filter, sent, handled, latest, error, armed, typed>>

Answered(c) ==
    /\ c.stage = "done"
    /\ calls' = (calls \ {c}) \cup Following(c)
    /\ sent' = sent + Cardinality(Following(c))
    /\ shown' = Taken(c) /\ unread' = UnreadAfter(c)
    /\ shownFor' = IF c.does = "load" THEN c.filter ELSE shownFor
    /\ IF \E d \in Following(c) : d.does = "load" /\ page # "overview"
       THEN loading' = TRUE /\ error' = FALSE /\ saving' = {}
       ELSE Settle(c) /\ error' = error
    /\ armed' = IF c.does = "change" THEN Every ELSE armed
    /\ edited' = IF c.does = "saveAll" THEN {} ELSE edited
    /\ applied' = c.at
    /\ excuses' = IF c.at < applied THEN excuses \cup {"overtaken"} ELSE excuses
    /\ UNCHANGED <<page, server, filter, handled, latest, typed>>

Optional(c) == page = "overview" /\ c.does = "load"

\* The call is refused or its answer is lost: the copy stays.  Failures of
\* marking are not shown.  The storage card is left out when it cannot be
\* loaded again.
Rejected(c) ==
    /\ calls' = calls \ {c} /\ Settle(c)
    /\ shown' = IF Optional(c) THEN Nobody ELSE shown
    /\ error' = (error \/ (page # "events" /\ ~Optional(c)))
    /\ excuses' = IF c.stage = "done" \/ c.does = "load" THEN excuses \cup {"lost"} ELSE excuses
    /\ UNCHANGED <<page, server, shownFor, unread, filter, sent, handled, latest, armed, editVars, applied>>

PagesNext ==
    \/ \E p \in Pages, list \in [Items -> Values \cup {Unlisted}] : Mount(p, list)
    \/ \E v \in Values : CreateKey(v)
    \/ \E i \in Items, v \in Values : ChangeKey(i, v)
    \/ \E i \in Items, v \in Values, dialog \in {"scopes", "limit"} : SaveKey(i, v, dialog)
    \/ \E i \in Items : ResolveAlert(i)
    \/ Refresh
    \/ \E v \in Values : RunCleanup(v)
    \/ \E i \in Items : ArmResolve(i)
    \/ Disarm
    \/ \E i \in Items : ResolveIncident(i)
    \/ \E f \in Filters : Choose(f)
    \/ \E i \in Items, v \in Values : SaveLimit(i, v)
    \/ \E i \in Items, v \in Values : ResetLimit(i, v)
    \/ \E i \in Items, v \in Values : RefreshProvider(i, v)
    \/ \E found \in [Items -> Values] : RefreshAll(found)
    \/ \E i \in Items, v \in Values : EditItem(i, v)
    \/ SaveAll
    \/ ResetDefaults
    \/ \E i \in Items : MarkRead(i)
    \/ MarkAllRead
    \/ \E c \in calls : Handle(c)
    \/ \E c \in calls : Answered(c)
    \/ \E c \in calls : Rejected(c)

PagesSpec == PagesInit /\ [][PagesNext]_pagesVars

-----------------------------------------------------------------------------

PagesTypeOK ==
    /\ server \in [Items -> Values \cup {Unlisted}] /\ shown \in [Items -> Values \cup {Unlisted}]
    /\ filter \in Filters /\ shownFor \in Filters \cup {"nothing"}
    /\ unread \in 0..Cardinality(Items)
    /\ handled \in 0..sent /\ loading \in BOOLEAN /\ error \in BOOLEAN /\ armed \in Items \cup {Every}
    /\ edited \subseteq Items /\ saving \subseteq Items
    /\ excuses \subseteq {"overtaken", "swapped", "lost", "edited", "switched", "twice"}

Settled == Loaded /\ calls = {} /\ "overtaken" \notin excuses

(* When the calls of a page are over and no answer overtook a later one:    *)
(* a page that loads again after acting shows what the API has, or an       *)
(* error, also after answers that were lost; the others do when none was,   *)
(* but for what was edited and not saved; a filter or range shows its own   *)
(* list, unless it was switched during an action; and the counter of unread *)
(* events counts those, unless one was marked twice.  And an edit is in the *)
(* form until it is saved, whatever fails, unless it was made while a save  *)
(* was under way: the answer replaces it.                                   *)
PageTells ==
    /\ Settled =>
        /\ page \in Reloading /\ ~error => shown = server \/ (page = "overview" /\ shown = Nobody)
        /\ "lost" \notin excuses => \A i \in Items \ edited : shown[i] = server[i]
        /\ page \in Filtered /\ ~error /\ excuses \cap {"switched", "swapped"} = {} => shownFor = filter
        /\ page = "events" /\ excuses = {} => unread = Unread(server)
    /\ "edited" \notin excuses => \A i \in edited : shown[i] = typed[i]
=============================================================================
