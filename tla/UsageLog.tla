------------------------------ MODULE UsageLog -------------------------------
(***************************************************************************)
(* The log of the uses of the API (apiUsageService.ts): what writes its     *)
(* rows, and the three ways it is read: a summary, the analytics of         *)
(* provider limits, and the list by pages.  A summary and the analytics     *)
(* are several queries, sent together, which here see the same rows.  When  *)
(* rows are written is in Gateway.tla and Completion.tla.                   *)
(*                                                                         *)
(* A model is one provider's, and is not told apart from it.  PageFrom-     *)
(* Oldest is a mistake for mutation tests (see README.md).                  *)
(***************************************************************************)
EXTENDS Naturals, Sequences, SequencesExt, FiniteSets, FiniteSetsExt

CONSTANTS UsageKeys, UsageProviders,
          NoKey,       \* of the environment's key, and of use inside the workspace
          PageSize, RecentEvents,
          MaxLogged, MaxUpdates      \* bounds

ASSUME UsageAssumption ==
    /\ UsageKeys # {} /\ NoKey \notin UsageKeys /\ IsFiniteSet(UsageProviders)
    /\ PageSize \in Nat \ {0} /\ RecentEvents \in Nat /\ MaxLogged \in Nat /\ MaxUpdates \in Nat

Statuses == {"queued", "completed", "failed", "key limited", "provider limited"}
Sources == {"openai_compat", "internal_chat"}
RateLimited == {"key limited", "provider limited"}

VARIABLES
    usage,      \* the rows, oldest first
    rowsMade,   \* how many there were
    updates,    \* bound on what happens to rows that are there
    madeKeys,   \* the keys there are, revoked ones too
    reader      \* a client that reads the list page by page

usageVars == <<usage, rowsMade, updates, madeKeys, reader>>

NoReader == [pc |-> "idle", page |-> 0, items |-> {}, first |-> {}]

UsageInit ==
    /\ usage = <<>> /\ rowsMade = 0 /\ updates = 0
    /\ madeKeys = {CHOOSE k \in UsageKeys : TRUE}
    /\ reader = NoReader

-----------------------------------------------------------------------------
(* What writes                                                              *)

\* A key keeps the prefix it was made with, which is its own.  What comes with the
\* key of the environment has the prefix "env_fallback", a chat of the workspace has
\* none; neither has a key.
PrefixOf(k, source) ==
    IF source = "internal_chat" THEN "none" ELSE IF k = NoKey THEN "env_fallback" ELSE k

UsageRow(k, p, source, status) ==
    [id |-> rowsMade + 1, key |-> k, prefix |-> PrefixOf(k, source),
     provider |-> p, source |-> source, status |-> status]

InsertRow(r) ==
    /\ rowsMade < MaxLogged /\ rowsMade' = rowsMade + 1
    /\ usage' = Append(usage, r)
    /\ UNCHANGED <<reader, updates, madeKeys>>

SetStatus(i, status) ==
    /\ updates < MaxUpdates /\ updates' = updates + 1
    /\ usage[i].status = "queued"
    /\ usage' = [usage EXCEPT ![i].status = status]
    /\ UNCHANGED <<reader, rowsMade, madeKeys>>

CreateUsageStart(k, p) == InsertRow(UsageRow(k, p, "openai_compat", "queued"))
CompleteUsage(i, status) == status \in {"completed", "failed"} /\ SetStatus(i, status)
LogRateLimitHit(k, p) == InsertRow(UsageRow(k, p, "openai_compat", "key limited"))

\* The row of the request is made one of the limit; a chat has none, and gets one.
LogProviderRateLimitHit(p) ==
    \/ \E i \in DOMAIN usage : usage[i].provider = p /\ SetStatus(i, "provider limited")
    \/ InsertRow(UsageRow(NoKey, p, "internal_chat", "provider limited"))

\* Another key takes the place of k.  Requests that came with k may still be logged.
Rotate(k) ==
    /\ updates < MaxUpdates /\ updates' = updates + 1
    /\ \E new \in UsageKeys \ madeKeys : madeKeys' = madeKeys \cup {new}
    /\ UNCHANGED <<reader, usage, rowsMade>>

\* The retention: what is oldest goes.
CleanUpLog ==
    /\ updates < MaxUpdates /\ updates' = updates + 1
    /\ usage # <<>> /\ usage' = Tail(usage)
    /\ UNCHANGED <<reader, rowsMade, madeKeys>>

-----------------------------------------------------------------------------
(* Queries over the rows s that one of them saw                             *)

\* The sum of f over S, as a loop adds it up.
Added(f, S) ==
    LET sum[T \in SUBSET S] ==
            IF T = {} THEN 0 ELSE LET x == CHOOSE x \in T : TRUE IN f[x] + sum[T \ {x}]
    IN  sum[S]

WithStatus(s, statuses) == {i \in DOMAIN s : s[i].status \in statuses}

\* groupBy provider (or model) and status: the groups there are.
RowsOf(s, p, status) == {i \in DOMAIN s : s[i].provider = p /\ s[i].status = status}
Groups(s) == {[provider |-> s[i].provider, status |-> s[i].status,
               n |-> Cardinality(RowsOf(s, s[i].provider, s[i].status))] : i \in DOMAIN s}

\* The groups of a provider, added up.
ByGroup(s, p, statuses) ==
    LET groups == {g \in Groups(s) : g.provider = p /\ g.status \in statuses}
    IN  Added([g \in groups |-> g.n], groups)

\* getUsageSummary
GetUsageSummary(s) ==
    [requests |-> Len(s),
     completed |-> Cardinality(WithStatus(s, {"completed"})),
     failed |-> Cardinality(WithStatus(s, {"failed"})),
     rateLimited |-> Cardinality(WithStatus(s, RateLimited)),
     byProvider |-> [p \in UsageProviders |->
         [requests |-> ByGroup(s, p, Statuses),
          completed |-> ByGroup(s, p, {"completed"}),
          failed |-> ByGroup(s, p, {"failed"})]]]

\* getProviderLimitAnalytics: keys are grouped with the prefix of the row.
Hits(s) == WithStatus(s, {"provider limited"})
HitsAt(s, p) == {i \in Hits(s) : s[i].provider = p}
HitsFrom(s, x) == {i \in Hits(s) : s[i].source = x}
HitsOf(s, k, x) == {i \in Hits(s) : s[i].key = k /\ s[i].prefix = x}
KeyGroups(s) == {[key |-> s[i].key, prefix |-> s[i].prefix,
                  hits |-> Cardinality(HitsOf(s, s[i].key, s[i].prefix))] : i \in Hits(s)}

\* ORDER BY createdAt DESC, and the first RecentEvents of them.
Newest(hits) == {i \in hits : Cardinality({k \in hits : k > i}) < RecentEvents}

GetProviderLimitAnalytics(s) ==
    [totalHits |-> Cardinality(Hits(s)),
     byProvider |-> [p \in UsageProviders |-> Cardinality(HitsAt(s, p))],
     byApiKey |-> KeyGroups(s),
     bySource |-> [x \in Sources |-> Cardinality(HitsFrom(s, x))],
     recentEvents |-> Newest(Hits(s))]

\* listUsageLogs, newest first
PageFromOldest(s, k) == SubSeq(s, (k - 1) * PageSize + 1, Min({k * PageSize, Len(s)}))
Page(s, k) == SubSeq(Reverse(s), (k - 1) * PageSize + 1, Min({k * PageSize, Len(s)}))

-----------------------------------------------------------------------------
(* What reads                                                               *)

\* A client reads until a page is not full.
ListUsageLogs ==
    /\ reader.pc # "done"
    /\ LET got == Page(usage, reader.page + 1) IN
       reader' = [pc |-> IF Len(got) < PageSize THEN "done" ELSE "reading",
                  page |-> reader.page + 1,
                  items |-> reader.items \cup {r.id : r \in ToSet(got)},
                  first |-> IF reader.pc = "idle" THEN {r.id : r \in ToSet(usage)} ELSE reader.first]
    /\ UNCHANGED <<usage, rowsMade, updates, madeKeys>>

UsageNext ==
    \/ \E k \in madeKeys \cup {NoKey}, p \in UsageProviders : CreateUsageStart(k, p)
    \/ \E i \in DOMAIN usage, status \in Statuses : CompleteUsage(i, status)
    \/ \E k \in madeKeys, p \in UsageProviders : LogRateLimitHit(k, p)
    \/ \E p \in UsageProviders : LogProviderRateLimitHit(p)
    \/ \E k \in madeKeys : Rotate(k)
    \/ CleanUpLog
    \/ ListUsageLogs

UsageSpec == UsageInit /\ [][UsageNext]_usageVars

-----------------------------------------------------------------------------

UsageTypeOK ==
    /\ \A i \in DOMAIN usage : usage[i].status \in Statuses /\ usage[i].id <= rowsMade
    /\ reader.items \subseteq 1..rowsMade
    /\ madeKeys \subseteq UsageKeys

(* The parts of the summary and of the analytics add up to their totals,    *)
(* the recent hits are as many as there are, up to their limit, and a key is *)
(* listed once in the analytics, apart from the one it was rotated to.  What *)
(* comes without one is listed twice, for the environment and for chats.     *)
UsageAdds ==
    LET s == GetUsageSummary(usage)
        a == GetProviderLimitAnalytics(usage)
    IN
    /\ Added([p \in UsageProviders |-> s.byProvider[p].requests], UsageProviders) = s.requests
    /\ Added([p \in UsageProviders |-> s.byProvider[p].completed], UsageProviders) = s.completed
    /\ Added([p \in UsageProviders |-> s.byProvider[p].failed], UsageProviders) = s.failed
    /\ s.completed + s.failed + s.rateLimited <= s.requests
    /\ Added(a.byProvider, UsageProviders) = a.totalHits
    /\ Added([g \in a.byApiKey |-> g.hits], a.byApiKey) = a.totalHits
    /\ Added(a.bySource, Sources) = a.totalHits
    /\ Cardinality(a.recentEvents) =
          IF a.totalHits < RecentEvents THEN a.totalHits ELSE RecentEvents
    /\ \A g, h \in a.byApiKey :
          g.key = h.key /\ g.key \in UsageKeys => g = h

(* Reading page by page misses no row that was there from the beginning to  *)
(* the end, whatever is logged, changed or cleaned up meanwhile.            *)
PagesMissNothing ==
    reader.pc = "done" =>
        \A r \in ToSet(usage) : r.id \in reader.first => r.id \in reader.items

(* What the log tells, in sums and page by page, is what is in it.          *)
LogTold == (usage # <<>> => UsageAdds) /\ PagesMissNothing
=============================================================================
