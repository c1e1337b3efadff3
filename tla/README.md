# TLA+ models of the Unified AI Workspace

The workspace lets one local user chat with provider web sites (Gemini, ChatGPT,
Claude) that a worker drives in a browser. These modules model what several
parties do to the same data: the chat job from the HTTP request to the card in the
browser or the program at the OpenAI-compatible endpoint, the services of the API
around it, the pages that administer them, and the operator's tools. TLC checks the
modules on small instances; TLAPS proves the central safety properties for every
value of the constants.

Paths below are relative to the repository; `chat.ts` is
`apps/api/src/routes/chat.ts`, `chatJobProcessor.ts` is
`apps/worker/src/processors/chatJobProcessor.ts`, and so on.

## 1. Inventory

| Component | State | Operations | Talks to | Modules |
|---|---|---|---|---|
| Chat job API (`chat.ts`, `chatJobService.ts`, `chatQueue.ts`, `cancelSignal.ts`) | `AutomationJob` rows, Redis cancel keys | submit (single, compare), cancel, retry, status, stream | database, BullMQ, Redis, attachments | `ChatJob`, `JobStream`, `ConversationUrls` |
| Chat job worker (`chatJobProcessor.ts`, `worker.ts`) | the run in each of `CHAT_WORKER_CONCURRENCY` slots | run a job, mark its outcome, the `failed` and `stalled` listeners, shutdown | BullMQ, database, Redis, lock, adapters, vault | `ChatJob`, `ConversationUrls` |
| Provider lock (`concurrencyLock.ts`) | one Redis key per user and provider, with a TTL | acquire, release | worker | `ProviderLock` |
| Job events (`redisJobEventPublisher.ts` twice, `redisJobEventBus.ts`) | a trimmed, expiring list and a channel per job | publish, replay and subscribe | API, worker, both streaming routes | `JobStream`, `Completion` |
| Chat workspace (`ChatWorkspace.tsx`) | turns and cards, open `EventSource`s, the discussion loop | send, stream, cancel, retry, discuss, stop | API | `JobStream`, `Discussion` |
| Attachments (`attachmentService.ts`) | `MessageAttachment` rows, temporary files | upload, clone per job, materialise, consume | API, worker | `ChatJob` |
| Provider adapters (`ChatGPTAdapter.ts`, `ClaudeAdapter.ts`, `GeminiAdapter.ts`) | what the polling loop has read so far | `sendMessage`, `validateSession` | a page, worker | `Adapter` |
| OpenAI endpoint (`openaiCompat.ts`), API keys, rate limits | keys and scopes, counters per minute | authenticate, admit, enqueue, answer as JSON or stream; create, rotate, revoke, restrict keys; set limits | job pipeline, usage log | `Gateway`, `Completion` |
| API usage log (`apiUsageService.ts`) | `ApiUsageLog` rows | begin, complete, log a refusal, summarise, list, clean up | endpoint, job API, pages | `UsageLog` |
| Provider connections (`providers.ts`, `browserManager.ts`) | `ProviderConnection` rows, connect sessions in memory | connect, connect-status, test, disconnect | browser, vault | `ProviderConnection` |
| Provider health, incidents, notifications | rows of each | refresh, open and resolve, materialise, link, read, delete | connections, schedulers | `Incidents` |
| Diagnostics, baselines, drift alerts | rows of each | run, set and deactivate a baseline, evaluate, resolve | adapters' pages | `Drift` |
| Schedulers (`providerHealthScheduler.ts`, `retentionCleanupScheduler.ts`) | a timer, a Redis lock, a status row | run once, start, stop | health, clean-up | `Schedulers` |
| Conversation history (`conversationHistoryService.ts`) | threads and messages | list by pages, rename, delete, save a discussion | job API, worker, import | `History`, `ConversationUrls` |
| Import and export, plain and encrypted | files, a preview in the page | export all, preview, import | history | `Transfer` |
| Settings pages (web) | each page's copy of a list, its forms | load, act, edit, save | API | `SettingsPages` |
| Onboarding, model preferences | the stored step, the enabled and the default model | next, skip, complete, connect, save | connections, keys | `Onboarding`, `Gateway` |
| Operational tools (`tools/backup`, `tools/release`) | backup directories, a release directory, markers | backup, restore; package, sum, sign, verify, stage, tag | the files of the application | `Backup`, `Release` |
| Worker browser, session vault, permissions, overviews | one Chromium; keys; a table | open a context; decrypt; look up; summarise | worker, everything | see 6 |

What is hard here, with the line at which it bites, is the list `hazards` of
`PROJECT.json`. In short: three parties write a job's row without looking at each
other; locks expire by time; a job of a dead worker runs again; calls that
belong together are separated by a rejection or a death; a stream is replayed and
then subscribed to; rows are looked up in one query and written in another; lists
are paged while they move; pages apply the answers of their calls in the order they
arrive; and copies of several files are cut off between two of them.

What makes the components correct:

* **Lock**: exclusion per user and provider as long as no run outlives the TTL; no
  release takes away another run's lock.
* **Worker and API**: every job ends, once, with a terminal status that was also
  announced; a cancelled job sends no prompt if the cancellation came in time;
  attachments are there when they are read and gone after the answer.
* **Events and cards**: no event twice or out of order; losses only in the gap between
  replay and subscription; every finished stream releases its subscriber; the status
  shown is the outcome of the job.
* **Adapters**: a completed message is the whole answer to this prompt.
* **Endpoint**: no minute admits more than the limits say; a key reaches the models it
  was given; the usage row agrees with the answer that was sent.
* **Discussion**: one provider speaks at a time; Stop reaches the turn awaited; the form
  is never locked without a running loop.
* **Connections**: one login window per user and provider, always reachable; a session
  is gone after a disconnect; a row that says connected has one.
* **Health and drift**: an incident is open exactly when the last refresh found its issue;
  a notification is about its incident; an alert is open when a capability was lost.
* **Schedulers**: one run at a time over all replicas.
* **History, URLs, log**: paging loses and repeats nothing; a thread continues the
  conversation it last had on each provider; sums and pages are those of the rows.
* **Pages**: at rest, what a page shows is what the API has; what is imported is what was
  previewed; the wizard resumes where it was left.
* **Tools**: nothing a restore removes is lost; a restored backup is what was backed
  up; `verified` and `ready` are said only of what was packaged and staged.

## 2. Modules

### The job

`ProviderLock` — the Redis lock. `lock[k]` is the value of the key, `holding[w]` what
a slot believes, `lapsed[w]` remembers that its key ran out under it. `Acquire` is
`SET NX PX`, `Release` the compare-and-delete script, `Expire` the TTL, `Abandon`
the slots that vanish without a release (a death of the process, or the swallowed
rejection in the `finally` block).

`ChatJob` — the pipeline; it extends `ProviderLock` and uses its operations, and
theorem `UsesLock` says that it uses nothing else. A step is one awaited call: both
processes are single-threaded, so what lies between two awaits is atomic. For each
job there are the row (`db`), the kinds of events published, the number of saved
answers, the attachment clones, the place in BullMQ (`bull`, `stalls`), the position
of the submitting handler (`api`) and of the cancel handler (`canceller`), and the
cancel key; for each slot the run record, whose `pc` names the awaited call it
makes next.

| Actions | Code |
|---|---|
| `Submit`, `CloneFiles`, `Enqueue`, `Accept`, `Refuse` | `POST /chat`, each provider of `/chat/multi`, `enqueueCreatedJob` |
| `Retry` | `POST /chat/:jobId/retry` |
| `Cancel`, `Cancelling` | `POST /chat/:jobId/cancel`: one read, then key, queue, row, event, done |
| `Pick`, `CheckPicked`, `TakeLock`, `GiveBackLock`, `Return` | BullMQ and `chatJobProcessor` |
| `SetProgress`, `AnnounceStart`, `OpenContext`, `Validate`, `Generate`, `Deliver`, `SaveAnswer`, `Complete`, `Check`, `Cleanup` | `processChatJob` |
| `Mark`, `Announce`, `Finish` | `markRequiresLogin`, `failJob`, `markManualActionRequired`, `markRateLimited`, `cancelJob`, `timeoutJob` |
| `Watch`, `Stall` | the listeners of `worker.ts`; BullMQ's stalled check with `maxStalledCount` 1 |
| `LeaseEnds`, `CancelKeyEnds` | the TTLs of the lock and of the cancel key |
| `Crash`, `HandlerFault`, `CancelFault`, `RunFault`, `WatcherFault` | death of the worker; a rejected database or Redis call, and where each handler goes from there |

`JobLifecycle` — what the pipeline promises about a job, in twelve lines: it is
opened, then settled once and for all with one terminal status. `ChatJob` maps to it
by `Stage` and the row (`ImplementsLifecycle`).

`Adapter` — `sendMessage`. `Navigate` to `SendPrompt` are the checks before the prompt,
the polling loop reads text and stop button of a page that grows, pauses, rewrites
itself or renders its history or the prompt late between any two reads (`Grow`,
`Rewrite`, `RenderOthers`). `LatestResponseText` skips what looks like one of the page's
menus (`isLikelyChromeText`, here the constant `ChromeTexts`). Time is counted in polls.
`excuses` collects what no loop could know: a pause longer than it waits for, a text that was replaced, and so on.

`JobStream` — one job's events on their way to one card: the publishers' list and
channel, the stream route with its replay, subscription, `finished` flag and
teardown, the connection, the `EventSource` handlers and React's deferred updates.
What a job publishes is a constant, a set of sequences that `ChatJob` can produce, of
which `ScriptsAssumption` says what the order of the publishing calls gives: each outcome
publishes its own event before its done (`chatJobProcessor.ts`, `worker.ts`, the cancel
route). Two processes may publish at once, so that a retry or a late event may slip in
between the two; the assumption allows it except where a card could begin right
there: at the job's first event, behind its wait in the queue, or with as many
events behind it as the replay list holds.
A card update closes the `EventSource` only when React runs it, immediately or at the
next render, so `Show` has both outcomes. An event named `error` calls
`source.onerror` too, because that is the event type `onerror` listens for.

`Gateway` — a request of a program from its token to the queue: the key's row, the
counter of the key, the usage row, the model's switch, the key's scopes, the
provider's limit and counter, the connection, the job; each query a step. Beside the
requests the owner creates, rotates, revokes and restricts keys, sets limits and
switches models, and the minute ends. An empty list of scopes restricts nothing, as
in the code, which is what makes replacing a list delicate.

`Completion` — the handler from the queue on: it subscribes to the job's events and
answers with JSON, raced by a timer, or with a stream, raced by the client's
departure. The usage row is written by calls nobody waits for, `writes`, which
land in any order.

`UsageLog` — the rows those calls write, the summary and the analytics computed from
them, and the list by offsets, while rows are added, completed and cleaned up, and keys are
rotated, which makes another key.

`ConversationUrls` — the map of a thread from providers to the conversation continued
there: looked up when a turn is requested, read, changed in one entry and written
back when it ends. In compare mode several jobs do so to one thread. A job takes the
lock of its provider or fails as busy; the lock of a long one may lapse.

`Discussion` — the discuss mode of `ChatWorkspace.tsx`. Each press of Start is a call
of `runDiscussion` with its awaited call and turn; each press of Stop a call of
`stopDiscussion`. They share the abort flag, `discussionRunning`, the map of open
streams and the reference to the one stream that may be finished by force. A step is
what runs between two awaits, with the continuations of the promises it resolves:
`Outcome` ends a turn and, through `Resume`, begins the next one. The page can open
another conversation at any time (`Leave`). Streams of cards in the other modes, which
Stop cancels too, and the text of the transcript are left out.

### The services around it

`ProviderConnection` — the row of one user and provider, and the browser manager's two
maps. `connect/start` (`StartConnect` to `ConnectFails`), `connect/status` (`FindWindow`
to `PollFails`), `disconnect` (`Disconnect`, `CloseCurrent`), a refresh (`BeginRefresh`,
`NoteVerdict`) and the validation at the beginning of a chat job (`BeginJob`) interleave
at each of their awaits. A window carries the name of the call that opened it; a stored
session carries the name of its window. `CloseWindows` is `closeConnectSession`, with
its entry of the second map cleared whichever window that names. A rejected update or
audit row takes the way of each route's `catch`.

`Incidents` — refreshes look for the open incident of what they found, count, close or
create it; the user resolves incidents; loads of the workspace look for the
notification of the present status and for that of a spike of the provider's limit
(`ReadSpikes`), create what is missing, and link each in turn to the latest open incident,
whatever its issue, if it has none yet. Every query is a step, and nothing serialises the
callers. `Spike` is the kind of a notification, `KindOf` that of the one a load is at.

`Drift` — a diagnostics run is evaluated against the active baseline: the open alerts
are looked up, then one is created, updated or resolved; baselines are set, in two
queries, and deactivated meanwhile.

`Schedulers` — an interval scheduler on several replicas: `SET NX EX`, the run, the status
row, and a release in two calls, with lapses, rejections and deaths between any two.

`History` — the list of threads, ordered by a time every turn changes and paged by the
id of the last row; renaming, deletion, imports and the saving of a discussion, row
by row.

### The pages and the tools

`SettingsPages` — the copy a page holds of a list of the API, in the four patterns the
pages use: act and load again; put the answer into the copy; edit in place, save as
a whole and take the answer; count in the copy. A behaviour is about one of nine
pages and panels. Calls and answers overtake one another, fail, or are lost.

`Onboarding` — the wizard: its steps are stored by calls nobody waits for, while loading,
connecting and saving go on, and a load that ends takes the wizard to the step it read.
A choice of the model is a transaction (`SavePreferences`) and then a read of what is
stored (`AnswerPreferences`). The models page changes the preferences beside it, and may
store a list without a default (`Elsewhere`).

`Transfer` — export (the list, then each conversation by a call of its own, then the
file), the choice of a file, its reading, the preview and the import, with their
limits, the passphrase and the body limit of the server.

`Backup` — `backup.mjs` copies the paths one by one and writes the metadata last;
`restore.mjs` first takes a snapshot when it is forced, then replaces path by path.
Either may stop at any of them. The application may run and write beside a backup,
which nothing forbids, but not beside a restore (README:376).

`Release` — `package.mjs`, `sbom.mjs`, `sign.mjs`, `verify.mjs`, the staging smoke test with
its marker, the dry run of a tag and the operator's status, one tool at a time,
interrupted at any of their steps, on a tree that is edited and a package that is
tampered with. A content is the edit it was copied at; equal contents have equal hashes.
There is one file of each kind that `forbiddenPackagePatterns` (`ShouldExclude`) and the
shorter list of `verify.mjs` (`LooksForbidden`) tell apart, and `stray`, which no manifest
lists.

`MC…` modules and `.cfg` files are the instances for TLC. Four of them, `MCWeb`,
`MCOperations`, `MCServices` and `MCConversations`, put parts that share no state side by
side: a behaviour chooses one part in its initial state and the others stay as
they are, so that one run checks each of them by itself.

The theorems are in modules of their own: `NaturalLemmas`; for the job `ChatJobProofs`,
`ChatJobSettledProofs` and `ChatJobAnnouncedProofs`, each on top of the one before;
`WebProofs` for `JobStream` and `Discussion`; `ConversationsProofs` for `ConversationUrls`,
`UsageLog`, `Completion`, `Adapter` and `History`; `ServicesProofs` for `Schedulers`,
`Gateway`, `Incidents` and `Drift`; `OperationsProofs` for `ProviderConnection`, `Backup`, `Transfer`, `Release`,
`Onboarding` and `SettingsPages`.

Some modules hold definitions such as `ReleaseBlind` directly before `Release`: the
same operation with a plausible mistake in it. No specification uses them. Put in
the place of the original they make TLC find the property violated that
`PROJECT.json` pairs them with under `mutants`, which shows that the property and
the instance can tell the difference.

## 3. What the runs check

| Run | Parts and instance | Checked |
|---|---|---|
| `job_pair` | `ChatJob`: 2 jobs of one user and provider, 2 slots, one may be cancelled and has attachments, leases may lapse | a live lease stays intact (`LeaseIntact`); two runs pass the lock only after a lapse (`OneActiveJob`); attachments are there when read and gone after the answer (`AttachmentsServed`) |
| `job_single` | `ChatJob`: 1 job, 1 slot, cancellation, 2 deaths, the cancel key may expire, fairness | settled means a terminal status (`SettledIsTerminal`) that was announced (`SettledIsAnnounced`); every submitted job settles (`EveryJobSettles`); the abstract life of a job is implemented (`ImplementsLifecycle`) |
| `job_failures` | `ChatJob`: 1 job with attachments, 2 slots, cancellation, 1 death, 1 rejected call anywhere, lapses | slots, queue and lock stay consistent (`SlotsSound`); a job the queue has finished with published `done` unless its listener died (`FinishedIsAnnounced`); a job cancelled in time sends no prompt (`CancelledNeverSent`) |
| `web` | `JobStream`: 7 event sequences, a replay list of 3 that may expire, a viewer who may leave or cancel; `Discussion`: 2 starts, 3 turns each, 2 stops, changes of conversation; fairness | order and losses (`LostOnlyInGap`), status (`CompletedWasAnswered`, `CardSettles`), teardown (`StreamReleased`); Stop reaches the awaited turn (`StopReaches`); no entry and no form waits for nobody (`NobodyWaitsAlone`); undisturbed loops end (`DiscussionEnds`) |
| `operations` | `ProviderConnection`: 2 connects, 1 poller, 1 disconnecting user, 1 validation; `SettingsPages`: 2 items, 2 values, 3 calls; `Backup`: 3 directories, 2 writes; `Release`: 2 edits, 2 packagings; `Transfer`: 4 requests, limits of 2, a body of 5; `Onboarding`: 2 models, 4 calls, 2 at once | maps, windows and rows agree (`MapsConsistent`, `WindowReachable`, `ConnectedHasSession`); pages tell what the API has (`PageTells`); nothing restored over is lost, a restore brings back what was saved (`NothingLost`, `RestoreBringsBack`); the tools of a release say only what is so (`VerifyTells`, `ReadyIsEarned`); imports and exports (`ImportAsShown`, `ExportWhole`); the wizard (`WizardResumes`) |
| `services` | `Gateway`: 2 requests, 2 keys, 2 models, limits of 1; `Incidents`: 2 refreshes, 1 load, 2 rows, 1 bucket of a spike, 2 rejections; `Drift`: 2 evaluations, 2 setters, 3 runs; `Schedulers`: 3 replicas, 3 ticks, 1 mishap | `WithinLimits`, `ScopesHold`, `IncidentsTell`, `AlertTellsDrift`, `SingleFlight` |
| `conversations` | `Adapter`: 3 answers, one of which begins like a menu, 4 polls; `Completion`: every outcome of a job, JSON and stream; `History`: 3 threads, pages of 1, 2 changes; `ConversationUrls`: 1 chat, 2 providers, 2 turns, 3 URLs, 1 rejection; `UsageLog`: 2 keys, 2 providers, 3 rows, pages of 1; fairness | a completed message is whole and its deltas add up to it (`WholeAnswer`), `sendMessage` ends (`SendEnds`); the row agrees with the answer (`RowAgrees`), subscribers are released (`EndReleased`); `PagesOnce`; `UrlsKept`; `LogTold` |

Five runs end in a violation: the code does something its own text denies.

| Run | What TLC shows |
|---|---|
| `own_error` | README:95, "Each provider reports its own errors". `source.onerror` also hears the event named `error` and replaces the provider's message by one about a lost connection. |
| `two_discussions` | Comment of `streamPrompt`: "strictly one after another". Stop during the POST of a turn finds no stream, unlocks the form, and a new start resets the abort flag before the first loop sees it. |
| `session_after_disconnect` | README:40, "Disconnect deletes the encrypted session". A poll that was exporting stores it again. |
| `urls_in_compare` | README:108, "each provider keeps its own conversation per thread". Two jobs of one turn read the thread's map, change an entry each and write the whole map back. |
| `reversible` | README:377, a `pre-restore` snapshot "so it stays reversible". A restore replaces what its backup holds and leaves the rest, so that restoring the snapshot leaves the write-ahead log of another database beside the one brought back. |

Some of the properties that hold carry an excuse, and each excuse is something the
code can run into. Most are history variables, written by the step that causes
them and read by no guard:

* `OneActiveJob` excuses a run that outlived its lease. README promises "one active job
  per `user_id + provider`", but `LOCK_TTL_MS` is a constant of five minutes that is
  never renewed, while the job timeout is configurable and only looked at between events.
  `SingleFlight` (`lapsed`, `raced`) excuses the same of the schedulers, and a lock that
  lapsed between the GET and the DEL of its release, which then deletes another's.
* `SettledIsTerminal` exempts jobs whose handler's call was rejected and those that died
  with their listener (`bereft`): nothing repairs them.
* `WindowReachable` excuses overlapping connects: between the look for an existing
  window and the registration lie five awaits, so that two windows are registered and
  the first is reachable by its id only.
* `ConnectedHasSession` excuses a refresh that a disconnect overtook: it writes
  `connected` over `disconnected`, and pages show a healthy provider that chat refuses.
* `DiscussionEnds` excuses loops that met (`two_discussions`) and streams closed by a
  change of conversation, after which only Stop ends the turn.
* `IncidentsTell` excuses refreshes that overlapped or were overtaken (`stale`,
  `doubled`, `blurred`): two open an incident twice, and neither is repaired. An incident
  without a notification is linked to a spike of the provider's limit, which says
  nothing of its issue, by a load that told of no status (`spiked`).
  `AlertTellsDrift` excuses overlapping evaluations in the same way.
* `RowAgrees` excuses rows a second event, or the close of the connection, wrote to after
  the answer; `EndReleased` the jobs that were over before the handler held the
  function that releases, whose Redis connection stays.
* `WholeAnswer` excuses what no loop could tell from a finished answer, and an answer that
  looks like one of the page's menus when the loop ends: "Go to Settings." is skipped,
  and the message completed with an earlier "Go to".
* `VerifyTells` excuses files put into a package by hand under names that `verify.mjs` does
  not look for: it hashes what the manifest lists, and its list of forbidden names has no
  `.sqlite`, no `.db-journal` and no nested directory.
* `PagesOnce` excuses a cursor whose own row moved (`adrift`); `UrlsKept` what
  `urls_in_compare` shows, a rejected write, and two jobs of one provider at work for a
  thread after the lock of the first lapsed (`mixed`).
* `PageTells` excuses answers that overtook one another; an edit made while a save is
  under way is replaced by the answer. `ImportAsShown` excuses files chosen
  while another is read (`odd`), `WizardResumes` stores that arrived out of order
  (`crossed`), and of a save another one that came before it read back what is stored
  (`savedOver`): the wizard then shows a model the user did not choose.
* `RestoreBringsBack` excuses backups the application ran beside (`torn`): `backup.mjs`
  neither stops nor looks for it.

Other disagreements met on the way, which no run keeps: runs that end before the
browser context is open never delete their attachments (README:118); when only the
publication of the `queued` event is rejected, `chat.ts:182` says "Job never enqueued"
of a job that is in the queue; README:248 allows imports of 10 MB, and the server sets no
`bodyLimit` beyond Fastify's default of one MiB.

**Bounds.** Interference needs two parties on one row or one key, so one job with its
cancel handler, its run and its listeners, or two jobs in two slots, contain every
pair. Two deaths are the two stalls after which BullMQ gives up. One rejected
call at every place is what a handler can answer to; the death of the worker
comes on top of it. In `JobStream` three entries in the replay
list against sequences of up to seven reach every trimming; the constant of the code
is 100. Two discussions with two stops contain a loop, its successor and a late stop of
each; three turns have a first, a middle and a last. Two connects are one
replacement or one overlap; pollers, disconnects and validations repeat without bound.
In `Gateway` a limit of one is exceeded by the second of two requests, and the owner
changes rows without bound; `MaxOthers` bounds what the rest of the minute admits. Three
replicas are a holder, one whose lock was deleted by a late DEL and the one that made
it. Two refreshes with a load are the overlap of the settings page, the scheduler and the
workspace; a validation, a bucket and two rows have every order in which events of both
kinds are made, linked and cleaned up. Three threads with pages of one have a cursor, a row before and a row
behind it. In `Adapter`, `Idle` and `Total` are in the code's order (idle limit below the
total), four polls leave room for a pause in every place. Three directories hold a
backup, the snapshot before its restore and the one before the restore of that.
Two packagings are a package and a later one over it. `MaxCalls`, `MaxRequests` and
`MaxWizardCalls` are what one mistaken order of answers needs, with one call more.
Counters are bounded by the constants named `Max…`. Cancellation and leases are switched
off where a run asks something else, to keep it short; `CHECK_DEADLOCK FALSE` is set
because the systems do stop when everything is done and no user comes back.

**Fairness.** `ChatJob!Fairness`: handlers, runs and listeners that have begun go on
(event loops), BullMQ hands out waiting jobs and runs its stalled check. The adapters'
generators end because each has a total timeout, which is what `SendEnds` checks of
`Adapter` with `WF(Adapting)`: the loop goes on, the page need not do anything. Nothing
is assumed of users, deaths, TTLs or rejections. `JobStream`: the server's callbacks
and the browser's run when they can; jobs need not publish and users need not leave, so
the liveness properties only speak of streams that did receive a terminal event.
`DiscussionFairness`: the API answers each request and streams end, as `ChatJob` shows
of the worker and as a lost connection does. `CompletionFairness`: the job publishes its
outcome (`EveryJobSettles`), Redis and the database answer, the timer fires; clients need
not leave. The other modules have no liveness property: their routes end with their
calls, and their pages and tools may be left at any time.

## 4. What is proved

Every theorem is for all values of the constants: any jobs, slots and keys, any budget
of deaths and rejected calls, any number of calls, rows, turns and replicas. The proofs
use the named assumptions of the modules only (`LockAssumption`, `ChatAssumption`,
`ConnectionAssumption` and so on), which TLC evaluates in the runs; six of them are
there for the proofs: `ScriptsAssumption` has what a job publishes (section 2),
`DriftAssumption` has finitely many capabilities (the code's enumeration),
`PagesAssumption` finitely many items (the rows of a page), `HistoryAssumption` finitely
many threads (an import has a number of them), `UsageAssumption` finitely many providers
(the code's enumeration) and a key, `AdapterAssumption` has texts that are sequences of
chunks. Each invariant that a run checks follows from an inductive one, whose parts are named after what the property does not say by itself. `…Step` lemmas,
one per action, carry it.

**The job** (`ChatJobProofs`, `ChatJobSettledProofs`, `ChatJobAnnouncedProofs`)

* The lock. `LockInv` is the types with `LeaseIntact`, `TokenLive` and `OneKeyEach` (a
  slot holds at most one key). `Exclusive` is no invariant by itself: two slots
  holding one key are only impossible because the key in Redis would have to equal
  both tokens. From `LockInv` follow `LeaseSafety` and `LockExclusion`.
* The pipeline. `TypeSafety` needs, beside the types, that a busy slot has a job and a
  run at `mark` or `announce` an outcome (`RunsOK`). `UsesLock` shows that each step of
  `ChatJob` is a step of the lock or leaves it alone, and `OneActive` follows from
  `LockExclusion` through it.
* The slots. `SlotsInv` is `RunsOK`, what ties a slot to the queue (`AllSlotsOK`,
  `NoTwins`) and `AddedOnce`: a job whose handler has not reached `queue.add` is not in
  the queue, without which the enqueueing could put an active job back to waiting.
* Cancellation. A run only reaches the prompt through a look at the cancel key
  (`EntersUnsignalled`), so with the key set none can enter that stretch.
* Settling. `SettledTerminal` assumes `MaxFaults = 0`: a rejected update is swallowed
  and does leave a row behind. `EndInv` adds to `SlotsInv` that a run past its mark has
  ended its row (`RunEnds`), and that whoever took a job out of the queue for good has
  ended its row or is about to: the run, the canceller, or the `failed` listener
  (`AllJobsEnd`). The exception is `bereft`, the jobs of which a dying process took a
  listener.
* The refinement. `LifecycleImplemented`, under the same assumption: the initial states
  map to the initial state of `JobLifecycle`, and every step to a step of it or to a
  stutter. That nothing reopens or rewrites a settled job is `EndInv` read at both ends
  of the step: only somebody who has not ended its row yet may still write to it.
* Attachments. `AttachmentsSafety` assumes that nothing is rejected and no worker
  dies, which is what `AttachmentsServed` is about: a job is run once. `ServeInv` ties the
  browser context to the run's position (`RunServes`) and says who may have deleted the
  clones (`JobServed`).
* Announcements. `FinishedAnnounced` needs no assumption: `FinishInv` says that whatever
  ended a job in the queue has published `done`, or a listener is about to. For
  `SettledAnnounced`, again without rejections, `TellInv` follows the event of a
  terminal status: it is on the stream, or whoever wrote the row publishes it next
  (`Telling`), or somebody is still going to write the row (`WillMark`). The last is
  needed because canceller, run and listener overwrite one another.

**The page and its streams** (`WebProofs`)

* `StreamSafety` is `LostOnlyInGap`. `StreamInv` has three parts that depend on one
  another: card, frames and messages are in the order of publication, each behind the
  one before (`Ordered`); whatever is missing below an event that was sent fell into the
  gap between replay and subscription (`Covered`); and a stream that is not finished
  will get the rest (`Listening`).
* `CompletedSafety` is `CompletedWasAnswered`. Only an answer or a done lets a card say
  completed (`CardTells`, by induction over the pending updates). If it was a done and no
  answer came, the card has every event from the first one replayed to that done, none of
  which ends the stream (`EndIsLast`): the stream began there, so either with the job,
  behind a wait in the queue, or as far back as the replay list reaches (`ListBegins`,
  `SinceStart`), and `ScriptsAssumption` says that no job publishes such events.
* `StopSafety` and `WaitingSafety`. `DiscussionInv`: a discussion that was started later
  is the younger one (`BornInOrder`), the stream that Stop may finish by force is one that
  a loop awaits (`ActiveStreams`), and without an overlap one loop speaks.

**Conversations and answers** (`ConversationsProofs`)

* `UrlsSafety` is `UrlsKept`. `UrlsInv`: a provider has one job at work for a thread that is not
  mixed; an entry
  of the map that is not the last URL captured is about to be replaced by a turn that
  knows it; and a turn about to write has read the map as it still is (`KnowsMap`).
* `RowSafety` is `RowAgrees`: the handler's position determines what may have been sent,
  and which writes to the usage row are still under way (`HandlerOK`).
* `AnswerSafety` is `WholeAnswer`. `AnswerInv`: until the page replaces something, what was
  read is a beginning of what is shown, and that of the answer (`ShownSoFar`); after a look
  at the text, text and page are equal, the text is fresh, or the page was skipped as a menu
  (`JustRead`); a text that was
  read is no older than the page's silence (`KeepsPace`), which the time limits then compare.
* `HistorySafety` is `PagesOnce`. What a turn, a renaming, a deletion or an import does not
  touch keeps its place among the others (`Keeps`), so that the cursor goes on dividing
  what is at rest into what was given once and what was not given yet (`PagedTo`), as
  long as its own row is not touched; `HistoryInv` says no thread is listed twice, either.
* `UsageSafety` is `LogTold`. For the pages, `NotYetRead`: counted from the newest, a row
  only moves towards the end, so that what was not read yet is behind the pages that were.
  For the sums, `PartsAdd`: what is counted in disjoint parts adds up to their union
  (by induction over the size of the set that `Added` sums over), once for the groups of a
  provider (`ByGroupIs`) and once for each way the rows are divided. `PrefixesHad` says
  that the rows of a key have the prefix it was made with, so that a rotated key is
  listed apart from the one before it.

**Services** (`ServicesProofs`)

* Schedulers. `SchedInv` says that the lock is the holder's own unless its lease lapsed
  or a late DEL removed it, and that a DEL that was not overtaken deletes its own;
  `OneRun` is `SingleFlight`. `RowIsTrue` needs only that a record of `running` is
  written by the run that begins.
* Gateway. `GatewayInv` bounds what was admitted both by the counter and by the highest
  limit read (`Counted`: a request is counted before it is compared, so it never takes
  a number twice), and says that the scopes of a key that exists are a list its owner
  gave it (`Given`, with `OwnerOK` for those a rotation carries between its two
  writes); `LimitSafety` and `ScopeSafety` follow.
* Incidents. `IncidentsSafety` is `IncidentsTell`. `IncidentsInv` says what a refresh
  between two queries may rely on, as long as no other has overlapped (`RefreshTells`,
  `RefreshCounts`), and that notification, incident and load which refer to one
  validation tell the same issue, and that a link to a spike is that of a load without
  a status (`LinksAgree`).
* Drift. `DriftSafety` is `AlertTellsDrift`: `Tells` says of each baseline that its alerts
  fit its last run, or that its only evaluation has in hand what makes them fit. A lemma
  gives the score of a run from its lost capabilities.

**The operator's side** (`OperationsProofs`)

* Connections. `ConnectionInv` adds to the types three facts. `WindowsOK`: a window is
  open until it is registered, and only calls that got that far have registered one.
  `Serial`: without an overlap one connect is under way at most, and between its
  closing the old window and its registering the new one no window is registered.
  `SessionsOK`: a poll that may store a session has a window, and a validation that is
  about to note "connected" on a row without a session was overtaken by a disconnect.
  `MapsSafety`, `WindowSafety` and `SessionSafety` follow.
* Backup. What a restore has removed is in a backup because of what was true before it
  began to remove: the snapshot it took is complete, has its metadata and covers
  every path still to be replaced. `BackupInv` follows a copy path by path, so that
  a snapshot that was cut off has no metadata and nothing was removed on its account;
  `RestoreSafety` is `NothingLost`. `RestoreComplete` is `RestoreBringsBack`: `BringInv`, beside
  `BackupInv`, says that a directory with metadata is the state its backup began in,
  unless the application ran beside it, and follows a restore path by path.
* Export and import. `TransferInv` says of an export under way that each conversation
  that is still there is read or to be read, as new as at its beginning (`ExportsCover`),
  and of the page that there is one call about the present choice, which carries what is
  on display (`ChoiceOK`); `ExportSafety` and `ImportSafety` follow.
* Release. `ReleaseInv`: a manifest is about what was packaged, which `forbiddenPackagePatterns`
  has passed (`Packaged`), a line of the checksum list is one of that manifest's or of the present SBOM (`Summed`), and the marker
  is set only after a verification (`Earned`); `VerifySafety` and `ReadySafety` follow.
* The wizard. `WizardInv`: while no calls about the step have crossed there is one at most,
  and what it stores or has read agrees with page and row (`StepsAgree`); a save of the
  model carries its choice as the only default, which is what is stored until another
  save comes, and so what it reads back (`ModelOK`); stored preferences never have two
  defaults (`DefaultStored`), and a read makes one of none. `WizardSafety` is `WizardResumes`.
* The settings pages. An item need not be shown as it is while calls are under way, so
  `PagesInv` says who will see to it: `ItemKept`, it is shown as it is and no answer still
  to come undoes that, or some call `Renews` it. What a lost answer breaks is made
  good by a reload or told by an error (`KeptOrError`); an answer for another filter
  comes before the one for this filter, or out of order (`FilterTells`); the counter is
  that of the copy, and two calls never mark one event (`Counted`). `OneCall` and
  `ListedAlike` say which pages have one call at most, and that pages which put
  answers into their copy list what the API lists. `PagesSafety` is `PageTells`.

`NaturalLemmas` has what several of them need of numbers: a set of them has a least
and a bounded one a greatest element, and induction, stated with sets.

**Model-checked only.** Liveness under fairness: `EveryJobSettles`, `StreamReleased`,
`CardSettles`, `DiscussionEnds`, `EndReleased`, `SendEnds`; the prover has no rule for
`WF` and `ENABLED`.

## 5. Abstractions

Prompts, answers and messages are left out where nothing depends on them; an event is
its type, a content the write that made it, a text a sequence of chunks. A delta only
repeats the check before it and is no step of `ChatJob`. The adapter's generator is
there any sequence of its event kinds, and a validation any verdict; `Adapter` has the
generator itself. BullMQ is modelled from its use: a waiting job is handed to one free
slot, a job whose process is gone is found stalled once its lock has expired. Its own
lock of five minutes is renewed by the library, so a living run does not stall. Time
appears only as TTLs that may run out, deadlines that may have passed, polls and
minutes. In `ProviderConnection` a window is closed at once, although its context takes
a moment; the browser itself, its profile directory, error codes and time stamps are left
out. Encryption is a word that fits or does not; a hash is the content. The parts that
one run checks side by side share no state in the model: what they share in the program
(a connection's status, a key's row) is changed by an action of each part that stands
for the others (`WriteStatus`, `Reconnect`, `Elsewhere`, `Turn`). The modules state
their types in definitions named `…TypeOK`. The inductive invariants of section 4 contain
them, or types of their own (`…Types`) that do without the bounds of an instance.

## 6. Not modelled

* The session vault: one call that decrypts or throws, as `ChatJob` has it. Permissions: a
  look-up in a table for one local user. The overview, the storage statistics, readiness,
  the fleet view, the status, listing and test routes: they only read.
* The worker browser: that two slots which find no browser launch one each is listed as a
  hazard; it concerns one field and one condition. Graceful shutdown of the worker.
* Uploads and the limits of staged originals; the user message of `persistUserMessage`;
  titles, search and the export of a single thread.
* The selectors of the adapters, the sub-models found on a page and the redaction of
  diagnostics: they are about pages that are not in the repository.
* The filter that notification preferences are, beyond whether a provider's status and
  spikes are told; marking notifications as read, outside `SettingsPages`; the notification
  that no model is usable, which is linked to nothing; CSV exports, time ranges and durations.
* What pages render, the calls that test a key or copy it.
* Smoke tests of providers, image tags and release notes, which keep no state.

## 7. Plan

1. Done: the modules of section 2 and the proofs of section 4.
2. Next to model: the upload route with its staged originals, and the launch of the
   worker's browser by two slots with its shutdown.
3. Next to prove: that the sequences `ChatJob` publishes satisfy `ScriptsAssumption`.
4. Larger instances: a third slot with two keys; two words in `Transfer`; a third row and
   a second load in `Incidents`.
