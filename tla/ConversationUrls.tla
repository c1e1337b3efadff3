-------------------------- MODULE ConversationUrls ---------------------------
(***************************************************************************)
(* The map of a thread from providers to the conversations that are        *)
(* continued there (ChatThread.providerConversationsJson): the API looks   *)
(* the URL of a turn up before it enqueues the job (chat.ts,               *)
(* chatJobService.ts), and the worker replaces it when the turn ends       *)
(* (chatJobProcessor.ts).  A turn in compare mode is one job per provider  *)
(* on one thread.                                                          *)
(*                                                                         *)
(* Of a job, only its URL is kept here: ChatJob.tla has the rest.          *)
(***************************************************************************)
EXTENDS Naturals

CONSTANTS Chats,        \* ids of threads, each used once
          Providers, Turns,
          MaxUrls, MaxSetbacks

ASSUME ConversationAssumption == MaxUrls \in Nat /\ MaxSetbacks \in Nat

VARIABLES
    chats,      \* the threads in the database
    gone,       \* those deleted
    stored,     \* their maps; 0 is no URL
    turn,       \* jobs: where they are, thread, provider, URL to resume, map read, URL captured
    urls,       \* conversations opened at the providers so far
    setbacks,
    latest,     \* history: the URL the worker captured last
    mixed       \* history: threads whose map two jobs had read at once, or one failed to write,
                \* or that two jobs of a provider were at work for

threadVars == <<chats, gone, stored>>
conversationVars == <<threadVars, turn, urls, setbacks, latest, mixed>>

NoUrls == [p \in Providers |-> 0]
NoTurn == [pc |-> "idle", chat |-> CHOOSE t \in Chats : TRUE,
           provider |-> CHOOSE p \in Providers : TRUE, from |-> 0, url |-> 0, map |-> NoUrls]

ConversationInit ==
    /\ chats = {} /\ gone = {}
    /\ stored = [t \in Chats |-> NoUrls]
    /\ turn = [n \in Turns |-> NoTurn]
    /\ urls = 0 /\ setbacks = 0
    /\ latest = [t \in Chats |-> NoUrls]
    /\ mixed = {}

Setback == setbacks < MaxSetbacks /\ setbacks' = setbacks + 1
Over(n) == turn' = [turn EXCEPT ![n] = NoTurn]

-----------------------------------------------------------------------------
(* A request.                                                               *)

\* resolveThreadId: the thread that was named if there is one, or a new one, for the
\* jobs of all providers P of the turn; their URLs are looked up one by one.
RequestTurn(t, P) ==
    /\ t \notin gone /\ urls < MaxUrls
    /\ \E job \in [P -> {n \in Turns : turn[n].pc = "idle"}] :
          /\ \A p, q \in P : job[p] = job[q] => p = q
          /\ turn' = [n \in Turns |->
                IF \E p \in P : job[p] = n
                THEN [NoTurn EXCEPT !.pc = "resolve", !.chat = t,
                                    !.provider = CHOOSE p \in P : job[p] = n]
                ELSE turn[n]]
    /\ chats' = chats \cup {t}
    /\ UNCHANGED <<gone, stored, urls, setbacks, latest, mixed>>

\* resolveThreadConversationUrl; the job is enqueued with what it returned.
ResolveUrl(n) ==
    LET t == turn[n].chat
    IN
    /\ turn[n].pc = "resolve"
    /\ turn' = [turn EXCEPT ![n].pc = "queued",
                    ![n].from = IF t \in chats THEN stored[t][turn[n].provider] ELSE 0]
    /\ UNCHANGED <<threadVars, urls, setbacks, latest, mixed>>

\* deleteThread.
DeleteChat(t) ==
    /\ t \in chats /\ Setback
    /\ chats' = chats \ {t} /\ gone' = gone \cup {t}
    /\ UNCHANGED <<stored, turn, urls, latest, mixed>>

-----------------------------------------------------------------------------
(* The worker.                                                              *)

Holders(n) == {m \in Turns \ {n} : turn[m].provider = turn[n].provider
                                   /\ turn[m].pc \in {"run", "read", "write"}}

\* The job takes the lock of its provider, until it is over, or fails as the provider
\* is busy.  A lock may also have lapsed under the job that took it.
RunTurn(n) ==
    /\ turn[n].pc = "queued"
    /\ \/ /\ Holders(n) = {}
          /\ turn' = [turn EXCEPT ![n].pc = "run"]
          /\ UNCHANGED <<setbacks, mixed>>
       \/ /\ Holders(n) # {}
          /\ Over(n)
          /\ UNCHANGED <<setbacks, mixed>>
       \/ /\ Holders(n) # {} /\ Setback
          /\ turn' = [turn EXCEPT ![n].pc = "run"]
          /\ mixed' = IF \E m \in Holders(n) : turn[m].chat = turn[n].chat
                      THEN mixed \cup {turn[n].chat} ELSE mixed
    /\ UNCHANGED <<threadVars, urls, latest>>

\* The answer is saved, which fails the job once the thread is gone.  The adapter may
\* have seen a URL: that of the conversation it resumed, or of a new one.
Answered(n) ==
    LET t == turn[n].chat
        p == turn[n].provider
    IN
    /\ turn[n].pc = "run"
    /\ \/ Over(n) /\ UNCHANGED <<urls, latest>>
       \/ /\ t \in chats
          /\ \E u \in {turn[n].from, urls + 1} \ {0} :
                /\ urls' = IF u > urls THEN u ELSE urls
                /\ turn' = [turn EXCEPT ![n].pc = "read", ![n].url = u]
                /\ latest' = [latest EXCEPT ![t][p] = u]
    /\ UNCHANGED <<threadVars, setbacks, mixed>>

\* persistThreadConversationUrl reads the map of all providers ...
ReadMap(n) ==
    LET t == turn[n].chat
    IN
    /\ turn[n].pc = "read"
    /\ IF t \notin chats \/ stored[t][turn[n].provider] = turn[n].url
       THEN Over(n) /\ UNCHANGED mixed
       ELSE /\ turn' = [turn EXCEPT ![n].pc = "write", ![n].map = stored[t]]
            /\ mixed' = IF \E m \in Turns : turn[m].pc = "write" /\ turn[m].chat = t
                        THEN mixed \cup {t} ELSE mixed
    /\ UNCHANGED <<threadVars, urls, setbacks, latest>>

\* ... and writes it back with the entry of its provider replaced; a thread that is
\* gone rejects the update.
WriteMapAlone(n) ==
    LET t == turn[n].chat
    IN
    /\ turn[n].pc = "write"
    /\ stored' = IF t \in chats
                 THEN [stored EXCEPT ![t] = [NoUrls EXCEPT ![turn[n].provider] = turn[n].url]]
                 ELSE stored
    /\ Over(n)
    /\ UNCHANGED <<chats, gone, urls, setbacks, latest, mixed>>
WriteMap(n) ==
    LET t == turn[n].chat
    IN
    /\ turn[n].pc = "write"
    /\ stored' = IF t \in chats
                 THEN [stored EXCEPT ![t] = [turn[n].map EXCEPT ![turn[n].provider] = turn[n].url]]
                 ELSE stored
    /\ Over(n)
    /\ UNCHANGED <<chats, gone, urls, setbacks, latest, mixed>>

\* A rejected call of either is only warned of.
PersistFails(n) ==
    /\ turn[n].pc \in {"read", "write"} /\ Setback
    /\ Over(n)
    /\ mixed' = mixed \cup {turn[n].chat}
    /\ UNCHANGED <<threadVars, urls, latest>>

ConversationNext ==
    \/ \E t \in Chats, P \in SUBSET Providers \ {{}} : RequestTurn(t, P)
    \/ \E t \in Chats : DeleteChat(t)
    \/ \E n \in Turns : \/ ResolveUrl(n) \/ RunTurn(n) \/ Answered(n)
                        \/ ReadMap(n) \/ WriteMap(n) \/ PersistFails(n)

ConversationSpec == ConversationInit /\ [][ConversationNext]_conversationVars

-----------------------------------------------------------------------------

Persisting(t) == {n \in Turns : turn[n].pc \in {"read", "write"} /\ turn[n].chat = t}

\* "Follow-up messages in the same thread continue the same provider-side conversation"
\* (README.md:106): once no job is persisting, the URL of every provider is the one
\* captured last, whatever the other providers' jobs stored meanwhile.  The threads
\* where this does not hold are those two jobs wrote at once, or one failed to, or that
\* two jobs of a provider were at work for, after the lock of the first had lapsed.
UrlsKept ==
    \A t \in chats \ mixed : Persisting(t) = {} => stored[t] = latest[t]

\* The same for compare mode, of which README.md:108 says "Works in single and compare
\* mode (each provider keeps its own conversation per thread)": a thread no call has
\* failed for loses no provider's URL.
UrlsKeptInCompare ==
    setbacks = 0 => \A t \in chats : Persisting(t) = {} => stored[t] = latest[t]
=============================================================================
