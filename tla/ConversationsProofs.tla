------------------------ MODULE ConversationsProofs -------------------------
(***************************************************************************)
(* Proofs about conversations and answers, for any threads, providers,     *)
(* turns, frames and texts: the map of a thread keeps the URL of every     *)
(* provider, the row of a request to the endpoint says what the client was *)
(* sent, an adapter's message_complete carries the whole answer, a client  *)
(* that pages through the list is given every thread once, and the usage   *)
(* log adds up and misses no row.                                          *)
(***************************************************************************)
EXTENDS ConversationUrls, Completion, Adapter, History, UsageLog, NaturalLemmas, SequenceTheorems,
        FiniteSetTheorems, FunctionTheorems, TLAPS

-----------------------------------------------------------------------------
(* Conversation URLs.                                                       *)

UrlMaps == [Providers -> Nat]

TurnRecords == [pc : {"resolve", "queued", "run", "read", "write"}, chat : Chats,
                provider : Providers, from : Nat, url : Nat, map : UrlMaps]

UrlsTypeOK == /\ chats \subseteq Chats /\ gone \subseteq Chats
              /\ stored \in [Chats -> UrlMaps]
              /\ latest \in [Chats -> UrlMaps]
              /\ turn \in [Turns -> TurnRecords \cup {NoTurn}]
              /\ urls \in Nat

\* The turns that hold the lock of their provider.
Holding(n) == turn[n].pc \in {"run", "read", "write"}

\* A lock may have lapsed, but not under a job of a thread that is not mixed.
OneHolder == \A m, n \in Turns :
    /\ Holding(m) /\ Holding(n) /\ turn[m].provider = turn[n].provider
    /\ turn[m].chat = turn[n].chat /\ turn[m].chat \notin mixed
    => m = n

\* A thread that was never named is as the database makes it, and no job's.
FreshChats ==
    /\ \A t \in Chats \ (chats \cup gone) : stored[t] = NoUrls /\ latest[t] = NoUrls
    /\ \A n \in Turns : turn[n].pc # "idle" => turn[n].chat \in chats \cup gone
    /\ chats \cap gone = {}

\* What a job that persists its URL knows of the map it is going to replace.
KnowsMap(n) ==
    LET t == turn[n].chat IN
    /\ turn[n].url = latest[t][turn[n].provider]
    /\ turn[n].pc = "write" =>
          /\ turn[n].map = stored[t]
          /\ \A m \in Persisting(t) : turn[m].pc = "write" => m = n

\* A URL that is not the last one captured is about to be replaced by it.
MapKept(t) ==
    /\ \A p \in Providers : \/ stored[t][p] = latest[t][p]
                            \/ \E n \in Persisting(t) : turn[n].provider = p
    /\ \A n \in Persisting(t) : KnowsMap(n)

\* The inductive invariant.
UrlsInv == UrlsTypeOK /\ OneHolder /\ FreshChats /\ \A t \in chats \ mixed : MapKept(t)

LEMMA NobodysTurn == NoTurn.pc = "idle"
BY DEF NoTurn

LEMMA UrlsInvKept == UrlsInv => UrlsKept
<1> SUFFICES ASSUME UrlsInv, NEW t \in chats \ mixed, Persisting(t) = {}
             PROVE  stored[t] = latest[t]
  BY DEF UrlsKept
<1>1. stored[t] \in UrlMaps /\ latest[t] \in UrlMaps
  BY DEF UrlsInv, UrlsTypeOK
<1>2. \A p \in Providers : stored[t][p] = latest[t][p]
  BY DEF UrlsInv, MapKept
<1> QED BY <1>1, <1>2 DEF UrlMaps

LEMMA InitUrls == ConversationInit => UrlsInv
<1> SUFFICES ASSUME ConversationInit PROVE UrlsInv
  OBVIOUS
<1> USE DEF ConversationInit
<1>1. UrlsTypeOK
  BY DEF UrlsTypeOK, UrlMaps, NoUrls
<1>2. \A n \in Turns : turn[n].pc = "idle"
  BY DEF NoTurn
<1> QED BY <1>1, <1>2 DEF UrlsInv, OneHolder, Holding, FreshChats

\* The URLs of a thread stay kept if a step leaves its map alone and lets none
\* of its jobs begin or end to persist one.
LEMMA KeptQuietly ==
  ASSUME UrlsInv, NEW t \in chats \ mixed, stored'[t] = stored[t], latest'[t] = latest[t],
         \A n \in Turns : \/ turn'[n] = turn[n]
                          \/ /\ turn[n].pc \notin {"read", "write"} \/ turn[n].chat # t
                             /\ turn'[n].pc \notin {"read", "write"} \/ turn'[n].chat # t
  PROVE  MapKept(t)'
<1>1. Persisting(t)' = Persisting(t)
  BY DEF Persisting
<1>2. \A n \in Persisting(t) : turn'[n] = turn[n] /\ turn[n].chat = t
  BY DEF Persisting
<1>3. MapKept(t)
  BY DEF UrlsInv
<1>4. \A p \in Providers : \/ stored'[t][p] = latest'[t][p]
                           \/ \E n \in Persisting(t)' : turn'[n].provider = p
  BY <1>1, <1>2, <1>3 DEF MapKept
<1>5. \A n \in Persisting(t)' : KnowsMap(n)'
  BY <1>1, <1>2, <1>3 DEF MapKept, KnowsMap
<1> QED BY <1>4, <1>5 DEF MapKept

LEMMA RequestKeeps ==
  ASSUME UrlsInv, NEW t \in Chats, NEW P \in SUBSET Providers \ {{}}, RequestTurn(t, P)
  PROVE  UrlsInv'
<1>1. PICK job \in [P -> {n \in Turns : turn[n].pc = "idle"}] :
         turn' = [n \in Turns |->
                IF \E p \in P : job[p] = n
                THEN [NoTurn EXCEPT !.pc = "resolve", !.chat = t,
                                    !.provider = CHOOSE p \in P : job[p] = n]
                ELSE turn[n]]
  BY DEF RequestTurn
<1>2. \A n \in Turns : \/ turn'[n] = turn[n]
                       \/ /\ turn[n].pc = "idle" /\ turn'[n].pc = "resolve"
                          /\ turn'[n].chat = t /\ turn'[n] \in TurnRecords
  <2> SUFFICES ASSUME NEW n \in Turns, NEW p \in P, job[p] = n
               PROVE  /\ turn[n].pc = "idle" /\ turn'[n].pc = "resolve"
                      /\ turn'[n].chat = t /\ turn'[n] \in TurnRecords
    BY <1>1
  <2> DEFINE q == CHOOSE q \in P : job[q] = n
  <2>1. q \in Providers
    OBVIOUS
  <2> HIDE DEF q
  <2>2. turn'[n] = [NoTurn EXCEPT !.pc = "resolve", !.chat = t, !.provider = q]
    BY <1>1 DEF q
  <2> QED BY <1>1, <2>1, <2>2 DEF NoTurn, TurnRecords, UrlMaps, NoUrls
<1>3. UNCHANGED <<gone, stored, urls, latest, mixed>> /\ chats' = chats \cup {t} /\ t \notin gone
  BY DEF RequestTurn
<1>4. UrlsTypeOK'
  <2>1. \A n \in Turns : turn'[n] \in TurnRecords \cup {NoTurn}
    BY <1>2 DEF UrlsInv, UrlsTypeOK
  <2>2. turn' = [n \in Turns |-> turn'[n]]
    BY <1>1
  <2>3. turn' \in [Turns -> TurnRecords \cup {NoTurn}]
    BY <2>1, <2>2
  <2> QED BY <1>3, <2>3 DEF UrlsInv, UrlsTypeOK
<1>5. OneHolder'
  BY <1>2, <1>3 DEF UrlsInv, OneHolder, Holding
<1>6. FreshChats'
  BY <1>2, <1>3 DEF UrlsInv, FreshChats
<1>7. ASSUME NEW c \in chats' \ mixed' PROVE MapKept(c)'
  <2>1. CASE c \in chats
    BY <1>2, <1>3, <1>7, <2>1, KeptQuietly
  <2>2. CASE c \notin chats
    <3>1. c = t /\ stored'[c] = latest'[c]
      BY <1>3, <1>7, <2>2 DEF UrlsInv, FreshChats
    <3>2. \A n \in Turns : turn[n].pc = "idle" \/ turn[n].chat # c
      BY <1>3, <2>2, <3>1 DEF UrlsInv, FreshChats
    <3>3. Persisting(c)' = {}
      BY <1>2, <3>2 DEF Persisting
    <3> QED BY <3>1, <3>3 DEF MapKept
  <2> QED BY <2>1, <2>2
<1> QED BY <1>4, <1>5, <1>6, <1>7 DEF UrlsInv

LEMMA DeleteKeeps ==
  ASSUME UrlsInv, NEW t \in Chats, DeleteChat(t)
  PROVE  UrlsInv'
<1>1. /\ UNCHANGED <<stored, turn, urls, latest, mixed>>
      /\ t \in chats /\ chats' = chats \ {t} /\ gone' = gone \cup {t}
  BY DEF DeleteChat
<1>2. UrlsTypeOK' /\ OneHolder' /\ FreshChats'
  BY <1>1 DEF UrlsInv, UrlsTypeOK, OneHolder, Holding, FreshChats
<1>3. \A c \in chats' \ mixed' : MapKept(c)'
  BY <1>1, KeptQuietly
<1> QED BY <1>2, <1>3 DEF UrlsInv

\* A step of one job that neither writes the map nor begins or ends to persist, nor
\* gives its provider a second holder.
LEMMA JobQuietly ==
  ASSUME UrlsInv, NEW n \in Turns, NEW r \in TurnRecords \cup {NoTurn},
         turn' = [turn EXCEPT ![n] = r],
         UNCHANGED <<threadVars, latest>>, urls' \in Nat,
         mixed \subseteq mixed',
         turn[n].pc \notin {"read", "write"} \/ turn[n].chat \in mixed',
         r = NoTurn \/ (/\ r.pc \notin {"read", "write"} /\ turn[n].pc # "idle"
                       /\ r.chat = turn[n].chat),
         r = NoTurn \/ r.pc # "run" \/ r.chat \in mixed'
             \/ \A m \in Turns \ {n} : turn[m].provider = r.provider /\ turn[m].chat = r.chat => ~Holding(m)
  PROVE  UrlsInv'
<1>1. \A m \in Turns : turn'[m] = IF m = n THEN r ELSE turn[m]
  BY DEF UrlsInv, UrlsTypeOK
<1>2. UrlsTypeOK'
  BY DEF UrlsInv, UrlsTypeOK, threadVars
<1>3. OneHolder'
  <2> SUFFICES ASSUME NEW k \in Turns, NEW m \in Turns, Holding(k)', Holding(m)',
                      turn'[k].provider = turn'[m].provider,
                      turn'[k].chat = turn'[m].chat, turn'[k].chat \notin mixed'
               PROVE  k = m
    BY DEF OneHolder
  <2>1. CASE k # n /\ m # n
    BY <1>1, <2>1 DEF UrlsInv, OneHolder, Holding
  <2>2. CASE k = n /\ m # n
    BY <1>1, <2>2 DEF Holding, NoTurn
  <2>3. CASE k # n /\ m = n
    BY <1>1, <2>3 DEF Holding, NoTurn
  <2> QED BY <2>1, <2>2, <2>3
<1>4. FreshChats'
  BY <1>1 DEF UrlsInv, FreshChats, threadVars, NoTurn
<1>5. ASSUME NEW c \in chats' \ mixed' PROVE MapKept(c)'
  <2>1. c \in chats \ mixed /\ stored'[c] = stored[c] /\ latest'[c] = latest[c]
    BY <1>5 DEF threadVars
  <2>2. \A m \in Turns : \/ turn'[m] = turn[m]
                         \/ /\ turn[m].pc \notin {"read", "write"} \/ turn[m].chat # c
                            /\ turn'[m].pc \notin {"read", "write"} \/ turn'[m].chat # c
    BY <1>1, <1>5 DEF NoTurn
  <2> QED BY <2>1, <2>2, KeptQuietly
<1> QED BY <1>2, <1>3, <1>4, <1>5 DEF UrlsInv

LEMMA ResolveKeeps ==
  ASSUME UrlsInv, NEW n \in Turns, ResolveUrl(n)
  PROVE  UrlsInv'
<1> DEFINE u == IF turn[n].chat \in chats THEN stored[turn[n].chat][turn[n].provider] ELSE 0
           r == [turn[n] EXCEPT !.pc = "queued", !.from = u]
<1>1. turn[n] \in TurnRecords /\ turn[n].pc = "resolve"
  BY DEF ResolveUrl, UrlsInv, UrlsTypeOK, NoTurn
<1>2. u \in Nat
  BY <1>1 DEF UrlsInv, UrlsTypeOK, UrlMaps, TurnRecords
<1>3. turn' = [turn EXCEPT ![n] = r]
  BY <1>1 DEF ResolveUrl, UrlsInv, UrlsTypeOK
<1>4. UNCHANGED <<threadVars, latest, urls, mixed>>
  BY DEF ResolveUrl
<1> HIDE DEF u
<1>5. r \in TurnRecords /\ r.pc = "queued" /\ r.chat = turn[n].chat
  BY <1>1, <1>2 DEF TurnRecords
<1>6. urls' \in Nat
  BY <1>4 DEF UrlsInv, UrlsTypeOK
<1> HIDE DEF r
<1> QED BY <1>1, <1>3, <1>4, <1>5, <1>6, JobQuietly

\* A job that ends without a URL, or whose write fails: the thread is then mixed.
LEMMA EndKeeps ==
  ASSUME UrlsInv, NEW n \in Turns, Over(n), UNCHANGED <<threadVars, latest, urls>>,
         mixed \subseteq mixed',
         turn[n].pc \notin {"read", "write"} \/ turn[n].chat \in mixed'
  PROVE  UrlsInv'
<1>1. urls' \in Nat
  BY DEF UrlsInv, UrlsTypeOK
<1> QED BY <1>1, JobQuietly DEF Over

LEMMA RunKeeps ==
  ASSUME UrlsInv, NEW n \in Turns, RunTurn(n)
  PROVE  UrlsInv'
<1> DEFINE r == [turn[n] EXCEPT !.pc = "run"]
<1>1. turn[n] \in TurnRecords /\ turn[n].pc = "queued"
  BY DEF RunTurn, UrlsInv, UrlsTypeOK, NoTurn
<1>2. UNCHANGED <<threadVars, latest, urls>> /\ mixed \subseteq mixed'
  BY DEF RunTurn
<1>3. CASE Over(n)
  BY <1>1, <1>2, <1>3, EndKeeps
<1>4. CASE ~Over(n)
  <2>1. turn' = [turn EXCEPT ![n] = r]
    BY <1>1, <1>4 DEF RunTurn, UrlsInv, UrlsTypeOK
  <2>2. r \in TurnRecords /\ r.pc = "run" /\ r.chat = turn[n].chat /\ r.provider = turn[n].provider
    BY <1>1 DEF TurnRecords
  <2>3. \/ turn[n].chat \in mixed'
        \/ \A m \in Turns \ {n} :
              turn[m].provider = turn[n].provider /\ turn[m].chat = turn[n].chat => ~Holding(m)
    BY <1>4 DEF RunTurn, Holders, Holding
  <2>4. urls' \in Nat
    BY <1>2 DEF UrlsInv, UrlsTypeOK
  <2> HIDE DEF r
  <2> QED BY <1>1, <1>2, <2>1, <2>2, <2>3, <2>4, JobQuietly
<1> QED BY <1>3, <1>4

LEMMA FailKeeps ==
  ASSUME UrlsInv, NEW n \in Turns, PersistFails(n)
  PROVE  UrlsInv'
BY EndKeeps DEF PersistFails

-----------------------------------------------------------------------------
(* The steps of a job that captures, reads and writes.                      *)

\* The URL captured becomes the last one of a provider that no other job persists for.
LEMMA AnswerKeeps ==
  ASSUME UrlsInv, NEW n \in Turns, Answered(n)
  PROVE  UrlsInv'
<1> DEFINE t == turn[n].chat
           p == turn[n].provider
<1>1. CASE Over(n) /\ UNCHANGED <<urls, latest>>
  BY <1>1, EndKeeps DEF Answered
<1>2. CASE ~(Over(n) /\ UNCHANGED <<urls, latest>>)
  <2>1. PICK u \in {turn[n].from, urls + 1} \ {0} :
           /\ urls' = IF u > urls THEN u ELSE urls
           /\ turn' = [turn EXCEPT ![n].pc = "read", ![n].url = u]
           /\ latest' = [latest EXCEPT ![t][p] = u]
    BY <1>2 DEF Answered
  <2>2. turn[n] \in TurnRecords /\ turn[n].pc = "run" /\ t \in chats
    BY <1>2 DEF Answered, UrlsInv, UrlsTypeOK, NoTurn
  <2>3. u \in Nat /\ t \in Chats /\ p \in Providers
    BY <2>2 DEF UrlsInv, UrlsTypeOK, TurnRecords
  <2>4. UNCHANGED <<threadVars, mixed>>
    BY DEF Answered
  <2> DEFINE r == [turn[n] EXCEPT !.pc = "read", !.url = u]
  <2>5. \A m \in Turns : turn'[m] = IF m = n THEN r ELSE turn[m]
    BY <2>1, <2>2 DEF UrlsInv, UrlsTypeOK
  <2>6. r \in TurnRecords /\ r.pc = "read" /\ r.url = u /\ r.chat = t /\ r.provider = p
    BY <2>2, <2>3 DEF TurnRecords
  <2>7. \A c \in Chats : latest'[c] = IF c = t THEN [latest[c] EXCEPT ![p] = u] ELSE latest[c]
    BY <2>1, <2>3 DEF UrlsInv, UrlsTypeOK
  <2>8. latest[t] \in [Providers -> Nat]
    BY <2>3 DEF UrlsInv, UrlsTypeOK, UrlMaps
  <2>9. \A q \in Providers : latest'[t][q] = IF q = p THEN u ELSE latest[t][q]
    BY <2>3, <2>7, <2>8
  <2> HIDE DEF r
  <2>10. UrlsTypeOK'
    <3>1. latest' \in [Chats -> UrlMaps]
      BY <2>1, <2>3 DEF UrlsInv, UrlsTypeOK, UrlMaps
    <3>2. turn' \in [Turns -> TurnRecords \cup {NoTurn}]
      <4>1. turn' = [m \in Turns |-> turn'[m]]
        BY <2>1 DEF UrlsInv, UrlsTypeOK
      <4>2. \A m \in Turns : turn'[m] \in TurnRecords \cup {NoTurn}
        BY <2>5, <2>6 DEF UrlsInv, UrlsTypeOK
      <4> QED BY <4>1, <4>2
    <3>3. urls' \in Nat
      BY <2>1, <2>3 DEF UrlsInv, UrlsTypeOK
    <3> QED BY <2>4, <3>1, <3>2, <3>3 DEF UrlsInv, UrlsTypeOK, threadVars
  <2>11. OneHolder'
    BY <2>2, <2>4, <2>5, <2>6 DEF UrlsInv, OneHolder, Holding
  <2>12. FreshChats'
    BY <2>2, <2>4, <2>5, <2>6, <2>7 DEF UrlsInv, FreshChats, threadVars
  <2>13. ASSUME NEW c \in chats' \ mixed' PROVE MapKept(c)'
    <3>1. c \in chats \ mixed /\ MapKept(c) /\ c \in Chats /\ stored'[c] = stored[c]
      BY <2>4, <2>13 DEF UrlsInv, UrlsTypeOK, threadVars
    <3>2. CASE c # t
      <4>1. latest'[c] = latest[c]
        BY <2>7, <3>1, <3>2
      <4>2. \A m \in Turns : \/ turn'[m] = turn[m]
                             \/ /\ turn[m].pc \notin {"read", "write"} \/ turn[m].chat # c
                                /\ turn'[m].pc \notin {"read", "write"} \/ turn'[m].chat # c
        BY <2>5, <2>6, <3>2
      <4> QED BY <3>1, <4>1, <4>2, KeptQuietly
    <3>3. CASE c = t
      <4>1. Persisting(c)' = Persisting(c) \cup {n} /\ n \notin Persisting(c)
        BY <2>2, <2>5, <2>6, <3>3 DEF Persisting
      <4>2. \A m \in Persisting(c) : turn'[m] = turn[m] /\ turn[m].provider # p
        BY <2>2, <2>5, <3>1, <3>3, <4>1 DEF UrlsInv, OneHolder, Holding, Persisting
      <4>3. \A m \in Persisting(c) : turn[m].provider \in Providers /\ turn[m].chat = c
        BY <2>2 DEF Persisting, UrlsInv, UrlsTypeOK, TurnRecords, NoTurn
      <4>4. ASSUME NEW q \in Providers
            PROVE  \/ stored'[c][q] = latest'[c][q]
                   \/ \E m \in Persisting(c)' : turn'[m].provider = q
        <5>1. CASE q = p
          BY <2>5, <2>6, <4>1, <5>1
        <5>2. CASE q # p
          BY <2>9, <3>1, <3>3, <4>1, <4>2, <5>2 DEF MapKept
        <5> QED BY <5>1, <5>2
      <4>5. ASSUME NEW m \in Persisting(c)' PROVE KnowsMap(m)'
        <5>1. CASE m = n
          BY <2>3, <2>5, <2>6, <2>9, <3>3, <5>1 DEF KnowsMap
        <5>2. CASE m # n
          <6>1. m \in Persisting(c) /\ KnowsMap(m) /\ turn'[m] = turn[m] /\ turn[m].chat = c
            BY <3>1, <4>1, <4>2, <4>3, <4>5, <5>2 DEF MapKept
          <6>2. latest'[c][turn[m].provider] = latest[c][turn[m].provider]
            BY <2>9, <3>3, <4>2, <4>3, <6>1
          <6>3. turn'[n].pc = "read"
            BY <2>5, <2>6
          <6> QED BY <3>1, <4>1, <4>2, <6>1, <6>2, <6>3 DEF KnowsMap
        <5> QED BY <5>1, <5>2
      <4> QED BY <4>4, <4>5 DEF MapKept
    <3> QED BY <3>2, <3>3
  <2> QED BY <2>10, <2>11, <2>12, <2>13 DEF UrlsInv
<1> QED BY <1>1, <1>2

\* The map read is that of the database, and no other job has read it, or the
\* thread is mixed from now on.
LEMMA ReadKeeps ==
  ASSUME UrlsInv, NEW n \in Turns, ReadMap(n)
  PROVE  UrlsInv'
<1> DEFINE t == turn[n].chat
           p == turn[n].provider
<1>1. turn[n] \in TurnRecords /\ turn[n].pc = "read"
  BY DEF ReadMap, UrlsInv, UrlsTypeOK, NoTurn
<1>2. t \in Chats /\ p \in Providers /\ turn[n].url \in Nat
  BY <1>1 DEF TurnRecords
<1>3. UNCHANGED <<threadVars, urls, latest>>
  BY DEF ReadMap
<1>4. CASE t \notin chats \/ stored[t][p] = turn[n].url
  <2>1. Over(n) /\ mixed' = mixed
    BY <1>4 DEF ReadMap
  <2>2. \A m \in Turns : turn'[m] = IF m = n THEN NoTurn ELSE turn[m]
    BY <2>1 DEF Over, UrlsInv, UrlsTypeOK
  <2>3. UrlsTypeOK'
    BY <1>3, <2>1 DEF UrlsInv, UrlsTypeOK, threadVars, Over
  <2>4. OneHolder'
    BY <2>1, <2>2, NobodysTurn DEF UrlsInv, OneHolder, Holding
  <2>5. FreshChats'
    BY <1>3, <2>2, NobodysTurn DEF UrlsInv, FreshChats, threadVars
  <2>6. ASSUME NEW c \in chats' \ mixed' PROVE MapKept(c)'
    <3>1. c \in chats \ mixed /\ MapKept(c) /\ stored'[c] = stored[c] /\ latest'[c] = latest[c]
      BY <1>3, <2>1, <2>6 DEF UrlsInv, threadVars
    <3>2. CASE c # t
      <4>1. \A m \in Turns : \/ turn'[m] = turn[m]
                             \/ /\ turn[m].pc \notin {"read", "write"} \/ turn[m].chat # c
                                /\ turn'[m].pc \notin {"read", "write"} \/ turn'[m].chat # c
        BY <2>2, <3>2, NobodysTurn
      <4> QED BY <3>1, <4>1, KeptQuietly
    <3>3. CASE c = t
      <4>1. stored[c][p] = latest[c][p]
        BY <1>1, <1>4, <3>1, <3>3 DEF MapKept, KnowsMap, Persisting
      <4>2. Persisting(c)' = Persisting(c) \ {n}
        BY <2>2, NobodysTurn DEF Persisting
      <4>3. \A m \in Persisting(c)' : turn'[m] = turn[m] /\ turn[m].chat = c
        BY <2>2, <4>2 DEF Persisting
      <4>4. ASSUME NEW q \in Providers
            PROVE  \/ stored'[c][q] = latest'[c][q]
                   \/ \E m \in Persisting(c)' : turn'[m].provider = q
        BY <3>1, <4>1, <4>2, <4>3 DEF MapKept
      <4>5. \A m \in Persisting(c)' : KnowsMap(m)'
        BY <3>1, <4>2, <4>3 DEF MapKept, KnowsMap
      <4> QED BY <4>4, <4>5 DEF MapKept
    <3> QED BY <3>2, <3>3
  <2> QED BY <2>3, <2>4, <2>5, <2>6 DEF UrlsInv
<1>5. CASE ~(t \notin chats \/ stored[t][p] = turn[n].url)
  <2> DEFINE r == [turn[n] EXCEPT !.pc = "write", !.map = stored[t]]
  <2>1. /\ turn' = [turn EXCEPT ![n].pc = "write", ![n].map = stored[t]]
        /\ mixed' = IF \E m \in Turns : turn[m].pc = "write" /\ turn[m].chat = t
                    THEN mixed \cup {t} ELSE mixed
    BY <1>5 DEF ReadMap
  <2>2. \A m \in Turns : turn'[m] = IF m = n THEN r ELSE turn[m]
    BY <1>1, <2>1 DEF UrlsInv, UrlsTypeOK
  <2>3. stored[t] \in UrlMaps
    BY <1>2 DEF UrlsInv, UrlsTypeOK
  <2>4. /\ r \in TurnRecords /\ r.pc = "write" /\ r.map = stored[t]
        /\ r.url = turn[n].url /\ r.chat = t /\ r.provider = p
    BY <1>1, <2>3 DEF TurnRecords
  <2> HIDE DEF r
  <2>5. UrlsTypeOK'
    <3>1. turn' \in [Turns -> TurnRecords \cup {NoTurn}]
      <4>1. turn' = [m \in Turns |-> turn'[m]]
        BY <2>1 DEF UrlsInv, UrlsTypeOK
      <4>2. \A m \in Turns : turn'[m] \in TurnRecords \cup {NoTurn}
        BY <2>2, <2>4 DEF UrlsInv, UrlsTypeOK
      <4> QED BY <4>1, <4>2
    <3> QED BY <1>3, <3>1 DEF UrlsInv, UrlsTypeOK, threadVars
  <2>6. OneHolder'
    BY <1>1, <2>1, <2>2, <2>4 DEF UrlsInv, OneHolder, Holding
  <2>7. FreshChats'
    BY <1>1, <1>3, <2>2, <2>4 DEF UrlsInv, FreshChats, threadVars
  <2>8. ASSUME NEW c \in chats' \ mixed' PROVE MapKept(c)'
    <3>1. c \in chats \ mixed /\ MapKept(c) /\ stored'[c] = stored[c] /\ latest'[c] = latest[c]
      BY <1>3, <2>1, <2>8 DEF UrlsInv, threadVars
    <3>2. CASE c # t
      <4>1. \A m \in Turns : \/ turn'[m] = turn[m]
                             \/ /\ turn[m].pc \notin {"read", "write"} \/ turn[m].chat # c
                                /\ turn'[m].pc \notin {"read", "write"} \/ turn'[m].chat # c
        BY <2>2, <2>4, <3>2
      <4> QED BY <3>1, <4>1, KeptQuietly
    <3>3. CASE c = t
      <4>1. \A m \in Turns : turn[m].pc = "write" => turn[m].chat # c
        BY <2>1, <2>8, <3>3
      <4>2. Persisting(c)' = Persisting(c) /\ n \in Persisting(c)
        BY <1>1, <2>2, <2>4, <3>3 DEF Persisting
      <4>3. \A m \in Persisting(c) : /\ m \in Turns /\ turn[m].pc = "read" /\ turn[m].chat = c
                                     /\ m # n => turn'[m] = turn[m]
        BY <2>2, <4>1 DEF Persisting
      <4>4. ASSUME NEW q \in Providers
            PROVE  \/ stored'[c][q] = latest'[c][q]
                   \/ \E m \in Persisting(c)' : turn'[m].provider = q
        <5>1. \A m \in Persisting(c) : turn'[m].provider = turn[m].provider
          BY <2>2, <2>4, <4>3
        <5> QED BY <3>1, <4>2, <5>1 DEF MapKept
      <4>5. ASSUME NEW m \in Persisting(c)' PROVE KnowsMap(m)'
        <5>1. CASE m = n
          <6>1. turn[n].url = latest[c][p]
            BY <3>1, <3>3, <4>2 DEF MapKept, KnowsMap
          <6>2. \A k \in Persisting(c)' : turn'[k].pc = "write" => k = n
            BY <4>2, <4>3, <2>2
          <6>3. turn'[n] = r /\ t = c
            BY <2>2, <3>3
          <6> QED BY <2>4, <3>1, <5>1, <6>1, <6>2, <6>3 DEF KnowsMap
        <5>2. CASE m # n
          <6>1. KnowsMap(m) /\ turn'[m] = turn[m] /\ turn[m].pc = "read" /\ turn[m].chat = c
            BY <3>1, <4>2, <4>3, <4>5, <5>2 DEF MapKept
          <6> QED BY <3>1, <6>1 DEF KnowsMap
        <5> QED BY <5>1, <5>2
      <4> QED BY <4>4, <4>5 DEF MapKept
    <3> QED BY <3>2, <3>3
  <2> QED BY <2>5, <2>6, <2>7, <2>8 DEF UrlsInv
<1> QED BY <1>4, <1>5

\* The map written is that of the database with the last URL of one more provider.
LEMMA WriteKeeps ==
  ASSUME UrlsInv, NEW n \in Turns, WriteMap(n)
  PROVE  UrlsInv'
<1> DEFINE t == turn[n].chat
           p == turn[n].provider
<1>1. turn[n] \in TurnRecords /\ turn[n].pc = "write"
  BY DEF WriteMap, UrlsInv, UrlsTypeOK, NoTurn
<1>2. t \in Chats /\ p \in Providers /\ turn[n].url \in Nat /\ turn[n].map \in UrlMaps
  BY <1>1 DEF TurnRecords
<1>3. UNCHANGED <<chats, gone, urls, setbacks, latest, mixed>> /\ Over(n)
  BY DEF WriteMap
<1>4. \A m \in Turns : turn'[m] = IF m = n THEN NoTurn ELSE turn[m]
  BY <1>3 DEF Over, UrlsInv, UrlsTypeOK
<1>5. [turn[n].map EXCEPT ![p] = turn[n].url] \in UrlMaps
  BY <1>2 DEF UrlMaps
<1>6. stored' \in [Chats -> UrlMaps]
  BY <1>5 DEF WriteMap, UrlsInv, UrlsTypeOK
<1>7. \A c \in Chats : stored'[c] = IF c = t /\ t \in chats
                                   THEN [turn[n].map EXCEPT ![p] = turn[n].url] ELSE stored[c]
  BY DEF WriteMap, UrlsInv, UrlsTypeOK
<1>8. UrlsTypeOK'
  BY <1>3, <1>6 DEF UrlsInv, UrlsTypeOK, Over
<1>9. OneHolder'
  BY <1>3, <1>4, NobodysTurn DEF UrlsInv, OneHolder, Holding
<1>10. FreshChats'
  <2>1. \A c \in Chats \ (chats \cup gone) : stored'[c] = stored[c]
    BY <1>7
  <2> QED BY <1>3, <1>4, <2>1, NobodysTurn DEF UrlsInv, FreshChats
<1>11. ASSUME NEW c \in chats' \ mixed' PROVE MapKept(c)'
  <2>1. c \in chats \ mixed /\ c \in Chats /\ MapKept(c) /\ latest'[c] = latest[c]
    BY <1>3, <1>11 DEF UrlsInv, UrlsTypeOK
  <2>2. CASE c # t
    <3>1. stored'[c] = stored[c]
      BY <1>7, <2>1, <2>2
    <3>2. \A m \in Turns : \/ turn'[m] = turn[m]
                           \/ /\ turn[m].pc \notin {"read", "write"} \/ turn[m].chat # c
                              /\ turn'[m].pc \notin {"read", "write"} \/ turn'[m].chat # c
      BY <1>4, <2>2, NobodysTurn
    <3> QED BY <2>1, <3>1, <3>2, KeptQuietly
  <2>3. CASE c = t
    <3>1. n \in Persisting(c) /\ KnowsMap(n)
      BY <1>1, <2>1, <2>3 DEF MapKept, Persisting
    <3>2. /\ turn[n].url = latest[c][p] /\ turn[n].map = stored[c]
          /\ \A m \in Persisting(c) : turn[m].pc = "write" => m = n
      BY <1>1, <2>3, <3>1 DEF KnowsMap
    <3>3. \A q \in Providers : stored'[c][q] = IF q = p THEN latest[c][p] ELSE stored[c][q]
      BY <1>2, <1>7, <2>1, <2>3, <3>2 DEF UrlMaps
    <3>4. Persisting(c)' = Persisting(c) \ {n}
      BY <1>4, NobodysTurn DEF Persisting
    <3>5. \A m \in Persisting(c)' : turn'[m] = turn[m] /\ turn[m].pc = "read" /\ turn[m].chat = c
      BY <1>4, <3>2, <3>4 DEF Persisting
    <3>6. ASSUME NEW q \in Providers
          PROVE  \/ stored'[c][q] = latest'[c][q]
                 \/ \E m \in Persisting(c)' : turn'[m].provider = q
      BY <2>1, <3>3, <3>4, <3>5 DEF MapKept
    <3>7. \A m \in Persisting(c)' : KnowsMap(m)'
      BY <2>1, <3>4, <3>5 DEF MapKept, KnowsMap
    <3> QED BY <3>6, <3>7 DEF MapKept
  <2> QED BY <2>2, <2>3
<1> QED BY <1>8, <1>9, <1>10, <1>11 DEF UrlsInv

LEMMA NextUrls == UrlsInv /\ [ConversationNext]_conversationVars => UrlsInv'
<1> SUFFICES ASSUME UrlsInv, [ConversationNext]_conversationVars
             PROVE  UrlsInv'
  OBVIOUS
<1>1. ASSUME NEW t \in Chats, NEW P \in SUBSET Providers \ {{}}, RequestTurn(t, P)
      PROVE  UrlsInv'
  BY <1>1, RequestKeeps
<1>2. ASSUME NEW t \in Chats, DeleteChat(t) PROVE UrlsInv'
  BY <1>2, DeleteKeeps
<1>3. ASSUME NEW n \in Turns,
             \/ ResolveUrl(n) \/ RunTurn(n) \/ Answered(n)
             \/ ReadMap(n) \/ WriteMap(n) \/ PersistFails(n)
      PROVE  UrlsInv'
  BY <1>3, ResolveKeeps, RunKeeps, AnswerKeeps, ReadKeeps, WriteKeeps, FailKeeps
<1>4. CASE UNCHANGED conversationVars
  BY <1>4 DEF conversationVars, threadVars, UrlsInv, UrlsTypeOK, OneHolder, Holding, FreshChats,
              MapKept, KnowsMap, Persisting
<1> QED BY <1>1, <1>2, <1>3, <1>4 DEF ConversationNext

\* persistThreadConversationUrl replaces the map of all providers, read before: once
\* no job of a thread persists, every provider is continued at the URL captured last
\* (chatJobProcessor.ts), for any threads, providers and turns; the threads two jobs
\* were about to write at once, or one failed to write, or two jobs of a provider were at
\* work for after a lapse of the lock, are excepted.
THEOREM UrlsSafety == ConversationSpec => []UrlsKept
<1>1. ConversationSpec => []UrlsInv
  BY InitUrls, NextUrls, PTL DEF ConversationSpec
<1> QED BY <1>1, UrlsInvKept, PTL

-----------------------------------------------------------------------------
(* The answer of the endpoint and its usage row.                            *)

RowStates == {"completed", "failed", "rate_limited", "cancelled", "timeout", "client_disconnected"}

Lines == {"off", "on", "leaving", "closed"}
Timers == {"armed", "cleared", "fired"}
Codes == {0, 200, 499, 500, 504}
Late == Failing \cup {"done", "cancelled", "timeout", "close"}

Flags == BOOLEAN

HandlerStates ==
    [error : BOOLEAN, text : Flags, completed : Flags, line : Lines, timer : Timers,
     reply : Codes, writes : SUBSET RowStates, replayed : Flags, after : SUBSET Late]

\* The answers that decide what the row says.
Decides(h) == h.reply # 0 /\ (h.after = {} \/ (mode = "json" /\ h.reply \in {500, 504}))

\* What the handler's callback keeps.
HandlerOK(h) ==
    /\ h \in HandlerStates
    /\ h.timer = "armed" => mode = "json" /\ h.reply = 0
    /\ mode = "json" => /\ h.reply = 0 => h.writes = {}
                        /\ h.reply \in {500, 504} => h.error
    /\ mode = "sse" => (h.reply = 0 /\ h.after = {} => h.writes = {})
    /\ Decides(h) => \A w \in h.writes : RowFor(h.reply, w)

\* A callback that writes no row has told the client nothing either.
Follows(h, g) == h.writes = {} => g.writes = {} /\ h.reply = g.reply /\ h.after = g.after

\* The inductive invariant.
CompletionInv ==
    /\ mode \in {"json", "sse"} /\ told \in Nat
    /\ call = "idle" => /\ reply = 0 /\ writes = {} /\ after = {} /\ timer = "cleared"
                       /\ line = "off" /\ queue = <<>>
    /\ HandlerOK(Now)
    /\ RowAgrees

LEMMA RepliesOK ==
  ASSUME NEW h, HandlerOK(h), mode \in {"json", "sse"}, mode = "json" => ~h.error,
         NEW code \in {200, 499, 500}, NEW e, NEW g \in HandlerStates,
         \/ code = 500 /\ e \in Failing /\ (mode = "json" => g.error)
         \/ code = 200 /\ e = "done"
         \/ code = 499 /\ e \in {"cancelled", "timeout"} /\ mode = "sse",
         mode = "json" => g.timer = "cleared",
         mode = "sse" => g.timer = h.timer,
         LET r == Replies(h, code, e)
         IN  g.reply = r.reply /\ g.writes = r.writes /\ g.after = r.after
  PROVE  HandlerOK(g) /\ Follows(g, h)
<1> DEFINE s == StatusFor(e)
<1>1. s \in RowStates /\ RowFor(code, s)
  <2>1. CASE code = 500 /\ e \in Failing
    <3>1. s = IF e = "rate_limited" THEN "rate_limited" ELSE "failed"
      BY <2>1 DEF StatusFor, Failing
    <3> QED BY <2>1, <3>1 DEF RowStates, RowFor
  <2>2. CASE code = 200 /\ e = "done"
    <3>1. s = "completed"
      BY <2>2 DEF StatusFor
    <3> QED BY <2>2, <3>1 DEF RowStates, RowFor
  <2>3. CASE code = 499 /\ e \in {"cancelled", "timeout"}
    <3>1. s = e
      BY <2>3 DEF StatusFor
    <3> QED BY <2>3, <3>1 DEF RowStates, RowFor
  <2> QED BY <2>1, <2>2, <2>3
<1>2. h \in HandlerStates
  BY DEF HandlerOK
<1>3. /\ g.reply = IF h.reply = 0 THEN code ELSE h.reply
      /\ g.writes = h.writes \cup {s}
      /\ g.after = IF h.reply = 0 THEN h.after ELSE h.after \cup {e}
  BY <1>2 DEF Replies, HandlerStates
<1> HIDE DEF s
<1>4. g.writes # {}
  BY <1>3
<1>5. CASE h.reply = 0
  <2>1. g.reply = code /\ g.after = h.after
    BY <1>3, <1>5
  <2>2. Decides(g) => h.writes = {}
    BY <1>5, <2>1 DEF HandlerOK, Decides
  <2>3. Decides(g) => \A w \in g.writes : RowFor(g.reply, w)
    BY <1>1, <1>3, <2>1, <2>2
  <2>4. g.timer # "armed"
    BY <1>2 DEF HandlerOK
  <2> QED BY <1>4, <2>1, <2>3, <2>4 DEF HandlerOK, Follows
<1>6. CASE h.reply # 0
  <2>1. g.reply = h.reply /\ g.after # {} /\ g.reply # 0
    BY <1>3, <1>6
  <2>2. ~Decides(g)
    BY <2>1 DEF HandlerOK, Decides
  <2>3. g.timer # "armed"
    BY <1>2, <1>6 DEF HandlerOK
  <2>4. mode = "json" => g.reply \notin {500, 504}
    BY <2>1 DEF HandlerOK
  <2> QED BY <1>4, <2>1, <2>2, <2>3, <2>4 DEF HandlerOK, Follows
<1> QED BY <1>5, <1>6

Written(h, c, w, a, l, b) ==
    [h EXCEPT !.reply = c, !.writes = w, !.after = a, !.line = l, !.replayed = b]
Closed(h) == [h EXCEPT !.completed = TRUE]

LEMMA HandlerFields ==
  ASSUME NEW h \in HandlerStates, NEW c \in Codes, NEW w \in SUBSET RowStates,
         NEW a \in SUBSET Late, NEW l \in Lines, NEW b \in Flags
  PROVE  Written(h, c, w, a, l, b) \in HandlerStates /\ Written(h, c, w, a, l, b).timer = h.timer
<1> DEFINE g == [h EXCEPT !.reply = c, !.writes = w, !.after = a, !.line = l, !.replayed = b]
<1>1. g \in HandlerStates
  BY DEF HandlerStates
<1>2. g.timer = h.timer
  BY DEF HandlerStates
<1> QED BY <1>1, <1>2 DEF Written

LEMMA RepliesType ==
  ASSUME NEW h \in HandlerStates, NEW code \in {200, 499, 500},
         NEW e \in Failing \cup {"done", "cancelled", "timeout"}
  PROVE  Replies(h, code, e) \in HandlerStates /\ Replies(h, code, e).timer = h.timer
<1>1. StatusFor(e) \in RowStates
  BY DEF StatusFor, RowStates, Failing
<1>2. Released(h.line) \in Lines
  BY DEF Released, HandlerStates, Lines
<1> DEFINE c == IF h.reply = 0 THEN code ELSE h.reply
           w == h.writes \cup {StatusFor(e)}
           a == IF h.reply = 0 THEN h.after ELSE h.after \cup {e}
           l == Released(h.line)
           b == ~Hold
<1>3. b \in Flags
  BY DEF Hold, Flags
<1>4. a \in SUBSET Late
  BY DEF HandlerStates, Late
<1>5. c \in Codes
  BY DEF HandlerStates, Codes
<1>6. w \in SUBSET RowStates
  BY <1>1 DEF HandlerStates, Flags
<1>7. Replies(h, code, e) = Written(h, c, w, a, l, b)
  BY DEF Replies, Written, HandlerStates
<1> HIDE DEF a, b, c, w, l
<1>8. l \in Lines
  BY <1>2 DEF l
<1> QED BY <1>3, <1>4, <1>5, <1>6, <1>7, <1>8, HandlerFields

\* The callback keeps what it keeps, whatever the event.
LEMMA HandlesOK ==
  ASSUME NEW h, HandlerOK(h), mode \in {"json", "sse"}, NEW e
  PROVE  HandlerOK(Handles(h, e)) /\ Follows(Handles(h, e), h)
<1>1. h \in HandlerStates
  BY DEF HandlerOK
<1>2. Follows(h, h)
  BY DEF Follows
<1>3. HandlerOK([h EXCEPT !.text = TRUE]) /\ Follows([h EXCEPT !.text = TRUE], h)
  <2> DEFINE g == [h EXCEPT !.text = TRUE]
  <2>1. /\ g \in HandlerStates /\ g.timer = h.timer /\ g.reply = h.reply /\ g.error = h.error
        /\ g.writes = h.writes /\ g.after = h.after
    BY <1>1 DEF HandlerStates, Flags
  <2> HIDE DEF g
  <2>2. HandlerOK(g) /\ Follows(g, h)
    BY <2>1 DEF HandlerOK, Follows, Decides
  <2> QED BY <2>2 DEF g
<1>4. CASE mode = "json"
  <2>1. CASE h.error
    <3>1. Handles(h, e) = h
      BY <1>4, <2>1 DEF Handles, JsonHandles
    <3> QED BY <1>2, <3>1
  <2>2. CASE ~h.error /\ e = "message_complete"
    <3>1. Handles(h, e) = [h EXCEPT !.text = TRUE]
      BY <1>4, <2>2 DEF Handles, JsonHandles, Failing
    <3> QED BY <1>3, <3>1
  <2>3. CASE ~h.error /\ e \in Failing
    <3> DEFINE r == Replies(h, 500, e)
               g == [r EXCEPT !.error = TRUE, !.timer = "cleared"]
    <3>1. r \in HandlerStates
      BY <1>1, <2>3, RepliesType
    <3>2. Handles(h, e) = g
      BY <1>4, <2>3 DEF Handles, JsonHandles, Failing
    <3> HIDE DEF r
    <3>3. g \in HandlerStates /\ g.error /\ g.timer = "cleared" /\ g.reply = r.reply
          /\ g.writes = r.writes /\ g.after = r.after
      BY <3>1 DEF HandlerStates, Timers
    <3> HIDE DEF g
    <3> USE DEF r
    <3> QED BY <1>4, <2>3, <3>2, <3>3, RepliesOK
  <2>4. CASE ~h.error /\ e = "done"
    <3> DEFINE r == Replies(h, 200, e)
               g == [r EXCEPT !.timer = "cleared"]
    <3>1. r \in HandlerStates
      BY <1>1, <2>4, RepliesType
    <3>2. Handles(h, e) = g
      BY <1>4, <2>4 DEF Handles, JsonHandles, Failing
    <3> HIDE DEF r
    <3>3. g \in HandlerStates /\ g.timer = "cleared" /\ g.reply = r.reply
          /\ g.writes = r.writes /\ g.after = r.after
      BY <3>1 DEF HandlerStates, Timers
    <3> HIDE DEF g
    <3> USE DEF r
    <3> QED BY <1>4, <2>4, <3>2, <3>3, RepliesOK
  <2>5. CASE ~h.error /\ e # "message_complete" /\ e \notin Failing /\ e # "done"
    <3>1. Handles(h, e) = h
      BY <1>4, <2>5 DEF Handles, JsonHandles
    <3> QED BY <1>2, <3>1
  <2> QED BY <2>1, <2>2, <2>3, <2>4, <2>5
<1>5. CASE mode = "sse"
  <2>1. CASE e = "message_delta"
    <3>1. Handles(h, e) = [h EXCEPT !.text = TRUE]
      BY <1>5, <2>1 DEF Handles, SseHandles, Failing
    <3> QED BY <1>3, <3>1
  <2>2. ASSUME NEW code \in {200, 499, 500}, e \in Failing \cup {"done", "cancelled", "timeout"},
               \/ code = 500 /\ e \in Failing
               \/ code = 200 /\ e = "done"
               \/ code = 499 /\ e \in {"cancelled", "timeout"}
        PROVE  HandlerOK(Closed(Replies(h, code, e))) /\ Follows(Closed(Replies(h, code, e)), h)
    <3> DEFINE r == Replies(h, code, e)
               g == Closed(r)
    <3>1. r \in HandlerStates /\ r.timer = h.timer
      BY <1>1, <2>2, RepliesType
    <3> HIDE DEF r
    <3>2. g \in HandlerStates /\ g.timer = h.timer /\ g.reply = r.reply
          /\ g.writes = r.writes /\ g.after = r.after
      BY <3>1 DEF HandlerStates, Flags, Closed
    <3> HIDE DEF g
    <3>3. HandlerOK(g) /\ Follows(g, h)
      BY <1>5, <2>2, <3>2, RepliesOK DEF r
    <3> QED BY <3>3 DEF g, r
  <2>3. CASE e \in Failing
    <3>1. Handles(h, e) = Closed(Replies(h, 500, e))
      BY <1>5, <2>3 DEF Handles, SseHandles, Failing, Closed
    <3>2. e \in Failing \cup {"done", "cancelled", "timeout"}
      BY <2>3
    <3> QED BY <2>2, <2>3, <3>1, <3>2
  <2>4. CASE e = "done"
    <3>1. Handles(h, e) = Closed(Replies(h, 200, e))
      BY <1>5, <2>4 DEF Handles, SseHandles, Failing, Closed
    <3>2. e \in Failing \cup {"done", "cancelled", "timeout"}
      BY <2>4
    <3> QED BY <2>2, <2>4, <3>1, <3>2
  <2>5. CASE e \in {"cancelled", "timeout"}
    <3>1. Handles(h, e) = Closed(Replies(h, 499, e))
      BY <1>5, <2>5 DEF Handles, SseHandles, Failing, Closed
    <3>2. e \in Failing \cup {"done", "cancelled", "timeout"}
      BY <2>5
    <3> QED BY <2>2, <2>5, <3>1, <3>2
  <2>6. CASE ~(e = "message_delta" \/ e \in Failing \/ e = "done" \/ e \in {"cancelled", "timeout"})
    <3>1. Handles(h, e) = h
      BY <1>5, <2>6 DEF Handles, SseHandles
    <3> QED BY <1>2, <3>1
  <2> QED BY <2>1, <2>3, <2>4, <2>5, <2>6
<1> QED BY <1>4, <1>5

-----------------------------------------------------------------------------
(* The replay: the callback, folded over the events of the list.            *)

IsReplay(h, m) == h = [n \in 0..m |-> IF n = 0 THEN Now ELSE Handles(h[n - 1], events[n])]

LEMMA ReplayExists == \A m \in Nat : \E h : IsReplay(h, m)
<1> DEFINE S == {m \in Nat : \E h : IsReplay(h, m)}
<1>1. 0 \in S
  <2> DEFINE h == [n \in 0..0 |-> Now]
  <2>1. h = [n \in 0..0 |-> IF n = 0 THEN Now ELSE Handles(h[n - 1], events[n])]
    OBVIOUS
  <2> QED BY <2>1 DEF IsReplay
<1>2. ASSUME NEW m \in Nat, m \in S PROVE m + 1 \in S
  <2>1. PICK h : IsReplay(h, m)
    BY <1>2
  <2> DEFINE g == [n \in 0..(m + 1) |-> IF n = m + 1 THEN Handles(h[m], events[m + 1]) ELSE h[n]]
  <2>2. ASSUME NEW n \in 0..(m + 1)
        PROVE  g[n] = IF n = 0 THEN Now ELSE Handles(g[n - 1], events[n])
    <3>1. CASE n = m + 1
      <4>1. g[n] = Handles(h[m], events[m + 1]) /\ g[n - 1] = h[m] /\ n # 0
        BY <3>1
      <4> QED BY <3>1, <4>1
    <3>2. CASE n \in 0..m
      <4>1. g[n] = h[n] /\ (n # 0 => g[n - 1] = h[n - 1])
        BY <3>2
      <4>2. h[n] = IF n = 0 THEN Now ELSE Handles(h[n - 1], events[n])
        BY <2>1, <3>2 DEF IsReplay
      <4> QED BY <4>1, <4>2
    <3> QED BY <3>1, <3>2
  <2>3. g = [n \in 0..(m + 1) |-> g[n]]
    OBVIOUS
  <2> HIDE DEF g
  <2>4. IsReplay(g, m + 1)
    BY <2>2, <2>3 DEF IsReplay
  <2> QED BY <2>4
<1> HIDE DEF S
<1>3. Nat \subseteq S
  BY <1>1, <1>2, NatInduct
<1> QED BY <1>3 DEF S

LEMMA ReplayOK ==
  ASSUME NEW h, NEW m \in Nat, IsReplay(h, m), HandlerOK(Now), mode \in {"json", "sse"}
  PROVE  \A n \in 0..m : HandlerOK(h[n]) /\ Follows(h[n], Now)
<1> DEFINE S == {n \in Nat : n <= m => HandlerOK(h[n]) /\ Follows(h[n], Now)}
<1>1. 0 \in S
  <2>1. h[0] = Now
    BY DEF IsReplay
  <2> QED BY <2>1 DEF Follows
<1>2. ASSUME NEW n \in Nat, n \in S PROVE n + 1 \in S
  <2> SUFFICES ASSUME n + 1 <= m PROVE HandlerOK(h[n + 1]) /\ Follows(h[n + 1], Now)
    OBVIOUS
  <2>1. h[n + 1] = Handles(h[n], events[n + 1])
    BY DEF IsReplay
  <2>2. HandlerOK(h[n]) /\ Follows(h[n], Now)
    BY <1>2
  <2>3. HandlerOK(h[n + 1]) /\ Follows(h[n + 1], h[n])
    BY <2>1, <2>2, HandlesOK
  <2> QED BY <2>2, <2>3 DEF Follows
<1> HIDE DEF S
<1>3. Nat \subseteq S
  BY <1>1, <1>2, NatInduct
<1> QED BY <1>3 DEF S

LEMMA ReplayFolds ==
  ASSUME Replay, told \in Nat
  PROVE  \E h : IsReplay(h, told) /\ Becomes(h[told])
<1> DEFINE f[n \in 0..told] == IF n = 0 THEN Now ELSE Handles(f[n - 1], events[n])
<1>1. IsReplay(f, told)
  BY ReplayExists DEF IsReplay
<1>2. Becomes(f[told])
  BY DEF Replay
<1> QED BY <1>1, <1>2

-----------------------------------------------------------------------------
(* The steps.                                                               *)

\* Now as the sum of the variables.
LEMMA NowIs ==
  /\ Now.error = hasError /\ Now.reply = reply /\ Now.writes = writes /\ Now.after = after
  /\ Now.timer = timer /\ Now.line = line /\ Now.text = hasText
  /\ Now.completed = hasCompleted /\ Now.replayed = replayed
BY DEF Now

LEMMA NowNext ==
  /\ Now'.error = hasError' /\ Now'.reply = reply' /\ Now'.writes = writes' /\ Now'.after = after'
  /\ Now'.timer = timer' /\ Now'.line = line' /\ Now'.text = hasText'
  /\ Now'.completed = hasCompleted' /\ Now'.replayed = replayed'
BY DEF Now

\* Steps that only move events, or the subscriber.
LEMMA QuietlyOK ==
  ASSUME CompletionInv, UNCHANGED <<mode, flagVars, timer, reply, writes, row, replayed, after>>,
         line' \in Lines, told' \in Nat,
         call' = "idle" => call = "idle" /\ line' = "off" /\ queue' = <<>>
  PROVE  CompletionInv'
<1>1. HandlerOK(Now)'
  <2>1. Now' = [Now EXCEPT !.line = line']
    BY DEF Now, flagVars
  <2>2. Now \in HandlerStates
    BY DEF CompletionInv, HandlerOK
  <2>3. Now' \in HandlerStates
    BY <2>1, <2>2 DEF HandlerStates, Flags
  <2> QED BY <2>3, NowIs, NowNext DEF CompletionInv, HandlerOK, Decides, flagVars
<1>2. RowAgrees'
  BY DEF CompletionInv, RowAgrees
<1> QED BY <1>1, <1>2 DEF CompletionInv

\* The callback has run, once or for each event of the list.
LEMMA BecomesOK ==
  ASSUME CompletionInv, NEW h, HandlerOK(h), Follows(h, Now), Becomes(h),
         UNCHANGED <<mode, row, told>>, call' # "idle"
  PROVE  CompletionInv'
<1>1. Now' = h
  <2>1. h \in HandlerStates
    BY DEF HandlerOK
  <2> QED BY <2>1 DEF Now, Becomes, HandlerStates
<1>2. HandlerOK(Now)'
  BY <1>1 DEF HandlerOK, Decides
<1>3. RowAgrees'
  <2> SUFFICES ASSUME reply' # 0, writes' = {},
                      after' = {} \/ (mode' = "json" /\ reply' \in {500, 504})
               PROVE  RowFor(reply', row')
    BY DEF RowAgrees
  <2>1. h.writes = {} /\ h.reply = reply' /\ h.after = after'
    BY <1>1, NowNext
  <2>2. writes = {} /\ reply' = reply /\ after' = after
    BY <2>1, NowIs DEF Follows
  <2> QED BY <2>2 DEF CompletionInv, RowAgrees
<1> QED BY <1>2, <1>3 DEF CompletionInv

LEMMA InitCompletion == CompletionInit => CompletionInv
<1> SUFFICES ASSUME CompletionInit PROVE CompletionInv
  OBVIOUS
<1>1. Now \in HandlerStates
  BY DEF CompletionInit, Now, HandlerStates, Flags, Lines, Timers, Codes
<1>2. HandlerOK(Now)
  BY <1>1, NowIs DEF CompletionInit, HandlerOK, Decides
<1> QED BY <1>2 DEF CompletionInit, CompletionInv, RowAgrees

LEMMA AwaitKeeps ==
  ASSUME CompletionInv, NEW m \in {"json", "sse"}, NEW es \in Outcomes, Await(m, es)
  PROVE  CompletionInv'
<1>1. /\ reply' = 0 /\ writes' = {} /\ after' = {} /\ mode' = m /\ call' = "replay" /\ told' = told
      /\ UNCHANGED <<hasError, hasText, hasCompleted, line, replayed>>
      /\ timer' = IF m = "json" THEN "armed" ELSE "cleared"
  BY DEF Await, CompletionInv, flagVars
<1>2. Now \in HandlerStates
  BY DEF CompletionInv, HandlerOK
<1>3. Now' \in HandlerStates
  BY <1>1, <1>2 DEF Now, HandlerStates, Timers, Codes
<1>4. HandlerOK(Now)'
  BY <1>1, <1>3, NowNext DEF HandlerOK, Decides
<1> QED BY <1>1, <1>4 DEF CompletionInv, RowAgrees

LEMMA TimeOutKeeps ==
  ASSUME CompletionInv, TimeOutAnswer
  PROVE  CompletionInv'
<1>1. mode = "json" /\ reply = 0 /\ writes = {}
  BY NowIs DEF TimeOutAnswer, CompletionInv, HandlerOK
<1>2. /\ mode' = mode /\ told' = told /\ call' = call /\ reply' = 504 /\ writes' = {"timeout"}
      /\ timer' = "fired" /\ hasError' = TRUE /\ line' = Released(line)
      /\ UNCHANGED <<hasText, hasCompleted, replayed, after, row>>
  BY <1>1 DEF TimeOutAnswer, jobVars
<1>3. Now \in HandlerStates
  BY DEF CompletionInv, HandlerOK
<1>4. line' \in Lines
  BY <1>2, <1>3 DEF Released, HandlerStates, Now, Lines
<1>5. Now' \in HandlerStates
  BY <1>2, <1>3, <1>4 DEF Now, HandlerStates, Flags, RowStates, Timers, Codes
<1>6. HandlerOK(Now)'
  BY <1>1, <1>2, <1>5, NowNext DEF HandlerOK, RowFor
<1>7. call # "idle"
  BY <1>2, <1>1 DEF CompletionInv, TimeOutAnswer
<1> QED BY <1>2, <1>6, <1>7 DEF CompletionInv, RowAgrees

LEMMA LeavesKeeps ==
  ASSUME CompletionInv, ClientLeaves
  PROVE  CompletionInv'
<1>1. /\ mode = "sse" /\ call = "none"
      /\ UNCHANGED <<mode, told, call, hasError, hasText, hasCompleted, timer, reply, row, replayed>>
  BY DEF ClientLeaves, Hold, jobVars, flagVars
<1>2. Now \in HandlerStates
  BY DEF CompletionInv, HandlerOK
<1>3. line' \in Lines
  BY <1>2 DEF ClientLeaves, Released, HandlerStates, Now, Lines
<1>4. CASE hasCompleted
  BY <1>1, <1>3, <1>4, QuietlyOK DEF ClientLeaves, flagVars, CompletionInv
<1>5. CASE ~hasCompleted
  <2>1. writes' = writes \cup {"client_disconnected"} /\ after' = after \cup {"close"}
    BY <1>5 DEF ClientLeaves
  <2>2. Now' \in HandlerStates
    BY <1>1, <1>2, <1>3, <2>1 DEF Now, HandlerStates, RowStates, Late
  <2>3. HandlerOK(Now)'
    BY <1>1, <2>1, <2>2, NowIs, NowNext DEF CompletionInv, HandlerOK, Decides
  <2> QED BY <1>1, <2>1, <2>3 DEF CompletionInv, RowAgrees
<1> QED BY <1>4, <1>5

LEMMA LandsKeeps ==
  ASSUME CompletionInv, WriteLands
  PROVE  CompletionInv'
<1>1. PICK s \in writes : row' = s /\ writes' = writes \ {s}
  BY DEF WriteLands
<1>2. UNCHANGED <<mode, told, call, line, hasError, hasText, hasCompleted, timer, reply, replayed,
                  after>>
  BY DEF WriteLands, jobVars, flagVars
<1>3. Now \in HandlerStates
  BY DEF CompletionInv, HandlerOK
<1>4. Now' \in HandlerStates
  BY <1>1, <1>2, <1>3 DEF Now, HandlerStates
<1>5. HandlerOK(Now)'
  BY <1>1, <1>2, <1>4, NowIs, NowNext DEF CompletionInv, HandlerOK, Decides
<1>6. RowAgrees'
  BY <1>1, <1>2, NowIs DEF CompletionInv, HandlerOK, Decides, RowAgrees
<1> QED BY <1>1, <1>2, <1>5, <1>6 DEF CompletionInv

LEMMA NextCompletion == CompletionInv /\ [CompletionNext]_completionVars => CompletionInv'
<1> SUFFICES ASSUME CompletionInv, [CompletionNext]_completionVars
             PROVE  CompletionInv'
  OBVIOUS
<1>1. ASSUME NEW m \in {"json", "sse"}, NEW es \in Outcomes, Await(m, es) PROVE CompletionInv'
  BY <1>1, AwaitKeeps
<1>2. line \in Lines /\ told \in Nat
  BY DEF CompletionInv, HandlerOK, HandlerStates, Now
<1>3. CASE PublishOutcome
  BY <1>2, <1>3, QuietlyOK DEF PublishOutcome, CompletionInv, Lines, jobVars, flagVars
<1>4. CASE Replay
  <2>1. PICK h : IsReplay(h, told) /\ Becomes(h[told])
    BY <1>2, <1>4, ReplayFolds
  <2>2. HandlerOK(h[told]) /\ Follows(h[told], Now)
    BY <1>2, <2>1, ReplayOK DEF CompletionInv
  <2>3. UNCHANGED <<mode, row, told>> /\ call' # "idle"
    BY <1>4 DEF Replay, jobVars
  <2> QED BY <2>1, <2>2, <2>3, BecomesOK
<1>5. CASE JoinChannel
  BY <1>2, <1>5, QuietlyOK DEF JoinChannel, CompletionInv, Lines, jobVars, flagVars
<1>6. CASE GetHandle
  BY <1>2, <1>6, QuietlyOK DEF GetHandle, CompletionInv, Lines, jobVars, flagVars
<1>7. CASE Hear
  <2>1. HandlerOK(Handles(Now, Head(queue))) /\ Follows(Handles(Now, Head(queue)), Now)
    BY HandlesOK DEF CompletionInv
  <2>2. Becomes(Handles(Now, Head(queue))) /\ UNCHANGED <<mode, row, told>>
    BY <1>7 DEF Hear, jobVars
  <2>3. call' # "idle"
    BY <1>7 DEF Hear, CompletionInv
  <2> QED BY <2>1, <2>2, <2>3, BecomesOK
<1>8. CASE Disconnected
  BY <1>2, <1>8, QuietlyOK DEF Disconnected, CompletionInv, Lines, jobVars, flagVars
<1>9. CASE TimeOutAnswer
  BY <1>9, TimeOutKeeps
<1>10. CASE ClientLeaves
  BY <1>10, LeavesKeeps
<1>11. CASE WriteLands
  BY <1>11, LandsKeeps
<1>12. CASE UNCHANGED completionVars
  BY <1>2, <1>12, QuietlyOK DEF completionVars, CompletionInv, jobVars, flagVars
<1> QED BY <1>1, <1>3, <1>4, <1>5, <1>6, <1>7, <1>8, <1>9, <1>10, <1>11, <1>12
        DEF CompletionNext

\* What the usage page says of a request to the endpoint for programs agrees with what
\* its client was told (completeUsageSuccess, completeUsageError in openaiCompat.ts),
\* whatever the job published, in whatever order the unawaited writes land.
THEOREM RowSafety == CompletionSpec => []RowAgrees
<1>1. CompletionInit /\ [][CompletionNext]_completionVars => []CompletionInv
  BY InitCompletion, NextCompletion, PTL
<1>2. CompletionInv => RowAgrees
  BY DEF CompletionInv
<1> QED BY <1>1, <1>2, PTL DEF CompletionSpec

-----------------------------------------------------------------------------
(* The adapters' polling loop.                                             *)

Strings == Seq(Chunks)

LEMMA PrefixIs ==
  ASSUME NEW s \in Strings, NEW t \in Strings
  PROVE  IsPrefix(s, t) <=> Len(s) <= Len(t) /\ \A i \in 1..Len(s) : s[i] = t[i]
<1>1. ASSUME Len(s) <= Len(t)
      PROVE  SubSeq(s, 1, Len(s)) = SubSeq(t, 1, Len(s)) <=> \A i \in 1..Len(s) : s[i] = t[i]
  <2>1. /\ Len(s) \in Nat /\ Len(t) \in Nat
    BY LenProperties DEF Strings
  <2>2. \A i \in 1..Len(s) : i \in 1..Len(t)
    BY <1>1, <2>1
  <2>3. /\ SubSeq(s, 1, Len(s)) = [i \in 1..Len(s) |-> s[i]]
        /\ SubSeq(t, 1, Len(s)) = [i \in 1..Len(s) |-> t[i]]
    BY <2>1
  <2> QED BY <2>3
<1> QED BY <1>1 DEF IsPrefix

LEMMA Trivial ==
  ASSUME NEW s \in Strings
  PROVE  IsPrefix(s, s) /\ IsPrefix(<<>>, s) /\ <<>> \in Strings /\ Len(<<>>) = 0
<1>1. <<>> \in Strings /\ Len(<<>>) = 0
  BY EmptySeq DEF Strings
<1>2. Len(s) \in Nat
  BY LenProperties DEF Strings
<1>3. IsPrefix(s, s)
  BY <1>2, PrefixIs
<1>4. \A i \in 1..Len(<<>>) : <<>>[i] = s[i]
  BY <1>1
<1>5. Len(<<>>) <= Len(s)
  BY <1>1, <1>2
<1>6. IsPrefix(<<>>, s)
  BY <1>1, <1>4, <1>5, PrefixIs
<1> QED BY <1>1, <1>3, <1>6

LEMMA Beginning ==
  ASSUME NEW t \in Strings, NEW n \in 1..Len(t)
  PROVE  /\ SubSeq(t, 1, n) \in Strings /\ Len(SubSeq(t, 1, n)) = n /\ SubSeq(t, 1, n) # <<>>
         /\ \A i \in 1..n : SubSeq(t, 1, n)[i] = t[i]
         /\ IsPrefix(SubSeq(t, 1, n), t)
<1>1. Len(t) \in Nat
  BY LenProperties DEF Strings
<1>2. /\ SubSeq(t, 1, n) \in Strings /\ Len(SubSeq(t, 1, n)) = n
      /\ \A i \in 1..n : SubSeq(t, 1, n)[i] = t[i]
  BY <1>1, SubSeqProperties DEF Strings
<1>3. SubSeq(t, 1, n) # <<>>
  BY <1>1, <1>2
<1>4. n <= Len(t)
  BY <1>1
<1> QED BY <1>2, <1>3, <1>4, PrefixIs

\* What was read of an answer begins what it has grown to.
LEMMA Grown ==
  ASSUME NEW t \in Strings, NEW p \in Strings, NEW l \in Strings, NEW n \in 1..Len(t),
         IsPrefix(p, t), IsPrefix(l, p), n > Len(p)
  PROVE  IsPrefix(l, SubSeq(t, 1, n)) /\ SubSeq(t, 1, n) # l
<1>1. /\ Len(t) \in Nat /\ Len(p) \in Nat /\ Len(l) \in Nat
  BY LenProperties DEF Strings
<1>2. /\ Len(l) <= Len(p) /\ \A i \in 1..Len(l) : l[i] = p[i]
      /\ Len(p) <= Len(t) /\ \A i \in 1..Len(p) : p[i] = t[i]
  BY PrefixIs
<1>3. /\ SubSeq(t, 1, n) \in Strings /\ Len(SubSeq(t, 1, n)) = n
      /\ \A i \in 1..n : SubSeq(t, 1, n)[i] = t[i]
  BY Beginning
<1>4. Len(l) <= n /\ Len(l) # n /\ \A i \in 1..Len(l) : i \in 1..n /\ i \in 1..Len(p)
  BY <1>1, <1>2
<1>5. \A i \in 1..Len(l) : l[i] = SubSeq(t, 1, n)[i]
  BY <1>2, <1>3, <1>4
<1>6. IsPrefix(l, SubSeq(t, 1, n))
  BY <1>3, <1>4, <1>5, PrefixIs
<1> QED BY <1>3, <1>4, <1>6

\* What was read, and the delta, make the text.
LEMMA DeltaCompletes ==
  ASSUME NEW l \in Strings, NEW p \in Strings, IsPrefix(l, p)
  PROVE  l \o SubSeq(p, Len(l) + 1, Len(p)) = p
<1>1. /\ Len(p) \in Nat /\ Len(l) \in Nat
  BY LenProperties DEF Strings
<1>2. Len(l) <= Len(p) /\ SubSeq(l, 1, Len(l)) = SubSeq(p, 1, Len(l))
  BY DEF IsPrefix
<1>3. SubSeq(l, 1, Len(l)) = l /\ SubSeq(p, 1, Len(p)) = p
  BY SubSeqFull DEF Strings
<1>4. 1 \in 1..(Len(p) + 1) /\ Len(l) \in (1 - 1)..Len(p) /\ Len(p) \in Len(l)..Len(p)
  BY <1>1, <1>2
<1>5. SubSeq(p, 1, Len(l)) \o SubSeq(p, Len(l) + 1, Len(p)) = SubSeq(p, 1, Len(p))
  BY <1>4, ConcatAdjacentSubSeq DEF Strings
<1> QED BY <1>2, <1>3, <1>5

-----------------------------------------------------------------------------

Beginnings == {"idle", "login", "limit", "composer", "attach", "before"}
Polls == {"poll", "wall", "signs", "read", "judge"}

\* The answer passes through the text of the one before it.
PassesThrough == before # <<>> /\ IsPrefix(before, target)

AnswerTypes ==
    /\ at \in Beginnings \cup Polls \cup {"ended"}
    /\ gemini \in Flags /\ begun \in Flags
    /\ target \in Strings /\ above \in Strings /\ page \in Strings
    /\ before \in Strings /\ lastText \in Strings /\ deltas \in Strings
    /\ quiet \in Nat /\ polls \in Nat /\ lastChangeAt \in Nat
    /\ lastChangeAt <= polls
    /\ excuses \subseteq {"replaced", "pace"}

\* Before the loop nothing of this turn is on the page and nothing is read; only the
\* end of a send has message_complete.
NotYet ==
    /\ at \in Beginnings => /\ ~begun /\ lastText = <<>> /\ deltas = <<>>
                            /\ polls = 0 /\ lastChangeAt = 0
    /\ at # "ended" => ending # "message_complete"

\* In the loop the page shows beside the answer what it showed when the prompt was sent,
\* and of the answer a beginning, of which the text that was read is a beginning.
ShownSoFar ==
    at \in Polls /\ "replaced" \notin excuses =>
        /\ above = before
        /\ IF begun THEN page # <<>> /\ IsPrefix(page, target) /\ IsPrefix(lastText, page)
                    ELSE lastText = <<>>

\* Between the look at the text and the look at the buttons: what is shown is what
\* was read, or has just changed, or was skipped.
JustRead ==
    at = "judge" /\ begun /\ excuses = {} =>
        page = lastText \/ polls - lastChangeAt < Idle \/ PassesThrough \/ page \in ChromeTexts

\* A text that was read is as old as the page's silence, which is short while there
\* is more to come.
KeepsPace ==
    at \in Polls /\ begun /\ excuses = {} =>
        /\ page = lastText => polls <= quiet + lastChangeAt
        /\ page # target => quiet < Pause

AnswerInv ==
    /\ AnswerTypes /\ NotYet
    /\ ShownSoFar /\ JustRead /\ KeepsPace
    /\ WholeAnswer

LEMMA AnswerConstants ==
  /\ \A t \in Texts : t \in Strings /\ t # <<>>
  /\ Idle \in Nat /\ Idle > 0 /\ Pause \in Nat /\ Pause >= Idle
  BY AdapterAssumption DEF Strings, Pause

LEMMA AnswerInit == AdapterInit => AnswerInv
<1>1. <<>> \in Strings
  BY EmptySeq DEF Strings
<1>2. AdapterInit => AnswerTypes
  <2> SUFFICES ASSUME AdapterInit PROVE AnswerTypes
    OBVIOUS
  <2>1. gemini \in Flags /\ begun \in Flags
    BY DEF AdapterInit, Flags
  <2>2. at \in Beginnings
    BY DEF AdapterInit, Beginnings
  <2>3. quiet \in Nat /\ polls \in Nat /\ lastChangeAt \in Nat /\ lastChangeAt <= polls
    BY DEF AdapterInit
  <2>4. /\ target \in Strings /\ above \in Strings /\ page \in Strings
        /\ before \in Strings /\ lastText \in Strings /\ deltas \in Strings
    <3>1. /\ target = <<>> /\ above = <<>> /\ page = <<>>
          /\ before = <<>> /\ lastText = <<>> /\ deltas = <<>>
      BY DEF AdapterInit
    <3> HIDE DEF Strings
    <3> QED BY <1>1, <3>1, Zenon
  <2> QED BY <2>1, <2>2, <2>3, <2>4 DEF AdapterInit, AnswerTypes
<1>3. AdapterInit => NotYet /\ ShownSoFar /\ JustRead /\ KeepsPace /\ WholeAnswer
  BY DEF AdapterInit, NotYet, ShownSoFar, JustRead, KeepsPace, WholeAnswer, Beginnings, Polls
<1> QED BY <1>2, <1>3 DEF AnswerInv

LEMMA AnswerBeginsStep ==
  ASSUME AnswerInv,
         \/ \E g \in BOOLEAN, t \in Texts : Navigate(g, t)
         \/ DetectLogin \/ DetectLimit \/ FindComposer \/ AttachAndFill \/ SendPrompt
  PROVE  AnswerInv'
<1> USE DEF Flags, Beginnings, Polls, Proceed, Yield, pageVars, loopVars
<1>1. <<>> \in Strings
  BY EmptySeq DEF Strings
<1>2. AnswerTypes'
  BY <1>1, AnswerConstants DEF AnswerInv, AnswerTypes, Navigate, DetectLogin, DetectLimit, FindComposer,
     AttachAndFill, SendPrompt, LatestResponseText
<1>3. at \in Beginnings /\ ~begun /\ lastText = <<>> /\ deltas = <<>> /\ polls = 0 /\ lastChangeAt = 0
      /\ ending # "message_complete"
  BY DEF AnswerInv, NotYet, Navigate, DetectLogin, DetectLimit, FindComposer, AttachAndFill, SendPrompt
<1>4. NotYet' /\ ending' # "message_complete" /\ ~begun' /\ deltas' = lastText'
  BY <1>3 DEF NotYet, Navigate, DetectLogin, DetectLimit, FindComposer, AttachAndFill, SendPrompt
<1>5. ShownSoFar'
  BY <1>3 DEF ShownSoFar, Navigate, DetectLogin, DetectLimit, FindComposer, AttachAndFill, SendPrompt,
     LatestResponseText
<1> QED
  BY <1>2, <1>4, <1>5 DEF AnswerInv, JustRead, KeepsPace, WholeAnswer

LEMMA AnswerOthersStep ==
  ASSUME AnswerInv, RenderOthers
  PROVE  AnswerInv'
<1> USE DEF Flags, Beginnings, Polls, Polling, loopVars
<1>1. above' \in Strings
  BY AnswerConstants DEF RenderOthers
<1>2. AnswerTypes'
  BY <1>1 DEF AnswerInv, AnswerTypes, RenderOthers
<1>3. NotYet' /\ WholeAnswer'
  BY DEF AnswerInv, NotYet, WholeAnswer, RenderOthers
<1>4. ShownSoFar' /\ JustRead' /\ KeepsPace'
  BY DEF AnswerInv, ShownSoFar, JustRead, PassesThrough, KeepsPace, Pause, RenderOthers
<1> QED BY <1>2, <1>3, <1>4 DEF AnswerInv

LEMMA AnswerGrowStep ==
  ASSUME AnswerInv, Grow
  PROVE  AnswerInv'
<1> USE DEF Flags, Beginnings, Polls, Polling, PageShows, loopVars
<1>1. PICK n \in 1..Len(target) :
          /\ begun => n > Len(page)
          /\ PageShows(SubSeq(target, 1, n),
                       IF at = "judge" /\ polls - lastChangeAt >= Idle THEN {"pace"} ELSE {})
  BY DEF Grow
<1>2. at \in Polls /\ begun' = TRUE
  BY DEF Grow
<1>3. page' \in Strings /\ page' # <<>> /\ IsPrefix(page', target)
  BY <1>1, Beginning DEF AnswerInv, AnswerTypes
<1>4. AnswerTypes'
  BY <1>1, <1>2, <1>3 DEF AnswerInv, AnswerTypes
<1>5. NotYet' /\ WholeAnswer'
  BY <1>1, <1>2 DEF AnswerInv, NotYet, WholeAnswer
<1>6. ASSUME "replaced" \notin excuses
      PROVE  IsPrefix(lastText, page') /\ page' # lastText
  <2>1. CASE begun
    BY <1>1, <1>2, <1>6, <2>1, Grown DEF AnswerInv, AnswerTypes, ShownSoFar
  <2>2. CASE ~begun
    BY <1>2, <1>3, <1>6, <2>2, Trivial DEF AnswerInv, AnswerTypes, ShownSoFar
  <2> QED BY <2>1, <2>2
<1>7. ShownSoFar'
  <2>1. "replaced" \notin excuses => above' = before'
    BY <1>1, <1>2 DEF AnswerInv, ShownSoFar
  <2> QED BY <1>1, <1>2, <1>3, <1>6, <2>1 DEF ShownSoFar
<1>8. JustRead'
  <2>1. excuses' = {} => ~(at = "judge" /\ polls - lastChangeAt >= Idle)
    BY <1>1
  <2>2. at' = at /\ polls' = polls /\ lastChangeAt' = lastChangeAt
    BY <1>1
  <2>3. polls - lastChangeAt \in Int /\ Idle \in Int
    BY AnswerConstants DEF AnswerInv, AnswerTypes
  <2> QED BY <2>1, <2>2, <2>3 DEF JustRead
<1>9. KeepsPace'
  <2>1. quiet' = 0 /\ Pause' > 0
    BY <1>1, AnswerConstants DEF Pause
  <2>2. excuses' = {} => page' # lastText'
    BY <1>1, <1>6
  <2> QED BY <2>1, <2>2 DEF KeepsPace
<1> QED BY <1>4, <1>5, <1>7, <1>8, <1>9 DEF AnswerInv

LEMMA AnswerRewriteStep ==
  ASSUME AnswerInv, Rewrite
  PROVE  AnswerInv'
<1> USE DEF Flags, Beginnings, Polls, Polling, PageShows, loopVars, Generating
<1>1. PICK t \in Texts : PageShows(t, {"replaced"})
  BY DEF Rewrite
<1>2. at \in Polls /\ begun' = begun
  BY DEF Rewrite
<1> QED
  BY <1>1, <1>2, AnswerConstants
     DEF AnswerInv, AnswerTypes, NotYet, ShownSoFar, JustRead, KeepsPace, WholeAnswer

LEMMA AnswerWaitStep ==
  ASSUME AnswerInv, WaitPoll
  PROVE  AnswerInv'
<1> USE DEF Flags, Beginnings, Polls, Polling
<1>1. AnswerTypes'
  BY DEF AnswerInv, AnswerTypes, WaitPoll
<1>2. NotYet' /\ WholeAnswer' /\ JustRead'
  BY DEF AnswerInv, NotYet, WholeAnswer, JustRead, WaitPoll
<1>3. ShownSoFar'
  BY DEF AnswerInv, AnswerTypes, ShownSoFar, WaitPoll
<1>4. KeepsPace'
  <2> SUFFICES ASSUME at' \in Polls, begun', excuses' = {}
      PROVE  /\ page' = lastText' => polls' <= quiet' + lastChangeAt'
             /\ page' # target' => quiet' < Pause'
    BY DEF KeepsPace
  <2>1. at = "poll" /\ begun /\ excuses = {} /\ Pause' = Pause
    BY DEF WaitPoll, Pause
  <2>2. ~(Generating /\ quiet' >= Pause)
    BY DEF WaitPoll
  <2>3. page' # target' => quiet' < Pause'
    BY <2>1, <2>2, AnswerConstants DEF WaitPoll, Generating, AnswerInv, AnswerTypes
  <2>4. page' = lastText' => polls' <= quiet' + lastChangeAt'
    BY <2>1 DEF WaitPoll, AnswerInv, AnswerTypes, KeepsPace
  <2> QED BY <2>3, <2>4
<1> QED BY <1>1, <1>2, <1>3, <1>4 DEF AnswerInv

LEMMA AnswerLookStep ==
  ASSUME AnswerInv, LookForWall \/ LookForSigns \/ Throw
  PROVE  AnswerInv'
<1> USE DEF Flags, Beginnings, Polls, Proceed, Yield, pageVars, loopVars
<1>1. UNCHANGED <<gemini, target, above, page, begun, quiet, before, lastText, lastChangeAt, polls, deltas,
                  excuses>>
  BY DEF LookForWall, LookForSigns, Throw
<1>2. /\ at' \in {"signs", "read", "ended"}
      /\ at' # "ended" => at \in Polls /\ ending' = ending
      /\ at # "ended" /\ ending' \in {ending, "requires_login", "rate_limited", "manual_action_required", "threw"}
  BY DEF LookForWall, LookForSigns, Throw
<1>3. AnswerTypes' /\ NotYet' /\ JustRead'
  BY <1>1, <1>2 DEF AnswerInv, AnswerTypes, NotYet, JustRead
<1>4. ShownSoFar'
  BY <1>1, <1>2 DEF AnswerInv, ShownSoFar
<1>5. KeepsPace'
  BY <1>1, <1>2 DEF AnswerInv, KeepsPace, Pause
<1>6. WholeAnswer'
  BY <1>1, <1>2 DEF AnswerInv, NotYet, WholeAnswer
<1> QED BY <1>3, <1>4, <1>5, <1>6 DEF AnswerInv

LEMMA AnswerReadStep ==
  ASSUME AnswerInv, ReadText
  PROVE  AnswerInv'
<1> USE DEF Flags, Beginnings, Polls, pageVars
<1>0. PICK text : text = LatestResponseText
  OBVIOUS
<1> DEFINE fresh == text \notin {<<>>, before, lastText}
           delta == Delta(text)
<1>1. /\ at = "read" /\ at' = "judge" /\ ending' = ending /\ excuses' = excuses
      /\ UNCHANGED <<gemini, target, above, page, begun, quiet, before, polls>>
  BY DEF ReadText
<1>5. /\ text \in Strings
      /\ text = (IF begun /\ page \notin ChromeTexts THEN page ELSE above)
  BY <1>0 DEF LatestResponseText, AnswerInv, AnswerTypes
<1>2. CASE fresh
  <2>1. deltas' = deltas \o delta /\ lastText' = text /\ lastChangeAt' = polls
    BY <1>0, <1>2 DEF ReadText
  <2>0. "replaced" \notin excuses => begun /\ text = page
    BY <1>1, <1>2, <1>5 DEF AnswerInv, ShownSoFar
  <2>2. delta \in Strings
    <3>1. CASE IsPrefix(lastText, text)
      <4>1. /\ Len(lastText) + 1 \in Int /\ Len(text) \in Int
            /\ \A i \in (Len(lastText) + 1)..Len(text) : text[i] \in Chunks
        <5>1. /\ Len(lastText) \in Nat /\ Len(text) \in Nat
              /\ \A i \in 1..Len(text) : text[i] \in Chunks
          BY <1>5, LenProperties, ElementOfSeq DEF AnswerInv, AnswerTypes, Strings
        <5>2. \A i \in (Len(lastText) + 1)..Len(text) : i \in 1..Len(text)
          BY <5>1
        <5> QED BY <5>1, <5>2
      <4> HIDE DEF fresh
      <4>2. SubSeq(text, Len(lastText) + 1, Len(text)) \in Seq(Chunks)
        BY <4>1, SubSeqProperties
      <4> QED BY <3>1, <4>2 DEF Strings, Delta
    <3>2. CASE ~IsPrefix(lastText, text)
      BY <1>5, <3>2 DEF Delta
    <3> QED BY <3>1, <3>2
  <2> HIDE DEF delta
  <2>3. AnswerTypes'
    <3>1. deltas \o delta \in Strings
      BY <2>2, ConcatProperties DEF AnswerInv, AnswerTypes, Strings
    <3> QED BY <1>1, <1>5, <2>1, <3>1 DEF AnswerInv, AnswerTypes
  <2>4. "replaced" \notin excuses => begun /\ deltas = lastText /\ IsPrefix(lastText, page)
    BY <1>1, <2>0 DEF AnswerInv, ShownSoFar, WholeAnswer
  <2>5. "replaced" \notin excuses => deltas' = lastText'
    BY <2>0, <2>1, <2>4, DeltaCompletes DEF delta, Delta, AnswerInv, AnswerTypes
  <2>6. ShownSoFar'
    BY <1>1, <2>0, <2>1, <2>4, Trivial DEF AnswerInv, AnswerTypes, ShownSoFar
  <2>7. JustRead'
    BY <1>1, <2>0, <2>1 DEF JustRead
  <2>8. KeepsPace'
    BY <1>1, <2>0, <2>1 DEF AnswerInv, AnswerTypes, KeepsPace, Pause
  <2>9. NotYet' /\ WholeAnswer'
    BY <1>1, <2>5 DEF AnswerInv, NotYet, WholeAnswer
  <2> QED BY <2>3, <2>6, <2>7, <2>8, <2>9 DEF AnswerInv
<1>3. CASE ~fresh
  <2>1. UNCHANGED <<deltas, lastText, lastChangeAt>>
    BY <1>0, <1>3 DEF ReadText
  <2>2. AnswerTypes' /\ NotYet' /\ WholeAnswer'
    BY <1>1, <2>1 DEF AnswerInv, AnswerTypes, NotYet, WholeAnswer
  <2>3. ShownSoFar'
    BY <1>1, <2>1 DEF AnswerInv, ShownSoFar
  <2>4. JustRead'
    BY <1>1, <1>3, <1>5, <2>1 DEF AnswerInv, ShownSoFar, JustRead, PassesThrough
  <2>5. KeepsPace'
    BY <1>1, <2>1 DEF AnswerInv, KeepsPace, Pause
  <2> QED BY <2>2, <2>3, <2>4, <2>5 DEF AnswerInv
<1> QED BY <1>2, <1>3

LEMMA AnswerJudgeStep ==
  ASSUME AnswerInv, Judge
  PROVE  AnswerInv'
<1> USE DEF Flags, Beginnings, Polls, pageVars
<1>1. PICK stop \in BOOLEAN, send \in BOOLEAN :
          /\ excuses' = IF Generating /\ ~stop /\ ~gemini THEN excuses \cup {"pace"} ELSE excuses
          /\ IF SeemsComplete(stop, send)
             THEN ending' = "message_complete" /\ at' = "ended"
             ELSE at' = "poll" /\ UNCHANGED ending
  BY DEF Judge
<1>2. /\ at = "judge"
      /\ UNCHANGED <<gemini, target, above, page, begun, quiet, before, lastText, lastChangeAt, polls, deltas>>
  BY DEF Judge
<1>3. AnswerTypes'
  BY <1>1, <1>2 DEF AnswerInv, AnswerTypes
<1>4. NotYet'
  BY <1>1, <1>2 DEF AnswerInv, NotYet
<1>5. "replaced" \notin excuses' => "replaced" \notin excuses
  BY <1>1
<1>6. excuses' = {} => excuses = {} /\ ~(Generating /\ ~stop /\ ~gemini)
  BY <1>1
<1>7. ShownSoFar' /\ JustRead' /\ KeepsPace'
  BY <1>1, <1>2, <1>5, <1>6 DEF AnswerInv, ShownSoFar, JustRead, KeepsPace, Pause
<1>8. ASSUME ending' = "message_complete", excuses' = {}, ~PassesThrough, page \notin ChromeTexts
      PROVE  lastText = target
  <2>1. SeemsComplete(stop, send)
    BY <1>1, <1>2, <1>8 DEF AnswerInv, NotYet
  <2>2. lastText # <<>> /\ polls - lastChangeAt >= Idle
    BY <2>1, AnswerConstants DEF SeemsComplete, AnswerInv, AnswerTypes
  <2>3. begun
    BY <1>2, <1>6, <1>8, <2>2 DEF AnswerInv, ShownSoFar
  <2>4. page = lastText
    <3>1. page = lastText \/ polls - lastChangeAt < Idle
      BY <1>2, <1>6, <1>8, <2>3 DEF AnswerInv, JustRead
    <3>2. polls - lastChangeAt \in Int /\ Idle \in Int
      BY AnswerConstants DEF AnswerInv, AnswerTypes
    <3> QED BY <2>2, <3>1, <3>2
  <2>5. SUFFICES ASSUME page # target PROVE FALSE
    BY <2>4
  <2>6. Generating
    BY <1>2, <2>3, <2>5 DEF Generating, Polling
  <2>7. polls - lastChangeAt >= Pause
    BY <1>6, <1>8, <2>1, <2>6 DEF SeemsComplete
  <2>8. polls <= quiet + lastChangeAt /\ quiet < Pause
    BY <1>2, <1>6, <1>8, <2>3, <2>4, <2>5 DEF AnswerInv, KeepsPace
  <2> QED BY <2>7, <2>8, AnswerConstants DEF AnswerInv, AnswerTypes
<1>9. WholeAnswer'
  BY <1>2, <1>5, <1>8 DEF AnswerInv, WholeAnswer, PassesThrough
<1> QED BY <1>3, <1>4, <1>7, <1>9 DEF AnswerInv

LEMMA AnswerGiveUpStep ==
  ASSUME AnswerInv, GiveUp
  PROVE  AnswerInv'
  BY DEF AnswerInv, AnswerTypes, NotYet, ShownSoFar, JustRead, KeepsPace, WholeAnswer, GiveUp,
     Flags, Beginnings, Polls, pageVars, loopVars

LEMMA AnswerStutter ==
  ASSUME AnswerInv, UNCHANGED adapterVars
  PROVE  AnswerInv'
  BY DEF AnswerInv, AnswerTypes, NotYet, ShownSoFar, JustRead, KeepsPace, PassesThrough, WholeAnswer, Pause,
     adapterVars, pageVars, loopVars

\* An adapter's message_complete carries the whole answer of this turn unless the page
\* gave one of the named reasons not to, such as a text that looks like its menus, and the
\* deltas add up to what was read
\* (sendMessage of the provider adapters), for all answers and timeouts.
THEOREM AnswerSafety == AdapterSpec => []WholeAnswer
<1>1. AnswerInv /\ [AdapterNext]_adapterVars => AnswerInv'
  <2> SUFFICES ASSUME AnswerInv, [AdapterNext]_adapterVars PROVE AnswerInv'
    OBVIOUS
  <2>1. CASE UNCHANGED adapterVars
    BY <2>1, AnswerStutter
  <2>2. CASE AdapterNext
    BY <2>2, AnswerBeginsStep, AnswerOthersStep, AnswerGrowStep, AnswerRewriteStep, AnswerWaitStep,
       AnswerLookStep, AnswerReadStep, AnswerJudgeStep, AnswerGiveUpStep DEF AdapterNext, Adapting
  <2> QED BY <2>1, <2>2
<1>2. AnswerInv => WholeAnswer
  BY DEF AnswerInv
<1> QED BY <1>1, <1>2, AnswerInit, PTL DEF AdapterSpec

-----------------------------------------------------------------------------
(* The history pages.                                                       *)

\* No thread is listed twice.
Listings == {l \in Seq(Threads) : \A i, k \in 1..Len(l) : l[i] = l[k] => i = k}

HistoryTypes ==
    /\ listing \in Listings
    /\ Kept \subseteq used /\ used \subseteq Threads
    /\ pager = [pc |-> pager.pc, cursor |-> pager.cursor, rows |-> pager.rows]
    /\ pager.pc \in {"idle", "reading", "done"} /\ pager.rows \in Seq(Threads)
    /\ pager.pc = "reading" => pager.cursor # NoThread
    /\ pager.pc = "idle" => pager.cursor = NoThread /\ pager.rows = <<>> /\ moved = {}

\* What is at rest since paging began.
AtRest == first \ moved

Given(t) == t \in ToSet(pager.rows)
GivenOnce(t) == \E i \in 1..Len(pager.rows) : \A k \in 1..Len(pager.rows) : pager.rows[k] = t <=> k = i

\* Up to its cursor the client was given what is at rest, once, and nothing of it that
\* comes after.
PagedTo(p) ==
    \A q \in 1..Len(listing) :
        listing[q] \in AtRest => IF q <= p THEN GivenOnce(listing[q]) ELSE ~Given(listing[q])

Paging ==
    pager.pc = "reading" /\ ~adrift =>
        /\ AtRest \subseteq Kept /\ Kept \subseteq first \cup moved
        /\ ToSet(pager.rows) \subseteq first \cup moved
        /\ \E p \in 1..Len(listing) : listing[p] = pager.cursor /\ PagedTo(p)

Paged ==
    pager.pc = "done" /\ ~adrift =>
        /\ \A t \in AtRest : GivenOnce(t)
        /\ ToSet(pager.rows) \subseteq first \cup moved

\* The inductive invariant.
HistoryInv == HistoryTypes /\ Paging /\ Paged

LEMMA HistoryInvTells == HistoryInv => PagesOnce
<1> SUFFICES ASSUME HistoryInv, pager.pc = "done", ~adrift PROVE PagesOnce
  BY DEF PagesOnce
<1>1. ASSUME NEW t \in first \ moved
      PROVE  Cardinality({i \in DOMAIN pager.rows : pager.rows[i] = t}) = 1
  <2>1. pager.rows \in Seq(Threads)
    BY DEF HistoryInv, HistoryTypes
  <2>2. DOMAIN pager.rows = 1..Len(pager.rows)
    BY <2>1, LenProperties
  <2>3. PICK i \in 1..Len(pager.rows) : \A k \in 1..Len(pager.rows) : pager.rows[k] = t <=> k = i
    BY <1>1 DEF HistoryInv, Paged, AtRest, GivenOnce
  <2>4. {k \in DOMAIN pager.rows : pager.rows[k] = t} = {i}
    BY <2>2, <2>3
  <2> QED BY <2>4, FS_Singleton
<1>2. ToSet(pager.rows) \subseteq first \cup moved
  BY DEF HistoryInv, Paged
<1> QED BY <1>1, <1>2 DEF PagesOnce

LEMMA HistoryStart == HistoryInit => HistoryInv
<1> SUFFICES ASSUME HistoryInit PROVE HistoryInv
  OBVIOUS
<1>1. <<>> \in Seq(Threads) /\ Len(<<>>) = 0 /\ ToSet(<<>>) = {}
  BY DEF ToSet
<1>2. listing \in Listings /\ Kept = {}
  BY <1>1 DEF HistoryInit, Listings, Kept
<1>3. HistoryTypes
  BY <1>1, <1>2 DEF HistoryInit, HistoryTypes
<1> QED BY <1>3 DEF HistoryInit, HistoryInv, Paging, Paged

(* Changes of the list.                                                     *)

LEMMA KeptIs ==
  ASSUME NEW l \in Seq(Threads)
  PROVE  /\ Len(l) \in Nat /\ DOMAIN l = 1..Len(l)
         /\ \A t : t \in ToSet(l) <=> \E i \in 1..Len(l) : l[i] = t
         /\ ToSet(l) \subseteq Threads
<1>1. Len(l) \in Nat /\ DOMAIN l = 1..Len(l) /\ l \in [1..Len(l) -> Threads]
  BY LenProperties
<1> QED BY <1>1 DEF ToSet

\* What has not moved keeps its place among the others.
Keeps(l, T) ==
    /\ \A t : t \notin T => (t \in ToSet(l) <=> t \in Kept)
    /\ \A i, k \in 1..Len(listing), x, y \in 1..Len(l) :
          listing[i] = l[x] /\ listing[k] = l[y] /\ l[x] \notin T /\ l[y] \notin T => (i < k <=> x < y)

LEMMA MovesKeep ==
  ASSUME HistoryInv, NEW T \in SUBSET Threads, NEW l \in Listings, Keeps(l, T),
         listing' = l, Notices(T), used \subseteq used', used' \subseteq Threads,
         ToSet(l) \subseteq used', pager' = pager, first' = first
  PROVE  HistoryInv'
<1>1. /\ listing \in Seq(Threads) /\ l \in Seq(Threads)
      /\ \A i, k \in 1..Len(l) : l[i] = l[k] => i = k
  BY DEF HistoryInv, HistoryTypes, Listings
<1>2. /\ Len(l) \in Nat /\ \A t : t \in ToSet(l) <=> \E i \in 1..Len(l) : l[i] = t
      /\ Len(listing) \in Nat /\ \A t : t \in Kept <=> \E i \in 1..Len(listing) : listing[i] = t
  BY <1>1, KeptIs DEF Kept
<1>3. Kept' = ToSet(l)
  BY DEF Kept
<1>4. /\ moved' = (IF pager.pc = "reading" THEN moved \cup T ELSE moved)
      /\ adrift' = (adrift \/ (pager.pc = "reading" /\ pager.cursor \in T))
  BY DEF Notices
<1>5. HistoryTypes'
  BY <1>3, <1>4 DEF HistoryInv, HistoryTypes, Listings
<1>6. Paged'
  <2> SUFFICES ASSUME pager.pc = "done", ~adrift' PROVE Paged'
    BY DEF Paged
  <2>1. moved' = moved /\ ~adrift
    BY <1>4
  <2> QED BY <2>1 DEF HistoryInv, Paged, AtRest, GivenOnce
<1>7. Paging'
  <2> SUFFICES ASSUME pager.pc = "reading", ~adrift'
      PROVE  /\ AtRest' \subseteq Kept' /\ Kept' \subseteq first \cup moved'
             /\ ToSet(pager.rows) \subseteq first \cup moved'
             /\ \E p \in 1..Len(l) : l[p] = pager.cursor /\ PagedTo(p)'
    BY DEF Paging
  <2>1. /\ ~adrift /\ pager.cursor \notin T /\ moved' = moved \cup T
        /\ AtRest' = AtRest \ T
    BY <1>4 DEF AtRest
  <2>2. /\ AtRest \subseteq Kept /\ Kept \subseteq first \cup moved
        /\ ToSet(pager.rows) \subseteq first \cup moved
    BY <2>1 DEF HistoryInv, Paging
  <2>3. PICK p \in 1..Len(listing) : listing[p] = pager.cursor /\ PagedTo(p)
    BY <2>1 DEF HistoryInv, Paging
  <2>4. AtRest' \subseteq Kept' /\ Kept' \subseteq first \cup moved'
    BY <1>3, <2>1, <2>2 DEF Keeps
  <2>5. PICK x \in 1..Len(l) : l[x] = pager.cursor
    BY <1>2, <2>1, <2>3 DEF Keeps
  <2>6. ASSUME NEW y \in 1..Len(l), l[y] \in AtRest'
        PROVE  IF y <= x THEN GivenOnce(l[y]) ELSE ~Given(l[y])
    <3>1. PICK q \in 1..Len(listing) : listing[q] = l[y]
      BY <1>2, <2>1, <2>2, <2>6
    <3>2. q < p <=> y < x
      BY <2>1, <2>3, <2>5, <2>6, <3>1 DEF Keeps
    <3>3. p < q <=> x < y
      BY <2>1, <2>3, <2>5, <2>6, <3>1 DEF Keeps
    <3>4. q <= p <=> y <= x
      BY <1>2, <3>2, <3>3
    <3> QED BY <2>1, <2>3, <2>6, <3>1, <3>4 DEF PagedTo
  <2>7. PagedTo(x)'
    BY <2>6 DEF PagedTo, GivenOnce, Given
  <2> QED BY <2>1, <2>2, <2>4, <2>5, <2>7
<1> QED BY <1>5, <1>6, <1>7 DEF HistoryInv

\* The rows after a place.
LEMMA AfterIs ==
  ASSUME NEW l \in Seq(Threads), NEW p \in 0..Len(l)
  PROVE  /\ SubSeq(l, p + 1, Len(l)) \in Seq(Threads)
         /\ Len(SubSeq(l, p + 1, Len(l))) = Len(l) - p
         /\ \A i \in 1..Len(l) - p : SubSeq(l, p + 1, Len(l))[i] = l[p + i]
<1>1. PICK n : n = Len(l)
  OBVIOUS
<1>2. n \in Nat /\ \A i \in 1..n : l[i] \in Threads
  BY <1>1, LenProperties, ElementOfSeq
<1>3. p \in Nat /\ p <= n
  BY <1>1, <1>2
<1>4. PICK b : b = SubSeq(l, p + 1, n)
  OBVIOUS
<1>5. PICK m : m = p + 1
  OBVIOUS
<1>6. m \in Int /\ n \in Int /\ \A i \in m..n : l[i] \in Threads
  BY <1>2, <1>3, <1>5
<1>7. /\ b \in Seq(Threads)
      /\ Len(b) = (IF m <= n THEN n - m + 1 ELSE 0)
      /\ \A i \in 1..n - m + 1 : b[i] = l[m + i - 1]
  BY <1>4, <1>5, <1>6, SubSeqProperties
<1>8. (IF m <= n THEN n - m + 1 ELSE 0) = n - p /\ n - m + 1 = n - p
  BY <1>2, <1>3, <1>5
<1>9. ASSUME NEW i \in 1..n - p PROVE b[i] = l[p + i]
  <2>1. m + i - 1 = p + i
    BY <1>2, <1>3, <1>5
  <2> QED BY <1>7, <1>8, <2>1
<1>10. Len(b) = n - p
  BY <1>7, <1>8
<1> QED BY <1>1, <1>4, <1>7, <1>9, <1>10

\* The list without a thread.
LEMMA WithoutIs ==
  ASSUME HistoryInv, NEW t \in Kept
  PROVE  /\ Without(t) \in Listings
         /\ ToSet(Without(t)) = Kept \ {t}
         /\ \A i, k \in 1..Len(listing), x, y \in 1..Len(Without(t)) :
               listing[i] = Without(t)[x] /\ listing[k] = Without(t)[y] => (i < k <=> x < y)
<1>1. /\ listing \in Seq(Threads)
      /\ \A i, k \in 1..Len(listing) : listing[i] = listing[k] => i = k
  BY DEF HistoryInv, HistoryTypes, Listings
<1>2. /\ Len(listing) \in Nat /\ \A x : x \in Kept <=> \E i \in 1..Len(listing) : listing[i] = x
      /\ DOMAIN listing = 1..Len(listing)
      /\ \A i \in 1..Len(listing) : listing[i] \in Threads
  BY <1>1, KeptIs, ElementOfSeq DEF Kept
<1>3. PICK p : p = Place(listing, t)
  OBVIOUS
<1>4. p \in 1..Len(listing) /\ listing[p] = t
  BY <1>2, <1>3 DEF Place
<1>5. /\ SubSeq(listing, 1, p - 1) \in Seq(Threads) /\ Len(SubSeq(listing, 1, p - 1)) = p - 1
      /\ \A i \in 1..p - 1 : SubSeq(listing, 1, p - 1)[i] = listing[i]
  BY <1>2, <1>4, SubSeqProperties
<1>6. /\ SubSeq(listing, p + 1, Len(listing)) \in Seq(Threads)
      /\ Len(SubSeq(listing, p + 1, Len(listing))) = Len(listing) - p
      /\ \A i \in 1..Len(listing) - p : SubSeq(listing, p + 1, Len(listing))[i] = listing[p + i]
  <2>1. listing \in Seq(Threads)
    BY <1>1
  <2>2. p \in 0..Len(listing)
    BY <1>2, <1>4
  <2> QED BY ONLY <2>1, <2>2, AfterIs, Zenon
<1>7. PICK l : l = Without(t)
  OBVIOUS
<1>8. l = SubSeq(listing, 1, p - 1) \o SubSeq(listing, p + 1, Len(listing))
  BY <1>3, <1>7 DEF Without, RemoveAt
<1>9. /\ l \in Seq(Threads) /\ Len(l) = Len(listing) - 1
      /\ \A i \in 1..Len(listing) - 1 : l[i] = IF i < p THEN listing[i] ELSE listing[i + 1]
  <2> DEFINE a == SubSeq(listing, 1, p - 1)
             b == SubSeq(listing, p + 1, Len(listing))
  <2>1. /\ l \in Seq(Threads) /\ Len(l) = Len(a) + Len(b)
        /\ \A i \in 1..Len(a) + Len(b) : l[i] = IF i <= Len(a) THEN a[i] ELSE b[i - Len(a)]
    BY <1>5, <1>6, <1>8, ConcatProperties
  <2> HIDE DEF a, b
  <2>2. /\ Len(a) = p - 1 /\ Len(b) = Len(listing) - p
        /\ \A i \in 1..p - 1 : a[i] = listing[i]
        /\ \A i \in 1..Len(listing) - p : b[i] = listing[p + i]
    BY <1>5, <1>6 DEF a, b
  <2>3. ASSUME NEW i \in 1..Len(listing) - 1 PROVE l[i] = IF i < p THEN listing[i] ELSE listing[i + 1]
    <3>1. CASE i < p
      <4>1. i \in 1..p - 1 /\ i <= Len(a) /\ i \in 1..Len(a) + Len(b)
        BY <1>2, <1>4, <2>2, <3>1
      <4>2. l[i] = a[i]
        BY <2>1, <4>1
      <4>3. a[i] = listing[i]
        BY <2>2, <4>1
      <4> QED BY <3>1, <4>2, <4>3
    <3>2. CASE ~(i < p)
      <4>1. i - (p - 1) \in 1..Len(listing) - p /\ p + (i - (p - 1)) = i + 1
        BY <1>2, <1>4, <3>2
      <4>2. l[i] = b[i - (p - 1)]
        <5>1. i \in 1..Len(a) + Len(b) /\ ~(i <= Len(a)) /\ Len(a) = p - 1
          BY <1>2, <1>4, <2>2, <3>2
        <5> QED BY <2>1, <5>1
      <4> QED BY <2>2, <3>2, <4>1, <4>2
    <3> QED BY <3>1, <3>2
  <2> QED BY <1>2, <1>4, <2>1, <2>2, <2>3
<1>10. l \in Listings
  BY <1>1, <1>2, <1>4, <1>9 DEF Listings
<1>11. ToSet(l) = Kept \ {t}
  <2>1. \A x : x \in ToSet(l) <=> \E i \in 1..Len(l) : l[i] = x
    BY <1>9, KeptIs
  <2>2. ASSUME NEW i \in 1..Len(l) PROVE l[i] \in Kept /\ l[i] # t
    BY <1>1, <1>2, <1>4, <1>9
  <2>3. ASSUME NEW i \in 1..Len(listing), i # p PROVE \E k \in 1..Len(l) : l[k] = listing[i]
    <3>1. CASE i < p
      BY <1>2, <1>4, <1>9, <3>1
    <3>2. CASE p < i
      <4>1. i - 1 \in 1..Len(l) /\ ~(i - 1 < p) /\ (i - 1) + 1 = i
        BY <1>2, <1>4, <1>9, <3>2
      <4> QED BY <1>9, <4>1
    <3> QED BY <1>2, <1>4, <2>3, <3>1, <3>2
  <2> QED BY <1>2, <1>4, <2>1, <2>2, <2>3
<1>12. \A i, k \in 1..Len(listing), x, y \in 1..Len(l) :
           listing[i] = l[x] /\ listing[k] = l[y] => (i < k <=> x < y)
  <2>1. ASSUME NEW i \in 1..Len(listing), NEW x \in 1..Len(l), listing[i] = l[x]
        PROVE  i = IF x < p THEN x ELSE x + 1
    <3>1. l[x] = (IF x < p THEN listing[x] ELSE listing[x + 1])
      BY <1>2, <1>9
    <3> QED BY <1>1, <1>2, <1>4, <1>9, <2>1, <3>1
  <2> QED BY <1>2, <1>4, <1>9, <2>1
<1> QED BY <1>7, <1>10, <1>11, <1>12

\* The list with a thread at its head that was not in it.
LEMMA HeadIs ==
  ASSUME NEW l \in Listings, NEW t \in Threads, t \notin ToSet(l)
  PROVE  /\ <<t>> \o l \in Listings
         /\ ToSet(<<t>> \o l) = ToSet(l) \cup {t}
         /\ Len(<<t>> \o l) = Len(l) + 1
         /\ \A i \in 1..Len(l) + 1 : (<<t>> \o l)[i] = IF i = 1 THEN t ELSE l[i - 1]
<1>1. l \in Seq(Threads) /\ <<t>> \in Seq(Threads) /\ Len(<<t>>) = 1 /\ <<t>>[1] = t
      /\ Len(l) \in Nat
  BY DEF Listings
<1>2. PICK m : m = <<t>> \o l
  OBVIOUS
<1>3. /\ m \in Seq(Threads) /\ Len(m) = 1 + Len(l)
      /\ \A i \in 1..1 + Len(l) : m[i] = IF i <= 1 THEN <<t>>[i] ELSE l[i - 1]
  BY <1>1, <1>2, ConcatProperties
<1>4. \A i \in 1..Len(l) + 1 : m[i] = IF i = 1 THEN t ELSE l[i - 1]
  BY <1>1, <1>3
<1>5. /\ \A x : x \in ToSet(l) <=> \E i \in 1..Len(l) : l[i] = x
      /\ \A x : x \in ToSet(m) <=> \E i \in 1..Len(m) : m[i] = x
  BY <1>1, <1>3, KeptIs
<1>6. ToSet(m) = ToSet(l) \cup {t}
  <2>1. ASSUME NEW i \in 1..Len(m) PROVE m[i] = t \/ m[i] \in ToSet(l)
    <3>1. i = 1 \/ i - 1 \in 1..Len(l)
      BY <1>1, <1>3
    <3> QED BY <1>1, <1>3, <1>4, <1>5, <3>1
  <2>2. ASSUME NEW i \in 1..Len(l) PROVE \E k \in 1..Len(m) : m[k] = l[i]
    <3>1. i + 1 \in 1..Len(m) /\ (i + 1) - 1 = i /\ i + 1 # 1
      BY <1>1, <1>3
    <3>2. m[i + 1] = l[(i + 1) - 1]
      BY <1>1, <1>3, <1>4, <3>1
    <3> QED BY <3>1, <3>2
  <2>3. m[1] = t /\ 1 \in 1..Len(m)
    BY <1>1, <1>3, <1>4
  <2> QED BY <1>5, <2>1, <2>2, <2>3
<1>7. m \in Listings
  <2> SUFFICES ASSUME NEW i \in 1..Len(m), NEW k \in 1..Len(m), m[i] = m[k] PROVE i = k
    BY <1>3 DEF Listings
  <2>1. /\ i = 1 \/ i - 1 \in 1..Len(l)
        /\ k = 1 \/ k - 1 \in 1..Len(l)
    BY <1>1, <1>3
  <2>2. \A n \in 1..Len(l) : l[n] # t
    BY <1>5
  <2>3. \A x, y \in 1..Len(l) : l[x] = l[y] => x = y
    BY DEF Listings
  <2>4. \A n \in 1..Len(m) : n \in 1..Len(l) + 1
    BY <1>1, <1>3
  <2>5. /\ i # 1 => m[i] = l[i - 1] /\ i - 1 \in 1..Len(l)
        /\ k # 1 => m[k] = l[k - 1] /\ k - 1 \in 1..Len(l)
        /\ i = 1 => m[i] = t
        /\ k = 1 => m[k] = t
    BY <1>4, <2>1, <2>4
  <2>6. i # 1 /\ k # 1 => i - 1 = k - 1
    BY <2>3, <2>5
  <2> QED BY <2>2, <2>5, <2>6
<1> QED BY <1>1, <1>2, <1>3, <1>4, <1>6, <1>7

LEMMA RowTouched ==
  ASSUME HistoryInv, NEW t \in Threads, Touch(t), pager' = pager, first' = first
  PROVE  HistoryInv'
<1>1. PICK l : l = Without(t)
  OBVIOUS
<1>2. PICK m : m = <<t>> \o l
  OBVIOUS
<1>3. /\ t \in Kept /\ listing' = m /\ Notices({t}) /\ used' = used
  BY <1>1, <1>2 DEF Touch
<1>4. /\ l \in Listings /\ ToSet(l) = Kept \ {t}
      /\ \A i, k \in 1..Len(listing), x, y \in 1..Len(l) :
            listing[i] = l[x] /\ listing[k] = l[y] => (i < k <=> x < y)
  BY <1>1, <1>3, WithoutIs
<1>5. /\ m \in Listings /\ ToSet(m) = ToSet(l) \cup {t} /\ Len(m) = Len(l) + 1
      /\ \A i \in 1..Len(l) + 1 : m[i] = IF i = 1 THEN t ELSE l[i - 1]
  BY <1>2, <1>4, HeadIs
<1>6. Keeps(m, {t})
  <2>1. Len(l) \in Nat
    BY <1>4 DEF Listings
  <2>2. \A x \in 1..Len(m) : m[x] # t => x - 1 \in 1..Len(l) /\ m[x] = l[x - 1]
    BY <1>5, <2>1
  <2>3. ASSUME NEW i \in 1..Len(listing), NEW k \in 1..Len(listing), NEW x \in 1..Len(m), NEW y \in 1..Len(m),
               listing[i] = m[x], listing[k] = m[y], m[x] # t, m[y] # t
        PROVE  i < k <=> x < y
    <3>1. x - 1 \in 1..Len(l) /\ y - 1 \in 1..Len(l) /\ m[x] = l[x - 1] /\ m[y] = l[y - 1]
      BY <2>2, <2>3
    <3>2. i < k <=> x - 1 < y - 1
      BY <1>4, <2>3, <3>1
    <3> QED BY <3>2
  <2> QED BY <1>4, <1>5, <2>3 DEF Keeps
<1>7. ToSet(m) \subseteq used /\ used \subseteq Threads
  BY <1>3, <1>4, <1>5 DEF HistoryInv, HistoryTypes
<1> QED BY <1>3, <1>5, <1>6, <1>7, MovesKeep

LEMMA RowInserted ==
  ASSUME HistoryInv, NEW t \in Threads, Insert(t), pager' = pager, first' = first
  PROVE  HistoryInv'
<1>1. PICK m : m = <<t>> \o listing
  OBVIOUS
<1>2. /\ t \notin used /\ used' = used \cup {t} /\ listing' = m /\ Notices({t})
      /\ listing \in Listings /\ Kept \subseteq used /\ used \subseteq Threads
  BY <1>1 DEF Insert, HistoryInv, HistoryTypes
<1>3. t \notin ToSet(listing)
  BY <1>2 DEF Kept
<1>4. /\ m \in Listings /\ ToSet(m) = ToSet(listing) \cup {t} /\ Len(m) = Len(listing) + 1
      /\ \A i \in 1..Len(listing) + 1 : m[i] = IF i = 1 THEN t ELSE listing[i - 1]
  BY <1>1, <1>2, <1>3, HeadIs
<1>5. Keeps(m, {t})
  <2>1. Len(listing) \in Nat /\ \A x, y \in 1..Len(listing) : listing[x] = listing[y] => x = y
    BY <1>2 DEF Listings
  <2>2. \A x \in 1..Len(m) : m[x] # t => x - 1 \in 1..Len(listing) /\ m[x] = listing[x - 1]
    BY <1>4, <2>1
  <2>3. \A i \in 1..Len(listing), x \in 1..Len(m) : listing[i] = m[x] /\ m[x] # t => i = x - 1
    BY <2>1, <2>2
  <2>4. \A i, k \in 1..Len(listing), x, y \in 1..Len(m) :
           listing[i] = m[x] /\ listing[k] = m[y] /\ m[x] # t /\ m[y] # t => (i < k <=> x < y)
    BY <2>3
  <2> QED BY <1>4, <2>4 DEF Keeps, Kept
<1>6. ToSet(m) \subseteq used' /\ used' \subseteq Threads /\ used \subseteq used'
  BY <1>2, <1>4 DEF Kept
<1> QED BY <1>2, <1>4, <1>5, <1>6, MovesKeep

LEMMA RowDeleted ==
  ASSUME HistoryInv, NEW t \in Threads, DeleteThread(t)
  PROVE  HistoryInv'
<1>1. PICK l : l = Without(t)
  OBVIOUS
<1>2. t \in Kept /\ listing' = l /\ Notices({t}) /\ UNCHANGED <<used, pager, first>>
  BY <1>1 DEF DeleteThread
<1>3. /\ l \in Listings /\ ToSet(l) = Kept \ {t}
      /\ \A i, k \in 1..Len(listing), x, y \in 1..Len(l) :
            listing[i] = l[x] /\ listing[k] = l[y] => (i < k <=> x < y)
  BY <1>1, <1>2, WithoutIs
<1>4. Keeps(l, {t})
  BY <1>3 DEF Keeps
<1>5. ToSet(l) \subseteq used /\ used \subseteq Threads
  BY <1>3 DEF HistoryInv, HistoryTypes
<1> QED BY <1>2, <1>3, <1>4, <1>5, MovesKeep

LEMMA RowsImported ==
  ASSUME HistoryInv, NEW n, ImportConversations(n)
  PROVE  HistoryInv'
<1>1. PICK T \in kSubset(n, Threads \ used) :
          /\ used' = used \cup T
          /\ \E l \in SetToSeqs(Kept \cup T) :
                /\ \A i, k \in DOMAIN listing : i < k => Place(l, listing[i]) < Place(l, listing[k])
                /\ listing' = l
          /\ Notices(T)
  BY DEF ImportConversations
<1>2. PICK l \in SetToSeqs(Kept \cup T) :
          /\ \A i, k \in DOMAIN listing : i < k => Place(l, listing[i]) < Place(l, listing[k])
          /\ listing' = l
  BY <1>1
<1>3. T \in SUBSET (Threads \ used)
  BY <1>1 DEF kSubset
<1>4. /\ listing \in Listings /\ Kept \subseteq used /\ used \subseteq Threads
      /\ pager' = pager /\ first' = first
  BY DEF HistoryInv, HistoryTypes, ImportConversations
<1>5. PICK N : N = Cardinality(Kept \cup T)
  OBVIOUS
<1>6. IsFiniteSet(Kept \cup T) /\ N \in Nat
  BY <1>3, <1>4, <1>5, HistoryAssumption, FS_Subset, FS_CardinalityType
<1>7. l \in [1..N -> Kept \cup T] /\ \A i, k \in 1..N : i # k => l[i] # l[k]
  BY <1>2, <1>5 DEF SetToSeqs
<1>8. l \in Seq(Threads) /\ Len(l) = N /\ DOMAIN l = 1..N
  <2>1. l \in Seq(Kept \cup T) /\ Len(l) = N /\ DOMAIN l = 1..N
    BY <1>6, <1>7
  <2>2. Kept \cup T \subseteq Threads
    BY <1>3, <1>4
  <2> QED BY <2>1, <2>2, SeqMonotonic
<1>9. l \in Listings
  BY <1>7, <1>8 DEF Listings
<1>10. \A t \in Kept \cup T : \E i \in 1..N : l[i] = t
  <2>1. l \in Injection(1..N, Kept \cup T)
    BY <1>7 DEF Injection, IsInjective
  <2>2. Cardinality(1..N) = N /\ IsFiniteSet(1..N)
    BY <1>6, FS_Interval
  <2>3. l \in Surjection(1..N, Kept \cup T)
    BY <1>5, <1>6, <2>1, <2>2, FS_Injection
  <2> QED BY <2>3 DEF Surjection
<1>11. ToSet(l) = Kept \cup T
  BY <1>7, <1>8, <1>10 DEF ToSet
<1>12. Keeps(l, T)
  <2>1. /\ DOMAIN listing = 1..Len(listing) /\ Len(listing) \in Nat
        /\ \A i \in 1..Len(listing) : listing[i] \in Kept
        /\ \A i, k \in 1..Len(listing) : listing[i] = listing[k] => i = k
    BY <1>4, KeptIs DEF Listings, Kept
  <2>2. ASSUME NEW x \in 1..Len(l) PROVE Place(l, l[x]) = x
    <3>1. \E i \in DOMAIN l : l[i] = l[x]
      BY <1>8
    <3>2. Place(l, l[x]) \in DOMAIN l /\ l[Place(l, l[x])] = l[x]
      BY <3>1 DEF Place
    <3> QED BY <1>7, <1>8, <3>2
  <2>3. ASSUME NEW i \in 1..Len(listing), NEW k \in 1..Len(listing), NEW x \in 1..Len(l), NEW y \in 1..Len(l),
               listing[i] = l[x], listing[k] = l[y]
        PROVE  i < k <=> x < y
    <3>1. i < k => x < y
      BY <1>2, <2>1, <2>2, <2>3
    <3>2. k < i => y < x
      BY <1>2, <2>1, <2>2, <2>3
    <3>3. i = k => x = y
      BY <1>7, <1>8, <2>3
    <3> QED BY <1>6, <1>8, <2>1, <3>1, <3>2, <3>3
  <2> QED BY <1>11, <2>3 DEF Keeps
<1>13. ToSet(l) \subseteq used' /\ used' \subseteq Threads /\ used \subseteq used' /\ T \in SUBSET Threads
  BY <1>1, <1>3, <1>4, <1>11
<1> QED BY <1>1, <1>2, <1>4, <1>9, <1>12, <1>13, MovesKeep

(* Pages.                                                                   *)

After(rows, p) == rows = SubSeq(listing, p + 1, Len(listing))

\* A page: the rows from one place to another.
LEMMA PageIs ==
  ASSUME HistoryInv, pager.pc # "done"
  PROVE  LET rows == PageAfter(pager.cursor)
             shown == SubSeq(rows, 1, Min({Limit, Len(rows)}))
         IN  /\ shown \in Seq(Threads)
             /\ Len(rows) > Limit => Last(shown) \in Threads
             /\ pager.pc = "idle" \/ ~adrift =>
                 \E p \in 0..Len(listing), e \in 0..Len(listing) :
                    /\ IF pager.pc = "idle" THEN p = 0 ELSE p \in 1..Len(listing) /\ listing[p] = pager.cursor
                    /\ p <= e /\ Len(shown) = e - p
                    /\ \A i \in 1..e - p : shown[i] = listing[p + i]
                    /\ IF Len(rows) > Limit THEN p < e /\ Last(shown) = listing[e] ELSE e = Len(listing)
<1>1. /\ listing \in Seq(Threads)
      /\ \A i, k \in 1..Len(listing) : listing[i] = listing[k] => i = k
      /\ Len(listing) \in Nat /\ \A x : x \in Kept <=> \E i \in 1..Len(listing) : listing[i] = x
      /\ DOMAIN listing = 1..Len(listing)
      /\ \A i \in 1..Len(listing) : listing[i] \in Threads
  BY KeptIs, ElementOfSeq DEF HistoryInv, HistoryTypes, Listings, Kept
<1>2. PICK rows : rows = PageAfter(pager.cursor)
  OBVIOUS
<1>3. PICK m : m = Min({Limit, Len(rows)})
  OBVIOUS
<1>4. PICK shown : shown = SubSeq(rows, 1, m)
  OBVIOUS
<1>5. \/ rows = <<>>
      \/ \E p \in 0..Len(listing) : /\ After(rows, p)
                                    /\ pager.cursor = NoThread => p = 0
                                    /\ pager.cursor # NoThread => p # 0 /\ listing[p] = pager.cursor
  <2>1. CASE pager.cursor = NoThread
    <3>1. After(rows, 0)
      BY <1>1, <1>2, <2>1, SubSeqFull DEF PageAfter, After
    <3> QED BY <1>1, <2>1, <3>1
  <2>2. CASE pager.cursor # NoThread /\ pager.cursor \in Kept
    <3>1. PICK p : p = Place(listing, pager.cursor)
      OBVIOUS
    <3>2. p \in 1..Len(listing) /\ listing[p] = pager.cursor
      BY <1>1, <2>2, <3>1 DEF Place
    <3>3. After(rows, p)
      BY <1>2, <2>2, <3>1 DEF PageAfter, After
    <3>4. p \in 0..Len(listing) /\ p # 0
      BY <1>1, <3>2
    <3> QED BY <2>2, <3>2, <3>3, <3>4
  <2>3. CASE pager.cursor # NoThread /\ pager.cursor \notin Kept
    BY <1>2, <2>3 DEF PageAfter
  <2> QED BY <2>1, <2>2, <2>3
<1>6. ASSUME NEW p \in 0..Len(listing), After(rows, p)
      PROVE  /\ rows \in Seq(Threads) /\ Len(rows) = Len(listing) - p
             /\ \A i \in 1..Len(listing) - p : rows[i] = listing[p + i]
  <2>1. listing \in Seq(Threads)
    BY <1>1
  <2>2. /\ SubSeq(listing, p + 1, Len(listing)) \in Seq(Threads)
        /\ Len(SubSeq(listing, p + 1, Len(listing))) = Len(listing) - p
        /\ \A i \in 1..Len(listing) - p : SubSeq(listing, p + 1, Len(listing))[i] = listing[p + i]
    BY <2>1, AfterIs, Zenon
  <2> QED BY <1>6, <2>2, Zenon DEF After
<1>7. rows \in Seq(Threads) /\ Len(rows) \in Nat
  <2>1. CASE rows = <<>>
    BY <2>1
  <2>2. CASE rows # <<>>
    <3>1. PICK p \in 0..Len(listing) : After(rows, p)
      BY <1>5, <2>2
    <3> QED BY <1>6, <3>1
  <2>3. rows \in Seq(Threads)
    BY <2>1, <2>2
  <2> QED BY <2>3, LenProperties
<1>8. Limit \in Nat /\ Limit > 0
  BY HistoryAssumption
<1>9. m = IF Limit <= Len(rows) THEN Limit ELSE Len(rows)
  <2>1. m \in {Limit, Len(rows)} /\ \A y \in {Limit, Len(rows)} : m <= y
    <3>1. \E x \in {Limit, Len(rows)} : \A y \in {Limit, Len(rows)} : x <= y
      BY <1>7, <1>8
    <3> QED BY <1>3, <3>1 DEF Min
  <2> QED BY <1>7, <1>8, <2>1
<1>10. /\ shown \in Seq(Threads) /\ Len(shown) = m
       /\ \A i \in 1..m : shown[i] = rows[i]
  <2>1. m \in Nat /\ m <= Len(rows)
    BY <1>7, <1>8, <1>9
  <2>2. \A i \in 1..m : rows[i] \in Threads
    BY <1>7, <2>1, ElementOfSeq
  <2>3. /\ shown \in Seq(Threads) /\ Len(shown) = (IF 1 <= m THEN m - 1 + 1 ELSE 0)
        /\ \A i \in 1..m - 1 + 1 : shown[i] = rows[1 + i - 1]
    BY <1>4, <2>1, <2>2, SubSeqProperties
  <2> QED BY <2>1, <2>3
<1>11. Len(rows) > Limit => Last(shown) \in Threads
  BY <1>7, <1>8, <1>9, <1>10, ElementOfSeq DEF Last
<1>12. ASSUME pager.pc = "idle" \/ ~adrift
       PROVE  \E p \in 0..Len(listing), e \in 0..Len(listing) :
                 /\ IF pager.pc = "idle" THEN p = 0 ELSE p \in 1..Len(listing) /\ listing[p] = pager.cursor
                 /\ p <= e /\ Len(shown) = e - p
                 /\ \A i \in 1..e - p : shown[i] = listing[p + i]
                 /\ IF Len(rows) > Limit THEN p < e /\ Last(shown) = listing[e] ELSE e = Len(listing)
  <2>1. pager.pc = "idle" => pager.cursor = NoThread
    BY DEF HistoryInv, HistoryTypes
  <2>2. pager.pc # "idle" => pager.cursor # NoThread /\ pager.cursor \in Kept
    BY <1>1, <1>12 DEF HistoryInv, HistoryTypes, Paging
  <2>3. PICK p \in 0..Len(listing) : /\ After(rows, p)
                                     /\ pager.cursor = NoThread => p = 0
                                     /\ pager.cursor # NoThread => p # 0 /\ listing[p] = pager.cursor
    <3>1. CASE pager.pc = "idle"
      <4>1. After(rows, 0)
        BY <1>1, <1>2, <2>1, <3>1, SubSeqFull DEF PageAfter, After
      <4> QED BY <1>1, <2>1, <3>1, <4>1
    <3>2. CASE pager.pc # "idle"
      <4>1. PICK p : p = Place(listing, pager.cursor)
        OBVIOUS
      <4>2. p \in 1..Len(listing) /\ listing[p] = pager.cursor
        BY <1>1, <2>2, <3>2, <4>1 DEF Place
      <4>3. After(rows, p)
        BY <1>2, <2>2, <3>2, <4>1 DEF PageAfter, After
      <4>4. p \in 0..Len(listing) /\ p # 0
        BY <1>1, <4>2
      <4> QED BY <2>2, <3>2, <4>2, <4>3, <4>4
    <3> QED BY <3>1, <3>2
  <2>4. /\ Len(rows) = Len(listing) - p
        /\ \A i \in 1..Len(listing) - p : rows[i] = listing[p + i]
    BY <1>6, <2>3
  <2>5. /\ p \in Nat /\ p <= Len(listing) /\ Len(rows) = Len(listing) - p
        /\ Len(listing) \in Nat /\ Len(rows) \in Nat
    BY <1>1, <1>7, <2>4
  <2>6. /\ m \in Nat /\ p + m <= Len(listing)
        /\ Len(rows) > Limit => m > 0
        /\ Len(rows) <= Limit => p + m = Len(listing)
    BY <1>8, <1>9, <2>5
  <2>7. PICK e : e = p + m
    OBVIOUS
  <2>8. /\ e \in Nat /\ e <= Len(listing) /\ p <= e /\ m = e - p
        /\ Len(rows) > Limit => p < e
        /\ ~(Len(rows) > Limit) => e = Len(listing)
    BY <1>8, <2>5, <2>6, <2>7
  <2>9. \A i \in 1..m : shown[i] = listing[p + i]
    <3> SUFFICES ASSUME NEW i \in 1..m PROVE shown[i] = listing[p + i]
      OBVIOUS
    <3>1. i \in 1..Len(listing) - p
      BY <2>5, <2>6
    <3> QED BY <1>10, <2>4, <3>1
  <2>10. Len(rows) > Limit => Last(shown) = listing[e]
    <3> SUFFICES ASSUME Len(rows) > Limit PROVE Last(shown) = listing[e]
      OBVIOUS
    <3>1. m \in 1..m
      BY <2>6
    <3> QED BY <1>10, <2>7, <2>9, <3>1 DEF Last
  <2>11. CASE pager.pc = "idle"
    <3>1. p = 0
      BY <2>1, <2>3, <2>11
    <3> QED BY <1>10, <2>5, <2>8, <2>9, <2>10, <2>11, <3>1
  <2>12. CASE pager.pc # "idle"
    <3>1. p \in 1..Len(listing) /\ listing[p] = pager.cursor
      BY <1>1, <2>2, <2>3, <2>5, <2>12
    <3>2. p \in 0..Len(listing) /\ e \in 0..Len(listing)
      BY <2>5, <2>8
    <3>3. /\ p <= e /\ Len(shown) = e - p
          /\ \A i \in 1..e - p : shown[i] = listing[p + i]
          /\ IF Len(rows) > Limit THEN p < e /\ Last(shown) = listing[e] ELSE e = Len(listing)
      BY <1>10, <2>8, <2>9, <2>10
    <3> QED BY <2>12, <3>1, <3>2, <3>3, Zenon
  <2> QED BY <2>11, <2>12
<1> QED BY <1>2, <1>3, <1>4, <1>10, <1>11, <1>12

LEMMA ListKeeps ==
  ASSUME HistoryInv, ListThreads
  PROVE  HistoryInv'
<1>1. PICK rows, shown, more, next :
          /\ rows = PageAfter(pager.cursor)
          /\ shown = SubSeq(rows, 1, Min({Limit, Len(rows)}))
          /\ more <=> Len(rows) > Limit
          /\ next = pager.rows \o shown
  OBVIOUS
<1>2. /\ pager.pc # "done"
      /\ pager' = [pc |-> IF more THEN "reading" ELSE "done",
                   cursor |-> IF more THEN Last(shown) ELSE NoThread, rows |-> next]
      /\ first' = (IF pager.pc = "idle" THEN Kept ELSE first)
      /\ UNCHANGED <<listing, used, moved, adrift>>
  BY <1>1 DEF ListThreads, listVars
<1>3. /\ listing \in Seq(Threads) /\ pager.rows \in Seq(Threads)
      /\ \A i, k \in 1..Len(listing) : listing[i] = listing[k] => i = k
      /\ Len(listing) \in Nat /\ \A x : x \in Kept <=> \E i \in 1..Len(listing) : listing[i] = x
      /\ Len(pager.rows) \in Nat
  BY KeptIs DEF HistoryInv, HistoryTypes, Listings, Kept
<1>4. shown \in Seq(Threads) /\ (more => Last(shown) # NoThread)
  BY <1>1, <1>2, PageIs, HistoryAssumption
<1>5. /\ next \in Seq(Threads) /\ Len(next) = Len(pager.rows) + Len(shown)
      /\ \A i \in 1..Len(pager.rows) + Len(shown) :
            next[i] = IF i <= Len(pager.rows) THEN pager.rows[i] ELSE shown[i - Len(pager.rows)]
      /\ Len(shown) \in Nat
  <2>1. pager.rows \in Seq(Threads) /\ shown \in Seq(Threads) /\ next = pager.rows \o shown
    BY <1>1, <1>3, <1>4
  <2> QED BY ONLY <2>1, ConcatProperties, LenProperties
<1>6. /\ pager'.pc = (IF more THEN "reading" ELSE "done")
      /\ pager'.cursor = (IF more THEN Last(shown) ELSE NoThread)
      /\ pager'.rows = next /\ pager' = [pc |-> pager'.pc, cursor |-> pager'.cursor, rows |-> pager'.rows]
  BY <1>2
<1>7. HistoryTypes'
  BY <1>2, <1>4, <1>5, <1>6 DEF HistoryInv, HistoryTypes, Kept
<1>8. CASE adrift /\ pager.pc # "idle"
  BY <1>2, <1>7, <1>8 DEF HistoryInv, Paging, Paged
<1>9. ASSUME pager.pc = "idle" \/ ~adrift PROVE HistoryInv'
  <2>1. PICK p \in 0..Len(listing), e \in 0..Len(listing) :
           /\ IF pager.pc = "idle" THEN p = 0 ELSE p \in 1..Len(listing) /\ listing[p] = pager.cursor
           /\ p <= e /\ Len(shown) = e - p
           /\ \A i \in 1..e - p : shown[i] = listing[p + i]
           /\ IF more THEN p < e /\ Last(shown) = listing[e] ELSE e = Len(listing)
    BY <1>1, <1>2, <1>9, PageIs
  <2>2. /\ AtRest' \subseteq Kept /\ Kept \subseteq first' \cup moved
        /\ \A i \in 1..Len(pager.rows) : pager.rows[i] \in first' \cup moved
        /\ PagedTo(p) \/ (p = 0 /\ Len(pager.rows) = 0)
        /\ pager.pc = "idle" \/ AtRest' = AtRest
    <3>1. CASE pager.pc = "idle"
      BY <1>2, <2>1, <3>1 DEF HistoryInv, HistoryTypes, AtRest
    <3>2. CASE pager.pc # "idle"
      <4>1. PICK x \in 1..Len(listing) : listing[x] = pager.cursor /\ PagedTo(x)
        BY <1>2, <1>9, <3>2 DEF HistoryInv, HistoryTypes, Paging
      <4>2. x = p
        <5>1. p \in 1..Len(listing) /\ listing[p] = pager.cursor
          BY <2>1, <3>2
        <5> QED BY <1>3, <4>1, <5>1
      <4>3. \A t : t \in ToSet(pager.rows) <=> \E i \in 1..Len(pager.rows) : pager.rows[i] = t
        BY <1>3, KeptIs
      <4> QED BY <1>2, <1>9, <3>2, <4>1, <4>2, <4>3 DEF HistoryInv, HistoryTypes, Paging, AtRest
    <3> QED BY <3>1, <3>2
  <2>3. ASSUME NEW q \in 1..Len(listing), listing[q] \in AtRest'
        PROVE  /\ q <= p => GivenOnce(listing[q])
               /\ q > p => \A i \in 1..Len(pager.rows) : pager.rows[i] # listing[q]
    <3>1. CASE p = 0 /\ Len(pager.rows) = 0
      BY <3>1
    <3>2. CASE pager.pc # "idle" /\ PagedTo(p)
      <4>1. \A t : t \in ToSet(pager.rows) <=> \E i \in 1..Len(pager.rows) : pager.rows[i] = t
        BY <1>3, KeptIs
      <4> QED BY <2>2, <2>3, <3>2, <4>1 DEF PagedTo, Given
    <3>3. CASE pager.pc = "idle"
      <4>1. Len(pager.rows) = 0 /\ p = 0
        BY <2>1, <3>3 DEF HistoryInv, HistoryTypes
      <4> QED BY <4>1
    <3> QED BY <2>2, <3>1, <3>2, <3>3
  <2>4. \A i \in 1..Len(pager.rows) : next[i] = pager.rows[i] /\ i \in 1..Len(next)
    BY <1>3, <1>5
  <2>5. \A i \in 1..e - p : /\ Len(pager.rows) + i \in 1..Len(next)
                            /\ next[Len(pager.rows) + i] = listing[p + i]
    <3> SUFFICES ASSUME NEW i \in 1..e - p
        PROVE  Len(pager.rows) + i \in 1..Len(next) /\ next[Len(pager.rows) + i] = listing[p + i]
      OBVIOUS
    <3>1. PICK k : k = Len(pager.rows) + i
      OBVIOUS
    <3>2. k \in 1..Len(pager.rows) + Len(shown) /\ ~(k <= Len(pager.rows)) /\ k - Len(pager.rows) = i
      BY <1>3, <2>1, <3>1
    <3>3. next[k] = shown[i]
      BY <1>5, <3>2
    <3> QED BY <1>5, <2>1, <3>1, <3>2, <3>3
  <2>6. \A k \in 1..Len(next) : \/ k \in 1..Len(pager.rows)
                                \/ \E i \in 1..e - p : k = Len(pager.rows) + i
    <3> SUFFICES ASSUME NEW k \in 1..Len(next), k \notin 1..Len(pager.rows)
        PROVE  \E i \in 1..e - p : k = Len(pager.rows) + i
      OBVIOUS
    <3>1. k - Len(pager.rows) \in 1..e - p /\ k = Len(pager.rows) + (k - Len(pager.rows))
      BY <1>3, <1>5, <2>1
    <3> QED BY <3>1
  <2>7. ASSUME NEW q \in 1..Len(listing), listing[q] \in AtRest', q <= e
        PROVE  \E i \in 1..Len(next) : \A k \in 1..Len(next) : next[k] = listing[q] <=> k = i
    <3>1. CASE q <= p
      <4>1. PICK i \in 1..Len(pager.rows) : \A k \in 1..Len(pager.rows) : pager.rows[k] = listing[q] <=> k = i
        BY <2>3, <2>7, <3>1 DEF GivenOnce
      <4>2. ASSUME NEW n \in 1..e - p PROVE next[Len(pager.rows) + n] # listing[q] /\ Len(pager.rows) + n # i
        <5>1. p + n \in 1..Len(listing) /\ p + n # q
          BY <1>3, <2>1, <3>1
        <5>2. next[Len(pager.rows) + n] = listing[p + n]
          BY <2>5
        <5>3. Len(pager.rows) + n # i
          BY <1>3
        <5> QED BY <1>3, <5>1, <5>2, <5>3
      <4>3. \A k \in 1..Len(next) : next[k] = listing[q] <=> k = i
        BY <2>4, <2>6, <4>1, <4>2
      <4> QED BY <2>4, <4>3
    <3>2. CASE q > p
      <4>1. q - p \in 1..e - p /\ p + (q - p) = q
        BY <1>3, <2>7, <3>2
      <4>2. PICK i : i = Len(pager.rows) + (q - p)
        OBVIOUS
      <4>3. i \in 1..Len(next) /\ next[i] = listing[q]
        BY <2>5, <4>1, <4>2
      <4>4. ASSUME NEW n \in 1..e - p, next[Len(pager.rows) + n] = listing[q] PROVE Len(pager.rows) + n = i
        <5>1. next[Len(pager.rows) + n] = listing[p + n]
          BY <2>5
        <5>2. p + n \in 1..Len(listing)
          BY <1>3, <2>1
        <5>3. p + n = q
          BY <1>3, <4>4, <5>1, <5>2
        <5> QED BY <1>3, <4>2, <5>3
      <4>5. \A k \in 1..Len(pager.rows) : next[k] # listing[q]
        BY <2>3, <2>4, <2>7, <3>2
      <4>6. \A k \in 1..Len(next) : next[k] = listing[q] <=> k = i
        BY <2>6, <4>3, <4>4, <4>5
      <4> QED BY <4>3, <4>6
    <3> QED BY <1>3, <3>1, <3>2
  <2>8. ASSUME NEW q \in 1..Len(listing), listing[q] \in AtRest', q > e
        PROVE  \A k \in 1..Len(next) : next[k] # listing[q]
    <3>1. ASSUME NEW n \in 1..e - p PROVE next[Len(pager.rows) + n] # listing[q]
      <4>1. p + n \in 1..Len(listing) /\ p + n # q
        BY <1>3, <2>1, <2>8
      <4>2. next[Len(pager.rows) + n] = listing[p + n]
        BY <2>5
      <4> QED BY <1>3, <4>1, <4>2
    <3>2. q > p
      BY <1>3, <2>1, <2>8
    <3> QED BY <2>3, <2>4, <2>6, <2>8, <3>1, <3>2
  <2>9. \A t : t \in ToSet(next) <=> \E i \in 1..Len(next) : next[i] = t
    BY <1>5, KeptIs
  <2>10. ToSet(next) \subseteq first' \cup moved
    <3>1. \A i \in 1..e - p : listing[p + i] \in Kept
      <4> SUFFICES ASSUME NEW i \in 1..e - p PROVE listing[p + i] \in Kept
        OBVIOUS
      <4>1. p + i \in 1..Len(listing)
        BY <1>3, <2>1
      <4> QED BY <1>3, <4>1
    <3>2. \A k \in 1..Len(next) : next[k] \in first' \cup moved
      <4> SUFFICES ASSUME NEW k \in 1..Len(next) PROVE next[k] \in first' \cup moved
        OBVIOUS
      <4>1. CASE k \in 1..Len(pager.rows)
        BY <2>2, <2>4, <4>1
      <4>2. CASE k \notin 1..Len(pager.rows)
        <5>1. PICK i \in 1..e - p : k = Len(pager.rows) + i
          BY <2>6, <4>2
        <5>2. next[k] = listing[p + i]
          BY <2>5, <5>1
        <5> QED BY <2>2, <3>1, <5>2
      <4> QED BY <4>1, <4>2
    <3> QED BY <2>9, <3>2
  <2>11. CASE more
    <3>1. e \in 1..Len(listing) /\ listing[e] = pager'.cursor
      BY <1>3, <1>6, <2>1, <2>11
    <3>2. PagedTo(e)'
      <4>1. listing' = listing /\ pager'.rows = next
        BY <1>2, <1>6
      <4>2. ASSUME NEW q \in 1..Len(listing), listing[q] \in AtRest'
            PROVE  IF q <= e THEN \E i \in 1..Len(next) : \A k \in 1..Len(next) : next[k] = listing[q] <=> k = i
                             ELSE listing[q] \notin ToSet(next)
        <5>1. q <= e \/ q > e
          BY <1>3, <2>1
        <5>2. q > e => ~(q <= e)
          BY <1>3, <2>1
        <5> QED BY <2>7, <2>8, <2>9, <4>2, <5>1, <5>2
      <4> QED BY <4>1, <4>2 DEF PagedTo, GivenOnce, Given
    <3>3. Paging'
      BY <1>2, <1>6, <2>2, <2>10, <3>1, <3>2 DEF Paging, Kept
    <3>4. Paged'
      BY <1>6, <2>11 DEF Paged
    <3> QED BY <1>7, <3>3, <3>4 DEF HistoryInv
  <2>12. CASE ~more
    <3>1. \A t \in AtRest' : GivenOnce(t)'
      <4> SUFFICES ASSUME NEW t \in AtRest' PROVE GivenOnce(t)'
        OBVIOUS
      <4>1. PICK q \in 1..Len(listing) : listing[q] = t
        BY <1>3, <2>2
      <4>2. q <= e
        BY <1>3, <2>1, <2>12
      <4>3. \E i \in 1..Len(next) : \A k \in 1..Len(next) : next[k] = t <=> k = i
        BY <2>7, <4>1, <4>2
      <4> QED BY <1>6, <4>3 DEF GivenOnce
    <3>2. Paged'
      BY <1>2, <1>6, <2>10, <3>1 DEF Paged
    <3>3. Paging'
      BY <1>6, <2>12 DEF Paging
    <3> QED BY <1>7, <3>2, <3>3 DEF HistoryInv
  <2> QED BY <2>11, <2>12
<1> QED BY <1>8, <1>9

LEMMA HistorySame ==
  ASSUME HistoryInv, UNCHANGED <<listVars, pager, first>>
  PROVE  HistoryInv'
<1>1. UNCHANGED <<listing, used, moved, adrift, pager, first>>
  BY DEF listVars
<1>2. HistoryTypes'
  BY <1>1 DEF HistoryInv, HistoryTypes, Kept
<1>3. Paging'
  <2>1. AtRest' = AtRest /\ Kept' = Kept
    BY <1>1 DEF AtRest, Kept
  <2>2. \A p : PagedTo(p)' <=> PagedTo(p)
    BY <1>1, <2>1 DEF PagedTo, GivenOnce, Given
  <2> QED BY <1>1, <2>1, <2>2 DEF HistoryInv, Paging
<1>4. Paged'
  BY <1>1 DEF HistoryInv, Paged, AtRest, GivenOnce
<1> QED BY <1>2, <1>3, <1>4 DEF HistoryInv

LEMMA HistoryStep ==
  ASSUME HistoryInv, [HistoryNext]_historyVars
  PROVE  HistoryInv'
<1>1. ASSUME NEW t \in Threads, RenameThread(t) \/ TurnEnds(t) PROVE HistoryInv'
  BY <1>1, RowTouched DEF RenameThread, TurnEnds
<1>2. ASSUME NEW t \in Threads, ResolveThread(t) \/ CreateDiscussion(t) PROVE HistoryInv'
  BY <1>2, RowInserted DEF ResolveThread, CreateDiscussion
<1>3. CASE SaveEntry \/ SaveFails \/ UNCHANGED historyVars
  BY <1>3, HistorySame DEF SaveEntry, SaveFails, historyVars
<1> QED
  BY <1>1, <1>2, <1>3, ListKeeps, RowDeleted, RowsImported DEF HistoryNext

\* conversationHistoryService.ts: what a client that pages was given, and where its cursor
\* stands in a list that turns, renamings, deletions and imports change, stay as HistoryInv says.
THEOREM HistoryInvariant == HistorySpec => []HistoryInv
BY HistoryStart, HistoryStep, PTL DEF HistorySpec

\* conversationHistoryService.ts, "cursor paging never skips or duplicates a row": for any
\* threads, changes of the list and size of a page, unless the cursor's own row moved.
THEOREM HistorySafety == HistorySpec => []PagesOnce
<1>1. HistoryInv => PagesOnce
  BY HistoryInvTells
<1> QED BY <1>1, HistoryInvariant, PTL

-----------------------------------------------------------------------------
(* Sums.                                                                    *)

IsSum(h, f, S) == h = [T \in SUBSET S |->
    IF T = {} THEN 0 ELSE LET x == CHOOSE x \in T : TRUE IN f[x] + h[T \ {x}]]

\* The rows of the elements of T, where parts divides rows.
Covers(parts, T) == UNION {parts[x] : x \in T}

LEMMA DisjointUnion ==
  ASSUME NEW A, NEW B, IsFiniteSet(A), IsFiniteSet(B), A \cap B = {}
  PROVE  /\ Cardinality(A \cup B) = Cardinality(A) + Cardinality(B)
         /\ Cardinality(A \cup B) \in Nat
<1>1. Cardinality(A \cup B) = Cardinality(A) + Cardinality(B) - Cardinality(A \cap B)
  BY FS_Union
<1>2. Cardinality(A \cap B) = 0 /\ Cardinality(A) \in Nat /\ Cardinality(B) \in Nat
  BY FS_EmptySet, FS_CardinalityType
<1> QED BY <1>1, <1>2

LEMMA CoversOne ==
  ASSUME NEW S, IsFiniteSet(S), NEW parts,
         \A x \in S : IsFiniteSet(parts[x]),
         \A x, y \in S : x # y => parts[x] \cap parts[y] = {},
         NEW T \in SUBSET S, NEW x \in T
  PROVE  /\ IsFiniteSet(Covers(parts, T))
         /\ Cardinality(Covers(parts, T)) \in Nat
         /\ Cardinality(Covers(parts, T)) = Cardinality(parts[x]) + Cardinality(Covers(parts, T \ {x}))
<1>1. IsFiniteSet(T) /\ IsFiniteSet(T \ {x})
  BY FS_Subset, FS_RemoveElement
<1>2. \A U \in SUBSET T : IsFiniteSet(Covers(parts, U))
  <2> SUFFICES ASSUME NEW U \in SUBSET T PROVE IsFiniteSet(Covers(parts, U))
    OBVIOUS
  <2>1. IsFiniteSet(U)
    BY <1>1, FS_Subset
  <2>2. IsFiniteSet({parts[y] : y \in U})
    <3>1. [y \in U |-> parts[y]] \in Surjection(U, {parts[y] : y \in U})
      BY DEF Surjection
    <3> QED BY <2>1, <3>1, FS_Surjection
  <2>3. \A W \in {parts[y] : y \in U} : IsFiniteSet(W)
    OBVIOUS
  <2> QED BY <2>2, <2>3, FS_UNION DEF Covers
<1>3. Covers(parts, T) = parts[x] \cup Covers(parts, T \ {x})
  BY DEF Covers
<1>4. parts[x] \cap Covers(parts, T \ {x}) = {}
  BY DEF Covers
<1>5. IsFiniteSet(parts[x]) /\ IsFiniteSet(Covers(parts, T)) /\ IsFiniteSet(Covers(parts, T \ {x}))
  BY <1>2
<1> QED BY <1>3, <1>4, <1>5, DisjointUnion

\* What is counted in disjoint parts adds up to the whole.
LEMMA PartsAdd ==
  ASSUME NEW S, IsFiniteSet(S), NEW f, NEW parts,
         \A x \in S : IsFiniteSet(parts[x]) /\ f[x] = Cardinality(parts[x]),
         \A x, y \in S : x # y => parts[x] \cap parts[y] = {}
  PROVE  Added(f, S) = Cardinality(Covers(parts, S))
<1> DEFINE h == [T \in SUBSET S |-> Cardinality(Covers(parts, T))]
<1>1. \A T \in SUBSET S : T # {} =>
        Cardinality(Covers(parts, T)) = f[CHOOSE x \in T : TRUE]
            + Cardinality(Covers(parts, T \ {CHOOSE x \in T : TRUE}))
  <2> SUFFICES ASSUME NEW T \in SUBSET S, T # {}
               PROVE  Cardinality(Covers(parts, T)) = f[CHOOSE x \in T : TRUE]
                        + Cardinality(Covers(parts, T \ {CHOOSE x \in T : TRUE}))
    OBVIOUS
  <2>1. PICK x : x = CHOOSE y \in T : TRUE
    OBVIOUS
  <2>2. x \in T
    BY <2>1
  <2>3. Cardinality(Covers(parts, T)) = Cardinality(parts[x]) + Cardinality(Covers(parts, T \ {x}))
    BY <2>2, CoversOne
  <2> QED BY <2>1, <2>2, <2>3
<1>2. Covers(parts, {}) = {}
  BY DEF Covers
<1>3. IsSum(h, f, S)
  <2>1. \A T \in SUBSET S :
          Cardinality(Covers(parts, T)) =
            IF T = {} THEN 0 ELSE LET x == CHOOSE x \in T : TRUE IN f[x] + h[T \ {x}]
    BY <1>1, <1>2, FS_EmptySet
  <2> QED BY <2>1 DEF IsSum
<1> HIDE DEF h
<1> DEFINE sum[T \in SUBSET S] ==
        IF T = {} THEN 0 ELSE LET x == CHOOSE x \in T : TRUE IN f[x] + sum[T \ {x}]
<1>4. IsSum(sum, f, S)
  <2>1. \E w : IsSum(w, f, S)
    BY <1>3
  <2> QED BY <2>1 DEF IsSum
<1>5. Added(f, S) = sum[S]
  BY DEF Added
<1> HIDE DEF sum
<1> DEFINE N == {n \in Nat : \A T \in SUBSET S : Cardinality(T) = n => sum[T] = h[T]}
<1>6. 0 \in N
  <2> SUFFICES ASSUME NEW T \in SUBSET S, Cardinality(T) = 0 PROVE sum[T] = h[T]
    OBVIOUS
  <2>1. T = {}
    BY FS_Subset, FS_EmptySet
  <2> QED BY <2>1, <1>3, <1>4 DEF IsSum
<1>7. ASSUME NEW n \in Nat, n \in N PROVE n + 1 \in N
  <2> SUFFICES ASSUME NEW T \in SUBSET S, Cardinality(T) = n + 1 PROVE sum[T] = h[T]
    OBVIOUS
  <2>1. IsFiniteSet(T) /\ T # {}
    BY FS_Subset, FS_EmptySet
  <2>2. PICK x : x = CHOOSE y \in T : TRUE
    OBVIOUS
  <2>3. x \in T
    BY <2>1, <2>2
  <2>4. T \ {x} \in SUBSET S /\ Cardinality(T \ {x}) = n
    <3>1. Cardinality(T \ {x}) = Cardinality(T) - 1
      BY <2>1, <2>3, FS_RemoveElement
    <3> QED BY <3>1
  <2>5. sum[T \ {x}] = h[T \ {x}]
    BY <1>7, <2>4
  <2>6. sum[T] = f[x] + sum[T \ {x}]
    BY <1>4, <2>1, <2>2 DEF IsSum
  <2>7. h[T] = f[x] + h[T \ {x}]
    BY <1>3, <2>1, <2>2 DEF IsSum
  <2> QED BY <2>5, <2>6, <2>7
<1> HIDE DEF N
<1>8. Nat \subseteq N
  BY <1>6, <1>7, NatInduct
<1>9. Cardinality(S) \in N
  BY <1>8, FS_CardinalityType
<1>10. sum[S] = h[S]
  BY <1>9 DEF N
<1> QED BY <1>5, <1>10 DEF h

-----------------------------------------------------------------------------
(* The rows of the log.                                                     *)

KeyPrefixes == UsageKeys \cup {"env_fallback", "none"}
LogRows == [id : Nat, key : UsageKeys \cup {NoKey}, prefix : KeyPrefixes, provider : UsageProviders,
            source : Sources, status : Statuses]

LEMMA RowsFinite ==
  ASSUME NEW s \in Seq(LogRows)
  PROVE  /\ Len(s) \in Nat /\ DOMAIN s = 1..Len(s)
         /\ IsFiniteSet(DOMAIN s) /\ Cardinality(DOMAIN s) = Len(s)
         /\ \A i \in DOMAIN s : s[i] \in LogRows
<1>1. Len(s) \in Nat /\ DOMAIN s = 1..Len(s) /\ \A i \in DOMAIN s : s[i] \in LogRows
  BY LenProperties, ElementOfSeq
<1>2. IsFiniteSet(1..Len(s)) /\ Cardinality(1..Len(s)) = Len(s)
  BY <1>1, FS_Interval
<1> QED BY <1>1, <1>2

LEMMA SomeRowsFinite ==
  ASSUME NEW s \in Seq(LogRows), NEW R \in SUBSET DOMAIN s
  PROVE  IsFiniteSet(R) /\ Cardinality(R) \in Nat /\ Cardinality(R) <= Len(s)
BY RowsFinite, FS_Subset, FS_CardinalityType

\* The groups of a provider count its rows.
LEMMA ByGroupIs ==
  ASSUME NEW s \in Seq(LogRows), NEW p, NEW statuses
  PROVE  ByGroup(s, p, statuses) =
           Cardinality({i \in DOMAIN s : s[i].provider = p /\ s[i].status \in statuses})
<1> DEFINE groups == {g \in Groups(s) : g.provider = p /\ g.status \in statuses}
           f == [g \in groups |-> g.n]
           parts == [g \in groups |-> RowsOf(s, g.provider, g.status)]
<1>1. IsFiniteSet(groups)
  <2>1. PICK group : group = [i \in DOMAIN s |-> [provider |-> s[i].provider, status |-> s[i].status,
                            n |-> Cardinality(RowsOf(s, s[i].provider, s[i].status))]]
    OBVIOUS
  <2>2. group \in Surjection(DOMAIN s, Groups(s))
    BY <2>1 DEF Surjection, Groups
  <2>3. IsFiniteSet(Groups(s))
    BY <2>2, RowsFinite, FS_Surjection
  <2> QED BY <2>3, FS_Subset
<1>2. \A g \in groups : IsFiniteSet(parts[g]) /\ f[g] = Cardinality(parts[g])
  <2> SUFFICES ASSUME NEW g \in groups PROVE IsFiniteSet(parts[g]) /\ f[g] = Cardinality(parts[g])
    OBVIOUS
  <2>1. parts[g] = RowsOf(s, g.provider, g.status) /\ f[g] = g.n
    OBVIOUS
  <2>2. IsFiniteSet(parts[g])
    BY <2>1, SomeRowsFinite DEF RowsOf
  <2>3. g.n = Cardinality(RowsOf(s, g.provider, g.status))
    BY DEF Groups
  <2> QED BY <2>1, <2>2, <2>3
<1>3. \A g, h \in groups : g # h => parts[g] \cap parts[h] = {}
  <2> SUFFICES ASSUME NEW g \in groups, NEW h \in groups, NEW i \in parts[g], i \in parts[h]
               PROVE  g = h
    OBVIOUS
  <2>1. g.provider = s[i].provider /\ g.status = s[i].status
    BY DEF RowsOf
  <2>2. h.provider = s[i].provider /\ h.status = s[i].status
    BY DEF RowsOf
  <2>3. /\ g = [provider |-> g.provider, status |-> g.status,
                n |-> Cardinality(RowsOf(s, g.provider, g.status))]
        /\ h = [provider |-> h.provider, status |-> h.status,
                n |-> Cardinality(RowsOf(s, h.provider, h.status))]
    BY DEF Groups
  <2> QED BY <2>1, <2>2, <2>3
<1>4. Covers(parts, groups) = {i \in DOMAIN s : s[i].provider = p /\ s[i].status \in statuses}
  <2>1. ASSUME NEW i \in DOMAIN s, s[i].provider = p, s[i].status \in statuses
        PROVE  i \in Covers(parts, groups)
    <3>1. PICK g : g = [provider |-> s[i].provider, status |-> s[i].status,
                        n |-> Cardinality(RowsOf(s, s[i].provider, s[i].status))]
      OBVIOUS
    <3>2. g \in groups /\ g.provider = s[i].provider /\ g.status = s[i].status
      BY <2>1, <3>1 DEF Groups
    <3>3. i \in parts[g]
      BY <3>2 DEF RowsOf
    <3> QED BY <3>2, <3>3 DEF Covers
  <2>2. ASSUME NEW g \in groups, NEW i \in parts[g]
        PROVE  i \in DOMAIN s /\ s[i].provider = p /\ s[i].status \in statuses
    BY DEF RowsOf
  <2> QED BY <2>1, <2>2 DEF Covers
<1>5. ByGroup(s, p, statuses) = Added(f, groups)
  BY DEF ByGroup
<1> HIDE DEF groups, f, parts
<1>6. Added(f, groups) = Cardinality(Covers(parts, groups))
  BY <1>1, <1>2, <1>3, PartsAdd
<1> QED BY <1>4, <1>5, <1>6

\* The rows of R whose field has the value v.
Having(R, field, v) == {i \in R : field[i] = v}

\* What is counted for each value of a field adds up.
LEMMA FieldsAdd ==
  ASSUME NEW s \in Seq(LogRows), NEW R \in SUBSET DOMAIN s, NEW V, IsFiniteSet(V),
         NEW field, \A i \in R : field[i] \in V,
         NEW f, \A v \in V : f[v] = Cardinality(Having(R, field, v))
  PROVE  Added(f, V) = Cardinality(R)
<1> DEFINE parts == [v \in V |-> {i \in R : field[i] = v}]
<1>1. \A v \in V : IsFiniteSet(parts[v]) /\ f[v] = Cardinality(parts[v])
  <2> SUFFICES ASSUME NEW v \in V PROVE IsFiniteSet(parts[v]) /\ f[v] = Cardinality(parts[v])
    OBVIOUS
  <2>1. parts[v] = {i \in R : field[i] = v} /\ parts[v] = Having(R, field, v)
    BY DEF Having
  <2> HIDE DEF parts
  <2>2. parts[v] \in SUBSET DOMAIN s
    BY <2>1
  <2> QED BY <2>1, <2>2, SomeRowsFinite
<1>2. \A v, w \in V : v # w => parts[v] \cap parts[w] = {}
  OBVIOUS
<1>3. Covers(parts, V) = R
  <2>1. \A i \in R : field[i] \in V /\ i \in parts[field[i]]
    OBVIOUS
  <2>2. \A v \in V : parts[v] \subseteq R
    OBVIOUS
  <2> HIDE DEF parts
  <2> QED BY <2>1, <2>2 DEF Covers
<1> HIDE DEF parts
<1>4. Added(f, V) = Cardinality(Covers(parts, V))
  BY <1>1, <1>2, PartsAdd
<1> QED BY <1>3, <1>4

LEMMA ProvidersAdd ==
  ASSUME NEW s \in Seq(LogRows), NEW statuses,
         NEW f, \A p \in UsageProviders : f[p] = ByGroup(s, p, statuses)
  PROVE  Added(f, UsageProviders) = Cardinality(WithStatus(s, statuses))
<1> DEFINE R == WithStatus(s, statuses)
           field == [i \in DOMAIN s |-> s[i].provider]
<1>1. R \in SUBSET DOMAIN s /\ IsFiniteSet(UsageProviders)
  BY UsageAssumption DEF WithStatus
<1>2. \A i \in R : field[i] \in UsageProviders
  BY RowsFinite DEF LogRows, WithStatus
<1>3. \A p \in UsageProviders : f[p] = Cardinality(Having(R, field, p))
  <2> SUFFICES ASSUME NEW p \in UsageProviders PROVE f[p] = Cardinality(Having(R, field, p))
    OBVIOUS
  <2>1. f[p] = Cardinality({i \in DOMAIN s : s[i].provider = p /\ s[i].status \in statuses})
    BY ByGroupIs
  <2>2. {i \in DOMAIN s : s[i].provider = p /\ s[i].status \in statuses} = Having(R, field, p)
    BY DEF WithStatus, Having
  <2> QED BY <2>1, <2>2
<1> HIDE DEF R, field
<1>4. Added(f, UsageProviders) = Cardinality(R)
  BY <1>1, <1>2, <1>3, FieldsAdd
<1> QED BY <1>4 DEF R

\* The statuses of a summary do not overlap.
LEMMA StatusesApart ==
  ASSUME NEW s \in Seq(LogRows)
  PROVE  Cardinality(WithStatus(s, {"completed"})) + Cardinality(WithStatus(s, {"failed"}))
           + Cardinality(WithStatus(s, RateLimited)) <= Len(s)
<1>1. PICK a, b, c : /\ a = WithStatus(s, {"completed"}) /\ b = WithStatus(s, {"failed"})
                     /\ c = WithStatus(s, RateLimited)
  OBVIOUS
<1>2. /\ a \in SUBSET DOMAIN s /\ b \in SUBSET DOMAIN s /\ c \in SUBSET DOMAIN s
      /\ a \cap b = {} /\ (a \cup b) \cap c = {}
  BY <1>1 DEF WithStatus, RateLimited
<1>3. /\ IsFiniteSet(a) /\ IsFiniteSet(b) /\ IsFiniteSet(c) /\ IsFiniteSet(a \cup b)
      /\ Cardinality((a \cup b) \cup c) <= Len(s)
  <2>1. a \cup b \in SUBSET DOMAIN s /\ (a \cup b) \cup c \in SUBSET DOMAIN s
    BY <1>2
  <2> QED BY <1>2, <2>1, SomeRowsFinite
<1>4. Cardinality(a \cup b) = Cardinality(a) + Cardinality(b)
  BY <1>2, <1>3, DisjointUnion
<1>5. Cardinality((a \cup b) \cup c) = Cardinality(a \cup b) + Cardinality(c)
  BY <1>2, <1>3, DisjointUnion
<1> QED BY <1>1, <1>3, <1>4, <1>5

LEMMA ProviderHitsAdd ==
  ASSUME NEW s \in Seq(LogRows), NEW f,
         \A v \in UsageProviders : f[v] = Cardinality(HitsAt(s, v))
  PROVE  Added(f, UsageProviders) = Cardinality(Hits(s))
<1> DEFINE parts == [v \in UsageProviders |-> HitsAt(s, v)]
<1>1. Hits(s) \in SUBSET DOMAIN s
  BY DEF Hits, WithStatus
<1>2. IsFiniteSet(UsageProviders)
  BY UsageAssumption
<1>3. \A v \in UsageProviders : IsFiniteSet(parts[v]) /\ f[v] = Cardinality(parts[v])
  <2> SUFFICES ASSUME NEW v \in UsageProviders PROVE IsFiniteSet(parts[v]) /\ f[v] = Cardinality(parts[v])
    OBVIOUS
  <2>1. parts[v] = HitsAt(s, v) /\ HitsAt(s, v) \in SUBSET DOMAIN s
    BY <1>1 DEF HitsAt
  <2> QED BY <2>1, SomeRowsFinite
<1>4. \A v, w \in UsageProviders : v # w => parts[v] \cap parts[w] = {}
  BY DEF HitsAt
<1>5. Covers(parts, UsageProviders) = Hits(s)
  <2>1. ASSUME NEW i \in Hits(s) PROVE i \in Covers(parts, UsageProviders)
    <3>1. s[i].provider \in UsageProviders
      BY <1>1, RowsFinite DEF LogRows
    <3>2. i \in parts[s[i].provider]
      BY <3>1 DEF HitsAt
    <3> QED BY <3>1, <3>2 DEF Covers
  <2>2. ASSUME NEW v \in UsageProviders, NEW i \in parts[v] PROVE i \in Hits(s)
    BY DEF HitsAt
  <2> QED BY <2>1, <2>2 DEF Covers
<1> HIDE DEF parts
<1>6. Added(f, UsageProviders) = Cardinality(Covers(parts, UsageProviders))
  BY <1>2, <1>3, <1>4, PartsAdd
<1> QED BY <1>5, <1>6

LEMMA SourceHitsAdd ==
  ASSUME NEW s \in Seq(LogRows), NEW f,
         \A v \in Sources : f[v] = Cardinality(HitsFrom(s, v))
  PROVE  Added(f, Sources) = Cardinality(Hits(s))
<1> DEFINE parts == [v \in Sources |-> HitsFrom(s, v)]
<1>1. Hits(s) \in SUBSET DOMAIN s
  BY DEF Hits, WithStatus
<1>2. IsFiniteSet(Sources)
  <2>1. IsFiniteSet({"openai_compat"} \cup {"internal_chat"})
    BY FS_Singleton, FS_AddElement
  <2>2. Sources = {"openai_compat"} \cup {"internal_chat"}
    BY DEF Sources
  <2> QED BY <2>1, <2>2
<1>3. \A v \in Sources : IsFiniteSet(parts[v]) /\ f[v] = Cardinality(parts[v])
  <2> SUFFICES ASSUME NEW v \in Sources PROVE IsFiniteSet(parts[v]) /\ f[v] = Cardinality(parts[v])
    OBVIOUS
  <2>1. parts[v] = HitsFrom(s, v) /\ HitsFrom(s, v) \in SUBSET DOMAIN s
    BY <1>1 DEF HitsFrom
  <2> QED BY <2>1, SomeRowsFinite
<1>4. \A v, w \in Sources : v # w => parts[v] \cap parts[w] = {}
  BY DEF HitsFrom
<1>5. Covers(parts, Sources) = Hits(s)
  <2>1. ASSUME NEW i \in Hits(s) PROVE i \in Covers(parts, Sources)
    <3>1. s[i].source \in Sources
      BY <1>1, RowsFinite DEF LogRows
    <3>2. i \in parts[s[i].source]
      BY <3>1 DEF HitsFrom
    <3> QED BY <3>1, <3>2 DEF Covers
  <2>2. ASSUME NEW v \in Sources, NEW i \in parts[v] PROVE i \in Hits(s)
    BY DEF HitsFrom
  <2> QED BY <2>1, <2>2 DEF Covers
<1> HIDE DEF parts
<1>6. Added(f, Sources) = Cardinality(Covers(parts, Sources))
  BY <1>2, <1>3, <1>4, PartsAdd
<1> QED BY <1>5, <1>6

LEMMA KeysAdd ==
  ASSUME NEW s \in Seq(LogRows)
  PROVE  Added([g \in KeyGroups(s) |-> g.hits], KeyGroups(s)) = Cardinality(Hits(s))
<1> DEFINE groups == KeyGroups(s)
           f == [g \in groups |-> g.hits]
           parts == [g \in groups |-> HitsOf(s, g.key, g.prefix)]
<1>1. Hits(s) \in SUBSET DOMAIN s
  BY DEF Hits, WithStatus
<1>2. IsFiniteSet(groups)
  <2>1. PICK group : group = [i \in Hits(s) |-> [key |-> s[i].key, prefix |-> s[i].prefix,
                            hits |-> Cardinality(HitsOf(s, s[i].key, s[i].prefix))]]
    OBVIOUS
  <2>2. group \in Surjection(Hits(s), groups)
    BY <2>1 DEF Surjection, KeyGroups
  <2> QED BY <1>1, <2>2, SomeRowsFinite, FS_Surjection
<1>3. \A g \in groups : IsFiniteSet(parts[g]) /\ f[g] = Cardinality(parts[g])
  <2> SUFFICES ASSUME NEW g \in groups PROVE IsFiniteSet(parts[g]) /\ f[g] = Cardinality(parts[g])
    OBVIOUS
  <2>1. parts[g] = HitsOf(s, g.key, g.prefix) /\ f[g] = g.hits
    OBVIOUS
  <2>2. IsFiniteSet(parts[g])
    BY <1>1, <2>1, SomeRowsFinite DEF HitsOf
  <2>3. g.hits = Cardinality(HitsOf(s, g.key, g.prefix))
    BY DEF KeyGroups
  <2> QED BY <2>1, <2>2, <2>3
<1>4. \A g, h \in groups : g # h => parts[g] \cap parts[h] = {}
  <2> SUFFICES ASSUME NEW g \in groups, NEW h \in groups, NEW i \in parts[g], i \in parts[h]
               PROVE  g = h
    OBVIOUS
  <2>1. g.key = s[i].key /\ g.prefix = s[i].prefix
    BY DEF HitsOf
  <2>2. h.key = s[i].key /\ h.prefix = s[i].prefix
    BY DEF HitsOf
  <2>3. /\ g = [key |-> g.key, prefix |-> g.prefix, hits |-> Cardinality(HitsOf(s, g.key, g.prefix))]
        /\ h = [key |-> h.key, prefix |-> h.prefix, hits |-> Cardinality(HitsOf(s, h.key, h.prefix))]
    BY DEF KeyGroups
  <2> QED BY <2>1, <2>2, <2>3
<1>5. Covers(parts, groups) = Hits(s)
  <2>1. ASSUME NEW i \in Hits(s) PROVE i \in Covers(parts, groups)
    <3>1. PICK g : g = [key |-> s[i].key, prefix |-> s[i].prefix,
                        hits |-> Cardinality(HitsOf(s, s[i].key, s[i].prefix))]
      OBVIOUS
    <3>2. g \in groups /\ g.key = s[i].key /\ g.prefix = s[i].prefix
      BY <3>1 DEF KeyGroups
    <3>3. i \in parts[g]
      BY <3>2 DEF HitsOf
    <3> QED BY <3>2, <3>3 DEF Covers
  <2>2. ASSUME NEW g \in groups, NEW i \in parts[g] PROVE i \in Hits(s)
    BY DEF HitsOf
  <2> QED BY <2>1, <2>2 DEF Covers
<1>6. [g \in KeyGroups(s) |-> g.hits] = f /\ KeyGroups(s) = groups
  OBVIOUS
<1> HIDE DEF groups, f, parts
<1>7. Added(f, groups) = Cardinality(Covers(parts, groups))
  BY <1>2, <1>3, <1>4, PartsAdd
<1> QED BY <1>5, <1>6, <1>7

\* The newest hits are as many as are asked for, or all.
LEMMA NewestAre ==
  ASSUME NEW n \in Nat, NEW hits, hits \subseteq 1..n, IsFiniteSet(hits)
  PROVE  Cardinality(Newest(hits)) =
           IF Cardinality(hits) < RecentEvents THEN Cardinality(hits) ELSE RecentEvents
<1>1. PICK new : new = Newest(hits)
  OBVIOUS
<1>2. PICK newer : newer = [i \in hits |-> {k \in hits : k > i}]
  OBVIOUS
<1>3. new = {i \in hits : Cardinality(newer[i]) < RecentEvents}
  BY <1>1, <1>2 DEF Newest
<1>4. \A i \in hits : /\ IsFiniteSet(newer[i]) /\ Cardinality(newer[i]) \in Nat
                      /\ newer[i] \subseteq hits
  BY <1>2, FS_Subset, FS_CardinalityType
<1>5. /\ IsFiniteSet(new) /\ Cardinality(new) \in Nat /\ Cardinality(hits) \in Nat
      /\ Cardinality(new) <= Cardinality(hits) /\ RecentEvents \in Nat
  BY <1>3, FS_Subset, FS_CardinalityType, UsageAssumption
<1>6. Cardinality(new) <= RecentEvents
  <2>1. CASE new = {}
    BY <1>5, <2>1, FS_EmptySet
  <2>2. CASE new # {}
    <3>0. new \subseteq Nat
      <4>1. new \subseteq hits /\ hits \subseteq Nat
        BY <1>3
      <4> QED BY <4>1
    <3>1. PICK m \in new : \A y \in new : ~(y < m)
      BY <2>2, <3>0, NatLeast
    <3>2. new \subseteq newer[m] \cup {m}
      <4> SUFFICES ASSUME NEW y \in new, y # m PROVE y \in newer[m]
        OBVIOUS
      <4>1. m \in hits /\ y \in hits
        BY <1>3
      <4>2. m \in Nat /\ y \in Nat /\ ~(y < m)
        BY <3>1, <4>1
      <4>3. y > m
        BY <4>2
      <4> QED BY <1>2, <4>1, <4>3
    <3>3. /\ IsFiniteSet(newer[m] \cup {m})
          /\ Cardinality(newer[m] \cup {m}) = Cardinality(newer[m]) + 1
      <4>1. m \notin newer[m]
        BY <1>2, <1>3
      <4> QED BY <1>3, <1>4, <4>1, FS_AddElement
    <3>4. Cardinality(new) <= Cardinality(newer[m] \cup {m})
      BY <3>2, <3>3, FS_Subset
    <3>5. Cardinality(newer[m]) < RecentEvents /\ Cardinality(newer[m]) \in Nat
      BY <1>3, <1>4
    <3> QED BY <1>5, <3>3, <3>4, <3>5
  <2> QED BY <2>1, <2>2
<1>7. CASE new = hits
  BY <1>1, <1>5, <1>6, <1>7
<1>8. CASE new # hits
  <2>1. hits \ new # {}
    BY <1>3, <1>8
  <2>3. PICK x \in hits \ new : \A y \in hits \ new : x >= y
    <3>1. hits \ new \subseteq 0..n
      <4>1. \A i \in 1..n : i \in 0..n
        OBVIOUS
      <4> QED BY <4>1
    <3> QED BY <2>1, <3>1, NatGreatest
  <2>4. newer[x] \subseteq new
    <3> SUFFICES ASSUME NEW y \in newer[x], y \notin new PROVE FALSE
      OBVIOUS
    <3>1. y \in hits /\ y > x
      BY <1>2, <2>3
    <3>2. x >= y
      BY <2>3, <3>1
    <3> QED BY <2>3, <3>1, <3>2
  <2>5. Cardinality(newer[x]) <= Cardinality(new) /\ ~(Cardinality(newer[x]) < RecentEvents)
    BY <1>3, <1>5, <2>3, <2>4, FS_Subset
  <2>6. Cardinality(new) = RecentEvents
    BY <1>4, <1>5, <1>6, <2>3, <2>5
  <2> QED BY <1>1, <1>5, <2>6
<1> QED BY <1>7, <1>8

-----------------------------------------------------------------------------
(* The pages.                                                               *)

LEMMA PageMeans ==
  ASSUME NEW s, NEW c
  PROVE  Page(s, c) = SubSeq(Reverse(s), (c - 1) * PageSize + 1, Min({c * PageSize, Len(s)}))
BY DEF Page

\* A page has the rows of its ranks, counted from the newest.
LEMMA LogPageIs ==
  ASSUME NEW s \in Seq(LogRows), NEW q \in Nat
  PROVE  /\ \A i \in 1..Len(s) : Len(s) - i + 1 > q * PageSize /\ Len(s) - i + 1 <= (q + 1) * PageSize
                 => s[i] \in ToSet(Page(s, q + 1))
         /\ ToSet(Page(s, q + 1)) \subseteq ToSet(s)
         /\ Len(Page(s, q + 1)) < PageSize => Len(s) < (q + 1) * PageSize
<1>1. /\ Len(s) \in Nat /\ PageSize \in Nat /\ PageSize > 0
      /\ \A i \in 1..Len(s) : s[i] \in LogRows
      /\ ToSet(s) = {s[i] : i \in 1..Len(s)}
  BY RowsFinite, UsageAssumption DEF ToSet
<1>2. PICK n, m, z : n = Len(s) /\ m = q * PageSize /\ z = PageSize
  OBVIOUS
<1>3. n \in Nat /\ m \in Nat /\ z \in Nat /\ z > 0 /\ (q + 1) * PageSize = m + z /\ (q + 1 - 1) * PageSize = m
  BY <1>1, <1>2
<1>4. PICK r : r = Reverse(s)
  OBVIOUS
<1>5. r = [i \in 1..n |-> s[(n - i) + 1]]
  BY <1>2, <1>4 DEF Reverse
<1>6. \A i \in 1..n : (n - i) + 1 \in 1..n
  BY <1>3
<1>7. r \in Seq(LogRows) /\ Len(r) = n /\ \A i \in 1..n : r[i] = s[(n - i) + 1]
  BY <1>1, <1>2, <1>3, <1>5, <1>6
<1>8. PICK last : last = Min({m + z, n})
  OBVIOUS
<1>9. last = IF m + z <= n THEN m + z ELSE n
  BY <1>3, <1>8 DEF Min
<1>10. PICK window : window = SubSeq(r, m + 1, last)
  OBVIOUS
<1>11. Page(s, q + 1) = window
  <2>1. PICK c : c = q + 1
    OBVIOUS
  <2>2. Page(s, c) = SubSeq(Reverse(s), (c - 1) * PageSize + 1, Min({c * PageSize, Len(s)}))
    BY PageMeans
  <2>3. (c - 1) * PageSize + 1 = m + 1 /\ c * PageSize = m + z
    BY <1>3, <2>1
  <2> QED BY <1>2, <1>4, <1>8, <1>10, <2>1, <2>2, <2>3, Zenon
<1>12. CASE m + 1 <= last
  <2>1. m + 1 \in Nat /\ last \in Nat /\ m + 1 >= 1 /\ last <= n
    BY <1>3, <1>9
  <2>2. \A i \in (m + 1)..last : r[i] \in LogRows
    BY <1>3, <1>7, <2>1, ElementOfSeq
  <2>3. /\ window \in Seq(LogRows) /\ Len(window) = last - (m + 1) + 1
        /\ \A i \in 1..last - (m + 1) + 1 : window[i] = r[m + 1 + i - 1]
    BY <1>10, <1>12, <2>1, <2>2, SubSeqProperties
  <2>4. /\ Len(window) = last - m /\ ToSet(window) = {window[i] : i \in 1..(last - m)}
        /\ \A i \in 1..(last - m) : window[i] = r[m + i] /\ m + i \in 1..n
    BY <1>3, <2>1, <2>3 DEF ToSet
  <2>5. ASSUME NEW i \in 1..n, n - i + 1 > m, n - i + 1 <= m + z PROVE s[i] \in ToSet(window)
    <3>1. PICK k : k = n - i + 1 - m
      OBVIOUS
    <3>2. k \in 1..(last - m) /\ m + k = n - i + 1 /\ (n - (n - i + 1)) + 1 = i /\ n - i + 1 \in 1..n
      BY <1>3, <1>9, <2>1, <2>5, <3>1
    <3>3. window[k] = s[i]
      BY <1>7, <2>4, <3>2
    <3> QED BY <2>4, <3>2, <3>3
  <2>6. ToSet(window) \subseteq ToSet(s)
    BY <1>1, <1>2, <1>6, <1>7, <2>4
  <2>7. Len(window) < z => n < m + z
    BY <1>3, <1>9, <2>1, <2>4
  <2> QED BY <1>2, <1>3, <1>11, <2>5, <2>6, <2>7
<1>13. CASE ~(m + 1 <= last)
  <2>1. n <= m
    BY <1>3, <1>9, <1>13
  <2>2. window = <<>>
    BY <1>3, <1>9, <1>10, <1>13
  <2>3. ToSet(window) = {} /\ Len(window) = 0
    BY <2>2 DEF ToSet
  <2>4. \A i \in 1..n : ~(n - i + 1 > m)
    BY <1>3, <2>1
  <2>5. n < m + z
    BY <1>3, <2>1
  <2> QED BY <1>2, <1>3, <1>11, <2>3, <2>4, <2>5
<1> QED BY <1>12, <1>13

-----------------------------------------------------------------------------
(* The steps.                                                               *)

UsageTypes ==
    /\ usage \in Seq(LogRows)
    /\ rowsMade \in Nat
    /\ madeKeys \subseteq UsageKeys
    /\ reader.page \in Nat /\ (reader.pc = "idle" => reader.page = 0)
    /\ reader.first \subseteq 1..rowsMade
    /\ \A i \in 1..Len(usage) : usage[i].id \in 1..rowsMade

\* A key's rows have the prefix the key was made with.
PrefixesHad == \A i \in 1..Len(usage) :
    usage[i].key \in UsageKeys => usage[i].prefix = usage[i].key

\* Counted from the newest, a row moves towards the end only: what has not been read
\* yet is behind the pages that have.
NotYetRead == \A i \in 1..Len(usage) :
    usage[i].id \in reader.first /\ usage[i].id \notin reader.items =>
        Len(usage) - i + 1 > reader.page * PageSize

\* The inductive invariant.
UsageInv == UsageTypes /\ PrefixesHad /\ NotYetRead /\ PagesMissNothing

LEMMA InitUsage == UsageInit => UsageInv
<1> SUFFICES ASSUME UsageInit PROVE UsageInv
  OBVIOUS
<1>1. usage = <<>> /\ rowsMade = 0 /\ madeKeys \subseteq UsageKeys
      /\ reader.pc = "idle" /\ reader.page = 0 /\ reader.first = {}
  BY UsageAssumption DEF UsageInit, NoReader
<1>2. Len(usage) = 0 /\ usage \in Seq(LogRows)
  BY <1>1
<1> QED BY <1>1, <1>2 DEF UsageInv, UsageTypes, PrefixesHad, NotYetRead, PagesMissNothing

LEMMA InsertKeeps ==
  ASSUME UsageInv, NEW new \in LogRows, new.id = rowsMade + 1,
         new.key \in UsageKeys => new.prefix = new.key,
         InsertRow(new)
  PROVE  UsageInv'
<1>1. usage' = Append(usage, new) /\ rowsMade' = rowsMade + 1 /\ reader' = reader /\ madeKeys' = madeKeys
  BY DEF InsertRow
<1>2. /\ usage \in Seq(LogRows) /\ Len(usage) \in Nat /\ rowsMade \in Nat
      /\ reader.page \in Nat /\ reader.first \subseteq 1..rowsMade
      /\ PageSize \in Nat
  BY LenProperties, UsageAssumption DEF UsageInv, UsageTypes
<1>3. PICK n, m : n = Len(usage) /\ m = reader.page * PageSize
  OBVIOUS
<1>4. n \in Nat /\ m \in Nat
  BY <1>2, <1>3
<1>5. /\ usage' \in Seq(LogRows) /\ Len(usage') = n + 1
      /\ \A i \in 1..n : usage'[i] = usage[i]
      /\ usage'[n + 1] = new
  BY <1>1, <1>2, <1>3
<1>6. \A i \in 1..(n + 1) : (i \in 1..n /\ usage'[i] = usage[i]) \/ (i = n + 1 /\ usage'[i] = new)
  BY <1>4, <1>5
<1>7. new.id \notin reader.first /\ new.id \in 1..rowsMade'
  BY <1>1, <1>2
<1>8. UsageTypes'
  <2>1. ASSUME NEW i \in 1..(n + 1) PROVE usage'[i].id \in 1..rowsMade'
    <3>1. CASE i \in 1..n /\ usage'[i] = usage[i]
      <4>1. usage[i].id \in 1..rowsMade
        BY <1>3, <3>1 DEF UsageInv, UsageTypes
      <4> QED BY <1>1, <1>2, <3>1, <4>1
    <3> QED BY <1>6, <1>7, <3>1
  <2>2. reader'.first \subseteq 1..rowsMade'
    BY <1>1, <1>2
  <2> QED BY <1>1, <1>2, <1>5, <2>1, <2>2 DEF UsageInv, UsageTypes
<1>9. PrefixesHad'
  <2> SUFFICES ASSUME NEW i \in 1..(n + 1), usage'[i].key \in UsageKeys
               PROVE  usage'[i].prefix = usage'[i].key
    BY <1>1, <1>5 DEF PrefixesHad
  <2>1. CASE i \in 1..n /\ usage'[i] = usage[i]
    BY <1>3, <2>1 DEF UsageInv, PrefixesHad
  <2>2. CASE i = n + 1 /\ usage'[i] = new
    BY <2>2
  <2> QED BY <1>6, <2>1, <2>2
<1>10. NotYetRead'
  <2> SUFFICES ASSUME NEW i \in 1..(n + 1), usage'[i].id \in reader.first, usage'[i].id \notin reader.items
               PROVE  n + 1 - i + 1 > m
    BY <1>1, <1>3, <1>5 DEF NotYetRead
  <2>1. i \in 1..n /\ usage'[i] = usage[i]
    BY <1>6, <1>7
  <2>2. n - i + 1 > m
    BY <1>3, <2>1 DEF UsageInv, NotYetRead
  <2> QED BY <1>4, <2>1, <2>2
<1>11. PagesMissNothing'
  <2>1. /\ ToSet(usage') = {usage'[i] : i \in 1..(n + 1)}
        /\ ToSet(usage) = {usage[i] : i \in 1..n}
    <3>1. DOMAIN usage' = 1..(n + 1) /\ DOMAIN usage = 1..n
      BY <1>2, <1>3, <1>5, LenProperties
    <3> QED BY <3>1 DEF ToSet
  <2> SUFFICES ASSUME reader.pc = "done", NEW i \in 1..(n + 1), usage'[i].id \in reader.first
               PROVE  usage'[i].id \in reader.items
    BY <1>1, <2>1 DEF PagesMissNothing
  <2>2. i \in 1..n /\ usage'[i] = usage[i]
    BY <1>6, <1>7
  <2> QED BY <2>1, <2>2 DEF UsageInv, PagesMissNothing
<1> QED BY <1>8, <1>9, <1>10, <1>11 DEF UsageInv

LEMMA StatusKeeps ==
  ASSUME UsageInv, NEW i \in DOMAIN usage, NEW status \in Statuses, SetStatus(i, status)
  PROVE  UsageInv'
<1>1. usage' = [usage EXCEPT ![i].status = status] /\ rowsMade' = rowsMade /\ reader' = reader /\ madeKeys' = madeKeys
  BY DEF SetStatus
<1>2. PICK n : n = Len(usage)
  OBVIOUS
<1>3. /\ usage \in Seq(LogRows) /\ n \in Nat /\ DOMAIN usage = 1..n
      /\ \A j \in 1..n : usage[j] \in LogRows
  BY <1>2, RowsFinite DEF UsageInv, UsageTypes
<1>4. \A j \in 1..n : /\ usage'[j] \in LogRows /\ usage'[j].id = usage[j].id
                      /\ usage'[j].key = usage[j].key /\ usage'[j].prefix = usage[j].prefix
  <2> SUFFICES ASSUME NEW j \in 1..n
               PROVE  /\ usage'[j] \in LogRows /\ usage'[j].id = usage[j].id
                      /\ usage'[j].key = usage[j].key /\ usage'[j].prefix = usage[j].prefix
    OBVIOUS
  <2>1. usage[j] \in LogRows
    BY <1>3
  <2>2. usage'[j] = IF j = i THEN [usage[j] EXCEPT !.status = status] ELSE usage[j]
    BY <1>1, <1>3
  <2> QED BY <2>1, <2>2 DEF LogRows
<1>5. usage' \in Seq(LogRows) /\ Len(usage') = n
  <2>1. usage' = [j \in 1..n |-> usage'[j]]
    BY <1>1, <1>3
  <2> QED BY <1>3, <1>4, <2>1
<1>6. UsageTypes' /\ PrefixesHad' /\ NotYetRead'
  BY <1>1, <1>2, <1>4, <1>5 DEF UsageInv, UsageTypes, PrefixesHad, NotYetRead
<1>7. PagesMissNothing'
  <2>1. /\ ToSet(usage') = {usage'[j] : j \in 1..n}
        /\ ToSet(usage) = {usage[j] : j \in 1..n}
    BY <1>3, <1>5 DEF ToSet
  <2> SUFFICES ASSUME reader.pc = "done", NEW j \in 1..n, usage'[j].id \in reader.first
               PROVE  usage'[j].id \in reader.items
    BY <1>1, <2>1 DEF PagesMissNothing
  <2>2. usage[j] \in ToSet(usage) /\ usage'[j].id = usage[j].id
    BY <1>4, <2>1
  <2> QED BY <2>2 DEF UsageInv, PagesMissNothing
<1> QED BY <1>6, <1>7 DEF UsageInv

LEMMA RotateKeeps ==
  ASSUME UsageInv, NEW k \in madeKeys, Rotate(k)
  PROVE  UsageInv'
<1>1. UNCHANGED <<usage, rowsMade, reader>> /\ madeKeys' \subseteq UsageKeys
  BY DEF Rotate, UsageInv, UsageTypes
<1> QED BY <1>1 DEF UsageInv, UsageTypes, PrefixesHad, NotYetRead, PagesMissNothing

LEMMA CleanUpKeeps ==
  ASSUME UsageInv, CleanUpLog
  PROVE  UsageInv'
<1>1. usage # <<>> /\ usage' = Tail(usage) /\ UNCHANGED <<reader, rowsMade, madeKeys>>
  BY DEF CleanUpLog
<1>2. PICK n, m : n = Len(usage) /\ m = reader.page * PageSize
  OBVIOUS
<1>3. usage \in Seq(LogRows) /\ n \in Nat /\ n > 0
  BY <1>1, <1>2, EmptySeq, LenProperties DEF UsageInv, UsageTypes
<1>4. /\ usage' \in Seq(LogRows) /\ Len(usage') = n - 1
      /\ \A i \in 1..(n - 1) : usage'[i] = usage[i + 1]
  BY <1>1, <1>2, <1>3, HeadTailProperties
<1>5. \A i \in 1..(n - 1) : i + 1 \in 1..n /\ n - 1 - i + 1 = n - (i + 1) + 1
  BY <1>3
<1>6. UsageTypes' /\ PrefixesHad'
  BY <1>1, <1>2, <1>4, <1>5 DEF UsageInv, UsageTypes, PrefixesHad
<1>7. NotYetRead'
  <2> SUFFICES ASSUME NEW i \in 1..(n - 1), usage'[i].id \in reader.first, usage'[i].id \notin reader.items
               PROVE  n - 1 - i + 1 > m
    BY <1>1, <1>2, <1>4 DEF NotYetRead
  <2>1. n - (i + 1) + 1 > m
    BY <1>2, <1>4, <1>5 DEF UsageInv, NotYetRead
  <2> QED BY <1>5, <2>1
<1>8. PagesMissNothing'
  <2>1. /\ ToSet(usage') = {usage'[i] : i \in 1..(n - 1)}
        /\ ToSet(usage) = {usage[i] : i \in 1..n}
    BY <1>2, <1>3, <1>4 DEF ToSet
  <2>2. ToSet(usage') \subseteq ToSet(usage)
    BY <1>4, <1>5, <2>1
  <2> QED BY <1>1, <2>2 DEF UsageInv, PagesMissNothing
<1> QED BY <1>6, <1>7, <1>8 DEF UsageInv

LEMMA ListLogKeeps ==
  ASSUME UsageInv, ListUsageLogs
  PROVE  UsageInv'
<1>1. PICK q, got : q = reader.page /\ got = Page(usage, q + 1)
  OBVIOUS
<1>2. /\ reader.pc # "done" /\ UNCHANGED <<usage, rowsMade, updates, madeKeys>>
      /\ reader' = [pc |-> IF Len(got) < PageSize THEN "done" ELSE "reading",
                    page |-> q + 1,
                    items |-> reader.items \cup {r.id : r \in ToSet(got)},
                    first |-> IF reader.pc = "idle" THEN {r.id : r \in ToSet(usage)} ELSE reader.first]
  BY <1>1 DEF ListUsageLogs
<1>3. PICK n : n = Len(usage)
  OBVIOUS
<1>4. /\ usage \in Seq(LogRows) /\ n \in Nat /\ q \in Nat /\ rowsMade \in Nat
      /\ ToSet(usage) = {usage[i] : i \in 1..n}
      /\ PageSize \in Nat
  BY <1>1, <1>3, RowsFinite, UsageAssumption DEF UsageInv, UsageTypes, ToSet
<1>5. /\ \A i \in 1..n : n - i + 1 > q * PageSize /\ n - i + 1 <= (q + 1) * PageSize
              => usage[i] \in ToSet(got)
      /\ Len(got) < PageSize => n < (q + 1) * PageSize
  BY <1>1, <1>3, <1>4, LogPageIs
<1>6. PICK m, k : m = q * PageSize /\ k = (q + 1) * PageSize
  OBVIOUS
<1>7. m \in Nat /\ k \in Nat
  BY <1>4, <1>6
<1>8. UsageTypes'
  <2>1. reader'.first \subseteq 1..rowsMade
    <3>1. \A i \in 1..n : usage[i].id \in 1..rowsMade
      BY <1>3 DEF UsageInv, UsageTypes
    <3> QED BY <1>2, <1>4, <3>1 DEF UsageInv, UsageTypes
  <2> QED BY <1>2, <1>4, <2>1 DEF UsageInv, UsageTypes
<1>9. PrefixesHad'
  BY <1>2 DEF UsageInv, PrefixesHad
<1>10. NotYetRead'
  <2> SUFFICES ASSUME NEW i \in 1..n, usage[i].id \in reader'.first, usage[i].id \notin reader'.items
               PROVE  n - i + 1 > k
    BY <1>2, <1>3, <1>6 DEF NotYetRead
  <2>1. usage[i].id \notin reader.items /\ usage[i] \notin ToSet(got)
    BY <1>2
  <2>2. CASE reader.pc = "idle"
    <3>1. m = 0
      <4>1. q = 0
        BY <1>1, <2>2 DEF UsageInv, UsageTypes
      <4> QED BY <1>4, <1>6, <4>1
    <3>2. n - i + 1 > m
      BY <1>4, <3>1
    <3> QED BY <1>4, <1>5, <1>6, <1>7, <2>1, <3>2
  <2>3. CASE reader.pc # "idle"
    <3>1. usage[i].id \in reader.first
      BY <1>2, <2>3
    <3>2. n - i + 1 > m
      BY <1>1, <1>3, <1>6, <2>1, <3>1 DEF UsageInv, NotYetRead
    <3> QED BY <1>4, <1>5, <1>6, <1>7, <2>1, <3>2
  <2> QED BY <2>2, <2>3
<1>11. PagesMissNothing'
  <2> SUFFICES ASSUME reader'.pc = "done", NEW i \in 1..n, usage[i].id \in reader'.first
               PROVE  usage[i].id \in reader'.items
    BY <1>2, <1>4 DEF PagesMissNothing
  <2>1. n < k
    BY <1>2, <1>5, <1>6
  <2>2. ~(n - i + 1 > k)
    BY <1>4, <1>7, <2>1
  <2>3. usage[i].id \notin reader'.items => n - i + 1 > k
    BY <1>2, <1>3, <1>6, <1>10 DEF NotYetRead
  <2> QED BY <2>2, <2>3
<1> QED BY <1>8, <1>9, <1>10, <1>11 DEF UsageInv

LEMMA NextUsage == UsageInv /\ [UsageNext]_usageVars => UsageInv'
<1> SUFFICES ASSUME UsageInv, [UsageNext]_usageVars PROVE UsageInv'
  OBVIOUS
<1>1. CASE UNCHANGED usageVars
  BY <1>1 DEF usageVars, UsageInv, UsageTypes, PrefixesHad, NotYetRead, PagesMissNothing
<1>2. rowsMade \in Nat /\ rowsMade + 1 \in Nat /\ madeKeys \subseteq UsageKeys
  BY DEF UsageInv, UsageTypes
<1>3. ASSUME NEW k \in UsageKeys \cup {NoKey}, NEW p \in UsageProviders, NEW status \in Statuses,
             InsertRow(UsageRow(k, p, "openai_compat", status))
      PROVE  UsageInv'
  <2>1. PICK new : new = UsageRow(k, p, "openai_compat", status)
    OBVIOUS
  <2>2. /\ PrefixOf(k, "openai_compat") \in KeyPrefixes
        /\ k \in UsageKeys => PrefixOf(k, "openai_compat") = k
    BY UsageAssumption DEF PrefixOf, KeyPrefixes
  <2>3. new \in LogRows /\ new.id = rowsMade + 1 /\ new.key = k /\ new.prefix = PrefixOf(k, "openai_compat")
    BY <1>2, <2>1, <2>2 DEF UsageRow, LogRows, Sources
  <2> QED BY <1>3, <2>1, <2>2, <2>3, InsertKeeps
<1>4. ASSUME NEW p \in UsageProviders,
             InsertRow(UsageRow(NoKey, p, "internal_chat", "provider limited"))
      PROVE  UsageInv'
  <2>1. PICK new : new = UsageRow(NoKey, p, "internal_chat", "provider limited")
    OBVIOUS
  <2>2. new \in LogRows /\ new.id = rowsMade + 1 /\ new.key \notin UsageKeys
    BY <1>2, <2>1, UsageAssumption DEF UsageRow, PrefixOf, KeyPrefixes, LogRows, Sources, Statuses
  <2> QED BY <1>4, <2>1, <2>2, InsertKeeps
<1>5. ASSUME NEW k \in madeKeys \cup {NoKey}, NEW p \in UsageProviders, CreateUsageStart(k, p)
      PROVE  UsageInv'
  <2>1. "queued" \in Statuses
    BY DEF Statuses
  <2> QED BY <1>2, <1>3, <1>5, <2>1 DEF CreateUsageStart
<1>6. ASSUME NEW k \in madeKeys, NEW p \in UsageProviders, LogRateLimitHit(k, p)
      PROVE  UsageInv'
  <2>1. "key limited" \in Statuses
    BY DEF Statuses
  <2> QED BY <1>2, <1>3, <1>6, <2>1 DEF LogRateLimitHit
<1>7. ASSUME NEW i \in DOMAIN usage, NEW status \in Statuses, CompleteUsage(i, status)
      PROVE  UsageInv'
  BY <1>7, StatusKeeps DEF CompleteUsage
<1>8. ASSUME NEW p \in UsageProviders, LogProviderRateLimitHit(p)
      PROVE  UsageInv'
  <2>1. CASE \E i \in DOMAIN usage : usage[i].provider = p /\ SetStatus(i, "provider limited")
    <3>1. "provider limited" \in Statuses
      BY DEF Statuses
    <3> QED BY <2>1, <3>1, StatusKeeps
  <2> QED BY <1>4, <1>8, <2>1 DEF LogProviderRateLimitHit
<1> QED BY <1>1, <1>5, <1>6, <1>7, <1>8, RotateKeeps, CleanUpKeeps, ListLogKeeps DEF UsageNext

\* The sums hold of any rows.
LEMMA UsageTells == UsageInv => UsageAdds
<1> SUFFICES ASSUME UsageInv PROVE UsageAdds
  OBVIOUS
<1>1. usage \in Seq(LogRows)
  BY DEF UsageInv, UsageTypes
<1> DEFINE s == GetUsageSummary(usage)
           a == GetProviderLimitAnalytics(usage)
<1>2. /\ s.requests = Len(usage) /\ s.completed = Cardinality(WithStatus(usage, {"completed"}))
      /\ s.failed = Cardinality(WithStatus(usage, {"failed"}))
      /\ s.rateLimited = Cardinality(WithStatus(usage, RateLimited))
      /\ \A p \in UsageProviders : /\ s.byProvider[p].requests = ByGroup(usage, p, Statuses)
                                   /\ s.byProvider[p].completed = ByGroup(usage, p, {"completed"})
                                   /\ s.byProvider[p].failed = ByGroup(usage, p, {"failed"})
  BY DEF GetUsageSummary
<1>3. /\ a.totalHits = Cardinality(Hits(usage)) /\ a.byApiKey = KeyGroups(usage)
      /\ a.recentEvents = Newest(Hits(usage))
      /\ \A p \in UsageProviders : a.byProvider[p] = Cardinality(HitsAt(usage, p))
      /\ \A x \in Sources : a.bySource[x] = Cardinality(HitsFrom(usage, x))
  BY DEF GetProviderLimitAnalytics
<1> HIDE DEF s, a
<1>4. Cardinality(WithStatus(usage, Statuses)) = Len(usage)
  <2>1. WithStatus(usage, Statuses) = DOMAIN usage
    BY <1>1, RowsFinite DEF WithStatus, LogRows
  <2> QED BY <1>1, <2>1, RowsFinite
<1>5. Added([p \in UsageProviders |-> s.byProvider[p].requests], UsageProviders) = s.requests
  <2>1. PICK f : f = [p \in UsageProviders |-> s.byProvider[p].requests]
    OBVIOUS
  <2>2. \A p \in UsageProviders : f[p] = ByGroup(usage, p, Statuses)
    BY <1>2, <2>1
  <2>3. Added(f, UsageProviders) = Cardinality(WithStatus(usage, Statuses))
    BY <1>1, <2>2, ProvidersAdd
  <2> QED BY <1>2, <1>4, <2>1, <2>3
<1>6. Added([p \in UsageProviders |-> s.byProvider[p].completed], UsageProviders) = s.completed
  <2>1. PICK f : f = [p \in UsageProviders |-> s.byProvider[p].completed]
    OBVIOUS
  <2>2. \A p \in UsageProviders : f[p] = ByGroup(usage, p, {"completed"})
    BY <1>2, <2>1
  <2>3. Added(f, UsageProviders) = Cardinality(WithStatus(usage, {"completed"}))
    BY <1>1, <2>2, ProvidersAdd
  <2> QED BY <1>2, <2>1, <2>3
<1>7. Added([p \in UsageProviders |-> s.byProvider[p].failed], UsageProviders) = s.failed
  <2>1. PICK f : f = [p \in UsageProviders |-> s.byProvider[p].failed]
    OBVIOUS
  <2>2. \A p \in UsageProviders : f[p] = ByGroup(usage, p, {"failed"})
    BY <1>2, <2>1
  <2>3. Added(f, UsageProviders) = Cardinality(WithStatus(usage, {"failed"}))
    BY <1>1, <2>2, ProvidersAdd
  <2> QED BY <1>2, <2>1, <2>3
<1>8. s.completed + s.failed + s.rateLimited <= s.requests
  BY <1>1, <1>2, StatusesApart
<1>9. Hits(usage) \in SUBSET DOMAIN usage /\ \A i \in DOMAIN usage : usage[i] \in LogRows
  BY <1>1, RowsFinite DEF Hits, WithStatus
<1>10. Added(a.byProvider, UsageProviders) = a.totalHits
  BY <1>1, <1>3, ProviderHitsAdd
<1>11. Added(a.bySource, Sources) = a.totalHits
  BY <1>1, <1>3, SourceHitsAdd
<1>12. Added([g \in a.byApiKey |-> g.hits], a.byApiKey) = a.totalHits
  BY <1>1, <1>3, KeysAdd
<1>13. Cardinality(a.recentEvents) = IF a.totalHits < RecentEvents THEN a.totalHits ELSE RecentEvents
  <2>1. Len(usage) \in Nat /\ Hits(usage) \subseteq 1..Len(usage) /\ IsFiniteSet(Hits(usage))
    BY <1>1, <1>9, RowsFinite, SomeRowsFinite
  <2>2. Cardinality(Newest(Hits(usage))) =
          IF Cardinality(Hits(usage)) < RecentEvents THEN Cardinality(Hits(usage)) ELSE RecentEvents
    BY <2>1, NewestAre
  <2> QED BY <1>3, <2>2
<1>14. ASSUME NEW g \in a.byApiKey, NEW h \in a.byApiKey,
              g.key = h.key, g.key \in UsageKeys
       PROVE  g = h
  <2>1. PICK i \in Hits(usage) : g = [key |-> usage[i].key, prefix |-> usage[i].prefix,
                                      hits |-> Cardinality(HitsOf(usage, usage[i].key, usage[i].prefix))]
    BY <1>3 DEF KeyGroups
  <2>2. PICK j \in Hits(usage) : h = [key |-> usage[j].key, prefix |-> usage[j].prefix,
                                      hits |-> Cardinality(HitsOf(usage, usage[j].key, usage[j].prefix))]
    BY <1>3 DEF KeyGroups
  <2>3. usage[i].key = g.key /\ usage[j].key = g.key
    BY <1>14, <2>1, <2>2
  <2>4. i \in 1..Len(usage) /\ j \in 1..Len(usage)
    BY <1>1, <1>9, RowsFinite
  <2>5. usage[i].prefix = g.key /\ usage[j].prefix = g.key
    BY <1>14, <2>3, <2>4 DEF UsageInv, PrefixesHad
  <2> QED BY <2>1, <2>2, <2>3, <2>5
<1> QED BY <1>5, <1>6, <1>7, <1>8, <1>10, <1>11, <1>12, <1>13, <1>14 DEF UsageAdds, s, a

\* A row moves away from the newest end of the log only, so that what a reader has not
\* been given yet is behind the pages it has read; and a key's rows have the prefix it was made with.
THEOREM UsageInvariant == UsageSpec => []UsageInv
BY InitUsage, NextUsage, PTL DEF UsageSpec

\* apiUsageService.ts: the parts of the summary and of the analytics add up to their totals,
\* a key is listed once, and reading the log page by page misses no row
\* that stayed, for any rows, keys, providers and sizes of a page.
THEOREM UsageSafety == UsageSpec => []LogTold
<1>1. UsageInv => LogTold
  BY UsageTells DEF LogTold, UsageInv
<1> QED BY <1>1, UsageInvariant, PTL

=============================================================================
