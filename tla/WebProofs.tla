----------------------------- MODULE WebProofs ------------------------------
(* Proofs about what the page shows: the events of a job reach their card in  *)
(* order, for any events and limits of the replay list, and a card that says  *)
(* completed had an answer, for what a job can publish; and what the discuss  *)
(* mode shows as running or waiting belongs to a living loop that Stop        *)
(* reaches, for any number of starts, stops and turns.                        *)
EXTENDS JobStream, Discussion, NaturalLemmas, SequenceTheorems, TLAPS

-----------------------------------------------------------------------------
(* The event stream of a job.                                              *)

\* What the card has handled or is on its way to it.
Got == Range(shown) \cup Range(frames)

StreamTypes ==
    /\ sent \in Nat /\ start \in Nat
    /\ list \in Seq(Nat) /\ wire \in Seq(Nat) /\ frames \in Seq(Nat) /\ shown \in Seq(Nat)

\* The replay list is the latest events, the oldest first.
ListLatest ==
    /\ Len(list) <= sent
    /\ \A i \in 1..Len(list) : list[i] = sent - Len(list) + i

\* Nothing is sent before the replay, nor received before the subscription.
Early ==
    /\ pc \in {"none", "fetch"} => shown = <<>> /\ frames = <<>>
    /\ pc \in {"none", "fetch", "subscribe"} => wire = <<>> /\ ~subscribed
    /\ pc \in {"subscribe", "quit", "live"} => start > 0
    /\ pc \in {"none", "fetch", "subscribe", "quit", "live"}

\* The card, the frames behind it and the messages behind those are in the
\* order of publication; the end of the response is the last of the frames.
Ordered ==
    /\ \A i \in 1..Len(shown) : shown[i] <= sent /\ shown[i] > 0
    /\ \A i \in 1..Len(frames) : frames[i] <= sent
    /\ \A i \in 1..Len(wire) : wire[i] <= sent /\ wire[i] > 0
    /\ \A i, k \in 1..Len(shown) : i < k => shown[i] < shown[k]
    /\ \A i, k \in 1..Len(wire) : i < k => wire[i] < wire[k]
    /\ \A i, k \in 1..Len(frames) :
          i < k => frames[i] > 0 /\ (frames[k] > 0 => frames[i] < frames[k])
    /\ \A i \in 1..Len(shown), k \in 1..Len(frames) : frames[k] > 0 => shown[i] < frames[k]
    /\ \A i \in 1..Len(shown), k \in 1..Len(wire) : shown[i] < wire[k]
    /\ \A i \in 1..Len(frames), k \in 1..Len(wire) : frames[i] < wire[k]

\* What is missing up to an event that was sent has fallen into the gap.
Covered == \A x \in Got : \A m \in start..x : m \in Got \cup gap

\* A stream that is not finished will get whatever else has been published.
Listening ==
    ~finished =>
        /\ \A i \in 1..Len(frames) : frames[i] > 0
        /\ pc = "subscribe" => \A m \in start..sent : m \in Got \cup gap
        /\ pc \in {"quit", "live"} =>
              subscribed /\ \A m \in start..sent : m \in Got \cup gap \cup Range(wire)

\* The inductive invariant.
StreamInv == StreamTypes /\ ListLatest /\ Early /\ Ordered /\ Covered /\ Listening

-----------------------------------------------------------------------------
(* Sequences.                                                               *)

LEMMA RangeIs ==
  ASSUME NEW s \in Seq(Nat)
  PROVE  /\ Len(s) \in Nat
         /\ \A i \in 1..Len(s) : s[i] \in Range(s)
         /\ \A x \in Range(s) : \E i \in 1..Len(s) : s[i] = x
  BY LenProperties DEF Range

LEMMA RangeEmpty == ASSUME NEW s \in Seq(Nat), s = <<>> PROVE Range(s) = {}
<1>1. DOMAIN s = {}
  OBVIOUS
<1> QED BY <1>1 DEF Range

LEMMA Joined ==
  ASSUME NEW s \in Seq(Nat), NEW t \in Seq(Nat)
  PROVE  /\ s \o t \in Seq(Nat)
         /\ Len(s \o t) = Len(s) + Len(t)
         /\ \A i \in 1..Len(s) : (s \o t)[i] = s[i]
         /\ \A i \in 1..Len(t) : (s \o t)[Len(s) + i] = t[i]
         /\ \A i \in 1..Len(s \o t) : i > Len(s) => (s \o t)[i] = t[i - Len(s)] /\ i - Len(s) \in 1..Len(t)
         /\ Range(s \o t) = Range(s) \cup Range(t)
<1>1. /\ s \o t \in Seq(Nat)
      /\ Len(s \o t) = Len(s) + Len(t)
      /\ \A i \in 1..Len(s) + Len(t) :
            (s \o t)[i] = IF i <= Len(s) THEN s[i] ELSE t[i - Len(s)]
  BY ConcatProperties
<1>2. Len(s) \in Nat /\ Len(t) \in Nat
  BY LenProperties
<1>3. /\ \A i \in 1..Len(s) : (s \o t)[i] = s[i]
      /\ \A i \in 1..Len(t) : (s \o t)[Len(s) + i] = t[i]
      /\ \A i \in 1..Len(s \o t) : i > Len(s) => (s \o t)[i] = t[i - Len(s)] /\ i - Len(s) \in 1..Len(t)
  BY <1>1, <1>2
<1>4. Range(s \o t) \subseteq Range(s) \cup Range(t)
  <2>1. SUFFICES ASSUME NEW i \in 1..Len(s \o t)
                 PROVE  (s \o t)[i] \in Range(s) \cup Range(t)
    BY <1>1, RangeIs
  <2>2. CASE i <= Len(s)
    <3>1. i \in 1..Len(s)
      BY <1>1, <1>2, <2>2
    <3> QED BY <3>1, <1>3, RangeIs
  <2>3. CASE i > Len(s)
    <3>1. (s \o t)[i] = t[i - Len(s)] /\ i - Len(s) \in 1..Len(t)
      BY <1>3, <2>3
    <3> QED BY <3>1, RangeIs
  <2> QED BY <1>1, <1>2, <2>2, <2>3
<1>5. Range(s) \subseteq Range(s \o t)
  <2>1. SUFFICES ASSUME NEW i \in 1..Len(s) PROVE s[i] \in Range(s \o t)
    BY RangeIs
  <2>2. i \in 1..Len(s \o t) /\ (s \o t)[i] = s[i]
    BY <1>1, <1>2, <1>3
  <2>3. (s \o t)[i] \in Range(s \o t)
    BY <1>1, <2>2, RangeIs
  <2> QED BY <2>2, <2>3
<1>6. Range(t) \subseteq Range(s \o t)
  <2>1. SUFFICES ASSUME NEW i \in 1..Len(t) PROVE t[i] \in Range(s \o t)
    BY RangeIs
  <2>2. Len(s) + i \in 1..Len(s \o t) /\ (s \o t)[Len(s) + i] = t[i]
    BY <1>1, <1>2, <1>3
  <2>3. (s \o t)[Len(s) + i] \in Range(s \o t)
    BY <1>1, <2>2, RangeIs
  <2> QED BY <2>2, <2>3
<1> QED BY <1>1, <1>3, <1>4, <1>5, <1>6

LEMMA OneOrTwoMore ==
  ASSUME NEW a \in Nat, NEW b, NEW c, c = a + b, b = 1 \/ b = 2, NEW i \in 1..c
  PROVE  /\ i \in 1..a \/ i = a + 1 \/ (i = a + 2 /\ b = 2)
         /\ i \in Nat /\ i <= a + 2
  OBVIOUS

LEMMA One ==
  ASSUME NEW n \in Nat
  PROVE  <<n>> \in Seq(Nat) /\ Len(<<n>>) = 1 /\ <<n>>[1] = n /\ Range(<<n>>) = {n}
<1>1. <<n>> \in Seq(Nat) /\ Len(<<n>>) = 1 /\ <<n>>[1] = n /\ DOMAIN <<n>> = {1}
  OBVIOUS
<1> QED BY <1>1 DEF Range

LEMMA Two ==
  ASSUME NEW m \in Nat, NEW n \in Nat
  PROVE  /\ <<m, n>> \in Seq(Nat) /\ Len(<<m, n>>) = 2
         /\ <<m, n>>[1] = m /\ <<m, n>>[2] = n /\ Range(<<m, n>>) = {m, n}
<1>1. /\ <<m, n>> \in Seq(Nat) /\ Len(<<m, n>>) = 2
      /\ <<m, n>>[1] = m /\ <<m, n>>[2] = n /\ DOMAIN <<m, n>> = {1, 2}
  OBVIOUS
<1> QED BY <1>1 DEF Range

LEMMA Appended ==
  ASSUME NEW s \in Seq(Nat), NEW n \in Nat
  PROVE  /\ Append(s, n) \in Seq(Nat) /\ Len(Append(s, n)) = Len(s) + 1
         /\ \A i \in 1..Len(s) : Append(s, n)[i] = s[i]
         /\ Append(s, n)[Len(s) + 1] = n
         /\ Range(Append(s, n)) = Range(s) \cup {n}
<1>1. /\ Append(s, n) \in Seq(Nat) /\ Len(Append(s, n)) = Len(s) + 1
      /\ \A i \in 1..Len(s) : Append(s, n)[i] = s[i]
      /\ Append(s, n)[Len(s) + 1] = n
      /\ Len(s) \in Nat
  BY LenProperties
<1>2. \A i \in 1..(Len(s) + 1) : i \in 1..Len(s) \/ i = Len(s) + 1
  BY <1>1
<1>3. 1..Len(s) \subseteq 1..(Len(s) + 1) /\ Len(s) + 1 \in 1..(Len(s) + 1)
  BY <1>1
<1>4. Range(Append(s, n)) = {Append(s, n)[i] : i \in 1..(Len(s) + 1)}
  BY <1>1, LenProperties DEF Range
<1>5. Range(s) = {s[i] : i \in 1..Len(s)}
  BY LenProperties DEF Range
<1> QED BY <1>1, <1>2, <1>3, <1>4, <1>5

LEMMA Split ==
  ASSUME NEW s \in Seq(Nat), s # <<>>
  PROVE  /\ Head(s) = s[1] /\ Head(s) \in Nat /\ Tail(s) \in Seq(Nat)
         /\ Len(s) > 0 /\ Len(Tail(s)) = Len(s) - 1
         /\ \A i \in 1..Len(Tail(s)) : Tail(s)[i] = s[i + 1] /\ i + 1 \in 1..Len(s)
         /\ Range(s) = {Head(s)} \cup Range(Tail(s))
<1>1. Head(s) = s[1]
  BY DEF Head
<1>2. /\ Head(s) \in Nat /\ Tail(s) \in Seq(Nat) /\ Len(Tail(s)) = Len(s) - 1
      /\ \A i \in 1..Len(Tail(s)) : Tail(s)[i] = s[i + 1]
  BY HeadTailProperties
<1>3. Len(s) \in Nat /\ Len(s) > 0
  BY EmptySeq
<1>4. \A i \in 1..Len(Tail(s)) : i + 1 \in 1..Len(s)
  BY <1>2, <1>3
<1>5. \A i \in 1..Len(s) : i = 1 \/ i - 1 \in 1..Len(Tail(s))
  BY <1>2, <1>3
<1>6. Range(s) \subseteq {Head(s)} \cup Range(Tail(s))
  <2> SUFFICES ASSUME NEW i \in 1..Len(s) PROVE s[i] \in {Head(s)} \cup Range(Tail(s))
    BY RangeIs
  <2>1. CASE i - 1 \in 1..Len(Tail(s))
    <3>1. Tail(s)[i - 1] = s[i]
      BY <1>2, <2>1
    <3> QED BY <3>1, <2>1, <1>2, RangeIs
  <2> QED BY <1>1, <1>5, <2>1
<1>7. Range(Tail(s)) \subseteq Range(s)
  <2> SUFFICES ASSUME NEW i \in 1..Len(Tail(s)) PROVE Tail(s)[i] \in Range(s)
    BY <1>2, RangeIs
  <2> QED BY <1>2, <1>4, RangeIs
<1>8. Head(s) \in Range(s)
  <2>1. 1 \in 1..Len(s)
    BY <1>3
  <2> QED BY <1>1, <2>1, RangeIs
<1> QED BY <1>1, <1>2, <1>3, <1>4, <1>6, <1>7, <1>8

-----------------------------------------------------------------------------
(* The operators of the model.                                              *)

LEMMA LastNIs ==
  ASSUME NEW s \in Seq(Nat), NEW n \in Nat \ {0}
  PROVE  /\ LastN(s, n) \in Seq(Nat) /\ Len(LastN(s, n)) <= Len(s)
         /\ \A i \in 1..Len(LastN(s, n)) :
               LastN(s, n)[i] = s[Len(s) - Len(LastN(s, n)) + i]
<1>1. Len(s) \in Nat /\ \A i \in 1..Len(s) : s[i] \in Nat
  BY LenProperties, ElementOfSeq
<1>2. CASE Len(s) <= n
  BY <1>1, <1>2 DEF LastN
<1>3. CASE Len(s) > n
  <2> DEFINE m == Len(s) - n + 1
  <2>1. m \in Nat /\ m >= 1 /\ m <= Len(s) /\ Len(s) - m + 1 = n
    BY <1>1, <1>3
  <2>2. /\ SubSeq(s, m, Len(s)) \in Seq(Nat)
        /\ Len(SubSeq(s, m, Len(s))) = n
        /\ \A i \in 1..n : SubSeq(s, m, Len(s))[i] = s[m + i - 1]
    BY <1>1, <2>1, SubSeqProperties
  <2>3. LastN(s, n) = SubSeq(s, m, Len(s))
    BY <1>1, <1>3 DEF LastN
  <2> QED BY <1>1, <1>3, <2>2, <2>3
<1> QED BY <1>1, <1>2, <1>3

\* A batch is sent up to its first terminal event and the end, or whole.
LEMMA HandledIs ==
  ASSUME NEW b \in Seq(Nat)
  PROVE  \/ ~Ends(b) /\ Handled(b) = b
         \/ /\ Ends(b)
            /\ \E n \in 1..Len(b) :
                  /\ Handled(b) \in Seq(Nat) /\ Len(Handled(b)) = n + 1
                  /\ \A i \in 1..n : Handled(b)[i] = b[i]
                  /\ Handled(b)[n + 1] = 0
<1> DEFINE ends == {i \in 1..Len(b) : script[b[i]] \in Terminal}
           n == CHOOSE i \in ends : \A k \in ends : i <= k
<1>1. Len(b) \in Nat /\ \A i \in 1..Len(b) : b[i] \in Nat
  BY LenProperties, ElementOfSeq
<1>2. CASE ends = {}
  BY <1>2 DEF Handled, Ends
<1>3. CASE ends # {}
  <2>1. Ends(b) /\ Handled(b) = Append(SubSeq(b, 1, n), 0)
    BY <1>3 DEF Handled, Ends
  <2>2. n \in ends
    <3>1. ends \subseteq Nat
      BY <1>1
    <3>2. PICK i \in ends : \A k \in ends : ~(k < i)
      BY <1>3, <3>1, NatLeast
    <3>3. \A k \in ends : i <= k
      BY <3>1, <3>2
    <3> QED BY <3>3
  <2> HIDE DEF n
  <2>3. n \in 1..Len(b)
    BY <2>2
  <2>4. /\ SubSeq(b, 1, n) \in Seq(Nat) /\ Len(SubSeq(b, 1, n)) = n
        /\ \A i \in 1..n : SubSeq(b, 1, n)[i] = b[i]
    <3>1. \A i \in 1..n : b[i] \in Nat
      BY <1>1, <2>3
    <3>2. /\ SubSeq(b, 1, n) \in Seq(Nat)
          /\ Len(SubSeq(b, 1, n)) = IF 1 <= n THEN n - 1 + 1 ELSE 0
          /\ \A i \in 1..n - 1 + 1 : SubSeq(b, 1, n)[i] = b[1 + i - 1]
      BY <2>3, <3>1, SubSeqProperties
    <3> QED BY <3>2, <2>3, <1>1
  <2>5. /\ Handled(b) \in Seq(Nat) /\ Len(Handled(b)) = n + 1
        /\ \A i \in 1..n : Handled(b)[i] = b[i]
        /\ Handled(b)[n + 1] = 0
    BY <2>1, <2>4, Appended
  <2> QED BY <2>1, <2>3, <2>5
<1> QED BY <1>2, <1>3

LEMMA HandledOne ==
  ASSUME NEW h \in Nat
  PROVE  /\ Handled(<<h>>) \in Seq(Nat) /\ Len(Handled(<<h>>)) \in {1, 2}
         /\ Handled(<<h>>)[1] = h
         /\ Range(Handled(<<h>>)) \subseteq {h, 0} /\ h \in Range(Handled(<<h>>))
         /\ Len(Handled(<<h>>)) = 2 => Handled(<<h>>)[2] = 0
         /\ Ends(<<h>>) <=> Len(Handled(<<h>>)) = 2
         /\ ~Ends(<<h>>) => Range(Handled(<<h>>)) = {h}
<1>1. <<h>> \in Seq(Nat) /\ Len(<<h>>) = 1 /\ <<h>>[1] = h /\ Range(<<h>>) = {h}
  BY One
<1>2. CASE ~Ends(<<h>>)
  <2>1. Handled(<<h>>) = <<h>>
    BY <1>1, <1>2, HandledIs
  <2> DEFINE t == <<h>>
  <2>2. t \in Seq(Nat) /\ Len(t) = 1 /\ t[1] = h /\ Range(t) = {h}
    BY <1>1
  <2>3. Handled(t) = t /\ ~Ends(t)
    BY <1>2, <2>1
  <2> HIDE DEF t
  <2>4. /\ Handled(t) \in Seq(Nat) /\ Len(Handled(t)) \in {1, 2}
        /\ Handled(t)[1] = h
        /\ Range(Handled(t)) \subseteq {h, 0} /\ h \in Range(Handled(t))
        /\ Len(Handled(t)) = 2 => Handled(t)[2] = 0
        /\ Ends(t) <=> Len(Handled(t)) = 2
        /\ ~Ends(t) => Range(Handled(t)) = {h}
    BY <2>2, <2>3
  <2> QED BY <2>4 DEF t
<1>3. CASE Ends(<<h>>)
  <2> DEFINE t == Handled(<<h>>)
  <2>1. PICK n \in 1..1 : /\ t \in Seq(Nat) /\ Len(t) = n + 1
                          /\ \A i \in 1..n : t[i] = <<h>>[i]
                          /\ t[n + 1] = 0
    BY <1>1, <1>3, HandledIs
  <2>2. n = 1
    OBVIOUS
  <2>3. t \in Seq(Nat) /\ Len(t) = 2 /\ t[1] = h /\ t[2] = 0
    BY <1>1, <2>1, <2>2
  <2> HIDE DEF t
  <2>4. \A i \in 1..2 : i = 1 \/ i = 2
    OBVIOUS
  <2>5. Range(t) \subseteq {h, 0}
    BY <2>3, <2>4, RangeIs
  <2>6. h \in Range(t)
    <3>1. 1 \in 1..Len(t)
      BY <2>3
    <3> QED BY <2>3, <3>1, RangeIs
  <2> QED BY <1>3, <2>3, <2>5, <2>6 DEF t
<1> QED BY <1>2, <1>3

-----------------------------------------------------------------------------
(* The steps.                                                               *)

LEMMA InitStream == StreamInit => StreamInv
<1> SUFFICES ASSUME StreamInit PROVE StreamInv
  OBVIOUS
<1>1. StreamTypes /\ Early /\ Listening
  BY DEF StreamInit, StreamTypes, Early, Listening
<1>2. Len(list) = 0 /\ Len(wire) = 0 /\ Len(frames) = 0 /\ Len(shown) = 0
  BY DEF StreamInit
<1>3. Got = {}
  BY <1>1, RangeEmpty DEF Got, StreamTypes, StreamInit
<1> QED BY <1>1, <1>2, <1>3 DEF StreamInit, StreamInv, ListLatest, Ordered, Covered

\* Steps that leave the events alone.
StreamQuiet == UNCHANGED <<sent, list, wire, frames, shown, start, gap, pc, finished, subscribed>>

LEMMA QuietStream == StreamInv /\ StreamQuiet => StreamInv'
  BY DEF StreamInv, StreamQuiet, StreamTypes, ListLatest, Early, Ordered, Covered, Listening, Got

LEMMA PublishStream ==
  ASSUME StreamInv, Publish
  PROVE  StreamInv'
<1> DEFINE n == sent + 1
<1>1. /\ sent \in Nat /\ list \in Seq(Nat) /\ wire \in Seq(Nat)
      /\ Len(list) \in Nat /\ Len(wire) \in Nat
  BY LenProperties DEF StreamInv, StreamTypes
<1>2. /\ sent' = n /\ list' = LastN(Append(list, n), MaxReplay)
      /\ wire' = IF subscribed THEN Append(wire, n) ELSE wire
      /\ gap' = IF pc = "subscribe" THEN gap \cup {n} ELSE gap
      /\ UNCHANGED <<pc, finished, subscribed, frames, shown, start>>
  BY DEF Publish, handlerVars, browserVars, cardVars
<1> HIDE DEF n
<1>3. n \in Nat /\ n = sent + 1
  BY <1>1 DEF n
<1>4. /\ Append(list, n) \in Seq(Nat) /\ Len(Append(list, n)) = Len(list) + 1
      /\ \A i \in 1..Len(list) : Append(list, n)[i] = list[i]
      /\ Append(list, n)[Len(list) + 1] = n
  BY <1>1, <1>3, Appended
<1>5. \A i \in 1..(Len(list) + 1) : Append(list, n)[i] = n - (Len(list) + 1) + i
  <2> SUFFICES ASSUME NEW i \in 1..(Len(list) + 1)
               PROVE  Append(list, n)[i] = n - (Len(list) + 1) + i
    OBVIOUS
  <2>1. CASE i \in 1..Len(list)
    <3>1. list[i] = sent - Len(list) + i
      BY <2>1 DEF StreamInv, ListLatest
    <3> QED BY <1>1, <1>3, <1>4, <2>1, <3>1
  <2>2. CASE i = Len(list) + 1
    BY <1>1, <1>3, <1>4, <2>2
  <2> QED BY <1>1, <2>1, <2>2
<1>6. /\ list' \in Seq(Nat) /\ Len(list') <= Len(list) + 1 /\ Len(list') \in Nat
      /\ \A i \in 1..Len(list') : list'[i] = Append(list, n)[Len(list) + 1 - Len(list') + i]
  <2>1. MaxReplay \in Nat \ {0}
    BY StreamAssumption
  <2>2. list' = LastN(Append(list, n), MaxReplay) /\ Append(list, n) \in Seq(Nat)
    BY <1>2, <1>4
  <2>3. /\ list' \in Seq(Nat) /\ Len(list') <= Len(Append(list, n))
        /\ \A i \in 1..Len(list') :
              list'[i] = Append(list, n)[Len(Append(list, n)) - Len(list') + i]
    BY <2>1, <2>2, LastNIs
  <2>4. Len(list') \in Nat
    BY <2>3, LenProperties
  <2>5. Len(Append(list, n)) = Len(list) + 1
    BY <1>4
  <2> QED BY <2>3, <2>4, <2>5
<1>7. ListLatest'
  <2>1. Len(list') <= sent'
    BY <1>1, <1>2, <1>3, <1>6 DEF StreamInv, ListLatest
  <2>2. \A i \in 1..Len(list') : list'[i] = sent' - Len(list') + i
    <3> SUFFICES ASSUME NEW i \in 1..Len(list') PROVE list'[i] = sent' - Len(list') + i
      OBVIOUS
    <3>1. Len(list) + 1 - Len(list') + i \in 1..(Len(list) + 1)
      BY <1>1, <1>6
    <3>2. list'[i] = Append(list, n)[Len(list) + 1 - Len(list') + i]
      BY <1>6
    <3>3. list'[i] = n - (Len(list) + 1) + (Len(list) + 1 - Len(list') + i)
      BY <1>5, <3>1, <3>2
    <3> HIDE <3>2
    <3>4. sent' = n /\ i \in Nat
      BY <1>2, <1>6
    <3> QED BY <1>1, <1>3, <1>6, <3>3, <3>4
  <2> QED BY <2>1, <2>2 DEF ListLatest
<1>8. /\ wire' \in Seq(Nat) /\ Len(wire') \in Nat
      /\ \A i \in 1..Len(wire') : \/ (i \in 1..Len(wire) /\ wire'[i] = wire[i])
                                  \/ (i = Len(wire) + 1 /\ wire'[i] = n)
      /\ Range(wire') = IF subscribed THEN Range(wire) \cup {n} ELSE Range(wire)
  <2>1. CASE subscribed
    <3>1. /\ wire' \in Seq(Nat) /\ Len(wire') = Len(wire) + 1
          /\ \A i \in 1..Len(wire) : wire'[i] = wire[i]
          /\ wire'[Len(wire) + 1] = n
          /\ Range(wire') = Range(wire) \cup {n}
      BY <1>1, <1>2, <1>3, <2>1, Appended
    <3>2. \A i \in 1..(Len(wire) + 1) : i \in 1..Len(wire) \/ i = Len(wire) + 1
      BY <1>1
    <3> QED BY <1>1, <2>1, <3>1, <3>2
  <2>2. CASE ~subscribed
    BY <1>1, <1>2, <2>2
  <2> QED BY <2>1, <2>2
<1>9. Got' = Got
  BY <1>2 DEF Got
<1>10. StreamTypes'
  BY <1>2, <1>3, <1>6, <1>8 DEF StreamInv, StreamTypes
<1>11. Early'
  BY <1>2 DEF StreamInv, Early
<1>12. \A i \in 1..Len(shown) : shown[i] \in Nat
  BY ElementOfSeq DEF StreamInv, StreamTypes
<1>13. \A i \in 1..Len(frames) : frames[i] \in Nat
  BY ElementOfSeq DEF StreamInv, StreamTypes
<1>14. \A i \in 1..Len(wire) : wire[i] \in Nat
  BY ElementOfSeq DEF StreamInv, StreamTypes
<1>15. Ordered'
  <2>1. /\ \A i \in 1..Len(shown') : shown'[i] <= sent' /\ shown'[i] > 0
        /\ \A i \in 1..Len(frames') : frames'[i] <= sent'
        /\ \A i, k \in 1..Len(shown') : i < k => shown'[i] < shown'[k]
        /\ \A i, k \in 1..Len(frames') :
              i < k => frames'[i] > 0 /\ (frames'[k] > 0 => frames'[i] < frames'[k])
        /\ \A i \in 1..Len(shown'), k \in 1..Len(frames') :
              frames'[k] > 0 => shown'[i] < frames'[k]
    BY <1>1, <1>2, <1>3, <1>12, <1>13 DEF StreamInv, Ordered
  <2>2. \A i \in 1..Len(wire') : wire'[i] <= sent' /\ wire'[i] > 0
    BY <1>1, <1>2, <1>3, <1>8, <1>14 DEF StreamInv, Ordered
  <2>3. \A i, k \in 1..Len(wire') : i < k => wire'[i] < wire'[k]
    BY <1>1, <1>2, <1>3, <1>8, <1>14 DEF StreamInv, Ordered
  <2>4. \A i \in 1..Len(shown'), k \in 1..Len(wire') : shown'[i] < wire'[k]
    BY <1>1, <1>2, <1>3, <1>8, <1>12, <1>14 DEF StreamInv, Ordered
  <2>5. \A i \in 1..Len(frames'), k \in 1..Len(wire') : frames'[i] < wire'[k]
    BY <1>1, <1>2, <1>3, <1>8, <1>13, <1>14 DEF StreamInv, Ordered
  <2> QED BY <2>1, <2>2, <2>3, <2>4, <2>5 DEF Ordered
<1>16. Covered'
  <2>1. gap \subseteq gap' /\ start' = start
    BY <1>2
  <2> QED BY <1>9, <2>1 DEF StreamInv, Covered
<1>17. Listening'
  <2>1. \A m \in start..n : m \in start..sent \/ m = n
    BY <1>1, <1>3 DEF StreamInv, StreamTypes
  <2>2. ~finished => \A i \in 1..Len(frames) : frames[i] > 0
    BY DEF StreamInv, Listening
  <2>3. CASE pc = "subscribe"
    BY <1>2, <1>9, <2>1, <2>2, <2>3 DEF StreamInv, Listening
  <2>4. CASE pc \in {"quit", "live"} /\ ~finished
    <3>1. Range(wire') = Range(wire) \cup {n}
      BY <1>8, <2>4 DEF StreamInv, Listening
    <3> QED BY <1>2, <1>9, <2>1, <2>2, <2>4, <3>1 DEF StreamInv, Listening
  <2> QED BY <1>2, <2>2, <2>3, <2>4 DEF Listening
<1> QED BY <1>7, <1>10, <1>11, <1>15, <1>16, <1>17 DEF StreamInv

LEMMA ExpireStream ==
  ASSUME StreamInv, ListExpires
  PROVE  StreamInv'
<1>1. list' = <<>> /\ UNCHANGED <<sent, wire, frames, shown, start, gap, pc, finished, subscribed>>
  BY DEF ListExpires, handlerVars, browserVars, cardVars, historyVars
<1>2. Len(list') = 0 /\ list' \in Seq(Nat)
  BY <1>1
<1>3. StreamTypes' /\ ListLatest'
  BY <1>1, <1>2 DEF StreamInv, StreamTypes, ListLatest
<1> QED BY <1>1, <1>3 DEF StreamInv, Early, Ordered, Covered, Listening, Got

LEMMA OpenStream ==
  ASSUME StreamInv, Open
  PROVE  StreamInv'
<1>1. /\ pc = "none" /\ pc' = "fetch"
      /\ UNCHANGED <<sent, list, wire, frames, shown, start, gap, finished, subscribed>>
  BY DEF Open, redisVars, cardVars, historyVars
<1> QED BY <1>1 DEF StreamInv, StreamTypes, ListLatest, Early, Ordered, Covered, Listening, Got

LEMMA SubscribeStream ==
  ASSUME StreamInv, Subscribe
  PROVE  StreamInv'
<1>1. /\ pc = "subscribe" /\ pc' = "quit" /\ subscribed' = TRUE
      /\ UNCHANGED <<sent, list, wire, frames, shown, start, gap, finished>>
  BY DEF Subscribe, redisVars, browserVars, cardVars, historyVars
<1> QED BY <1>1 DEF StreamInv, StreamTypes, ListLatest, Early, Ordered, Covered, Listening, Got

LEMMA ReturnStream ==
  ASSUME StreamInv, Return
  PROVE  StreamInv'
<1>1. /\ pc = "quit" /\ pc' = "live" /\ subscribed' = ~finished
      /\ UNCHANGED <<sent, list, wire, frames, shown, start, gap, finished>>
  BY DEF Return, redisVars, browserVars, cardVars, historyVars
<1> QED BY <1>1 DEF StreamInv, StreamTypes, ListLatest, Early, Ordered, Covered, Listening, Got

LEMMA CloseStream ==
  ASSUME StreamInv, CloseArrives
  PROVE  StreamInv'
<1>1. /\ UNCHANGED <<sent, list, wire, frames, shown, start, gap, pc>>
      /\ \/ pc = "live" /\ finished' = TRUE /\ subscribed' = FALSE
         \/ UNCHANGED <<finished, subscribed>>
  BY DEF CloseArrives, redisVars, cardVars, historyVars
<1>2. CASE UNCHANGED <<finished, subscribed>>
  BY <1>1, <1>2, QuietStream DEF StreamQuiet
<1>3. CASE pc = "live" /\ finished' = TRUE /\ subscribed' = FALSE
  BY <1>1, <1>3 DEF StreamInv, StreamTypes, ListLatest, Early, Ordered, Covered, Listening, Got
<1> QED BY <1>1, <1>2, <1>3

LEMMA FetchStream ==
  ASSUME StreamInv, Fetch
  PROVE  StreamInv'
<1>1. /\ pc = "fetch" /\ pc' = "subscribe"
      /\ frames' = frames \o Handled(list) /\ finished' = Ends(list)
      /\ start' = IF list = <<>> THEN sent + 1 ELSE list[1]
      /\ UNCHANGED <<sent, list, subscribed, wire, shown, gap>>
  BY DEF Fetch, redisVars, browserVars, cardVars
<1>2. /\ sent \in Nat /\ list \in Seq(Nat) /\ Len(list) \in Nat
      /\ shown = <<>> /\ frames = <<>> /\ wire = <<>> /\ ~subscribed
      /\ Len(list) <= sent /\ \A i \in 1..Len(list) : list[i] = sent - Len(list) + i
  BY <1>1, LenProperties DEF StreamInv, StreamTypes, Early, ListLatest
<1>3. start' = sent - Len(list) + 1 /\ start' \in Nat /\ start' > 0
  <2>1. CASE list = <<>>
    <3>1. Len(list) = 0
      BY <2>1
    <3> QED BY <1>1, <1>2, <2>1, <3>1
  <2>2. CASE list # <<>>
    <3>1. Len(list) > 0
      BY <1>2, <2>2, EmptySeq
    <3>2. 1 \in 1..Len(list)
      BY <1>2, <3>1
    <3> QED BY <1>1, <1>2, <2>2, <3>2
  <2> QED BY <2>1, <2>2
<1>4. PICK n \in 0..Len(list) :
         /\ Handled(list) \in Seq(Nat)
         /\ \A i \in 1..n : Handled(list)[i] = list[i]
         /\ \/ Len(Handled(list)) = n /\ n = Len(list) /\ ~Ends(list)
            \/ Len(Handled(list)) = n + 1 /\ Handled(list)[n + 1] = 0 /\ Ends(list)
  <2>1. CASE ~Ends(list)
    <3>1. Handled(list) = list
      BY <1>2, <2>1, HandledIs
    <3> QED BY <1>2, <2>1, <3>1
  <2>2. CASE Ends(list)
    <3>1. PICK n \in 1..Len(list) :
             /\ Handled(list) \in Seq(Nat) /\ Len(Handled(list)) = n + 1
             /\ \A i \in 1..n : Handled(list)[i] = list[i]
             /\ Handled(list)[n + 1] = 0
      BY <1>2, <2>2, HandledIs
    <3>2. n \in 0..Len(list)
      BY <1>2
    <3> QED BY <2>2, <3>1, <3>2
  <2> QED BY <2>1, <2>2
<1>5. frames' = Handled(list) /\ frames' \in Seq(Nat) /\ Len(frames') \in Nat
  BY <1>1, <1>2, <1>4, ConcatEmptySeq, LenProperties
<1>6. \A i \in 1..Len(frames') : \/ (i \in 1..n /\ frames'[i] = start' - 1 + i)
                                  \/ (i = n + 1 /\ frames'[i] = 0)
  <2>1. \A i \in 1..n : i \in 1..Len(list) /\ frames'[i] = list[i]
    BY <1>2, <1>4, <1>5
  <2>2. \A i \in 1..n : frames'[i] = start' - 1 + i
    BY <1>2, <1>3, <2>1
  <2>3. \A i \in 1..(n + 1) : i \in 1..n \/ i = n + 1
    OBVIOUS
  <2> QED BY <1>4, <1>5, <2>2, <2>3
<1>7. \A i \in 1..n : i \in 1..Len(frames') /\ frames'[i] = start' - 1 + i
  <2>1. \A i \in 1..n : i \in 1..Len(frames') /\ i # n + 1
    BY <1>4, <1>5
  <2> QED BY <1>6, <2>1
<1>8. Len(shown') = 0 /\ Len(wire') = 0 /\ shown' \in Seq(Nat) /\ wire' \in Seq(Nat)
  BY <1>1, <1>2
<1>9. Range(shown') = {}
  BY <1>1, <1>2, <1>8, RangeEmpty
<1>10. \A m \in start'..(start' - 1 + n) : m \in Got'
  <2> SUFFICES ASSUME NEW m \in start'..(start' - 1 + n) PROVE m \in Got'
    OBVIOUS
  <2>1. m - start' + 1 \in 1..n /\ start' - 1 + (m - start' + 1) = m
    BY <1>3
  <2>2. m - start' + 1 \in 1..Len(frames') /\ frames'[m - start' + 1] = m
    BY <1>7, <2>1
  <2> QED BY <1>5, <2>2, RangeIs DEF Got
<1>11. \A x \in Got' : x \in Nat /\ x <= start' - 1 + n
  <2> SUFFICES ASSUME NEW i \in 1..Len(frames')
               PROVE  frames'[i] \in Nat /\ frames'[i] <= start' - 1 + n
    BY <1>5, <1>9, RangeIs DEF Got
  <2> QED BY <1>3, <1>5, <1>6
<1>12. Covered'
  BY <1>3, <1>10, <1>11 DEF Covered
<1>13. StreamTypes' /\ ListLatest' /\ Early'
  BY <1>1, <1>2, <1>3, <1>5, <1>8 DEF StreamInv, StreamTypes, ListLatest, Early
<1>14. Ordered'
  <2>1. \A i \in 1..Len(frames') : frames'[i] <= sent'
    <3>1. start' - 1 + n <= sent /\ sent' = sent
      BY <1>1, <1>2, <1>3
    <3>2. \A i \in 1..n : start' - 1 + i <= sent
      BY <1>2, <1>3, <3>1
    <3> QED BY <1>2, <1>6, <3>1, <3>2
  <2>2. \A i, k \in 1..Len(frames') :
           i < k => frames'[i] > 0 /\ (frames'[k] > 0 => frames'[i] < frames'[k])
    <3> SUFFICES ASSUME NEW i \in 1..Len(frames'), NEW k \in 1..Len(frames'), i < k
                 PROVE  frames'[i] > 0 /\ (frames'[k] > 0 => frames'[i] < frames'[k])
      OBVIOUS
    <3>1. k <= n + 1
      BY <1>6
    <3>2. i # n + 1
      BY <3>1
    <3>3. frames'[i] = start' - 1 + i
      BY <1>6, <3>2
    <3> QED BY <1>3, <1>6, <3>3
  <2> QED BY <1>8, <2>1, <2>2 DEF Ordered
<1>15. Listening'
  <2> SUFFICES ASSUME ~finished' PROVE Listening'
    BY DEF Listening
  <2>1. n = Len(list) /\ Len(frames') = n
    BY <1>1, <1>4, <1>5
  <2>2. start' - 1 + n = sent'
    BY <1>1, <1>2, <1>3, <2>1
  <2>3. \A i \in 1..Len(frames') : frames'[i] > 0
    BY <1>3, <1>7, <2>1
  <2> QED BY <1>1, <1>10, <2>2, <2>3 DEF Listening
<1> QED BY <1>12, <1>13, <1>14, <1>15 DEF StreamInv

LEMMA ShowStream ==
  ASSUME StreamInv, Show
  PROVE  StreamInv'
<1> DEFINE h == Head(frames)
<1>1. /\ frames # <<>> /\ h # 0 /\ frames' = Tail(frames) /\ shown' = Append(shown, h)
      /\ UNCHANGED <<sent, list, wire, start, gap, pc, finished, subscribed>>
  BY DEF Show, redisVars, handlerVars, historyVars
<1>2. /\ frames \in Seq(Nat) /\ shown \in Seq(Nat) /\ wire \in Seq(Nat)
      /\ Len(frames) \in Nat /\ Len(shown) \in Nat /\ sent \in Nat
      /\ \A i \in 1..Len(frames) : frames[i] \in Nat
      /\ \A i \in 1..Len(shown) : shown[i] \in Nat
      /\ \A i \in 1..Len(wire) : wire[i] \in Nat
  BY LenProperties, ElementOfSeq DEF StreamInv, StreamTypes
<1>3. /\ h = frames[1] /\ h \in Nat /\ frames' \in Seq(Nat)
      /\ Len(frames) > 0 /\ Len(frames') = Len(frames) - 1
      /\ \A i \in 1..Len(frames') : frames'[i] = frames[i + 1] /\ i + 1 \in 1..Len(frames)
      /\ Range(frames) = {h} \cup Range(frames')
  BY <1>1, <1>2, Split
<1> HIDE DEF h
<1>4. /\ shown' \in Seq(Nat) /\ Len(shown') = Len(shown) + 1
      /\ \A i \in 1..Len(shown) : shown'[i] = shown[i]
      /\ shown'[Len(shown) + 1] = h
      /\ Range(shown') = Range(shown) \cup {h}
  BY <1>1, <1>2, <1>3, Appended
<1>5. Got' = Got
  BY <1>3, <1>4 DEF Got
<1>6. 1 \in 1..Len(frames) /\ h > 0
  BY <1>1, <1>2, <1>3
<1>7. \A i \in 1..Len(shown') : \/ (i \in 1..Len(shown) /\ shown'[i] = shown[i])
                                \/ (i = Len(shown) + 1 /\ shown'[i] = h)
  <2>1. \A i \in 1..(Len(shown) + 1) : i \in 1..Len(shown) \/ i = Len(shown) + 1
    BY <1>2
  <2> QED BY <1>4, <2>1
<1>8. /\ h <= sent
      /\ \A i \in 1..Len(shown) : shown[i] < h
      /\ \A k \in 1..Len(frames') : frames'[k] > 0 => h < frames'[k]
      /\ \A k \in 1..Len(wire) : h < wire[k]
  <2>1. \A k \in 1..Len(frames') : 1 < k + 1
    OBVIOUS
  <2>2. \A k \in 1..Len(frames) : 1 < k => (frames[k] > 0 => h < frames[k])
    BY <1>3, <1>6 DEF StreamInv, Ordered
  <2>3. \A k \in 1..Len(frames') : frames'[k] > 0 => h < frames'[k]
    BY <1>3, <2>1, <2>2
  <2> QED BY <1>3, <1>6, <2>3 DEF StreamInv, Ordered
<1>9. Ordered'
  <2>1. \A i \in 1..Len(shown') : shown'[i] <= sent' /\ shown'[i] > 0
    BY <1>1, <1>6, <1>7, <1>8 DEF StreamInv, Ordered
  <2>2. \A i \in 1..Len(frames') : frames'[i] <= sent'
    BY <1>1, <1>3 DEF StreamInv, Ordered
  <2>3. \A i, k \in 1..Len(shown') : i < k => shown'[i] < shown'[k]
    <3> SUFFICES ASSUME NEW i \in 1..Len(shown'), NEW k \in 1..Len(shown'), i < k
                 PROVE  shown'[i] < shown'[k]
      OBVIOUS
    <3>1. i \in 1..Len(shown) /\ shown'[i] = shown[i]
      BY <1>2, <1>4, <1>7
    <3>2. CASE k \in 1..Len(shown) /\ shown'[k] = shown[k]
      BY <3>1, <3>2 DEF StreamInv, Ordered
    <3>3. CASE k = Len(shown) + 1 /\ shown'[k] = h
      BY <1>8, <3>1, <3>3
    <3> QED BY <1>7, <3>2, <3>3
  <2>4. \A i, k \in 1..Len(frames') :
           i < k => frames'[i] > 0 /\ (frames'[k] > 0 => frames'[i] < frames'[k])
    <3> SUFFICES ASSUME NEW i \in 1..Len(frames'), NEW k \in 1..Len(frames'), i < k
                 PROVE  frames'[i] > 0 /\ (frames'[k] > 0 => frames'[i] < frames'[k])
      OBVIOUS
    <3>1. /\ i + 1 \in 1..Len(frames) /\ k + 1 \in 1..Len(frames) /\ i + 1 < k + 1
          /\ frames'[i] = frames[i + 1] /\ frames'[k] = frames[k + 1]
      BY <1>3
    <3>2. frames[i + 1] > 0 /\ (frames[k + 1] > 0 => frames[i + 1] < frames[k + 1])
      BY <3>1 DEF StreamInv, Ordered
    <3> QED BY <3>1, <3>2
  <2>5. \A i \in 1..Len(shown'), k \in 1..Len(frames') :
           frames'[k] > 0 => shown'[i] < frames'[k]
    <3> SUFFICES ASSUME NEW i \in 1..Len(shown'), NEW k \in 1..Len(frames'), frames'[k] > 0
                 PROVE  shown'[i] < frames'[k]
      OBVIOUS
    <3>1. CASE shown'[i] = h
      BY <1>8, <3>1
    <3>2. CASE i \in 1..Len(shown) /\ shown'[i] = shown[i]
      <4>1. k + 1 \in 1..Len(frames) /\ frames'[k] = frames[k + 1]
        BY <1>3
      <4>2. frames[k + 1] > 0 => shown[i] < frames[k + 1]
        BY <3>2, <4>1 DEF StreamInv, Ordered
      <4> QED BY <3>2, <4>1, <4>2
    <3> QED BY <1>7, <3>1, <3>2
  <2>6. \A i \in 1..Len(shown'), k \in 1..Len(wire') : shown'[i] < wire'[k]
    BY <1>1, <1>7, <1>8 DEF StreamInv, Ordered
  <2>7. \A i \in 1..Len(frames'), k \in 1..Len(wire') : frames'[i] < wire'[k]
    BY <1>1, <1>3 DEF StreamInv, Ordered
  <2> QED BY <1>1, <2>1, <2>2, <2>3, <2>4, <2>5, <2>6, <2>7 DEF StreamInv, Ordered
<1>10. Listening'
  BY <1>1, <1>3, <1>5 DEF StreamInv, Listening
<1>11. StreamTypes' /\ ListLatest'
  BY <1>1, <1>3, <1>4 DEF StreamInv, StreamTypes, ListLatest
<1>12. Early' /\ Covered'
  BY <1>1, <1>5 DEF StreamInv, Early, Covered
<1> QED BY <1>9, <1>10, <1>11, <1>12 DEF StreamInv

LEMMA LostStream ==
  ASSUME StreamInv, Lost
  PROVE  StreamInv'
<1>1. /\ frames # <<>> /\ Head(frames) = 0 /\ frames' = Tail(frames)
      /\ UNCHANGED <<sent, list, wire, shown, start, gap, pc, finished, subscribed>>
  BY DEF Lost, redisVars, handlerVars, historyVars
<1>2. /\ frames \in Seq(Nat) /\ shown \in Seq(Nat) /\ Len(frames) \in Nat /\ start \in Nat
  BY LenProperties DEF StreamInv, StreamTypes
<1>3. /\ frames[1] = 0 /\ frames' \in Seq(Nat)
      /\ Len(frames) > 0 /\ Len(frames') = Len(frames) - 1
      /\ Range(frames) = {0} \cup Range(frames')
  BY <1>1, <1>2, Split
<1>4. 1 \in 1..Len(frames)
  BY <1>2, <1>3
<1>5. Len(frames) = 1
  <2> SUFFICES ASSUME Len(frames) # 1 PROVE FALSE
    OBVIOUS
  <2>1. 2 \in 1..Len(frames) /\ 1 < 2
    BY <1>2, <1>3
  <2>2. frames[1] > 0
    BY <1>4, <2>1 DEF StreamInv, Ordered
  <2> QED BY <1>3, <2>2
<1>6. Len(frames') = 0 /\ frames' = <<>>
  BY <1>3, <1>5, EmptySeq
<1>7. Range(frames') = {}
  BY <1>3, <1>6, RangeEmpty
<1>8. finished /\ pc \in {"subscribe", "quit", "live"} /\ start > 0
  <2>1. ~(frames[1] > 0)
    BY <1>3
  <2>2. finished
    BY <1>4, <2>1 DEF StreamInv, Listening
  <2> QED BY <1>1, <2>2 DEF StreamInv, Early
<1>9. Covered'
  <2>1. Got = Got' \cup {0}
    BY <1>1, <1>3, <1>7 DEF Got
  <2>2. start' = start /\ gap' = gap
    BY <1>1
  <2> SUFFICES ASSUME NEW x \in Got', NEW m \in start..x PROVE m \in Got' \cup gap
    BY <2>2 DEF Covered
  <2>3. m \in Got \cup gap
    BY <2>1 DEF StreamInv, Covered
  <2>4. m # 0
    BY <1>2, <1>8
  <2> QED BY <2>1, <2>3, <2>4
<1>10. Listening' /\ Early' /\ ListLatest'
  BY <1>1, <1>6, <1>8 DEF StreamInv, Listening, Early, ListLatest
<1>11. StreamTypes' /\ Ordered'
  BY <1>1, <1>3, <1>6 DEF StreamInv, StreamTypes, Ordered
<1> QED BY <1>9, <1>10, <1>11 DEF StreamInv

LEMMA MessageStream ==
  ASSUME StreamInv, Message
  PROVE  StreamInv'
<1> DEFINE h == Head(wire)
<1>1. /\ wire # <<>> /\ subscribed /\ wire' = Tail(wire)
      /\ UNCHANGED <<sent, list, shown, start, gap, pc>>
      /\ finished => UNCHANGED <<frames, finished, subscribed>>
      /\ ~finished => /\ frames' = frames \o Handled(<<h>>)
                      /\ finished' = Ends(<<h>>)
                      /\ subscribed' = ~(Ends(<<h>>) /\ pc = "live")
  BY DEF Message, redisVars, browserVars, cardVars, historyVars
<1>2. /\ frames \in Seq(Nat) /\ shown \in Seq(Nat) /\ wire \in Seq(Nat)
      /\ Len(frames) \in Nat /\ Len(shown) \in Nat /\ Len(wire) \in Nat
      /\ sent \in Nat /\ start \in Nat
      /\ \A i \in 1..Len(frames) : frames[i] \in Nat
      /\ \A i \in 1..Len(shown) : shown[i] \in Nat
      /\ \A i \in 1..Len(wire) : wire[i] \in Nat
  BY LenProperties, ElementOfSeq DEF StreamInv, StreamTypes
<1>3. /\ h = wire[1] /\ h \in Nat /\ wire' \in Seq(Nat)
      /\ Len(wire) > 0 /\ Len(wire') = Len(wire) - 1
      /\ \A i \in 1..Len(wire') : wire'[i] = wire[i + 1] /\ i + 1 \in 1..Len(wire)
      /\ Range(wire) = {h} \cup Range(wire')
  BY <1>1, <1>2, Split
<1> HIDE DEF h
<1>4. 1 \in 1..Len(wire)
  BY <1>2, <1>3
<1>5. pc \in {"quit", "live"}
  BY <1>1 DEF StreamInv, Early
<1>6. /\ h <= sent /\ h > 0
      /\ \A i \in 1..Len(shown) : shown[i] < h
      /\ \A i \in 1..Len(frames) : frames[i] < h
      /\ \A k \in 1..Len(wire') : h < wire'[k]
  <2>1. \A k \in 1..Len(wire') : 1 < k + 1
    OBVIOUS
  <2>2. \A k \in 1..Len(wire) : 1 < k => h < wire[k]
    BY <1>3, <1>4 DEF StreamInv, Ordered
  <2>3. \A k \in 1..Len(wire') : h < wire'[k]
    BY <1>3, <2>1, <2>2
  <2> QED BY <1>3, <1>4, <2>3 DEF StreamInv, Ordered
<1>7. /\ \A i \in 1..Len(wire') : wire'[i] <= sent /\ wire'[i] > 0
      /\ \A i \in 1..Len(shown), k \in 1..Len(wire') : shown[i] < wire'[k]
      /\ \A i \in 1..Len(frames), k \in 1..Len(wire') : frames[i] < wire'[k]
  BY <1>3 DEF StreamInv, Ordered
<1>8. \A i, k \in 1..Len(wire') : i < k => wire'[i] < wire'[k]
  <2> SUFFICES ASSUME NEW i \in 1..Len(wire'), NEW k \in 1..Len(wire'), i < k
               PROVE  wire'[i] < wire'[k]
    OBVIOUS
  <2>1. /\ i + 1 \in 1..Len(wire) /\ k + 1 \in 1..Len(wire) /\ i + 1 < k + 1
        /\ wire'[i] = wire[i + 1] /\ wire'[k] = wire[k + 1]
    BY <1>3
  <2>2. wire[i + 1] < wire[k + 1]
    BY <2>1 DEF StreamInv, Ordered
  <2> QED BY <2>1, <2>2
<1>9. CASE finished
  <2>1. UNCHANGED <<sent, list, shown, start, gap, pc, frames, finished, subscribed>>
    BY <1>1, <1>9
  <2>2. Ordered'
    BY <1>7, <1>8, <2>1 DEF StreamInv, Ordered
  <2>3. StreamTypes' /\ ListLatest'
    BY <1>3, <2>1 DEF StreamInv, StreamTypes, ListLatest
  <2>4. Early' /\ Covered' /\ Listening'
    BY <1>5, <1>9, <2>1 DEF StreamInv, Early, Covered, Listening, Got
  <2> QED BY <2>2, <2>3, <2>4 DEF StreamInv
<1>10. CASE ~finished
  <2>1. /\ frames' = frames \o Handled(<<h>>) /\ finished' = Ends(<<h>>)
        /\ subscribed' = ~(Ends(<<h>>) /\ pc = "live")
    BY <1>1, <1>10
  <2> DEFINE t == Handled(<<h>>)
  <2>2. /\ t \in Seq(Nat)
        /\ frames' = frames \o t /\ (Len(t) = 1 \/ Len(t) = 2) /\ t[1] = h
        /\ Len(t) = 2 => t[2] = 0
        /\ Range(t) \subseteq {h, 0} /\ h \in Range(t)
        /\ ~finished' => Len(t) = 1 /\ Range(t) = {h} /\ subscribed'
    BY <1>3, <2>1, HandledOne
  <2> HIDE DEF t
  <2>3. /\ frames' \in Seq(Nat) /\ Len(frames') = Len(frames) + Len(t)
        /\ \A i \in 1..Len(frames) : frames'[i] = frames[i]
        /\ \A i \in 1..Len(t) : frames'[Len(frames) + i] = t[i]
        /\ Range(frames') = Range(frames) \cup Range(t)
    BY <1>2, <2>2, Joined
  <2>4. Len(frames) \in Nat /\ Len(frames') = Len(frames) + Len(t) /\ (Len(t) = 1 \/ Len(t) = 2)
    BY <1>2, <2>2, <2>3
  <2>5. \A i \in 1..Len(frames') :
           \/ (i \in 1..Len(frames) /\ frames'[i] = frames[i] /\ frames[i] > 0)
           \/ (i = Len(frames) + 1 /\ frames'[i] = h)
           \/ (i = Len(frames) + 2 /\ frames'[i] = 0 /\ Len(t) = 2)
    <3> SUFFICES ASSUME NEW i \in 1..Len(frames')
                 PROVE \/ (i \in 1..Len(frames) /\ frames'[i] = frames[i] /\ frames[i] > 0)
                       \/ (i = Len(frames) + 1 /\ frames'[i] = h)
                       \/ (i = Len(frames) + 2 /\ frames'[i] = 0 /\ Len(t) = 2)
      OBVIOUS
    <3>1. CASE i \in 1..Len(frames)
      BY <1>10, <2>3, <3>1 DEF StreamInv, Listening
    <3>2. CASE i = Len(frames) + 1
      <4>1. 1 \in 1..Len(t)
        BY <2>2
      <4> QED BY <2>2, <2>3, <3>2, <4>1
    <3>3. CASE i = Len(frames) + 2 /\ Len(t) = 2
      <4>1. 2 \in 1..Len(t)
        BY <3>3
      <4> QED BY <2>2, <2>3, <3>3, <4>1
    <3>4. i \in 1..Len(frames) \/ i = Len(frames) + 1 \/ (i = Len(frames) + 2 /\ Len(t) = 2)
      <4>1. \A a \in Nat : \A b, c : \A k \in 1..c : c = a + b /\ (b = 1 \/ b = 2)
               => k \in 1..a \/ k = a + 1 \/ (k = a + 2 /\ b = 2)
        BY OneOrTwoMore
      <4> QED BY <2>4, <4>1, Zenon
    <3> QED BY <3>1, <3>2, <3>3, <3>4
  <2>6. Ordered'
    <3>1. \A i \in 1..Len(frames') : frames'[i] <= sent'
      <4> SUFFICES ASSUME NEW i \in 1..Len(frames') PROVE frames'[i] <= sent
        BY <1>1
      <4>1. CASE i \in 1..Len(frames) /\ frames'[i] = frames[i]
        BY <4>1 DEF StreamInv, Ordered
      <4>2. CASE frames'[i] = h \/ frames'[i] = 0
        <5>1. sent \in Nat /\ h <= sent
          BY <1>2, <1>6
        <5> QED BY <4>2, <5>1
      <4> QED BY <2>5, <4>1, <4>2
    <3>2. \A i, k \in 1..Len(frames') :
             i < k => frames'[i] > 0 /\ (frames'[k] > 0 => frames'[i] < frames'[k])
      <4> SUFFICES ASSUME NEW i \in 1..Len(frames'), NEW k \in 1..Len(frames'), i < k
                   PROVE  frames'[i] > 0 /\ (frames'[k] > 0 => frames'[i] < frames'[k])
        OBVIOUS
      <4>1. CASE i \in 1..Len(frames) /\ frames'[i] = frames[i] /\ frames[i] > 0
        <5>1. CASE k \in 1..Len(frames) /\ frames'[k] = frames[k]
          BY <4>1, <5>1 DEF StreamInv, Ordered
        <5>2. CASE frames'[k] = h
          BY <1>6, <4>1, <5>2
        <5>3. CASE frames'[k] = 0
          BY <4>1, <5>3
        <5> QED BY <2>5, <5>1, <5>2, <5>3
      <4>2. CASE i = Len(frames) + 1 /\ frames'[i] = h
        <5>1. k = Len(frames) + 2 /\ frames'[k] = 0
          BY <1>2, <2>5, <4>2
        <5> QED BY <1>6, <4>2, <5>1
      <4>3. CASE i = Len(frames) + 2
        <5>1. k <= Len(frames) + 2 /\ k \in Nat /\ i \in Nat
          BY <2>4, OneOrTwoMore
        <5> QED BY <1>2, <4>3, <5>1
      <4> QED BY <2>5, <4>1, <4>2, <4>3
    <3>3. \A i \in 1..Len(shown'), k \in 1..Len(frames') :
             frames'[k] > 0 => shown'[i] < frames'[k]
      BY <1>1, <1>6, <2>5 DEF StreamInv, Ordered
    <3>4. \A i \in 1..Len(frames'), k \in 1..Len(wire') : frames'[i] < wire'[k]
      <4> SUFFICES ASSUME NEW i \in 1..Len(frames'), NEW k \in 1..Len(wire')
                   PROVE  frames'[i] < wire'[k]
        OBVIOUS
      <4>1. wire'[k] > 0
        BY <1>7
      <4> QED BY <1>6, <1>7, <2>5, <4>1
    <3> QED BY <1>1, <1>7, <1>8, <3>1, <3>2, <3>3, <3>4 DEF StreamInv, Ordered
  <2>7. Got' = Got \cup Range(t) /\ Got \subseteq Got' /\ h \in Got'
    BY <1>1, <2>2, <2>3 DEF Got
  <2>8. \A m \in start..h : m \in Got' \cup gap
    <3> SUFFICES ASSUME NEW m \in start..h PROVE m \in Got' \cup gap
      OBVIOUS
    <3>1. m \in start..sent
      BY <1>2, <1>3, <1>6
    <3>2. m \in Got \cup gap \cup Range(wire)
      BY <1>5, <1>10, <3>1 DEF StreamInv, Listening
    <3>3. m \in Range(wire') => FALSE
      <4> SUFFICES ASSUME m \in Range(wire') PROVE FALSE
        OBVIOUS
      <4>1. PICK k \in 1..Len(wire') : wire'[k] = m
        BY <1>3, RangeIs
      <4>2. h < m
        BY <1>6, <4>1
      <4> QED BY <1>2, <1>3, <4>2
    <3> QED BY <1>3, <2>7, <3>2, <3>3
  <2>9. Covered'
    <3> SUFFICES ASSUME NEW x \in Got', NEW m \in start..x PROVE m \in Got' \cup gap
      BY <1>1 DEF Covered
    <3>1. CASE x \in Got
      BY <2>7, <3>1 DEF StreamInv, Covered
    <3>2. CASE x = h
      BY <2>8, <3>2
    <3>3. CASE x = 0
      <4>1. start > 0
        BY <1>5 DEF StreamInv, Early
      <4> QED BY <1>2, <3>3, <4>1
    <3> QED BY <2>2, <2>7, <3>1, <3>2, <3>3
  <2>10. Listening'
    <3> SUFFICES ASSUME ~finished' PROVE Listening'
      BY DEF Listening
    <3>1. Len(t) = 1 /\ Range(t) = {h} /\ subscribed'
      BY <2>2
    <3>2. \A i \in 1..Len(frames') : frames'[i] > 0
      BY <1>6, <2>5, <3>1
    <3>3. Got \cup gap \cup Range(wire) \subseteq Got' \cup gap' \cup Range(wire')
      BY <1>1, <1>3, <2>7
    <3> QED BY <1>1, <1>5, <1>10, <3>1, <3>2, <3>3 DEF StreamInv, Listening
  <2>11. StreamTypes' /\ ListLatest'
    BY <1>1, <1>3, <2>3 DEF StreamInv, StreamTypes, ListLatest
  <2>12. Early'
    BY <1>1, <1>5 DEF StreamInv, Early
  <2> QED BY <2>6, <2>9, <2>10, <2>11, <2>12 DEF StreamInv
<1> QED BY <1>9, <1>10

-----------------------------------------------------------------------------

LEMMA NextStream == StreamInv /\ [StreamNext]_streamVars => StreamInv'
<1> SUFFICES ASSUME StreamInv, [StreamNext]_streamVars PROVE StreamInv'
  OBVIOUS
<1>1. CASE UNCHANGED streamVars
  <2>1. StreamQuiet
    BY <1>1 DEF StreamQuiet, streamVars, redisVars, handlerVars, browserVars, cardVars, historyVars
  <2> QED BY <2>1, QuietStream
<1>2. CASE LeavePage \/ CancelCard \/ Render
  <2>1. StreamQuiet
    BY <1>2 DEF StreamQuiet, LeavePage, CancelCard, Render,
                redisVars, handlerVars, cardVars, historyVars
  <2> QED BY <2>1, QuietStream
<1> QED BY <1>1, <1>2, PublishStream, ExpireStream, OpenStream, FetchStream, SubscribeStream,
           ReturnStream, MessageStream, CloseStream, ShowStream, LostStream
        DEF StreamNext, Serve, View

\* Although replay and subscription are two calls, the card handles the events
\* of its job in their order, none twice, and misses none from the first on but
\* those published between the two; for any events of the job, any limit of the
\* replay list, and whether or not the list lapses.
THEOREM StreamSafety == StreamSpec => []LostOnlyInGap
<1>1. StreamInv => LostOnlyInGap
  <2> SUFFICES ASSUME StreamInv PROVE LostOnlyInGap
    OBVIOUS
  <2>1. /\ shown \in Seq(Nat) /\ frames \in Seq(Nat) /\ Len(shown) \in Nat /\ start \in Nat
        /\ \A i \in 1..Len(shown) : shown[i] \in Nat
        /\ \A i \in 1..Len(frames) : frames[i] \in Nat
    BY LenProperties, ElementOfSeq DEF StreamInv, StreamTypes
  <2>2. ASSUME shown # <<>>, NEW m \in start..Last(shown)
        PROVE  m \in Range(shown) \/ m \in gap
    <3>1. Len(shown) \in 1..Len(shown)
      BY <2>1, <2>2, EmptySeq
    <3>2. Last(shown) = shown[Len(shown)] /\ Last(shown) \in Nat
      BY <2>1, <3>1 DEF Last
    <3>3. Last(shown) \in Got
      BY <2>1, <3>1, <3>2, RangeIs DEF Got
    <3>4. m \in Got \cup gap
      BY <2>2, <3>3 DEF StreamInv, Covered
    <3>5. start > 0
      BY <2>2 DEF StreamInv, Early
    <3>6. m \notin Range(frames)
      <4> SUFFICES ASSUME m \in Range(frames) PROVE FALSE
        OBVIOUS
      <4>1. PICK k \in 1..Len(frames) : frames[k] = m
        BY <2>1, RangeIs
      <4>2. frames[k] > 0
        BY <2>1, <2>2, <3>5, <4>1
      <4>3. Last(shown) < frames[k]
        BY <3>1, <3>2, <4>2 DEF StreamInv, Ordered
      <4> QED BY <2>1, <2>2, <3>2, <4>1, <4>3
    <3> QED BY <3>4, <3>6 DEF Got
  <2> QED BY <2>2 DEF LostOnlyInGap, StreamInv, Ordered
<1>2. StreamSpec => []StreamInv
  BY InitStream, NextStream, PTL DEF StreamSpec
<1> QED BY <1>1, <1>2, PTL

-----------------------------------------------------------------------------
(* What completes a card.                                                   *)

\* Where a list begins that nothing was cut from: at the first event, behind a wait in
\* the queue, or behind the last event.
Fresh(b) == b = 1 \/ b = Len(script) + 1 \/ (b > 1 /\ script[b - 1] = "queued")

CompletedTypes ==
    /\ script \in Scripts /\ sent <= Len(script)
    /\ updates \in Seq(Events \cup {"lost"})

ListBegins ==
    /\ Len(list) <= MaxReplay
    /\ Len(list) = MaxReplay \/ Fresh(sent - Len(list) + 1)

Linked == {"subscribe", "quit", "live"}

\* The replay began where the list did, and nothing older reaches the card.
SinceStart ==
    /\ start <= sent + 1
    /\ pc \in Linked => Fresh(start) \/ Len(script) - start + 1 >= MaxReplay
    /\ \A x \in Got : x > 0 => x >= start
    /\ \A x \in Range(wire) : x >= start

\* An event that ends the stream is the last one.
EndIsLast ==
    \A x \in Got : x > 0 /\ script[x] \in Terminal => finished /\ \A y \in Got : y <= x

Said(e) == \E x \in Range(shown) : script[x] = e

\* Only an answer or a done lets the card say completed.
CardTells ==
    card = "completed" \/ "message_complete" \in Range(updates) \/ "done" \in Range(updates)
        => Said("message_complete") \/ Said("done")

\* The inductive invariant.
CompletedInv == StreamInv /\ CompletedTypes /\ ListBegins /\ SinceStart /\ EndIsLast /\ CardTells

-----------------------------------------------------------------------------
(* The updates of a card, applied in order.                                 *)

IsApplied(h, c, us, m) == h = [n \in 0..m |-> IF n = 0 THEN c ELSE CardAfter(h[n - 1], us[n])]

LEMMA AppliedExists == \A m \in Nat : \A c, us : \E h : IsApplied(h, c, us, m)
<1> SUFFICES ASSUME NEW c, NEW us PROVE \A m \in Nat : \E h : IsApplied(h, c, us, m)
  OBVIOUS
<1> DEFINE S == {m \in Nat : \E h : IsApplied(h, c, us, m)}
<1>1. 0 \in S
  <2> DEFINE h == [n \in 0..0 |-> c]
  <2>1. h = [n \in 0..0 |-> IF n = 0 THEN c ELSE CardAfter(h[n - 1], us[n])]
    OBVIOUS
  <2> QED BY <2>1 DEF IsApplied
<1>2. ASSUME NEW m \in Nat, m \in S PROVE m + 1 \in S
  <2>1. PICK h : IsApplied(h, c, us, m)
    BY <1>2
  <2> DEFINE g == [n \in 0..(m + 1) |-> IF n = m + 1 THEN CardAfter(h[m], us[m + 1]) ELSE h[n]]
  <2>2. ASSUME NEW n \in 0..(m + 1)
        PROVE  g[n] = IF n = 0 THEN c ELSE CardAfter(g[n - 1], us[n])
    <3>1. CASE n = m + 1
      <4>1. g[n] = CardAfter(h[m], us[m + 1]) /\ g[n - 1] = h[m] /\ n # 0
        BY <3>1
      <4> QED BY <3>1, <4>1
    <3>2. CASE n \in 0..m
      <4>1. g[n] = h[n] /\ (n # 0 => g[n - 1] = h[n - 1])
        BY <3>2
      <4>2. h[n] = IF n = 0 THEN c ELSE CardAfter(h[n - 1], us[n])
        BY <2>1, <3>2 DEF IsApplied
      <4> QED BY <4>1, <4>2
    <3> QED BY <3>1, <3>2
  <2>3. g = [n \in 0..(m + 1) |-> g[n]]
    OBVIOUS
  <2> HIDE DEF g
  <2>4. IsApplied(g, c, us, m + 1)
    BY <2>2, <2>3 DEF IsApplied
  <2> QED BY <2>4
<1> HIDE DEF S
<1>3. Nat \subseteq S
  BY <1>1, <1>2, NatInduct
<1> QED BY <1>3 DEF S

\* What completes a card is an answer, a done, or what was complete before.
LEMMA CompletesOnly ==
  ASSUME NEW c, NEW e \in Events \cup {"lost"}, CardAfter(c, e) = "completed"
  PROVE  c = "completed" \/ e = "message_complete" \/ e = "done"
BY DEF CardAfter, DoneAfter, LostAfter, Events, Closing

LEMMA AppliedTells ==
  ASSUME NEW c, NEW us \in Seq(Events \cup {"lost"}), Applied(c, us) = "completed"
  PROVE  c = "completed" \/ "message_complete" \in Range(us) \/ "done" \in Range(us)
<1> SUFFICES ASSUME c # "completed", "message_complete" \notin Range(us), "done" \notin Range(us) PROVE FALSE
  OBVIOUS
<1>1. /\ Len(us) \in Nat
      /\ \A i \in 1..Len(us) : us[i] \in Events \cup {"lost"} /\ us[i] \in Range(us)
  BY LenProperties, ElementOfSeq DEF Range
<1> DEFINE h[n \in 0..Len(us)] == IF n = 0 THEN c ELSE CardAfter(h[n - 1], us[n])
<1>2. IsApplied(h, c, us, Len(us))
  BY <1>1, AppliedExists DEF IsApplied
<1>3. h[Len(us)] = "completed"
  BY DEF Applied
<1> HIDE DEF h
<1> DEFINE S == {n \in Nat : n <= Len(us) => h[n] # "completed"}
<1>4. 0 \in S
  <2>1. h[0] = c
    BY <1>1, <1>2 DEF IsApplied
  <2> QED BY <2>1
<1>5. ASSUME NEW n \in Nat, n \in S PROVE n + 1 \in S
  <2> SUFFICES ASSUME n + 1 <= Len(us) PROVE h[n + 1] # "completed"
    OBVIOUS
  <2>1. h[n] # "completed"
    BY <1>1, <1>5
  <2>2. h[n + 1] = CardAfter(h[n], us[n + 1])
    BY <1>1, <1>2 DEF IsApplied
  <2>3. us[n + 1] \in Events \cup {"lost"} /\ us[n + 1] \in Range(us)
    BY <1>1
  <2> QED BY <2>1, <2>2, <2>3, CompletesOnly
<1> HIDE DEF S
<1>6. Nat \subseteq S
  BY <1>4, <1>5, NatInduct
<1> QED BY <1>1, <1>3, <1>6 DEF S

-----------------------------------------------------------------------------
LEMMA CompletedTypesAre ==
  ASSUME CompletedInv
  PROVE  /\ script \in Seq(Events) /\ Len(script) \in Nat /\ sent \in Nat /\ sent <= Len(script)
         /\ start \in Nat /\ MaxReplay \in Nat /\ MaxReplay > 1
         /\ list \in Seq(Nat) /\ wire \in Seq(Nat) /\ frames \in Seq(Nat) /\ shown \in Seq(Nat)
         /\ updates \in Seq(Events \cup {"lost"})
         /\ Got \subseteq Nat
<1>1. script \in Seq(Events)
  BY ScriptsAssumption DEF CompletedInv, CompletedTypes
<1>2. Len(script) \in Nat
  BY <1>1, LenProperties
<1>3. MaxReplay \in Nat /\ MaxReplay > 1
  BY StreamAssumption
<1>4. /\ sent \in Nat /\ start \in Nat
      /\ list \in Seq(Nat) /\ wire \in Seq(Nat) /\ frames \in Seq(Nat) /\ shown \in Seq(Nat)
  BY DEF CompletedInv, StreamInv, StreamTypes
<1>5. Got \subseteq Nat
  <2>1. /\ \A x \in Range(shown) : \E i \in 1..Len(shown) : shown[i] = x
        /\ \A x \in Range(frames) : \E i \in 1..Len(frames) : frames[i] = x
        /\ \A i \in 1..Len(shown) : shown[i] \in Nat
        /\ \A i \in 1..Len(frames) : frames[i] \in Nat
    BY <1>4, RangeIs, ElementOfSeq
  <2> QED BY <2>1 DEF Got
<1> QED BY <1>1, <1>2, <1>3, <1>4, <1>5 DEF CompletedInv, CompletedTypes

LEMMA CompletedInvTells == CompletedInv => CompletedWasAnswered
<1> SUFFICES ASSUME CompletedInv, card = "completed", gap = {}, script[shown[1]] # "done",
                    ~Said("message_complete")
             PROVE  FALSE
  BY DEF CompletedWasAnswered, Said
<1>1. /\ script \in Seq(Events) /\ Len(script) \in Nat /\ sent \in Nat /\ sent <= Len(script)
      /\ start \in Nat /\ MaxReplay \in Nat
      /\ frames \in Seq(Nat) /\ shown \in Seq(Nat) /\ Got \subseteq Nat
  BY CompletedTypesAre
<1>2. /\ Len(shown) \in Nat
      /\ \A j \in 1..Len(shown) : shown[j] \in Range(shown)
      /\ \A x \in Range(shown) : \E j \in 1..Len(shown) : shown[j] = x
      /\ \A x \in Range(frames) : \E j \in 1..Len(frames) : frames[j] = x
  BY <1>1, RangeIs
<1>3. PICK i \in Range(shown) : script[i] = "done"
  BY DEF CompletedInv, CardTells, Said
<1>4. PICK k \in 1..Len(shown) : shown[k] = i
  BY <1>2
<1>5. 1 \in 1..Len(shown)
  BY <1>2, <1>4
<1>6. PICK a : a = shown[1]
  OBVIOUS
<1>7. a \in Range(shown) /\ script[a] # "done"
  BY <1>2, <1>5, <1>6
<1>8. \A j \in 1..Len(shown) : shown[j] > 0 /\ shown[j] <= sent /\ a <= shown[j] /\ shown[j] \in Nat
  <2> SUFFICES ASSUME NEW j \in 1..Len(shown)
               PROVE  shown[j] > 0 /\ shown[j] <= sent /\ a <= shown[j] /\ shown[j] \in Nat
    OBVIOUS
  <2>1. shown[j] \in Nat /\ a \in Nat
    BY <1>1, <1>2, <1>7 DEF Got
  <2>2. shown[j] > 0 /\ shown[j] <= sent /\ (1 < j => shown[1] < shown[j])
    BY <1>5 DEF CompletedInv, StreamInv, Ordered
  <2> QED BY <1>6, <2>1, <2>2
<1>9. a \in 1..Len(script) /\ i \in 1..Len(script) /\ a < i
  BY <1>1, <1>3, <1>4, <1>5, <1>6, <1>7, <1>8
<1>10. start <= a /\ start > 0
  <2>1. a \in Got /\ a > 0
    BY <1>7, <1>9 DEF Got
  <2>2. pc \in Linked
    <3>1. shown # <<>>
      BY <1>5
    <3> QED BY <3>1 DEF CompletedInv, StreamInv, Early, Linked
  <2> QED BY <2>1, <2>2 DEF CompletedInv, SinceStart, StreamInv, Early, Linked
<1>11. ASSUME NEW m \in start..i PROVE m \in Range(shown)
  <2>1. m \in Got
    BY <1>3, <1>11 DEF CompletedInv, StreamInv, Covered, Got
  <2>2. CASE m \in Range(frames)
    <3>1. PICK j \in 1..Len(frames) : frames[j] = m
      BY <1>2, <2>2
    <3>2. m > 0
      BY <1>1, <1>10
    <3>3. shown[k] < frames[j]
      BY <3>1, <3>2 DEF CompletedInv, StreamInv, Ordered
    <3> QED BY <1>1, <1>4, <1>9, <3>1, <3>3
  <2> QED BY <2>1, <2>2 DEF Got
<1>12. start = a
  <2>1. start \in start..i
    BY <1>1, <1>9, <1>10
  <2>2. PICK j \in 1..Len(shown) : shown[j] = start
    BY <1>2, <1>11, <2>1
  <2> QED BY <1>1, <1>8, <1>9, <1>10, <2>2
<1>13. \A m \in a..(i - 1) : script[m] \notin Closing \cup {"message_complete"}
  <2> SUFFICES ASSUME NEW m \in a..(i - 1) PROVE script[m] \notin Closing \cup {"message_complete"}
    OBVIOUS
  <2>1. m \in start..i /\ m < i /\ m > 0
    BY <1>9, <1>12
  <2>2. m \in Range(shown)
    BY <1>11, <2>1
  <2>3. script[m] # "message_complete"
    BY <2>2 DEF Said
  <2>4. m \in Got /\ i \in Got
    BY <2>2 DEF Got
  <2>5. script[m] \notin Terminal
    <3>1. script[m] \in Terminal => i <= m
      BY <2>1, <2>4 DEF CompletedInv, EndIsLast
    <3> QED BY <1>9, <2>1, <3>1
  <2> QED BY <2>3, <2>5 DEF Closing, Terminal
<1>14. a > 1 /\ script[a - 1] # "queued" /\ Len(script) - a + 1 < MaxReplay
  BY <1>3, <1>7, <1>9, <1>13, ScriptsAssumption DEF CompletedInv, CompletedTypes
<1>15. Fresh(a) \/ Len(script) - a + 1 >= MaxReplay
  <2>1. shown # <<>>
    BY <1>5
  <2> QED BY <1>12, <2>1 DEF CompletedInv, SinceStart, StreamInv, Early, Linked
<1> QED BY <1>1, <1>9, <1>14, <1>15 DEF Fresh

LEMMA InitCompleted == StreamInit => CompletedInv
<1> SUFFICES ASSUME StreamInit PROVE CompletedInv
  OBVIOUS
<1>1. StreamInv
  BY InitStream
<1>2. /\ script \in Scripts /\ sent = 0 /\ list = <<>> /\ pc = "none" /\ wire = <<>> /\ frames = <<>>
      /\ card = "queued" /\ updates = <<>> /\ shown = <<>> /\ start = 0 /\ gap = {}
  BY DEF StreamInit
<1>3. script \in Seq(Events) /\ Len(script) \in Nat
  BY <1>2, ScriptsAssumption, LenProperties
<1>4. Range(<<>>) = {} /\ Len(<<>>) = 0
  <2>1. DOMAIN <<>> = {} /\ Len(<<>>) = 0
    OBVIOUS
  <2> QED BY <2>1 DEF Range
<1>5. CompletedTypes
  BY <1>2, <1>3 DEF CompletedTypes
<1>6. ListBegins
  BY <1>2, <1>4, StreamAssumption DEF ListBegins, Fresh
<1>7. SinceStart /\ EndIsLast /\ CardTells
  BY <1>2, <1>4 DEF SinceStart, EndIsLast, CardTells, Got, Linked
<1> QED BY <1>1, <1>5, <1>6, <1>7 DEF CompletedInv

\* Steps that change neither what was published nor what the card handled.
LEMMA RestCompleted ==
  ASSUME CompletedInv, StreamInv',
         UNCHANGED <<script, sent, list, wire, frames, shown, start, gap, card, updates>>,
         pc' \in Linked => pc \in Linked, finished => finished'
  PROVE  CompletedInv'
<1>1. Got' = Got /\ Range(wire)' = Range(wire)
  BY DEF Got
<1>2. CompletedTypes' /\ ListBegins'
  BY DEF CompletedInv, CompletedTypes, ListBegins, Fresh
<1>3. SinceStart' /\ EndIsLast'
  BY <1>1 DEF CompletedInv, SinceStart, EndIsLast, Fresh
<1>4. CardTells'
  BY DEF CompletedInv, CardTells, Said
<1> QED BY <1>2, <1>3, <1>4 DEF CompletedInv

LEMMA CutIs ==
  ASSUME NEW s \in Seq(Nat), NEW n \in Nat \ {0}
  PROVE  Len(LastN(s, n)) = IF Len(s) <= n THEN Len(s) ELSE n
<1>1. Len(s) \in Nat /\ \A i \in 1..Len(s) : s[i] \in Nat
  BY LenProperties, ElementOfSeq
<1>2. CASE Len(s) <= n
  BY <1>2 DEF LastN
<1>3. CASE Len(s) > n
  <2>1. PICK m : m = Len(s) - n + 1
    OBVIOUS
  <2>2. m \in Nat /\ m >= 1 /\ m <= Len(s) /\ Len(s) - m + 1 = n
    BY <1>1, <1>3, <2>1
  <2>3. \A i \in m..Len(s) : s[i] \in Nat
    BY <1>1, <2>2
  <2>4. Len(SubSeq(s, m, Len(s))) = IF m <= Len(s) THEN Len(s) - m + 1 ELSE 0
    BY <1>1, <2>2, <2>3, SubSeqProperties
  <2>5. LastN(s, n) = SubSeq(s, m, Len(s))
    BY <1>1, <1>3, <2>1 DEF LastN
  <2> QED BY <1>1, <1>3, <2>2, <2>4, <2>5
<1> QED BY <1>1, <1>2, <1>3

LEMMA PublishCompleted ==
  ASSUME CompletedInv, StreamInv', Publish
  PROVE  CompletedInv'
<1>1. /\ sent < Len(script) /\ sent' = sent + 1
      /\ list' = LastN(Append(list, sent + 1), MaxReplay)
      /\ wire' = IF subscribed THEN Append(wire, sent + 1) ELSE wire
      /\ UNCHANGED <<script, pc, finished, frames, shown, start, card, updates>>
  BY DEF Publish, handlerVars, browserVars, cardVars
<1>2. /\ Len(script) \in Nat /\ sent \in Nat /\ start \in Nat /\ MaxReplay \in Nat /\ MaxReplay > 1
      /\ list \in Seq(Nat) /\ wire \in Seq(Nat) /\ Len(list) \in Nat
  BY CompletedTypesAre, LenProperties
<1>3. CompletedTypes'
  BY <1>1, <1>2 DEF CompletedInv, CompletedTypes
<1>4. ListBegins'
  <2>1. PICK more : more = Append(list, sent + 1)
    OBVIOUS
  <2>2. more \in Seq(Nat) /\ Len(more) = Len(list) + 1
    BY <1>2, <2>1, Appended
  <2>3. Len(list') = IF Len(list) + 1 <= MaxReplay THEN Len(list) + 1 ELSE MaxReplay
    <3>1. MaxReplay \in Nat \ {0} /\ list' = LastN(more, MaxReplay)
      BY <1>1, <1>2, <2>1
    <3>2. Len(list') = IF Len(more) <= MaxReplay THEN Len(more) ELSE MaxReplay
      BY <2>2, <3>1, CutIs
    <3> QED BY <2>2, <3>2
  <2>4. Len(list) <= MaxReplay /\ (Len(list) = MaxReplay \/ Fresh(sent - Len(list) + 1))
    BY DEF CompletedInv, ListBegins
  <2>5. CASE Len(list) = MaxReplay
    BY <1>1, <1>2, <2>3, <2>5 DEF ListBegins
  <2>6. CASE Len(list) < MaxReplay
    <3>1. Len(list') = Len(list) + 1 /\ sent' - Len(list') + 1 = sent - Len(list) + 1 /\ script' = script
      <4>1. Len(list') = Len(list) + 1
        BY <1>2, <2>3, <2>6
      <4>2. PICK k, m, c, d : k = Len(list) /\ m = Len(list') /\ c = sent /\ d = sent'
        OBVIOUS
      <4>3. m = k + 1 /\ d = c + 1 /\ c \in Nat /\ k \in Nat
        BY <1>1, <1>2, <4>1, <4>2
      <4>4. d - m + 1 = c - k + 1
        BY <4>3
      <4> QED BY <1>1, <4>1, <4>2, <4>4, Zenon
    <3>2. Fresh(sent - Len(list) + 1)
      BY <1>2, <2>4, <2>6
    <3>3. Len(list') <= MaxReplay
      BY <1>2, <2>6, <3>1
    <3> QED BY <3>1, <3>2, <3>3 DEF ListBegins, Fresh
  <2> QED BY <1>2, <2>4, <2>5, <2>6
<1>5. Got' = Got
  BY <1>1 DEF Got
<1>6. \A x \in Range(wire') : x >= start
  <2>1. start <= sent + 1 /\ \A x \in Range(wire) : x >= start
    BY DEF CompletedInv, SinceStart
  <2>2. subscribed => Range(wire') = Range(wire) \cup {sent + 1}
    BY <1>1, <1>2, Appended
  <2> QED BY <1>1, <1>2, <2>1, <2>2
<1>7. SinceStart'
  BY <1>1, <1>2, <1>5, <1>6 DEF CompletedInv, SinceStart, Fresh
<1>8. EndIsLast'
  BY <1>1, <1>5 DEF CompletedInv, EndIsLast
<1>9. CardTells'
  BY <1>1 DEF CompletedInv, CardTells, Said
<1> QED BY <1>3, <1>4, <1>7, <1>8, <1>9 DEF CompletedInv

LEMMA ExpireCompleted ==
  ASSUME CompletedInv, StreamInv', ListExpires
  PROVE  CompletedInv'
<1>1. /\ list # <<>> /\ (sent = Len(script) \/ script[sent] = "queued") /\ list' = <<>>
      /\ UNCHANGED <<script, sent, wire, frames, shown, start, gap, pc, finished, card, updates>>
  BY DEF ListExpires, handlerVars, browserVars, cardVars, historyVars
<1>2. /\ Len(script) \in Nat /\ sent \in Nat /\ MaxReplay \in Nat
      /\ list \in Seq(Nat)
  BY CompletedTypesAre
<1>3. Len(list') = 0 /\ sent > 0
  <2>1. Len(list) > 0 /\ Len(list) \in Nat
    BY <1>1, <1>2, EmptySeq, LenProperties
  <2>2. Len(list) <= sent
    BY DEF CompletedInv, StreamInv, ListLatest
  <2> QED BY <1>1, <1>2, <2>1, <2>2
<1>4. ListBegins'
  BY <1>1, <1>2, <1>3 DEF ListBegins, Fresh
<1>5. Got' = Got /\ Range(wire)' = Range(wire)
  BY <1>1 DEF Got
<1>6. CompletedTypes' /\ SinceStart' /\ EndIsLast' /\ CardTells'
  BY <1>1, <1>5 DEF CompletedInv, CompletedTypes, SinceStart, EndIsLast, CardTells, Said, Fresh
<1> QED BY <1>4, <1>6 DEF CompletedInv

\* The frames of a batch end with its first terminal event.
LEMMA HandledEnds ==
  ASSUME NEW b \in Seq(Nat)
  PROVE  /\ \A x \in Range(Handled(b)) : x # 0 => x \in Range(b)
         /\ \A i \in 1..Len(b) : script[b[i]] \in Terminal => Ends(b)
         /\ \A i, j \in 1..Len(Handled(b)) :
               Handled(b)[i] # 0 /\ Handled(b)[j] # 0 /\ script[Handled(b)[i]] \in Terminal => j <= i
<1> DEFINE ends == {i \in 1..Len(b) : script[b[i]] \in Terminal}
           n == CHOOSE i \in ends : \A k \in ends : i <= k
<1>1. Len(b) \in Nat /\ \A i \in 1..Len(b) : b[i] \in Nat /\ b[i] \in Range(b)
  BY LenProperties, ElementOfSeq, RangeIs
<1>2. CASE ends = {}
  <2>1. Handled(b) = b
    BY <1>2 DEF Handled
  <2>2. \A i \in 1..Len(b) : script[b[i]] \notin Terminal
    BY <1>2
  <2> QED BY <2>1, <2>2
<1>3. CASE ends # {}
  <2>1. Ends(b) /\ Handled(b) = Append(SubSeq(b, 1, n), 0)
    BY <1>3 DEF Handled, Ends
  <2>2. n \in ends /\ \A k \in ends : n <= k
    <3>1. ends \subseteq Nat
      BY <1>1
    <3>2. PICK i \in ends : \A k \in ends : ~(k < i)
      BY <1>3, <3>1, NatLeast
    <3>3. \A k \in ends : i <= k
      BY <3>1, <3>2
    <3> QED BY <3>3
  <2> HIDE DEF n
  <2>3. n \in 1..Len(b) /\ \A i \in 1..Len(b) : script[b[i]] \in Terminal => n <= i
    BY <2>2
  <2>4. PICK cut : cut = SubSeq(b, 1, n)
    OBVIOUS
  <2>5. cut \in Seq(Nat) /\ Len(cut) = n /\ \A i \in 1..n : cut[i] = b[i] /\ i \in 1..Len(b)
    <3>1. \A i \in 1..n : b[i] \in Nat
      BY <1>1, <2>3
    <3>2. /\ cut \in Seq(Nat)
          /\ Len(cut) = IF 1 <= n THEN n - 1 + 1 ELSE 0
          /\ \A i \in 1..n - 1 + 1 : cut[i] = b[1 + i - 1]
      BY <2>3, <2>4, <3>1, SubSeqProperties
    <3> QED BY <3>2, <2>3, <1>1
  <2>6. PICK t : t = Handled(b)
    OBVIOUS
  <2>7. /\ t \in Seq(Nat) /\ Len(t) = n + 1 /\ \A i \in 1..n : t[i] = cut[i]
        /\ t[n + 1] = 0
    BY <2>1, <2>4, <2>5, <2>6, Appended
  <2>8. \A i \in 1..Len(t) : t[i] # 0 => i \in 1..n /\ t[i] = b[i] /\ i \in 1..Len(b)
    <3>1. \A i \in 1..(n + 1) : i \in 1..n \/ i = n + 1
      BY <2>3
    <3> QED BY <2>5, <2>7, <3>1
  <2>9. \A x \in Range(t) : x # 0 => x \in Range(b)
    <3>1. \A x \in Range(t) : \E i \in 1..Len(t) : t[i] = x
      BY <2>7, RangeIs
    <3> QED BY <1>1, <2>8, <3>1
  <2>10. ASSUME NEW i \in 1..Len(t), NEW j \in 1..Len(t), t[i] # 0, t[j] # 0, script[t[i]] \in Terminal
         PROVE  j <= i
    <3>1. n <= i /\ j <= n
      BY <2>3, <2>8, <2>10
    <3> QED BY <2>3, <3>1
  <2> QED BY <2>1, <2>6, <2>9, <2>10
<1> QED BY <1>2, <1>3

LEMMA FetchCompleted ==
  ASSUME CompletedInv, StreamInv', Fetch
  PROVE  CompletedInv'
<1>1. /\ pc = "fetch" /\ pc' = "subscribe" /\ finished' = Ends(list)
      /\ frames' = frames \o Handled(list)
      /\ start' = IF list = <<>> THEN sent + 1 ELSE list[1]
      /\ UNCHANGED <<script, sent, list, wire, shown, gap, card, updates>>
  BY DEF Fetch, redisVars, browserVars, cardVars
<1>2. /\ Len(script) \in Nat /\ sent \in Nat /\ sent <= Len(script) /\ MaxReplay \in Nat
      /\ list \in Seq(Nat) /\ Len(list) \in Nat
      /\ shown = <<>> /\ frames = <<>> /\ wire = <<>>
      /\ Len(list) <= sent /\ \A i \in 1..Len(list) : list[i] = sent - Len(list) + i
  BY <1>1, CompletedTypesAre, LenProperties DEF CompletedInv, StreamInv, Early, ListLatest
<1>3. start' = sent - Len(list) + 1 /\ start' \in Nat
  <2>1. CASE list = <<>>
    <3>1. Len(list) = 0
      BY <2>1
    <3> QED BY <1>1, <1>2, <2>1, <3>1
  <2>2. CASE list # <<>>
    <3>1. 1 \in 1..Len(list)
      BY <1>2, <2>2, EmptySeq
    <3> QED BY <1>1, <1>2, <2>2, <3>1
  <2> QED BY <2>1, <2>2
<1>4. frames' \in Seq(Nat) /\ frames' = Handled(list)
  <2>1. frames' \in Seq(Nat)
    BY DEF StreamInv, StreamTypes
  <2>2. Handled(list) \in Seq(Nat)
    BY <1>2, HandledIs
  <2> QED BY <1>1, <1>2, <2>1, <2>2, ConcatEmptySeq
<1>5. Range(<<>>) = {}
  <2>1. DOMAIN <<>> = {}
    OBVIOUS
  <2> QED BY <2>1 DEF Range
<1>6. Got' = Range(frames')
  BY <1>1, <1>2, <1>5 DEF Got
<1>7. /\ \A x \in Range(frames') : \E i \in 1..Len(frames') : frames'[i] = x
      /\ \A x \in Range(list) : \E i \in 1..Len(list) : list[i] = x
      /\ \A i \in 1..Len(frames') : frames'[i] \in Nat
      /\ Len(frames') \in Nat
  BY <1>2, <1>4, RangeIs, ElementOfSeq
<1>8. /\ \A x \in Range(frames') : x # 0 => x \in Range(list)
      /\ \A i \in 1..Len(list) : script[list[i]] \in Terminal => Ends(list)
      /\ \A i, j \in 1..Len(frames') :
            frames'[i] # 0 /\ frames'[j] # 0 /\ script[frames'[i]] \in Terminal => j <= i
  BY <1>2, <1>4, HandledEnds
<1>9. EndIsLast'
  <2> SUFFICES ASSUME NEW x \in Got', x > 0, script[x] \in Terminal
               PROVE  finished' /\ \A y \in Got' : y <= x
    BY <1>1 DEF EndIsLast
  <2>1. PICK i \in 1..Len(frames') : frames'[i] = x
    BY <1>6, <1>7
  <2>2. x \in Range(list)
    BY <1>6, <1>8
  <2>3. finished'
    BY <1>1, <1>7, <1>8, <2>2
  <2>4. ASSUME NEW y \in Got' PROVE y <= x
    <3>1. PICK j \in 1..Len(frames') : frames'[j] = y
      BY <1>6, <1>7
    <3>2. x \in Nat /\ y \in Nat
      BY <1>7, <2>1, <3>1
    <3>3. CASE y = 0
      BY <3>2, <3>3
    <3>4. CASE y # 0
      <4>1. j <= i
        BY <1>8, <2>1, <3>1, <3>4
      <4>2. j < i => y < x
        BY <2>1, <3>1 DEF StreamInv, Ordered
      <4> QED BY <1>7, <2>1, <3>1, <3>2, <4>1, <4>2
    <3> QED BY <3>3, <3>4
  <2> QED BY <2>3, <2>4
<1>10. SinceStart'
  <2>1. Len(list) = MaxReplay \/ Fresh(start')
    BY <1>3 DEF CompletedInv, ListBegins
  <2>2. Len(list) = MaxReplay => Len(script) - start' + 1 >= MaxReplay
    BY <1>2, <1>3
  <2>3. \A x \in Got' : x > 0 => x >= start'
    <3> SUFFICES ASSUME NEW x \in Got', x > 0 PROVE x >= start'
      OBVIOUS
    <3>1. PICK i \in 1..Len(list) : list[i] = x
      BY <1>6, <1>7, <1>8
    <3>2. x = sent - Len(list) + i
      BY <1>2, <3>1
    <3> QED BY <1>2, <1>3, <3>2
  <2>4. start' <= sent + 1
    BY <1>2, <1>3
  <2>5. Fresh(start') <=> Fresh(start)'
    BY <1>1 DEF Fresh
  <2>6. Fresh(start)' \/ Len(script') - start' + 1 >= MaxReplay
    BY <1>1, <2>1, <2>2, <2>5
  <2>7. wire' = <<>> /\ sent' = sent
    BY <1>1, <1>2
  <2> QED BY <1>5, <2>3, <2>4, <2>6, <2>7 DEF SinceStart
<1>11. CompletedTypes' /\ ListBegins' /\ CardTells'
  BY <1>1 DEF CompletedInv, CompletedTypes, ListBegins, CardTells, Said, Fresh
<1> QED BY <1>9, <1>10, <1>11 DEF CompletedInv

LEMMA MessageCompleted ==
  ASSUME CompletedInv, StreamInv', Message
  PROVE  CompletedInv'
<1>1. PICK h : h = Head(wire)
  OBVIOUS
<1>2. /\ wire # <<>> /\ subscribed /\ wire' = Tail(wire)
      /\ UNCHANGED <<script, sent, list, pc, shown, start, gap, card, updates>>
      /\ finished => UNCHANGED <<frames, finished>>
      /\ ~finished => frames' = frames \o Handled(<<h>>) /\ finished' = Ends(<<h>>)
  BY <1>1 DEF Message, redisVars, browserVars, cardVars, historyVars
<1>3. /\ frames \in Seq(Nat) /\ shown \in Seq(Nat) /\ wire \in Seq(Nat) /\ Got \subseteq Nat
  BY CompletedTypesAre
<1>4. h \in Nat /\ h = wire[1] /\ Len(wire) > 0 /\ Len(wire) \in Nat /\ Range(wire) = {h} \cup Range(wire')
  BY <1>1, <1>2, <1>3, Split, LenProperties
<1>5. 1 \in 1..Len(wire)
  BY <1>4
<1>6. \A y \in Got : y < h
  <2>1. /\ \A x \in Range(shown) : \E i \in 1..Len(shown) : shown[i] = x
        /\ \A x \in Range(frames) : \E i \in 1..Len(frames) : frames[i] = x
    BY <1>3, RangeIs
  <2> QED BY <1>4, <1>5, <2>1 DEF Got, CompletedInv, StreamInv, Ordered
<1>7. Got' \subseteq Got \cup {h, 0}
  <2>1. CASE finished
    BY <1>2, <2>1 DEF Got
  <2>2. CASE ~finished
    <3>1. PICK t : t = Handled(<<h>>)
      OBVIOUS
    <3>2. t \in Seq(Nat) /\ Range(t) \subseteq {h, 0}
      BY <1>4, <3>1, HandledOne
    <3>3. Range(frames') = Range(frames) \cup Range(t)
      BY <1>2, <1>3, <2>2, <3>1, <3>2, Joined
    <3> QED BY <1>2, <3>2, <3>3 DEF Got
  <2> QED BY <2>1, <2>2
<1>8. finished => Got' = Got
  BY <1>2 DEF Got
<1>9. SinceStart'
  <2>1. start \in Nat /\ h >= start
    BY <1>4, CompletedTypesAre DEF CompletedInv, SinceStart
  <2>2. \A x \in Got' : x > 0 => x >= start
    BY <1>7, <2>1 DEF CompletedInv, SinceStart
  <2>3. \A x \in Range(wire') : x >= start
    BY <1>4 DEF CompletedInv, SinceStart
  <2> QED BY <1>2, <2>2, <2>3 DEF CompletedInv, SinceStart, Fresh
<1>10. EndIsLast'
  <2>1. CASE finished
    BY <1>2, <1>8, <2>1 DEF CompletedInv, EndIsLast
  <2>2. CASE ~finished
    <3> SUFFICES ASSUME NEW x \in Got', x > 0, script[x] \in Terminal
                 PROVE  finished' /\ \A y \in Got' : y <= x
      BY <1>2 DEF EndIsLast
    <3>1. x = h
      BY <1>7, <2>2 DEF CompletedInv, EndIsLast
    <3>2. \A y \in Got' : y <= x
      BY <1>3, <1>4, <1>6, <1>7, <3>1
    <3>3. Ends(<<h>>)
      <4>1. <<h>> \in Seq(Nat) /\ Len(<<h>>) = 1 /\ <<h>>[1] = h
        BY <1>4, One
      <4> QED BY <3>1, <4>1 DEF Ends
    <3> QED BY <1>2, <2>2, <3>2, <3>3
  <2> QED BY <2>1, <2>2
<1>11. CompletedTypes' /\ ListBegins' /\ CardTells'
  BY <1>2 DEF CompletedInv, CompletedTypes, ListBegins, CardTells, Said, Fresh
<1> QED BY <1>9, <1>10, <1>11 DEF CompletedInv

-----------------------------------------------------------------------------
(* The updates of a card grow and are applied.                              *)

LEMMA UpdatesIs ==
  ASSUME NEW us \in Seq(Events \cup {"lost"})
  PROVE  /\ Len(us) \in Nat
         /\ \A i \in 1..Len(us) : us[i] \in Events \cup {"lost"} /\ us[i] \in Range(us)
         /\ \A e \in Range(us) : \E i \in 1..Len(us) : us[i] = e
BY LenProperties, ElementOfSeq DEF Range

LEMMA OneUpdate ==
  ASSUME NEW us \in Seq(Events \cup {"lost"}), NEW e \in Events \cup {"lost"}
  PROVE  /\ Append(us, e) \in Seq(Events \cup {"lost"})
         /\ \A d \in Range(Append(us, e)) : d \in Range(us) \/ d = e
<1>1. /\ Append(us, e) \in Seq(Events \cup {"lost"}) /\ Len(Append(us, e)) = Len(us) + 1
      /\ \A i \in 1..Len(us) : Append(us, e)[i] = us[i]
      /\ Append(us, e)[Len(us) + 1] = e
      /\ Len(us) \in Nat
  BY LenProperties
<1>2. \A i \in 1..(Len(us) + 1) : i \in 1..Len(us) \/ i = Len(us) + 1
  BY <1>1
<1>3. \A d \in Range(Append(us, e)) : \E i \in 1..(Len(us) + 1) : Append(us, e)[i] = d
  BY <1>1, UpdatesIs
<1> QED BY <1>1, <1>2, <1>3, UpdatesIs

LEMMA MoreUpdates ==
  ASSUME NEW us \in Seq(Events \cup {"lost"}), NEW e \in Events, NEW more,
         more = <<e>> \/ more = <<e, "lost">>
  PROVE  /\ us \o more \in Seq(Events \cup {"lost"})
         /\ \A d \in Range(us \o more) : d \in Range(us) \/ d = e \/ d = "lost"
<1>1. Append(us, e) \in Seq(Events \cup {"lost"})
      /\ \A d \in Range(Append(us, e)) : d \in Range(us) \/ d = e
  BY OneUpdate
<1>2. CASE more = <<e>>
  <2>1. us \o more = Append(us, e)
    BY <1>2, AppendIsConcat
  <2> QED BY <1>1, <2>1
<1>3. CASE more = <<e, "lost">>
  <2>1. PICK one : one = Append(us, e)
    OBVIOUS
  <2>2. us \o more = Append(one, "lost")
    BY <1>3, <2>1
  <2>3. /\ Append(one, "lost") \in Seq(Events \cup {"lost"})
        /\ \A d \in Range(Append(one, "lost")) : d \in Range(one) \/ d = "lost"
    BY <1>1, <2>1, OneUpdate
  <2> QED BY <1>1, <2>1, <2>2, <2>3
<1> QED BY <1>2, <1>3

LEMMA ShowCompleted ==
  ASSUME CompletedInv, StreamInv', Show
  PROVE  CompletedInv'
<1>1. PICK h : h = Head(frames)
  OBVIOUS
<1>2. PICK e : e = script[h]
  OBVIOUS
<1>3. /\ frames # <<>> /\ h # 0 /\ frames' = Tail(frames) /\ shown' = Append(shown, h)
      /\ updates' = updates \o (IF e = "error" THEN <<e, "lost">> ELSE <<e>>)
      /\ UNCHANGED <<script, sent, list, wire, start, gap, pc, finished, card>>
  BY <1>1, <1>2 DEF Show, redisVars, handlerVars, historyVars
<1>4. /\ frames \in Seq(Nat) /\ shown \in Seq(Nat) /\ script \in Seq(Events)
      /\ Len(script) \in Nat /\ sent \in Nat /\ sent <= Len(script)
      /\ updates \in Seq(Events \cup {"lost"})
  BY CompletedTypesAre
<1>5. h = frames[1] /\ h \in Nat /\ Len(frames) > 0 /\ Len(frames) \in Nat
      /\ Range(frames) = {h} \cup Range(frames')
  BY <1>1, <1>3, <1>4, Split, LenProperties
<1>6. Range(shown') = Range(shown) \cup {h}
  BY <1>3, <1>4, <1>5, Appended
<1>7. Got' = Got /\ Range(wire)' = Range(wire)
  BY <1>3, <1>5, <1>6 DEF Got
<1>8. e \in Events
  <2>1. 1 \in 1..Len(frames)
    BY <1>5
  <2>2. h <= sent
    BY <1>5, <2>1 DEF CompletedInv, StreamInv, Ordered
  <2>3. h \in 1..Len(script)
    BY <1>3, <1>4, <1>5, <2>2
  <2> QED BY <1>2, <1>4, <2>3, ElementOfSeq
<1>9. /\ updates' \in Seq(Events \cup {"lost"})
      /\ \A d \in Range(updates') : d \in Range(updates) \/ d = e \/ d = "lost"
  <2>1. PICK more : more = IF e = "error" THEN <<e, "lost">> ELSE <<e>>
    OBVIOUS
  <2>2. updates' = updates \o more /\ (more = <<e>> \/ more = <<e, "lost">>)
    BY <1>3, <2>1
  <2> QED BY <1>4, <1>8, <2>2, MoreUpdates
<1>10. CardTells'
  <2> SUFFICES ASSUME card' = "completed" \/ "message_complete" \in Range(updates')
                        \/ "done" \in Range(updates')
               PROVE  Said("message_complete")' \/ Said("done")'
    BY DEF CardTells
  <2>1. ASSUME NEW d, Said(d) PROVE Said(d)'
    BY <1>3, <1>6, <2>1 DEF Said
  <2>2. Said(e)'
    BY <1>2, <1>3, <1>6 DEF Said
  <2>3. CASE e = "message_complete" \/ e = "done"
    BY <2>2, <2>3
  <2>4. CASE e # "message_complete" /\ e # "done"
    <3>1. card = "completed" \/ "message_complete" \in Range(updates) \/ "done" \in Range(updates)
      BY <1>3, <1>9, <2>4
    <3>2. Said("message_complete") \/ Said("done")
      BY <3>1 DEF CompletedInv, CardTells
    <3> QED BY <2>1, <3>2
  <2> QED BY <2>3, <2>4
<1>11. SinceStart' /\ EndIsLast'
  BY <1>3, <1>7 DEF CompletedInv, SinceStart, EndIsLast, Fresh
<1>12. CompletedTypes' /\ ListBegins'
  BY <1>3, <1>9 DEF CompletedInv, CompletedTypes, ListBegins, Fresh
<1> QED BY <1>10, <1>11, <1>12 DEF CompletedInv

LEMMA LostCompleted ==
  ASSUME CompletedInv, StreamInv', Lost
  PROVE  CompletedInv'
<1>1. /\ frames # <<>> /\ Head(frames) = 0 /\ frames' = Tail(frames)
      /\ updates' = Append(updates, "lost")
      /\ UNCHANGED <<script, sent, list, wire, shown, start, gap, pc, finished, card>>
  BY DEF Lost, redisVars, handlerVars, historyVars
<1>2. frames \in Seq(Nat) /\ updates \in Seq(Events \cup {"lost"})
  BY CompletedTypesAre
<1>3. Range(frames) = {0} \cup Range(frames')
  BY <1>1, <1>2, Split
<1>4. Got = Got' \cup {0} /\ Range(wire)' = Range(wire)
  BY <1>1, <1>3 DEF Got
<1>5. /\ updates' \in Seq(Events \cup {"lost"})
      /\ \A d \in Range(updates') : d \in Range(updates) \/ d = "lost"
  BY <1>1, <1>2, OneUpdate
<1>6. CardTells'
  BY <1>1, <1>5 DEF CompletedInv, CardTells, Said
<1>7. SinceStart' /\ EndIsLast'
  BY <1>1, <1>4 DEF CompletedInv, SinceStart, EndIsLast, Fresh
<1>8. CompletedTypes' /\ ListBegins'
  BY <1>1, <1>5 DEF CompletedInv, CompletedTypes, ListBegins, Fresh
<1> QED BY <1>6, <1>7, <1>8 DEF CompletedInv

LEMMA CancelCompleted ==
  ASSUME CompletedInv, StreamInv', CancelCard
  PROVE  CompletedInv'
<1>1. /\ updates' = Append(updates, "cancelled")
      /\ UNCHANGED <<script, sent, list, wire, frames, shown, start, gap, pc, finished, card>>
  BY DEF CancelCard, redisVars, handlerVars, historyVars
<1>2. updates \in Seq(Events \cup {"lost"}) /\ "cancelled" \in Events
  BY CompletedTypesAre DEF Events, Closing
<1>3. Got' = Got /\ Range(wire)' = Range(wire)
  BY <1>1 DEF Got
<1>4. /\ updates' \in Seq(Events \cup {"lost"})
      /\ \A d \in Range(updates') : d \in Range(updates) \/ d = "cancelled"
  BY <1>1, <1>2, OneUpdate
<1>5. CardTells'
  BY <1>1, <1>4 DEF CompletedInv, CardTells, Said
<1>6. SinceStart' /\ EndIsLast'
  BY <1>1, <1>3 DEF CompletedInv, SinceStart, EndIsLast, Fresh
<1>7. CompletedTypes' /\ ListBegins'
  BY <1>1, <1>4 DEF CompletedInv, CompletedTypes, ListBegins, Fresh
<1> QED BY <1>5, <1>6, <1>7 DEF CompletedInv

LEMMA RenderCompleted ==
  ASSUME CompletedInv, StreamInv', Render
  PROVE  CompletedInv'
<1>1. /\ card' = Applied(card, updates) /\ updates' = <<>>
      /\ UNCHANGED <<script, sent, list, wire, frames, shown, start, gap, pc, finished>>
  BY DEF Render, redisVars, handlerVars, historyVars
<1>2. updates \in Seq(Events \cup {"lost"})
  BY CompletedTypesAre
<1>3. Got' = Got /\ Range(wire)' = Range(wire)
  BY <1>1 DEF Got
<1>4. updates' \in Seq(Events \cup {"lost"}) /\ Range(updates') = {}
  <2>1. <<>> \in Seq(Events \cup {"lost"}) /\ DOMAIN <<>> = {}
    OBVIOUS
  <2> QED BY <1>1, <2>1 DEF Range
<1>5. CardTells'
  <2>1. card' = "completed" => card = "completed" \/ "message_complete" \in Range(updates)
                                 \/ "done" \in Range(updates)
    BY <1>1, <1>2, AppliedTells
  <2>2. Said("message_complete")' <=> Said("message_complete")
    BY <1>1 DEF Said
  <2>3. Said("done")' <=> Said("done")
    BY <1>1 DEF Said
  <2> QED BY <1>4, <2>1, <2>2, <2>3 DEF CompletedInv, CardTells
<1>6. SinceStart' /\ EndIsLast'
  BY <1>1, <1>3 DEF CompletedInv, SinceStart, EndIsLast, Fresh
<1>7. CompletedTypes' /\ ListBegins'
  BY <1>1, <1>4 DEF CompletedInv, CompletedTypes, ListBegins, Fresh
<1> QED BY <1>5, <1>6, <1>7 DEF CompletedInv

LEMMA NextCompleted == CompletedInv /\ [StreamNext]_streamVars => CompletedInv'
<1> SUFFICES ASSUME CompletedInv, [StreamNext]_streamVars PROVE CompletedInv'
  OBVIOUS
<1>1. StreamInv'
  BY NextStream DEF CompletedInv
<1>2. CASE UNCHANGED streamVars
  <2>1. /\ UNCHANGED <<script, sent, list, wire, frames, shown, start, gap, card, updates>>
        /\ UNCHANGED <<pc, finished>>
    BY <1>2 DEF streamVars, redisVars, handlerVars, browserVars, cardVars, historyVars
  <2> QED BY <1>1, <2>1, RestCompleted
<1>3. CASE Open \/ Subscribe \/ Return \/ CloseArrives \/ LeavePage
  <2>1. UNCHANGED <<script, sent, list, wire, frames, shown, start, gap, card, updates>>
    BY <1>3 DEF Open, Subscribe, Return, CloseArrives, LeavePage,
                redisVars, handlerVars, browserVars, cardVars, historyVars
  <2>2. pc' \in Linked => pc \in Linked
    BY <1>3 DEF Open, Subscribe, Return, CloseArrives, LeavePage, Linked, handlerVars
  <2>3. finished => finished'
    BY <1>3 DEF Open, Subscribe, Return, CloseArrives, LeavePage, handlerVars
  <2> QED BY <1>1, <2>1, <2>2, <2>3, RestCompleted
<1> QED BY <1>1, <1>2, <1>3, PublishCompleted, ExpireCompleted, FetchCompleted, MessageCompleted,
           ShowCompleted, LostCompleted, CancelCompleted, RenderCompleted
        DEF StreamNext, Serve, View

\* The replay list begins with the first event of a job, behind its wait in the
\* queue, or so far back as it reaches, and an event that ends the stream is the
\* last one the browser is sent.
THEOREM CompletedInvariant == StreamSpec => []CompletedInv
BY InitCompleted, NextCompleted, PTL DEF StreamSpec

\* A done, which every outcome of a job publishes, sets the card of ChatWorkspace.tsx
\* to completed too.  It says so only of a job whose stream brought an answer, unless an
\* event was lost between replay and subscription or the replay began with a done.
THEOREM CompletedSafety == StreamSpec => []CompletedWasAnswered
BY CompletedInvariant, CompletedInvTells, PTL

-----------------------------------------------------------------------------
(* Discuss mode.                                                           *)

LoopRecords == [pc : {"unborn", "post", "stream", "over"}, turn : 1..Turns]
Statuses == {"absent"} \cup Waiting \cup Results

\* Loops are started one after the other.
BornInOrder == \A l \in Loops : loop[l].pc = "unborn" =>
    loop[l].turn = 1 /\ \A k \in Loops : k > l => loop[k].pc = "unborn"

\* The reference to a stream that may be finished by force is to an awaited turn.
ActiveStreams == active # none => \E l \in Loops : loop[l].pc = "stream" /\ active = Step(l)

OneUnlessOverlapped == ~overlapped => OneSpeaker

\* The inductive invariant.
DiscussionInv == /\ DiscussionTypeOK
                 /\ BornInOrder
                 /\ ActiveStreams
                 /\ OneUnlessOverlapped
                 /\ StopReaches
                 /\ NobodyWaitsAlone

-----------------------------------------------------------------------------
(* The operators of the model.                                              *)

LEMMA AfterTurnBounds ==
  ASSUME DiscussionTypeOK, NEW l \in Loops, NEW a \in BOOLEAN
  PROVE  /\ AfterTurn(l, a) \in LoopRecords
         /\ AfterTurn(l, a).pc \in {"post", "over"}
<1>1. loop[l] \in LoopRecords
  BY DEF DiscussionTypeOK, LoopRecords
<1>2. CASE a \/ loop[l].turn = Turns
  BY <1>1, <1>2 DEF AfterTurn, LoopRecords
<1>3. CASE ~(a \/ loop[l].turn = Turns)
  <2>1. loop[l].turn + 1 \in 1..Turns
    BY <1>1, <1>3, DiscussionAssumption DEF LoopRecords
  <2> QED BY <1>3, <2>1 DEF AfterTurn, LoopRecords
<1> QED BY <1>2, <1>3

LEMMA StepIsStep ==
  ASSUME DiscussionTypeOK, NEW l \in Loops
  PROVE  Step(l) \in Steps
BY DEF DiscussionTypeOK, Step, Steps

\* After a turn an entry waits only if it is the next one of the loop, or did before.
LEMMA EntriesAfterBounds ==
  ASSUME DiscussionTypeOK, NEW l \in Loops, NEW a \in BOOLEAN, NEW result \in Results,
         NEW e \in [Steps -> Statuses]
  PROVE  /\ EntriesAfter(e, l, a, result) \in [Steps -> Statuses]
         /\ \A s \in Steps : EntriesAfter(e, l, a, result)[s] \in Waiting =>
               \/ AfterTurn(l, a).pc = "post" /\ s = <<l, AfterTurn(l, a).turn>>
               \/ e[s] \in Waiting /\ s # Step(l)
<1> DEFINE n == AfterTurn(l, a)
           ended == Updated(e, Step(l), result)
<1>1. n \in LoopRecords /\ n.pc \in {"post", "over"} /\ Step(l) \in Steps
  BY AfterTurnBounds, StepIsStep
<1>2. /\ ended \in [Steps -> Statuses]
      /\ \A s \in Steps : ended[s] \in Waiting => e[s] \in Waiting /\ s # Step(l)
  BY <1>1 DEF Updated, Statuses, Waiting, Results
<1>3. <<l, n.turn>> \in Steps
  BY <1>1 DEF Steps, LoopRecords
<1>4. EntriesAfter(e, l, a, result) = IF n.pc = "over" THEN ended
                                      ELSE [ended EXCEPT ![<<l, n.turn>>] = "queued"]
  BY DEF EntriesAfter
<1> HIDE DEF n, ended
<1>5. "queued" \in Statuses
  BY DEF Statuses, Waiting
<1>6. EntriesAfter(e, l, a, result) \in [Steps -> Statuses]
  BY <1>2, <1>3, <1>4, <1>5
<1>7. \A s \in Steps : EntriesAfter(e, l, a, result)[s] \in Waiting =>
               \/ n.pc = "post" /\ s = <<l, n.turn>>
               \/ e[s] \in Waiting /\ s # Step(l)
  BY <1>1, <1>2, <1>3, <1>4
<1> QED BY <1>6, <1>7 DEF n

LEMMA CancelledBounds ==
  ASSUME DiscussionTypeOK
  PROVE  /\ Cancelled(entry) \in [Steps -> Statuses]
         /\ \A s \in Steps : Cancelled(entry)[s] \notin Waiting
BY DEF DiscussionTypeOK, Cancelled, Statuses, Waiting, Results

-----------------------------------------------------------------------------
(* The steps.                                                               *)

\* A turn ends, by its outcome or by force: the loop goes on with the next one or
\* is over, and what else waited may have been cancelled.
LEMMA TurnEnds ==
  ASSUME DiscussionInv, NEW l \in Loops, Alive(l), NEW a \in BOOLEAN, NEW result \in Results,
         NEW e \in [Steps -> Statuses],
         \A s \in Steps : e[s] \in Waiting => entry[s] \in Waiting,
         loop' = [loop EXCEPT ![l] = AfterTurn(l, a)],
         entry' = EntriesAfter(e, l, a, result),
         running' \in BOOLEAN,
         running' => running /\ AfterTurn(l, a).pc # "over",
         \/ active' = none
         \/ active' = active /\ loop[l].pc = "post",
         sources' \subseteq Steps, UNCHANGED overlapped, abort' \in BOOLEAN,
         stopping' \in [Stops -> [pc : {"idle", "cancel", "done"}, seen : SUBSET Steps]],
         UNCHANGED cutOff
  PROVE  DiscussionInv'
<1> DEFINE n == AfterTurn(l, a)
<1>1. n \in LoopRecords /\ n.pc \in {"post", "over"}
  BY AfterTurnBounds DEF DiscussionInv
<1>2. \A k \in Loops : loop'[k] = IF k = l THEN n ELSE loop[k]
  BY DEF DiscussionInv, DiscussionTypeOK
<1>3. /\ entry' \in [Steps -> Statuses]
      /\ \A s \in Steps : entry'[s] \in Waiting =>
            \/ n.pc = "post" /\ s = <<l, n.turn>>
            \/ e[s] \in Waiting /\ s # Step(l)
  BY EntriesAfterBounds DEF DiscussionInv
<1>4. loop' \in [Loops -> LoopRecords]
  BY <1>1 DEF DiscussionInv, DiscussionTypeOK, LoopRecords
<1> HIDE DEF n
<1>5. DiscussionTypeOK'
  BY <1>3, <1>4 DEF DiscussionInv, DiscussionTypeOK, LoopRecords, Statuses
<1>6. BornInOrder'
  BY <1>1, <1>2 DEF DiscussionInv, BornInOrder, Alive
<1>7. ActiveStreams'
  <2> SUFFICES ASSUME active' # none
               PROVE  \E k \in Loops : loop'[k].pc = "stream" /\ active' = Step(k)'
    BY DEF ActiveStreams
  <2>1. PICK k \in Loops : loop[k].pc = "stream" /\ active = Step(k)
    BY DEF DiscussionInv, ActiveStreams
  <2>2. loop'[k] = loop[k] /\ active' = active
    BY <1>2, <2>1
  <2> QED BY <2>1, <2>2 DEF Step
<1>8. OneUnlessOverlapped'
  BY <1>1, <1>2 DEF DiscussionInv, OneUnlessOverlapped, OneSpeaker, Alive
<1>9. StopReaches'
  BY <1>1, <1>2 DEF DiscussionInv, StopReaches, OneUnlessOverlapped, OneSpeaker, Alive
<1>10. ASSUME running'
       PROVE  \E k \in Loops : Alive(k)' /\ \A m \in Loops : m > k => loop'[m].pc = "unborn"
  <2>1. PICK k \in Loops : Alive(k) /\ \A m \in Loops : m > k => loop[m].pc = "unborn"
    BY <1>10 DEF DiscussionInv, NobodyWaitsAlone
  <2>2. Alive(k)'
    BY <1>1, <1>2, <1>10, <2>1 DEF Alive, n
  <2>3. \A m \in Loops : m > k => loop'[m].pc = "unborn"
    BY <1>2, <2>1 DEF Alive
  <2> QED BY <2>2, <2>3
<1>11. ASSUME NEW s \in Steps, entry'[s] \in Waiting
       PROVE  Alive(s[1])' /\ loop'[s[1]].turn = s[2]
  <2>1. CASE n.pc = "post" /\ s = <<l, n.turn>>
    BY <1>2, <2>1 DEF Alive
  <2>2. CASE e[s] \in Waiting /\ s # Step(l)
    <3>1. Alive(s[1]) /\ loop[s[1]].turn = s[2] /\ s[1] \in Loops /\ s = <<s[1], s[2]>>
      BY <2>2 DEF DiscussionInv, NobodyWaitsAlone, Steps
    <3>2. s[1] # l
      BY <2>2, <3>1 DEF Step
    <3> QED BY <1>2, <3>1, <3>2 DEF Alive
  <2> QED BY <1>3, <1>11, <2>1, <2>2
<1> QED BY <1>5, <1>6, <1>7, <1>8, <1>9, <1>10, <1>11 DEF DiscussionInv, NobodyWaitsAlone

LEMMA InitDiscussion == Init => DiscussionInv
<1> SUFFICES ASSUME Init PROVE DiscussionInv
  OBVIOUS
<1>1. DiscussionTypeOK
  <2>1. loop \in [Loops -> [pc : {"unborn", "post", "stream", "over"}, turn : 1..Turns]]
    BY DiscussionAssumption DEF Init
  <2>2. entry \in [Steps -> {"absent"} \cup Waiting \cup Results]
    BY DEF Init
  <2>3. stopping \in [Stops -> [pc : {"idle", "cancel", "done"}, seen : SUBSET Steps]]
    BY DEF Init
  <2> QED BY <2>1, <2>2, <2>3 DEF Init, DiscussionTypeOK
<1>2. \A l \in Loops : loop[l].pc = "unborn" /\ loop[l].turn = 1
  BY DEF Init
<1>3. active = none /\ ~running /\ \A s \in Steps : entry[s] \notin Waiting
  BY DEF Init, Waiting
<1> QED BY <1>1, <1>2, <1>3 DEF DiscussionInv, BornInOrder, ActiveStreams, OneUnlessOverlapped,
          OneSpeaker, Alive, StopReaches, NobodyWaitsAlone

LEMMA StartKeeps ==
  ASSUME DiscussionInv, NEW l \in Loops, Start(l)
  PROVE  DiscussionInv'
<1>1. \A k \in Loops : loop'[k] = IF k = l THEN [loop[l] EXCEPT !.pc = "post"] ELSE loop[k]
  BY DEF Start, DiscussionInv, DiscussionTypeOK
<1>2. loop[l] \in LoopRecords /\ loop[l].pc = "unborn"
  BY DEF Start, DiscussionInv, DiscussionTypeOK, LoopRecords
<1>3. loop'[l].pc = "post" /\ loop'[l].turn = 1 /\ loop'[l] \in LoopRecords
  BY <1>1, <1>2 DEF LoopRecords, DiscussionInv, BornInOrder
<1>4. /\ UNCHANGED <<active, sources, stopping, cutOff>> /\ abort' = FALSE
      /\ overlapped' = (overlapped \/ \E k \in Loops : Alive(k))
  BY DEF Start
<1>5. DiscussionTypeOK'
  <2>1. loop' \in [Loops -> LoopRecords]
    BY <1>3 DEF Start, DiscussionInv, DiscussionTypeOK, LoopRecords
  <2>2. entry' \in [Steps -> Statuses]
    BY DEF Start, Statuses, Waiting
  <2>3. running' \in BOOLEAN /\ overlapped' \in BOOLEAN
    BY DEF Start, DiscussionInv, DiscussionTypeOK
  <2> QED BY <1>4, <2>1, <2>2, <2>3 DEF DiscussionInv, DiscussionTypeOK, LoopRecords, Statuses
<1>6. BornInOrder'
  <2> SUFFICES ASSUME NEW k \in Loops, loop'[k].pc = "unborn"
               PROVE  loop'[k].turn = 1 /\ \A m \in Loops : m > k => loop'[m].pc = "unborn"
    BY DEF BornInOrder
  <2>1. k # l /\ loop[k].pc = "unborn" /\ loop'[k] = loop[k]
    BY <1>1, <1>3
  <2>2. ~(k < l)
    BY <2>1 DEF Start, Loops
  <2>3. k > l
    BY <2>1, <2>2 DEF Loops
  <2> QED BY <1>1, <2>1, <2>3 DEF DiscussionInv, BornInOrder, Loops
<1>7. ActiveStreams'
  <2> SUFFICES ASSUME active' # none
               PROVE  \E k \in Loops : loop'[k].pc = "stream" /\ active' = Step(k)'
    BY DEF ActiveStreams
  <2>1. PICK k \in Loops : loop[k].pc = "stream" /\ active = Step(k)
    BY <1>4 DEF DiscussionInv, ActiveStreams
  <2>2. loop'[k] = loop[k]
    BY <1>1, <1>2, <2>1
  <2> QED BY <1>4, <2>1, <2>2 DEF Step
<1>8. OneUnlessOverlapped'
  BY <1>1, <1>3, <1>4 DEF OneUnlessOverlapped, OneSpeaker, Alive
<1>9. StopReaches'
  BY <1>1, <1>3, <1>4 DEF DiscussionInv, StopReaches, Alive, Step
<1>10. Alive(l)' /\ \A m \in Loops : m > l => loop'[m].pc = "unborn"
  BY <1>1, <1>2, <1>3 DEF Alive, DiscussionInv, BornInOrder, Loops
<1>11. ASSUME NEW s \in Steps, entry'[s] \in Waiting
       PROVE  Alive(s[1])' /\ loop'[s[1]].turn = s[2]
  <2>1. s = <<l, 1>>
    BY <1>11 DEF Start, Waiting
  <2> QED BY <1>3, <2>1 DEF Alive
<1> QED BY <1>5, <1>6, <1>7, <1>8, <1>9, <1>10, <1>11 DEF DiscussionInv, NobodyWaitsAlone

\* The page's own copies of the status of a turn, and the requests of Stop, may
\* change as long as no entry begins to wait that did not.
LEMMA QuietStep ==
  ASSUME DiscussionInv, UNCHANGED <<loop, active, overlapped>>,
         abort' \in BOOLEAN, cutOff' \in BOOLEAN, running' \in BOOLEAN, running' => running,
         sources' \subseteq Steps, entry' \in [Steps -> Statuses],
         \A s \in Steps : entry'[s] \in Waiting =>
             entry[s] \in Waiting \/ (Alive(s[1]) /\ loop[s[1]].turn = s[2]),
         stopping' \in [Stops -> [pc : {"idle", "cancel", "done"}, seen : SUBSET Steps]]
  PROVE  DiscussionInv'
<1>1. DiscussionTypeOK'
  BY DEF DiscussionInv, DiscussionTypeOK, Statuses
<1>2. /\ BornInOrder' /\ ActiveStreams' /\ OneUnlessOverlapped' /\ StopReaches'
  BY DEF DiscussionInv, BornInOrder, ActiveStreams, OneUnlessOverlapped, OneSpeaker, StopReaches,
         Alive, Step
<1>3. NobodyWaitsAlone'
  BY DEF DiscussionInv, NobodyWaitsAlone, Alive
<1> QED BY <1>1, <1>2, <1>3 DEF DiscussionInv

LEMMA PostKeeps ==
  ASSUME DiscussionInv, NEW l \in Loops, PostReturns(l)
  PROVE  DiscussionInv'
<1>1. loop[l] \in LoopRecords /\ loop[l].pc = "post"
  BY DEF PostReturns, DiscussionInv, DiscussionTypeOK, LoopRecords
<1>2. \A k \in Loops : loop'[k] = IF k = l THEN [loop[l] EXCEPT !.pc = "stream"] ELSE loop[k]
  BY DEF PostReturns, DiscussionInv, DiscussionTypeOK
<1>3. loop'[l].pc = "stream" /\ loop'[l].turn = loop[l].turn /\ loop'[l] \in LoopRecords
  BY <1>1, <1>2 DEF LoopRecords
<1>4. \A k \in Loops : (Alive(k)' <=> Alive(k)) /\ (Step(k)' = Step(k))
  BY <1>1, <1>2, <1>3 DEF Alive, Step
<1>5. UNCHANGED <<abort, running, entry, stopping, overlapped, cutOff>> /\ active' = Step(l)
  BY DEF PostReturns
<1>6. DiscussionTypeOK'
  <2>1. loop' \in [Loops -> LoopRecords]
    BY <1>3 DEF PostReturns, DiscussionInv, DiscussionTypeOK, LoopRecords
  <2>2. Step(l) \in Steps
    BY StepIsStep DEF DiscussionInv
  <2>3. sources' \subseteq Steps
    BY <2>2 DEF PostReturns, DiscussionInv, DiscussionTypeOK
  <2> QED BY <1>5, <2>1, <2>2, <2>3 DEF DiscussionInv, DiscussionTypeOK, LoopRecords
<1>7. BornInOrder'
  BY <1>1, <1>2, <1>3 DEF DiscussionInv, BornInOrder
<1>8. ActiveStreams'
  BY <1>3, <1>4, <1>5 DEF ActiveStreams
<1>9. OneUnlessOverlapped'
  BY <1>4, <1>5 DEF DiscussionInv, OneUnlessOverlapped, OneSpeaker
<1>10. StopReaches'
  BY <1>1, <1>3, <1>4, <1>5, <1>9 DEF StopReaches, OneUnlessOverlapped, OneSpeaker, Alive
<1>11. NobodyWaitsAlone'
  <2>1. ASSUME running'
        PROVE  \E k \in Loops : Alive(k)' /\ \A m \in Loops : m > k => loop'[m].pc = "unborn"
    <3>1. PICK k \in Loops : Alive(k) /\ \A m \in Loops : m > k => loop[m].pc = "unborn"
      BY <1>5, <2>1 DEF DiscussionInv, NobodyWaitsAlone
    <3> QED BY <1>1, <1>2, <1>4, <3>1
  <2>2. ASSUME NEW s \in Steps, entry'[s] \in Waiting
        PROVE  Alive(s[1])' /\ loop'[s[1]].turn = s[2]
    <3>1. Alive(s[1]) /\ loop[s[1]].turn = s[2] /\ s[1] \in Loops
      BY <1>5, <2>2 DEF DiscussionInv, NobodyWaitsAlone, Steps
    <3> QED BY <1>2, <1>3, <1>4, <3>1
  <2> QED BY <2>1, <2>2 DEF NobodyWaitsAlone
<1> QED BY <1>6, <1>7, <1>8, <1>9, <1>10, <1>11 DEF DiscussionInv

LEMMA FailKeeps ==
  ASSUME DiscussionInv, NEW l \in Loops, PostFails(l)
  PROVE  DiscussionInv'
<1>1. Alive(l) /\ loop[l].pc = "post" /\ abort \in BOOLEAN /\ entry \in [Steps -> Statuses]
  BY DEF PostFails, Alive, DiscussionInv, DiscussionTypeOK, Statuses
<1>2. "failed" \in Results
  BY DEF Results
<1>3. /\ loop' = [loop EXCEPT ![l] = AfterTurn(l, abort)]
      /\ entry' = EntriesAfter(entry, l, abort, "failed")
      /\ running' = (running /\ AfterTurn(l, abort).pc # "over")
      /\ UNCHANGED <<abort, active, sources, stopping, overlapped, cutOff>>
  BY DEF PostFails, Resume
<1>4. /\ running' \in BOOLEAN /\ sources' \subseteq Steps /\ abort' \in BOOLEAN
      /\ stopping' \in [Stops -> [pc : {"idle", "cancel", "done"}, seen : SUBSET Steps]]
  BY <1>3 DEF DiscussionInv, DiscussionTypeOK
<1> QED BY <1>1, <1>2, <1>3, <1>4, TurnEnds

LEMMA OutcomeKeeps ==
  ASSUME DiscussionInv, NEW l \in Loops, Outcome(l)
  PROVE  DiscussionInv'
<1>1. Alive(l) /\ abort \in BOOLEAN /\ entry \in [Steps -> Statuses]
  BY DEF Outcome, Alive, DiscussionInv, DiscussionTypeOK, Statuses
<1>2. PICK result \in Results : Resume(l, result)
  BY DEF Outcome
<1>3. /\ loop' = [loop EXCEPT ![l] = AfterTurn(l, abort)]
      /\ entry' = EntriesAfter(entry, l, abort, result)
      /\ running' = (running /\ AfterTurn(l, abort).pc # "over")
      /\ UNCHANGED <<abort, stopping, overlapped, cutOff>>
      /\ active' = none /\ sources' \subseteq sources
  BY <1>2 DEF Outcome, Resume
<1>4. /\ running' \in BOOLEAN /\ sources' \subseteq Steps /\ abort' \in BOOLEAN
      /\ stopping' \in [Stops -> [pc : {"idle", "cancel", "done"}, seen : SUBSET Steps]]
  BY <1>3 DEF DiscussionInv, DiscussionTypeOK
<1> QED BY <1>1, <1>3, <1>4, TurnEnds

LEMMA ForceKeeps ==
  ASSUME DiscussionInv, NEW a \in BOOLEAN, ForceAndClose(a),
         abort' \in BOOLEAN, UNCHANGED <<overlapped, cutOff>>,
         stopping' \in [Stops -> [pc : {"idle", "cancel", "done"}, seen : SUBSET Steps]]
  PROVE  DiscussionInv'
<1>1. active' = none /\ sources' = {} /\ running' = FALSE
  BY DEF ForceAndClose
<1>2. CASE active = none
  <2>1. entry' = Cancelled(entry) /\ UNCHANGED loop
    BY <1>2 DEF ForceAndClose
  <2>2. entry' \in [Steps -> Statuses] /\ \A s \in Steps : entry'[s] \notin Waiting
    BY <2>1, CancelledBounds DEF DiscussionInv
  <2>3. running' \in BOOLEAN /\ (running' => running) /\ sources' \subseteq Steps /\ cutOff' \in BOOLEAN
    BY <1>1 DEF DiscussionInv, DiscussionTypeOK
  <2> QED BY <1>1, <1>2, <2>1, <2>2, <2>3, QuietStep
<1>3. CASE active # none
  <2>1. PICK l \in Loops : loop[l].pc = "stream" /\ active = Step(l)
    BY <1>3 DEF DiscussionInv, ActiveStreams
  <2>2. active[1] = l
    BY <2>1 DEF Step
  <2>3. /\ loop' = [loop EXCEPT ![l] = AfterTurn(l, a)]
        /\ entry' = EntriesAfter(Cancelled(entry), l, a, "cancelled")
    BY <1>3, <2>2 DEF ForceAndClose
  <2>4. /\ Cancelled(entry) \in [Steps -> Statuses]
        /\ \A s \in Steps : Cancelled(entry)[s] \notin Waiting
    BY CancelledBounds DEF DiscussionInv
  <2>5. "cancelled" \in Results /\ Alive(l)
    BY <2>1 DEF Results, Alive
  <2>6. /\ running' \in BOOLEAN /\ (running' => running /\ AfterTurn(l, a).pc # "over")
        /\ sources' \subseteq Steps
        /\ \A s \in Steps : Cancelled(entry)[s] \in Waiting => entry[s] \in Waiting
    BY <1>1, <2>4
  <2> QED BY <1>1, <2>3, <2>4, <2>5, <2>6, TurnEnds
<1> QED BY <1>2, <1>3

LEMMA StopKeeps ==
  ASSUME DiscussionInv, NEW h \in Stops, Stop(h) \/ StopNext(h)
  PROVE  DiscussionInv'
<1>1. abort' \in BOOLEAN /\ abort \in BOOLEAN /\ UNCHANGED <<overlapped, cutOff>>
  BY DEF Stop, StopNext, DiscussionInv, DiscussionTypeOK
<1>2. stopping' \in [Stops -> [pc : {"idle", "cancel", "done"}, seen : SUBSET Steps]]
  <2> DEFINE Requests == [pc : {"idle", "cancel", "done"}, seen : SUBSET Steps]
  <2>0. stopping \in [Stops -> Requests] /\ sources \subseteq Steps /\ stopping[h] \in Requests
    BY DEF DiscussionInv, DiscussionTypeOK
  <2>1. CASE Stop(h)
    <3>1. CASE sources = {}
      BY <2>0, <2>1, <3>1 DEF Stop
    <3>2. CASE sources # {}
      <4>1. PICK s \in sources : stopping' = [stopping EXCEPT ![h] = [pc |-> "cancel", seen |-> {s}]]
        BY <2>1, <3>2 DEF Stop
      <4> QED BY <2>0, <4>1
    <3> QED BY <3>1, <3>2
  <2>2. CASE StopNext(h)
    <3>1. CASE sources \subseteq stopping[h].seen
      BY <2>0, <2>2, <3>1 DEF StopNext
    <3>2. CASE ~(sources \subseteq stopping[h].seen)
      <4>1. PICK s \in sources : stopping' = [stopping EXCEPT ![h].seen = @ \cup {s}]
        BY <2>2, <3>2 DEF StopNext
      <4> QED BY <2>0, <4>1
    <3> QED BY <3>1, <3>2
  <2> QED BY <2>1, <2>2
<1>3. \/ \E a \in BOOLEAN : ForceAndClose(a)
      \/ UNCHANGED <<running, loop, active, sources, entry>>
  BY <1>1 DEF Stop, StopNext
<1>4. CASE \E a \in BOOLEAN : ForceAndClose(a)
  BY <1>1, <1>2, <1>4, ForceKeeps
<1>5. CASE UNCHANGED <<running, loop, active, sources, entry>>
  <2>1. /\ cutOff' \in BOOLEAN /\ running' \in BOOLEAN /\ sources' \subseteq Steps
        /\ entry' \in [Steps -> Statuses]
    BY <1>1, <1>5 DEF DiscussionInv, DiscussionTypeOK, Statuses
  <2> QED BY <1>1, <1>2, <1>5, <2>1, QuietStep
<1> QED BY <1>3, <1>4, <1>5

LEMMA ProgressKeeps ==
  ASSUME DiscussionInv, NEW l \in Loops, Progress(l)
  PROVE  DiscussionInv'
<1>1. entry' = Updated(entry, Step(l), "started") /\ Alive(l)
  BY DEF Progress, Alive
<1>2. entry' \in [Steps -> Statuses]
  BY <1>1 DEF Updated, DiscussionInv, DiscussionTypeOK, Statuses, Waiting
<1>3. \A s \in Steps : entry'[s] = entry[s] \/ s = Step(l)
  BY <1>1 DEF Updated, DiscussionInv, DiscussionTypeOK
<1>4. \A s \in Steps : entry'[s] \in Waiting =>
             entry[s] \in Waiting \/ (Alive(s[1]) /\ loop[s[1]].turn = s[2])
  BY <1>1, <1>3 DEF Step
<1>5. UNCHANGED <<abort, running, loop, active, sources, stopping, overlapped, cutOff>>
  BY DEF Progress
<1>6. /\ abort' \in BOOLEAN /\ cutOff' \in BOOLEAN /\ running' \in BOOLEAN /\ (running' => running)
      /\ sources' \subseteq Steps
      /\ stopping' \in [Stops -> [pc : {"idle", "cancel", "done"}, seen : SUBSET Steps]]
  BY <1>5 DEF DiscussionInv, DiscussionTypeOK
<1> QED BY <1>2, <1>4, <1>5, <1>6, QuietStep

LEMMA LeaveKeeps ==
  ASSUME DiscussionInv, Leave
  PROVE  DiscussionInv'
<1>1. /\ sources' = {} /\ cutOff' \in BOOLEAN
      /\ UNCHANGED <<abort, running, loop, active, stopping, overlapped>>
  BY DEF Leave
<1>4. /\ abort' \in BOOLEAN /\ running' \in BOOLEAN /\ (running' => running)
      /\ sources' \subseteq Steps /\ entry \in [Steps -> Statuses]
      /\ stopping' \in [Stops -> [pc : {"idle", "cancel", "done"}, seen : SUBSET Steps]]
  BY <1>1 DEF DiscussionInv, DiscussionTypeOK, Statuses
<1>2. CASE entry' = entry
  BY <1>1, <1>2, <1>4, QuietStep
<1>3. CASE entry' = [s \in Steps |-> "absent"]
  <2>1. entry' \in [Steps -> Statuses] /\ \A s \in Steps : entry'[s] \notin Waiting
    BY <1>3 DEF Statuses, Waiting
  <2> QED BY <1>1, <1>4, <2>1, QuietStep
<1> QED BY <1>2, <1>3 DEF Leave

LEMMA NextDiscussion == DiscussionInv /\ [Next]_vars => DiscussionInv'
<1> SUFFICES ASSUME DiscussionInv, [Next]_vars
             PROVE  DiscussionInv'
  OBVIOUS
<1>1. ASSUME NEW l \in Loops,
             Start(l) \/ PostReturns(l) \/ PostFails(l) \/ Progress(l) \/ Outcome(l)
      PROVE  DiscussionInv'
  BY <1>1, StartKeeps, PostKeeps, FailKeeps, ProgressKeeps, OutcomeKeeps
<1>2. ASSUME NEW h \in Stops, Stop(h) \/ StopNext(h) PROVE DiscussionInv'
  BY <1>2, StopKeeps
<1>3. CASE Leave
  BY <1>3, LeaveKeeps
<1>4. CASE UNCHANGED vars
  BY <1>4, QuietStep DEF vars, DiscussionInv, DiscussionTypeOK, Statuses
<1> QED BY <1>1, <1>2, <1>3, <1>4 DEF Next

\* The inductive invariant of runDiscussion and stopDiscussion (ChatWorkspace.tsx).
THEOREM DiscussionInvariant == Spec => []DiscussionInv
BY InitDiscussion, NextDiscussion, PTL DEF Spec

\* While the form is disabled the loop started last is alive, and every entry with a
\* spinner is the turn that a living loop is at (ChatWorkspace.tsx), for any number of
\* starts, stops and turns and any order of late events.
THEOREM WaitingSafety == Spec => []NobodyWaitsAlone
BY DiscussionInvariant, PTL DEF DiscussionInv

\* stopDiscussion finds the turn that is awaited in activeStreamRef, unless a second
\* loop was started beside a living one.
THEOREM StopSafety == Spec => []StopReaches
BY DiscussionInvariant, PTL DEF DiscussionInv
=============================================================================
