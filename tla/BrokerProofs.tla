---------------------------- MODULE BrokerProofs ----------------------------
(***************************************************************************)
(* Proofs about the coroutines that ask the broker: that answers belong to *)
(* the questions they are taken to answer, however late they come and      *)
(* whatever requests were given up on before; that the candle store leaves *)
(* no hole narrower than a request; and that good ticks ascend, and the    *)
(* candles made of them stand.                                             *)
(***************************************************************************)
EXTENDS BrokerClients, CollectionLemmas

-----------------------------------------------------------------------------
(* The inductive invariant.                                                *)

\* What concerns a client: its unread messages, its requests the broker has
\* not answered, and what the broker has said to it.
Box(c) == Elems(inbox[c])
Out(c) == {q \in asked : q.client = c}
Said(c) == {m \in told : m.client = c}

Saying(c, question, value) ==
    [client |-> c, question |-> question, kind |-> "answer", value |-> value]

\* No request and no message bears an id not handed out yet.
ConnInv ==
    /\ nextReq \in Nat \ {0} /\ broken \subseteq Clients
    /\ awaiting \in [Clients -> Nat]
    /\ inbox \in [Clients -> {inbox[c] : c \in Clients}]
    /\ \A q \in asked : q.client \in Clients /\ q.req \in Nat /\ q.req < nextReq
    /\ \A c \in Clients :
          /\ awaiting[c] < nextReq /\ IsSeq(inbox[c])
          /\ \A m \in Box(c) : m.req \in Nat /\ m.req < nextReq

\* The request awaited asks this question, and only an answer to this question
\* will be taken for its answer.
Belongs(c, question) ==
    awaiting[c] # Idle =>
        /\ \A q \in Out(c) : q.req = awaiting[c] => q.question = question
        /\ \A m \in Box(c) : m.req = awaiting[c] /\ m.kind # "error" =>
              Saying(c, question, m.value) \in told

AdvisorInv ==
    /\ AdvisorTypeOK /\ IsSeq(candidates)
    /\ awaiting[Advisor] # Idle => /\ advising = "asking"
                                   /\ Len(candidates) < Len(Durations)
    /\ Belongs(Advisor, Durations[Len(candidates) + 1])
    /\ QuotesBelong

Sought == IF discovering = "listing" THEN "active_symbols"
          ELSE listed[Len(entries) + 1]

\* The contracts found so far are those of the symbols they were asked for.
EntriesBelong ==
    \A i \in DOMAIN entries :
        entries[i] = {} \/ Saying(Discoverer, listed[i], entries[i]) \in told

\* Every list of symbols the broker has sent is a list it may send.
ListsKnown == \A m \in Said(Discoverer) :
                 m.question = "active_symbols" /\ m.kind = "answer" => m.value \in Listings

DiscoveryInv ==
    /\ DiscoveryTypeOK /\ IsSeq(entries)
    /\ discovering # "surveying" => entries = <<>>
    /\ awaiting[Discoverer] # Idle =>
          \/ discovering = "listing"
          \/ discovering = "surveying" /\ Len(entries) < Len(listed)
    /\ Belongs(Discoverer, Sought)
    /\ ListsKnown /\ EntriesBelong /\ ContractsBelong

\* An answer to the query under way: the candles from a to b, of which a goes
\* on where the stored ones end, or is the first of all, or as many candles as
\* are asked for follow it; and no stored candle lies beyond the one after b.
Fits(v) ==
    \E a \in 1..now, b \in 0..now :
        /\ v \subseteq [at : a..b, complete : BOOLEAN]
        /\ \A i \in a..b : \E c \in v : c.at = i
        /\ \A c, d \in v : c.at = d.at => c = d
        /\ \A at \in StoredAt : at <= b + 1
        /\ a = 1 \/ a = query.start \/ a + query.count - 1 <= b

StoreInv ==
    /\ StoreTypeOK /\ now \in Nat \ {0}
    /\ storing # "waiting" => Box(Storer) = {} /\ Out(Storer) = {}
    /\ storing # "idle" =>
          /\ query.count \in Counts /\ query.start \in Nat
          /\ query.start # NoStart =>
                query.start - 1 \in StoredAt /\ \A at \in StoredAt : at < query.start
    /\ \A q \in Out(Storer) : q.question = query
    /\ \A m \in Box(Storer) : m.kind # "error" => Fits(m.value)
    /\ HolesAreWide

\* What is remembered is the last good tick.
RemembersLastGood ==
    \A i \in DOMAIN ticks : Good(i) =>
        /\ ticks[i].epoch \in 1..lastEpoch
        /\ (\A k \in DOMAIN ticks : k > i => ~Good(k))
             => ticks[i].epoch = lastEpoch /\ ticks[i].received = lastReceived

IngestionInv ==
    /\ IngestionTypeOK /\ IsSeq(ticks) /\ clock \in Nat
    /\ \A m \in Box(Streamer) : m.kind = "tick" => m.value \in RawTicks
    /\ RemembersLastGood /\ GoodTicksAscend

BrokerInv == ConnInv /\ AdvisorInv /\ DiscoveryInv /\ StoreInv /\ IngestionInv

-----------------------------------------------------------------------------
(* What a step does to the connection of a client.                         *)

\* Nothing new is under way, and the broker says nothing.
Quiet(c) == /\ awaiting'[c] \in {awaiting[c], Idle}
            /\ Box(c)' \subseteq Box(c) /\ Out(c)' \subseteq Out(c)
            /\ told \subseteq told' /\ Said(c)' = Said(c)

\* The client asks a question.
Asking(c, question) ==
    /\ awaiting'[c] = nextReq /\ told' = told
    /\ Box(c)' \subseteq Box(c)
    /\ Out(c)' \subseteq Out(c) \cup
                        {[client |-> c, req |-> nextReq, question |-> question]}

\* What the broker sends a client in return for a request of it.
MaySend(c, q, m) ==
    \/ m.kind = "error" /\ \A s \in Said(c)' \ Said(c) : s.kind = "error"
    \/ /\ c # Streamer /\ m.kind = "answer" /\ m.value \in AnswersTo(q)
       /\ Said(c)' = Said(c) \cup {Saying(c, q.question, m.value)}
    \/ c = Streamer /\ (m.kind = "tick" => m.value \in RawTicks)

Sent(c) ==
    \E q \in Out(c) : \E m :
        /\ m.req = q.req /\ Box(c)' = Box(c) \cup {m}
        /\ awaiting' = awaiting /\ Out(c)' \subseteq Out(c)
        /\ told \subseteq told'
        /\ MaySend(c, q, m)

ConnStutters == UNCHANGED connVars

\* A client that reads, gives up, connects or leaves, or whose connection
\* breaks, asks nothing and is sent nothing.
LEMMA QuietSteps ==
    ASSUME ConnInv, NEW c \in Clients,
           \/ Connects(c) \/ Leaves(c) \/ Skips(c) \/ Drops(c) \/ Returns(c)
           \/ \E why \in {"error", "failure"} : Raises(c, why)
           \/ Closes(c) \/ ConnStutters
    PROVE  ConnInv' /\ \A d \in Clients : Quiet(d)
<1>0. IsSeq(inbox[c])
  BY DEF ConnInv
<1>1. /\ told' = told /\ nextReq' = nextReq /\ asked' \subseteq asked
      /\ broken' \subseteq Clients
  BY DEF ConnInv, Connects, Leaves, Skips, Drops, Returns, Raises, Closes,
         ConnStutters, connVars
<1>2. \/ awaiting' = awaiting
      \/ awaiting' = [awaiting EXCEPT ![c] = Idle]
  BY DEF Connects, Leaves, Skips, Drops, Returns, Raises, Closes,
         ConnStutters, connVars
<1>3. \/ inbox' = inbox
      \/ inbox' = [inbox EXCEPT ![c] = <<>>]
      \/ inbox[c] # <<>> /\ inbox' = [inbox EXCEPT ![c] = Tail(inbox[c])]
  BY DEF ConnInv, Connects, Leaves, Skips, Drops, Returns, Raises, MayRaise, Reading,
         Closes, ConnStutters, connVars
<1>4. /\ awaiting' \in [Clients -> Nat]
      /\ \A d \in Clients : awaiting'[d] \in {awaiting[d], Idle}
  BY <1>2 DEF ConnInv, Idle
<1>5. /\ inbox' \in [Clients -> {inbox'[d] : d \in Clients}]
      /\ \A d \in Clients : d # c => inbox'[d] = inbox[d]
      /\ \/ inbox'[c] = inbox[c]
         \/ inbox'[c] = <<>>
         \/ inbox[c] # <<>> /\ inbox'[c] = Tail(inbox[c])
  <2>1. DOMAIN inbox = Clients /\ inbox = [d \in Clients |-> inbox[d]]
    BY DEF ConnInv
  <2>2. DOMAIN inbox' = Clients /\ inbox' = [d \in Clients |-> inbox'[d]]
    BY <1>3, <2>1
  <2> QED
    BY <1>3, <2>1, <2>2
<1>6. \A d \in Clients : IsSeq(inbox'[d]) /\ Elems(inbox'[d]) \subseteq Elems(inbox[d])
  <2> SUFFICES ASSUME NEW d \in Clients
               PROVE  IsSeq(inbox'[d]) /\ Elems(inbox'[d]) \subseteq Elems(inbox[d])
    OBVIOUS
  <2>1. IsSeq(inbox[d])
    BY DEF ConnInv
  <2>2. CASE inbox'[d] = inbox[d]
    BY <2>1, <2>2
  <2>3. CASE inbox'[d] = <<>>
    BY <2>3, EmptyIsSeq
  <2>4. CASE inbox[d] # <<>> /\ inbox'[d] = Tail(inbox[d])
    BY <2>1, <2>4, Tailed
  <2> QED
    BY <1>5, <2>2, <2>3, <2>4
<1>7. \A d \in Clients : Box(d)' \subseteq Box(d) /\ Out(d)' \subseteq Out(d)
  BY <1>1, <1>6 DEF Box, Out
<1>8. ConnInv'
  <2>1. \A d \in Clients : awaiting'[d] < nextReq'
    BY <1>1, <1>4 DEF ConnInv, Idle
  <2> QED
    BY <1>1, <1>4, <1>5, <1>6, <1>7, <2>1 DEF ConnInv
<1> QED
  BY <1>1, <1>4, <1>7, <1>8 DEF Quiet, Said

\* A client that asks.
LEMMA AskingStep ==
    ASSUME ConnInv, NEW c \in Clients, NEW question, Asks(c, question)
    PROVE  /\ ConnInv' /\ Asking(c, question)
           /\ \A d \in Clients \ {c} : Quiet(d)
<1> DEFINE q == [client |-> c, req |-> nextReq, question |-> question]
<1>1. /\ nextReq' = nextReq + 1 /\ told' = told /\ broken' = broken
      /\ awaiting' = [awaiting EXCEPT ![c] = nextReq]
      /\ asked' \subseteq asked \cup {q}
      /\ \/ inbox' = inbox
         \/ inbox' = [inbox EXCEPT ![c] = <<>>]
  BY DEF Asks
<1>2. /\ awaiting' \in [Clients -> Nat] /\ awaiting'[c] = nextReq
      /\ \A d \in Clients \ {c} : awaiting'[d] = awaiting[d]
  BY <1>1 DEF ConnInv
<1>3. /\ inbox' \in [Clients -> {inbox'[d] : d \in Clients}]
      /\ \A d \in Clients \ {c} : inbox'[d] = inbox[d]
      /\ inbox'[c] = inbox[c] \/ inbox'[c] = <<>>
  BY <1>1 DEF ConnInv
<1>4. \A d \in Clients : IsSeq(inbox'[d]) /\ Elems(inbox'[d]) \subseteq Elems(inbox[d])
  BY <1>3, EmptyIsSeq DEF ConnInv
<1>5. \A d \in Clients : Box(d)' \subseteq Box(d)
  BY <1>4 DEF Box
<1>6. /\ Out(c)' \subseteq Out(c) \cup {q}
      /\ \A d \in Clients \ {c} : Out(d)' \subseteq Out(d)
  BY <1>1 DEF Out
<1>7. ConnInv'
  <2>1. nextReq \in Nat \ {0} /\ nextReq' \in Nat \ {0} /\ nextReq < nextReq'
    BY <1>1 DEF ConnInv
  <2>2. \A r \in asked' : r.client \in Clients /\ r.req \in Nat /\ r.req < nextReq'
    <3>1. q.client \in Clients /\ q.req = nextReq
      OBVIOUS
    <3>2. \A r \in asked : r.client \in Clients /\ r.req \in Nat /\ r.req < nextReq
      BY DEF ConnInv
    <3> HIDE DEF q
    <3> QED
      BY <1>1, <2>1, <3>1, <3>2
  <2>3. \A d \in Clients : awaiting'[d] < nextReq'
    BY <1>1, <1>2, <2>1 DEF ConnInv
  <2>4. \A d \in Clients : \A m \in Box(d)' : m.req \in Nat /\ m.req < nextReq'
    <3>1. \A d \in Clients : \A m \in Box(d) : m.req \in Nat /\ m.req < nextReq
      BY DEF ConnInv
    <3>2. \A n \in Nat : n < nextReq => n < nextReq'
      BY <2>1
    <3> HIDE DEF q
    <3> QED
      BY <1>5, <3>1, <3>2
  <2>5. broken' \subseteq Clients
    BY <1>1 DEF ConnInv
  <2> QED
    BY <1>2, <1>3, <1>4, <2>1, <2>2, <2>3, <2>4, <2>5 DEF ConnInv
<1> QED
  BY <1>1, <1>2, <1>5, <1>6, <1>7 DEF Asking, Quiet, Said

\* The broker answers a request or sends on a subscription.
LEMMA SendingStep ==
    ASSUME ConnInv, NEW q \in asked, NEW kind, NEW value,
           \/ /\ Replies(q, kind, value)
              /\ \/ kind = "error"
                 \/ /\ kind = "answer" /\ q.client # Streamer
                    /\ value \in AnswersTo(q)
           \/ /\ Sends(q, kind, value) /\ q.client = Streamer
              /\ kind = "tick" => value \in RawTicks
    PROVE  /\ ConnInv' /\ Sent(q.client)
           /\ \A d \in Clients \ {q.client} : Quiet(d)
<1> DEFINE c == q.client
           m == [req |-> q.req, kind |-> kind, value |-> value]
           said == [client |-> c, question |-> q.question, kind |-> kind, value |-> value]
<1>0. c \in Clients /\ q.req \in Nat /\ q.req < nextReq /\ IsSeq(inbox[c])
  BY DEF ConnInv
<1>1. /\ nextReq' = nextReq /\ awaiting' = awaiting /\ broken' = broken
      /\ asked' \subseteq asked
      /\ inbox' = [inbox EXCEPT ![c] = Append(inbox[c], m)]
      /\ \/ told' = told \cup {said} /\ Replies(q, kind, value)
         \/ told' = told /\ c = Streamer /\ Sends(q, kind, value)
  BY DEF Replies, Sends
<1>2. m.req = q.req /\ m.kind = kind /\ m.value = value
  OBVIOUS
<1>3. said.client = c /\ said.kind = kind
  OBVIOUS
<1>4. kind = "answer" => said = Saying(c, q.question, m.value)
  BY DEF Saying
<1> HIDE DEF m, said
<1>5. /\ inbox' \in [Clients -> {inbox'[d] : d \in Clients}]
      /\ \A d \in Clients \ {c} : inbox'[d] = inbox[d]
      /\ inbox'[c] = Append(inbox[c], m)
  BY <1>0, <1>1 DEF ConnInv
<1>6. /\ \A d \in Clients : IsSeq(inbox'[d])
      /\ \A d \in Clients \ {c} : Box(d)' = Box(d)
      /\ Box(c)' = Box(c) \cup {m}
  <2>1. \A d \in Clients : IsSeq(inbox[d])
    BY DEF ConnInv
  <2>2. IsSeq(inbox'[c]) /\ Elems(inbox'[c]) = Elems(inbox[c]) \cup {m}
    BY <1>0, <1>5, Appended
  <2>3. \A d \in Clients \ {c} : Elems(inbox'[d]) = Elems(inbox[d])
    BY <1>5
  <2> QED
    BY <1>5, <2>1, <2>2, <2>3 DEF Box
<1>7. /\ told \subseteq told'
      /\ \A d \in Clients \ {c} : Said(d)' = Said(d)
      /\ \A d \in Clients : Out(d)' \subseteq Out(d)
  BY <1>1, <1>3 DEF Said, Out
<1>8. ConnInv'
  <2>1. \A d \in Clients : \A n \in Box(d)' : n.req \in Nat /\ n.req < nextReq'
    BY <1>0, <1>1, <1>2, <1>6 DEF ConnInv
  <2> QED
    BY <1>1, <1>5, <1>6, <2>1 DEF ConnInv
<1>9. MaySend(c, q, m)
  <2>1. CASE kind = "error"
    <3>1. \A s \in Said(c)' \ Said(c) : s.kind = "error"
      BY <1>1, <1>3, <2>1 DEF Said
    <3> QED
      BY <1>2, <2>1, <3>1 DEF MaySend
  <2>2. CASE c # Streamer /\ kind = "answer" /\ value \in AnswersTo(q)
    <3>1. Said(c)' = Said(c) \cup {said}
      BY <1>1, <1>3, <2>2 DEF Said
    <3> QED
      BY <1>2, <1>4, <2>2, <3>1 DEF MaySend
  <2>3. CASE c = Streamer /\ (kind = "tick" => value \in RawTicks)
    BY <1>2, <2>3 DEF MaySend
  <2> QED
    BY <2>1, <2>2, <2>3
<1>10. Sent(c)
  <2>1. q \in Out(c)
    BY DEF Out
  <2> QED
    BY <1>0, <1>1, <1>2, <1>6, <1>7, <1>9, <2>1 DEF Sent
<1>11. \A d \in Clients \ {c} : Quiet(d)
  BY <1>1, <1>6, <1>7 DEF Quiet
<1> QED
  BY <1>8, <1>10, <1>11

\* A step of a client's own concerns no other client's connection.
Alone(c) == ConnInv' /\ \A d \in Clients \ {c} : Quiet(d)

\* The steps on a connection other than the arrival of a message are such steps.
LEMMA QuietIsAlone ==
    ASSUME ConnInv, NEW c \in Clients,
           \/ Connects(c) \/ Leaves(c) \/ Skips(c) \/ Drops(c) \/ Returns(c)
           \/ \E why \in {"error", "failure"} : Raises(c, why)
           \/ Closes(c) \/ ConnStutters
           \/ \E question : Asks(c, question)
    PROVE  Alone(c)
BY QuietSteps, AskingStep DEF Alone

\* The steps of each client are.
LEMMA AdvisorStepsAlone == ASSUME ConnInv, AdvisorNext PROVE Alone(Advisor)
<1>0. Advisor \in Clients
  BY AdvisorAssumption
<1>1. CASE AskPrice
  BY <1>0, <1>1, QuietIsAlone DEF AskPrice
<1>2. CASE HearPrice
  BY <1>0, <1>2, QuietIsAlone DEF HearPrice
<1>3. CASE HearBadPrice
  BY <1>0, <1>3, QuietIsAlone DEF HearBadPrice
<1>4. CASE SkipPrice
  BY <1>0, <1>4, QuietIsAlone DEF SkipPrice
<1>5. ASSUME NEW why \in {"error", "failure"}, MissPrice(why) PROVE Alone(Advisor)
  BY <1>0, <1>5, QuietIsAlone DEF MissPrice
<1>6. CASE Conclude
  BY <1>0, <1>6, QuietIsAlone DEF Conclude
<1>7. CASE AdviseNothing
  BY <1>0, <1>7, QuietIsAlone DEF AdviseNothing, ConnStutters
<1>8. ASSUME NEW p \in ModelProbs, StartAdvising(p) PROVE Alone(Advisor)
  BY <1>0, <1>8, QuietIsAlone DEF StartAdvising
<1> QED
  BY <1>1, <1>2, <1>3, <1>4, <1>5, <1>6, <1>7, <1>8 DEF AdvisorNext, AdvisorStep

\* So are market discovery's.
LEMMA DiscoveryStepsAlone == ASSUME ConnInv, DiscoveryNext PROVE Alone(Discoverer)
<1>0. Discoverer \in Clients
  BY DiscoveryAssumption
<1>1. CASE StartPass
  BY <1>0, <1>1, QuietIsAlone DEF StartPass
<1>2. CASE AskList
  BY <1>0, <1>2, QuietIsAlone DEF AskList
<1>3. CASE HearList
  BY <1>0, <1>3, QuietIsAlone DEF HearList
<1>4. CASE AskContracts
  BY <1>0, <1>4, QuietIsAlone DEF AskContracts
<1>5. CASE HearContracts
  BY <1>0, <1>5, QuietIsAlone DEF HearContracts
<1>6. CASE SkipMessage
  BY <1>0, <1>6, QuietIsAlone DEF SkipMessage
<1>7. ASSUME NEW why \in {"error", "failure"}, MissList(why) PROVE Alone(Discoverer)
  BY <1>0, <1>7, QuietIsAlone DEF MissList
<1>8. ASSUME NEW why \in {"error", "failure"}, MissContracts(why)
      PROVE  Alone(Discoverer)
  BY <1>0, <1>8, QuietIsAlone DEF MissContracts
<1>9. CASE Upsert
  BY <1>0, <1>9, QuietIsAlone DEF Upsert
<1> QED
  BY <1>1, <1>2, <1>3, <1>4, <1>5, <1>6, <1>7, <1>8, <1>9
     DEF DiscoveryNext, DiscoveryStep

\* So are the candle store's.
LEMMA StoreStepsAlone == ASSUME ConnInv, StoreNext PROVE Alone(Storer)
<1>0. Storer \in Clients
  BY StoreAssumption
<1>1. CASE AskCandles
  BY <1>0, <1>1, QuietIsAlone DEF AskCandles
<1>2. CASE StoreCandles \/ NothingNew \/ FetchRaises
  BY <1>0, <1>2, QuietIsAlone DEF StoreCandles, NothingNew, FetchRaises, FetchEnds
<1>3. ASSUME NEW count \in Counts, NEW force \in BOOLEAN, BeginFetch(count, force)
      PROVE  Alone(Storer)
  BY <1>0, <1>3, QuietIsAlone DEF BeginFetch
<1>4. CASE CandleCloses
  BY <1>0, <1>4, QuietIsAlone DEF CandleCloses, ConnStutters
<1> QED
  BY <1>1, <1>2, <1>3, <1>4 DEF StoreNext, StoreStep

\* So are the tick stream's.
LEMMA IngestionStepsAlone == ASSUME ConnInv, IngestionNext PROVE Alone(Streamer)
<1>0. Streamer \in Clients
  BY IngestionAssumption
<1>1. CASE OpenStream
  BY <1>0, <1>1, QuietIsAlone DEF OpenStream
<1>2. CASE Subscribe
  BY <1>0, <1>2, QuietIsAlone DEF Subscribe
<1>3. CASE HearTick
  BY <1>0, <1>3, QuietIsAlone DEF HearTick
<1>4. CASE SkipOther
  BY <1>0, <1>4, QuietIsAlone DEF SkipOther
<1>5. CASE StreamRaises
  BY <1>0, <1>5, QuietIsAlone DEF StreamRaises
<1>6. CASE TimePasses
  BY <1>0, <1>6, QuietIsAlone DEF TimePasses, ConnStutters
<1> QED
  BY <1>1, <1>2, <1>3, <1>4, <1>5, <1>6 DEF IngestionNext

\* A step of the broker, or none: each client is sent something or nothing.
LEMMA BrokerSteps ==
    ASSUME ConnInv, Broker \/ ConnStutters, running \subseteq Clients
    PROVE  ConnInv' /\ \A c \in Clients : Quiet(c) \/ Sent(c)
<1>0. \A q \in asked : q.client \in Clients
  BY DEF ConnInv
<1>1. ASSUME NEW q \in asked,
             \/ q.client # Streamer /\ \E v \in AnswersTo(q) : Replies(q, "answer", v)
             \/ Replies(q, "error", NoQuote)
      PROVE  ConnInv' /\ \A c \in Clients : Quiet(c) \/ Sent(c)
  BY <1>0, <1>1, SendingStep
<1>2. ASSUME NEW q \in asked, q.client = Streamer,
             \/ \E t \in RawTicks : Sends(q, "tick", t)
             \/ Sends(q, "answer", NoQuote)
      PROVE  ConnInv' /\ \A c \in Clients : Quiet(c) \/ Sent(c)
  BY <1>0, <1>2, SendingStep
<1>3. CASE BrokerCloses \/ ConnStutters
  <2>1. \E c \in Clients : Closes(c) \/ ConnStutters
    BY <1>3, AdvisorAssumption DEF BrokerCloses
  <2> QED
    BY <2>1, QuietSteps
<1> QED
  BY <1>1, <1>2, <1>3 DEF Broker, BrokerAnswers, BrokerStreams

-----------------------------------------------------------------------------
(* That answers belong to their questions.                                 *)

\* It remains so while nothing is asked and nothing is said.
LEMMA BelongsQuietly ==
    ASSUME ConnInv, NEW c \in Clients, NEW question, Belongs(c, question), Quiet(c)
    PROVE  awaiting'[c] # Idle =>
             /\ \A q \in Out(c)' : q.req = awaiting'[c] => q.question = question
             /\ \A m \in Box(c)' : m.req = awaiting'[c] /\ m.kind # "error" =>
                   Saying(c, question, m.value) \in told'
BY DEF Belongs, Quiet

\* It is so of a request just made: its id is new to everyone.
LEMMA BelongsOnceAsked ==
    ASSUME ConnInv, NEW c \in Clients, NEW question, Asking(c, question)
    PROVE  /\ \A q \in Out(c)' : q.req = awaiting'[c] => q.question = question
           /\ \A m \in Box(c)' : m.req # awaiting'[c]
<1>1. nextReq \in Nat
  BY DEF ConnInv
<1>2. \A q \in Out(c) : q.req \in Nat /\ q.req < nextReq
  BY DEF ConnInv, Out
<1>3. \A m \in Box(c) : m.req \in Nat /\ m.req < nextReq
  BY DEF ConnInv
<1> QED
  BY <1>1, <1>2, <1>3 DEF Asking

\* It remains so when the broker says something.
LEMMA BelongsWhenSent ==
    ASSUME ConnInv, NEW c \in Clients, c # Streamer,
           NEW question, Belongs(c, question), Sent(c)
    PROVE  awaiting'[c] # Idle =>
             /\ \A q \in Out(c)' : q.req = awaiting'[c] => q.question = question
             /\ \A m \in Box(c)' : m.req = awaiting'[c] /\ m.kind # "error" =>
                   Saying(c, question, m.value) \in told'
<1>1. PICK q, m :
         /\ q \in Out(c)
         /\ m.req = q.req /\ Box(c)' = Box(c) \cup {m}
         /\ awaiting' = awaiting /\ Out(c)' \subseteq Out(c)
         /\ told \subseteq told'
         /\ MaySend(c, q, m)
  BY DEF Sent
<1>2. m.kind # "error" => Saying(c, q.question, m.value) \in told'
  BY <1>1 DEF MaySend, Said
<1> QED
  BY <1>1, <1>2 DEF Belongs

-----------------------------------------------------------------------------
(* The advisor.                                                            *)

\* The message read is an answer to the price asked for.
LEMMA PriceHeard ==
    ASSUME ConnInv, AdvisorInv, Reading(Advisor), IsMyAnswer(Advisor)
    PROVE  /\ Len(candidates) < Len(Durations)
           /\ Saying(Advisor, Durations[Len(candidates) + 1], Heard(Advisor)) \in told
<1>1. Head(inbox[Advisor]) \in Box(Advisor)
  BY SeqFacts, AdvisorAssumption DEF ConnInv, Reading, Box
<1> QED
  BY <1>1 DEF AdvisorInv, Belongs, Reading, IsMyAnswer, IsError, Heard

\* The advisor goes on as before while only others act and the broker answers.
LEMMA AdvisorUndisturbed ==
    ASSUME ConnInv, AdvisorInv, UNCHANGED advisorVars,
           Quiet(Advisor) \/ Sent(Advisor)
    PROVE  AdvisorInv'
<1>0. Advisor \in Clients /\ Advisor # Streamer
  BY AdvisorAssumption, TogetherAssumption
<1>1. /\ advising' = advising /\ candidates' = candidates /\ advice' = advice
      /\ signalProb' = signalProb
  BY DEF advisorVars
<1>2. told \subseteq told' /\ awaiting'[Advisor] \in {awaiting[Advisor], Idle}
  BY DEF Quiet, Sent
<1>3. AdvisorTypeOK' /\ IsSeq(candidates)'
  BY <1>1 DEF AdvisorInv, AdvisorTypeOK, IsSeq, Elems
<1>4. QuotesBelong'
  BY <1>1, <1>2 DEF AdvisorInv, QuotesBelong, ToldOf
<1>5. Belongs(Advisor, Durations[Len(candidates) + 1])'
  BY <1>0, <1>1, BelongsQuietly, BelongsWhenSent DEF AdvisorInv, Belongs
<1> QED
  BY <1>1, <1>2, <1>3, <1>4, <1>5 DEF AdvisorInv

\* A candidate is noted, with a price only if the broker quoted it for the
\* duration whose turn it is.
LEMMA CandidateNoted ==
    ASSUME AdvisorInv, Len(candidates) < Len(Durations),
           NEW state \in {"priced", "unpriced", "error", "failure"}, NEW quote,
           Note(state, quote),
           state = "priced" =>
              Saying(Advisor, Durations[Len(candidates) + 1], quote) \in told,
           told' = told, awaiting'[Advisor] = Idle,
           UNCHANGED <<advising, signalProb, advice>>
    PROVE  AdvisorInv'
<1> DEFINE k == [state |-> state, quote |-> quote]
           n == Len(candidates) + 1
<1>0. IsSeq(candidates) /\ n \in Nat /\ n <= Len(Durations)
  BY SeqFacts, AdvisorAssumption DEF AdvisorInv
<1>1. candidates' = Append(candidates, k) /\ k.state = state /\ k.quote = quote
  BY DEF Note
<1> HIDE DEF k
<1>2. /\ IsSeq(candidates') /\ Len(candidates') = n /\ DOMAIN candidates' = 1..n
      /\ \A i \in 1..(n - 1) : candidates'[i] = candidates[i]
      /\ candidates'[n] = k
      /\ DOMAIN candidates = 1..(n - 1)
  BY <1>0, <1>1, Appended, SeqFacts
<1>3. AdvisorTypeOK'
  <2>1. \A i \in DOMAIN candidates' :
           candidates'[i].state \in {"priced", "unpriced", "error", "failure"}
    BY <1>0, <1>1, <1>2 DEF AdvisorInv, AdvisorTypeOK
  <2> QED
    BY <1>0, <1>2, <2>1 DEF AdvisorInv, AdvisorTypeOK
<1>4. QuotesBelong'
  <2> SUFFICES ASSUME NEW i \in DOMAIN candidates', candidates'[i].state = "priced"
               PROVE  \E m \in ToldOf(Durations[i])' :
                         m.kind = "answer" /\ m.value = candidates'[i].quote
    BY DEF QuotesBelong
  <2>1. CASE i = n
    <3>1. Saying(Advisor, Durations[n], quote) \in told'
      BY <1>1, <1>2, <2>1
    <3> QED
      BY <1>1, <1>2, <2>1, <3>1 DEF ToldOf, Saying
  <2>2. CASE i \in 1..(n - 1)
    BY <1>2, <2>2 DEF AdvisorInv, QuotesBelong, ToldOf
  <2> QED
    BY <1>0, <1>2, <2>1, <2>2
<1> QED
  BY <1>2, <1>3, <1>4 DEF AdvisorInv, Belongs, IsSeq, Elems

\* An end of the advice, whatever it is.
LEMMA AdviceOver ==
    ASSUME AdvisorInv, told' = told, awaiting'[Advisor] = Idle,
           candidates' = candidates, advising' \in {"done", "raised"},
           advice'.action \in {"NO_TRADE", "TRADE"}
    PROVE  AdvisorInv'
<1>1. AdvisorTypeOK' /\ IsSeq(candidates)'
  BY DEF AdvisorInv, AdvisorTypeOK, IsSeq, Elems
<1> QED
  BY <1>1 DEF AdvisorInv, QuotesBelong, ToldOf, Belongs

\* A step of the advisor.
LEMMA AdvisorActs ==
    ASSUME ConnInv, AdvisorInv, AdvisorNext
    PROVE  AdvisorInv'
<1>0. Advisor \in Clients /\ Advisor # Streamer /\ awaiting \in [Clients -> Nat]
  BY AdvisorAssumption, TogetherAssumption DEF ConnInv
<1>1. CASE AskPrice
  <2>1. /\ advising = "asking" /\ Len(candidates) < Len(Durations)
        /\ Asking(Advisor, Durations[Len(candidates) + 1])
        /\ UNCHANGED advisorVars
    BY <1>0, <1>1, AskingStep DEF AskPrice
  <2>2. /\ advising' = advising /\ candidates' = candidates /\ advice' = advice
        /\ signalProb' = signalProb /\ told' = told
    BY <2>1 DEF advisorVars, Asking
  <2>3. AdvisorTypeOK' /\ IsSeq(candidates)' /\ QuotesBelong'
    BY <2>2 DEF AdvisorInv, AdvisorTypeOK, IsSeq, Elems, QuotesBelong, ToldOf
  <2>4. Belongs(Advisor, Durations[Len(candidates) + 1])'
    BY <1>0, <2>1, <2>2, BelongsOnceAsked DEF Belongs
  <2> QED
    BY <2>1, <2>2, <2>3, <2>4 DEF AdvisorInv
<1>2. CASE HearPrice
  <2>1. /\ Reading(Advisor) /\ IsMyAnswer(Advisor) /\ told' = told
        /\ awaiting'[Advisor] = Idle
    BY <1>0, <1>2 DEF HearPrice, Returns
  <2>2. \E state \in {"priced", "unpriced", "error", "failure"} :
           Note(state, Heard(Advisor))
    BY <1>2 DEF HearPrice
  <2>3. UNCHANGED <<advising, signalProb, advice>>
    BY <1>2 DEF HearPrice
  <2> QED
    BY <2>1, <2>2, <2>3, PriceHeard, CandidateNoted
<1>3. CASE HearBadPrice
  BY <1>0, <1>3, AdviceOver DEF HearBadPrice, Leaves, AdvisorInv, AdvisorTypeOK
<1>4. CASE SkipPrice
  BY <1>0, <1>4, QuietSteps, AdvisorUndisturbed DEF SkipPrice
<1>5. ASSUME NEW why \in {"error", "failure"}, MissPrice(why) PROVE AdvisorInv'
  <2>1. /\ awaiting[Advisor] # Idle /\ told' = told /\ awaiting'[Advisor] = Idle
    BY <1>0, <1>5 DEF MissPrice, Raises, MayRaise, Reading
  <2>2. Note(why, NoQuote) /\ UNCHANGED <<advising, signalProb, advice>>
    BY <1>5 DEF MissPrice
  <2>3. Len(candidates) < Len(Durations)
    BY <2>1 DEF AdvisorInv
  <2> QED
    BY <2>1, <2>2, <2>3, CandidateNoted
<1>6. CASE Conclude
  BY <1>0, <1>6, AdviceOver DEF Conclude, Leaves, AdvisorInv, AdvisorTypeOK
<1>7. CASE AdviseNothing
  <2>1. told' = told /\ awaiting' = awaiting /\ advising = "idle"
    BY <1>7 DEF AdviseNothing, connVars
  <2> QED
    BY <1>7, <2>1, AdviceOver DEF AdviseNothing, AdvisorInv, AdvisorTypeOK
<1>8. ASSUME NEW p \in ModelProbs, StartAdvising(p) PROVE AdvisorInv'
  <2>1. /\ told' = told /\ awaiting' = awaiting /\ advising = "idle"
        /\ candidates' = candidates /\ advice' = advice /\ advising' = "asking"
    BY <1>8 DEF StartAdvising, Connects
  <2>2. AdvisorTypeOK' /\ IsSeq(candidates)' /\ QuotesBelong'
    BY <2>1 DEF AdvisorInv, AdvisorTypeOK, IsSeq, Elems, QuotesBelong, ToldOf
  <2> QED
    BY <2>1, <2>2 DEF AdvisorInv, Belongs
<1> QED
  BY <1>1, <1>2, <1>3, <1>4, <1>5, <1>6, <1>7, <1>8 DEF AdvisorNext, AdvisorStep

-----------------------------------------------------------------------------
(* Discovery.                                                              *)

\* The message read is an answer to the question whose turn it is.
LEMMA ListOrContractsHeard ==
    ASSUME ConnInv, DiscoveryInv, Reading(Discoverer), IsMyAnswer(Discoverer)
    PROVE  Saying(Discoverer, Sought, Heard(Discoverer)) \in told
<1>1. Head(inbox[Discoverer]) \in Box(Discoverer)
  BY SeqFacts, DiscoveryAssumption DEF ConnInv, Reading, Box
<1> QED
  BY <1>1 DEF DiscoveryInv, Belongs, Reading, IsMyAnswer, IsError, Heard

\* What is known of the contracts stays known when only the broker speaks.
LEMMA DiscoveryRemembers ==
    ASSUME DiscoveryInv, told \subseteq told', UNCHANGED discoveryVars
    PROVE  /\ DiscoveryTypeOK' /\ IsSeq(entries)'
           /\ EntriesBelong' /\ ContractsBelong' /\ Sought' = Sought
<1>1. /\ discovering' = discovering /\ listed' = listed /\ entries' = entries
      /\ markets' = markets /\ passes' = passes
  BY DEF discoveryVars
<1>2. DiscoveryTypeOK' /\ IsSeq(entries)' /\ Sought' = Sought
  BY <1>1 DEF DiscoveryInv, DiscoveryTypeOK, IsSeq, Elems, Sought
<1>3. EntriesBelong'
  BY <1>1 DEF DiscoveryInv, EntriesBelong
<1>4. ContractsBelong'
  BY <1>1 DEF DiscoveryInv, ContractsBelong
<1> QED
  BY <1>2, <1>3, <1>4

\* What others do leaves market discovery as it was.
LEMMA DiscoveryUndisturbed ==
    ASSUME ConnInv, DiscoveryInv, UNCHANGED discoveryVars,
           Quiet(Discoverer) \/ Sent(Discoverer)
    PROVE  DiscoveryInv'
<1>0. /\ Discoverer \in Clients /\ Discoverer # Streamer
      /\ Discoverer # Advisor /\ Discoverer # Storer
  BY DiscoveryAssumption, TogetherAssumption
<1>1. /\ discovering' = discovering /\ listed' = listed /\ entries' = entries
  BY DEF discoveryVars
<1>2. told \subseteq told' /\ awaiting'[Discoverer] \in {awaiting[Discoverer], Idle}
  BY DEF Quiet, Sent
<1>3. /\ DiscoveryTypeOK' /\ IsSeq(entries)'
      /\ EntriesBelong' /\ ContractsBelong' /\ Sought' = Sought
  BY <1>2, DiscoveryRemembers
<1>4. Belongs(Discoverer, Sought)'
  BY <1>0, <1>3, BelongsQuietly, BelongsWhenSent DEF DiscoveryInv, Belongs
<1>5. ListsKnown'
  <2>1. ListsKnown
    BY DEF DiscoveryInv, ListsKnown
  <2>2. CASE Quiet(Discoverer)
    BY <2>1, <2>2 DEF Quiet, ListsKnown
  <2>3. CASE Sent(Discoverer)
    <3>1. PICK q, m : q \in Out(Discoverer) /\ MaySend(Discoverer, q, m)
      BY <2>3 DEF Sent
    <3>2. CASE \A s \in Said(Discoverer)' \ Said(Discoverer) : s.kind = "error"
      BY <2>1, <3>2 DEF ListsKnown
    <3>3. CASE /\ m.value \in AnswersTo(q)
               /\ Said(Discoverer)' = Said(Discoverer) \cup
                                      {Saying(Discoverer, q.question, m.value)}
      <4>1. q.question = "active_symbols" => m.value \in Listings
        BY <1>0, <3>1, <3>3 DEF AnswersTo, Out
      <4> QED
        BY <2>1, <3>3, <4>1 DEF ListsKnown, Saying
    <3> QED
      BY <1>0, <3>1, <3>2, <3>3 DEF MaySend
  <2> QED
    BY <2>2, <2>3
<1> QED
  BY <1>1, <1>2, <1>3, <1>4, <1>5 DEF DiscoveryInv, ListsKnown

\* The contracts of the next symbol are entered, if there are any only such as
\* the broker named for that symbol.
LEMMA EntryMade ==
    ASSUME DiscoveryInv, Len(entries) < Len(listed), discovering = "surveying",
           NEW e, entries' = Append(entries, e),
           e = {} \/ Saying(Discoverer, listed[Len(entries) + 1], e) \in told,
           told' = told, awaiting'[Discoverer] = Idle,
           UNCHANGED <<discovering, listed, markets, passes>>
    PROVE  DiscoveryInv'
<1> DEFINE n == Len(entries) + 1
<1>0. IsSeq(entries) /\ listed \in Seq(Listable) /\ n \in Nat /\ n <= Len(listed)
  BY SeqFacts DEF DiscoveryInv, DiscoveryTypeOK
<1>1. /\ IsSeq(entries') /\ Len(entries') = n /\ DOMAIN entries' = 1..n
      /\ \A i \in 1..(n - 1) : entries'[i] = entries[i]
      /\ entries'[n] = e
      /\ DOMAIN entries = 1..(n - 1)
  BY <1>0, Appended, SeqFacts
<1>2. DiscoveryTypeOK'
  BY <1>0, <1>1 DEF DiscoveryInv, DiscoveryTypeOK
<1>3. EntriesBelong'
  <2> SUFFICES ASSUME NEW i \in DOMAIN entries'
               PROVE  \/ entries'[i] = {}
                      \/ Saying(Discoverer, listed'[i], entries'[i]) \in told'
    BY DEF EntriesBelong
  <2>1. CASE i = n
    BY <1>1, <2>1
  <2>2. CASE i \in 1..(n - 1)
    BY <1>1, <2>2 DEF DiscoveryInv, EntriesBelong
  <2> QED
    BY <1>0, <1>1, <2>1, <2>2
<1>4. ContractsBelong' /\ Said(Discoverer)' = Said(Discoverer)
  BY DEF DiscoveryInv, ContractsBelong, Said
<1> QED
  BY <1>1, <1>2, <1>3, <1>4 DEF DiscoveryInv, ListsKnown, Belongs

\* The contracts found are registered, and the pass ends.
LEMMA Registered ==
    ASSUME DiscoveryInv, Upsert
    PROVE  ContractsBelong'
<1> SUFFICES ASSUME NEW s \in Listable, markets'[s] \notin {NoMarket, {}}
             PROVE  \E m \in told' : /\ m.client = Discoverer /\ m.question = s
                                     /\ m.kind = "answer" /\ m.value = markets'[s]
  BY DEF ContractsBelong
<1>1. /\ markets' = [y \in Listable |->
                        IF \E i \in DOMAIN listed : listed[i] = y
                        THEN entries[CHOOSE i \in DOMAIN listed : IsLastOf(y, i)]
                        ELSE markets[y]]
      /\ told' = told
      /\ DOMAIN listed = DOMAIN entries
  <2>1. listed \in Seq(Listable) /\ IsSeq(entries)
    BY DEF DiscoveryInv, DiscoveryTypeOK
  <2> QED
    BY <2>1, SeqFacts DEF Upsert, Leaves
<1>2. CASE \E i \in DOMAIN listed : listed[i] = s
  <2> DEFINE at == {i \in DOMAIN listed : listed[i] = s}
             last == CHOOSE i \in DOMAIN listed : IsLastOf(s, i)
  <2>0. \E i \in DOMAIN listed : IsLastOf(s, i)
    <3>1. at # {} /\ at \subseteq 1..Len(listed) /\ Len(listed) \in Nat
      BY <1>2, SeqFacts DEF DiscoveryInv, DiscoveryTypeOK
    <3> HIDE DEF at
    <3>2. IsFiniteSet(at) /\ at \subseteq Int
      <4>1. IsFiniteSet(1..Len(listed))
        BY <3>1, FS_Interval
      <4>2. IsFiniteSet(at)
        BY <3>1, <4>1, FS_Subset, Zenon
      <4>3. 1..Len(listed) \subseteq Int
        BY <3>1
      <4> QED
        BY <3>1, <4>2, <4>3
    <3>3. PICK i \in at : \A j \in at : i >= j
      BY <3>1, <3>2, Greatest
    <3> QED
      BY <3>1, <3>3 DEF IsLastOf, at
  <2>1. PICK i \in DOMAIN listed : listed[i] = s /\ markets'[s] = entries[i]
    <3>1. last \in DOMAIN listed /\ IsLastOf(s, last)
      BY <2>0
    <3>2. markets'[s] = entries[last]
      BY <1>1, <1>2
    <3> QED
      BY <3>1, <3>2 DEF IsLastOf
  <2>2. Saying(Discoverer, s, entries[i]) \in told'
    BY <1>1, <2>1 DEF DiscoveryInv, EntriesBelong
  <2> QED
    BY <2>1, <2>2 DEF Saying
<1>3. CASE ~ \E i \in DOMAIN listed : listed[i] = s
  BY <1>1, <1>3 DEF DiscoveryInv, ContractsBelong
<1> QED
  BY <1>2, <1>3

\* Nothing found yet of a pass that begins or ends.
LEMMA NothingEntered ==
    ASSUME DiscoveryInv, told' = told, entries' = <<>>,
           DiscoveryTypeOK', ContractsBelong',
           \/ awaiting'[Discoverer] = Idle
           \/ discovering' = "listing" /\ Belongs(Discoverer, Sought)'
    PROVE  DiscoveryInv'
<1>1. IsSeq(entries') /\ DOMAIN entries' = {}
  BY EmptyIsSeq
<1>2. EntriesBelong'
  BY <1>1 DEF EntriesBelong
<1> QED
  BY <1>1, <1>2 DEF DiscoveryInv, ListsKnown, Belongs, Said

\* A step of discovery.
LEMMA DiscoveryActs ==
    ASSUME ConnInv, DiscoveryInv, DiscoveryNext
    PROVE  DiscoveryInv'
<1>0. /\ Discoverer \in Clients /\ Discoverer # Streamer
      /\ awaiting \in [Clients -> Nat]
  BY DiscoveryAssumption, TogetherAssumption DEF ConnInv
<1>1. CASE AskList \/ AskContracts
  <2>1. /\ discovering = "listing" \/ Len(entries) < Len(listed)
        /\ discovering \in {"listing", "surveying"}
        /\ Asks(Discoverer, Sought)
        /\ UNCHANGED discoveryVars
    BY <1>1 DEF AskList, AskContracts, Sought
  <2>2. Asking(Discoverer, Sought)
    BY <1>0, <2>1, AskingStep
  <2>3. told' = told
    BY <2>2 DEF Asking
  <2>4. /\ DiscoveryTypeOK' /\ IsSeq(entries)'
        /\ EntriesBelong' /\ ContractsBelong' /\ Sought' = Sought
    BY <2>1, <2>3, DiscoveryRemembers
  <2>5. Belongs(Discoverer, Sought)'
    BY <1>0, <2>2, <2>4, BelongsOnceAsked DEF Belongs
  <2>6. /\ discovering' = discovering /\ listed' = listed /\ entries' = entries
    BY <2>1 DEF discoveryVars
  <2> QED
    BY <2>1, <2>3, <2>4, <2>5, <2>6 DEF DiscoveryInv, ListsKnown, Said
<1>2. CASE StartPass
  <2>1. /\ discovering = "idle" /\ discovering' = "listing" /\ passes' = passes + 1
        /\ passes < MaxPasses /\ told' = told /\ awaiting' = awaiting
        /\ listed' = listed /\ entries' = entries /\ markets' = markets
    BY <1>2 DEF StartPass, Connects
  <2>2. awaiting[Discoverer] = Idle /\ entries = <<>>
    BY <2>1 DEF DiscoveryInv
  <2>3. DiscoveryTypeOK'
    BY <2>1, DiscoveryAssumption DEF DiscoveryInv, DiscoveryTypeOK
  <2>4. ContractsBelong'
    BY <2>1 DEF DiscoveryInv, ContractsBelong
  <2> QED
    BY <2>1, <2>2, <2>3, <2>4, NothingEntered
<1>3. CASE HearList
  <2>1. /\ Reading(Discoverer) /\ IsMyAnswer(Discoverer) /\ told' = told
        /\ awaiting'[Discoverer] = Idle
        /\ discovering = "listing" /\ discovering' = "surveying"
        /\ listed' = Heard(Discoverer)
        /\ UNCHANGED <<entries, markets, passes>>
    BY <1>0, <1>3 DEF HearList, Returns
  <2>2. Heard(Discoverer) \in Listings
    <3>1. Saying(Discoverer, "active_symbols", Heard(Discoverer)) \in told
      BY <2>1, ListOrContractsHeard DEF Sought
    <3> QED
      BY <3>1 DEF DiscoveryInv, ListsKnown, Saying, Said
  <2>3. listed' \in Seq(Listable) /\ entries' = <<>>
    BY <2>1, <2>2, DiscoveryAssumption DEF DiscoveryInv
  <2>4. DiscoveryTypeOK'
    BY <2>1, <2>3, EmptyIsSeq DEF DiscoveryInv, DiscoveryTypeOK
  <2>5. ContractsBelong'
    BY <2>1 DEF DiscoveryInv, ContractsBelong
  <2> QED
    BY <2>1, <2>3, <2>4, <2>5, NothingEntered
<1>4. ASSUME NEW why \in {"error", "failure"}, MissList(why) PROVE DiscoveryInv'
  <2>1. /\ told' = told /\ awaiting'[Discoverer] = Idle
        /\ discovering = "listing" /\ discovering' = "idle"
        /\ UNCHANGED <<listed, entries, markets, passes>>
    BY <1>0, <1>4 DEF MissList, Leaves
  <2>2. DiscoveryTypeOK' /\ ContractsBelong' /\ entries' = <<>>
    BY <2>1 DEF DiscoveryInv, DiscoveryTypeOK, ContractsBelong
  <2> QED
    BY <2>1, <2>2, NothingEntered
<1>5. CASE HearContracts
  <2>1. /\ Reading(Discoverer) /\ IsMyAnswer(Discoverer) /\ told' = told
        /\ awaiting'[Discoverer] = Idle /\ discovering = "surveying"
        /\ entries' = Append(entries, Heard(Discoverer))
        /\ UNCHANGED <<discovering, listed, markets, passes>>
    BY <1>0, <1>5 DEF HearContracts, Returns
  <2>2. Saying(Discoverer, listed[Len(entries) + 1], Heard(Discoverer)) \in told
    BY <2>1, ListOrContractsHeard DEF Sought
  <2>3. Len(entries) < Len(listed)
    BY <2>1 DEF DiscoveryInv, Reading
  <2> QED
    BY <2>1, <2>2, <2>3, EntryMade
<1>6. ASSUME NEW why \in {"error", "failure"}, MissContracts(why) PROVE DiscoveryInv'
  <2>1. /\ awaiting[Discoverer] # Idle /\ told' = told
        /\ awaiting'[Discoverer] = Idle /\ discovering = "surveying"
        /\ entries' = Append(entries, {})
        /\ UNCHANGED <<discovering, listed, markets, passes>>
    BY <1>0, <1>6 DEF MissContracts, Raises, MayRaise, Reading
  <2>2. Len(entries) < Len(listed)
    BY <2>1 DEF DiscoveryInv
  <2> QED
    BY <2>1, <2>2, EntryMade
<1>7. CASE SkipMessage
  BY <1>0, <1>7, QuietSteps, DiscoveryUndisturbed DEF SkipMessage
<1>8. CASE Upsert
  <2>1. /\ told' = told /\ awaiting'[Discoverer] = Idle
        /\ discovering' = "idle" /\ listed' = <<>> /\ entries' = <<>>
        /\ passes' = passes
    BY <1>0, <1>8 DEF Upsert, Leaves
  <2>2. DiscoveryTypeOK'
    BY <2>1, EmptyIsSeq DEF DiscoveryInv, DiscoveryTypeOK
  <2>3. ContractsBelong'
    BY <1>8, Registered
  <2> QED
    BY <2>1, <2>2, <2>3, NothingEntered
<1> QED
  BY <1>1, <1>2, <1>3, <1>4, <1>5, <1>6, <1>7, <1>8 DEF DiscoveryNext, DiscoveryStep

-----------------------------------------------------------------------------
(* The candle store.                                                       *)

\* A stretch of candles fits when its bounds do.
LEMMA StretchFits ==
    ASSUME StoreInv, NEW a \in 1..now, NEW b \in 0..now,
           \A at \in StoredAt : at <= b + 1,
           a = 1 \/ a = query.start \/ a + query.count - 1 <= b
    PROVE  Fits(Stretch(a, b))
<1> DEFINE v == Stretch(a, b)
<1>1. /\ v \subseteq [at : a..b, complete : BOOLEAN]
      /\ \A i \in a..b : \E c \in v : c.at = i
      /\ \A c, d \in v : c.at = d.at => c = d
  <2>1. /\ \A i \in a..b : [at |-> i, complete |-> i < now] \in v
        /\ \A c \in v : \E i \in a..b : c = [at |-> i, complete |-> i < now]
    BY DEF Stretch
  <2> HIDE DEF v
  <2>2. \A i : /\ [at |-> i, complete |-> i < now].at = i
                /\ (i < now) \in BOOLEAN
    OBVIOUS
  <2>3. v \subseteq [at : a..b, complete : BOOLEAN]
    <3>1. \A i \in a..b : [at |-> i, complete |-> i < now] \in [at : a..b, complete : BOOLEAN]
      BY <2>2, Zenon
    <3> QED
      BY <2>1, <3>1, Zenon
  <2>4. \A i \in a..b : \E c \in v : c.at = i
    BY <2>1, <2>2, Zenon
  <2>5. \A c, d \in v : c.at = d.at => c = d
    BY <2>1, <2>2
  <2> QED
    BY <2>3, <2>4, <2>5
<1> QED
  BY <1>1 DEF Fits

\* Every answer to the query under way fits.
LEMMA AnswersFit ==
    ASSUME StoreInv, storing # "idle", NEW v \in CandleAnswers(query)
    PROVE  Fits(v)
<1>0. /\ now \in Nat \ {0} /\ query.count \in Nat \ {0} /\ query.start \in Nat
      /\ \A at \in StoredAt : at \in 1..now
      /\ query.start # 0 => \A at \in StoredAt : at < query.start
  BY StoreAssumption DEF StoreInv, StoreTypeOK, StoredAt, NoStart
<1>1. PICK last \in {now - 1, now} :
         /\ query.start <= last
         /\ \/ v = Stretch(Later(Later(query.start, 1), last - query.count + 1), last)
            \/ v = IF query.start = NoStart
                   THEN Stretch(Later(1, last - query.count + 1), last)
                   ELSE Stretch(query.start, IF query.start + query.count - 1 < last
                                             THEN query.start + query.count - 1 ELSE last)
  <2>1. PICK last \in {now - 1, now} :
           v \in IF query.start > last THEN {}
                 ELSE {Stretch(Later(Later(query.start, 1), last - query.count + 1), last),
                       IF query.start = NoStart
                       THEN Stretch(Later(1, last - query.count + 1), last)
                       ELSE Stretch(query.start,
                                    IF query.start + query.count - 1 < last
                                    THEN query.start + query.count - 1 ELSE last)}
    BY DEF CandleAnswers
  <2>2. ~(query.start > last)
    BY <2>1
  <2> QED
    BY <1>0, <2>1, <2>2
<1>2. last \in 0..now /\ \A at \in StoredAt : at <= last + 1
  BY <1>0, <1>1
<1> DEFINE first == Later(Later(query.start, 1), last - query.count + 1)
           begin == Later(1, last - query.count + 1)
           end == IF query.start + query.count - 1 < last
                  THEN query.start + query.count - 1 ELSE last
<1>3. /\ first \in 1..now
      /\ first = 1 \/ first = query.start \/ first + query.count - 1 <= last
  BY <1>0, <1>1, <1>2 DEF Later
<1>4. /\ begin \in 1..now
      /\ begin = 1 \/ begin + query.count - 1 <= last
  BY <1>0, <1>1, <1>2 DEF Later
<1>5. query.start # 0 => /\ query.start \in 1..now /\ end \in 0..now
                         /\ \A at \in StoredAt : at <= end + 1
  BY <1>0, <1>1, <1>2
<1> HIDE DEF first, begin, end
<1>6. \/ v = Stretch(first, last)
      \/ v = Stretch(begin, last)
      \/ query.start # 0 /\ v = Stretch(query.start, end)
  BY <1>1 DEF first, begin, end, NoStart
<1> QED
  BY <1>2, <1>3, <1>4, <1>5, <1>6, StretchFits

\* The rows an answer that fits leaves.
LEMMA RowsAdded ==
    ASSUME StoreInv, NEW v, NEW a \in 1..now, NEW b \in 0..now,
           v \subseteq [at : a..b, complete : BOOLEAN],
           \A i \in a..b : \E c \in v : c.at = i,
           \A c, d \in v : c.at = d.at => c = d,
           rows' = rows \cup {c \in v : c.at \notin StoredAt}
    PROVE  /\ rows' \subseteq [at : 1..now, complete : BOOLEAN]
           /\ \A r, s \in rows' : r.at = s.at => r = s
           /\ StoredAt' = StoredAt \cup a..b
<1>1. rows \subseteq [at : 1..now, complete : BOOLEAN] /\ now \in Nat \ {0}
  BY DEF StoreInv, StoreTypeOK
<1>2. \A c \in v : /\ c \in [at : 1..now, complete : BOOLEAN]
                  /\ c.at \in a..b
  <2>1. a..b \subseteq 1..now
    BY <1>1
  <2> QED
    BY <2>1
<1>3. rows' \subseteq [at : 1..now, complete : BOOLEAN]
  BY <1>1, <1>2
<1>4. \A r, s \in rows' : r.at = s.at => r = s
  BY DEF StoreInv, StoreTypeOK, StoredAt
<1>5. StoredAt' \subseteq StoredAt \cup a..b
  BY <1>2 DEF StoredAt
<1>6. StoredAt \subseteq StoredAt'
  BY DEF StoredAt
<1>7. ASSUME NEW i \in a..b PROVE i \in StoredAt'
  <2>1. PICK c \in v : c.at = i
    OBVIOUS
  <2>2. CASE i \in StoredAt
    BY <1>6, <2>2
  <2>3. CASE i \notin StoredAt
    BY <2>1, <2>3 DEF StoredAt
  <2> QED
    BY <2>2, <2>3
<1> QED
  BY <1>3, <1>4, <1>5, <1>6, <1>7

\* They open no hole narrower than a request: below a stored candle there is
\* one only where there was one, or where the answer begins with as many
\* candles as were asked for.
LEMMA HolesStayWide ==
    ASSUME StoreInv, storing # "idle", NEW v, Fits(v),
           rows' = rows \cup {c \in v : c.at \notin StoredAt}, now' = now
    PROVE  /\ HolesAreWide' /\ rows' \subseteq [at : 1..now, complete : BOOLEAN]
           /\ \A r, s \in rows' : r.at = s.at => r = s
<1>1. PICK a \in 1..now, b \in 0..now :
         /\ v \subseteq [at : a..b, complete : BOOLEAN]
         /\ \A i \in a..b : \E c \in v : c.at = i
         /\ \A c, d \in v : c.at = d.at => c = d
         /\ \A at \in StoredAt : at <= b + 1
         /\ a = 1 \/ a = query.start \/ a + query.count - 1 <= b
  BY DEF Fits
<1>2. /\ rows' \subseteq [at : 1..now, complete : BOOLEAN]
      /\ \A r, s \in rows' : r.at = s.at => r = s
      /\ StoredAt' = StoredAt \cup a..b
  BY <1>1, RowsAdded
<1>3. /\ now \in Nat \ {0} /\ StoredAt \subseteq 1..now
      /\ query.count \in Counts /\ query.count \in Nat
      /\ query.start \in Nat
      /\ query.start # 0 => query.start - 1 \in StoredAt
  BY StoreAssumption DEF StoreInv, StoreTypeOK, StoredAt, NoStart
<1>4. ASSUME NEW hole \in 1..now, NEW above \in StoredAt',
             hole \notin StoredAt', hole + 1 = above,
             NEW below \in StoredAt', below < hole
      PROVE  \E count \in Counts : above..(above + count - 1) \subseteq StoredAt'
  <2>1. CASE above \in a..b
    <3>1. above = a /\ a # 1
      BY <1>2, <1>4, <2>1
    <3>2. a # query.start
      BY <1>2, <1>3, <1>4, <3>1
    <3>3. above..(above + query.count - 1) \subseteq a..b
      BY <1>1, <1>3, <3>1, <3>2
    <3> QED
      BY <1>2, <1>3, <3>3
  <2>2. CASE above \in StoredAt /\ below \in StoredAt
    <3>1. PICK count \in Counts : above..(above + count - 1) \subseteq StoredAt
      BY <1>2, <1>4, <2>2 DEF StoreInv, HolesAreWide
    <3> QED
      BY <1>2, <3>1
  <2>3. CASE above \in StoredAt /\ below \in a..b
    BY <1>1, <1>2, <1>3, <1>4, <2>3
  <2> QED
    BY <1>2, <1>4, <2>1, <2>2, <2>3
<1>5. HolesAreWide'
  BY <1>4 DEF HolesAreWide
<1> QED
  BY <1>2, <1>5

\* What fits goes on fitting while the next candle begins.
LEMMA FitsStays ==
    ASSUME StoreInv, NEW v, Fits(v), UNCHANGED <<rows, query>>, now' \in {now, now + 1}
    PROVE  Fits(v)'
<1>1. StoredAt' = StoredAt /\ query' = query
  BY DEF StoredAt
<1>2. PICK a \in 1..now, b \in 0..now :
         /\ v \subseteq [at : a..b, complete : BOOLEAN]
         /\ \A i \in a..b : \E c \in v : c.at = i
         /\ \A c, d \in v : c.at = d.at => c = d
         /\ \A at \in StoredAt : at <= b + 1
         /\ a = 1 \/ a = query.start \/ a + query.count - 1 <= b
  BY DEF Fits
<1>3. a \in 1..now' /\ b \in 0..now'
  BY DEF StoreInv
<1> QED
  BY <1>1, <1>2, <1>3 DEF Fits

\* What others do leaves the candle store as it was.
LEMMA StoreUndisturbed ==
    ASSUME ConnInv, StoreInv, UNCHANGED storeVars, Quiet(Storer) \/ Sent(Storer)
    PROVE  StoreInv'
<1>0. Storer # Streamer /\ Storer # Advisor
  BY TogetherAssumption
<1>1. /\ now' = now /\ rows' = rows /\ storing' = storing /\ query' = query
      /\ StoredAt' = StoredAt
  BY DEF storeVars, StoredAt
<1>2. Out(Storer)' \subseteq Out(Storer)
  BY DEF Quiet, Sent
<1>3. StoreTypeOK' /\ HolesAreWide'
  BY <1>1 DEF StoreInv, StoreTypeOK, HolesAreWide
<1>4. storing # "waiting" => Box(Storer)' = {} /\ Out(Storer)' = {}
  <2>1. CASE Quiet(Storer)
    BY <2>1 DEF Quiet, StoreInv
  <2>2. CASE Sent(Storer)
    BY <2>2 DEF Sent, StoreInv
  <2> QED
    BY <2>1, <2>2
<1>5. ASSUME NEW m \in Box(Storer)', m.kind # "error" PROVE Fits(m.value)'
  <2>1. CASE m \in Box(Storer)
    BY <1>1, <1>5, <2>1, FitsStays DEF StoreInv
  <2>2. CASE m \notin Box(Storer)
    <3>1. PICK q \in Out(Storer) : MaySend(Storer, q, m)
      BY <1>5, <2>2 DEF Quiet, Sent
    <3>2. m.value \in AnswersTo(q)
      BY <1>0, <1>5, <3>1 DEF MaySend
    <3>3. q.client = Storer /\ q.question = query /\ storing = "waiting"
      BY <3>1 DEF StoreInv, Out
    <3>4. Fits(m.value)
      BY <1>0, <3>2, <3>3, AnswersFit DEF AnswersTo
    <3> QED
      BY <1>1, <3>4, FitsStays
  <2> QED
    BY <2>1, <2>2
<1> QED
  BY <1>1, <1>2, <1>3, <1>4, <1>5 DEF StoreInv

\* A fetch that ends leaves nothing under way on the connection.
LEMMA FetchOver ==
    ASSUME ConnInv, FetchEnds
    PROVE  /\ storing = "waiting" /\ storing' = "idle"
           /\ now' = now /\ query' = query
           /\ Box(Storer)' = {} /\ Out(Storer)' = {}
<1>1. inbox'[Storer] = <<>> /\ asked' = {q \in asked : q.client # Storer}
  BY StoreAssumption DEF ConnInv, FetchEnds, Leaves
<1> QED
  BY <1>1, EmptyIsSeq DEF FetchEnds, Box, Out

\* A step of the store, or of the time.
LEMMA StoreActs ==
    ASSUME ConnInv, StoreInv, StoreNext
    PROVE  StoreInv'
<1>0. Storer \in Clients
  BY StoreAssumption
<1>1. CASE AskCandles
  <2>1. /\ storing = "asking" /\ storing' = "waiting"
        /\ Asking(Storer, query) /\ UNCHANGED <<now, rows, query>>
    BY <1>0, <1>1, AskingStep DEF AskCandles
  <2>2. Box(Storer)' = {} /\ \A q \in Out(Storer)' : q.question = query
    BY <2>1 DEF StoreInv, Asking
  <2>3. StoreTypeOK' /\ HolesAreWide' /\ StoredAt' = StoredAt
    BY <2>1 DEF StoreInv, StoreTypeOK, HolesAreWide, StoredAt
  <2> QED
    BY <2>1, <2>2, <2>3 DEF StoreInv
<1>2. CASE StoreCandles
  <2>1. /\ FetchEnds /\ Reading(Storer) /\ IsMyAnswer(Storer)
        /\ rows' = rows \cup {c \in Heard(Storer) : c.at \notin StoredAt}
    BY <1>2 DEF StoreCandles
  <2>2. Fits(Heard(Storer))
    <3>1. Head(inbox[Storer]) \in Box(Storer)
      BY <1>0, <2>1, SeqFacts DEF ConnInv, Reading, Box
    <3> QED
      BY <2>1, <3>1 DEF StoreInv, IsMyAnswer, IsError, Heard
  <2>3. /\ storing = "waiting" /\ storing' = "idle"
        /\ now' = now /\ query' = query
        /\ Box(Storer)' = {} /\ Out(Storer)' = {}
    BY <2>1, FetchOver
  <2>4. /\ HolesAreWide' /\ rows' \subseteq [at : 1..now, complete : BOOLEAN]
        /\ \A r, s \in rows' : r.at = s.at => r = s
    BY <2>1, <2>2, <2>3, HolesStayWide
  <2> QED
    BY <2>3, <2>4 DEF StoreInv, StoreTypeOK
<1>3. CASE NothingNew \/ FetchRaises
  <2>1. FetchEnds /\ rows' = rows
    BY <1>3 DEF NothingNew, FetchRaises
  <2>2. /\ storing' = "idle" /\ now' = now
        /\ Box(Storer)' = {} /\ Out(Storer)' = {}
    BY <2>1, FetchOver
  <2> QED
    BY <2>1, <2>2 DEF StoreInv, StoreTypeOK, HolesAreWide, StoredAt
<1>4. ASSUME NEW count \in Counts, NEW force \in BOOLEAN, BeginFetch(count, force)
      PROVE  StoreInv'
  <2>1. /\ storing = "idle" /\ storing' = "asking" /\ now' = now /\ rows' = rows
        /\ Box(Storer)' = {} /\ Out(Storer)' = {}
    BY <1>4 DEF BeginFetch, Connects, StoreInv, Box, Out
  <2>2. StoreTypeOK' /\ HolesAreWide' /\ StoredAt' = StoredAt
    BY <2>1 DEF StoreInv, StoreTypeOK, HolesAreWide, StoredAt
  <2>3. ASSUME query'.count \in Counts, query'.start \in Nat,
               query'.start # NoStart => /\ query'.start - 1 \in StoredAt
                                         /\ \A at \in StoredAt : at < query'.start
        PROVE  StoreInv'
    BY <2>1, <2>2, <2>3 DEF StoreInv
  <2>4. CASE query' = [start |-> NoStart, count |-> count]
    BY <2>1, <2>2, <2>4, <2>3 DEF NoStart
  <2>5. ASSUME NEW latest \in StoredAt, \A at \in StoredAt : at <= latest,
               query' = [start |-> StartAfter(latest), count |-> count]
        PROVE  StoreInv'
    <3>1. /\ query'.count = count /\ query'.start = latest + 1
          /\ latest \in Nat /\ \A at \in StoredAt : at \in Nat
      BY <2>5 DEF StartAfter, StoreInv, StoreTypeOK, StoredAt
    <3>2. query'.start - 1 = latest /\ \A at \in StoredAt : at < query'.start
      BY <2>5, <3>1
    <3>3. count \in Counts /\ query'.start \in Nat
      BY <3>1
    <3> QED
      BY <2>3, <3>1, <3>2, <3>3
  <2> QED
    BY <1>4, <2>4, <2>5 DEF BeginFetch
<1>5. CASE CandleCloses
  <2>1. /\ now' = now + 1 /\ rows' = rows /\ storing' = storing /\ query' = query
        /\ Box(Storer)' = Box(Storer) /\ Out(Storer)' = Out(Storer)
        /\ StoredAt' = StoredAt
    BY <1>5 DEF CandleCloses, connVars, Box, Out, StoredAt
  <2>2. StoreTypeOK' /\ StoredAt \subseteq 1..now /\ now \in Nat \ {0}
    BY <2>1 DEF StoreInv, StoreTypeOK, StoredAt
  <2>3. HolesAreWide'
    <3>1. \A hole \in 1..now', above \in StoredAt : hole + 1 = above => hole \in 1..now
      BY <2>1, <2>2
    <3> QED
      BY <2>1, <3>1 DEF StoreInv, HolesAreWide
  <2>4. \A m \in Box(Storer)' : m.kind # "error" => Fits(m.value)'
    BY <2>1, FitsStays DEF StoreInv
  <2> QED
    BY <2>1, <2>2, <2>3, <2>4 DEF StoreInv
<1> QED
  BY <1>1, <1>2, <1>3, <1>4, <1>5 DEF StoreNext, StoreStep

-----------------------------------------------------------------------------
(* The tick stream.                                                        *)

\* A tick is stored and, when it is a good one, remembered: it is later than
\* any good tick before.
LEMMA TickStored ==
    ASSUME IngestionInv, NEW t \in RawTicks, ~IngestRaises(t),
           ticks' = Append(ticks, [epoch |-> t.epoch, price |-> t.price,
                                   received |-> clock, score |-> Score(t)]),
           IF Remembers(t) THEN lastEpoch' = t.epoch /\ lastReceived' = clock
                           ELSE UNCHANGED <<lastEpoch, lastReceived>>,
           UNCHANGED <<streaming, clock>>
    PROVE  IngestionTypeOK' /\ IsSeq(ticks)' /\ RemembersLastGood' /\ GoodTicksAscend'
<1> DEFINE tick == [epoch |-> t.epoch, price |-> t.price,
                    received |-> clock, score |-> Score(t)]
           n == Len(ticks) + 1
<1>0. /\ IsSeq(ticks) /\ n \in Nat \ {0} /\ clock \in Nat
      /\ lastEpoch \in Nat /\ lastReceived \in 0..clock /\ StaleAfter \in Nat
  BY SeqFacts, IngestionAssumption DEF IngestionInv, IngestionTypeOK
<1>1. /\ tick.epoch = t.epoch /\ tick.received = clock /\ tick.score = Score(t)
      /\ t.epoch \in Int
  BY IngestionAssumption, TogetherAssumption DEF IngestRaises
<1> HIDE DEF tick
<1>2. /\ IsSeq(ticks') /\ DOMAIN ticks' = 1..n /\ DOMAIN ticks = 1..(n - 1)
      /\ \A i \in 1..(n - 1) : ticks'[i] = ticks[i]
      /\ ticks'[n] = tick
  <2>1. ticks' = Append(ticks, tick)
    BY DEF tick
  <2> QED
    BY <1>0, <2>1, Appended, SeqFacts
<1>3. Score(t) \in 0..3
  BY DEF Score, Unusable, Questionable, Acceptable, HighQuality
<1>4. Remembers(t) => t.epoch > 0 /\ (lastEpoch # 0 => t.epoch > lastEpoch)
  BY <1>0, <1>1 DEF Remembers, Score, InvalidEpoch, Duplicate, OutOfOrder, NotSeen,
                    Unusable, Questionable, Acceptable, HighQuality
<1>5. Score(t) = HighQuality /\ lastEpoch # 0 => clock - lastReceived <= StaleAfter
  BY <1>0 DEF Score, Stale, NotSeen, Unusable, Questionable, Acceptable, HighQuality
<1>6. /\ \A i \in 1..n : i = n => (Good(i)' <=> Remembers(t))
      /\ \A i \in 1..(n - 1) : Good(i)' <=> Good(i)
  BY <1>1, <1>2 DEF Good, Remembers
<1>7. /\ Remembers(t) => lastEpoch' = t.epoch /\ lastReceived' = clock
      /\ ~Remembers(t) => lastEpoch' = lastEpoch /\ lastReceived' = lastReceived
      /\ clock' = clock /\ streaming' = streaming
  OBVIOUS
<1>8. IngestionTypeOK'
  <2>1. \A i \in DOMAIN ticks' : ticks'[i].score \in Unusable..HighQuality
    BY <1>1, <1>2, <1>3 DEF IngestionInv, IngestionTypeOK, Unusable, HighQuality
  <2>2. lastEpoch' \in Nat /\ lastReceived' \in 0..clock'
    BY <1>0, <1>1, <1>4, <1>7
  <2> QED
    BY <1>7, <2>1, <2>2 DEF IngestionInv, IngestionTypeOK
<1>9. \A i \in 1..(n - 1) : Good(i) => /\ ticks[i].epoch \in 1..lastEpoch
                                       /\ lastEpoch # 0
  BY <1>0, <1>2 DEF IngestionInv, RemembersLastGood
<1>10. RemembersLastGood'
  <2> SUFFICES ASSUME NEW i \in 1..n, Good(i)'
               PROVE  /\ ticks'[i].epoch \in 1..lastEpoch'
                      /\ (\A k \in 1..n : k > i => ~Good(k)')
                           => /\ ticks'[i].epoch = lastEpoch'
                              /\ ticks'[i].received = lastReceived'
    BY <1>2 DEF RemembersLastGood
  <2>1. CASE i = n
    BY <1>1, <1>2, <1>4, <1>6, <1>7, <2>1
  <2>2. CASE i \in 1..(n - 1) /\ Remembers(t)
    BY <1>0, <1>1, <1>2, <1>4, <1>6, <1>7, <1>9, <2>2
  <2>3. CASE i \in 1..(n - 1) /\ ~Remembers(t)
    <3>1. Good(i) /\ ticks'[i] = ticks[i]
      BY <1>2, <1>6, <2>3
    <3>2. (\A k \in 1..n : k > i => ~Good(k)') => \A k \in 1..(n - 1) : k > i => ~Good(k)
      BY <1>0, <1>6
    <3> QED
      BY <1>0, <1>2, <1>7, <2>3, <3>1, <3>2 DEF IngestionInv, RemembersLastGood
  <2> QED
    BY <1>0, <2>1, <2>2, <2>3
<1>11. GoodTicksAscend'
  <2> SUFFICES ASSUME NEW i \in 1..n, NEW j \in 1..n, i < j, Good(i)', Good(j)'
               PROVE  /\ ticks'[i].epoch < ticks'[j].epoch
                      /\ (/\ ticks'[j].score = HighQuality
                          /\ \A k \in (i + 1)..(j - 1) : ~Good(k)')
                           => ticks'[j].received - ticks'[i].received <= StaleAfter
    BY <1>2 DEF GoodTicksAscend
  <2>1. CASE j \in 1..(n - 1)
    <3>1. /\ Good(i) /\ Good(j) /\ ticks'[i] = ticks[i] /\ ticks'[j] = ticks[j]
          /\ i \in 1..(n - 1)
      BY <1>0, <1>2, <1>6, <2>1
    <3>2. \A k \in (i + 1)..(j - 1) : Good(k)' <=> Good(k)
      BY <1>0, <1>6, <2>1
    <3> QED
      BY <1>2, <2>1, <3>1, <3>2 DEF IngestionInv, GoodTicksAscend
  <2>2. CASE j = n
    <3>1. Good(i) /\ ticks'[i] = ticks[i] /\ i \in 1..(n - 1) /\ Remembers(t)
      BY <1>0, <1>2, <1>6, <2>2
    <3>2. ticks'[i].epoch < ticks'[j].epoch
      BY <1>0, <1>1, <1>2, <1>4, <1>9, <2>2, <3>1
    <3>3. ASSUME ticks'[j].score = HighQuality,
                 \A k \in (i + 1)..(j - 1) : ~Good(k)'
          PROVE  ticks'[j].received - ticks'[i].received <= StaleAfter
      <4>1. \A k \in 1..(n - 1) : k > i => ~Good(k)
        BY <1>0, <1>6, <2>2, <3>3
      <4>2. ticks[i].received = lastReceived
        BY <1>2, <3>1, <4>1 DEF IngestionInv, RemembersLastGood
      <4> QED
        BY <1>1, <1>2, <1>5, <1>9, <2>2, <3>1, <3>3, <4>2
    <3> QED
      BY <3>2, <3>3
  <2> QED
    BY <1>0, <2>1, <2>2
<1> QED
  BY <1>2, <1>8, <1>10, <1>11

\* What is told of the ticks does not change with the messages that come.
LEMMA IngestionUndisturbed ==
    ASSUME ConnInv, IngestionInv, UNCHANGED <<lastEpoch, lastReceived, ticks>>,
           streaming' \in {"idle", "opening", "open", "raised"},
           clock' \in {clock, clock + 1},
           \/ Box(Streamer)' \subseteq Box(Streamer)
           \/ Sent(Streamer)
    PROVE  IngestionInv'
<1>1. IngestionTypeOK' /\ IsSeq(ticks)' /\ clock' \in Nat
  <2>1. lastReceived' \in 0..clock' /\ clock' \in Nat
    BY DEF IngestionInv, IngestionTypeOK
  <2> QED
    BY <2>1 DEF IngestionInv, IngestionTypeOK, IsSeq, Elems
<1>2. RemembersLastGood' /\ GoodTicksAscend'
  BY DEF IngestionInv, RemembersLastGood, GoodTicksAscend, Good
<1>3. \A m \in Box(Streamer)' : m.kind = "tick" => m.value \in RawTicks
  BY DEF IngestionInv, Sent, MaySend
<1> QED
  BY <1>1, <1>2, <1>3 DEF IngestionInv

\* A step of the stream, or of the time.
LEMMA IngestionActs ==
    ASSUME ConnInv, IngestionInv, IngestionNext
    PROVE  IngestionInv'
<1>0. Streamer \in Clients
  BY IngestionAssumption
<1>1. CASE OpenStream \/ Subscribe \/ SkipOther \/ StreamRaises
  <2>1. Box(Streamer)' \subseteq Box(Streamer)
    BY <1>0, <1>1, QuietSteps, AskingStep
       DEF OpenStream, Subscribe, SkipOther, StreamRaises, Quiet, Asking
  <2>2. /\ UNCHANGED <<lastEpoch, lastReceived, ticks>> /\ clock' = clock
        /\ streaming' \in {streaming, "opening", "open", "raised"}
    BY <1>1 DEF OpenStream, Subscribe, SkipOther, StreamRaises, ingestionVars
  <2>3. streaming' \in {"idle", "opening", "open", "raised"}
    BY <2>2 DEF IngestionInv, IngestionTypeOK
  <2> QED
    BY <2>1, <2>2, <2>3, IngestionUndisturbed
<1>2. CASE TimePasses
  <2>1. Box(Streamer)' \subseteq Box(Streamer)
    BY <1>2 DEF TimePasses, connVars, Box
  <2>2. streaming' \in {"idle", "opening", "open", "raised"}
    BY <1>2 DEF TimePasses, IngestionInv, IngestionTypeOK
  <2> QED
    BY <1>2, <2>1, <2>2, IngestionUndisturbed DEF TimePasses
<1>3. CASE HearTick
  <2> DEFINE t == Heard(Streamer)
  <2>1. t \in RawTicks
    <3>1. Head(inbox[Streamer]) \in Box(Streamer)
      BY <1>0, <1>3, SeqFacts DEF HearTick, ConnInv, Reading, Box
    <3> QED
      BY <1>3, <3>1 DEF HearTick, IngestionInv, Heard
  <2>2. IngestionTypeOK' /\ IsSeq(ticks)' /\ RemembersLastGood' /\ GoodTicksAscend'
    <3>1. /\ ~IngestRaises(t)
          /\ ticks' = Append(ticks, [epoch |-> t.epoch, price |-> t.price,
                                     received |-> clock, score |-> Score(t)])
          /\ IF Remembers(t) THEN lastEpoch' = t.epoch /\ lastReceived' = clock
                             ELSE UNCHANGED <<lastEpoch, lastReceived>>
          /\ UNCHANGED <<streaming, clock>>
      BY <1>3 DEF HearTick
    <3> HIDE DEF t
    <3> QED
      BY <2>1, <3>1, TickStored
  <2>3. Box(Streamer)' \subseteq Box(Streamer)
    BY <1>0, <1>3, QuietSteps DEF HearTick, Quiet
  <2>4. clock' \in Nat
    BY <1>3 DEF HearTick, IngestionInv
  <2> QED
    BY <2>2, <2>3, <2>4 DEF IngestionInv
<1> QED
  BY <1>1, <1>2, <1>3 DEF IngestionNext

-----------------------------------------------------------------------------
(* All together.                                                           *)

\* The invariant holds initially.
LEMMA InitBrokerInv == Init => BrokerInv
<1> SUFFICES ASSUME Init PROVE BrokerInv
  OBVIOUS
<1>1. /\ asked = {} /\ told = {} /\ nextReq = 1 /\ broken = Clients
      /\ \A c \in Clients : inbox[c] = <<>> /\ awaiting[c] = Idle /\ Box(c) = {}
      /\ \A c \in Clients : Out(c) = {} /\ Said(c) = {}
      /\ awaiting \in [Clients -> Nat]
      /\ inbox \in [Clients -> {inbox[c] : c \in Clients}]
  BY EmptyIsSeq DEF Init, WsInit, Box, Out, Said, Idle
<1>2. ConnInv
  BY <1>1, EmptyIsSeq DEF ConnInv, Idle
<1>3. AdvisorInv
  <2>1. candidates = <<>> /\ advising = "idle" /\ advice.action = "NO_TRADE"
    BY DEF Init, AdvisorInit, NoAdvice
  <2>2. Len(Durations) \in Nat
    BY AdvisorAssumption
  <2> QED
    BY <1>1, <2>1, <2>2, EmptyIsSeq, AdvisorAssumption
       DEF AdvisorInv, AdvisorTypeOK, QuotesBelong, Belongs
<1>4. DiscoveryInv
  <2>1. /\ entries = <<>> /\ listed = <<>> /\ discovering = "idle" /\ passes = 0
        /\ \A s \in Listable : markets[s] = NoMarket
    BY DEF Init, DiscoveryInit
  <2> QED
    BY <1>1, <2>1, EmptyIsSeq, DiscoveryAssumption
       DEF DiscoveryInv, DiscoveryTypeOK, EntriesBelong, ContractsBelong, ListsKnown,
           Belongs
<1>5. StoreInv
  BY <1>1, StoreAssumption
     DEF Init, StoreInit, StoreInv, StoreTypeOK, HolesAreWide, StoredAt
<1>6. IngestionInv
  <2>1. /\ ticks = <<>> /\ clock = 0 /\ lastEpoch = 0 /\ lastReceived = 0
        /\ streaming = "idle"
    BY DEF Init, IngestionInit, NotSeen
  <2> QED
    BY <1>1, <2>1, EmptyIsSeq, IngestionAssumption
       DEF IngestionInv, IngestionTypeOK, RemembersLastGood, GoodTicksAscend
<1> QED
  BY <1>2, <1>3, <1>4, <1>5, <1>6 DEF BrokerInv

\* Every step keeps the invariant: a client's own steps its part, and those of
\* the others and the broker disturb no part.
LEMMA NextBrokerInv ==
    ASSUME BrokerInv, running \subseteq Clients, [Next]_vars
    PROVE  BrokerInv'
<1>0. /\ ConnInv /\ AdvisorInv /\ DiscoveryInv /\ StoreInv /\ IngestionInv
      /\ {Advisor, Discoverer, Storer, Streamer} \subseteq Clients
      /\ Advisor \notin {Discoverer, Storer, Streamer}
      /\ Discoverer \notin {Storer, Streamer} /\ Storer # Streamer
  BY AdvisorAssumption, DiscoveryAssumption, StoreAssumption, IngestionAssumption,
     TogetherAssumption DEF BrokerInv
<1> DEFINE Idly(c) == Quiet(c) \/ Sent(c)
<1>1. UNCHANGED advisorVars /\ Idly(Advisor) => AdvisorInv'
  BY <1>0, AdvisorUndisturbed
<1>2. UNCHANGED discoveryVars /\ Idly(Discoverer) => DiscoveryInv'
  BY <1>0, DiscoveryUndisturbed
<1>3. UNCHANGED storeVars /\ Idly(Storer) => StoreInv'
  BY <1>0, StoreUndisturbed
<1>4. UNCHANGED ingestionVars /\ Idly(Streamer) => IngestionInv'
  <2> SUFFICES ASSUME UNCHANGED ingestionVars, Idly(Streamer) PROVE IngestionInv'
    OBVIOUS
  <2>1. UNCHANGED <<streaming, lastEpoch, lastReceived, clock, ticks>>
    BY DEF ingestionVars
  <2>2. streaming' \in {"idle", "opening", "open", "raised"}
    BY <1>0, <2>1 DEF IngestionInv, IngestionTypeOK
  <2> QED
    BY <1>0, <2>1, <2>2, IngestionUndisturbed DEF Quiet
<1> HIDE DEF Idly
<1>5. \A c \in Clients : Quiet(c) => Idly(c)
  BY DEF Idly
<1>6. CASE AdvisorNext /\ UNCHANGED <<discoveryVars, storeVars, ingestionVars>>
  <2>1. Alone(Advisor) /\ AdvisorInv'
    BY <1>0, <1>6, AdvisorStepsAlone, AdvisorActs
  <2> QED
    BY <1>0, <1>2, <1>3, <1>4, <1>5, <1>6, <2>1 DEF BrokerInv, Alone
<1>7. CASE DiscoveryNext /\ UNCHANGED <<advisorVars, storeVars, ingestionVars>>
  <2>1. Alone(Discoverer) /\ DiscoveryInv'
    BY <1>0, <1>7, DiscoveryStepsAlone, DiscoveryActs
  <2> QED
    BY <1>0, <1>1, <1>3, <1>4, <1>5, <1>7, <2>1 DEF BrokerInv, Alone
<1>8. CASE StoreNext /\ UNCHANGED <<advisorVars, discoveryVars, ingestionVars>>
  <2>1. Alone(Storer) /\ StoreInv'
    BY <1>0, <1>8, StoreStepsAlone, StoreActs
  <2> QED
    BY <1>0, <1>1, <1>2, <1>4, <1>5, <1>8, <2>1 DEF BrokerInv, Alone
<1>9. CASE IngestionNext /\ UNCHANGED <<advisorVars, discoveryVars, storeVars>>
  <2>1. Alone(Streamer) /\ IngestionInv'
    BY <1>0, <1>9, IngestionStepsAlone, IngestionActs
  <2> QED
    BY <1>0, <1>1, <1>2, <1>3, <1>5, <1>9, <2>1 DEF BrokerInv, Alone
<1>10. CASE Broker \/ UNCHANGED vars
  <2>1. UNCHANGED <<advisorVars, discoveryVars, storeVars, ingestionVars>>
    BY <1>10 DEF Broker, vars
  <2>2. ConnInv' /\ \A c \in Clients : Quiet(c) \/ Sent(c)
    BY <1>0, <1>10, BrokerSteps DEF vars, ConnStutters
  <2> QED
    BY <1>0, <1>1, <1>2, <1>3, <1>4, <2>1, <2>2 DEF BrokerInv, Idly
<1> QED
  BY <1>6, <1>7, <1>8, <1>9, <1>10 DEF Next

\* The clients that run are clients, from beginning to end.
LEMMA RunningStays ==
    /\ Init => running \subseteq Clients
    /\ running \subseteq Clients /\ [Next]_vars => (running \subseteq Clients)'
<1>1. Init => running \subseteq Clients
  BY TogetherAssumption DEF Init
<1>2. ASSUME [Next]_vars PROVE running' = running
  BY <1>2 DEF Next, vars
<1> QED
  BY <1>1, <1>2

\* So the invariant holds throughout.
LEMMA BrokerInvHolds == Spec => []BrokerInv
<1> DEFINE I == BrokerInv /\ running \subseteq Clients
<1>1. Init => I
  BY InitBrokerInv, RunningStays
<1>2. I /\ [Next]_vars => I'
  BY NextBrokerInv, RunningStays
<1> QED
  BY <1>1, <1>2, PTL DEF Spec

-----------------------------------------------------------------------------
(* The candles made of the good ticks.                                     *)

\* One tick more, kept if it is good.
Picked(kept, t) == IF t.score >= Acceptable THEN Append(kept, t) ELSE kept

\* The pass over the ticks, from tick to tick.
LEMMA GoodPass ==
    ASSUME IsSeq(ticks)
    PROVE  \E g \in [0..Len(ticks) -> Seq(Elems(ticks))] :
              /\ g[0] = <<>>
              /\ \A i \in 1..Len(ticks) : g[i] = Picked(g[i - 1], ticks[i])
              /\ GoodTicks = g[Len(ticks)]
<1> DEFINE T == DOMAIN ticks
           K == Seq(Elems(ticks))
           next(a, i) == Picked(a, ticks[i])
           step == [p \in K \X T |-> next(p[1], p[2])]
           E(h) == h = [s \in SUBSET T |->
                          IF s = {} THEN <<>> ELSE next(h[s \ {Max(s)}], Max(s))]
           iter == CHOOSE h : E(h)
<1>1. Len(ticks) \in Nat /\ T = 1..Len(ticks) /\ IsFiniteSet(T) /\ T \subseteq Int
  <2>1. Len(ticks) \in Nat /\ T = 1..Len(ticks)
    BY SeqFacts
  <2>2. IsFiniteSet(1..Len(ticks))
    BY <2>1, FS_Interval
  <2> QED
    BY <2>1, <2>2
<1>2. <<>> \in K
  OBVIOUS
<1>3. \A a \in K, i \in T : next(a, i) \in K /\ step[<<a, i>>] = next(a, i)
  <2>1. \A i \in T : ticks[i] \in Elems(ticks)
    BY DEF Elems
  <2>2. \A a \in K, t \in Elems(ticks) : Picked(a, t) \in K
    BY DEF Picked
  <2> QED
    BY <2>1, <2>2
<1>4. GoodTicks = iter[T]
  BY Zenon DEF GoodTicks, FoldLeft, MapThenFoldSet, Picked
<1> HIDE DEF T, K, next, step
<1>5. E(iter)
  <2>1. PICK k : FoldTable(k, <<>>, step, T)
    BY <1>1, FoldsExist
  <2>2. k \in [SUBSET T -> K]
    <3>1. step \in [K \X T -> K]
      BY <1>3 DEF step
    <3> QED
      BY <1>1, <1>2, <2>1, <3>1, FoldsKeep
  <2>3. \A s \in SUBSET T : s # {} => Max(s) \in T /\ k[s \ {Max(s)}] \in K
    <3> TAKE s \in SUBSET T
    <3> HAVE s # {}
    <3>1. Max(s) \in s
      BY <1>1, MaxIsElement
    <3> QED
      BY <2>2, <3>1
  <2>4. E(k)
    BY <1>3, <2>1, <2>3 DEF FoldTable
  <2> QED
    BY <2>4, Zenon
<1> HIDE DEF iter
<1> DEFINE g == [i \in 0..Len(ticks) |-> iter[1..i]]
<1>6. g[0] = <<>>
  <2>1. 1..0 = {} /\ {} \in SUBSET T /\ 0 \in 0..Len(ticks)
    BY <1>1
  <2> QED
    BY <1>5, <2>1
<1>7. ASSUME NEW i \in 1..Len(ticks) PROVE g[i] = next(g[i - 1], i)
  <2>1. /\ Max(1..i) = i /\ (1..i) \ {i} = 1..(i - 1) /\ 1..i # {}
        /\ 1..i \in SUBSET T /\ i \in 0..Len(ticks) /\ i - 1 \in 0..Len(ticks)
    BY <1>1, LastNumber
  <2> QED
    BY <1>5, <2>1
<1>8. g[Len(ticks)] = iter[T]
  BY <1>1
<1>9. g = [i \in 0..Len(ticks) |-> g[i]]
  OBVIOUS
<1> HIDE DEF g
<1>10. \A i \in 0..Len(ticks) : g[i] \in K
  <2> DEFINE B == {i \in 0..Len(ticks) : g[i] \notin K}
  <2> SUFFICES ASSUME B # {} PROVE FALSE
    OBVIOUS
  <2>1. PICK m \in B : \A j \in B : m <= j
    <3>1. B \subseteq 0..Len(ticks)
      OBVIOUS
    <3> HIDE DEF B
    <3> QED
      BY <1>1, <3>1, FirstNumber
  <2>2. m \in 1..Len(ticks) /\ m \in T /\ m - 1 \in 0..Len(ticks) /\ m - 1 < m
    BY <1>1, <1>2, <1>6
  <2>3. g[m - 1] \in K
    BY <2>1, <2>2
  <2> QED
    BY <1>3, <1>7, <2>2, <2>3
<1>11. g \in [0..Len(ticks) -> K]
  BY <1>9, <1>10
<1> QED
  BY <1>4, <1>6, <1>7, <1>8, <1>11 DEF next, K

\* Periods do not go back.
LEMMA PeriodsAscend ==
    ASSUME NEW t, NEW u, t.epoch \in Int, u.epoch \in Int, t.epoch <= u.epoch
    PROVE  PeriodOf(t) \in Int /\ PeriodOf(u) \in Int /\ PeriodOf(t) <= PeriodOf(u)
<1>1. PICK e \in Int, f \in Int, n \in Nat \ {0} :
         e = t.epoch /\ f = u.epoch /\ n = CandleLength
  BY IngestionAssumption
<1> DEFINE a == e \div n
           b == f \div n
<1>2. /\ a \in Int /\ a * n <= e /\ e < a * n + n
      /\ b \in Int /\ b * n <= f /\ f < b * n + n
  BY Z3
<1> HIDE DEF a, b
<1>3. ~(a >= b + 1)
  <2> SUFFICES ASSUME a >= b + 1 PROVE FALSE
    OBVIOUS
  <2>1. a * n >= (b + 1) * n
    BY <1>2
  <2>2. (b + 1) * n = b * n + n
    BY <1>2
  <2>3. e <= f
    BY <1>1
  <2> DEFINE x == a * n
             y == b * n
             z == (b + 1) * n
  <2>4. x \in Int /\ y \in Int /\ z \in Int
    BY <1>2
  <2> HIDE DEF x, y, z
  <2> QED
    BY <1>2, <2>1, <2>2, <2>3, <2>4 DEF x, y, z
<1> QED
  BY <1>1, <1>2, <1>3 DEF PeriodOf, a, b

\* One period more, if it is new.
Numbered(periods, p) == IF Contains(periods, p) THEN periods ELSE Append(periods, p)

\* The pass over the periods of some ticks, from tick to tick.
LEMMA PeriodsPass ==
    ASSUME NEW ts, IsSeq(ts), \A i \in 1..Len(ts) : ts[i].epoch \in Int
    PROVE  \E p \in [0..Len(ts) -> Seq(Int)] :
              /\ p[0] = <<>>
              /\ \A i \in 1..Len(ts) : p[i] = Numbered(p[i - 1], PeriodOf(ts[i]))
              /\ PeriodsOf(ts) = p[Len(ts)]
<1> DEFINE T == DOMAIN ts
           K == Seq(Int)
           next(a, i) == Numbered(a, PeriodOf(ts[i]))
           step == [q \in K \X T |-> next(q[1], q[2])]
           E(h) == h = [s \in SUBSET T |->
                          IF s = {} THEN <<>> ELSE next(h[s \ {Max(s)}], Max(s))]
           iter == CHOOSE h : E(h)
<1>1. Len(ts) \in Nat /\ T = 1..Len(ts) /\ IsFiniteSet(T) /\ T \subseteq Int
  <2>1. Len(ts) \in Nat /\ T = 1..Len(ts)
    BY SeqFacts
  <2>2. IsFiniteSet(1..Len(ts))
    BY <2>1, FS_Interval
  <2> QED
    BY <2>1, <2>2
<1>2. <<>> \in K
  OBVIOUS
<1>3. \A a \in K, i \in T : next(a, i) \in K /\ step[<<a, i>>] = next(a, i)
  <2>1. \A i \in T : PeriodOf(ts[i]) \in Int
    BY <1>1, PeriodsAscend
  <2>2. \A a \in K, x \in Int : Numbered(a, x) \in K
    BY DEF Numbered
  <2> QED
    BY <2>1, <2>2
<1>4. PeriodsOf(ts) = iter[T]
  BY Zenon DEF PeriodsOf, FoldLeft, MapThenFoldSet, Numbered
<1> HIDE DEF T, K, next, step
<1>5. E(iter)
  <2>1. PICK k : FoldTable(k, <<>>, step, T)
    BY <1>1, FoldsExist
  <2>2. k \in [SUBSET T -> K]
    <3>1. step \in [K \X T -> K]
      BY <1>3 DEF step
    <3> QED
      BY <1>1, <1>2, <2>1, <3>1, FoldsKeep
  <2>3. \A s \in SUBSET T : s # {} => Max(s) \in T /\ k[s \ {Max(s)}] \in K
    <3> TAKE s \in SUBSET T
    <3> HAVE s # {}
    <3>1. Max(s) \in s
      BY <1>1, MaxIsElement
    <3> QED
      BY <2>2, <3>1
  <2>4. E(k)
    BY <1>3, <2>1, <2>3 DEF FoldTable
  <2> QED
    BY <2>4, Zenon
<1> HIDE DEF iter
<1> DEFINE g == [i \in 0..Len(ts) |-> iter[1..i]]
<1>6. g[0] = <<>>
  <2>1. 1..0 = {} /\ {} \in SUBSET T /\ 0 \in 0..Len(ts)
    BY <1>1
  <2> QED
    BY <1>5, <2>1
<1>7. ASSUME NEW i \in 1..Len(ts) PROVE g[i] = next(g[i - 1], i)
  <2>1. /\ Max(1..i) = i /\ (1..i) \ {i} = 1..(i - 1) /\ 1..i # {}
        /\ 1..i \in SUBSET T /\ i \in 0..Len(ts) /\ i - 1 \in 0..Len(ts)
    BY <1>1, LastNumber
  <2> QED
    BY <1>5, <2>1
<1>8. g[Len(ts)] = iter[T]
  BY <1>1
<1>9. g = [i \in 0..Len(ts) |-> g[i]]
  OBVIOUS
<1> HIDE DEF g
<1>10. \A i \in 0..Len(ts) : g[i] \in K
  <2> DEFINE B == {i \in 0..Len(ts) : g[i] \notin K}
  <2> SUFFICES ASSUME B # {} PROVE FALSE
    OBVIOUS
  <2>1. PICK m \in B : \A j \in B : m <= j
    <3>1. B \subseteq 0..Len(ts)
      OBVIOUS
    <3> HIDE DEF B
    <3> QED
      BY <1>1, <3>1, FirstNumber
  <2>2. m \in 1..Len(ts) /\ m \in T /\ m - 1 \in 0..Len(ts) /\ m - 1 < m
    BY <1>1, <1>2, <1>6
  <2>3. g[m - 1] \in K
    BY <2>1, <2>2
  <2> QED
    BY <1>3, <1>7, <2>2, <2>3
<1>11. g \in [0..Len(ts) -> K]
  BY <1>9, <1>10
<1> QED
  BY <1>4, <1>6, <1>7, <1>8, <1>11 DEF next, K

\* The periods of the ticks up to the i-th: each is that of a tick, they ascend,
\* and the last one is the i-th tick's.
PeriodsUpTo(ts, s, i) ==
    /\ \A k \in 1..Len(s) : \E j \in 1..i : s[k] = PeriodOf(ts[j])
    /\ i > 0 => /\ Len(s) > 0 /\ s[Len(s)] = PeriodOf(ts[i])
                /\ \A k \in 1..(Len(s) - 1) : s[k] < PeriodOf(ts[i])

\* They remain so with one tick more that is no earlier.
LEMMA OnePeriodMore ==
    ASSUME NEW ts, NEW n \in Nat, \A i \in 1..n : ts[i].epoch \in Int,
           \A i, j \in 1..n : i < j => ts[i].epoch <= ts[j].epoch,
           NEW i \in 1..n, NEW s \in Seq(Int), PeriodsUpTo(ts, s, i - 1)
    PROVE  PeriodsUpTo(ts, Numbered(s, PeriodOf(ts[i])), i)
<1> DEFINE q == PeriodOf(ts[i])
           r == PeriodOf(ts[i - 1])
<1>1. q \in Int
  BY PeriodsAscend
<1>2. ASSUME i > 1 PROVE r \in Int /\ r <= q
  <2>1. i - 1 \in 1..n /\ i - 1 < i
    BY <1>2
  <2>2. ts[i - 1].epoch <= ts[i].epoch /\ ts[i - 1].epoch \in Int /\ ts[i].epoch \in Int
    BY <2>1
  <2> QED
    BY <2>2, PeriodsAscend
<1>3. /\ \A k \in 1..Len(s) : \E j \in 1..(i - 1) : s[k] = PeriodOf(ts[j])
      /\ i > 1 => /\ Len(s) > 0 /\ s[Len(s)] = r
                  /\ \A k \in 1..(Len(s) - 1) : s[k] < r
  <2>1. i > 1 <=> i - 1 > 0
    OBVIOUS
  <2> QED
    BY <2>1 DEF PeriodsUpTo
<1>4. i = 1 => Len(s) = 0
  <2>1. i = 1 => 1..(i - 1) = {}
    OBVIOUS
  <2>2. Len(s) # 0 => 1 \in 1..Len(s)
    OBVIOUS
  <2> QED
    BY <1>3, <2>1, <2>2
<1> HIDE DEF q, r
<1>5. CASE Contains(s, q)
  <2>1. PICK k \in 1..Len(s) : s[k] = q
    BY <1>5 DEF Contains
  <2>2. i > 1
    BY <1>4, <2>1
  <2>3. q <= r
    <3>1. CASE k = Len(s)
      BY <1>1, <1>3, <2>1, <2>2, <3>1
    <3>2. CASE k # Len(s)
      <4>1. k \in 1..(Len(s) - 1)
        BY <3>2
      <4> QED
        BY <1>1, <1>2, <1>3, <2>1, <2>2, <4>1
    <3> QED
      BY <3>1, <3>2
  <2>4. q = r
    BY <1>1, <1>2, <2>2, <2>3
  <2>5. Numbered(s, q) = s
    BY <1>5 DEF Numbered
  <2>6. \A j \in 1..(i - 1) : j \in 1..i
    OBVIOUS
  <2>7. PeriodsUpTo(ts, s, i)
    BY <1>3, <2>2, <2>4, <2>6 DEF PeriodsUpTo, q
  <2> QED
    BY <2>5, <2>7 DEF q
<1>6. CASE ~Contains(s, q)
  <2> DEFINE z == Append(s, q)
  <2>1. Numbered(s, q) = z
    BY <1>6 DEF Numbered
  <2>2. /\ Len(z) = Len(s) + 1 /\ z[Len(z)] = q /\ Len(s) \in Nat
        /\ \A k \in 1..Len(s) : z[k] = s[k] /\ s[k] \in Int
    BY <1>1
  <2> HIDE DEF z
  <2>3. \A k \in 1..Len(s) : s[k] < q
    <3> TAKE k \in 1..Len(s)
    <3>1. i > 1
      BY <1>4
    <3>2. s[k] <= r
      <4>1. CASE k = Len(s)
        BY <1>2, <1>3, <3>1, <4>1
      <4>2. CASE k # Len(s)
        <5>1. k \in 1..(Len(s) - 1)
          BY <4>2
        <5> QED
          BY <1>2, <1>3, <2>2, <3>1, <5>1
      <4> QED
        BY <4>1, <4>2
    <3>3. s[k] # q
      BY <1>6 DEF Contains
    <3> QED
      BY <1>1, <1>2, <2>2, <3>1, <3>2, <3>3
  <2>4. \A k \in 1..Len(z) : \E j \in 1..i : z[k] = PeriodOf(ts[j])
    <3> TAKE k \in 1..Len(z)
    <3>1. CASE k \in 1..Len(s)
      BY <1>3, <2>2, <3>1
    <3>2. CASE k = Len(z)
      BY <2>2, <3>2 DEF q
    <3> QED
      BY <2>2, <3>1, <3>2
  <2>5. \A k \in 1..(Len(z) - 1) : z[k] < q
    BY <2>2, <2>3
  <2>6. PeriodsUpTo(ts, z, i)
    BY <2>2, <2>4, <2>5 DEF PeriodsUpTo, q
  <2> QED
    BY <2>1, <2>6 DEF q
<1> QED
  BY <1>5, <1>6

\* A list of periods stays as it is but for what is appended.
LEMMA NumberedBegins ==
    ASSUME NEW s \in Seq(Int), NEW x \in Int
    PROVE  /\ Numbered(s, x) \in Seq(Int) /\ Len(s) \in Nat /\ Len(Numbered(s, x)) \in Nat
           /\ Len(s) <= Len(Numbered(s, x))
           /\ \A k \in 1..Len(s) : Numbered(s, x)[k] = s[k]
<1>1. CASE Contains(s, x)
  BY <1>1 DEF Numbered
<1>2. CASE ~Contains(s, x)
  BY <1>2 DEF Numbered
<1> QED
  BY <1>1, <1>2

\* Each list of a pass begins with every one before it.
Beginnings(p, n) == \A i, m \in 0..n : i <= m =>
                       /\ Len(p[i]) <= Len(p[m])
                       /\ \A k \in 1..Len(p[i]) : p[m][k] = p[i][k]

\* So it is in the pass over any periods.
LEMMA ListsBegin ==
    ASSUME NEW n \in Nat, NEW p \in [0..n -> Seq(Int)], NEW x \in [1..n -> Int],
           \A i \in 1..n : p[i] = Numbered(p[i - 1], x[i])
    PROVE  Beginnings(p, n)
<1> DEFINE Begins(i, m) == /\ Len(p[i]) <= Len(p[m])
                           /\ \A k \in 1..Len(p[i]) : p[m][k] = p[i][k]
<1>1. \A i \in 0..n : Len(p[i]) \in Nat /\ Begins(i, i)
  <2>1. \A i \in 0..n : Len(p[i]) \in Nat
    OBVIOUS
  <2> QED
    BY <2>1
<1>2. \A m \in 1..n : Begins(m - 1, m)
  <2> TAKE m \in 1..n
  <2>1. p[m - 1] \in Seq(Int) /\ x[m] \in Int /\ p[m] = Numbered(p[m - 1], x[m])
    OBVIOUS
  <2> QED
    BY <2>1, NumberedBegins
<1>3. ASSUME NEW i \in 0..n, NEW m \in 1..n, i <= m - 1, Begins(i, m - 1) PROVE Begins(i, m)
  <2>1. Len(p[i]) \in Nat /\ Len(p[m - 1]) \in Nat /\ Len(p[m]) \in Nat
    BY <1>1
  <2> QED
    BY <1>2, <1>3, <2>1
<1> HIDE DEF Begins
<1>4. ASSUME NEW i \in 0..n PROVE \A m \in 0..n : i <= m => Begins(i, m)
  <2> DEFINE B == {m \in 0..n : i <= m /\ ~Begins(i, m)}
  <2> SUFFICES ASSUME B # {} PROVE FALSE
    OBVIOUS
  <2>1. PICK m \in B : \A j \in B : m <= j
    <3>1. B \subseteq 0..n
      OBVIOUS
    <3> HIDE DEF B
    <3> QED
      BY <3>1, FirstNumber
  <2>2. m # i
    BY <1>1
  <2>3. m \in 1..n /\ m - 1 \in 0..n /\ m - 1 < m /\ i <= m - 1
    BY <2>2
  <2>4. Begins(i, m - 1)
    BY <2>1, <2>3
  <2> QED
    BY <1>3, <2>3, <2>4
<1> QED
  BY <1>4 DEF Begins, Beginnings

\* The pass over ticks that ascend: its lists are the periods of the ticks up
\* to each, and each list begins with every one before it.
LEMMA PeriodsAre ==
    ASSUME NEW ts, NEW n \in Nat, \A i \in 1..n : ts[i].epoch \in Int,
           \A i, j \in 1..n : i < j => ts[i].epoch <= ts[j].epoch,
           NEW p \in [0..n -> Seq(Int)], p[0] = <<>>,
           \A i \in 1..n : p[i] = Numbered(p[i - 1], PeriodOf(ts[i]))
    PROVE  /\ \A i \in 0..n : PeriodsUpTo(ts, p[i], i)
           /\ Beginnings(p, n)
<1>1. \A i \in 0..n : PeriodsUpTo(ts, p[i], i)
  <2> DEFINE B == {i \in 0..n : ~PeriodsUpTo(ts, p[i], i)}
  <2> SUFFICES ASSUME B # {} PROVE FALSE
    OBVIOUS
  <2>1. PICK m \in B : \A j \in B : m <= j
    <3>1. B \subseteq 0..n
      OBVIOUS
    <3> HIDE DEF B
    <3> QED
      BY <3>1, FirstNumber
  <2>2. m # 0
    BY DEF PeriodsUpTo
  <2>3. m \in 1..n /\ m - 1 \in 0..n /\ m - 1 < m
    BY <2>2
  <2>4. PeriodsUpTo(ts, p[m - 1], m - 1) /\ p[m - 1] \in Seq(Int)
    BY <2>1, <2>3
  <2>5. PeriodsUpTo(ts, p[m], m)
    BY <2>3, <2>4, OnePeriodMore
  <2> QED
    BY <2>5
<1>2. \A i \in 1..n : PeriodOf(ts[i]) \in Int
  <2> TAKE i \in 1..n
  <2>1. ts[i].epoch \in Int /\ ts[i].epoch <= ts[i].epoch
    OBVIOUS
  <2> QED
    BY <2>1, PeriodsAscend
<1> DEFINE x == [i \in 1..n |-> PeriodOf(ts[i])]
<1>3. x \in [1..n -> Int] /\ \A i \in 1..n : p[i] = Numbered(p[i - 1], x[i])
  BY <1>2
<1> HIDE DEF x
<1> QED
  BY <1>1, <1>3, ListsBegin

\* The periods of the first ticks are those the pass has reached there.
LEMMA PeriodsOfFirst ==
    ASSUME NEW ts, IsSeq(ts), \A i \in 1..Len(ts) : ts[i].epoch \in Int,
           NEW p \in [0..Len(ts) -> Seq(Int)], p[0] = <<>>,
           \A i \in 1..Len(ts) : p[i] = Numbered(p[i - 1], PeriodOf(ts[i])),
           NEW n \in 1..Len(ts)
    PROVE  PeriodsOf(SubSeq(ts, 1, n)) = p[n]
<1> DEFINE part == SubSeq(ts, 1, n)
<1>1. /\ IsSeq(part) /\ Len(part) = n /\ Len(ts) \in Nat /\ n \in Nat
      /\ \A i \in 1..n : part[i] = ts[i] /\ part[i].epoch \in Int
  <2>1. ts \in Seq(Elems(ts)) /\ Len(ts) \in Nat
    BY SeqFacts DEF IsSeq
  <2> DEFINE S == Elems(ts)
  <2> HIDE DEF S
  <2>2. /\ part \in Seq(S) /\ Len(part) = n /\ \A i \in 1..n : part[i] = ts[i]
        /\ DOMAIN part = 1..Len(part)
    BY <2>1 DEF S
  <2> HIDE DEF part
  <2>3. IsSeq(part)
    <3>1. \A i \in 1..Len(part) : part[i] \in Elems(part)
      BY <2>2 DEF Elems
    <3> QED
      BY <2>2, <3>1, SeqNarrows DEF IsSeq
  <2> QED
    BY <2>1, <2>2, <2>3
<1> HIDE DEF part
<1>2. PICK g \in [0..Len(part) -> Seq(Int)] :
         /\ g[0] = <<>>
         /\ \A i \in 1..Len(part) : g[i] = Numbered(g[i - 1], PeriodOf(part[i]))
         /\ PeriodsOf(part) = g[Len(part)]
  BY <1>1, PeriodsPass
<1>3. \A i \in 0..n : g[i] = p[i]
  <2> DEFINE B == {i \in 0..n : g[i] # p[i]}
  <2> SUFFICES ASSUME B # {} PROVE FALSE
    OBVIOUS
  <2>1. PICK m \in B : \A j \in B : m <= j
    <3>1. B \subseteq 0..n
      OBVIOUS
    <3> HIDE DEF B
    <3> QED
      BY <1>1, <3>1, FirstNumber
  <2>2. m # 0
    BY <1>2
  <2>3. m \in 1..n /\ m \in 1..Len(ts) /\ m - 1 \in 0..n /\ m - 1 < m
    BY <1>1, <2>2
  <2>4. g[m - 1] = p[m - 1] /\ part[m] = ts[m]
    BY <1>1, <2>1, <2>3
  <2> QED
    BY <1>1, <1>2, <2>3, <2>4
<1> QED
  BY <1>1, <1>2, <1>3 DEF part

\* Some ticks and more of them make the same candle of a period.
SameCandle(part, ts, q) == CandleOf(part, q) = CandleOf(ts, q)

\* They do if none of the others is of that period.
LEMMA CandleStays ==
    ASSUME NEW ts, NEW n \in Nat, NEW N \in Nat, n <= N, DOMAIN ts = 1..N,
           NEW part, DOMAIN part = 1..n, \A i \in 1..n : part[i] = ts[i],
           NEW q \in Int, \E j \in 1..n : q = PeriodOf(ts[j]),
           \A j \in (n + 1)..N : PeriodOf(ts[j]) # q
    PROVE  SameCandle(part, ts, q)
<1> DEFINE inside == {i \in 1..n : PeriodOf(ts[i]) = q}
<1>1. inside = {i \in DOMAIN part : PeriodOf(part[i]) = q}
  OBVIOUS
<1>2. inside = {i \in DOMAIN ts : PeriodOf(ts[i]) = q}
  OBVIOUS
<1>3. inside # {} /\ inside \subseteq 1..n
  OBVIOUS
<1> HIDE DEF inside
<1>4. Min(inside) \in 1..n /\ Max(inside) \in 1..n
  <2>1. IsFiniteSet(inside) /\ inside \subseteq Int
    <3>1. IsFiniteSet(1..n)
      <4>1. 1 \in Int /\ n \in Int
        OBVIOUS
      <4> QED
        BY <4>1, FS_Interval
    <3>2. IsFiniteSet(inside)
      BY <1>3, <3>1, FS_Subset
    <3> QED
      BY <1>3, <3>2
  <2> QED
    BY <1>3, <2>1, Greatest, Least
<1>5. {part[i].price : i \in inside} = {ts[i].price : i \in inside}
  BY <1>3
<1>6. part[Min(inside)] = ts[Min(inside)] /\ part[Max(inside)] = ts[Max(inside)]
  BY <1>4
<1> QED
  BY <1>1, <1>2, <1>5, <1>6 DEF CandleOf, SameCandle

\* A candle of ticks that ascend is never changed once a later one has begun.
LEMMA CandlesStand ==
    ASSUME NEW ts, IsSeq(ts), \A i \in 1..Len(ts) : ts[i].epoch \in Int,
           \A i, j \in 1..Len(ts) : i < j => ts[i].epoch <= ts[j].epoch,
           NEW n \in 1..Len(ts)
    PROVE  IsPrefix(Front(Aggregate(SubSeq(ts, 1, n))), Aggregate(ts))
<1> DEFINE N == Len(ts)
           part == SubSeq(ts, 1, n)
<1>1. N \in Nat /\ DOMAIN ts = 1..N /\ n \in Nat /\ n <= N /\ N \in 0..N /\ n \in 0..N
  <2>1. N \in Nat /\ DOMAIN ts = 1..N
    BY SeqFacts
  <2> QED
    BY <2>1
<1>2. DOMAIN part = 1..n /\ \A i \in 1..n : part[i] = ts[i]
  <2> DEFINE S == Elems(ts)
  <2>1. ts \in Seq(S)
    BY DEF IsSeq
  <2> HIDE DEF S
  <2> QED
    BY <2>1
<1>3. PICK p \in [0..N -> Seq(Int)] :
         /\ p[0] = <<>>
         /\ \A i \in 1..N : p[i] = Numbered(p[i - 1], PeriodOf(ts[i]))
         /\ PeriodsOf(ts) = p[N]
  BY PeriodsPass
<1>4. PeriodsOf(part) = p[n]
  BY <1>3, PeriodsOfFirst
<1>0. /\ \A i \in 1..N : ts[i].epoch \in Int
      /\ \A i, j \in 1..N : i < j => ts[i].epoch <= ts[j].epoch
  OBVIOUS
<1> HIDE DEF N
<1>5. /\ \A i \in 0..N : PeriodsUpTo(ts, p[i], i)
      /\ Beginnings(p, N)
  BY <1>0, <1>1, <1>3, PeriodsAre
<1> DEFINE a == p[n]
           b == p[N]
           q == PeriodOf(ts[n])
<1>6. /\ a \in Seq(Int) /\ b \in Seq(Int) /\ Len(a) <= Len(b)
      /\ \A k \in 1..Len(a) : b[k] = a[k]
      /\ PeriodsUpTo(ts, a, n)
  BY <1>1, <1>3, <1>5 DEF Beginnings
<1>7. \A j \in (n + 1)..N : q \in Int /\ PeriodOf(ts[j]) \in Int /\ q <= PeriodOf(ts[j])
  <2> TAKE j \in (n + 1)..N
  <2>1. n \in 1..N /\ j \in 1..N /\ n < j
    BY <1>1 DEF N
  <2>2. ts[n].epoch \in Int /\ ts[j].epoch \in Int /\ ts[n].epoch <= ts[j].epoch
    BY <1>0, <2>1
  <2> QED
    BY <2>2, PeriodsAscend
<1>8. /\ Len(a) > 0 /\ \A k \in 1..(Len(a) - 1) : a[k] < q
      /\ \A k \in 1..Len(a) : \E j \in 1..n : a[k] = PeriodOf(ts[j])
  BY <1>1, <1>6 DEF PeriodsUpTo
<1>9. Aggregate(part) = [i \in DOMAIN a |-> CandleOf(part, a[i])]
  BY <1>4 DEF Aggregate
<1>10. Aggregate(ts) = [i \in DOMAIN b |-> CandleOf(ts, b[i])]
  BY <1>3 DEF Aggregate
<1> HIDE DEF a, b, q, part, N
<1>11. Len(a) \in Nat /\ Len(b) \in Nat /\ DOMAIN a = 1..Len(a) /\ DOMAIN b = 1..Len(b)
  BY <1>6
<1>12. \A k \in 1..(Len(a) - 1) : CandleOf(part, a[k]) = CandleOf(ts, b[k])
  <2> TAKE k \in 1..(Len(a) - 1)
  <2>1. k \in 1..Len(a) /\ a[k] \in Int /\ b[k] = a[k]
    BY <1>6, <1>11
  <2>2. \A j \in (n + 1)..N : PeriodOf(ts[j]) # a[k]
    BY <1>7, <1>8, <2>1
  <2>3. \E j \in 1..n : a[k] = PeriodOf(ts[j])
    BY <1>8, <2>1
  <2>4. SameCandle(part, ts, a[k])
    BY <1>1, <1>2, <2>1, <2>2, <2>3, CandleStays
  <2> QED
    BY <2>1, <2>4 DEF SameCandle
<1> DEFINE u == Aggregate(part)
           v == Aggregate(ts)
           m == Len(a) - 1
<1>13. /\ IsSeq(u) /\ Len(u) = Len(a) /\ IsSeq(v) /\ Len(v) = Len(b)
       /\ \A k \in 1..Len(a) : u[k] = CandleOf(part, a[k])
       /\ \A k \in 1..Len(b) : v[k] = CandleOf(ts, b[k])
  <2>1. /\ u = [k \in 1..Len(a) |-> CandleOf(part, a[k])]
        /\ v = [k \in 1..Len(b) |-> CandleOf(ts, b[k])]
    BY <1>9, <1>10, <1>11
  <2> HIDE DEF u, v
  <2>2. u = [k \in 1..Len(a) |-> u[k]] /\ v = [k \in 1..Len(b) |-> v[k]]
    BY <2>1
  <2>3. IsSeq(u) /\ Len(u) = Len(a) /\ IsSeq(v) /\ Len(v) = Len(b)
    BY <1>11, <2>2, ListIsSeq
  <2> QED
    BY <2>1, <2>3
<1> HIDE DEF u, v
<1>14. \A k \in 1..m : u[k] = v[k]
  BY <1>6, <1>11, <1>12, <1>13
<1>15. m \in Nat /\ m <= Len(u) /\ m <= Len(v)
  BY <1>6, <1>8, <1>11, <1>13
<1> HIDE DEF m
<1> DEFINE x == Front(u)
<1>16. x = SubSeq(u, 1, m)
  BY <1>13 DEF Front, m
<1>17. /\ x \in Seq(Elems(u)) /\ Len(x) = m /\ SubSeq(x, 1, m) = x
       /\ \A k \in 1..m : x[k] = u[k]
  <2> DEFINE S == Elems(u)
  <2>1. u \in Seq(S)
    BY <1>13 DEF IsSeq
  <2> HIDE DEF S
  <2>2. SubSeq(u, 1, m) \in Seq(S) /\ Len(SubSeq(u, 1, m)) = m
        /\ \A k \in 1..m : SubSeq(u, 1, m)[k] = u[k]
    BY <1>15, <2>1
  <2> HIDE DEF x
  <2>3. SubSeq(x, 1, m) = x
    BY <1>15, <1>16, <2>2
  <2> QED
    BY <1>16, <2>2, <2>3 DEF S
<1>18. SubSeq(v, 1, m) = SubSeq(u, 1, m)
  BY <1>14, <1>15
<1>19. IsPrefix(x, v)
  BY <1>15, <1>16, <1>17, <1>18 DEF IsPrefix
<1> QED
  BY <1>19 DEF u, v, part, x

\* The good ticks ascend.
LEMMA GoodTicksAre ==
    ASSUME IngestionInv
    PROVE  /\ IsSeq(GoodTicks)
           /\ \A i \in 1..Len(GoodTicks) : GoodTicks[i].epoch \in Int
           /\ \A i, j \in 1..Len(GoodTicks) : i < j =>
                 GoodTicks[i].epoch <= GoodTicks[j].epoch
<1> DEFINE n == Len(ticks)
           Chosen(s, i) ==
               /\ \A k \in 1..Len(s) : \E j \in 1..i : Good(j) /\ s[k] = ticks[j]
               /\ \A k, l \in 1..Len(s) : k < l => s[k].epoch <= s[l].epoch
<1>1. IsSeq(ticks) /\ n \in Nat /\ DOMAIN ticks = 1..n
  BY SeqFacts DEF IngestionInv
<1>2. /\ \A i \in 1..n : Good(i) => ticks[i].epoch \in Int
      /\ \A i, j \in 1..n : i < j /\ Good(i) /\ Good(j) => ticks[i].epoch <= ticks[j].epoch
  <2>1. \A i \in 1..n : Good(i) => ticks[i].epoch \in 1..lastEpoch
    BY <1>1 DEF IngestionInv, RemembersLastGood
  <2>2. \A i \in 1..n : Good(i) => ticks[i].epoch \in Int
    BY <2>1
  <2>3. \A i, j \in 1..n : i < j /\ Good(i) /\ Good(j) => ticks[i].epoch < ticks[j].epoch
    BY <1>1 DEF IngestionInv, GoodTicksAscend
  <2> HIDE DEF n
  <2>4. \A i, j \in 1..n : i < j /\ Good(i) /\ Good(j) => ticks[i].epoch <= ticks[j].epoch
    BY <2>2, <2>3
  <2> QED
    BY <2>2, <2>4
<1>3. PICK g \in [0..n -> Seq(Elems(ticks))] :
         /\ g[0] = <<>>
         /\ \A i \in 1..n : g[i] = Picked(g[i - 1], ticks[i])
         /\ GoodTicks = g[n]
  BY <1>1, GoodPass
<1> HIDE DEF n
<1>4. ASSUME NEW i \in 1..n, Chosen(g[i - 1], i - 1) PROVE Chosen(g[i], i)
  <2> DEFINE s == g[i - 1]
             t == ticks[i]
             S == Elems(ticks)
  <2>1. s \in Seq(S) /\ t \in S
    <3>1. i \in DOMAIN ticks /\ i - 1 \in 0..n
      BY <1>1
    <3>2. t \in S
      BY <3>1 DEF Elems
    <3>3. s \in Seq(S)
      <4> HIDE DEF S
      <4> QED
        BY <1>3, <3>1 DEF S
    <3> QED
      BY <3>2, <3>3
  <2>2. g[i] = IF Good(i) THEN Append(s, t) ELSE s
    BY <1>3 DEF Picked, Good
  <2>3. \A k \in 1..Len(s) : \E j \in 1..(i - 1) : Good(j) /\ s[k] = ticks[j]
    BY <1>4
  <2>4. \A k, l \in 1..Len(s) : k < l => s[k].epoch <= s[l].epoch
    BY <1>4
  <2>5. \A j \in 1..(i - 1) : j \in 1..n /\ j \in 1..i /\ j < i
    BY <1>1
  <2> HIDE DEF s, S
  <2>6. CASE ~Good(i)
    <3>1. g[i] = s
      BY <2>2, <2>6
    <3> QED
      BY <2>3, <2>4, <2>5, <3>1
  <2>7. CASE Good(i)
    <3> DEFINE z == Append(s, t)
    <3>1. /\ Len(z) = Len(s) + 1 /\ Len(s) \in Nat /\ z[Len(z)] = t
          /\ \A k \in 1..Len(s) : z[k] = s[k]
      BY <2>1
    <3>2. \A k \in 1..Len(s) : s[k].epoch <= t.epoch
      BY <1>2, <2>3, <2>5, <2>7
    <3>3. g[i] = z
      BY <2>2, <2>7
    <3> HIDE DEF z
    <3>4. \A k \in 1..Len(z) : \E j \in 1..i : Good(j) /\ z[k] = ticks[j]
      <4> TAKE k \in 1..Len(z)
      <4>1. CASE k \in 1..Len(s)
        BY <2>3, <2>5, <3>1, <4>1
      <4>2. CASE k = Len(z)
        BY <2>7, <3>1, <4>2
      <4> QED
        BY <3>1, <4>1, <4>2
    <3>5. \A k, l \in 1..Len(z) : k < l => z[k].epoch <= z[l].epoch
      <4> SUFFICES ASSUME NEW k \in 1..Len(z), NEW l \in 1..Len(z), k < l
                   PROVE  z[k].epoch <= z[l].epoch
        OBVIOUS
      <4>1. k \in 1..Len(s)
        BY <3>1
      <4>2. CASE l \in 1..Len(s)
        BY <2>4, <3>1, <4>1, <4>2
      <4>3. CASE l = Len(z)
        <5>1. z[k] = s[k] /\ z[l] = t /\ s[k].epoch <= t.epoch
          BY <3>1, <3>2, <4>1, <4>3
        <5> QED
          BY <5>1
      <4>4. l \in 1..Len(s) \/ l = Len(z)
        BY <3>1
      <4> QED
        BY <4>2, <4>3, <4>4
    <3> QED
      BY <3>3, <3>4, <3>5
  <2> QED
    BY <2>6, <2>7
<1>5. Chosen(g[0], 0)
  BY <1>3
<1> HIDE DEF Chosen
<1>6. Chosen(g[n], n)
  <2> DEFINE B == {i \in 0..n : ~Chosen(g[i], i)}
  <2> SUFFICES ASSUME B # {} PROVE FALSE
    BY <1>1
  <2>1. PICK m \in B : \A j \in B : m <= j
    <3>1. B \subseteq 0..n
      OBVIOUS
    <3> HIDE DEF B
    <3> QED
      BY <1>1, <3>1, FirstNumber
  <2>2. m # 0
    BY <1>5
  <2>3. m \in 1..n /\ m - 1 \in 0..n /\ m - 1 < m
    BY <1>1, <2>2
  <2>4. Chosen(g[m - 1], m - 1)
    BY <2>1, <2>3
  <2> QED
    BY <1>4, <2>3, <2>4
<1>7. IsSeq(g[n])
  <2>1. g[n] \in Seq(Elems(ticks))
    BY <1>1, <1>3
  <2> DEFINE S == Elems(ticks)
  <2>2. g[n] \in Seq(S)
    BY <2>1
  <2> HIDE DEF S
  <2>3. \A i \in 1..Len(g[n]) : g[n][i] \in Elems(g[n])
    <3>1. DOMAIN g[n] = 1..Len(g[n])
      BY <2>2
    <3> QED
      BY <3>1 DEF Elems
  <2> QED
    BY <2>2, <2>3, SeqNarrows DEF IsSeq
<1>8. \A i \in 1..Len(g[n]) : g[n][i].epoch \in Int
  BY <1>2, <1>6 DEF Chosen
<1> QED
  BY <1>3, <1>6, <1>7, <1>8 DEF Chosen

-----------------------------------------------------------------------------
(* The theorems.                                                           *)

\* The variables of the clients keep their types: no candidate is noted beyond
\* the durations, no entry beyond the symbols listed, no stored candle is later
\* than the broker's clock or twice in the table, and no request awaits an id
\* that was not handed out.
THEOREM BrokerTypes == Spec => []TypeOK
<1>1. BrokerInv => TypeOK
  <2>1. ConnInv => WsTypeOK
    BY DEF ConnInv, WsTypeOK
  <2> QED
    BY <2>1 DEF BrokerInv, AdvisorInv, DiscoveryInv, StoreInv, IngestionInv, TypeOK
<1> QED
  BY <1>1, BrokerInvHolds, PTL

\* A candidate of the trade advisor bears the price the broker quoted for its
\* own duration, however many requests were given up on before and answered
\* late.
THEOREM AdvisorQuotes == Spec => []QuotesBelong
<1>1. BrokerInv => QuotesBelong
  BY DEF BrokerInv, AdvisorInv
<1> QED
  BY <1>1, BrokerInvHolds, PTL

\* Contracts registered for a symbol are contracts the broker said it offers
\* for that symbol, over any number of passes.
THEOREM RegistryContracts == Spec => []ContractsBelong
<1>1. BrokerInv => ContractsBelong
  BY DEF BrokerInv, DiscoveryInv
<1> QED
  BY <1>1, BrokerInvHolds, PTL

\* Right above a hole in the stored candles lie at least as many as the smallest
\* request asks for, whatever the fetches before did, forced or not.
THEOREM StoreHoles == Spec => []HolesAreWide
<1>1. BrokerInv => HolesAreWide
  BY DEF BrokerInv, StoreInv
<1> QED
  BY <1>1, BrokerInvHolds, PTL

\* The ticks fit for a decision ascend, each taken for good within the time
\* allowed since the good one before it, whatever comes in between; and of the
\* candles made of them only the last may still change.
THEOREM TicksInOrder == Spec => []GoodTicksInOrder
<1>1. BrokerInv => GoodTicksInOrder
  <2> SUFFICES ASSUME BrokerInv PROVE GoodTicksInOrder
    OBVIOUS
  <2>1. IngestionInv /\ GoodTicksAscend
    BY DEF BrokerInv, IngestionInv
  <2>2. \A n \in 1..Len(GoodTicks) :
           IsPrefix(Front(Aggregate(SubSeq(GoodTicks, 1, n))), Aggregate(GoodTicks))
    BY <2>1, GoodTicksAre, CandlesStand
  <2> QED
    BY <2>1, <2>2 DEF GoodTicksInOrder
<1> QED
  BY <1>1, BrokerInvHolds, PTL
=============================================================================
