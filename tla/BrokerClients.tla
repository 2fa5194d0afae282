--------------------------- MODULE BrokerClients ---------------------------
(***************************************************************************)
(* The coroutines of the process that ask the broker: the trade advisor,   *)
(* market discovery, the candle store and the tick stream, each on its own *)
(* connection, with request ids from one counter.  Running says which of   *)
(* them the process runs.                                                  *)
(***************************************************************************)
EXTENDS TradeAdvisor, MarketDiscovery, CandleStore, TickIngestion

CONSTANTS Together,     \* sets of clients that run at the same time
          Quotes,       \* the prices a proposal may be answered with
          Offers,       \* the contract types a symbol may have
          RawTicks      \* the ticks a subscription may send

\* Each client has a connection of its own.
ASSUME TogetherAssumption ==
    /\ Together \subseteq SUBSET Clients
    /\ Advisor \notin {Discoverer, Storer, Streamer}
    /\ Discoverer \notin {Storer, Streamer} /\ Storer # Streamer
    /\ RawTicks \subseteq [epoch : Int \cup {NoValue}, price : Int \cup {NoValue}]

VARIABLE running

vars == <<connVars, advisorVars, discoveryVars, storeVars, ingestionVars, running>>

Init == /\ WsInit /\ AdvisorInit /\ DiscoveryInit /\ StoreInit /\ IngestionInit
        /\ running \in Together

TypeOK == /\ WsTypeOK /\ AdvisorTypeOK /\ DiscoveryTypeOK /\ StoreTypeOK
          /\ IngestionTypeOK

\* What the broker may answer to a question.
AnswersTo(q) == IF q.client = Advisor THEN Quotes \cup {NoQuote}
                ELSE IF q.client = Storer THEN CandleAnswers(q.question)
                ELSE IF q.question = "active_symbols" THEN Listings
                ELSE Offers

BrokerAnswers == \E q \in asked :
                    \/ /\ q.client # Streamer
                       /\ \E v \in AnswersTo(q) : Replies(q, "answer", v)
                    \/ Replies(q, "error", NoQuote)

\* Ticks, and messages that are none.
BrokerStreams == \E q \in asked :
                    /\ q.client = Streamer
                    /\ Len(ticks) + Len(inbox[Streamer]) < MaxTicks
                    /\ \/ \E t \in RawTicks : Sends(q, "tick", t)
                       \/ Sends(q, "answer", NoQuote)

BrokerCloses == \E c \in running : Closes(c)

Broker == /\ BrokerAnswers \/ BrokerStreams \/ BrokerCloses
          /\ UNCHANGED <<advisorVars, discoveryVars, storeVars, ingestionVars>>

AdvisorAlone == UNCHANGED <<discoveryVars, storeVars, ingestionVars, running>>

Next == /\ \/ /\ Advisor \in running /\ AdvisorNext
              /\ UNCHANGED <<discoveryVars, storeVars, ingestionVars>>
           \/ /\ Discoverer \in running /\ DiscoveryNext
              /\ UNCHANGED <<advisorVars, storeVars, ingestionVars>>
           \/ /\ Storer \in running /\ StoreNext
              /\ UNCHANGED <<advisorVars, discoveryVars, ingestionVars>>
           \/ /\ Streamer \in running /\ IngestionNext
              /\ UNCHANGED <<advisorVars, discoveryVars, storeVars>>
           \/ Broker
        /\ UNCHANGED running

Spec == Init /\ [][Next]_vars

\* A request ends with its timeout at the latest, and asyncio resumes whoever
\* awaited it.
FairSpec == Spec /\ WF_vars(AdvisorStep /\ AdvisorAlone)
=============================================================================
