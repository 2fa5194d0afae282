--------------------------- MODULE TickIngestion ---------------------------
(***************************************************************************)
(* Live ticks: the subscription (stream_ticks of markets/ws_client.py),    *)
(* the quality score of each tick (data/quality.py), the table they are    *)
(* written to (data/tick_ingestion.py) and the candles made of them        *)
(* (data/candles.py).  The repository's tests use these parts one by one;  *)
(* they are put together here as their docstrings say.                     *)
(***************************************************************************)
EXTENDS WsConnection, SequencesExt

CONSTANTS Streamer,     \* the client
          NoValue,      \* the value of a field a tick does not have
          StaleAfter,   \* stale_after_s
          CandleLength, \* duration_s
          MaxClock,     \* bound: units of time that pass
          MaxTicks      \* bound: ticks of the stream

ASSUME IngestionAssumption ==
    /\ Streamer \in Clients /\ NoValue \notin Int
    /\ StaleAfter \in Nat /\ CandleLength \in Nat \ {0}
    /\ MaxClock \in Nat /\ MaxTicks \in Nat

VARIABLES streaming,    \* "idle", "opening", "open" or "raised"
          lastEpoch,    \* last_epoch of the symbol, or NotSeen
          lastReceived, \* last_received_monotonic, once an epoch was seen
          clock,
          ticks         \* SQLite: the ticks with their scores

ingestionVars == <<streaming, lastEpoch, lastReceived, clock, ticks>>

NotSeen == 0

\* DataQualityScore
Unusable == 0
Questionable == 1
Acceptable == 2
HighQuality == 3

IngestionInit == /\ streaming = "idle" /\ lastEpoch = NotSeen /\ lastReceived = 0
                 /\ clock = 0 /\ ticks = <<>>

IngestionTypeOK == /\ streaming \in {"idle", "opening", "open", "raised"}
                   /\ lastEpoch \in Nat /\ lastReceived \in 0..clock
                   /\ \A i \in DOMAIN ticks : ticks[i].score \in Unusable..HighQuality

-----------------------------------------------------------------------------
(* SymbolStreamState.evaluate                                              *)

InvalidPrice(t) == t.price = NoValue \/ t.price <= 0

InvalidEpoch(t) == t.epoch = NoValue \/ t.epoch <= 0

Duplicate(t) == lastEpoch # NotSeen /\ t.epoch = lastEpoch

OutOfOrder(t) == lastEpoch # NotSeen /\ t.epoch < lastEpoch

Stale == lastEpoch # NotSeen /\ clock - lastReceived > StaleAfter

Score(t) == IF InvalidPrice(t) \/ InvalidEpoch(t) THEN Unusable
            ELSE IF Duplicate(t) \/ OutOfOrder(t) THEN Questionable
            ELSE IF Stale THEN Acceptable
            ELSE HighQuality

\* Mutant: any valid tick is remembered as the last one.
RemembersValid(t) == Score(t) >= Questionable

Remembers(t) == Score(t) >= Acceptable

\* A missing epoch cannot be compared with the last one; and the table takes
\* neither a tick without a price nor one without an epoch, which one of zero
\* is taken for.
IngestRaises(t) == t.price = NoValue \/ t.epoch \in {NoValue, 0}

-----------------------------------------------------------------------------
TimePasses == /\ clock < MaxClock
              /\ clock' = clock + 1
              /\ UNCHANGED <<connVars, streaming, lastEpoch, lastReceived, ticks>>

OpenStream == /\ streaming = "idle" /\ streaming' = "opening"
              /\ Connects(Streamer)
              /\ UNCHANGED <<lastEpoch, lastReceived, clock, ticks>>

Subscribe == /\ streaming = "opening" /\ streaming' = "open"
             /\ Asks(Streamer, "ticks")
             /\ UNCHANGED <<lastEpoch, lastReceived, clock, ticks>>

HearTick ==
    /\ streaming = "open" /\ Reading(Streamer) /\ Head(inbox[Streamer]).kind = "tick"
    /\ LET t == Heard(Streamer)
       IN  /\ ~IngestRaises(t)
           /\ ticks' = Append(ticks, [epoch |-> t.epoch, price |-> t.price,
                                      received |-> clock, score |-> Score(t)])
           /\ IF Remembers(t)
              THEN lastEpoch' = t.epoch /\ lastReceived' = clock
              ELSE UNCHANGED <<lastEpoch, lastReceived>>
    /\ Drops(Streamer)
    /\ UNCHANGED <<streaming, clock>>

SkipOther == /\ streaming = "open" /\ Reading(Streamer)
               /\ Head(inbox[Streamer]).kind = "answer"
               /\ Drops(Streamer)
               /\ UNCHANGED ingestionVars

\* Nothing is remembered of a tick that raises.  There is no timeout.
StreamRaises ==
    /\ streaming = "open" /\ streaming' = "raised"
    /\ \/ Reading(Streamer) /\ IsError(Streamer)
       \/ Reading(Streamer) /\ Head(inbox[Streamer]).kind = "tick" /\ IngestRaises(Heard(Streamer))
       \/ Streamer \in broken /\ inbox[Streamer] = <<>>
    /\ Leaves(Streamer)
    /\ UNCHANGED <<lastEpoch, lastReceived, clock, ticks>>

IngestionNext == \/ OpenStream \/ Subscribe \/ HearTick \/ SkipOther \/ StreamRaises
                 \/ TimePasses

-----------------------------------------------------------------------------
(* aggregate_ticks_to_candles                                              *)

PeriodOf(t) == t.epoch \div CandleLength

\* The periods in which there is a tick, in the order of their first ones.
PeriodsOf(ts) ==
    FoldLeft(LAMBDA periods, t : IF Contains(periods, PeriodOf(t)) THEN periods
                                 ELSE Append(periods, PeriodOf(t)), <<>>, ts)

CandleOf(ts, period) ==
    LET inside == {i \in DOMAIN ts : PeriodOf(ts[i]) = period}
        prices == {ts[i].price : i \in inside}
    IN  [period |-> period, open |-> ts[Min(inside)].price, high |-> Max(prices),
         low |-> Min(prices), close |-> ts[Max(inside)].price, count |-> Cardinality(inside)]

Aggregate(ts) == LET periods == PeriodsOf(ts)
                 IN  [i \in DOMAIN periods |-> CandleOf(ts, periods[i])]

-----------------------------------------------------------------------------
(***************************************************************************)
(* Properties.                                                             *)
(***************************************************************************)

Good(i) == ticks[i].score >= Acceptable

\* Whatever ticks come in between, those fit for a decision ascend, each taken
\* for good within the time allowed since the one before.
GoodTicksAscend ==
    \A i, j \in DOMAIN ticks : i < j /\ Good(i) /\ Good(j) =>
        /\ ticks[i].epoch < ticks[j].epoch
        /\ ticks[j].score = HighQuality /\ (\A k \in (i + 1)..(j - 1) : ~Good(k))
             => ticks[j].received - ticks[i].received <= StaleAfter

\* The ticks fit for a decision, one after the other.
GoodTicks == FoldLeft(LAMBDA kept, t : IF t.score >= Acceptable THEN Append(kept, t) ELSE kept,
                      <<>>, ticks)

\* "A duplicate or out-of-order tick must not corrupt last known good state",
\* for the candles are made of ticks "already sorted ascending by epoch": the
\* good ticks ascend, so a candle made of them is never changed any more once a
\* later one has begun.
GoodTicksInOrder ==
    LET done(n) == Front(Aggregate(SubSeq(GoodTicks, 1, n)))
    IN  /\ GoodTicksAscend
        /\ \A n \in 1..Len(GoodTicks) : IsPrefix(done(n), Aggregate(GoodTicks))
=============================================================================
