--------------------------- MODULE TradeAdvisor ----------------------------
(***************************************************************************)
(* The trade advisor (analytics/trade_advisor.py, served by /trade-advice  *)
(* of api/server.py): a price is asked for each candidate duration, one    *)
(* after the other on one connection, and the best of those that clear the *)
(* bars is advised.  A price that cannot be had is noted, and the next one *)
(* is asked for.                                                           *)
(***************************************************************************)
EXTENDS WsConnection, Economics

CONSTANTS Advisor,          \* the client
          Durations,        \* candidate_durations_s, in their order
          ModelProbs,       \* model probabilities of a signal, in percent
          NoQuote           \* the quote of a candidate without one

ASSUME AdvisorAssumption ==
    Advisor \in Clients /\ Durations \in Seq(STRING) /\ ModelProbs \subseteq 0..100

VARIABLES advising,     \* "idle", "asking", "done" or "raised"
          signalProb,   \* the probability of the signal
          candidates,   \* duration_results
          advice        \* the advice: an action and a duration

advisorVars == <<advising, signalProb, candidates, advice>>

NoAdvice == [action |-> "NO_TRADE", duration |-> ""]

AdvisorInit == /\ advising = "idle" /\ signalProb = 0
               /\ candidates = <<>> /\ advice = NoAdvice

AdvisorTypeOK ==
    /\ advising \in {"idle", "asking", "done", "raised"}
    /\ Len(candidates) <= Len(Durations)
    /\ \A i \in DOMAIN candidates :
          candidates[i].state \in {"priced", "unpriced", "error", "failure"}
    /\ advice.action \in {"NO_TRADE", "TRADE"}

-----------------------------------------------------------------------------
\* The strategy has no signal.
AdviseNothing == /\ advising = "idle"
                 /\ advising' = "done"
                 /\ UNCHANGED <<connVars, signalProb, candidates, advice>>

StartAdvising(p) == /\ advising = "idle"
                    /\ advising' = "asking" /\ signalProb' = p
                    /\ Connects(Advisor)
                    /\ UNCHANGED <<candidates, advice>>

AskPrice == /\ advising = "asking" /\ Len(candidates) < Len(Durations)
            /\ Asks(Advisor, Durations[Len(candidates) + 1])
            /\ UNCHANGED advisorVars

Note(state, quote) ==
    candidates' = Append(candidates, [state |-> state, quote |-> quote])

\* A quote without prices is noted.
HearPrice ==
    /\ advising = "asking"
    /\ Returns(Advisor)
    /\ LET v == Heard(Advisor)
       IN  \/ v = NoQuote /\ Note("unpriced", v)
           \/ v # NoQuote /\ HasBreakEven(v.ask, v.payout) /\ Note("priced", v)
    /\ UNCHANGED <<advising, signalProb, advice>>

\* A payout that does not exceed its price makes evaluate_economics raise,
\* outside the try, and there is no advice.
HearBadPrice ==
    /\ advising = "asking"
    /\ Reading(Advisor) /\ IsMyAnswer(Advisor)
    /\ LET v == Heard(Advisor)
       IN  v # NoQuote /\ ~HasBreakEven(v.ask, v.payout)
    /\ advising' = "raised"
    /\ Leaves(Advisor)
    /\ UNCHANGED <<signalProb, candidates, advice>>

MissPrice(why) == /\ advising = "asking"
                  /\ Raises(Advisor, why)
                  /\ Note(why, NoQuote)
                  /\ UNCHANGED <<advising, signalProb, advice>>

SkipPrice == Skips(Advisor) /\ UNCHANGED advisorVars

-----------------------------------------------------------------------------
Value(k) == ExpectedValue(signalProb, k.quote.ask, k.quote.payout)

Qualifies(k) == /\ k.state = "priced"
                /\ ClearsEdge(signalProb, k.quote.ask, k.quote.payout)
                /\ ClearsValue(signalProb, k.quote.ask, k.quote.payout)

\* The first of those with the greatest expected value.
IsBest(i) ==
    /\ Qualifies(candidates[i])
    /\ \A j \in DOMAIN candidates : Qualifies(candidates[j]) =>
          \/ Value(candidates[j]) < Value(candidates[i])
          \/ Value(candidates[j]) = Value(candidates[i]) /\ i <= j

Conclude ==
    /\ advising = "asking" /\ Len(candidates) = Len(Durations)
    /\ advising' = "done"
    /\ \/ \E i \in DOMAIN candidates :
            IsBest(i) /\ advice' = [action |-> "TRADE", duration |-> Durations[i]]
       \/ /\ \A i \in DOMAIN candidates : ~Qualifies(candidates[i])
          /\ UNCHANGED advice
    /\ Leaves(Advisor)
    /\ UNCHANGED <<signalProb, candidates>>

AdvisorStep == \/ AskPrice \/ HearPrice \/ HearBadPrice \/ SkipPrice
               \/ \E why \in {"error", "failure"} : MissPrice(why)
               \/ Conclude

AdvisorNext == \/ AdvisorStep
               \/ AdviseNothing
               \/ \E p \in ModelProbs : StartAdvising(p)

-----------------------------------------------------------------------------
(***************************************************************************)
(* Properties.                                                             *)
(***************************************************************************)

\* What the broker told this client of a duration.
ToldOf(duration) ==
    {m \in told : m.client = Advisor /\ m.question = duration}

\* A candidate bears the price the broker quoted for its own duration, however
\* many earlier requests were given up on and answered late.
QuotesBelong ==
    \A i \in DOMAIN candidates : candidates[i].state = "priced" =>
        \E m \in ToldOf(Durations[i]) :
            m.kind = "answer" /\ m.value = candidates[i].quote

\* Asked for advice, the advisor gives some or fails: no answer that does not
\* come holds it up for ever.
AdviceEnds == advising = "asking" ~> advising \in {"done", "raised"}
=============================================================================
