---------------------------- MODULE CandleStore -----------------------------
(***************************************************************************)
(* The store of historical candles (data/historical_store.py): a fetch     *)
(* asks the broker for the candles after the latest one stored, at most so *)
(* many of them, and inserts those it does not have.                       *)
(*                                                                         *)
(* Candles are numbered from 1; the broker is forming the one numbered     *)
(* now.  Its answer may end with that one or with the one before, and when *)
(* there are more candles than asked for it may give the first or the last *)
(* of them.                                                                *)
(***************************************************************************)
EXTENDS WsConnection

CONSTANTS Storer,       \* the client
          Counts,       \* how many candles a fetch may ask for
          MaxNow,       \* bound: candles begun
          MaxFetches    \* bound: requests of the process

ASSUME StoreAssumption == /\ Storer \in Clients /\ Counts \subseteq Nat \ {0}
                          /\ MaxNow \in Nat /\ MaxFetches \in Nat

VARIABLES now,          \* the broker: the candle being formed
          rows,         \* SQLite: candles, and whether they were complete
          storing,      \* "idle", "asking" or "waiting"
          query         \* the start and the count of the fetch under way

storeVars == <<now, rows, storing, query>>

NoStart == 0

StoreInit == /\ now = 1 /\ rows = {} /\ storing = "idle"
             /\ query = [start |-> NoStart, count |-> 0]

StoredAt == {row.at : row \in rows}

StoreTypeOK == /\ rows \subseteq [at : 1..now, complete : BOOLEAN]
               /\ \A r, s \in rows : r.at = s.at => r = s
               /\ storing \in {"idle", "asking", "waiting"}

-----------------------------------------------------------------------------
CandleCloses == /\ now < MaxNow
                /\ now' = now + 1
                /\ UNCHANGED <<connVars, rows, storing, query>>

\* Mutant: one candle is left out.
StartTooLate(latest) == latest + 2

StartAfter(latest) == latest + 1

\* get_stored_range; force_refetch asks without a start.
BeginFetch(count, force) ==
    /\ storing = "idle" /\ storing' = "asking" /\ nextReq <= MaxFetches
    /\ \/ /\ force \/ rows = {}
          /\ query' = [start |-> NoStart, count |-> count]
       \/ /\ ~force
          /\ \E latest \in StoredAt :
                /\ \A at \in StoredAt : at <= latest
                /\ query' = [start |-> StartAfter(latest), count |-> count]
    /\ Connects(Storer)
    /\ UNCHANGED <<now, rows>>

AskCandles == /\ storing = "asking" /\ storing' = "waiting"
              /\ Asks(Storer, query)
              /\ UNCHANGED <<now, rows, query>>

FetchEnds == /\ storing = "waiting" /\ storing' = "idle"
             /\ Leaves(Storer)
             /\ UNCHANGED <<now, query>>

\* INSERT OR IGNORE, in one transaction.
StoreCandles == /\ Reading(Storer) /\ IsMyAnswer(Storer)
                /\ rows' = rows \cup {c \in Heard(Storer) : c.at \notin StoredAt}
                /\ FetchEnds

\* The broker's error says that no candle has closed since the start, which is
\* expected: the fetch returns that it stored none.
NothingNew == /\ query.start # NoStart /\ MayRaise(Storer, "error")
              /\ FetchEnds
              /\ UNCHANGED rows

\* Any other error, a lost connection or the timeout: the fetch raises.
FetchRaises == /\ \E why \in {"error", "failure"} : MayRaise(Storer, why)
               /\ FetchEnds
               /\ UNCHANGED rows

\* A connection is asked once, so there is never an answer to skip on it.
StoreStep == AskCandles \/ StoreCandles \/ NothingNew \/ FetchRaises

StoreNext == \/ StoreStep
             \/ \E count \in Counts, force \in BOOLEAN : BeginFetch(count, force)
             \/ CandleCloses

-----------------------------------------------------------------------------
\* What the broker may answer to a query: the candles from a to b.
Stretch(a, b) == {[at |-> i, complete |-> i < now] : i \in a..b}

Later(a, b) == IF a > b THEN a ELSE b

CandleAnswers(q) ==
    UNION {IF q.start > last THEN {}
           ELSE {Stretch(Later(Later(q.start, 1), last - q.count + 1), last),
                 IF q.start = NoStart THEN Stretch(Later(1, last - q.count + 1), last)
                 ELSE Stretch(q.start, IF q.start + q.count - 1 < last
                                       THEN q.start + q.count - 1 ELSE last)}
           : last \in {now - 1, now}}

-----------------------------------------------------------------------------
(***************************************************************************)
(* Properties.                                                             *)
(***************************************************************************)

\* "This only asks Deriv for data since our latest stored candle": whatever
\* fetches fail, find nothing new or are forced, a hole in the stored history
\* comes only of more candles than a request asks for having closed since the
\* last fetch, and then at least as many as the smallest request asks for are
\* stored above the hole.
HolesAreWide ==
    \A hole \in 1..now : \A above \in StoredAt :
        /\ hole \notin StoredAt /\ hole + 1 = above
        /\ \E below \in StoredAt : below < hole
        => \E count \in Counts : above..(above + count - 1) \subseteq StoredAt
=============================================================================
