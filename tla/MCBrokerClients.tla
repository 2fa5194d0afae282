-------------------------- MODULE MCBrokerClients --------------------------
(* Two durations, two symbols; quotes that pay well and that pay nothing.   *)
(* Ticks of two candles, and such as lack or garble a field.                *)
EXTENDS BrokerClients

MCDurations == <<"60s", "120s">>
MCListings == {<<"frxEURUSD", "R_100">>}
MCListable == {"frxEURUSD", "R_100"}
MCQuotes == {[ask |-> 10, payout |-> 18], [ask |-> 10, payout |-> 10]}
MCOffers == {{"CALL", "PUT"}}
MCTogether == {{Advisor, Discoverer}, {Storer}, {Streamer}}
MCRawTicks == {[epoch |-> 1, price |-> 1], [epoch |-> 2, price |-> 1],
               [epoch |-> 3, price |-> 2], [epoch |-> 2, price |-> 0],
               [epoch |-> NoValue, price |-> 1]}
=============================================================================
