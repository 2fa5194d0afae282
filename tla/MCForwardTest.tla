--------------------------- MODULE MCForwardTest ---------------------------
(* One market, as the script has; a day is a few units of time long.        *)
EXTENDS ForwardTest

MCSymbols == {"frxEURUSD"}
MCCurrencies == {"EUR", "USD"}
MCPair == [s \in MCSymbols |-> <<"EUR", "USD">>]
MCSignals == (0..MaxTime) \X (1..MaxTicks)
=============================================================================
