-------------------------- MODULE MCOrderManager ---------------------------
(* Two currency pairs that share a currency and an index with none; a stake *)
(* of two units, three losses of which stop the governor.                   *)
EXTENDS OrderManager, TLC

MCSymbols == {"frxEURUSD", "frxGBPUSD", "R_100"}
MCCurrencies == {"EUR", "GBP", "USD"}
MCPair == [s \in MCSymbols |-> CASE s = "frxEURUSD" -> <<"EUR", "USD">>
                                 [] s = "frxGBPUSD" -> <<"GBP", "USD">>
                                 [] OTHER -> NoPair]

\* One market only, for the runs that look at time or at lost answers.
MCOneSymbol == {"frxEURUSD"}
MCOnePair == [s \in MCOneSymbol |-> <<"EUR", "USD">>]

MCSignalSymmetry == Permutations(Signals)
=============================================================================
