------------------------- MODULE MCGovernorAlerts --------------------------
(* A small governor driven by the trading loop: twenty units, of which four *)
(* may be lost in a day and thirty percent below the peak; three losses in  *)
(* a row halt it.                                                           *)
EXTENDS GovernorAlerts

MCMoves == {-3, -1, 0, 2}

MCSavedStates ==
    {[current |-> 18, peak |-> 22, losses |-> 2, stopped |-> FALSE],
     [current |-> 14, peak |-> 20, losses |-> 0, stopped |-> TRUE],
     [current |-> 13, peak |-> 20, losses |-> 1, stopped |-> FALSE]}

MCBalances == 6..24
=============================================================================
