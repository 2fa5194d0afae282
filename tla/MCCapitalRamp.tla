--------------------------- MODULE MCCapitalRamp ---------------------------
(* Four trades at least for an advance; a win may earn less than the payout *)
(* the API assumes.                                                         *)
EXTENDS CapitalRamp

MCResults == {-10, 1, 8}
=============================================================================
