--------------------------- MODULE SignalLedger ----------------------------
(***************************************************************************)
(* What the duplicate protection promises (risk/overtrading.py, spec part  *)
(* 29 as its docstring tells it): a signal is committed to at most once,   *)
(* before anything is bought for it, and a given signal ever produces at   *)
(* most one contract, however many attempts are made and whatever becomes  *)
(* of the answers.                                                         *)
(***************************************************************************)
CONSTANTS Signals,
          Orders      \* orders, each a record with the signal it is for

VARIABLES committed,  \* the signals an order may have been sent for
          contracts   \* the orders the broker has turned into contracts

ledger == <<committed, contracts>>

Init == committed = {} /\ contracts = {}

Commit(s) == /\ s \notin committed
             /\ committed' = committed \cup {s}
             /\ UNCHANGED contracts

Fill(o) == /\ o.signal \in committed
           /\ \A c \in contracts : c.signal # o.signal
           /\ contracts' = contracts \cup {o}
           /\ UNCHANGED committed

Next == \/ \E s \in Signals : Commit(s)
        \/ \E o \in Orders : Fill(o)

Spec == Init /\ [][Next]_ledger
=============================================================================
