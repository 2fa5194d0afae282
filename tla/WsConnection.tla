--------------------------- MODULE WsConnection ----------------------------
(***************************************************************************)
(* WebSocket connections to the broker (markets/ws_client.py): each client *)
(* has one, on which it asks one question at a time and reads messages     *)
(* until its answer, an error or the timeout comes.  The request ids are   *)
(* counted for the whole process.                                          *)
(*                                                                         *)
(* The broker answers requests in any order, late, or not at all, and may  *)
(* close a connection; what it sends on one arrives in order.              *)
(***************************************************************************)
EXTENDS Integers, Sequences

CONSTANT Clients

VARIABLES nextReq,    \* _req_id_counter
          asked,      \* the broker: requests not yet answered
          inbox,      \* messages of each connection not yet read
          awaiting,   \* the request id each client awaits, or Idle
          broken,     \* clients without an open connection
          told        \* history: the questions answered, and how

connVars == <<nextReq, asked, inbox, awaiting, broken, told>>

Idle == 0

WsInit == /\ nextReq = 1 /\ asked = {} /\ broken = Clients /\ told = {}
          /\ inbox = [c \in Clients |-> <<>>]
          /\ awaiting = [c \in Clients |-> Idle]

WsTypeOK == /\ nextReq \in Nat \ {0}
            /\ \A q \in asked : q.client \in Clients /\ q.req < nextReq
            /\ \A c \in Clients : awaiting[c] < nextReq
            /\ broken \subseteq Clients

-----------------------------------------------------------------------------
\* __aenter__
Connects(c) == /\ broken' = broken \ {c}
               /\ UNCHANGED <<nextReq, asked, inbox, awaiting, told>>

\* __aexit__: what is still under way on the connection goes with it.
Leaves(c) == /\ broken' = broken \cup {c}
             /\ asked' = {q \in asked : q.client # c}
             /\ inbox' = [inbox EXCEPT ![c] = <<>>]
             /\ awaiting' = [awaiting EXCEPT ![c] = Idle]
             /\ UNCHANGED <<nextReq, told>>

\* Mutant: the counter is read but not advanced.
AsksUncounted(c, question) ==
    /\ awaiting[c] = Idle
    /\ awaiting' = [awaiting EXCEPT ![c] = nextReq]
    /\ asked' = asked \cup {[client |-> c, req |-> nextReq, question |-> question]}
    /\ UNCHANGED <<nextReq, inbox, broken, told>>

\* On a closed connection the request does not leave, and nothing is read.
Asks(c, question) ==
    /\ awaiting[c] = Idle
    /\ nextReq' = nextReq + 1
    /\ awaiting' = [awaiting EXCEPT ![c] = nextReq]
    /\ IF c \in broken
       THEN inbox' = [inbox EXCEPT ![c] = <<>>] /\ UNCHANGED asked
       ELSE /\ asked' = asked \cup {[client |-> c, req |-> nextReq,
                                     question |-> question]}
            /\ UNCHANGED inbox
    /\ UNCHANGED <<broken, told>>

Reading(c) == awaiting[c] # Idle /\ inbox[c] # <<>>

IsError(c) == Head(inbox[c]).kind = "error"

\* Mutant: the first message that is no error is taken for the answer.
IsAnyAnswer(c) == ~IsError(c)

IsMyAnswer(c) == ~IsError(c) /\ Head(inbox[c]).req = awaiting[c]

Skips(c) == /\ Reading(c) /\ ~IsError(c) /\ ~IsMyAnswer(c)
            /\ inbox' = [inbox EXCEPT ![c] = Tail(@)]
            /\ UNCHANGED <<nextReq, asked, awaiting, broken, told>>

Heard(c) == Head(inbox[c]).value

\* A subscription reads a message and goes on.
Drops(c) == /\ Reading(c)
            /\ inbox' = [inbox EXCEPT ![c] = Tail(@)]
            /\ UNCHANGED <<nextReq, asked, awaiting, broken, told>>

\* The request returns what was heard.
Returns(c) ==
    /\ Reading(c) /\ IsMyAnswer(c)
    /\ inbox' = [inbox EXCEPT ![c] = Tail(@)]
    /\ awaiting' = [awaiting EXCEPT ![c] = Idle]
    /\ UNCHANGED <<nextReq, asked, broken, told>>

\* Mutant: there is no timeout.
MayRaiseUntimed(c, why) ==
    \/ why = "error" /\ Reading(c) /\ IsError(c)
    \/ why = "failure" /\ awaiting[c] # Idle /\ c \in broken /\ inbox[c] = <<>>

\* An error is raised before it is looked at whose it is; messages that have
\* arrived are read before the end of the connection is; and the timeout may
\* come before anything else.  It covers the wait for the answer, not the
\* sending of the request, which is taken to complete or to raise.  A message
\* that cannot be decoded is one of the failures.
MayRaise(c, why) ==
    \/ why = "error" /\ Reading(c) /\ IsError(c)
    \/ why = "failure" /\ awaiting[c] # Idle /\ (c \in broken => inbox[c] = <<>>)

Raises(c, why) ==
    /\ MayRaise(c, why)
    /\ inbox' = [inbox EXCEPT ![c] = IF why = "error" THEN Tail(@) ELSE @]
    /\ awaiting' = [awaiting EXCEPT ![c] = Idle]
    /\ UNCHANGED <<nextReq, asked, broken, told>>

-----------------------------------------------------------------------------
\* The broker answers a request, or refuses it.
Replies(q, kind, value) ==
    /\ q \in asked
    /\ asked' = asked \ {q}
    /\ inbox' = [inbox EXCEPT ![q.client] =
                   Append(@, [req |-> q.req, kind |-> kind, value |-> value])]
    /\ told' = told \cup {[client |-> q.client, question |-> q.question,
                           kind |-> kind, value |-> value]}
    /\ UNCHANGED <<nextReq, awaiting, broken>>

\* What is sent on a subscription leaves it open.
Sends(q, kind, value) ==
    /\ q \in asked
    /\ inbox' = [inbox EXCEPT ![q.client] =
                   Append(@, [req |-> q.req, kind |-> kind, value |-> value])]
    /\ UNCHANGED <<nextReq, asked, awaiting, broken, told>>

Closes(c) == /\ c \notin broken
             /\ broken' = broken \cup {c}
             /\ asked' = {q \in asked : q.client # c}
             /\ UNCHANGED <<nextReq, inbox, awaiting, told>>
=============================================================================
