-------------------------- MODULE MarketDiscovery --------------------------
(***************************************************************************)
(* Market discovery (markets/discovery.py): the symbols are listed, the    *)
(* contracts of each are asked for one after the other on the same         *)
(* connection, and what was found is written to the markets table in one   *)
(* transaction.  A symbol whose contracts cannot be had is registered      *)
(* without any; a list that cannot be had ends the pass.                   *)
(***************************************************************************)
EXTENDS WsConnection

CONSTANTS Discoverer,   \* the client
          Listings,     \* lists of symbols the broker may answer with
          Listable,     \* the symbols in them
          MaxPasses,    \* bound: how many passes are made
          NoMarket      \* the row of a symbol that has none

ASSUME DiscoveryAssumption ==
    Discoverer \in Clients /\ Listings \subseteq Seq(Listable) /\ MaxPasses \in Nat

VARIABLES discovering,  \* "idle", "listing" or "surveying"
          listed,       \* the symbols of this pass, in their order
          entries,      \* the contract types found for the first of them
          markets,      \* SQLite: the markets table
          passes        \* passes begun

discoveryVars == <<discovering, listed, entries, markets, passes>>

DiscoveryInit == /\ discovering = "idle" /\ listed = <<>> /\ entries = <<>>
                 /\ markets = [s \in Listable |-> NoMarket] /\ passes = 0

DiscoveryTypeOK ==
    /\ discovering \in {"idle", "listing", "surveying"}
    /\ listed \in Seq(Listable) /\ Len(entries) <= Len(listed)
    /\ passes \in 0..MaxPasses

-----------------------------------------------------------------------------
StartPass == /\ discovering = "idle" /\ passes < MaxPasses
             /\ passes' = passes + 1 /\ discovering' = "listing"
             /\ Connects(Discoverer)
             /\ UNCHANGED <<listed, entries, markets>>

AskList == /\ discovering = "listing"
           /\ Asks(Discoverer, "active_symbols")
           /\ UNCHANGED discoveryVars

HearList == /\ discovering = "listing"
            /\ Returns(Discoverer) /\ listed' = Heard(Discoverer)
            /\ discovering' = "surveying"
            /\ UNCHANGED <<entries, markets, passes>>

MissList(why) == /\ discovering = "listing"
                 /\ MayRaise(Discoverer, why) /\ Leaves(Discoverer)
                 /\ discovering' = "idle"
                 /\ UNCHANGED <<listed, entries, markets, passes>>

AskContracts == /\ discovering = "surveying" /\ Len(entries) < Len(listed)
                /\ Asks(Discoverer, listed[Len(entries) + 1])
                /\ UNCHANGED discoveryVars

HearContracts == /\ discovering = "surveying"
                 /\ Returns(Discoverer)
                 /\ entries' = Append(entries, Heard(Discoverer))
                 /\ UNCHANGED <<discovering, listed, markets, passes>>

MissContracts(why) == /\ discovering = "surveying"
                      /\ Raises(Discoverer, why)
                      /\ entries' = Append(entries, {})
                      /\ UNCHANGED <<discovering, listed, markets, passes>>

SkipMessage == Skips(Discoverer) /\ UNCHANGED discoveryVars

\* i is where a symbol is listed for the last time.
IsLastOf(s, i) == listed[i] = s /\ \A j \in DOMAIN listed : listed[j] = s => j <= i

\* The connection is left and upsert_registry commits: of the entries of one
\* symbol the last stays, and the rows of symbols that were not listed stay as
\* they are.
Upsert == /\ discovering = "surveying" /\ Len(entries) = Len(listed)
          /\ markets' = [s \in Listable |->
                           IF \E i \in DOMAIN listed : listed[i] = s
                           THEN entries[CHOOSE i \in DOMAIN listed : IsLastOf(s, i)]
                           ELSE markets[s]]
          /\ discovering' = "idle" /\ listed' = <<>> /\ entries' = <<>>
          /\ Leaves(Discoverer)
          /\ UNCHANGED passes

DiscoveryStep ==
    \/ AskList \/ HearList \/ AskContracts \/ HearContracts \/ SkipMessage
    \/ \E why \in {"error", "failure"} : MissList(why) \/ MissContracts(why)
    \/ Upsert

DiscoveryNext == DiscoveryStep \/ StartPass

-----------------------------------------------------------------------------
(***************************************************************************)
(* Properties.                                                             *)
(***************************************************************************)

\* Contracts registered for a symbol are contracts the broker said it offers
\* for that symbol: a late answer about one symbol is never registered for
\* another, over any number of passes.
ContractsBelong ==
    \A s \in Listable : markets[s] \notin {NoMarket, {}} =>
        \E m \in told : /\ m.client = Discoverer /\ m.question = s
                        /\ m.kind = "answer" /\ m.value = markets[s]
=============================================================================
