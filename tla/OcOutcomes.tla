------------------------------ MODULE OcOutcomes ------------------------------
(***************************************************************************)
(* The pure tables of the on-chain track (shared/src/onchain/              *)
(* state-machine.ts): the order's state machine, what each outcome does    *)
(* with the two bonds, and who may sign what when.                         *)
(***************************************************************************)

OcState == {"listed", "bonded", "funded", "presigned", "remitted", "disputed", "refunding",
            "settling", "released", "refunded", "sponsor_wins", "customer_wins", "cancelled",
            "swept"}

ONCHAIN_TRANSITIONS == [s \in OcState |->
  CASE s = "listed"    -> {"bonded", "cancelled"}
    [] s = "bonded"    -> {"funded", "refunding", "cancelled"}
    [] s = "funded"    -> {"presigned", "refunding", "bonded", "swept"}
    [] s = "presigned" -> {"remitted", "refunding", "settling", "bonded", "swept"}
    [] s = "remitted"  -> {"settling", "disputed", "swept"}
    [] s \in {"disputed", "refunding"} -> {"settling", "swept"}
    [] s = "settling"  -> {"released", "refunded", "sponsor_wins", "customer_wins", "swept"}
    [] OTHER           -> {}]

OcTerminal == {s \in OcState : ONCHAIN_TRANSITIONS[s] = {}}

RefundKind == {"refund:reserve", "refund:sponsor-timeout", "refund:customer-late",
               "refund:bond-expired", "refund:account-disputed"}
SettlementKind == RefundKind \cup {"release", "sponsor_win", "customer_win"}
Outcome == SettlementKind \cup {"cancel:customer", "cancel:expired", "cancel:no-funding", "swept"}

\* Rules that leave the sponsor's bond, or both, alone.
SponsorBondLeft == {"refund:bond-expired", "refund:account-disputed", "cancel:customer",
                    "cancel:expired", "swept"}
BothBondsLeft == {"refund:account-disputed", "swept"}

\* "leave" is the source's expired, none and hold: all three touch nothing.
OUTCOME_RULES == [outcome \in Outcome |->
  [terminal |->
     CASE outcome = "release"      -> "released"
       [] outcome \in RefundKind   -> "refunded"
       [] outcome = "sponsor_win"  -> "sponsor_wins"
       [] outcome = "customer_win" -> "customer_wins"
       [] outcome = "swept"        -> "swept"
       [] OTHER                    -> "cancelled",
   sponsorBond |->
     CASE outcome \in {"refund:sponsor-timeout", "customer_win"} -> "forfeit"
       [] outcome \in SponsorBondLeft -> "leave"
       [] OTHER -> "refund",
   customerBond |->
     CASE outcome \in {"refund:customer-late", "sponsor_win", "cancel:no-funding"} -> "forfeit"
       [] outcome \in BothBondsLeft -> "leave"
       [] OTHER -> "refund"]]

\* The transactions that can take a funding, and the leaf each of them uses: a rescue is a
\* refund of money the trade did not agree on.
Tx == {"release", "refund", "sponsor", "rescue", "timelock"}
LeafOf(tx) == CASE tx \in {"refund", "rescue"} -> "customer-win"
                [] tx = "sponsor"              -> "sponsor-win"
                [] OTHER                       -> tx

\* The transaction that carries out a kind; it names the purpose of its signature as well.
TxFor(kind) == CASE kind = "release"     -> "release"
                 [] kind = "sponsor_win" -> "sponsor"
                 [] OTHER                -> "refund"

\* May a signature for this transaction be taken now?  (Fault: in a dispute, without a ruling.)
canActOnSignRequest_unruled(state, tx, kind) ==
  CASE tx = "release" -> state \in {"remitted", "disputed"}
    [] tx = "refund"  -> state \in {"refunding", "disputed"}
    [] OTHER          -> tx = "sponsor" /\ state = "disputed"
canActOnSignRequest(state, tx, kind) ==
  CASE tx = "release" -> state \in {"remitted", "disputed"}
    [] tx = "refund"  -> \/ state = "refunding"
                         \/ state = "disputed" /\ kind = "customer_win"
    [] tx = "sponsor" -> state = "disputed" /\ kind = "sponsor_win"
    [] OTHER          -> FALSE
===============================================================================
