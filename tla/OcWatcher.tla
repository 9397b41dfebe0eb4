------------------------------ MODULE OcWatcher -------------------------------
(*****************************************************************************)
(* The watcher of the chain (onchain/watcher.ts, decide.ts, funding.ts), the *)
(* poll of the bonds' hold invoices, and the effects.                        *)
(*                                                                           *)
(* The watcher asks the chain first and decides in one transaction after,    *)
(* only if the row has not changed (its version).  Deciding reads nothing    *)
(* but answers, row and clock, so the two are one action here.               *)
(*****************************************************************************)
EXTENDS OcRequests

-------------------------------------------------------------------------------
(* What the chain says.  known: did it answer?                              *)

Confirmed == {u \in Utxos : coins[u].at \in {"shallow", "deep"} /\ coins[u].by = "none"}

\* (Fault: a chain that does not answer has no money at the address.)
judgeFunding_unknownIsNone(known) ==
  LET found == IF known THEN Confirmed ELSE {} IN
  CASE found = {} -> "none"
    [] Cardinality(found) > 1 \/ (\E u \in found : coins[u].value = "wrong") -> "anomaly"
    [] \E u \in found : coins[u].at = "shallow" -> "confirming"
    [] OTHER -> "funded"
judgeFunding(known) ==
  CASE ~ known -> "unknown"
    [] Confirmed = {} -> "none"          \* the source's pending is treated the same
    [] Cardinality(Confirmed) > 1 \/ (\E u \in Confirmed : coins[u].value = "wrong") -> "anomaly"
    [] \E u \in Confirmed : coins[u].at = "shallow" -> "confirming"
    [] OTHER -> "funded"

\* An output that somebody spends is not in the list of outputs any more, even while the
\* spend is unconfirmed.
PinnedFacts(known) ==
  LET coin == coins[order.pinned] IN
  CASE ~ known -> "unknown"
    [] coin.by # "none" -> "spent"
    [] coin.at = "deep" -> "alive"
    [] coin.at = "none" -> "gone"
    [] OTHER -> "shallow"

sponsorBondAlive == order.designated # "none"
                    \/ bonds[order.sponsor] \in {"held", "taking", "returning"}

-------------------------------------------------------------------------------
(* decideOnchainAction: what to do, and for which outcome.                  *)

Idle == [do |-> "idle", kind |-> "none"]
Do(what) == [do |-> what, kind |-> "none"]
Kind(what, kind) == [do |-> what, kind |-> kind]

\* price: not fresh, below the customer's reserve, or neither.
decideBonded(known, price) ==
  LET judged == judgeFunding(known) IN
  CASE judged = "anomaly" -> Do("anomaly")
    [] judged = "none" /\ due -> Kind("cancel", "cancel:no-funding")
    [] judged = "funded" /\ ~ sponsorBondAlive -> Kind("fold", "refund:bond-expired")
    [] judged = "funded" /\ sponsorBondAlive /\ price = "below" -> Kind("fold", "refund:reserve")
    [] judged = "funded" /\ sponsorBondAlive /\ price = "fine" -> Do("fund")
    [] OTHER -> Idle

\* requiredConfirmations.  (Fault: a spend that is seen counts.)
SpendIsFinal_seen == TRUE
SpendIsFinal == coins[order.pinned].final

decideSettling(known) ==
  LET facts == PinnedFacts(known)
      by == coins[order.pinned].by IN
  CASE facts = "spent" /\ by # order.tx -> Do("observe-spend")
    [] known /\ by = order.tx /\ SpendIsFinal -> Do("confirmed")
    [] known /\ by = "none" -> IF meta.outbox = order.tx THEN Do("rebroadcast") ELSE Do("anomaly")
    [] OTHER -> Idle

Overdue == CASE order.state = "funded" -> Kind("settle", "refund:sponsor-timeout")
             [] order.state = "presigned" /\ ~ order.accountSent -> Kind("settle", "refund:customer-late")
             [] order.state = "presigned" /\ order.accountDisputed -> Kind("settle", "refund:account-disputed")
             [] order.state = "presigned" -> Kind("settle", "refund:sponsor-timeout")
             [] order.state = "remitted" -> Do("dispute")
             [] OTHER -> Idle

decidePinned(known) ==
  LET facts == PinnedFacts(known) IN
  CASE facts = "spent" -> Do("observe-spend")
    [] facts \in {"shallow", "gone"} /\ order.state \in {"funded", "presigned"} -> Do("reorg")
    [] facts = "gone" /\ order.state \notin {"funded", "presigned"} -> Do("anomaly")
    [] facts = "alive" /\ due -> Overdue
    [] OTHER -> Idle

decideOnchainAction(known, price) ==
  CASE order.state = "listed" -> IF due THEN Kind("cancel", "cancel:expired") ELSE Idle
    [] order.state = "bonded" -> decideBonded(known, price)
    [] order.state = "settling" -> decideSettling(known)
    [] OTHER -> decidePinned(known)

-------------------------------------------------------------------------------
(* execute: each does what has been decided.                                *)

cancel(kind) == /\ MovesTo([order EXCEPT !.state = "cancelled"])
                /\ bonds' = Dropped(Judged(order, kind)) /\ verdict' = Verdict(kind)
                /\ UNCHANGED <<outgoing, alerts>>

fund == /\ \E u \in Confirmed : MovesTo([order EXCEPT !.state = "funded", !.pinned = u])
        /\ Judging /\ UNCHANGED <<outgoing, alerts>>

fold(kind) == /\ \E u \in Confirmed : DecideRefund(kind, u)
              /\ UNCHANGED <<outgoing, alerts>>

settle(kind) == DecideRefund(kind, order.pinned) /\ UNCHANGED <<outgoing, alerts>>

\* The price that was fixed is given up, and what was built on it.
Unfunded == [order EXCEPT !.state = "bonded", !.pinned = "none", !.accountSent = FALSE,
                          !.accountDisputed = FALSE]
reorg == MovesTo(Unfunded) /\ Judging /\ UNCHANGED <<outgoing, alerts>>

dispute == /\ MovesTo([order EXCEPT !.state = "disputed"])
           /\ Judging /\ UNCHANGED <<outgoing, alerts>>

confirmed == /\ MovesTo([order EXCEPT !.state = OUTCOME_RULES[order.kind].terminal])
             /\ applyOutcome(order, order.kind)
             /\ UNCHANGED <<outgoing, alerts>>

\* The kind a spend that is not ours is booked as; "none" calls a person.
Adopted == LET leaf == LeafOf(coins[order.pinned].by) IN
           CASE leaf = "release" -> "release"
             [] order.kind # "none" /\ leaf = LeafOf(TxFor(order.kind)) -> order.kind
             [] OTHER -> "none"

observeSpend ==
  LET tx == coins[order.pinned].by IN
  /\ \/ /\ tx = "timelock"
        /\ MovesTo([order EXCEPT !.state = "swept", !.tx = tx])
        /\ applyOutcome(order, "swept") /\ UNCHANGED alerts
     \/ /\ tx # "timelock" /\ Adopted = "none"
        /\ alerts' = alerts \cup {"unknown-spend"}
        /\ UNCHANGED <<order, due>> /\ Judging
     \/ /\ tx # "timelock" /\ Adopted # "none"
        /\ LET booked == [order EXCEPT !.state = "settling", !.kind = Adopted, !.tx = tx]
           IN IF order.state = "settling" THEN Stays(booked) ELSE MovesTo(booked)
        /\ Judging /\ UNCHANGED alerts
  /\ UNCHANGED outgoing

rebroadcast == /\ outgoing' = outgoing \cup {[coin |-> order.pinned, tx |-> meta.outbox]}
               /\ UNCHANGED <<order, due, alerts>> /\ Judging

execute(action) ==
  \/ action.do = "cancel" /\ cancel(action.kind)
  \/ action.do = "fund" /\ fund
  \/ action.do = "fold" /\ fold(action.kind)
  \/ action.do = "settle" /\ settle(action.kind)
  \/ action.do = "reorg" /\ reorg
  \/ action.do = "dispute" /\ dispute
  \/ action.do = "confirmed" /\ confirmed
  \/ action.do = "observe-spend" /\ observeSpend
  \/ action.do = "rebroadcast" /\ rebroadcast
  \/ action.do = "anomaly" /\ UNCHANGED <<trade, outgoing, alerts>>   \* an operator is called

\* Right after a start the clock's decisions wait for the requests that were missed.
CLOCK_ACTIONS == {"cancel", "settle", "dispute"}

\* Money the trade did not agree on, as the row now stands.
strayUtxos(o, action) ==
  IF o.state = "bonded" THEN IF action.do = "anomaly" THEN Confirmed ELSE {}
  ELSE Confirmed \ {o.pinned}

noteStrays(known, action) ==
  IF known /\ order.sponsor # "none" /\ order'.state \notin OcTerminal
  THEN meta' = [meta EXCEPT !.strays = strayUtxos(order', action)]
  ELSE UNCHANGED meta

apply(known, price) ==
  LET action == decideOnchainAction(known, price) IN
  /\ order.state \notin OcTerminal \cup {"none"}
  /\ IF action = Idle \/ (~ warm /\ action.do \in CLOCK_ACTIONS)
     THEN UNCHANGED <<trade, outgoing, alerts>>
     ELSE execute(action)
  /\ noteStrays(known, action)
  /\ UNCHANGED <<lapsed, chain, warm, mail, copies, crashes>>

\* An order that has ended is still looked at, for money that comes late.
watchEnded == /\ order.state \in OcTerminal /\ order.sponsor # "none"
              /\ meta' = [meta EXCEPT !.strays = Confirmed]
              /\ UNCHANGED <<trade, lapsed, chain, outgoing, warm, mail, copies, crashes, alerts>>

-------------------------------------------------------------------------------
(* The bonds: the poll's hooks, and what disposing of them does.            *)

BondsOnly == UNCHANGED <<meta, chain, outgoing, warm, mail, copies, crashes>>

\* accepted: the customer's bond lists the order, the first sponsor's claims it; a bond
\* nobody waits for goes back.  nodeCancelled: a bond that was held is gone.
PollBond(p) ==
  /\ BondsOnly /\ UNCHANGED <<lapsed, alerts>>
  /\ \/ /\ bonds[p] = "paid" /\ p = "customer" /\ order.state = "none"
        /\ Listed("none")
        /\ bonds' = [bonds EXCEPT ![p] = "held"]
     \/ /\ bonds[p] = "paid" /\ p # "customer" /\ order.state = "listed"
        /\ bondOc(p)
        /\ bonds' = Dropped([bonds EXCEPT ![p] = "held"])
     \/ /\ bonds[p] = "paid" /\ order.state # IF p = "customer" THEN "none" ELSE "listed"
        /\ bonds' = [bonds EXCEPT ![p] = "returning"]
        /\ UNCHANGED <<order, due>>
     \/ /\ bonds[p] = "held" /\ p \in lapsed
        /\ bonds' = [bonds EXCEPT ![p] = "returned"]
        /\ UNCHANGED <<order, due>>
  /\ UNCHANGED verdict

DisposeBond(p) ==
  /\ BondsOnly /\ UNCHANGED <<order, due, lapsed, verdict>>
  /\ bonds[p] \in {"taking", "returning"}
  /\ bonds' = [bonds EXCEPT ![p] = IF @ = "taking" /\ p \notin lapsed THEN "taken" ELSE "returned"]
  /\ alerts' = IF bonds[p] = "taking" /\ p \in lapsed THEN alerts \cup {"forfeit-missed"} ELSE alerts

-------------------------------------------------------------------------------
(* oc.broadcast: what is in the ledger goes to the chain.                   *)

rawOf(e) == IF e.tx = "rescue" THEN meta.rescues[e.coin] \in {"signed", "sent"}
            ELSE meta.outbox = e.tx

ChainTakes(e) == coins[e.coin].at # "none" /\ coins[e.coin].by \in {"none", e.tx}

Broadcasting(e) == /\ e \in outgoing /\ outgoing' = outgoing \ {e}
                   /\ UNCHANGED <<trade, lapsed, reorgs, warm, mail, copies, crashes, alerts>>

Broadcast(e) == /\ Broadcasting(e)
                /\ rawOf(e) /\ ChainTakes(e)
                /\ coins' = [coins EXCEPT ![e.coin].by = e.tx]
                /\ meta' = IF e.tx = "rescue" THEN [meta EXCEPT !.rescues[e.coin] = "sent"] ELSE meta

\* No raw transaction, or as many failures as are allowed; until then it stays pending.  An
\* operator is called.
BroadcastDead(e) == /\ Broadcasting(e)
                    /\ ~ rawOf(e) \/ ~ ChainTakes(e) \/ "refused" \in Mishaps
                    /\ UNCHANGED <<coins, meta>>
===============================================================================
