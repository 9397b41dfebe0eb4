------------------------------ MODULE LnEffects -------------------------------
(*****************************************************************************)
(* The tick's last stage: the effects of the trade, hold.create and          *)
(* hold.dispose (hold/index.ts) and ln.close (ln/effects.ts, ln/flow.ts), in *)
(* any order, since each has a backoff of its own.                           *)
(*                                                                           *)
(* The inner steps of hold.create and hold.dispose are HoldInvoice's: here   *)
(* each run of one is a single step that may lose its answer.                *)
(*****************************************************************************)
EXTENDS LnFlow

InEffects == pc = "effects" /\ UNCHANGED <<todo, time, seenLife, heightOk, remit>>

\* The process dies; the database and the node stay.
Dies == /\ crashes < MaxCrashes /\ crashes' = crashes + 1
        /\ pc' = "dispatch" /\ todo' = {} /\ warm' = FALSE
        /\ UNCHANGED <<phase, invoiceDue, life, seenLife, heightOk, remit>>

\* The node has done what it was asked and the answer is lost: the process died, or, in an
\* outage, the call broke off.  The effect will run again.
AnswerLost == /\ pc = "effects" /\ UNCHANGED <<order, alerts>>
              /\ Dies \/ ("answers" \in Failing /\ InEffects /\ UNCHANGED pc)

\* What settleOrCancel leaves at the node, and what it reports of it.
settleOrCancel(inv, want) ==
  CASE inv.node \in {"absent", "settled", "cancelled"} -> inv.node
    [] want = "settle" /\ inv.node = "accepted"        -> "settled"
    [] OTHER                                           -> "cancelled"
FinalOf_absentToo(node) == node      \* fault: "never made" is not taken for cancelled
FinalOf(node) == IF node = "settled" THEN "settled" ELSE "cancelled"

HoldCreate(h) ==
  LET inv == holds[h]
      After(node, status) == [holds EXCEPT ![h] = [Became(inv, status) EXCEPT
                                !.node = node, !.creating = FALSE]] IN
  /\ InEffects /\ inv.creating
  /\ \/ /\ inv.status # "creating"
        /\ holds' = After(settleOrCancel(inv, "cancel"), inv.status) /\ UNCHANGED order
     \/ /\ inv.status = "creating" /\ inv.node = "absent" /\ inv.due
        /\ createFailed(h, After("absent", "cancelled"))
     \/ /\ inv.status = "creating" /\ inv.node = "absent" /\ ~ inv.due
        /\ created(h, After("open", "open"))
     \/ /\ inv.status = "creating" /\ inv.node # "absent"
        /\ created(h, After(inv.node, "open"))
  /\ UNCHANGED <<pc, alerts>>

HoldCreateLost(h) == /\ AnswerLost /\ holds[h].creating
                     /\ holds[h].status = "creating" /\ holds[h].node = "absent" /\ ~ holds[h].due
                     /\ holds' = [holds EXCEPT ![h].node = "open"]

\* hooks.disposed: the safety settle came too late.  (Fault: nobody is told.)
SettleMissed_silent(inv, final) == FALSE
SettleMissed(inv, final) ==
  inv.disposing = "settle" /\ final = "cancelled" /\ inv.status # final

HoldDispose(h) ==
  LET inv == holds[h]
      node == settleOrCancel(inv, inv.disposing)
      final == FinalOf(node) IN
  /\ InEffects /\ inv.disposing # "none"
  /\ holds' = [holds EXCEPT ![h] = [Became(inv, final) EXCEPT !.node = node,
                                                              !.disposing = "none"]]
  /\ alerts' = IF SettleMissed(inv, final) THEN alerts \cup {"settle-missed"} ELSE alerts
  /\ UNCHANGED <<order, pc>>

HoldDisposeLost(h) == /\ AnswerLost /\ holds[h].disposing # "none"
                      /\ holds' = [holds EXCEPT ![h].node =
                                     settleOrCancel(holds[h], holds[h].disposing)]

-------------------------------------------------------------------------------
(* ln.close: escrow first, then every other live invoice, then the books.   *)

InClosing == pc = "closing" /\ UNCHANGED <<time, seenLife, heightOk, remit>>

\* (Fault: an invoice nobody has paid yet is left open.)
CloseSet_paidOnly == {h \in DOMAIN holds : holds[h].status = "accepted"}
                     \cup ({order.escrow} \ {0})
CloseSet == {h \in DOMAIN holds : LiveHold(holds[h])}
            \cup ({order.escrow} \ {0})

CloseStart == /\ pc = "effects"
              /\ order.pendingClose # "none"
              /\ pc' = "closing" /\ todo' = CloseSet
              /\ UNCHANGED <<order, holds, time, seenLife, heightOk, remit, alerts>>

rule == CLOSE_RULES[order.pendingClose]

\* A sponsor's deposit is judged only if the sponsor is still the trade's.
Judged(h) == holds[h].purpose = "sponsor" /\ holds[h].party = order.sponsor

\* What the rule wants of an invoice; an escrow that is no longer the order's goes back.
wanted(h) ==
  LET Take == \/ h = order.escrow /\ rule.escrow = "settle"
              \/ holds[h].purpose = "customer" /\ rule.customerDeposit = "forfeit"
              \/ Judged(h) /\ rule.sponsorDeposit = "forfeit"
  IN  IF Take THEN "settle" ELSE "cancel"

\* A payout reason without an escrow to take: nothing is paid that was not received.
\* (Fault: the node's state is not looked at.)
NotReceivable_unseen == rule.escrow = "settle" /\ order.escrow = 0
NotReceivable == /\ rule.escrow = "settle"
                 /\ \/ order.escrow = 0
                    \/ /\ order.escrow \in todo
                       /\ holds[order.escrow].node \notin {"accepted", "settled"}

CloseHold(h) == /\ InClosing
                /\ h \in todo /\ ~ NotReceivable
                /\ IF order.escrow \in todo THEN h = order.escrow ELSE \A g \in todo : h <= g
                /\ holds' = [holds EXCEPT ![h].node = settleOrCancel(holds[h], wanted(h))]
                /\ todo' = todo \ {h}
                /\ UNCHANGED <<order, pc, alerts>>

\* abandonClose: the trade is as it was, and a person is called.
CloseAbandoned == /\ InClosing /\ NotReceivable
                  /\ order' = [order EXCEPT !.pendingClose = "none"]
                  /\ alerts' = alerts \cup {"close-failed"}
                  /\ pc' = "effects" /\ todo' = {}
                  /\ UNCHANGED holds

Closed(o) == [o EXCEPT !.state = rule.terminal, !.closeReason = o.pendingClose,
                       !.pendingClose = "none"]

\* The escrow was settled before the ruling went to the customer.
RefundByHand(final) == rule.escrow = "cancel" /\ final = "settled"

\* finishClose: the invoices' results, the terminal state and the reason, at once.  It does
\* not look at the state the trade is in by now.
CloseFinished ==
  LET escrowFinal == IF order.escrow = 0 THEN "none" ELSE FinalOf(holds[order.escrow].node) IN
  /\ InClosing /\ todo = {} /\ ~ NotReceivable
  /\ holds' = [h \in DOMAIN holds |-> IF h \in CloseSet
                 THEN Became(holds[h], FinalOf(holds[h].node)) ELSE holds[h]]
  /\ order' = Closed(order)
  /\ alerts' = IF RefundByHand(escrowFinal) THEN alerts \cup {"refund-manually"} ELSE alerts
  /\ pc' = "effects" /\ UNCHANGED todo

\* One of the node calls throws: the effect will run again, from its start.
CloseInterrupted == /\ InClosing /\ "effects" \in Failing /\ pc' = "effects" /\ todo' = {}
                    /\ UNCHANGED <<order, holds, alerts>>

\* Effects that fail wait for their backoff; without an outage all are done by now.
EndTick == /\ InEffects /\ pc' = "dispatch"
           /\ "effects" \in Failing \/ ~ EffectsPending
           /\ UNCHANGED <<order, holds, alerts>>
===============================================================================
