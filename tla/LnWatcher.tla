------------------------------ MODULE LnWatcher -------------------------------
(*****************************************************************************)
(* The tick's second and third stage: the poll of the hold invoices          *)
(* (hold/index.ts) and the clock (ln/watcher.ts).                            *)
(*****************************************************************************)
EXTENDS LnFlow

StartTick == /\ pc = "dispatch"
             /\ pc' = "poll"
             /\ todo' = {h \in DOMAIN holds : holds[h].status \in {"open", "accepted"}}
             /\ UNCHANGED <<order, holds, time, seenLife, heightOk, remit, alerts>>

\* (Fault: a close in progress is not noticed, hooks.busy.)
PollDefers_notBusy(h) == holds[h].disposing # "none"
PollDefers(h) == holds[h].disposing # "none" \/ order.pendingClose # "none"

observe(h) ==
  LET inv == holds[h]
      Now(status) == [holds EXCEPT ![h] = Became(inv, status)] IN
  \/ (PollDefers(h) \/ inv.node = inv.status) /\ UNCHANGED <<order, holds, alerts>>
  \/ /\ ~ PollDefers(h) /\ inv.node = "accepted" /\ inv.status = "open"
     /\ accepted(h, Now("accepted")) /\ UNCHANGED alerts
  \/ /\ ~ PollDefers(h) /\ inv.node = "settled"
     /\ holds' = Now("settled") /\ alerts' = alerts \cup {"unexpected-settle"}
     /\ UNCHANGED order
  \/ ~ PollDefers(h) /\ inv.node = "cancelled" /\ nodeCancelled(h, Now("cancelled"))

PollNext(h) == /\ pc = "poll" /\ h \in todo /\ \A g \in todo : h <= g
               /\ observe(h)
               /\ todo' = todo \ {h}
               /\ UNCHANGED <<pc, time, seenLife, heightOk, remit>>

\* A lookup that throws is logged, and the poll goes on with the next invoice.
PollLookupFails == /\ pc = "poll" /\ todo # {} /\ "reads" \in Failing
                   /\ \E h \in todo : (\A g \in todo : h <= g) /\ todo' = todo \ {h}
                   /\ UNCHANGED <<order, holds, pc, time, seenLife, heightOk, remit, alerts>>

-------------------------------------------------------------------------------
(* The clock (ln/watcher.ts): one transaction, stage after stage.           *)

\* The poll first.  (Fault: the clock does not wait for it.)
PollIsOver_unordered == pc = "poll"
PollIsOver == pc = "poll" /\ todo = {}

ClockStarts == /\ PollIsOver
               /\ \/ heightOk' = TRUE /\ seenLife' = life
                  \/ "reads" \in Failing /\ heightOk' = FALSE /\ UNCHANGED seenLife
               /\ pc' = "claims" /\ todo' = {}
               /\ UNCHANGED <<order, holds, time, remit, alerts>>

Ticking(at, next) == /\ pc = at /\ pc' = next
                     /\ UNCHANGED <<todo, time, seenLife, heightOk, remit, alerts>>

\* A draft that still waits for its deposit.
ClockDraft == LET dep == current("customer", "customer") IN
  /\ order.state = "draft"
  /\ IF dep = 0
     THEN \/ planCustomerDeposit(order)     \* or given up after CUSTOMER_DEPOSIT_PAY_SEC
     ELSE IF holds[dep].status = "open" /\ holds[dep].due
     THEN /\ order' = [order EXCEPT !.state = "none"]
          /\ holds' = Disposed(holds, {dep}, "cancel")
     ELSE UNCHANGED <<order, holds>>

\* The sponsor's deposit first; then auto-approval, if it is on and there is a price.
ClockClaimed ==
  LET dep == IF order.sponsor = "none" THEN 0 ELSE current("sponsor", order.sponsor)
      unpaid == sponsorDepositRequired /\ order.sponsorDeposit = 0 IN
  /\ order.state = "claimed" /\ order.pendingClose = "none"
  /\ \/ /\ unpaid /\ dep = 0
        /\ planSponsorDeposit(order.sponsor) /\ UNCHANGED order
     \/ /\ unpaid /\ dep # 0 /\ holds[dep].status = "open" /\ holds[dep].due
        /\ holds' = Reverted(holds, order) /\ order' = Unclaimed(order)
     \/ /\ unpaid => dep # 0 /\ ~ (holds[dep].status = "open" /\ holds[dep].due)
        /\ approve \/ UNCHANGED <<order, holds>>

ClockClaims == /\ Ticking("claims", "verified")
               /\ \/ ClockDraft \/ ClockClaimed
                  \/ /\ order.state # "draft"
                     /\ ~ (order.state = "claimed" /\ order.pendingClose = "none")
                     /\ UNCHANGED <<order, holds>>

ClockUnpaidEscrow == /\ order.state = "verified" /\ order.pendingClose = "none"
                     /\ order.escrow # 0
                     /\ holds[order.escrow].status = "open" /\ holds[order.escrow].due

ClockVerified == /\ Ticking("verified", "expiry")
                 /\ IF ClockUnpaidEscrow THEN beginClose("cancel:unpaid-escrow")
                    ELSE UNCHANGED order
                 /\ UNCHANGED holds

\* closeAt: only where KRW may be on its way is there a grace.
pastCloseAt == CASE order.state = "escrowed" -> invoiceDue
                 [] order.state = "invoiced" -> phase = 3
                 [] OTHER                    -> phase >= 2

escrowEnding(blocks) == /\ heightOk /\ order.escrow # 0
                        /\ holds[order.escrow].status \notin {"creating", "open"}
                        /\ seenLife <= blocks

\* The deadline, or blocks that came too fast; a restart waits for the requests it missed.
Expires == /\ order.state \in {"requested", "claimed", "verified", "escrowed", "invoiced"}
           /\ order.pendingClose = "none" /\ overdue # "none"
           /\ (warm /\ pastCloseAt) \/ escrowEnding(ESCROW_END)

\* The sponsor says he has sent the KRW: take the escrow before its HTLC dies.
SafetySettleDue == /\ order.state = "remitted" /\ order.pendingClose = "none"
                   /\ order.escrow # 0 /\ holds[order.escrow].status = "accepted"
                   /\ escrowEnding(SAFETY_SETTLE)

ClockExpiry == /\ Ticking("expiry", "effects")
               /\ \/ Expires /\ beginClose(overdue) /\ UNCHANGED holds
                  \/ /\ SafetySettleDue
                     /\ holds' = Disposed(holds, {order.escrow}, "settle")
                     /\ UNCHANGED order
                  \/ ~ Expires /\ ~ SafetySettleDue /\ UNCHANGED <<order, holds>>
===============================================================================
