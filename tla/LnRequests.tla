------------------------------ MODULE LnRequests ------------------------------
(*****************************************************************************)
(* The requests of customer and sponsor (ln/handlers.ts) and the operator's  *)
(* commands (ln/commands.ts): the tick's first stage, each one transaction.  *)
(*****************************************************************************)
EXTENDS LnFlow

Handling == /\ pc = "dispatch"
            /\ UNCHANGED <<pc, todo, time, seenLife, heightOk>>

orderRequest == /\ Handling
                /\ order.state = "none" /\ phase = 0
                /\ IF "customer" \in Deposits
                   THEN planCustomerDeposit([order EXCEPT !.state = "draft"])
                   ELSE order' = [order EXCEPT !.state = "requested"] /\ UNCHANGED holds
                /\ UNCHANGED <<remit, alerts>>

designatedOrderRequest(s) ==
  /\ Handling
  /\ order.state = "none" /\ phase = 0
  /\ order' = [order EXCEPT !.state = "requested", !.designated = s]
  /\ UNCHANGED <<holds, remit, alerts>>

claim(s) == /\ Handling
            /\ order.pendingClose = "none"
            /\ order.state \in OrderState /\ MovesTo(order, "claimed")
            /\ order.designated \in {"none", s}
            /\ phase = 0
            /\ order' = [order EXCEPT !.state = "claimed", !.sponsor = s]
            /\ IF sponsorDepositRequired THEN planSponsorDeposit(s) ELSE UNCHANGED holds
            /\ UNCHANGED <<remit, alerts>>

\* The first invoice; it may have been sent in time and come late, so invoiceDue does not count.
sponsorInvoice == /\ Handling
                  /\ order.pendingClose = "none" /\ order.state = "escrowed"
                  /\ seenLife >= INVOICE_ESCROW_MIN
                  /\ order' = [order EXCEPT !.state = "invoiced"]
                  /\ UNCHANGED <<holds, remit, alerts>>

accountInfo == /\ Handling
               /\ order.state \in {"invoiced", "remitted"}
               /\ order' = [order EXCEPT !.accountSent = TRUE]
               /\ UNCHANGED <<holds, remit, alerts>>

\* A request that comes while the trade closes is ignored.  (Fault: it is not.)
closing_unchecked == FALSE
closing == order.pendingClose # "none"

\* lateArrival calls a person when the trade has ended; a closing trade ignores everything.
remitRequest ==
  /\ Handling
  /\ remit \in {"in-time", "too-late"}
  /\ \/ /\ remit = "too-late"
        /\ remit' = "refused" /\ UNCHANGED order
     \/ /\ remit = "in-time" /\ closing
        /\ remit' = "ignored" /\ UNCHANGED order
     \/ /\ remit = "in-time" /\ ~ closing /\ order.state \in Terminal
        /\ remit' = "escalated" /\ UNCHANGED order
     \/ /\ remit = "in-time" /\ ~ closing /\ order.state = "invoiced"
        /\ remit' = "taken" /\ order' = [order EXCEPT !.state = "remitted"]
  /\ UNCHANGED <<holds, alerts>>

paymentConfirm == /\ Handling
                  /\ order.state \in {"invoiced", "remitted"}
                  /\ beginClose("paid")
                  /\ UNCHANGED <<holds, remit, alerts>>

cancelRequest ==
  /\ Handling
  /\ \/ /\ order.state = "draft"
        /\ order' = [order EXCEPT !.state = "none"]
        /\ holds' = Disposed(holds, {current("customer", "customer")}, "cancel")
     \/ order.state = "requested" /\ beginClose("cancel:customer") /\ UNCHANGED holds
     \/ /\ order.state \in {"claimed", "verified"}
        /\ beginClose("cancel:customer-after-claim") /\ UNCHANGED holds
  /\ UNCHANGED <<remit, alerts>>

adminApprove == Handling /\ approve /\ UNCHANGED <<remit, alerts>>

adminRevertClaim == /\ Handling
                    /\ order.state = "claimed" /\ order.pendingClose = "none"
                    /\ holds' = Reverted(holds, order) /\ order' = Unclaimed(order)
                    /\ UNCHANGED <<remit, alerts>>

adminRule == /\ Handling
             /\ order.state = "remitted"
             /\ \E reason \in {"sponsor_wins", "customer_wins"} : beginClose(reason)
             /\ UNCHANGED <<holds, remit, alerts>>

adminForceClose == /\ Handling
                   /\ order.state \in {"escrowed", "invoiced"}
                   /\ beginClose("admin_closed")
                   /\ UNCHANGED <<holds, remit, alerts>>
===============================================================================
