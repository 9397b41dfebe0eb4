------------------------------- MODULE LnTrade --------------------------------
(*****************************************************************************)
(* One Lightning trade, from the request to its end, in the order of the     *)
(* daemon's tick (runtime.ts): requests, poll of the hold invoices, clock,   *)
(* effects.  A transaction is one action; between two of them payers pay, the *)
(* node's timers fire, time passes and the process dies.                     *)
(*****************************************************************************)
EXTENDS LnRequests, LnWatcher, LnEffects

Crash == /\ pc \in {"dispatch", "poll", "effects", "closing"}
         /\ Dies
         /\ UNCHANGED <<order, holds, alerts>>

-------------------------------------------------------------------------------
(* The world.  It does not move inside a transaction; and a payment in the  *)
(* middle of the poll is one before the poll or one after it, for the poll  *)
(* looks every invoice up once.                                             *)

Outside == /\ pc \in {"dispatch", "effects", "closing"}
           /\ UNCHANGED <<order, pc, todo, seenLife, heightOk, alerts>>

PayerPays(h) == /\ Outside
                /\ holds[h].status = "open" /\ holds[h].node = "open" /\ ~ holds[h].due
                /\ holds' = [holds EXCEPT ![h].node = "accepted",
                                          ![h].paid = (holds[h].purpose = "escrow")]
                /\ UNCHANGED <<time, remit>>

\* LND lets an unpaid invoice expire, and gives a held HTLC back close to its own expiry.
NodeGivesUp(h) == /\ Outside
                  /\ \/ holds[h].node = "open" /\ (holds[h].due \/ holds[h].status = "cancelled")
                     \/ holds[h].node = "accepted" /\ life = 0
                  /\ holds' = [holds EXCEPT ![h].node = "cancelled"]
                  /\ UNCHANGED <<time, remit>>

\* The sponsor says he has sent the KRW; what he says after the grace does not count.
SponsorRemits == /\ Outside /\ pc = "dispatch"
                 /\ order.state = "invoiced" /\ remit = "none"
                 /\ remit' = IF phase <= 2 THEN "in-time" ELSE "too-late"
                 /\ UNCHANGED <<holds, time>>

\* Time passes between ticks: a tick is shorter than PAY_BY_SKEW_SEC, so a clock that
\* finds pay_by passed runs after a poll that could no longer miss a payment.
Clockwork == /\ Outside /\ pc = "dispatch" /\ order.state \notin Terminal /\ UNCHANGED remit

Unpaid(inv) == inv.status \in {"creating", "open"}

PayByPasses(h) == /\ Clockwork
                  /\ Unpaid(holds[h]) /\ ~ holds[h].due
                  /\ holds' = [holds EXCEPT ![h].due = TRUE]
                  /\ UNCHANGED time

\* A customer deposit's pay_by is before phase 1, an escrow's before phase 2 (timing.ts).
PhasePasses ==
  LET Before == IF phase = 0 THEN {"customer"} ELSE {"customer", "escrow"} IN
  /\ Clockwork
  /\ phase < 3 /\ order.state # "none"
  /\ phase' = phase + 1
  /\ invoiceDue' = (invoiceDue \/ phase' = 3)
  /\ holds' = [h \in DOMAIN holds |-> IF Unpaid(holds[h]) /\ holds[h].purpose \in Before
                                      THEN [holds[h] EXCEPT !.due = TRUE] ELSE holds[h]]
  /\ UNCHANGED <<life, warm, crashes>>

InvoiceWindowEnds == /\ Clockwork
                     /\ order.state = "escrowed" /\ ~ invoiceDue
                     /\ invoiceDue' = TRUE
                     /\ UNCHANGED <<holds, phase, life, warm, crashes>>

\* Without an outage the daemon sees every stretch of the HTLC's life, and what it then
\* queues is done before the next: the stretches are 36 blocks, hours.
LifeDrops == /\ Clockwork
             /\ \E h \in DOMAIN holds : holds[h].purpose = "escrow" /\ holds[h].node = "accepted"
             /\ life > MinLife
             /\ Failing # {} \/ (seenLife = life /\ ~ EffectsPending)
             /\ life' = life - 1
             /\ UNCHANGED <<holds, phase, invoiceDue, warm, crashes>>

WarmsUp == /\ Clockwork
           /\ ~ warm /\ warm' = TRUE
           /\ UNCHANGED <<holds, phase, invoiceDue, life, crashes>>

-------------------------------------------------------------------------------
Requests == \/ orderRequest \/ \E s \in Sponsors : designatedOrderRequest(s) \/ claim(s)
            \/ sponsorInvoice \/ accountInfo \/ remitRequest \/ paymentConfirm \/ cancelRequest
Commands == adminApprove \/ adminRevertClaim \/ adminRule \/ adminForceClose
Watching == \/ StartTick \/ \E h \in DOMAIN holds : PollNext(h)
            \/ PollLookupFails
            \/ ClockStarts \/ ClockClaims \/ ClockVerified \/ ClockExpiry
Effects == \/ \E h \in DOMAIN holds : \/ HoldCreate(h) \/ HoldCreateLost(h)
                                      \/ HoldDispose(h) \/ HoldDisposeLost(h)
           \/ CloseStart \/ \E h \in DOMAIN holds : CloseHold(h)
           \/ CloseAbandoned \/ CloseFinished \/ CloseInterrupted \/ EndTick
World == \/ \E h \in DOMAIN holds : PayerPays(h) \/ NodeGivesUp(h) \/ PayByPasses(h)
         \/ SponsorRemits \/ PhasePasses \/ InvoiceWindowEnds \/ LifeDrops \/ WarmsUp

Next == Requests \/ Commands \/ Watching \/ Effects \/ Crash \/ World

Spec == Init /\ [][Next]_vars

\* The timer re-arms the tick whatever a tick threw (runtime.ts, schedule), the process is not
\* killed for ever (MaxCrashes), and a close that is retried gets through one call after the
\* other: LND answers in the end.  Nobody outside has to do anything.
FairSpec == /\ Spec
            /\ WF_vars(Watching) /\ WF_vars(EndTick) /\ SF_vars(WarmsUp)
            /\ SF_vars(\E h \in DOMAIN holds : HoldCreate(h) \/ HoldDispose(h))
            /\ SF_vars(CloseStart) /\ SF_vars(CloseFinished \/ CloseAbandoned)
            /\ \A h \in 1..MaxHolds : SF_vars(h \in DOMAIN holds /\ CloseHold(h))

-------------------------------------------------------------------------------
(* Properties                                                               *)

Ended == order.state \in Terminal
Escrow(h) == holds[h].purpose = "escrow"
Reason == IF order.pendingClose # "none" THEN order.pendingClose ELSE order.closeReason

\* The trade only ever makes moves of the state machine (state-machine.ts, TRANSITIONS).  A
\* close asks the table when it begins and ends ticks later without asking again: nothing
\* that is handled in between may have moved the trade on.
OnlyLegalMoves == [][order.state \in OrderState /\ order'.state # order.state =>
                       MovesTo(order, order'.state)]_vars

\* DM-003, I-004: the sponsor is to be paid only from an escrow the node has settled.
PayoutBacked == order.state \in {"paid", "sponsor_wins"} =>
                  order.escrow # 0 /\ holds[order.escrow].node = "settled"

\* I-002: an escrow is settled only to pay the sponsor, or to keep it until a ruling; if the
\* customer wins all the same, an operator is told to refund by hand.
EscrowTakenForCause == \A h \in DOMAIN holds :
  Escrow(h) /\ holds[h].node = "settled" =>
    /\ h = order.escrow
    /\ \/ order.state \in {"remitted", "paid", "sponsor_wins"}
       \/ order.state = "invoiced" /\ order.pendingClose = "paid"
       \/ order.state = "customer_wins" /\ "refund-manually" \in alerts

\* I-003: a deposit is kept only by the rule of the reason the trade is closed for, and a
\* sponsor's only if he is the trade's sponsor; whatever other claims came and went.
ForfeitOnlyByRule == \A h \in DOMAIN holds :
  ~ Escrow(h) /\ holds[h].node = "settled" =>
    /\ Reason # "none"
    /\ IF holds[h].purpose = "customer" THEN CLOSE_RULES[Reason].customerDeposit = "forfeit"
       ELSE /\ CLOSE_RULES[Reason].sponsorDeposit = "forfeit"
            /\ holds[h].party = order.sponsor

\* The tick's order (runtime.ts: "the invoices first: what was paid must come before the
\* clock's judgement"): a customer who paid his escrow in time is never charged with not
\* having paid it.
NoForfeitAfterPaying ==
  order.state \in {"cancelled", "expired"}
    /\ order.closeReason \in {"cancel:unpaid-escrow", "expired:unpaid-escrow"}
    /\ order.escrow # 0
  => ~ holds[order.escrow].paid

\* Money that is held belongs to a trade that still runs, to a disposal, or to a close: no
\* deposit or escrow is held for a claim or a trade that is over.
NoStrayMoney == \A h \in DOMAIN holds :
  holds[h].status = "accepted" /\ holds[h].disposing = "none" =>
    /\ order.state \in OrderState \ Terminal
    /\ CASE Escrow(h) -> h = order.escrow
         [] holds[h].purpose = "sponsor" -> holds[h].party = order.sponsor
         [] OTHER -> TRUE

\* When a trade has ended and its effects are done, nothing is left alive at the node.
NothingLeftHanging == Ended /\ ~ EffectsPending =>
  \A h \in DOMAIN holds : holds[h].node \notin {"open", "accepted"}

\* The daemon never takes its own settle, by a close or by a disposal whose answer was lost,
\* for one that somebody else did (hooks.busy, disposing()).
NoFalseAlarm == "unexpected-settle" \notin alerts

\* The sponsor has said that the KRW is sent: from then on the escrow does not get lost, as
\* long as LND answers and the daemon is up in every stretch of the HTLC's last blocks.
RemittedIsProtected == order.state = "remitted" /\ order.pendingClose # "customer_wins" =>
  holds[order.escrow].node \in {"accepted", "settled"}

\* An escrow lost behind a sponsor who said he has paid has always called an operator.
LossIsReported ==
  order.state = "remitted" /\ order.pendingClose = "none"
    /\ holds[order.escrow].status = "cancelled"
  => alerts \cap {"escrow-timed-out", "settle-missed", "close-failed"} # {}

\* The escrow follows the KRW: it is taken only for a cause, and is there for a sponsor who
\* has reported his remittance.
EscrowFollowsKrw == EscrowTakenForCause /\ RemittedIsProtected

\* Nobody's money is kept but by the rule of the close, or held for a trade that is over.
MoneyByRule == ForfeitOnlyByRule /\ NoStrayMoney

\* A close goes through, or is given to a person, however often it is interrupted; and a
\* trade everybody has abandoned ends on its own after deadline and grace, unless the
\* sponsor claims to have remitted or a close that failed has called a person.
TradeEnds ==
  /\ order.pendingClose # "none" ~> order.pendingClose = "none"
  /\ (phase = 3 /\ order.state \in OrderState) ~>
       (order.state \in Terminal \cup {"remitted"} \/ "close-failed" \in alerts)

-------------------------------------------------------------------------------
(* What does not hold (README.md, "What the code does otherwise").          *)

\* A sponsor who reports his remittance in time is heard: his report moves the trade on,
\* or an operator is told that it came too late (handlers.ts, lateArrival).
RemitIsHeard == remit = "ignored" => Reason = "paid" \/ alerts # {}
===============================================================================
