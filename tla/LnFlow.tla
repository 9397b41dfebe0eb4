-------------------------------- MODULE LnFlow --------------------------------
(*****************************************************************************)
(* What moves a Lightning trade, whoever moves it: the order's row, its hold *)
(* invoices, and the pieces every transaction on them is made of             *)
(* (daemon/src/ln/flow.ts, store.ts, hold/index.ts).  One trade.             *)
(*****************************************************************************)
EXTENDS LnOutcomes, Naturals, Sequences, FiniteSets

CONSTANTS
  Sponsors,    \* people who may claim
  MaxHolds,    \* bound: hold invoices planned in the trade's life
  MaxCrashes,  \* bound: crashes of the daemon
  MinLife,     \* bound: the escrow HTLC's life does not fall below this
  Deposits,    \* settings: whose depositPct is above 0 ("customer", "sponsor")
  Failing      \* what may fail at LND for longer than a tick: the "reads" of poll and clock,
               \* the "effects", the "answers" of calls that worked

ASSUME LnTradeAssumption == /\ "customer" \notin Sponsors /\ "none" \notin Sponsors
                            /\ MaxHolds \in Nat /\ MaxCrashes \in Nat /\ MinLife \in 0..4
                            /\ Deposits \subseteq {"customer", "sponsor"}
                            /\ Failing \subseteq {"reads", "effects", "answers"}

VARIABLES
  order,      \* the row of ln_drafts or ln_orders
  holds,      \* ln_invoices with their effects and the node's copies, oldest first
  pc,         \* where the tick is
  todo,       \* holds the poll or the close run still has to visit
  phase,      \* how far the deadline is along, see Phases
  invoiceDue, \* has ln_orders.invoice_deadline passed?
  life,       \* what the escrow HTLC has left, see Lives
  seenLife,   \* life at the last block height the watcher stored
  heightOk,   \* did this tick's blockHeight() answer?
  warm,       \* is CATCHUP_WARMUP_SEC over?
  crashes,    \* how often the daemon has died so far
  remit,      \* the sponsor's remit-request on its way
  alerts      \* history: the anomaly alerts raised

time == <<phase, invoiceDue, life, warm, crashes>>
vars == <<order, holds, pc, todo, phase, invoiceDue, life, seenLife, heightOk, warm, crashes,
          remit, alerts>>

-------------------------------------------------------------------------------
(* State                                                                    *)

Party == Sponsors \cup {"customer"}
Maybe(S) == S \cup {"none"}

\* 0: claims are taken; 1: less than MIN_CLAIM_LEAD_SEC is left; 2: the deadline is past;
\* 3: the grace is over too.
Phases == 0..3

\* Blocks the HTLC has left: 4 at least INVOICE_ESCROW_MIN_BLOCKS, 2 at most
\* ESCROW_END_BLOCKS, 1 at most SAFETY_SETTLE_BLOCKS, 0 within LND's own holdexpirydelta.
Lives == 0..4
INVOICE_ESCROW_MIN == 4
ESCROW_END == 2
SAFETY_SETTLE_late == 0     \* fault: no margin over LND's own cancellation
SAFETY_SETTLE == 1

HoldRow == [purpose : {"customer", "sponsor", "escrow"}, party : Party,
            status : {"creating", "open", "accepted", "settled", "cancelled"},
            node : {"absent", "open", "accepted", "settled", "cancelled"},
            creating : BOOLEAN,                     \* hold.create pending
            disposing : Maybe({"settle", "cancel"}), \* action of the pending hold.dispose
            due : BOOLEAN,                           \* has pay_by passed before it was seen paid?
            paid : BOOLEAN]                          \* history: was this escrow ever accepted?

OrderRow == [state : OrderState \cup {"none", "draft"},
             sponsor : Maybe(Sponsors), designated : Maybe(Sponsors),
             pendingClose : Maybe(LnCloseReason), closeReason : Maybe(LnCloseReason),
             escrow : 0..MaxHolds, sponsorDeposit : 0..MaxHolds,   \* 0 is NULL
             accountSent : BOOLEAN]

Alert == {"refund-manually", "unexpected-settle", "escrow-timed-out", "settle-missed",
          "close-failed"}

TypeOK == /\ order \in OrderRow
          /\ holds \in Seq(HoldRow) /\ Len(holds) <= MaxHolds
          /\ pc \in {"dispatch", "poll", "claims", "verified", "expiry", "effects", "closing"}
          /\ todo \subseteq DOMAIN holds
          /\ phase \in Phases /\ life \in Lives /\ seenLife \in Lives
          /\ invoiceDue \in BOOLEAN /\ heightOk \in BOOLEAN /\ warm \in BOOLEAN
          /\ crashes \in 0..MaxCrashes
          /\ remit \in {"none", "in-time", "too-late", "taken", "refused", "ignored",
                       "escalated"}
          /\ alerts \subseteq Alert

Init == /\ order = [state |-> "none", sponsor |-> "none", designated |-> "none",
                    pendingClose |-> "none", closeReason |-> "none", escrow |-> 0,
                    sponsorDeposit |-> 0, accountSent |-> FALSE]
        /\ holds = <<>>
        /\ pc = "dispatch" /\ todo = {}
        /\ phase = 0 /\ invoiceDue = FALSE
        /\ life = 4 /\ seenLife = 4 /\ heightOk = TRUE
        /\ warm = TRUE /\ crashes = 0
        /\ remit = "none"
        /\ alerts = {}

\* The row's new status; once it is not waited for any more, pay_by means nothing.
Became(inv, status) == [inv EXCEPT !.status = status,
                                   !.due = @ /\ status \in {"creating", "open"}]

LiveHold(inv) == inv.status \in {"creating", "open", "accepted"}

\* holds.current: this person's newest invoice that is not cancelled; 0 if there is none.
current(purpose, party) ==
  LET Of == {h \in DOMAIN holds : /\ holds[h].purpose = purpose /\ holds[h].party = party
                                  /\ holds[h].status # "cancelled"}
  IN  IF Of = {} THEN 0 ELSE CHOOSE h \in Of : \A g \in Of : g <= h

-------------------------------------------------------------------------------
(* What the transactions are made of.  hs and o are the holds and the order *)
(* as the transaction has left them so far.                                 *)

Planned(hs, purpose, party) ==
  Append(hs, [purpose |-> purpose, party |-> party, status |-> "creating", node |-> "absent",
              creating |-> TRUE, disposing |-> "none", due |-> FALSE, paid |-> FALSE])

CanPlan(hs) == Len(hs) < MaxHolds

\* holds.dispose of each of H; the dedup key drops it where one is pending already.
Disposed(hs, H, action) ==
  [h \in DOMAIN hs |-> IF h \in H /\ hs[h].disposing = "none"
                       THEN [hs[h] EXCEPT !.disposing = action] ELSE hs[h]]

\* claim and beginClose ask the table first; no write to the row does (updateOrder).
MovesTo(o, state) == canTransition(o.state, state)

\* beginClose: TRUE when it does close, with the row it leaves.
MayClose(o) == o.pendingClose = "none" /\ o.state \in OrderState \ Terminal
Closing(o, reason) == [o EXCEPT !.pendingClose = reason]
beginClose(reason) == /\ MayClose(order)
                      /\ MovesTo(order, CLOSE_RULES[reason].terminal)
                      /\ order' = Closing(order, reason)

\* revertClaim: every live escrow and the claimant's live deposits go back.
\* (Fault: only the escrow does.)
Reverted_keepsDeposit(hs, o) ==
  Disposed(hs, {h \in DOMAIN hs : LiveHold(hs[h]) /\ hs[h].purpose = "escrow"}, "cancel")
Reverted(hs, o) ==
  Disposed(hs, {h \in DOMAIN hs : /\ LiveHold(hs[h])
                                  /\ \/ hs[h].purpose = "escrow"
                                     \/ hs[h].purpose = "sponsor" /\ hs[h].party = o.sponsor},
           "cancel")
Unclaimed(o) == [o EXCEPT !.state = "requested", !.sponsor = "none", !.escrow = 0,
                          !.sponsorDeposit = 0]

sponsorDepositRequired == order.designated = "none" /\ "sponsor" \in Deposits

approveBlocked == \/ order.state # "claimed" \/ order.sponsor = "none"
                  \/ order.pendingClose # "none"
                  \/ order.escrow # 0
                  \/ sponsorDepositRequired /\ order.sponsorDeposit = 0
                  \/ phase >= 2         \* too-late; in phase 1 it may be either

approve == /\ ~ approveBlocked
           /\ CanPlan(holds)
           /\ holds' = Planned(holds, "escrow", "customer")
           /\ order' = [order EXCEPT !.escrow = Len(holds')]

\* planCustomerDeposit: no price yet, too near the deadline to pay, or planned.
planCustomerDeposit(draft) ==
  \/ order' = draft /\ UNCHANGED holds
  \/ order' = [draft EXCEPT !.state = "none"] /\ UNCHANGED holds
  \/ /\ order' = draft /\ phase = 0 /\ CanPlan(holds)
     /\ holds' = Planned(holds, "customer", "customer")

planSponsorDeposit(sponsor) ==
  \/ UNCHANGED holds
  \/ CanPlan(holds) /\ holds' = Planned(holds, "sponsor", sponsor)

EffectsPending == \/ order.pendingClose # "none"
                  \/ \E h \in DOMAIN holds : holds[h].creating \/ holds[h].disposing # "none"

-------------------------------------------------------------------------------
(* The hooks: what follows when a hold invoice changed.                     *)

overdue == expiryReasonFor(order.state, order.sponsor # "none", order.accountSent)

\* hooks.accepted: the money came in; give it back when nobody waits for it any more.
accepted(h, hs) ==
  LET inv == hs[h] IN
  \/ /\ inv.purpose = "customer"
     /\ IF order.state = "draft"
        THEN order' = [order EXCEPT !.state = "requested"] /\ holds' = hs
        ELSE holds' = Disposed(hs, {h}, "cancel") /\ UNCHANGED order
  \/ /\ inv.purpose = "sponsor"
     /\ IF order.state = "claimed" /\ order.sponsor = inv.party /\ order.pendingClose = "none"
        THEN order' = [order EXCEPT !.sponsorDeposit = h] /\ holds' = hs
        ELSE holds' = Disposed(hs, {h}, "cancel") /\ UNCHANGED order
  \/ /\ inv.purpose = "escrow"
     /\ IF order.escrow # h
        THEN holds' = Disposed(hs, {h}, "cancel") /\ UNCHANGED order
        ELSE /\ order' = IF order.state = "verified" /\ order.pendingClose = "none"
                         THEN [order EXCEPT !.state = "escrowed"] ELSE order
             /\ holds' = hs

\* hooks.nodeCancelled, given the row as it was and the order not closing.
nodeCancelled(h, hs) ==
  LET before == holds[h] IN
  \/ /\ before.purpose = "customer"
     /\ order' = IF order.state = "draft" THEN [order EXCEPT !.state = "none"] ELSE order
     /\ holds' = hs /\ UNCHANGED alerts
  \/ /\ before.purpose = "sponsor"
     /\ IF order.state = "claimed" /\ order.sponsor = before.party /\ order.sponsorDeposit = 0
        THEN holds' = Reverted(hs, order) /\ order' = Unclaimed(order)
        ELSE holds' = hs /\ UNCHANGED order
     /\ UNCHANGED alerts
  \/ /\ before.purpose = "escrow"
     /\ holds' = hs
     /\ IF order.escrow = h /\ order.state = "verified"
        THEN beginClose("cancel:unpaid-escrow") ELSE
        IF order.escrow = h /\ before.status = "accepted" /\ overdue # "none"
        THEN beginClose(overdue) ELSE UNCHANGED order
     /\ alerts' = IF order.escrow = h /\ order.state # "verified" /\ before.status = "accepted"
                  THEN alerts \cup {"escrow-timed-out"} ELSE alerts

\* Is the invoice that has just been made still waited for?  (hooks.created)
Wanted(inv, h) ==
  CASE inv.purpose = "customer" -> order.state = "draft"
    [] inv.purpose = "sponsor"  -> /\ order.state = "claimed" /\ order.sponsor = inv.party
                                   /\ order.pendingClose = "none"
    [] OTHER                    -> /\ order.state = "claimed" /\ order.escrow = h
                                   /\ order.pendingClose = "none"

created(h, hs) ==
  IF Wanted(hs[h], h)
  THEN /\ holds' = hs
       /\ order' = IF hs[h].purpose = "escrow" THEN [order EXCEPT !.state = "verified"] ELSE order
  ELSE holds' = Disposed(hs, {h}, "cancel") /\ UNCHANGED order

createFailed(h, hs) ==
  LET inv == hs[h] IN
  CASE inv.purpose = "customer" ->
         /\ order' = IF order.state = "draft" THEN [order EXCEPT !.state = "none"] ELSE order
         /\ holds' = hs
    [] inv.purpose = "sponsor" ->
         IF order.state = "claimed" /\ order.sponsor = inv.party /\ order.pendingClose = "none"
         THEN holds' = Reverted(hs, order) /\ order' = Unclaimed(order)
         ELSE holds' = hs /\ UNCHANGED order
    [] inv.purpose = "escrow" ->
         /\ order' = IF order.state = "claimed" /\ order.escrow = h
                     THEN [order EXCEPT !.escrow = 0] ELSE order
         /\ holds' = hs
===============================================================================
