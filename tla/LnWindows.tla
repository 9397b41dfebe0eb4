------------------------------ MODULE LnWindows -------------------------------
(*****************************************************************************)
(* The windows of a Lightning trade against each other: daemon/src/ln/       *)
(* timing.ts and every place that uses it.  LnTrade moves through phases and *)
(* takes their order for granted; here they are numbers, and the order of the *)
(* events follows from the inequalities between them, which are the module's *)
(* assumptions.                                                              *)
(*                                                                           *)
(* The unit of time is BLOCK_SEC.  The chain is never slower than one block  *)
(* per unit (a slower chain only lets the HTLCs live longer); it may be      *)
(* faster, by Burst blocks in a unit and by Drift altogether.  The seconds of *)
(* PAY_BY_SKEW_SEC and CATCHUP_WARMUP_SEC are less than a unit.  A price is  *)
(* always known, approval is automatic, and the trade is a public one.       *)
(*****************************************************************************)
EXTENDS Integers

CONSTANTS
  MIN_CLAIM_LEAD, MAX_DEADLINE_LEAD, SPONSOR_DEPOSIT_PAY, ESCROW_PAY_WINDOW,
  ESCROW_PAY_LEAD, MIN_ESCROW_PAY_WINDOW, ESCROW_HOLD_MARGIN, DEADLINE_GRACE,
  DEPOSIT_MARGIN, INVOICE_WINDOW, CLTV_MIN_BLOCKS, CLTV_MAX_BLOCKS,
  SAFETY_SETTLE_BLOCKS, ESCROW_END_BLOCKS, INVOICE_ESCROW_MIN_BLOCKS,
  HoldExpiryDelta,  \* LND gives an HTLC back this many blocks before it ends
  Burst,            \* bound: blocks in one unit of time
  Drift,            \* bound: blocks the chain is ahead of the clock
  MaxAway           \* bound: units of time the daemon is down in one trade

\* The relations timing-invariants.test.ts states, numbered as there.
AreWindows ==
  /\ {MIN_CLAIM_LEAD, MAX_DEADLINE_LEAD, SPONSOR_DEPOSIT_PAY, ESCROW_PAY_WINDOW, ESCROW_PAY_LEAD,
      MIN_ESCROW_PAY_WINDOW, ESCROW_HOLD_MARGIN, DEADLINE_GRACE, DEPOSIT_MARGIN, INVOICE_WINDOW,
      CLTV_MIN_BLOCKS, CLTV_MAX_BLOCKS, SAFETY_SETTLE_BLOCKS, ESCROW_END_BLOCKS,
      INVOICE_ESCROW_MIN_BLOCKS, HoldExpiryDelta, Burst} \subseteq Nat \ {0}
  /\ {Drift, MaxAway} \subseteq Nat
  /\ MAX_DEADLINE_LEAD + DEPOSIT_MARGIN <= CLTV_MAX_BLOCKS   \* 1, 2: the longest hold is not cut
  /\ DEPOSIT_MARGIN > DEADLINE_GRACE + ESCROW_HOLD_MARGIN    \* 3: deposits are longer
  /\ INVOICE_ESCROW_MIN_BLOCKS > ESCROW_END_BLOCKS           \* 4: the thresholds are in order
  /\ ESCROW_END_BLOCKS > SAFETY_SETTLE_BLOCKS
  /\ SAFETY_SETTLE_BLOCKS > HoldExpiryDelta
  /\ MIN_CLAIM_LEAD >= SPONSOR_DEPOSIT_PAY + ESCROW_PAY_LEAD + MIN_ESCROW_PAY_WINDOW   \* 5

VARIABLES
  now, height,
  away,      \* units of time the daemon has been down
  up, warm,  \* the process runs; CATCHUP_WARMUP_SEC have passed since it started
  st, deadline, why,  \* the order's state, its Coupang deadline, its close reason
  customer,  \* the customer's deposit
  sponsor,   \* the sponsor's deposit
  escrow,
  escrowedAt, invoiceDeadline,
  accountSent,
  remitAt,   \* created_at of a remit-request, -1 for none; handled at "remitted"
  lost       \* a deposit that the close forfeits had gone back already

trade == <<st, deadline, why, escrowedAt, invoiceDeadline, accountSent, remitAt, lost>>
holds == <<customer, sponsor, escrow>>
daemon == <<away, up, warm>>
vars == <<now, height, daemon, trade, holds>>

Lesser(a, b) == IF a < b THEN a ELSE b
Greater(a, b) == IF a > b THEN a ELSE b

-------------------------------------------------------------------------------
(* timing.ts *)

cltvBlocksFor(span) == Lesser(CLTV_MAX_BLOCKS, Greater(CLTV_MIN_BLOCKS, span))

escrowPayBy == Lesser(now + ESCROW_PAY_WINDOW, deadline - ESCROW_PAY_LEAD)

invoiceDeadlineFor == Lesser(now + INVOICE_WINDOW, deadline + DEADLINE_GRACE)

-------------------------------------------------------------------------------
(* A hold invoice.  cltv counts from the block in which it is paid. *)

NoHold == [status |-> "none", payBy |-> 0, cltv |-> 0, expiry |-> 0, seen |-> FALSE]

planLnHold(payBy, holdUntil) ==
  [NoHold EXCEPT !.status = "open", !.payBy = payBy, !.cltv = cltvBlocksFor(holdUntil - now)]

Paid(h) == [h EXCEPT !.status = "held", !.expiry = height + h.cltv]

AfterBlocks(h, top) ==
  IF h.status = "held" /\ h.expiry - top <= HoldExpiryDelta THEN [h EXCEPT !.status = "back"] ELSE h

Init ==
  /\ now = 0 /\ height = 0
  /\ away = 0 /\ up = TRUE /\ warm = TRUE
  /\ st = "requested" /\ why = "none" /\ deadline \in MIN_CLAIM_LEAD..MAX_DEADLINE_LEAD
  /\ escrowedAt = 0 /\ invoiceDeadline = 0 /\ accountSent = FALSE /\ remitAt = -1 /\ lost = FALSE
  \* the customer's deposit is paid the moment it is planned: the earliest it can end
  /\ customer = [status |-> "held", payBy |-> 0, cltv |-> cltvBlocksFor(deadline + DEPOSIT_MARGIN),
                 expiry |-> cltvBlocksFor(deadline + DEPOSIT_MARGIN), seen |-> TRUE]
  /\ sponsor = NoHold /\ escrow = NoHold

-------------------------------------------------------------------------------
(* What the parties do.  A request is handled in the unit in which it is made, *)
(* or after the daemon is back.                                               *)

Claim == /\ up /\ st = "requested"
         /\ deadline - now >= MIN_CLAIM_LEAD
         /\ st' = "claimed"
         /\ UNCHANGED <<now, height, daemon, deadline, why, escrowedAt, invoiceDeadline, accountSent,
                        remitAt, lost, holds>>

PaySponsorDeposit == /\ sponsor.status = "open" /\ now <= sponsor.payBy
                     /\ sponsor' = Paid(sponsor)
                     /\ UNCHANGED <<now, height, daemon, trade, customer, escrow>>

PayEscrow == /\ escrow.status = "open" /\ now <= escrow.payBy
             /\ escrow' = Paid(escrow)
             /\ UNCHANGED <<now, height, daemon, trade, customer, sponsor>>

SponsorInvoice == /\ up /\ st = "escrowed"
                  /\ now <= invoiceDeadline
                  /\ escrow.expiry - height >= INVOICE_ESCROW_MIN_BLOCKS
                  /\ st' = "invoiced"
                  /\ UNCHANGED <<now, height, daemon, deadline, why, escrowedAt, invoiceDeadline,
                                 accountSent, remitAt, lost, holds>>

AccountInfo == /\ up /\ st = "invoiced" /\ ~ accountSent
               /\ accountSent' = TRUE
               /\ UNCHANGED <<now, height, daemon, st, deadline, why, escrowedAt, invoiceDeadline,
                              remitAt, lost, holds>>

\* The sponsor has paid the KRW and says so.
Remit == /\ st = "invoiced" /\ accountSent /\ remitAt = -1
         /\ remitAt' = now
         /\ UNCHANGED <<now, height, daemon, st, deadline, why, escrowedAt, invoiceDeadline,
                        accountSent, lost, holds>>

RemitCounts == remitAt >= 0 /\ remitAt <= deadline + DEADLINE_GRACE

RemitRequest == /\ up /\ st = "invoiced" /\ RemitCounts
                /\ st' = "remitted"
                /\ UNCHANGED <<now, height, daemon, deadline, why, escrowedAt, invoiceDeadline,
                               accountSent, remitAt, lost, holds>>

-------------------------------------------------------------------------------
(* The close: what CLOSE_RULES forfeits must still be there. *)

Forfeits(reason) ==
  CASE reason \in {"cancel:unpaid-escrow", "expired:unpaid-escrow", "expired:no-account"} -> customer
    [] reason \in {"expired:no-invoice", "customer_wins"} -> sponsor
    [] OTHER -> NoHold

beginClose(reason) ==
  /\ st' = "closed" /\ why' = reason
  /\ lost' = (Forfeits(reason).status = "back")
  /\ UNCHANGED <<now, height, daemon, deadline, escrowedAt, invoiceDeadline, accountSent, remitAt, holds>>

\* An operator rules against the sponsor, in the time the deposit is made to last for.
CustomerWins == /\ up /\ st = "remitted"
                /\ now <= deadline + DEADLINE_GRACE + ESCROW_HOLD_MARGIN
                /\ beginClose("customer_wins")

-------------------------------------------------------------------------------
(* The poll, and then the clock. *)

Unseen(h) == h.status = "held" /\ ~ h.seen
Polled == ~ Unseen(sponsor) /\ ~ Unseen(escrow)

SeeSponsorDeposit == /\ up /\ Unseen(sponsor)
                     /\ sponsor' = [sponsor EXCEPT !.seen = TRUE]
                     /\ UNCHANGED <<now, height, daemon, trade, customer, escrow>>

onEscrowAccepted == /\ up /\ Unseen(escrow)
                    /\ escrow' = [escrow EXCEPT !.seen = TRUE]
                    /\ IF st = "verified"
                       THEN /\ st' = "escrowed" /\ escrowedAt' = now
                            /\ invoiceDeadline' = invoiceDeadlineFor
                       ELSE UNCHANGED <<st, escrowedAt, invoiceDeadline>>
                    /\ UNCHANGED <<now, height, daemon, deadline, why, accountSent, remitAt, lost,
                                   customer, sponsor>>

\* Mutant: the deposit is made to last for the trade, and not for the ruling.
planSponsorDeposit_short ==
  /\ up /\ Polled /\ st = "claimed" /\ sponsor.status = "none"
  /\ sponsor' = planLnHold(now + SPONSOR_DEPOSIT_PAY, deadline + DEADLINE_GRACE)
  /\ UNCHANGED <<now, height, daemon, trade, customer, escrow>>

planSponsorDeposit == /\ up /\ Polled /\ st = "claimed" /\ sponsor.status = "none"
                      /\ sponsor' = planLnHold(now + SPONSOR_DEPOSIT_PAY, deadline + DEPOSIT_MARGIN)
                      /\ UNCHANGED <<now, height, daemon, trade, customer, escrow>>

DepositUnpaid == up /\ Polled /\ st = "claimed" /\ sponsor.status = "open" /\ now > sponsor.payBy

revertClaim == /\ DepositUnpaid
               /\ st' = "requested" /\ sponsor' = NoHold
               /\ UNCHANGED <<now, height, daemon, deadline, why, escrowedAt, invoiceDeadline,
                              accountSent, remitAt, lost, customer, escrow>>

TooLate == escrowPayBy - now < MIN_ESCROW_PAY_WINDOW

CanApprove == up /\ Polled /\ st = "claimed" /\ sponsor.status = "held" /\ ~ TooLate

\* verified is written once the invoice exists, which is the effect of the same tick
approve == /\ CanApprove
           /\ escrow' = planLnHold(escrowPayBy,
                 Greater(escrowPayBy, deadline + DEADLINE_GRACE) + ESCROW_HOLD_MARGIN)
           /\ st' = "verified"
           /\ UNCHANGED <<now, height, daemon, deadline, why, escrowedAt, invoiceDeadline,
                          accountSent, remitAt, lost, customer, sponsor>>

EscrowUnpaid == up /\ Polled /\ st = "verified" /\ escrow.status = "open" /\ now > escrow.payBy

CloseUnpaid == EscrowUnpaid /\ beginClose("cancel:unpaid-escrow")

expiryReasonFor == CASE st = "requested" -> "expired:no-sponsor"
                     [] st = "claimed"   -> "expired:not-approved"
                     [] st = "verified"  -> "expired:unpaid-escrow"
                     [] st = "escrowed"  -> "expired:no-invoice"
                     [] st = "invoiced" /\ accountSent -> "expired:no-remit"
                     [] OTHER -> "expired:no-account"

Expiring == {"requested", "claimed", "verified", "escrowed", "invoiced"}

closeAt == CASE st = "escrowed" -> invoiceDeadline
             [] st = "invoiced" -> deadline + DEADLINE_GRACE
             [] OTHER -> deadline

Expired == up /\ warm /\ Polled /\ st \in Expiring /\ now > closeAt

CloseExpired == Expired /\ ~ EscrowUnpaid /\ beginClose(expiryReasonFor)

escrowEnding(blocks) == escrow.seen /\ escrow.expiry - height <= blocks

EndsEarly == up /\ Polled /\ st \in Expiring /\ ~ Expired /\ ~ EscrowUnpaid
             /\ escrowEnding(ESCROW_END_BLOCKS)

closeForEscrowEnd == EndsEarly /\ beginClose(expiryReasonFor)

MustSettle == up /\ Polled /\ st = "remitted" /\ escrow.status = "held"
              /\ escrowEnding(SAFETY_SETTLE_BLOCKS)

SafetySettle == /\ MustSettle
                /\ escrow' = [escrow EXCEPT !.status = "settled"]
                /\ UNCHANGED <<now, height, daemon, trade, customer, sponsor>>

-------------------------------------------------------------------------------
(* Time.  While the daemon is up, a unit of time is many ticks: nothing the   *)
(* poll or the clock would do is left undone.                                 *)

Nothing == /\ Polled /\ warm
           /\ ~ (st = "claimed" /\ sponsor.status = "none")
           /\ ~ DepositUnpaid /\ ~ CanApprove /\ ~ EscrowUnpaid /\ ~ Expired /\ ~ EndsEarly
           /\ ~ MustSettle
           /\ ~ (st = "invoiced" /\ RemitCounts)

\* Bound: a trade is followed until every hold of it has ended.
Horizon == deadline + DEPOSIT_MARGIN + MIN_CLAIM_LEAD

Pass == /\ st # "closed" /\ now < Horizon
        /\ \/ up /\ Nothing /\ UNCHANGED away
           \/ ~ up /\ away < MaxAway /\ away' = away + 1
        /\ now' = now + 1
        /\ \E b \in 1..Burst : height' = height + b
        /\ height' - now' <= Drift
        /\ customer' = AfterBlocks(customer, height')
        /\ sponsor' = AfterBlocks(sponsor, height')
        /\ escrow' = AfterBlocks(escrow, height')
        /\ UNCHANGED <<up, warm, trade>>

GoDown == /\ up /\ away < MaxAway /\ st # "closed"
          /\ up' = FALSE /\ warm' = FALSE
          /\ UNCHANGED <<now, height, away, trade, holds>>

Start == /\ ~ up
         /\ up' = TRUE
         /\ UNCHANGED <<now, height, away, warm, trade, holds>>

\* What was sent during the downtime arrives within CATCHUP_WARMUP_SEC.
WarmUp == /\ up /\ ~ warm
          /\ ~ (st = "invoiced" /\ RemitCounts)
          /\ warm' = TRUE
          /\ UNCHANGED <<now, height, away, up, trade, holds>>

Party == \/ Claim \/ PaySponsorDeposit \/ PayEscrow \/ SponsorInvoice
         \/ AccountInfo \/ Remit \/ RemitRequest \/ CustomerWins

Clock == \/ SeeSponsorDeposit \/ onEscrowAccepted
         \/ planSponsorDeposit \/ revertClaim \/ approve \/ CloseUnpaid
         \/ CloseExpired \/ closeForEscrowEnd \/ SafetySettle

Next == Party \/ Clock \/ Pass \/ GoDown \/ Start \/ WarmUp

Spec == Init /\ [][Next]_vars

-------------------------------------------------------------------------------
(* What the promises below cost: relations that no test states, and that say how *)
(* fast the chain and how long a downtime may be.                                *)

\* Of what the safety settlement is early by, the longest downtime and the unit in which it ends
\* leave the blocks the node needs: 36 against 12, so a downtime of four hours at the chain's pace.
SleepIsShort == SAFETY_SETTLE_BLOCKS >= HoldExpiryDelta + Burst * (MaxAway + 1)

\* The two days the escrow lasts longer than the grace are enough for the blocks in which it is
\* ending: 288 against 72.
EscrowIsLong == ESCROW_HOLD_MARGIN > ESCROW_END_BLOCKS + Drift + MaxAway + 1

\* The day the deposits last longer than that is enough for a fast chain and the blocks the node
\* needs; and the whole margin, for an expiry that a downtime delays.
DepositsAreLong ==
  /\ DEPOSIT_MARGIN > DEADLINE_GRACE + ESCROW_HOLD_MARGIN + Drift + HoldExpiryDelta
  /\ DEPOSIT_MARGIN > DEADLINE_GRACE + MaxAway + 1 + Drift + HoldExpiryDelta

\* The longest window for paying the escrow is no shorter than the shortest.
PayWindowIsWhole == ESCROW_PAY_WINDOW >= MIN_ESCROW_PAY_WINDOW

-------------------------------------------------------------------------------
Holds == [status : {"none", "open", "held", "back", "settled"}, payBy : Int, cltv : Int,
          expiry : Int, seen : BOOLEAN]

Reasons == {"cancel:unpaid-escrow", "customer_wins", "expired:no-sponsor", "expired:not-approved",
            "expired:unpaid-escrow", "expired:no-invoice", "expired:no-remit", "expired:no-account"}

\* The variables stay in their ranges.
TypeOK == /\ now \in Nat /\ height \in Nat /\ height >= now
          /\ away \in 0..MaxAway /\ up \in BOOLEAN /\ warm \in BOOLEAN
          /\ st \in Expiring \cup {"remitted", "closed"} /\ why \in Reasons \cup {"none"}
          /\ deadline \in Nat /\ escrowedAt \in Nat /\ invoiceDeadline \in Nat
          /\ accountSent \in BOOLEAN /\ remitAt \in Int /\ lost \in BOOLEAN
          /\ {customer, sponsor, escrow} \subseteq Holds

\* While the KRW may be on its way, and after it, the node has not given the escrow back to the
\* customer (timing.ts: SAFETY_SETTLE_BLOCKS, ESCROW_END_BLOCKS): however late the escrow was
\* paid, and whatever the daemon sleeps through.
KrwIsCovered == st \in {"invoiced", "remitted"} => escrow.status \in {"held", "settled"}

\* A deposit that a close takes is still there to be taken: "a deposit that ends first is refunded,
\* and a desertion costs nothing" (outcomes.ts, head).
ForfeitIsThere == ~ lost

\* A sponsor who claims at the last moment that is accepted, and pays his deposit in the time he is
\* given, can be approved (timing-invariants.test.ts, 5).
LateClaimIsApproved ==
  (st = "claimed" /\ sponsor.status = "held" /\ away = 0 /\ up) => ~ TooLate

\* Nobody's money waits for a party who has gone: the daemon's downtime apart, an order without an
\* invoice ends with the invoice window, an order without a remittance with the grace.
EndsInTime ==
  /\ st \in Expiring => now <= deadline + DEADLINE_GRACE + MaxAway + 1
  /\ st = "escrowed" => now <= escrowedAt + INVOICE_WINDOW + MaxAway + 1

\* Without an outage a sponsor who loses his deposit for want of an invoice had a whole window to
\* give it: the invoice window, or what the escrow's own deadline leaves of the grace.
InvoiceHadTime ==
  (why = "expired:no-invoice" /\ away = 0) =>
    now - escrowedAt > Lesser(INVOICE_WINDOW, ESCROW_PAY_LEAD + DEADLINE_GRACE)

\* An order is not closed as "no remittance" over a remittance that was reported in time, not even
\* one reported while the daemon was down (timing.ts: CATCHUP_WARMUP_SEC, DEADLINE_GRACE_SEC).
RemitInTimeIsHeard == why = "expired:no-remit" => ~ RemitCounts

\* What timing-invariants.test.ts (3) says: the deposits live longer than the escrow, so that they
\* can be taken in a ruling after the escrow's end.
DepositsOutliveEscrow ==
  (st = "remitted" /\ escrow.status = "held" /\ sponsor.status = "held") => sponsor.expiry > escrow.expiry
===============================================================================
