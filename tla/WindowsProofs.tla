--------------------------- MODULE WindowsProofs ----------------------------
(***************************************************************************)
(* The windows of both kinds of trade, proved for any lengths of them that *)
(* keep the relations of AreWindows, any speed of the chain and any        *)
(* downtime: LnWindows, which is extended, and OcWindows, an instance that *)
(* shares with it the names of the clocks, of the daemon and of the chain. *)
(* What a promise costs besides is in the hypotheses of its theorem: for   *)
(* OcWindows that is MarginIsWide alone, by which the bonds outlast the    *)
(* trade for any late confirmation and number of reorganisations.  Last,   *)
(* the price that an on-chain order's amount is settled by (PriceFeed),    *)
(* proved for any exchanges, ages and number of sources.                   *)
(***************************************************************************)
EXTENDS LnWindows, FiniteSetTheorems, TLAPS

CONSTANTS MAX_ORDER_EXPIRY, FUNDING_WINDOW, PRESIGN_WINDOW, ACCOUNT_WINDOW, KRW_WINDOW,
          COSIGN_WINDOW, DISPUTE_RULING_BUDGET, CLTV_SAFETY_MARGIN, MaxConfirm, MaxReorgs,
          Exchanges, Faulty, Prices, MaxAge, MinSources

VARIABLES expiration, anchor, due, fundedAt, chain, account, objected, sentAt, reorgs,
          market, running, socket, price, age, timer, ping, stale, live

Oc == INSTANCE OcWindows
Pr == INSTANCE PriceFeed

-----------------------------------------------------------------------------
(* The inductive invariant. *)

\* A hold that the node gave back was at its end.
EndedIsBack(h) == h.status = "back" => h.expiry - height <= HoldExpiryDelta

\* From the moment it is planned a hold is going to last until top.
Lasts(h, top) == /\ h.status = "open" => h.cltv + now >= top
                 /\ h.status \in {"held", "back", "settled"} => h.expiry >= top

Long ==
  /\ deadline <= MAX_DEADLINE_LEAD /\ height - now <= Drift
  /\ EndedIsBack(customer) /\ EndedIsBack(sponsor) /\ EndedIsBack(escrow)
  /\ Lasts(customer, deadline + DEPOSIT_MARGIN) /\ Lasts(sponsor, deadline + DEPOSIT_MARGIN)
  /\ Lasts(escrow, deadline + DEADLINE_GRACE + ESCROW_HOLD_MARGIN)
  /\ customer.status \in {"held", "back"}

\* Which holds a stage has.
Stages ==
  /\ st = "requested" => sponsor = NoHold
  /\ escrow.seen => escrow.status \in {"held", "back", "settled"}
  /\ st \in {"escrowed", "invoiced", "remitted"} => escrow.seen
  /\ escrow.status = "settled" => st \in {"remitted", "closed"}
  /\ remitAt >= 0 => st \in {"invoiced", "remitted", "closed"}
  /\ why # "none" => st = "closed"

\* No stage outlasts its deadline by more than the downtime.
Timely ==
  /\ st \in {"requested", "claimed", "verified"} => now <= deadline + away + 1
  /\ st = "escrowed" => /\ now <= invoiceDeadline + away + 1 /\ escrowedAt <= now
                        /\ invoiceDeadline <= escrowedAt + INVOICE_WINDOW
                        /\ invoiceDeadline <= deadline + DEADLINE_GRACE
  /\ st = "invoiced" => now <= deadline + DEADLINE_GRACE + away + 1

\* A remittance that counts is handled before time goes on, or before the warm-up is over.
Heard == /\ remitAt <= now
         /\ warm => up
         /\ up /\ warm /\ st = "invoiced" /\ RemitCounts => remitAt = now

\* The escrow outlives what is left of the downtime.
Covered ==
  SleepIsShort /\ st \in {"invoiced", "remitted"} =>
    \/ escrow.status = "settled"
    \/ escrow.status = "held" /\ escrow.expiry - height > HoldExpiryDelta + Burst * (MaxAway - away)

\* Without an outage a claim goes on in the unit in which the deposit is paid, and the escrow's
\* payment is seen in the unit in which it is made.
ClaimInTime ==
  PayWindowIsWhole /\ away = 0 /\ st = "claimed" =>
    /\ sponsor.status = "none" => now + MIN_CLAIM_LEAD <= deadline
    /\ sponsor.status = "open" =>
         sponsor.payBy + ESCROW_PAY_LEAD + MIN_ESCROW_PAY_WINDOW <= deadline
    /\ sponsor.status = "held" => now + ESCROW_PAY_LEAD + MIN_ESCROW_PAY_WINDOW <= deadline

EscrowInTime ==
  /\ away = 0 /\ st = "verified" =>
       /\ escrow.status = "open" => escrow.payBy <= deadline - ESCROW_PAY_LEAD
       /\ Unseen(escrow) => now <= deadline - ESCROW_PAY_LEAD
  /\ away = 0 /\ st = "escrowed" =>
       invoiceDeadline >= escrowedAt + Lesser(INVOICE_WINDOW, ESCROW_PAY_LEAD + DEADLINE_GRACE)

\* The promises that are about what was decided.
Decided == /\ DepositsAreLong => ForfeitIsThere
           /\ EscrowIsLong => InvoiceHadTime /\ RemitInTimeIsHeard

IInv == /\ TypeOK /\ Long /\ Stages /\ Timely /\ Heard
        /\ Covered /\ ClaimInTime /\ EscrowInTime /\ Decided

-----------------------------------------------------------------------------
LEMMA Starts ==
  ASSUME AreWindows, Init
  PROVE  IInv
<1>1. deadline \in Nat /\ MIN_CLAIM_LEAD <= deadline /\ deadline <= MAX_DEADLINE_LEAD
  BY DEF AreWindows, Init
<1>2. cltvBlocksFor(deadline + DEPOSIT_MARGIN) >= deadline + DEPOSIT_MARGIN
      /\ cltvBlocksFor(deadline + DEPOSIT_MARGIN) \in Nat
  BY <1>1 DEF cltvBlocksFor, Lesser, Greater, AreWindows
<1>3. TypeOK
  <2>1. NoHold \in Holds /\ customer \in Holds
    BY <1>1, <1>2 DEF Init, Holds, NoHold
  <2>2. up \in BOOLEAN /\ warm \in BOOLEAN /\ accountSent \in BOOLEAN /\ lost \in BOOLEAN
    BY DEF Init
  <2>3. why \in Reasons \cup {"none"} /\ st \in Expiring
    BY DEF Init, Expiring
  <2>4. {now, height, deadline, escrowedAt, invoiceDeadline} \subseteq Nat /\ remitAt \in Int
        /\ height >= now /\ away \in 0..MaxAway
    BY <1>1 DEF Init, AreWindows
  <2> QED
    BY <2>1, <2>2, <2>3, <2>4 DEF Init, TypeOK
<1>4. Long
  BY <1>1, <1>2 DEF Init, Long, EndedIsBack, Lasts, NoHold, AreWindows
<1>5. Stages /\ Timely /\ Heard
  BY <1>1 DEF Init, Stages, Timely, Heard, RemitCounts, NoHold
<1>6. Covered /\ ClaimInTime /\ EscrowInTime /\ Decided
  BY DEF Init, Covered, ClaimInTime, EscrowInTime, Decided, ForfeitIsThere, InvoiceHadTime, RemitInTimeIsHeard
<1> QED
  BY <1>3, <1>4, <1>5, <1>6 DEF IInv

\* What the parties do, but for the payments and the ruling, changes no hold and no clock.
LEMMA PartiesAct ==
  ASSUME AreWindows, IInv, Claim \/ SponsorInvoice \/ AccountInfo \/ Remit \/ RemitRequest
  PROVE  IInv'
<1>1. UNCHANGED <<now, height, daemon, deadline, why, escrowedAt, invoiceDeadline, lost, holds>>
  BY DEF Claim, SponsorInvoice, AccountInfo, Remit, RemitRequest
<1>2. TypeOK'
  <2>3. accountSent \in BOOLEAN
    BY DEF IInv, TypeOK
  <2>4. accountSent' = TRUE \/ accountSent' = accountSent
    BY DEF Claim, SponsorInvoice, AccountInfo, Remit, RemitRequest
  <2>5. accountSent' \in BOOLEAN
    BY <2>3, <2>4
  <2>1. remitAt' \in Int
    BY <1>1 DEF Claim, SponsorInvoice, AccountInfo, Remit, RemitRequest, IInv, TypeOK
  <2>2. st' \in Expiring \cup {"remitted", "closed"}
    BY DEF Claim, SponsorInvoice, AccountInfo, Remit, RemitRequest, IInv, TypeOK, Expiring
  <2> QED
    BY <1>1, <2>1, <2>2, <2>5 DEF holds, daemon, IInv, TypeOK
<1>9. Long'
  BY <1>1 DEF holds, IInv, Long, EndedIsBack, Lasts
<1>3. Stages' /\ Timely'
  BY <1>1 DEF holds, daemon, Claim, SponsorInvoice, AccountInfo, Remit, RemitRequest,
     IInv, TypeOK, Stages, Timely, AreWindows
<1>4. Heard'
  BY <1>1 DEF holds, daemon, Claim, SponsorInvoice, AccountInfo, Remit, RemitRequest,
     IInv, TypeOK, Stages, Heard, RemitCounts
<1>5. Covered'
  <2>1. CASE SponsorInvoice
    <3> SUFFICES ASSUME SleepIsShort
                 PROVE  /\ escrow.status = "held"
                        /\ escrow.expiry - height > HoldExpiryDelta + Burst * (MaxAway - away)
      BY <1>1, <2>1 DEF holds, daemon, Covered, SponsorInvoice
    <3>1. escrow.status \in {"held", "back"} /\ escrow.expiry \in Int /\ height \in Nat
      BY <2>1 DEF SponsorInvoice, IInv, Stages, TypeOK, Holds
    <3>2. escrow.expiry - height > SAFETY_SETTLE_BLOCKS
      BY <2>1, <3>1 DEF SponsorInvoice, AreWindows
    <3>3. Burst * (MaxAway - away) <= Burst * (MaxAway + 1)
      BY DEF AreWindows, IInv, TypeOK
    <3>4. Burst * (MaxAway - away) \in Int /\ Burst * (MaxAway + 1) \in Int
      BY DEF AreWindows, IInv, TypeOK
    <3>5. escrow.status # "back"
      BY <3>1, <3>2 DEF IInv, Long, EndedIsBack, AreWindows
    <3> QED
      BY <3>1, <3>2, <3>3, <3>4, <3>5 DEF SleepIsShort, AreWindows
  <2>2. CASE Claim \/ AccountInfo \/ Remit \/ RemitRequest
    BY <1>1, <2>2 DEF holds, daemon, Claim, AccountInfo, Remit, RemitRequest, IInv, Covered
  <2> QED
    BY <2>1, <2>2
<1>6. ClaimInTime'
  BY <1>1 DEF holds, daemon, Claim, SponsorInvoice, AccountInfo, Remit, RemitRequest,
     IInv, TypeOK, Stages, NoHold, ClaimInTime, AreWindows
<1>7. EscrowInTime'
  BY <1>1 DEF holds, daemon, Claim, SponsorInvoice, AccountInfo, Remit, RemitRequest,
     IInv, EscrowInTime, Unseen
<1>8. Decided'
  <2>1. ForfeitIsThere' = ForfeitIsThere /\ InvoiceHadTime' = InvoiceHadTime
    BY <1>1 DEF daemon, ForfeitIsThere, InvoiceHadTime, Lesser
  <2>2. RemitInTimeIsHeard'
    BY <1>1 DEF Claim, SponsorInvoice, AccountInfo, Remit, RemitRequest, IInv, Stages, RemitInTimeIsHeard
  <2> QED
    BY <2>1, <2>2 DEF IInv, Decided
<1> QED
  BY <1>2, <1>3, <1>4, <1>5, <1>6, <1>7, <1>8, <1>9 DEF IInv

\* What was decided stays while the trade and the clock do.
LEMMA Stays ==
  ASSUME Decided, UNCHANGED <<trade, now, away>>
  PROVE  Decided'
<1>1. lost' = lost /\ why' = why /\ away' = away /\ now' = now /\ escrowedAt' = escrowedAt
      /\ remitAt' = remitAt /\ deadline' = deadline
  BY DEF trade
<1>2. ForfeitIsThere' = ForfeitIsThere
  BY <1>1 DEF ForfeitIsThere
<1>3. InvoiceHadTime' = InvoiceHadTime /\ RemitInTimeIsHeard' = RemitInTimeIsHeard
  BY <1>1 DEF InvoiceHadTime, RemitInTimeIsHeard, RemitCounts, Lesser
<1> QED
  BY <1>2, <1>3 DEF Decided

LEMMA PaidHold ==
  ASSUME IInv, NEW h \in Holds, h.status = "open", NEW top \in Int, Lasts(h, top)
  PROVE  /\ Paid(h) \in Holds /\ Paid(h).status = "held" /\ Paid(h).expiry >= top
         /\ Paid(h).seen = h.seen /\ Paid(h).payBy = h.payBy
<1>1. now \in Int /\ height \in Int /\ height >= now
  BY DEF IInv, TypeOK
<1>2. h.cltv \in Int /\ h.payBy \in Int /\ h.seen \in BOOLEAN
  BY DEF Holds
<1>3. height + h.cltv \in Int /\ height + h.cltv >= top
  BY <1>1, <1>2 DEF Lasts
<1>4. /\ Paid(h).status = "held" /\ Paid(h).expiry = height + h.cltv
      /\ Paid(h).seen = h.seen /\ Paid(h).payBy = h.payBy
  BY DEF Paid, Holds
<1> DEFINE g == [h EXCEPT !.status = "held"]
<1>5. g \in Holds
  BY DEF Holds
<1>6. [g EXCEPT !.expiry = height + h.cltv] \in Holds
  <2> HIDE DEF g
  <2> QED
    BY <1>3, <1>5 DEF Holds
<1>7. Paid(h) \in Holds
  BY <1>6 DEF Paid
<1> QED
  BY <1>3, <1>4, <1>7

LEMMA PaysDeposit ==
  ASSUME AreWindows, IInv, PaySponsorDeposit
  PROVE  IInv'
<1>1. /\ sponsor.status = "open" /\ now <= sponsor.payBy /\ sponsor' = Paid(sponsor)
      /\ UNCHANGED <<now, height, daemon, trade, customer, escrow>>
  BY DEF PaySponsorDeposit
<1>2. /\ sponsor \in Holds /\ Lasts(sponsor, deadline + DEPOSIT_MARGIN) /\ deadline + DEPOSIT_MARGIN \in Int
  BY DEF IInv, TypeOK, Long, AreWindows
<1>3. /\ sponsor' \in Holds /\ sponsor'.status = "held" /\ sponsor'.expiry >= deadline + DEPOSIT_MARGIN
      /\ sponsor'.payBy = sponsor.payBy
  BY <1>1, <1>2, PaidHold
<1>4. TypeOK'
  BY <1>1, <1>3 DEF daemon, trade, IInv, TypeOK
<1>5. Long'
  BY <1>1, <1>3 DEF trade, IInv, Long, EndedIsBack, Lasts
<1>6. st # "requested"
  BY <1>1 DEF IInv, Stages, NoHold
<1>7. Stages' /\ Timely' /\ Heard' /\ Covered' /\ EscrowInTime'
  BY <1>1, <1>6 DEF daemon, trade, IInv, Stages, Timely, Heard, Covered, EscrowInTime, RemitCounts, Unseen
<1>8. ClaimInTime'
  BY <1>1, <1>2, <1>3 DEF daemon, trade, IInv, TypeOK, ClaimInTime, AreWindows, Holds
<1>9. Decided'
  BY <1>1, Stays DEF daemon, IInv
<1> QED
  BY <1>4, <1>5, <1>7, <1>8, <1>9 DEF IInv

LEMMA PaysEscrow ==
  ASSUME AreWindows, IInv, PayEscrow
  PROVE  IInv'
<1> DEFINE top == deadline + DEADLINE_GRACE + ESCROW_HOLD_MARGIN
<1>1. /\ escrow.status = "open" /\ now <= escrow.payBy /\ escrow' = Paid(escrow)
      /\ UNCHANGED <<now, height, daemon, trade, customer, sponsor>>
  BY DEF PayEscrow
<1>2. /\ escrow \in Holds /\ Lasts(escrow, top) /\ top \in Int
  BY DEF IInv, TypeOK, Long, AreWindows
<1> HIDE DEF top
<1>3. /\ escrow' \in Holds /\ escrow'.status = "held" /\ escrow'.expiry >= top
      /\ escrow'.payBy = escrow.payBy /\ escrow'.seen = escrow.seen
  BY <1>1, <1>2, PaidHold
<1>4. TypeOK'
  BY <1>1, <1>3 DEF daemon, trade, IInv, TypeOK
<1>5. Long'
  BY <1>1, <1>3 DEF trade, IInv, Long, EndedIsBack, Lasts, top
<1>6. st \notin {"escrowed", "invoiced", "remitted"}
  BY <1>1 DEF IInv, Stages
<1>7. Stages' /\ Timely' /\ Heard'
  BY <1>1, <1>3, <1>6 DEF daemon, trade, IInv, Stages, Timely, Heard, RemitCounts
<1>8. Covered' /\ ClaimInTime'
  BY <1>1, <1>6 DEF daemon, trade, IInv, Covered, ClaimInTime
<1>9. EscrowInTime'
  BY <1>1, <1>2, <1>3, <1>6 DEF daemon, trade, IInv, TypeOK, EscrowInTime, Unseen, AreWindows, Holds
<1>10. Decided'
  BY <1>1, Stays DEF daemon, IInv
<1> QED
  BY <1>4, <1>5, <1>7, <1>8, <1>9, <1>10 DEF IInv

\* The poll sees a payment.
LEMMA Sees ==
  ASSUME AreWindows, IInv, SeeSponsorDeposit \/ onEscrowAccepted
  PROVE  IInv'
<1>1. customer \in Holds /\ sponsor \in Holds /\ escrow \in Holds
  BY DEF IInv, TypeOK
<1>2. CASE SeeSponsorDeposit
  <2>1. /\ sponsor' = [sponsor EXCEPT !.seen = TRUE] /\ sponsor.status = "held"
        /\ UNCHANGED <<now, height, daemon, trade, customer, escrow>>
    BY <1>2 DEF SeeSponsorDeposit, Unseen
  <2>2. /\ sponsor' \in Holds /\ sponsor'.status = "held" /\ sponsor'.expiry = sponsor.expiry
    BY <1>1, <2>1 DEF Holds
  <2>3. TypeOK'
    BY <2>1, <2>2 DEF daemon, trade, IInv, TypeOK
  <2>4. Long'
    BY <2>1, <2>2 DEF trade, IInv, Long, EndedIsBack, Lasts
  <2>5. st # "requested"
    BY <2>1 DEF IInv, Stages, NoHold
  <2>6. Stages' /\ Timely' /\ Heard' /\ Covered' /\ EscrowInTime'
    BY <2>1, <2>5 DEF daemon, trade, IInv, Stages, Timely, Heard, Covered, EscrowInTime, RemitCounts, Unseen
  <2>7. ClaimInTime'
    BY <2>1, <2>2 DEF daemon, trade, IInv, ClaimInTime
  <2>8. Decided'
    BY <2>1, Stays DEF daemon, IInv
  <2> QED
    BY <2>3, <2>4, <2>6, <2>7, <2>8 DEF IInv
<1>3. CASE onEscrowAccepted
  <2>1. /\ escrow' = [escrow EXCEPT !.seen = TRUE] /\ Unseen(escrow) /\ escrow.status = "held"
        /\ UNCHANGED <<now, height, daemon, deadline, why, accountSent, remitAt, lost, customer, sponsor>>
        /\ IF st = "verified"
           THEN st' = "escrowed" /\ escrowedAt' = now /\ invoiceDeadline' = invoiceDeadlineFor
           ELSE UNCHANGED <<st, escrowedAt, invoiceDeadline>>
    BY <1>3 DEF onEscrowAccepted, Unseen
  <2>2. /\ escrow' \in Holds /\ escrow'.status = "held" /\ escrow'.expiry = escrow.expiry /\ escrow'.seen
    BY <1>1, <2>1 DEF Holds
  <2>3. /\ now \in Nat /\ deadline \in Nat /\ invoiceDeadlineFor \in Nat
        /\ invoiceDeadlineFor <= now + INVOICE_WINDOW /\ invoiceDeadlineFor <= deadline + DEADLINE_GRACE
        /\ (invoiceDeadlineFor = now + INVOICE_WINDOW \/ invoiceDeadlineFor = deadline + DEADLINE_GRACE)
    BY DEF IInv, TypeOK, invoiceDeadlineFor, Lesser, AreWindows
  <2>4. TypeOK'
    <3>1. escrowedAt' \in Nat /\ invoiceDeadline' \in Nat /\ st' \in Expiring \cup {"remitted", "closed"}
      BY <2>1, <2>3 DEF IInv, TypeOK, Expiring
    <3> QED
      BY <2>1, <2>2, <3>1 DEF daemon, IInv, TypeOK
  <2>5. Long'
    BY <2>1, <2>2 DEF IInv, Long, EndedIsBack, Lasts
  <2>6. st \notin {"escrowed", "invoiced", "remitted"}
    BY <2>1 DEF IInv, Stages, Unseen
  <2>7. Stages' /\ Heard'
    BY <2>1, <2>2, <2>6 DEF daemon, IInv, Stages, Heard, RemitCounts
  <2>8. Timely'
    BY <2>1, <2>3, <2>6 DEF daemon, IInv, TypeOK, Timely, AreWindows
  <2>9. Covered' /\ ClaimInTime'
    BY <2>1, <2>6 DEF daemon, IInv, Covered, ClaimInTime
  <2>10. EscrowInTime'
    BY <2>1, <2>2, <2>3, <2>6 DEF daemon, IInv, TypeOK, EscrowInTime, Unseen, Lesser, AreWindows
  <2>11. why # "expired:no-invoice" \/ st = "closed"
    BY DEF IInv, Stages
  <2>12. Decided'
    BY <2>1, <2>11 DEF daemon, IInv, Decided, ForfeitIsThere, InvoiceHadTime, RemitInTimeIsHeard, RemitCounts
  <2> QED
    BY <2>4, <2>5, <2>7, <2>8, <2>9, <2>10, <2>12 DEF IInv
<1> QED
  BY <1>2, <1>3

\* The daemon plans a hold of its own, or lets the claim go.
LEMMA PlannedHold ==
  ASSUME AreWindows, IInv, NEW payBy \in Int, NEW top \in Int, top - now <= CLTV_MAX_BLOCKS
  PROVE  /\ planLnHold(payBy, top) \in Holds /\ planLnHold(payBy, top).status = "open"
         /\ planLnHold(payBy, top).payBy = payBy /\ ~ planLnHold(payBy, top).seen
         /\ Lasts(planLnHold(payBy, top), top)
<1>1. now \in Nat /\ cltvBlocksFor(top - now) \in Int /\ cltvBlocksFor(top - now) >= top - now
  BY DEF IInv, TypeOK, cltvBlocksFor, Lesser, Greater, AreWindows
<1>2. NoHold \in Holds
  BY DEF NoHold, Holds
<1>3. /\ planLnHold(payBy, top).status = "open" /\ planLnHold(payBy, top).payBy = payBy
      /\ ~ planLnHold(payBy, top).seen /\ planLnHold(payBy, top).cltv = cltvBlocksFor(top - now)
  BY DEF planLnHold, NoHold
<1>4. Lasts(planLnHold(payBy, top), top)
  BY <1>1, <1>3 DEF Lasts
<1> DEFINE f == [NoHold EXCEPT !.status = "open"]
           g == [f EXCEPT !.payBy = payBy]
<1>5. f \in Holds
  BY <1>2 DEF Holds
<1>6. g \in Holds
  <2> HIDE DEF f
  <2> QED
    BY <1>5 DEF Holds
<1>7. [g EXCEPT !.cltv = cltvBlocksFor(top - now)] \in Holds
  <2> HIDE DEF g
  <2> QED
    BY <1>1, <1>6 DEF Holds
<1>8. planLnHold(payBy, top) \in Holds
  BY <1>7 DEF planLnHold
<1> QED
  BY <1>3, <1>4, <1>8

LEMMA PlansDeposit ==
  ASSUME AreWindows, IInv, planSponsorDeposit \/ revertClaim
  PROVE  IInv'
<1>1. UNCHANGED <<now, height, daemon, deadline, why, escrowedAt, invoiceDeadline, accountSent,
                  remitAt, lost, customer, escrow>> /\ st = "claimed"
  BY DEF planSponsorDeposit, revertClaim, DepositUnpaid, trade
<1>2. \/ /\ st' = "requested" /\ sponsor' = NoHold
      \/ /\ st' = "claimed" /\ sponsor.status = "none"
         /\ sponsor' = planLnHold(now + SPONSOR_DEPOSIT_PAY, deadline + DEPOSIT_MARGIN)
  BY DEF planSponsorDeposit, revertClaim, DepositUnpaid, trade
<1>3. /\ now + SPONSOR_DEPOSIT_PAY \in Int /\ deadline + DEPOSIT_MARGIN \in Int /\ now \in Nat
      /\ deadline + DEPOSIT_MARGIN - now <= CLTV_MAX_BLOCKS /\ deadline \in Nat
  BY DEF IInv, TypeOK, Long, AreWindows
<1>4. /\ sponsor' \in Holds /\ sponsor'.status \in {"none", "open"}
      /\ Lasts(sponsor', deadline + DEPOSIT_MARGIN)
      /\ st' = "claimed" => sponsor'.status = "open" /\ sponsor'.payBy = now + SPONSOR_DEPOSIT_PAY
  <2>1. CASE st' = "requested" /\ sponsor' = NoHold
    BY <2>1 DEF NoHold, Holds, Lasts
  <2>2. CASE st' = "claimed" /\ sponsor' = planLnHold(now + SPONSOR_DEPOSIT_PAY, deadline + DEPOSIT_MARGIN)
    <3> DEFINE pay == now + SPONSOR_DEPOSIT_PAY
               top == deadline + DEPOSIT_MARGIN
    <3>0. sponsor' = planLnHold(pay, top)
      BY <2>2
    <3>1. pay \in Int /\ top \in Int /\ top - now <= CLTV_MAX_BLOCKS
      <4>1. CLTV_MAX_BLOCKS \in Nat /\ deadline <= MAX_DEADLINE_LEAD /\ MAX_DEADLINE_LEAD \in Nat
            /\ DEPOSIT_MARGIN \in Nat /\ SPONSOR_DEPOSIT_PAY \in Nat
            /\ MAX_DEADLINE_LEAD + DEPOSIT_MARGIN <= CLTV_MAX_BLOCKS
        BY DEF AreWindows, IInv, Long
      <4> QED
        BY <1>3, <4>1
    <3> HIDE DEF pay, top
    <3>2. sponsor' \in Holds /\ sponsor'.status = "open" /\ sponsor'.payBy = pay /\ Lasts(sponsor', top)
      BY <3>0, <3>1, PlannedHold
    <3> QED
      BY <3>2 DEF pay, top
  <2> QED
    BY <1>2, <2>1, <2>2
<1>5. TypeOK'
  BY <1>1, <1>2, <1>4 DEF daemon, IInv, TypeOK, Expiring
<1>6. Long'
  BY <1>1, <1>4 DEF IInv, Long, EndedIsBack, Lasts
<1>7. Stages' /\ Timely' /\ Heard'
  BY <1>1, <1>2 DEF daemon, IInv, Stages, Timely, Heard
<1>8. Covered' /\ EscrowInTime'
  BY <1>1, <1>2 DEF IInv, Covered, EscrowInTime
<1>9. ClaimInTime'
  BY <1>1, <1>2, <1>3, <1>4 DEF daemon, IInv, ClaimInTime, AreWindows
<1>10. Decided'
  <2>1. ForfeitIsThere' = ForfeitIsThere
    BY <1>1 DEF ForfeitIsThere
  <2>2. InvoiceHadTime' = InvoiceHadTime /\ RemitInTimeIsHeard' = RemitInTimeIsHeard
    BY <1>1 DEF daemon, InvoiceHadTime, RemitInTimeIsHeard, RemitCounts, Lesser
  <2> QED
    BY <2>1, <2>2 DEF IInv, Decided
<1> QED
  BY <1>5, <1>6, <1>7, <1>8, <1>9, <1>10 DEF IInv

LEMMA Approves ==
  ASSUME AreWindows, IInv, approve
  PROVE  IInv'
<1> DEFINE top == Greater(escrowPayBy, deadline + DEADLINE_GRACE) + ESCROW_HOLD_MARGIN
<1>1. /\ UNCHANGED <<now, height, daemon, deadline, why, escrowedAt, invoiceDeadline,
                     accountSent, remitAt, lost, customer, sponsor>>
      /\ st = "claimed" /\ st' = "verified" /\ escrow' = planLnHold(escrowPayBy, top)
  BY DEF approve, CanApprove
<1>2. /\ now \in Nat /\ deadline \in Nat /\ escrowPayBy \in Int
      /\ escrowPayBy <= deadline - ESCROW_PAY_LEAD
  BY DEF IInv, TypeOK, escrowPayBy, Lesser, AreWindows
<1>3. top = deadline + DEADLINE_GRACE + ESCROW_HOLD_MARGIN
  BY <1>2 DEF Greater, AreWindows
<1>4. top \in Int /\ top - now <= CLTV_MAX_BLOCKS
  BY <1>2, <1>3 DEF IInv, Long, AreWindows
<1> HIDE DEF top
<1>5. /\ escrow' \in Holds /\ escrow'.status = "open" /\ escrow'.payBy = escrowPayBy /\ ~ escrow'.seen
      /\ Lasts(escrow', top)
  BY <1>1, <1>2, <1>4, PlannedHold
<1>6. TypeOK'
  BY <1>1, <1>5 DEF daemon, IInv, TypeOK, Expiring
<1>7. Long'
  BY <1>1, <1>3, <1>5 DEF IInv, Long, EndedIsBack, Lasts
<1>8. Stages' /\ Timely' /\ Heard'
  BY <1>1, <1>5 DEF daemon, IInv, Stages, Timely, Heard
<1>9. Covered' /\ ClaimInTime'
  BY <1>1 DEF Covered, ClaimInTime
<1>10. EscrowInTime'
  BY <1>1, <1>2, <1>5 DEF EscrowInTime, Unseen
<1>11. Decided'
  <2>1. ForfeitIsThere' = ForfeitIsThere
    BY <1>1 DEF ForfeitIsThere
  <2>2. InvoiceHadTime' = InvoiceHadTime /\ RemitInTimeIsHeard' = RemitInTimeIsHeard
    BY <1>1 DEF daemon, InvoiceHadTime, RemitInTimeIsHeard, RemitCounts, Lesser
  <2> QED
    BY <2>1, <2>2 DEF IInv, Decided
<1> QED
  BY <1>6, <1>7, <1>8, <1>9, <1>10, <1>11 DEF IInv

\* The escrow of a trade with remitted KRW is settled before it ends.
LEMMA Settles ==
  ASSUME AreWindows, IInv, SafetySettle
  PROVE  IInv'
<1>1. /\ escrow' = [escrow EXCEPT !.status = "settled"] /\ escrow.status = "held" /\ st = "remitted"
      /\ UNCHANGED <<now, height, daemon, trade, customer, sponsor>>
  BY DEF SafetySettle, MustSettle
<1>2. escrow \in Holds /\ escrow' \in Holds /\ escrow'.status = "settled" /\ escrow'.expiry = escrow.expiry
      /\ escrow'.seen = escrow.seen
  BY <1>1 DEF IInv, TypeOK, Holds
<1>3. TypeOK'
  BY <1>1, <1>2 DEF daemon, trade, IInv, TypeOK
<1>4. Long'
  BY <1>1, <1>2 DEF trade, IInv, Long, EndedIsBack, Lasts
<1>5. Stages' /\ Timely' /\ Heard'
  BY <1>1, <1>2 DEF daemon, trade, IInv, Stages, Timely, Heard
<1>6. Covered' /\ ClaimInTime' /\ EscrowInTime'
  BY <1>1, <1>2 DEF trade, Covered, ClaimInTime, EscrowInTime
<1>7. Decided'
  BY <1>1, Stays DEF daemon, IInv
<1> QED
  BY <1>3, <1>4, <1>5, <1>6, <1>7 DEF IInv

\* The process ends and is started again.
LEMMA Restarts ==
  ASSUME AreWindows, IInv, GoDown \/ Start \/ WarmUp
  PROVE  IInv'
<1>1. UNCHANGED <<now, height, away, trade, holds>>
  BY DEF GoDown, Start, WarmUp
<1>2. up' \in BOOLEAN /\ warm' \in BOOLEAN
  BY DEF GoDown, Start, WarmUp, IInv, TypeOK
<1>3. TypeOK'
  BY <1>1, <1>2 DEF trade, holds, IInv, TypeOK
<1>4. Long' /\ Stages' /\ Timely'
  BY <1>1 DEF trade, holds, IInv, Long, EndedIsBack, Lasts, Stages, Timely
<1>5. Covered' /\ ClaimInTime' /\ EscrowInTime'
  BY <1>1 DEF trade, holds, IInv, Covered, ClaimInTime, EscrowInTime, Unseen, Lesser
<1>6. RemitCounts' = RemitCounts
  BY <1>1 DEF trade, RemitCounts
<1>7. Heard'
  <2>1. CASE GoDown
    BY <1>1, <2>1 DEF GoDown, trade, IInv, Heard
  <2>2. CASE Start
    <3>1. ~ warm' /\ remitAt' <= now'
      BY <1>1, <2>2 DEF Start, trade, IInv, Heard
    <3> QED
      BY <3>1 DEF Heard
  <2>3. CASE WarmUp
    BY <1>1, <1>6, <2>3 DEF WarmUp, trade, IInv, Heard
  <2> QED
    BY <2>1, <2>2, <2>3
<1>8. Decided'
  BY <1>1, Stays DEF IInv
<1> QED
  BY <1>3, <1>4, <1>5, <1>7, <1>8 DEF IInv

-----------------------------------------------------------------------------
(* The closes. *)

\* A deposit is there for as long as a ruling may come, and the order itself is never as late.
LEMMA DepositIsThere ==
  ASSUME AreWindows, IInv, DepositsAreLong,
         now <= deadline + DEADLINE_GRACE + MaxAway + 1 \/ now <= deadline + DEADLINE_GRACE + ESCROW_HOLD_MARGIN
  PROVE  customer.status # "back" /\ sponsor.status # "back"
<1>1. /\ now \in Nat /\ height \in Nat /\ deadline \in Nat /\ customer.expiry \in Int /\ sponsor.expiry \in Int
  BY DEF IInv, TypeOK, Holds
<1>2. height <= now + Drift
  BY <1>1 DEF IInv, Long, AreWindows
<1>3. height + HoldExpiryDelta < deadline + DEPOSIT_MARGIN
  BY <1>1, <1>2 DEF DepositsAreLong, AreWindows
<1>4. ASSUME NEW h, h \in {customer, sponsor}, h.status = "back"
      PROVE  FALSE
  <2>1. h.expiry \in Int /\ h.expiry - height <= HoldExpiryDelta /\ h.expiry >= deadline + DEPOSIT_MARGIN
    BY <1>1, <1>4 DEF IInv, Long, EndedIsBack, Lasts
  <2> QED
    BY <1>1, <1>3, <2>1 DEF AreWindows
<1> QED
  BY <1>4

LEMMA ExpiringIsEarly ==
  ASSUME AreWindows, IInv, st \in Expiring
  PROVE  now <= deadline + DEADLINE_GRACE + MaxAway + 1
BY DEF IInv, TypeOK, Timely, Expiring, AreWindows

\* Before KRW is sent the deadline comes first: the early close is for a chain faster than that.
LEMMA EscrowIsFar ==
  ASSUME AreWindows, IInv, EscrowIsLong, st \in Expiring
  PROVE  ~ escrowEnding(ESCROW_END_BLOCKS)
<1>1. SUFFICES ASSUME escrow.seen, escrow.expiry - height <= ESCROW_END_BLOCKS PROVE FALSE
  BY DEF escrowEnding
<1>2. /\ now \in Nat /\ height \in Nat /\ deadline \in Nat /\ escrow.expiry \in Int
  BY DEF IInv, TypeOK, Holds
<1>3. escrow.expiry >= deadline + DEADLINE_GRACE + ESCROW_HOLD_MARGIN
  BY <1>1 DEF IInv, Stages, Long, Lasts
<1>4. height <= now + Drift
  BY <1>2 DEF IInv, Long, AreWindows
<1>5. now <= deadline + DEADLINE_GRACE + MaxAway + 1
  BY ExpiringIsEarly
<1> QED
  BY <1>1, <1>2, <1>3, <1>4, <1>5 DEF EscrowIsLong, AreWindows

\* A closed order has only its holds and what was decided.
LEMMA ClosesWith ==
  ASSUME AreWindows, IInv, NEW reason \in Reasons, beginClose(reason), Decided'
  PROVE  IInv'
<1>1. /\ st' = "closed" /\ why' = reason /\ lost' = (Forfeits(reason).status = "back")
      /\ UNCHANGED <<now, height, daemon, deadline, escrowedAt, invoiceDeadline, accountSent, remitAt, holds>>
  BY DEF beginClose
<1>2. lost' \in BOOLEAN
  BY <1>1
<1>3. TypeOK'
  BY <1>1, <1>2 DEF daemon, holds, IInv, TypeOK
<1>4. Long'
  BY <1>1 DEF holds, IInv, Long, EndedIsBack, Lasts
<1>5. Stages' /\ Timely' /\ Heard'
  BY <1>1 DEF daemon, holds, IInv, Stages, Timely, Heard
<1>6. Covered' /\ ClaimInTime' /\ EscrowInTime'
  BY <1>1 DEF Covered, ClaimInTime, EscrowInTime
<1> QED
  BY <1>3, <1>4, <1>5, <1>6 DEF IInv

LEMMA NothingForfeitedIsLost ==
  ASSUME AreWindows, IInv, NEW reason, beginClose(reason),
         st \in Expiring \/ now <= deadline + DEADLINE_GRACE + ESCROW_HOLD_MARGIN
  PROVE  DepositsAreLong => ForfeitIsThere'
<1> SUFFICES ASSUME DepositsAreLong PROVE ~ lost'
  BY DEF ForfeitIsThere
<1>1. customer.status # "back" /\ sponsor.status # "back"
  BY DepositIsThere, ExpiringIsEarly
<1>2. Forfeits(reason) \in {customer, sponsor, NoHold}
  BY DEF Forfeits
<1>3. NoHold.status # "back"
  BY DEF NoHold
<1>4. Forfeits(reason).status # "back"
  BY <1>1, <1>2, <1>3
<1> QED
  BY <1>4 DEF beginClose

LEMMA Closes ==
  ASSUME AreWindows, IInv, CustomerWins \/ CloseUnpaid \/ CloseExpired \/ closeForEscrowEnd
  PROVE  IInv'
<1>1. CASE CustomerWins
  <2>1. beginClose("customer_wins") /\ why' = "customer_wins"
        /\ now <= deadline + DEADLINE_GRACE + ESCROW_HOLD_MARGIN
    BY <1>1 DEF CustomerWins, beginClose
  <2>2. Decided'
    BY <2>1, NothingForfeitedIsLost DEF Decided, InvoiceHadTime, RemitInTimeIsHeard
  <2>3. "customer_wins" \in Reasons
    BY DEF Reasons
  <2> QED
    BY <2>1, <2>2, <2>3, ClosesWith
<1>2. CASE CloseUnpaid
  <2>1. beginClose("cancel:unpaid-escrow") /\ why' = "cancel:unpaid-escrow" /\ st \in Expiring
    BY <1>2 DEF CloseUnpaid, EscrowUnpaid, beginClose, Expiring
  <2>2. Decided'
    BY <2>1, NothingForfeitedIsLost DEF Decided, InvoiceHadTime, RemitInTimeIsHeard
  <2>3. "cancel:unpaid-escrow" \in Reasons
    BY DEF Reasons
  <2> QED
    BY <2>1, <2>2, <2>3, ClosesWith
<1>3. CASE CloseExpired \/ closeForEscrowEnd
  <2>1. beginClose(expiryReasonFor) /\ st \in Expiring
        /\ UNCHANGED <<now, away, escrowedAt, remitAt, deadline>> /\ why' = expiryReasonFor
    BY <1>3 DEF CloseExpired, Expired, closeForEscrowEnd, EndsEarly, beginClose, daemon
  <2>2. expiryReasonFor \in Reasons
    BY DEF expiryReasonFor, Reasons
  <2>3. /\ expiryReasonFor = "expired:no-invoice" => st = "escrowed"
        /\ expiryReasonFor = "expired:no-remit" => st = "invoiced"
    BY DEF expiryReasonFor
  <2>4. EscrowIsLong => up /\ warm /\ now > closeAt
    BY <1>3, <2>1, EscrowIsFar DEF CloseExpired, Expired, closeForEscrowEnd, EndsEarly
  <2>5. EscrowIsLong => InvoiceHadTime'
    <3> SUFFICES ASSUME EscrowIsLong, st = "escrowed", away = 0
                 PROVE  now - escrowedAt > Lesser(INVOICE_WINDOW, ESCROW_PAY_LEAD + DEADLINE_GRACE)
      BY <2>1, <2>3 DEF InvoiceHadTime, Lesser
    <3>1. now > invoiceDeadline
      BY <2>4 DEF closeAt
    <3> QED
      BY <3>1 DEF IInv, TypeOK, EscrowInTime, Lesser, AreWindows
  <2>6. EscrowIsLong => RemitInTimeIsHeard'
    <3> SUFFICES ASSUME EscrowIsLong, st = "invoiced", RemitCounts
                 PROVE  FALSE
      BY <2>1, <2>3 DEF RemitInTimeIsHeard, RemitCounts
    <3>1. now > deadline + DEADLINE_GRACE
      BY <2>4 DEF closeAt
    <3>2. remitAt = now
      BY <2>4 DEF IInv, Heard
    <3> QED
      BY <3>1, <3>2 DEF RemitCounts, IInv, TypeOK, AreWindows
  <2>7. Decided'
    BY <2>1, <2>5, <2>6, NothingForfeitedIsLost DEF Decided
  <2> QED
    BY <2>1, <2>2, <2>7, ClosesWith
<1> QED
  BY <1>1, <1>2, <1>3

-----------------------------------------------------------------------------
(* Time. *)

\* A claim whose deposit is paid in time can be approved.
LEMMA ClaimIsInTime ==
  ASSUME AreWindows, IInv, PayWindowIsWhole
  PROVE  LateClaimIsApproved
<1> SUFFICES ASSUME st = "claimed", sponsor.status = "held", away = 0
             PROVE  ~ TooLate
  BY DEF LateClaimIsApproved
<1>1. now + ESCROW_PAY_LEAD + MIN_ESCROW_PAY_WINDOW <= deadline /\ now \in Nat /\ deadline \in Nat
  BY DEF IInv, TypeOK, ClaimInTime
<1> QED
  BY <1>1 DEF PayWindowIsWhole, TooLate, escrowPayBy, Lesser, AreWindows

LEMMA Blocks ==
  ASSUME NEW h \in Holds, NEW top \in Int
  PROVE  /\ AfterBlocks(h, top) \in Holds
         /\ AfterBlocks(h, top).payBy = h.payBy /\ AfterBlocks(h, top).cltv = h.cltv
         /\ AfterBlocks(h, top).expiry = h.expiry /\ AfterBlocks(h, top).seen = h.seen
         /\ AfterBlocks(h, top).status = IF h.status = "held" /\ h.expiry - top <= HoldExpiryDelta
                                         THEN "back" ELSE h.status
<1>1. CASE h.status = "held" /\ h.expiry - top <= HoldExpiryDelta
  BY <1>1 DEF AfterBlocks, Holds
<1>2. CASE ~ (h.status = "held" /\ h.expiry - top <= HoldExpiryDelta)
  BY <1>2 DEF AfterBlocks
<1> QED
  BY <1>1, <1>2

\* The blocks of the downtime that is left.
LEMMA OneMore ==
  ASSUME NEW burst \in Nat, NEW most \in Nat, NEW gone \in Nat, NEW next \in Nat, next = gone + 1
  PROVE  burst * (most - gone) = burst * (most - next) + burst
<1>1. most - gone = (most - next) + 1
  OBVIOUS
<1>2. ASSUME NEW i \in Int PROVE burst * (i + 1) = burst * i + burst
  OBVIOUS
<1> QED
  BY <1>1, <1>2

LEMMA Fewer ==
  ASSUME NEW burst \in Nat, NEW most \in Nat, NEW gone \in 0..most
  PROVE  burst * (most - gone) <= burst * most
<1>1. burst * (most - gone) = burst * most - burst * gone /\ burst * gone >= 0 /\ burst * gone \in Int
      /\ burst * most \in Int
  OBVIOUS
<1> QED
  BY <1>1

\* What the chain does to a hold in one unit of time.
Aged(h, g) ==
  /\ g \in Holds /\ g.payBy = h.payBy /\ g.cltv = h.cltv /\ g.expiry = h.expiry /\ g.seen = h.seen
  /\ g.status = IF h.status = "held" /\ h.expiry - height' <= HoldExpiryDelta THEN "back" ELSE h.status

LEMMA TimePasses ==
  ASSUME AreWindows, IInv, Pass
  PROVE  IInv'
<1>1. /\ st # "closed" /\ now' = now + 1 /\ UNCHANGED <<up, warm, trade>> /\ height' - now' <= Drift
      /\ \/ up /\ Nothing /\ away' = away
         \/ ~ up /\ away < MaxAway /\ away' = away + 1
      /\ \E b \in 1..Burst : height' = height + b
  BY DEF Pass
<1>2. /\ height' \in Nat /\ height' > height /\ height' <= height + Burst /\ now \in Nat /\ height \in Nat
      /\ deadline \in Nat /\ invoiceDeadline \in Nat /\ escrowedAt \in Nat /\ remitAt \in Int
      /\ away \in 0..MaxAway /\ away' \in 0..MaxAway
  BY <1>1 DEF IInv, TypeOK, AreWindows
<1>3. Aged(customer, customer') /\ Aged(sponsor, sponsor') /\ Aged(escrow, escrow')
  <2>1. /\ customer' = AfterBlocks(customer, height') /\ sponsor' = AfterBlocks(sponsor, height')
        /\ escrow' = AfterBlocks(escrow, height')
    BY DEF Pass
  <2>2. height' \in Int /\ customer \in Holds /\ sponsor \in Holds /\ escrow \in Holds
    BY <1>2 DEF IInv, TypeOK
  <2> QED
    BY <2>1, <2>2, Blocks DEF Aged
<1>4. \A h \in {customer, sponsor, escrow} : h.expiry \in Int /\ h.cltv \in Int /\ h.payBy \in Int
  BY DEF IInv, TypeOK, Holds
<1>5. TypeOK'
  <2>1. {customer', sponsor', escrow'} \subseteq Holds
    BY <1>3 DEF Aged
  <2> QED
    BY <1>1, <1>2, <2>1 DEF trade, IInv, TypeOK
<1>6. Long'
  <2>1. EndedIsBack(customer)' /\ EndedIsBack(sponsor)' /\ EndedIsBack(escrow)'
    <3>1. ASSUME NEW h, NEW g, h.expiry \in Int, Aged(h, g), EndedIsBack(h)
          PROVE  g.status = "back" => g.expiry - height' <= HoldExpiryDelta
      <4>1. HoldExpiryDelta \in Nat
        BY DEF AreWindows
      <4>2. h.status = "back" => h.expiry - height' <= HoldExpiryDelta
        BY <1>2, <3>1, <4>1 DEF EndedIsBack
      <4> QED
        BY <3>1, <4>2 DEF Aged
    <3>2. EndedIsBack(customer) /\ EndedIsBack(sponsor) /\ EndedIsBack(escrow)
      BY DEF IInv, Long
    <3> QED
      BY <1>3, <1>4, <3>1, <3>2 DEF EndedIsBack
  <2>2. /\ Lasts(customer, deadline + DEPOSIT_MARGIN)' /\ Lasts(sponsor, deadline + DEPOSIT_MARGIN)'
        /\ Lasts(escrow, deadline + DEADLINE_GRACE + ESCROW_HOLD_MARGIN)'
    <3>1. /\ deadline' = deadline /\ now' > now /\ now' \in Int
          /\ deadline + DEPOSIT_MARGIN \in Int /\ deadline + DEADLINE_GRACE + ESCROW_HOLD_MARGIN \in Int
      BY <1>1, <1>2 DEF trade, AreWindows
    <3>2. ASSUME NEW h, NEW g, NEW top \in Int, h.cltv \in Int, Aged(h, g), Lasts(h, top)
          PROVE  /\ g.status = "open" => g.cltv + now' >= top
                 /\ g.status \in {"held", "back", "settled"} => g.expiry >= top
      BY <1>2, <3>1, <3>2 DEF Aged, Lasts
    <3>3. /\ Lasts(customer, deadline + DEPOSIT_MARGIN) /\ Lasts(sponsor, deadline + DEPOSIT_MARGIN)
          /\ Lasts(escrow, deadline + DEADLINE_GRACE + ESCROW_HOLD_MARGIN)
      BY DEF IInv, Long
    <3> QED
      BY <1>3, <1>4, <3>1, <3>2, <3>3 DEF Lasts
  <2>3. customer'.status \in {"held", "back"}
    BY <1>3 DEF Aged, IInv, Long
  <2> QED
    BY <1>1, <2>1, <2>2, <2>3 DEF trade, IInv, Long
<1>7. Stages'
  <2>1. st' = st /\ why' = why /\ remitAt' = remitAt
    BY <1>1 DEF trade
  <2>2. escrow'.seen = escrow.seen /\ (escrow.seen => escrow'.status \in {"held", "back", "settled"})
        /\ (escrow'.status = "settled" => escrow.status = "settled")
    BY <1>3 DEF Aged, IInv, Stages
  <2>3. st = "requested" => sponsor' = NoHold
    <3>1. NoHold.status = "none"
      BY DEF NoHold
    <3>2. st = "requested" => sponsor = NoHold
      BY DEF IInv, Stages
    <3>3. sponsor' = AfterBlocks(sponsor, height')
      BY DEF Pass
    <3> QED
      BY <3>1, <3>2, <3>3 DEF AfterBlocks
  <2> QED
    BY <2>1, <2>2, <2>3 DEF IInv, Stages
\* The clock of a daemon that is up has nothing left to do.
<1>8. up => /\ ~ Unseen(sponsor) /\ ~ Unseen(escrow) /\ warm /\ away' = away
            /\ ~ CanApprove /\ ~ (st \in Expiring /\ now > closeAt)
            /\ ~ (st = "claimed" /\ sponsor.status = "none")
            /\ ~ EndsEarly /\ ~ MustSettle /\ ~ (st = "invoiced" /\ RemitCounts) /\ ~ EscrowUnpaid
  BY <1>1 DEF Nothing, Polled, Expired
<1>9. Timely'
  <2>0. st' = st /\ deadline' = deadline /\ invoiceDeadline' = invoiceDeadline /\ escrowedAt' = escrowedAt
    BY <1>1 DEF trade
  <2>1. CASE ~ up
    <3>1. away' = away + 1 /\ now' = now + 1
      BY <1>1, <2>1
    <3> QED
      BY <1>2, <2>0, <3>1 DEF IInv, Timely, AreWindows
  <2>2. CASE up
    <3>1. now' = now + 1 /\ away' = away /\ away >= 0
      BY <1>1, <1>2, <1>8, <2>2
    <3>2. st \in {"requested", "claimed", "verified"} => now <= deadline
      BY <1>2, <1>8, <2>2 DEF closeAt, Expiring
    <3>3. st = "escrowed" => now <= invoiceDeadline
      BY <1>2, <1>8, <2>2 DEF closeAt, Expiring
    <3>4. st = "invoiced" => now <= deadline + DEADLINE_GRACE
      BY <1>2, <1>8, <2>2 DEF closeAt, Expiring, AreWindows
    <3> QED
      BY <1>2, <2>0, <3>1, <3>2, <3>3, <3>4 DEF IInv, Timely, AreWindows
  <2> QED
    BY <2>1, <2>2
<1>10. Heard'
  <2>1. RemitCounts' = RemitCounts /\ st' = st /\ remitAt' = remitAt /\ up' = up /\ warm' = warm
    BY <1>1 DEF trade, RemitCounts
  <2> QED
    BY <1>1, <1>2, <1>8, <2>1 DEF IInv, Heard
<1>11. Covered'
  <2> SUFFICES ASSUME SleepIsShort, st \in {"invoiced", "remitted"}, escrow.status # "settled"
               PROVE  /\ escrow'.status = "held"
                      /\ escrow.expiry - height' > HoldExpiryDelta + Burst * (MaxAway - away')
    BY <1>1, <1>3 DEF trade, Covered, Aged
  <2>1. /\ escrow.status = "held" /\ escrow.expiry \in Int /\ escrow.seen
        /\ escrow.expiry - height > HoldExpiryDelta + Burst * (MaxAway - away)
    BY <1>4 DEF IInv, Covered, Stages
  <2>2. /\ Burst \in Nat /\ MaxAway \in Nat /\ HoldExpiryDelta \in Nat /\ Burst * (MaxAway - away') >= 0
        /\ Burst * (MaxAway - away') \in Int
    BY <1>2 DEF AreWindows
  <2>3. escrow.expiry - height' > HoldExpiryDelta + Burst * (MaxAway - away')
    <3>1. CASE ~ up
      <4>1. Burst * (MaxAway - away) = Burst * (MaxAway - away') + Burst
        <5>1. away' = away + 1
          BY <1>1, <3>1
        <5> QED
          BY <1>2, <2>2, <5>1, OneMore
      <4> QED
        <5> DEFINE before == Burst * (MaxAway - away)
                   left == Burst * (MaxAway - away')
        <5>1. /\ before = left + Burst /\ left \in Int /\ Burst \in Nat /\ HoldExpiryDelta \in Nat
              /\ escrow.expiry - height > HoldExpiryDelta + before
          BY <2>1, <2>2, <4>1
        <5> HIDE DEF before, left
        <5>2. escrow.expiry - height' > HoldExpiryDelta + left
          BY <1>2, <2>1, <5>1
        <5> QED
          BY <5>2 DEF left
    <3>2. CASE up
      <4>1. escrow.expiry - height > SAFETY_SETTLE_BLOCKS
        <5>1. CASE st = "remitted"
          BY <1>2, <1>8, <2>1, <3>2, <5>1 DEF MustSettle, Polled, escrowEnding, AreWindows
        <5>2. CASE st = "invoiced"
          <6>1. ~ Expired
            BY <1>8, <3>2 DEF Expired
          <6> QED
            BY <1>2, <1>8, <2>1, <3>2, <5>2, <6>1 DEF EndsEarly, Polled, escrowEnding, Expiring, AreWindows
        <5> QED
          BY <5>1, <5>2
      <4>2. Burst * (MaxAway - away') <= Burst * MaxAway
        BY <1>2, <2>2, Fewer
      <4>3. Burst * (MaxAway + 1) = Burst * MaxAway + Burst /\ Burst * MaxAway \in Int
        BY <2>2
      <4> QED
        BY <1>2, <2>1, <2>2, <4>1, <4>2, <4>3 DEF SleepIsShort, AreWindows
    <3> QED
      BY <3>1, <3>2
  <2>4. escrow'.status = "held"
    BY <1>2, <1>3, <2>1, <2>2, <2>3 DEF Aged
  <2> QED
    BY <2>3, <2>4
<1>12. ClaimInTime'
  <2> SUFFICES ASSUME PayWindowIsWhole, away' = 0, st = "claimed"
               PROVE  /\ sponsor'.status # "none" /\ sponsor'.status # "held"
                      /\ sponsor'.status = "open" =>
                           sponsor'.payBy + ESCROW_PAY_LEAD + MIN_ESCROW_PAY_WINDOW <= deadline
    BY <1>1 DEF trade, ClaimInTime
  <2>1. up /\ away = 0
    BY <1>1, <1>2
  <2>2. sponsor.status # "none" /\ (sponsor'.status = "held" => sponsor.status = "held")
        /\ (sponsor'.status = "none" => sponsor.status = "none")
        /\ (sponsor'.status = "open" => sponsor.status = "open") /\ sponsor'.payBy = sponsor.payBy
    BY <1>3, <1>8, <2>1 DEF Aged
  <2>3. sponsor.status # "held"
    <3> SUFFICES ASSUME sponsor.status = "held" PROVE FALSE
      OBVIOUS
    <3>1. ~ TooLate
      BY <2>1, ClaimIsInTime DEF LateClaimIsApproved
    <3> QED
      BY <1>8, <2>1, <3>1 DEF CanApprove, Polled
  <2> QED
    BY <2>1, <2>2, <2>3 DEF IInv, ClaimInTime
<1>13. EscrowInTime'
  <2>1. /\ escrow'.payBy = escrow.payBy /\ (escrow'.status = "open" => escrow.status = "open")
        /\ (Unseen(escrow') => Unseen(escrow))
    BY <1>3 DEF Aged, Unseen
  <2>2. away' = 0 => away = 0 /\ up
    BY <1>1, <1>2
  <2> QED
    BY <1>1, <1>8, <2>1, <2>2 DEF trade, IInv, EscrowInTime, Unseen
<1>14. Decided'
  <2>1. why' = "none" /\ lost' = lost
    BY <1>1 DEF trade, IInv, Stages
  <2> QED
    BY <2>1 DEF IInv, Decided, ForfeitIsThere, InvoiceHadTime, RemitInTimeIsHeard
<1> QED
  BY <1>5, <1>6, <1>7, <1>9, <1>10, <1>11, <1>12, <1>13, <1>14 DEF IInv

-----------------------------------------------------------------------------
LEMMA Steps ==
  ASSUME AreWindows, IInv, [Next]_vars
  PROVE  IInv'
<1>1. CASE Party
  BY <1>1, PartiesAct, PaysDeposit, PaysEscrow, Closes DEF Party
<1>2. CASE Clock
  BY <1>2, Sees, PlansDeposit, Approves, Closes, Settles DEF Clock
<1>3. CASE Pass
  BY <1>3, TimePasses
<1>4. CASE GoDown \/ Start \/ WarmUp
  BY <1>4, Restarts
<1>5. CASE UNCHANGED vars
  <2>1. UNCHANGED <<now, height, daemon, trade, holds>>
    BY <1>5 DEF vars
  <2>2. UNCHANGED <<away, up, warm, st, deadline, why, escrowedAt, invoiceDeadline, accountSent, remitAt,
                    lost, customer, sponsor, escrow>>
    BY <2>1 DEF daemon, trade, holds
  <2>3. TypeOK' /\ Long' /\ Stages' /\ Timely' /\ Heard' /\ Covered'
    BY <2>1, <2>2 DEF IInv, TypeOK, Long, EndedIsBack, Lasts, Stages, Timely, Heard, RemitCounts, Covered
  <2>4. ClaimInTime' /\ EscrowInTime'
    BY <2>1, <2>2 DEF IInv, ClaimInTime, EscrowInTime, Unseen, Lesser
  <2>5. Decided'
    BY <2>1, <2>2, Stays DEF IInv
  <2> QED
    BY <2>3, <2>4, <2>5 DEF IInv
<1> QED
  BY <1>1, <1>2, <1>3, <1>4, <1>5 DEF Next

LEMMA Invariant == ASSUME AreWindows PROVE Spec => []IInv
<1>1. Init => IInv
  BY Starts
<1>2. IInv /\ [Next]_vars => IInv'
  BY Steps
<1> QED
  BY <1>1, <1>2, PTL DEF Spec

-----------------------------------------------------------------------------
\* The variables stay in their ranges.
THEOREM TypeCorrect == ASSUME AreWindows PROVE Spec => []TypeOK
<1>1. IInv => TypeOK
  BY DEF IInv
<1> QED
  BY <1>1, Invariant, PTL

\* Nobody's money waits for a party who has gone (expiryReasonFor, every state of it).
THEOREM TradesEndInTime == ASSUME AreWindows PROVE Spec => []EndsInTime
<1>1. IInv => EndsInTime
  <2> SUFFICES ASSUME IInv PROVE EndsInTime
    OBVIOUS
  <2>1. st \in Expiring => now <= deadline + DEADLINE_GRACE + MaxAway + 1
    BY ExpiringIsEarly
  <2>2. st = "escrowed" => now <= escrowedAt + INVOICE_WINDOW + MaxAway + 1
    BY DEF IInv, TypeOK, Timely, AreWindows
  <2> QED
    BY <2>1, <2>2 DEF EndsInTime
<1> QED
  BY <1>1, Invariant, PTL

\* While the KRW may be on its way the node has the escrow (SAFETY_SETTLE_BLOCKS,
\* ESCROW_END_BLOCKS), for as long an outage as the safety settlement leaves blocks for.
THEOREM KrwStaysCovered == ASSUME AreWindows, SleepIsShort PROVE Spec => []KrwIsCovered
<1>1. IInv => KrwIsCovered
  BY DEF IInv, Covered, KrwIsCovered
<1> QED
  BY <1>1, Invariant, PTL

\* A deposit that a close takes is still held (LN_DEPOSIT_MARGIN_SEC, beginClose).
THEOREM DepositsAreThere == ASSUME AreWindows, DepositsAreLong PROVE Spec => []ForfeitIsThere
<1>1. IInv => ForfeitIsThere
  BY DEF IInv, Decided
<1> QED
  BY <1>1, Invariant, PTL

\* The last claim that is accepted can still be approved (MIN_CLAIM_LEAD_SEC, approve).
THEOREM LateClaimsAreApproved ==
  ASSUME AreWindows, PayWindowIsWhole PROVE Spec => []LateClaimIsApproved
<1>1. IInv => LateClaimIsApproved
  BY ClaimIsInTime
<1> QED
  BY <1>1, Invariant, PTL

\* Nobody loses a deposit for an invoice he had no window for (invoiceDeadlineFor,
\* closeForEscrowEnd).
THEOREM InvoicesHaveTime == ASSUME AreWindows, EscrowIsLong PROVE Spec => []InvoiceHadTime
<1>1. IInv => InvoiceHadTime
  BY DEF IInv, Decided
<1> QED
  BY <1>1, Invariant, PTL

\* A remittance reported before the grace was over is not closed over (CATCHUP_WARMUP_SEC).
THEOREM RemittancesAreHeard == ASSUME AreWindows, EscrowIsLong PROVE Spec => []RemitInTimeIsHeard
<1>1. IInv => RemitInTimeIsHeard
  BY DEF IInv, Decided
<1> QED
  BY <1>1, Invariant, PTL

-----------------------------------------------------------------------------
(* OcWindows. *)

-------------------------------------------------------------------------------
(* The inductive invariant. *)

Trading == {"bonded", "funded", "presigned", "remitted", "disputed", "held"}

\* What may still follow the deadline of a state.
Rest ==
  CASE st = "bonded"                 -> Oc!MAX_OPTION_WINDOW - 3 + COSIGN_WINDOW + DISPUTE_RULING_BUDGET
    [] st = "funded"                 -> ACCOUNT_WINDOW + KRW_WINDOW - 3 + COSIGN_WINDOW + DISPUTE_RULING_BUDGET
    [] st = "presigned" /\ ~ account -> KRW_WINDOW - 2 + COSIGN_WINDOW + DISPUTE_RULING_BUDGET
    [] st = "presigned" /\ account   -> COSIGN_WINDOW - 1 + DISPUTE_RULING_BUDGET
    [] st = "remitted"               -> DISPUTE_RULING_BUDGET
    [] OTHER                         -> 0

\* What the reorganisations the trade has been set back for have cost.
SetBack == reorgs * Oc!Again - (IF Oc!Awaits /\ chain # "deep" THEN Oc!Again ELSE 0)

\* How far deadlines may reach in the life of a bond.
Room(bond) == bond.expiry - CLTV_SAFETY_MARGIN - 3 + SetBack + away

Fits(bond) ==
  /\ st = "bonded" => due + Rest <= Room(bond)
  /\ st \in Trading => due + Rest <= Room(bond) + MaxConfirm
  /\ st \in {"bonded", "funded", "presigned", "remitted"} => now + Rest <= Room(bond) + MaxConfirm
  /\ Oc!Awaits /\ Oc!InTime => now + 1 + Rest <= Room(bond) + MaxConfirm

OcEndedIsBack(bond) == bond.status = "back" => bond.expiry - height <= HoldExpiryDelta

OcLong ==
  /\ customer.status \in {"held", "back"} /\ OcEndedIsBack(customer) /\ OcEndedIsBack(sponsor)
  /\ st = "listed" => /\ sponsor.status \in {"none", "open"}
                      /\ customer.expiry = expiration + Oc!MAX_TRADE_DURATION + CLTV_SAFETY_MARGIN
  /\ sponsor.status = "open" => sponsor.cltv >= Oc!MAX_TRADE_DURATION + CLTV_SAFETY_MARGIN
  /\ st \in Trading => Fits(customer) /\ Fits(sponsor)

OcStages ==
  /\ st \in {"listed", "bonded", "funded"} => ~ account /\ ~ objected
  /\ st = "held" => objected
  /\ Oc!Awaits => chain # "confirming"
  /\ st \notin Trading \cup {"decided"} => st = "listed"
  /\ why # "none" => st = "decided"

\* Each deadline is a window after its anchor, and the open price is bounded.
Window == CASE st = "bonded"                 -> FUNDING_WINDOW
            [] st = "funded"                 -> PRESIGN_WINDOW
            [] st = "presigned" /\ ~ account -> ACCOUNT_WINDOW
            [] OTHER                         -> KRW_WINDOW
Opened == CASE st = "funded"                 -> PRESIGN_WINDOW
            [] st = "presigned" /\ ~ account -> PRESIGN_WINDOW + ACCOUNT_WINDOW
            [] OTHER                         -> Oc!MAX_OPTION_WINDOW
Stamped ==
  /\ st = "bonded" \/ Oc!Awaits => due = anchor + Window
  /\ Oc!Awaits => due <= fundedAt + Opened + away /\ now <= fundedAt + Opened + away

\* A request in time is handled before time goes on, or before the warm-up is over.
OcHeard == /\ warm => up
           /\ warm /\ Oc!Awaits /\ Oc!InTime => sentAt = now

OcDecided == /\ Oc!NobodyInTimeIsLate /\ Oc!WindowIsWhole /\ Oc!ReorgIsNobodysFault
             /\ Oc!MarginIsWide => Oc!BondIsThere

OcIInv == Oc!TypeOK /\ OcLong /\ OcStages /\ Stamped /\ OcHeard /\ OcDecided

-------------------------------------------------------------------------------
LEMMA Product ==
  ASSUME NEW n \in Nat, NEW m \in Nat, NEW k \in Nat, n <= m
  PROVE  n * k \in Nat /\ n * k <= m * k /\ (n + 1) * k = n * k + k
<1>1. n * k \in Nat
  OBVIOUS
<1>2. (n + 1) * k = n * k + k
  OBVIOUS
<1>3. PICK d \in Nat : m = n + d
  <2> m - n \in Nat /\ m = n + (m - n)
    OBVIOUS
  <2> QED
    OBVIOUS
<1>4. m * k = n * k + d * k
  BY <1>3
<1>5. d * k \in Nat
  OBVIOUS
<1> QED
  BY <1>1, <1>2, <1>4, <1>5

LEMMA Windows ==
  ASSUME Oc!AreWindows
  PROVE  /\ MAX_ORDER_EXPIRY \in Nat /\ MAX_ORDER_EXPIRY > 0 /\ FUNDING_WINDOW \in Nat /\ FUNDING_WINDOW > 0
         /\ PRESIGN_WINDOW \in Nat /\ PRESIGN_WINDOW > 0 /\ ACCOUNT_WINDOW \in Nat /\ ACCOUNT_WINDOW > 0
         /\ KRW_WINDOW \in Nat /\ KRW_WINDOW > 0 /\ COSIGN_WINDOW \in Nat /\ COSIGN_WINDOW > 0
         /\ DISPUTE_RULING_BUDGET \in Nat /\ DISPUTE_RULING_BUDGET > 0
         /\ CLTV_SAFETY_MARGIN \in Nat /\ HoldExpiryDelta \in Nat
         /\ Drift \in Nat /\ MaxAway \in Nat /\ MaxConfirm \in Nat /\ MaxReorgs \in Nat
         /\ Oc!Again \in Nat /\ Oc!Again = FUNDING_WINDOW + MaxConfirm + Oc!MAX_OPTION_WINDOW - 2
         /\ Oc!MAX_OPTION_WINDOW = PRESIGN_WINDOW + ACCOUNT_WINDOW + KRW_WINDOW
BY DEF Oc!AreWindows, Oc!Again, Oc!MAX_OPTION_WINDOW

LEMMA Costs ==
  ASSUME Oc!AreWindows, Oc!TypeOK
  PROVE  /\ reorgs * Oc!Again \in Nat /\ MaxReorgs * Oc!Again \in Nat
         /\ (reorgs + 1) * Oc!Again = reorgs * Oc!Again + Oc!Again
         /\ reorgs * Oc!Again <= MaxReorgs * Oc!Again
<1>1. Oc!Again \in Nat /\ MaxReorgs \in Nat /\ reorgs \in Nat /\ reorgs <= MaxReorgs
  BY Windows DEF Oc!TypeOK
<1> QED
  BY <1>1, Product

LEMMA OcStarts ==
  ASSUME Oc!AreWindows, Oc!Init
  PROVE  OcIInv
<1> USE DEF Oc!Init
<1>1. expiration \in Nat /\ Oc!MAX_TRADE_DURATION \in Nat /\ CLTV_SAFETY_MARGIN \in Nat
  BY Windows DEF Oc!MAX_TRADE_DURATION
<1>2. Oc!TypeOK
  <2>1. {customer, sponsor} \subseteq Oc!Bonds
    BY <1>1 DEF Oc!NoBond, Oc!Bonds
  <2>2. up \in BOOLEAN /\ warm \in BOOLEAN /\ account \in BOOLEAN /\ objected \in BOOLEAN /\ lost \in BOOLEAN
    OBVIOUS
  <2> QED
    BY <1>1, <2>1, <2>2, Windows DEF Oc!TypeOK, Oc!NoBond
<1>3. OcLong
  BY <1>1 DEF OcLong, OcEndedIsBack, Trading, Oc!NoBond
<1>4. OcStages /\ Stamped /\ OcHeard /\ OcDecided
  BY DEF OcStages, Stamped, OcHeard, OcDecided, Oc!Awaits, Trading, Oc!NobodyInTimeIsLate, Oc!WindowIsWhole,
     Oc!ReorgIsNobodysFault, Oc!BondIsThere
<1> QED
  BY <1>2, <1>3, <1>4 DEF OcIInv

\* A step that leaves a bond and what it is measured against as they are.
LEMMA ClaimStep ==
  ASSUME Oc!AreWindows, OcIInv, Oc!Claim
  PROVE  OcIInv'
<1> USE DEF Oc!Claim
<1>0. UNCHANGED <<Oc!clocks, Oc!order, chain, reorgs, customer>> /\ expiration > now
  OBVIOUS
<1>1. Oc!depositCltvBlocks \in Nat /\ Oc!depositCltvBlocks >= Oc!MAX_TRADE_DURATION + CLTV_SAFETY_MARGIN
  BY Windows DEF Oc!depositCltvBlocks, Oc!MAX_TRADE_DURATION, OcIInv, Oc!TypeOK
<1>2. sponsor' \in Oc!Bonds /\ sponsor'.status = "open" /\ sponsor'.cltv = Oc!depositCltvBlocks
  BY <1>1 DEF Oc!Bonds
<1>3. Oc!TypeOK'
  BY <1>0, <1>2 DEF Oc!clocks, Oc!order, OcIInv, Oc!TypeOK
<1>4. OcLong'
  BY <1>0, <1>1, <1>2 DEF Oc!clocks, Oc!order, OcIInv, OcLong, OcEndedIsBack, Trading
<1>5. OcStages' /\ Stamped' /\ OcHeard' /\ OcDecided'
  BY <1>0 DEF Oc!clocks, Oc!order, OcIInv, OcStages, Stamped, OcHeard, OcDecided, Oc!Awaits, Oc!InTime, Window, Opened,
     Oc!NobodyInTimeIsLate, Oc!WindowIsWhole, Oc!ReorgIsNobodysFault, Oc!BondIsThere
<1> QED
  BY <1>3, <1>4, <1>5 DEF OcIInv

LEMMA PaySponsorBondStep ==
  ASSUME Oc!AreWindows, OcIInv, Oc!PaySponsorBond
  PROVE  OcIInv'
<1> USE DEF Oc!PaySponsorBond, Oc!Moves
<1>0. /\ st = "listed" /\ st' = "bonded" /\ now <= expiration /\ anchor' = now /\ sentAt' = -1
      /\ due' = now + FUNDING_WINDOW /\ sponsor.status = "open"
      /\ UNCHANGED <<Oc!clocks, why, expiration, fundedAt, account, objected, lost, chain, reorgs, customer>>
  OBVIOUS
<1>1. sponsor' \in Oc!Bonds /\ sponsor'.status = "held" /\ sponsor'.expiry = height + sponsor.cltv
  <2>1. height \in Int /\ sponsor.cltv \in Int /\ sponsor \in Oc!Bonds
    BY Windows DEF OcIInv, Oc!TypeOK, Oc!Bonds
  <2>2. sponsor' = [sponsor EXCEPT !.status = "held", !.expiry = height + sponsor.cltv]
    OBVIOUS
  <2> HIDE DEF Oc!PaySponsorBond
  <2> DEFINE g == [sponsor EXCEPT !.status = "held"]
  <2>6. g \in Oc!Bonds
    BY <2>1 DEF Oc!Bonds
  <2>7. [g EXCEPT !.expiry = height + sponsor.cltv] \in Oc!Bonds
    <3>1. height + sponsor.cltv \in Int
      BY <2>1
    <3> HIDE DEF g
    <3> QED
      BY <2>6, <3>1 DEF Oc!Bonds
  <2>3. sponsor' \in Oc!Bonds
    BY <2>2, <2>7
  <2>4. sponsor'.status = "held"
    BY <2>1, <2>2 DEF Oc!Bonds
  <2>5. sponsor'.expiry = height + sponsor.cltv
    BY <2>1, <2>2 DEF Oc!Bonds
  <2> QED
    BY <2>3, <2>4, <2>5
<1>2. Oc!TypeOK'
  BY <1>0, <1>1, Windows DEF Oc!clocks, OcIInv, Oc!TypeOK
<1>3. ~ Oc!Awaits' /\ ~ Oc!Awaits /\ SetBack' = reorgs * Oc!Again /\ SetBack' \in Nat
  BY <1>0, Costs, Windows DEF Oc!Awaits, SetBack, Oc!Again, OcIInv
<1>4. ASSUME NEW b \in Oc!Bonds, b.expiry >= now + Oc!MAX_TRADE_DURATION + CLTV_SAFETY_MARGIN
      PROVE  Fits(b)'
  <2> DEFINE S == SetBack'
  <2>1. S \in Nat /\ now \in Nat /\ away \in Nat /\ b.expiry \in Int
    BY <1>3 DEF OcIInv, Oc!TypeOK, Oc!Bonds
  <2>2. due' + Rest' = now + Oc!MAX_TRADE_DURATION - 3 /\ now' + Rest' <= due' + Rest'
    BY <1>0, <2>1, Windows DEF Rest, Oc!MAX_TRADE_DURATION, Oc!clocks
  <2>3. Room(b)' = b.expiry - CLTV_SAFETY_MARGIN - 3 + S + away
    BY <1>0 DEF Room, Oc!clocks
  <2>4. Oc!MAX_TRADE_DURATION \in Nat /\ Rest' \in Int
    BY <1>0, Windows DEF Oc!MAX_TRADE_DURATION, Rest
  <2> HIDE DEF S
  <2> QED
    BY <1>0, <1>3, <1>4, <2>1, <2>2, <2>3, <2>4, Windows DEF Fits, Oc!clocks, OcIInv, Oc!TypeOK
<1>5. Fits(customer)' /\ Fits(sponsor)'
  <2>1. Oc!MAX_TRADE_DURATION \in Nat
    BY Windows DEF Oc!MAX_TRADE_DURATION
  <2>2. customer.expiry >= now + Oc!MAX_TRADE_DURATION + CLTV_SAFETY_MARGIN /\ customer \in Oc!Bonds
    BY <1>0, <2>1, Windows DEF OcIInv, OcLong, Oc!TypeOK
  <2>3. sponsor'.expiry >= now + Oc!MAX_TRADE_DURATION + CLTV_SAFETY_MARGIN
    BY <1>0, <1>1, <2>1, Windows DEF OcIInv, OcLong, Oc!TypeOK, Oc!Bonds
  <2>4. Fits(customer)'
    BY <1>0, <1>4, <2>2 DEF Fits, Room
  <2>5. Fits(sponsor)'
    BY <1>1, <1>4, <2>3 DEF Fits, Room
  <2> QED
    BY <2>4, <2>5
<1>6. OcLong'
  BY <1>0, <1>1, <1>5 DEF Oc!clocks, OcIInv, OcLong, OcEndedIsBack, Trading
<1>7. OcStages' /\ Stamped' /\ OcHeard' /\ OcDecided'
  BY <1>0, <1>3 DEF Oc!clocks, OcIInv, OcStages, Stamped, OcHeard, OcDecided, Oc!Awaits, Window, Trading,
     Oc!NobodyInTimeIsLate, Oc!WindowIsWhole, Oc!ReorgIsNobodysFault, Oc!BondIsThere
<1> QED
  BY <1>2, <1>6, <1>7 DEF OcIInv

\* What is as it was fits as it did.
LEMMA SameFits ==
  ASSUME Fits(customer), Fits(sponsor), SetBack' = SetBack,
         UNCHANGED <<now, away, st, due, account, sentAt, customer, sponsor>>
  PROVE  Fits(customer)' /\ Fits(sponsor)'
BY DEF Fits, Room, Rest, Oc!Awaits, Oc!InTime

LEMMA ChainStep ==
  ASSUME Oc!AreWindows, OcIInv, Oc!FundEscrow \/ Oc!Confirms \/ Oc!Reorg
  PROVE  OcIInv'
<1>0. UNCHANGED <<Oc!clocks, Oc!order, Oc!bonds>>
  BY DEF Oc!FundEscrow, Oc!Confirms, Oc!Reorg
<1>1. Oc!TypeOK'
  <2>1. chain' \in {"none", "confirming", "deep"}
    BY DEF Oc!FundEscrow, Oc!Confirms, Oc!Reorg
  <2>2. reorgs' \in 0..MaxReorgs
    BY Windows DEF OcIInv, Oc!TypeOK, Oc!FundEscrow, Oc!Confirms, Oc!Reorg
  <2> QED
    BY <1>0, <2>1, <2>2 DEF Oc!clocks, Oc!order, Oc!bonds, OcIInv, Oc!TypeOK
<1>2. SetBack' = SetBack
  <2>1. CASE Oc!FundEscrow \/ Oc!Confirms
    <3>1. ~ Oc!Awaits /\ ~ Oc!Awaits' /\ reorgs' = reorgs
      BY <1>0, <2>1 DEF Oc!order, Oc!FundEscrow, Oc!Confirms, Oc!Awaits, OcIInv, OcStages
    <3> QED
      BY <3>1 DEF SetBack, Oc!Again
  <2>2. CASE Oc!Reorg
    <3>1. Oc!Awaits /\ Oc!Awaits' /\ reorgs' = reorgs + 1 /\ chain = "deep" /\ chain' # "deep"
      BY <1>0, <2>2 DEF Oc!order, Oc!Reorg, Oc!Awaits
    <3>2. SetBack' = (reorgs + 1) * Oc!Again - Oc!Again /\ SetBack = reorgs * Oc!Again - 0
      BY <3>1 DEF SetBack, Oc!Again
    <3>3. (reorgs + 1) * Oc!Again = reorgs * Oc!Again + Oc!Again /\ Oc!Again \in Nat /\ reorgs * Oc!Again \in Nat
      BY Costs, Windows DEF OcIInv
    <3> DEFINE A == Oc!Again
               R == reorgs * Oc!Again
               R1 == (reorgs + 1) * Oc!Again
    <3>4. R1 - A = R - 0
      <4>1. R1 = R + A /\ A \in Nat /\ R \in Nat
        BY <3>3
      <4> HIDE DEF A, R, R1
      <4> QED
        BY <4>1
    <3> QED
      BY <3>2, <3>4
  <2> QED
    BY <2>1, <2>2
<1>3. OcLong'
  <2>1. st' \in Trading => Fits(customer)' /\ Fits(sponsor)'
    BY <1>0, <1>2, SameFits DEF Oc!clocks, Oc!order, Oc!bonds, OcIInv, OcLong
  <2> QED
    BY <1>0, <2>1 DEF Oc!clocks, Oc!order, Oc!bonds, OcIInv, OcLong, OcEndedIsBack
<1>4. OcStages' /\ Stamped' /\ OcHeard' /\ OcDecided'
  <2>1. Oc!Awaits' => chain' # "confirming"
    BY <1>0 DEF Oc!order, OcIInv, OcStages, Oc!Awaits, Oc!FundEscrow, Oc!Confirms, Oc!Reorg
  <2> QED
    BY <1>0, <2>1 DEF Oc!clocks, Oc!order, OcIInv, OcStages, Stamped, OcHeard, OcDecided, Oc!Awaits, Oc!InTime, Window, Opened,
       Oc!NobodyInTimeIsLate, Oc!WindowIsWhole, Oc!ReorgIsNobodysFault, Oc!BondIsThere
<1> QED
  BY <1>1, <1>3, <1>4 DEF OcIInv

LEMMA DaemonStep ==
  ASSUME Oc!AreWindows, OcIInv, Oc!GoDown \/ Oc!Start \/ Oc!WarmUp \/ UNCHANGED Oc!vars
  PROVE  OcIInv'
<1>0. UNCHANGED <<now, height, away, Oc!order, chain, reorgs, Oc!bonds>>
  BY DEF Oc!GoDown, Oc!Start, Oc!WarmUp, Oc!vars, Oc!clocks
<1>1. Oc!TypeOK'
  <2>1. up' \in BOOLEAN /\ warm' \in BOOLEAN
    <3>1. up \in BOOLEAN /\ warm \in BOOLEAN
      BY DEF OcIInv, Oc!TypeOK
    <3>2. (up' = up \/ up' = TRUE \/ up' = FALSE) /\ (warm' = warm \/ warm' = TRUE \/ warm' = FALSE)
      BY DEF Oc!GoDown, Oc!Start, Oc!WarmUp, Oc!vars, Oc!clocks
    <3> QED
      BY <3>1, <3>2
  <2> QED
    BY <1>0, <2>1 DEF Oc!order, Oc!bonds, OcIInv, Oc!TypeOK
<1>2. SetBack' = SetBack
  BY <1>0 DEF Oc!order, SetBack, Oc!Awaits, Oc!Again
<1>3. OcLong'
  <2>1. st' \in Trading => Fits(customer)' /\ Fits(sponsor)'
    BY <1>0, <1>2, SameFits DEF Oc!order, Oc!bonds, OcIInv, OcLong
  <2> QED
    BY <1>0, <2>1 DEF Oc!order, Oc!bonds, OcIInv, OcLong, OcEndedIsBack
<1>4. OcHeard'
  <2>1. warm' => up'
    BY DEF Oc!GoDown, Oc!Start, Oc!WarmUp, Oc!vars, Oc!clocks, OcIInv, OcHeard
  <2>2. warm' => warm \/ Oc!Handled
    BY DEF Oc!GoDown, Oc!Start, Oc!WarmUp, Oc!vars, Oc!clocks
  <2> QED
    BY <1>0, <2>1, <2>2 DEF Oc!order, OcIInv, OcHeard, Oc!Handled, Oc!Awaits, Oc!InTime
<1>5. OcStages' /\ Stamped' /\ OcDecided'
  BY <1>0 DEF Oc!order, OcIInv, OcStages, Stamped, OcDecided, Oc!Awaits, Oc!InTime, Window, Opened,
     Oc!NobodyInTimeIsLate, Oc!WindowIsWhole, Oc!ReorgIsNobodysFault, Oc!BondIsThere
<1> QED
  BY <1>1, <1>3, <1>4, <1>5 DEF OcIInv

LEMMA SendStep ==
  ASSUME Oc!AreWindows, OcIInv, Oc!Send
  PROVE  OcIInv'
<1> USE DEF Oc!Send
<1>0. /\ Oc!Awaits /\ Oc!Awaits' /\ sentAt = -1 /\ sentAt' = now
      /\ UNCHANGED <<Oc!clocks, st, why, expiration, anchor, due, fundedAt, account, objected, lost,
                     chain, reorgs, Oc!bonds>>
  BY DEF Oc!Awaits
<1>1. Oc!TypeOK'
  BY <1>0 DEF Oc!clocks, Oc!bonds, OcIInv, Oc!TypeOK
<1>2. SetBack' = SetBack /\ Rest' = Rest
  BY <1>0 DEF SetBack, Oc!Again, Rest
<1>3. Fits(customer)' /\ Fits(sponsor)'
  <2>1. ASSUME NEW b \in Oc!Bonds, Fits(b)
        PROVE  Fits(b)'
    <3>1. Room(b)' = Room(b) /\ Rest \in Int /\ now \in Nat /\ due \in Nat
      BY <1>0, <1>2, Windows DEF Room, Oc!clocks, Rest, OcIInv, Oc!TypeOK
    <3>2. Room(b) \in Int
      <4> DEFINE S == SetBack
      <4>1. S \in Int /\ b.expiry \in Int /\ away \in Nat
        BY Costs, Windows DEF OcIInv, SetBack, Oc!Bonds, Oc!TypeOK
      <4>2. Room(b) = b.expiry - CLTV_SAFETY_MARGIN - 3 + S + away
        BY DEF Room
      <4> HIDE DEF S
      <4> QED
        BY <4>1, <4>2, Windows
    <3>3. st \in Trading
      BY <1>0 DEF Oc!Awaits, Trading
    <3>4. Oc!InTime' => now + 1 + Rest <= Room(b) + MaxConfirm
      BY <1>0, <2>1, <3>1, <3>2, <3>3, Windows DEF Fits, Oc!InTime
    <3> QED
      BY <1>0, <1>2, <2>1, <3>1, <3>4 DEF Fits, Oc!clocks, Oc!Awaits
  <2>2. customer \in Oc!Bonds /\ sponsor \in Oc!Bonds /\ Fits(customer) /\ Fits(sponsor)
    BY <1>0 DEF OcIInv, Oc!TypeOK, OcLong, Oc!Awaits, Trading
  <2> QED
    BY <1>0, <2>1, <2>2 DEF Fits, Room, Oc!bonds
<1>4. OcLong'
  BY <1>0, <1>3 DEF Oc!clocks, Oc!bonds, OcIInv, OcLong, OcEndedIsBack
<1>5. OcStages' /\ Stamped' /\ OcHeard'
  BY <1>0 DEF Oc!clocks, OcIInv, OcStages, Stamped, OcHeard, Oc!Awaits, Oc!InTime, Window, Opened
<1>6. OcDecided'
  BY <1>0 DEF Oc!clocks, OcIInv, OcStages, OcDecided, Oc!Awaits, Oc!InTime,
     Oc!NobodyInTimeIsLate, Oc!WindowIsWhole, Oc!ReorgIsNobodysFault, Oc!BondIsThere
<1> QED
  BY <1>1, <1>4, <1>5, <1>6 DEF OcIInv

LEMMA Later ==
  ASSUME NEW d \in Int, NEW n \in Int, NEW q \in Int, NEW r \in Int, NEW x \in Int, NEW y \in Int,
         NEW m \in Int, d + r <= n + 1 + q, n <= d, n + 1 + q <= x + m, x <= y
  PROVE  d + r <= y + m /\ n + r <= y + m
OBVIOUS

LEMMA OcStays ==
  ASSUME NEW d \in Int, NEW n \in Int, NEW q \in Int, NEW r \in Int, NEW x \in Int, NEW m \in Int,
         d + r <= n + q, n <= d, n + q <= x + m
  PROVE  d + r <= x + m /\ n + r <= x + m
OBVIOUS

LEMMA Anew ==
  ASSUME NEW d \in Int, NEW n \in Int, NEW q \in Int, NEW r \in Int, NEW x \in Int, NEW m \in Nat,
         NEW a \in Int, d + r + m <= n + q + a, n <= d, n + q <= x + m
  PROVE  /\ d + r <= x + a /\ d + r <= x + a + m /\ n + r <= x + a + m
OBVIOUS

\* The handled requests stamp a deadline a unit before the last one, at the latest.
LEMMA HandleStep ==
  ASSUME Oc!AreWindows, OcIInv, Oc!ocPresig \/ Oc!ocAccountInfo \/ Oc!ocRemit
  PROVE  OcIInv'
<1> USE DEF Oc!Moves
<1>0. /\ Oc!Awaits /\ Oc!InTime /\ anchor' = now /\ sentAt' = -1
      /\ UNCHANGED <<Oc!clocks, why, expiration, fundedAt, objected, lost, chain, reorgs, Oc!bonds>>
  BY DEF Oc!ocPresig, Oc!ocAccountInfo, Oc!ocRemit, Oc!Awaits
<1>1. \/ st = "funded" /\ st' = "presigned" /\ due' = now + ACCOUNT_WINDOW /\ account' = account /\ ~ account
      \/ st = "presigned" /\ ~ account /\ account' = TRUE /\ st' = "presigned" /\ due' = now + KRW_WINDOW
      \/ st = "presigned" /\ account /\ account' = account /\ st' = "remitted" /\ due' = now + COSIGN_WINDOW
  BY DEF Oc!ocPresig, Oc!ocAccountInfo, Oc!ocRemit, OcIInv, OcStages
<1>2. Oc!TypeOK'
  <2>1. st' \in {"presigned", "remitted"} /\ due' \in Nat /\ anchor' \in Nat /\ sentAt' \in -1..now
    BY <1>0, <1>1, Windows DEF OcIInv, Oc!TypeOK
  <2>2. account' \in BOOLEAN
    <3>1. account \in BOOLEAN
      BY DEF OcIInv, Oc!TypeOK
    <3> QED
      BY <1>1, <3>1
  <2> QED
    BY <1>0, <2>1, <2>2 DEF Oc!clocks, Oc!bonds, OcIInv, Oc!TypeOK
<1>3. due' + Rest' <= now + 1 + Rest /\ now <= due' /\ Rest' \in Int /\ Rest \in Int
  <2>1. account \in BOOLEAN /\ now \in Nat
    BY DEF OcIInv, Oc!TypeOK
  <2> QED
    BY <1>1, <2>1, Windows DEF Rest
<1>4. SetBack \in Int /\ SetBack' \in Int /\ SetBack' >= SetBack
  <2> DEFINE R == reorgs * Oc!Again
             A == Oc!Again
  <2>1. R \in Nat /\ A \in Nat
    BY Costs, Windows DEF OcIInv
  <2>2. SetBack = R - (IF chain # "deep" THEN A ELSE 0)
    BY <1>0 DEF SetBack
  <2>3. SetBack' = R - (IF st' = "presigned" /\ chain # "deep" THEN A ELSE 0)
    BY <1>0, <1>1 DEF SetBack, Oc!Awaits, Oc!Again
  <2> HIDE DEF R, A
  <2> QED
    BY <2>1, <2>2, <2>3
<1>5. ASSUME NEW b \in Oc!Bonds, Fits(b)
      PROVE  Fits(b)'
  <2> DEFINE S == SetBack
             T == SetBack'
             M == MaxConfirm
  <2>1. S \in Int /\ T \in Int /\ T >= S /\ M \in Nat /\ b.expiry \in Int /\ now \in Nat /\ away \in Nat
        /\ CLTV_SAFETY_MARGIN \in Nat
    BY <1>4, Windows DEF Oc!Bonds, OcIInv, Oc!TypeOK
  <2>2. Room(b) = b.expiry - CLTV_SAFETY_MARGIN - 3 + S + away
        /\ Room(b)' = b.expiry - CLTV_SAFETY_MARGIN - 3 + T + away
    BY <1>0 DEF Room, Oc!clocks
  <2>3. now + 1 + Rest <= Room(b) + M
    BY <1>0, <1>5 DEF Fits
  <2>4. due' \in Nat
    BY <1>1, Windows DEF OcIInv, Oc!TypeOK
  <2> DEFINE X == Room(b)
             Y == Room(b)'
             E == b.expiry
             Q == Rest
             Q1 == Rest'
  <2>7. Q \in Int /\ Q1 \in Int /\ due' + Q1 <= now + 1 + Q /\ now <= due' /\ now + 1 + Q <= X + M
    BY <1>3, <2>3
  <2>8. X = E - CLTV_SAFETY_MARGIN - 3 + S + away /\ Y = E - CLTV_SAFETY_MARGIN - 3 + T + away /\ E \in Int
    BY <2>1, <2>2
  <2> HIDE DEF S, T, M, X, Y, E, Q, Q1
  <2>10. X \in Int /\ Y \in Int /\ X <= Y
    BY <2>1, <2>8
  <2>11. due' \in Int /\ now \in Int /\ M \in Int
    BY <2>1, <2>4
  <2>12. Q \in Int /\ Q1 \in Int
    BY <2>7
  <2>13. due' + Q1 <= now + 1 + Q
    BY <2>7
  <2>14. now <= due' /\ now + 1 + Q <= X + M
    BY <2>7
  <2>9. due' + Q1 <= Y + M /\ now + Q1 <= Y + M
    BY <2>11, <2>12, <2>13, <2>14, <2>10, Later
  <2>5. due' + Rest' <= Room(b)' + M /\ now + Rest' <= Room(b)' + M
    BY <2>9 DEF Y, Q1
  <2>6. ~ Oc!InTime' /\ now' = now /\ st' # "bonded"
    BY <1>0, <1>1 DEF Oc!InTime, Oc!clocks
  <2> QED
    BY <2>5, <2>6 DEF Fits, M
<1>6. OcLong'
  <2>1. customer \in Oc!Bonds /\ sponsor \in Oc!Bonds /\ Fits(customer) /\ Fits(sponsor)
    BY <1>0 DEF OcIInv, Oc!TypeOK, OcLong, Oc!Awaits, Trading
  <2>2. Fits(customer)' /\ Fits(sponsor)'
    BY <1>0, <1>5, <2>1 DEF Fits, Room, Oc!bonds
  <2> QED
    BY <1>0, <1>1, <2>2 DEF Oc!clocks, Oc!bonds, OcIInv, OcLong, OcEndedIsBack
<1>7. OcStages' /\ OcHeard' /\ OcDecided'
  BY <1>0, <1>1 DEF Oc!clocks, OcIInv, OcStages, OcHeard, OcDecided, Oc!Awaits, Oc!InTime, Trading,
     Oc!NobodyInTimeIsLate, Oc!WindowIsWhole, Oc!ReorgIsNobodysFault, Oc!BondIsThere
<1>8. Stamped'
  <2>1. st' = "bonded" \/ Oc!Awaits' => due' = anchor' + Window'
    BY <1>0, <1>1 DEF Window, Oc!Awaits
  <2>2. now <= fundedAt + Opened + away /\ away \in Nat /\ now \in Nat /\ fundedAt \in Nat
    BY <1>0 DEF OcIInv, Stamped, Oc!TypeOK
  <2>3. Oc!Awaits' => due' <= fundedAt' + Opened' + away' /\ now' <= fundedAt' + Opened' + away'
    BY <1>0, <1>1, <2>2, Windows DEF Opened, Oc!Awaits, Oc!clocks
  <2> QED
    BY <2>1, <2>3 DEF Stamped
<1> QED
  BY <1>2, <1>6, <1>7, <1>8 DEF OcIInv

LEMMA ObjectStep ==
  ASSUME Oc!AreWindows, OcIInv, Oc!AccountUnusable
  PROVE  OcIInv'
<1>0. /\ st = "presigned" /\ objected' = TRUE
      /\ UNCHANGED <<Oc!clocks, st, why, expiration, anchor, due, fundedAt, account, sentAt, lost, chain,
                     reorgs, Oc!bonds>>
  BY DEF Oc!AccountUnusable
<1>1. Oc!TypeOK'
  BY <1>0 DEF Oc!clocks, Oc!bonds, OcIInv, Oc!TypeOK
<1>2. SetBack' = SetBack
  BY <1>0 DEF SetBack, Oc!Awaits, Oc!Again
<1>3. OcLong'
  <2>1. Fits(customer)' /\ Fits(sponsor)'
    BY <1>0, <1>2, SameFits DEF Oc!clocks, Oc!bonds, OcIInv, OcLong, Trading
  <2> QED
    BY <1>0, <2>1 DEF Oc!clocks, Oc!bonds, OcIInv, OcLong, OcEndedIsBack
<1>4. OcStages' /\ Stamped' /\ OcHeard' /\ OcDecided'
  BY <1>0 DEF Oc!clocks, OcIInv, OcStages, Stamped, OcHeard, OcDecided, Oc!Awaits, Oc!InTime, Window, Opened,
     Oc!NobodyInTimeIsLate, Oc!WindowIsWhole, Oc!ReorgIsNobodysFault, Oc!BondIsThere
<1> QED
  BY <1>1, <1>3, <1>4 DEF OcIInv

LEMMA RoomIs ==
  ASSUME Oc!AreWindows, OcIInv, NEW b \in Oc!Bonds
  PROVE  SetBack \in Int /\ Rest \in Int /\ b.expiry \in Int /\ Room(b) \in Int
<1> DEFINE R == reorgs * Oc!Again
           A == Oc!Again
           S == SetBack
<1>1. R \in Nat /\ A \in Nat /\ S = R - (IF Oc!Awaits /\ chain # "deep" THEN A ELSE 0)
  BY Costs, Windows DEF OcIInv, SetBack
<1>2. S \in Int
  <2> HIDE DEF R, A, S
  <2> QED
    BY <1>1
<1>3. b.expiry \in Int /\ away \in Nat /\ account \in BOOLEAN
  BY DEF Oc!Bonds, OcIInv, Oc!TypeOK
<1>4. Rest \in Int
  BY <1>3, Windows DEF Rest
<1>5. Room(b) = b.expiry - CLTV_SAFETY_MARGIN - 3 + S + away
  BY DEF Room
<1> HIDE DEF S
<1>6. Room(b) \in Int
  BY <1>2, <1>3, <1>5, Windows
<1> QED
  BY <1>2, <1>3, <1>4, <1>6 DEF S

\* What the watcher stamps, and the dispute.
LEMMA StampStep ==
  ASSUME Oc!AreWindows, OcIInv, Oc!ocDispute \/ Oc!dispute \/ Oc!settleDisputed \/ Oc!fund \/ Oc!reorg
  PROVE  OcIInv'
<1> USE DEF Oc!Moves
<1>0. /\ anchor' = now /\ sentAt' = -1 /\ due' \in Nat /\ due' >= now
      /\ UNCHANGED <<Oc!clocks, why, expiration, lost, chain, reorgs, Oc!bonds>>
  BY Windows DEF Oc!ocDispute, Oc!dispute, Oc!settleDisputed, Oc!fund, Oc!reorg, Oc!MustDispute, OcIInv, Oc!TypeOK
<1>1. \/ /\ st \in {"remitted"} /\ st' = "disputed" /\ due' = now + DISPUTE_RULING_BUDGET
         /\ UNCHANGED <<fundedAt, account, objected>>
      \/ /\ st = "presigned" /\ account /\ objected /\ chain = "deep" /\ st' = "held"
         /\ due' = now + DISPUTE_RULING_BUDGET
         /\ UNCHANGED <<fundedAt, account, objected>>
      \/ /\ st = "bonded" /\ chain = "deep" /\ st' = "funded" /\ due' = now + PRESIGN_WINDOW
         /\ fundedAt' = now /\ UNCHANGED <<account, objected>>
      \/ /\ Oc!Awaits /\ chain # "deep" /\ st' = "bonded" /\ due' = now + FUNDING_WINDOW
         /\ fundedAt' = 0 /\ account' = FALSE /\ objected' = FALSE
  <2>1. CASE Oc!ocDispute
    BY <2>1 DEF Oc!ocDispute
  <2>2. CASE Oc!dispute
    BY <2>2 DEF Oc!dispute, Oc!MustDispute
  <2>3. CASE Oc!settleDisputed
    BY <2>3 DEF Oc!settleDisputed, Oc!MustSettle, Oc!Awaits, OcIInv, OcStages
  <2>4. CASE Oc!fund
    BY <2>4 DEF Oc!fund, Oc!MustFund
  <2>5. CASE Oc!reorg
    BY <2>5 DEF Oc!reorg, Oc!MustReturn
  <2> QED
    BY <2>1, <2>2, <2>3, <2>4, <2>5
<1>2. Oc!TypeOK'
  <2>1. st' \in {"disputed", "held", "funded", "bonded"} /\ fundedAt' \in Nat /\ sentAt' \in -1..now
    BY <1>0, <1>1 DEF OcIInv, Oc!TypeOK
  <2>2. account' \in BOOLEAN /\ objected' \in BOOLEAN
    <3>1. account \in BOOLEAN /\ objected \in BOOLEAN
      BY DEF OcIInv, Oc!TypeOK
    <3>2. (account' = account \/ account' = FALSE) /\ (objected' = objected \/ objected' = FALSE)
      BY <1>1
    <3> QED
      BY <3>1, <3>2
  <2> QED
    BY <1>0, <2>1, <2>2 DEF Oc!clocks, Oc!bonds, OcIInv, Oc!TypeOK
<1>3. \/ st' # "bonded" /\ SetBack' = SetBack /\ due' + Rest' <= now + Rest
      \/ st' = "bonded" /\ SetBack' = SetBack + Oc!Again /\ due' + Rest' + MaxConfirm <= now + Rest + Oc!Again
  <2>1. now \in Nat /\ account \in BOOLEAN
    BY DEF OcIInv, Oc!TypeOK
  <2>2. CASE Oc!Awaits /\ chain # "deep" /\ st' = "bonded"
    <3> DEFINE R == reorgs * Oc!Again
               A == Oc!Again
    <3>1. SetBack = R - A /\ SetBack' = R - 0 /\ R \in Nat /\ A \in Nat
      BY <1>0, <2>2, Costs, Windows DEF OcIInv, SetBack, Oc!Awaits, Oc!Again
    <3>2. SetBack' = SetBack + A
      <4> HIDE DEF R, A
      <4> QED
        BY <3>1
    <3>3. due' = now + FUNDING_WINDOW
      BY <1>1, <2>2 DEF Oc!Awaits
    <3>4. Rest >= COSIGN_WINDOW - 1 + DISPUTE_RULING_BUDGET /\ Rest \in Int
      BY <2>1, <2>2, Windows DEF Rest, Oc!Awaits
    <3>5. Rest' = Oc!MAX_OPTION_WINDOW - 3 + COSIGN_WINDOW + DISPUTE_RULING_BUDGET
      BY <2>2 DEF Rest
    <3>6. due' + Rest' + MaxConfirm <= now + Rest + Oc!Again
      BY <2>1, <3>3, <3>4, <3>5, Windows
    <3> QED
      BY <2>2, <3>2, <3>6
  <2>3. CASE st' # "bonded"
    <3>1. SetBack' = SetBack
      BY <1>0, <1>1, <2>3 DEF SetBack, Oc!Awaits, Oc!Again
    <3>2. due' + Rest' <= now + Rest
      BY <1>1, <2>1, <2>3, Windows DEF Rest
    <3> QED
      BY <2>3, <3>1, <3>2
  <2> QED
    BY <1>1, <2>2, <2>3
<1>4. st \in {"bonded", "funded", "presigned", "remitted"} /\ st' \in Trading
  BY <1>1 DEF Oc!Awaits, Trading
<1>5. Rest' \in Int
  BY <1>1, Windows DEF Rest
<1>6. ASSUME NEW b \in Oc!Bonds, Fits(b)
      PROVE  Fits(b)'
  <2> DEFINE S == SetBack
             T == SetBack'
             X == Room(b)
             Y == Room(b)'
             E == b.expiry - CLTV_SAFETY_MARGIN - 3
             Q == Rest
             P == Rest'
             A == Oc!Again
  <2>1. S \in Int /\ X \in Int /\ E \in Int /\ Q \in Int /\ P \in Int /\ away \in Nat /\ A \in Nat
        /\ now \in Nat /\ MaxConfirm \in Nat /\ due' \in Nat /\ now <= due'
    BY <1>0, <1>5, RoomIs, Windows DEF OcIInv, Oc!TypeOK
  <2>2. X = E + S + away /\ Y = E + T + away
    BY <1>0 DEF Room, Oc!clocks
  <2>3. now + Q <= X + MaxConfirm
    BY <1>4, <1>6 DEF Fits
  <2>4. \/ st' # "bonded" /\ T = S /\ due' + P <= now + Q
        \/ st' = "bonded" /\ T = S + A /\ due' + P + MaxConfirm <= now + Q + A
    BY <1>3
  <2>5. (st' = "bonded" => due' + P <= Y) /\ due' + P <= Y + MaxConfirm /\ now + P <= Y + MaxConfirm
    <3>1. now \in Int /\ due' \in Int /\ away \in Int /\ MaxConfirm \in Int /\ now <= due'
      BY <2>1
    <3>2. X \in Int /\ E \in Int /\ Q \in Int /\ P \in Int /\ A \in Int
      BY <2>1
    <3>3. S \in Int
      BY <2>1
    <3>4. X = E + S + away
      BY <2>2
    <3>5. Y = E + T + away
      BY <2>2
    <3>6. CASE st' # "bonded"
      <4>1. T = S /\ due' + P <= now + Q
        BY <2>4, <3>6
      <4> HIDE DEF S, T, X, Y, E, Q, P, A
      <4>2. Y = X
        BY <3>4, <3>5, <4>1
      <4> QED
        BY <2>3, <3>1, <3>2, <3>6, <4>1, <4>2, OcStays
    <3>7. CASE st' = "bonded"
      <4>1. T = S + A
        BY <2>4, <3>7
      <4>2. due' + P + MaxConfirm <= now + Q + A
        BY <2>4, <3>7
      <4> HIDE DEF S, T, X, Y, E, Q, P, A
      <4>3. Y = X + A
        BY <3>1, <3>2, <3>3, <3>4, <3>5, <4>1
      <4>4. MaxConfirm \in Nat
        BY Windows
      <4>5. due' + P <= X + A /\ due' + P <= X + A + MaxConfirm /\ now + P <= X + A + MaxConfirm
        BY <2>3, <3>1, <3>2, <4>2, <4>4, Anew
      <4> QED
        BY <4>3, <4>5
    <3> QED
      BY <3>6, <3>7
  <2>6. ~ Oc!InTime' /\ now' = now
    BY <1>0 DEF Oc!InTime, Oc!clocks
  <2> QED
    BY <2>5, <2>6 DEF Fits
<1>7. OcLong'
  <2>1. customer \in Oc!Bonds /\ sponsor \in Oc!Bonds /\ Fits(customer) /\ Fits(sponsor)
    BY <1>4 DEF OcIInv, Oc!TypeOK, OcLong, Trading
  <2>2. Fits(customer)' /\ Fits(sponsor)'
    BY <1>0, <1>6, <2>1 DEF Fits, Room, Oc!bonds
  <2> QED
    BY <1>0, <1>4, <2>2 DEF Oc!clocks, Oc!bonds, OcIInv, OcLong, OcEndedIsBack, Trading
<1>8. OcStages' /\ OcHeard' /\ OcDecided'
  BY <1>0, <1>1 DEF Oc!clocks, OcIInv, OcStages, OcHeard, OcDecided, Oc!Awaits, Oc!InTime, Trading,
     Oc!NobodyInTimeIsLate, Oc!WindowIsWhole, Oc!ReorgIsNobodysFault, Oc!BondIsThere
<1>9. Stamped'
  <2>1. away \in Nat /\ now \in Nat /\ ~ (st = "bonded" /\ (account \/ objected))
    BY DEF OcIInv, Oc!TypeOK, OcStages
  <2> QED
    BY <1>0, <1>1, <2>1, Windows DEF Stamped, Oc!Awaits, Window, Opened, Oc!clocks
<1> QED
  BY <1>2, <1>7, <1>8, <1>9 DEF OcIInv

\* Where the room is kept the bonds are there.
LEMMA StillThere ==
  ASSUME Oc!AreWindows, OcIInv, Oc!MarginIsWide, NEW b \in {customer, sponsor}, st \in Trading,
         now <= due \/ st \in {"bonded", "funded", "presigned", "remitted"}
  PROVE  b.status # "back"
<1> DEFINE E == b.expiry
           S == SetBack
           X == Room(b)
           Q == Rest
           W == MaxReorgs * Oc!Again
<1>1. b \in Oc!Bonds /\ Fits(b) /\ OcEndedIsBack(b)
  BY DEF OcIInv, Oc!TypeOK, OcLong
<1>2. S \in Int /\ Q \in Int /\ E \in Int /\ X \in Int /\ X = E - CLTV_SAFETY_MARGIN - 3 + S + away
  BY <1>1, RoomIs DEF Room
<1>3. S <= W /\ W \in Nat
  <2> DEFINE R == reorgs * Oc!Again
             A == Oc!Again
  <2>1. R \in Nat /\ A \in Nat /\ W \in Nat /\ R <= W /\ S = R - (IF Oc!Awaits /\ chain # "deep" THEN A ELSE 0)
    BY Costs, Windows DEF OcIInv, SetBack
  <2> HIDE DEF R, A, S, W
  <2> QED
    BY <2>1
<1>4. Q >= 0
  BY Windows DEF Rest, OcIInv, Oc!TypeOK
<1>5. now <= X + MaxConfirm
  <2>1. now \in Nat /\ due \in Nat /\ MaxConfirm \in Nat
    BY Windows DEF OcIInv, Oc!TypeOK
  <2>3. CASE now <= due
    <3>1. due + Q <= X + MaxConfirm
      BY <1>1 DEF Fits
    <3> HIDE DEF X, Q
    <3> QED
      BY <1>2, <1>4, <2>1, <2>3, <3>1
  <2>4. CASE st \in {"bonded", "funded", "presigned", "remitted"}
    <3>1. now + Q <= X + MaxConfirm
      BY <1>1, <2>4 DEF Fits
    <3> HIDE DEF X, Q
    <3> QED
      BY <1>2, <1>4, <2>1, <3>1
  <2> QED
    BY <2>3, <2>4
<1>6. HoldExpiryDelta + Drift + MaxAway + MaxConfirm + W < CLTV_SAFETY_MARGIN + 3
  BY DEF Oc!MarginIsWide
<1>7. /\ height \in Int /\ now \in Int /\ height <= now + Drift /\ away \in Int /\ away <= MaxAway
      /\ HoldExpiryDelta \in Int /\ Drift \in Int /\ MaxAway \in Int /\ MaxConfirm \in Int
      /\ CLTV_SAFETY_MARGIN \in Int
  BY Windows DEF OcIInv, Oc!TypeOK
<1>8. E - height > HoldExpiryDelta
  <2> HIDE DEF E, S, X, Q, W
  <2>1. X <= E - CLTV_SAFETY_MARGIN - 3 + W + MaxAway
    BY <1>2, <1>3, <1>7
  <2>2. height <= E - CLTV_SAFETY_MARGIN - 3 + W + MaxAway + MaxConfirm + Drift
    BY <1>2, <1>3, <1>5, <1>7, <2>1
  <2> QED
    BY <1>2, <1>3, <1>6, <1>7, <2>2
<1> QED
  <2>1. b.status = "back" => E - height <= HoldExpiryDelta
    BY <1>1 DEF OcEndedIsBack
  <2>2. E \in Int
    BY <1>2
  <2> HIDE DEF E
  <2> QED
    BY <1>7, <1>8, <2>1, <2>2

LEMMA DecideStep ==
  ASSUME Oc!AreWindows, OcIInv, Oc!ocCosign \/ Oc!Rule \/ Oc!fold \/ Oc!cancel \/ Oc!settle
  PROVE  OcIInv'
<1>0. PICK reason \in Oc!Reasons :
        /\ Oc!Decide(reason)
        /\ \/ reason \in {"release", "refund:bond-expired", "cancel:expired"}
           \/ /\ reason \in {"customer_win", "sponsor_win"} /\ st = "disputed" /\ now <= due
           \/ /\ reason \in {"refund:sponsor-timeout", "refund:customer-late"} /\ st = "held" /\ now <= due
           \/ /\ reason = "cancel:no-funding" /\ st = "bonded" /\ now >= due
           \/ /\ reason = Oc!lateReason /\ Oc!Awaits /\ now >= due /\ warm /\ ~ (account /\ objected)
  <2>1. CASE Oc!ocCosign
    BY <2>1 DEF Oc!ocCosign, Oc!Reasons
  <2>2. CASE Oc!Rule
    <3>1. CASE st = "disputed" /\ \E r \in {"customer_win", "sponsor_win"} : Oc!Decide(r)
      BY <2>2, <3>1 DEF Oc!Rule, Oc!Reasons
    <3>2. CASE st = "held" /\ \E r \in {"refund:sponsor-timeout", "refund:customer-late"} : Oc!Decide(r)
      BY <2>2, <3>2 DEF Oc!Rule, Oc!Reasons
    <3> QED
      BY <2>2, <3>1, <3>2 DEF Oc!Rule
  <2>3. CASE Oc!fold
    BY <2>3 DEF Oc!fold, Oc!Reasons
  <2>4. CASE Oc!cancel
    BY <2>4 DEF Oc!cancel, Oc!MustCancel, Oc!Reasons
  <2>5. CASE Oc!settle
    <3>1. Oc!lateReason \in Oc!Reasons
      BY DEF Oc!lateReason, Oc!Reasons
    <3> QED
      BY <2>5, <3>1 DEF Oc!settle, Oc!MustSettle
  <2> QED
    BY <2>1, <2>2, <2>3, <2>4, <2>5
<1>1. /\ st' = "decided" /\ why' = reason /\ lost' = (Oc!Forfeited(reason).status = "back")
      /\ UNCHANGED <<Oc!clocks, expiration, anchor, due, fundedAt, account, objected, sentAt, chain, reorgs, Oc!bonds>>
  BY <1>0 DEF Oc!Decide
<1>2. Oc!TypeOK'
  <2>1. lost' \in BOOLEAN
    BY <1>1
  <2> QED
    BY <1>1, <2>1 DEF Oc!clocks, Oc!bonds, OcIInv, Oc!TypeOK
<1>3. OcLong' /\ OcStages' /\ Stamped' /\ OcHeard'
  BY <1>1 DEF Oc!clocks, Oc!bonds, OcIInv, OcLong, OcEndedIsBack, OcStages, Stamped, OcHeard, Oc!Awaits, Trading
<1>4. Oc!MarginIsWide => Oc!BondIsThere'
  <2> SUFFICES ASSUME Oc!MarginIsWide
               PROVE  Oc!Forfeited(reason).status # "back"
    BY <1>1 DEF Oc!BondIsThere
  <2>1. CASE reason \in {"release", "refund:bond-expired", "cancel:expired"}
    BY <2>1 DEF Oc!Forfeited, Oc!NoBond
  <2>2. CASE reason \notin {"release", "refund:bond-expired", "cancel:expired"}
    <3>1. st \in Trading /\ (now <= due \/ st \in {"bonded", "funded", "presigned", "remitted"})
      BY <1>0, <2>2 DEF Trading, Oc!Awaits
    <3>2. customer.status # "back" /\ sponsor.status # "back"
      BY <3>1, StillThere
    <3>3. Oc!Forfeited(reason) \in {customer, sponsor}
      BY <2>2 DEF Oc!Forfeited, Oc!Reasons
    <3> QED
      BY <3>2, <3>3
  <2> QED
    BY <2>1, <2>2
<1>5. Oc!NobodyInTimeIsLate'
  <2> SUFFICES ASSUME reason \in {"refund:sponsor-timeout", "refund:customer-late"}, ~ objected, Oc!InTime
               PROVE  FALSE
    BY <1>1 DEF Oc!NobodyInTimeIsLate, Oc!InTime
  <2>1. Oc!Awaits /\ now >= due /\ warm
    BY <1>0 DEF OcIInv, OcStages
  <2>2. sentAt = now
    BY <2>1 DEF OcIInv, OcHeard
  <2> QED
    BY <2>1, <2>2 DEF Oc!InTime, OcIInv, Oc!TypeOK
<1>6. Oc!WindowIsWhole'
  <2> SUFFICES ASSUME reason = "refund:sponsor-timeout", ~ objected
               PROVE  now - anchor >= IF account THEN KRW_WINDOW ELSE PRESIGN_WINDOW
    BY <1>1 DEF Oc!WindowIsWhole, Oc!clocks
  <2>1. Oc!Awaits /\ now >= due /\ reason = Oc!lateReason /\ due = anchor + Window
    BY <1>0 DEF OcIInv, OcStages, Stamped
  <2>2. Window = IF account THEN KRW_WINDOW ELSE PRESIGN_WINDOW
    BY <2>1 DEF Window, Oc!lateReason, Oc!Awaits, OcIInv, OcStages
  <2> QED
    BY <2>1, <2>2, Windows DEF OcIInv, Oc!TypeOK
<1>7. Oc!ReorgIsNobodysFault'
  <2> SUFFICES ASSUME reason = "cancel:no-funding"
               PROVE  now - anchor >= FUNDING_WINDOW
    BY <1>1 DEF Oc!ReorgIsNobodysFault, Oc!clocks
  <2>1. now >= due /\ due = anchor + FUNDING_WINDOW
    BY <1>0 DEF OcIInv, Stamped, Window, Oc!lateReason
  <2> QED
    BY <2>1, Windows DEF OcIInv, Oc!TypeOK
<1>8. OcDecided'
  BY <1>4, <1>5, <1>6, <1>7 DEF OcDecided, Oc!MarginIsWide, Oc!Again
<1> QED
  BY <1>2, <1>3, <1>8 DEF OcIInv

LEMMA BlocksPass ==
  ASSUME Oc!AreWindows, Oc!TypeOK, NEW b \in Oc!Bonds, OcEndedIsBack(b), NEW top \in Int, top >= height
  PROVE  LET g == Oc!AfterBlocks(b, top) IN
         /\ g \in Oc!Bonds /\ g.cltv = b.cltv /\ g.expiry = b.expiry
         /\ g.status = b.status \/ (b.status = "held" /\ g.status = "back")
         /\ g.status = "back" => g.expiry - top <= HoldExpiryDelta
<1>1. b.expiry \in Int /\ height \in Int /\ HoldExpiryDelta \in Int
  BY Windows DEF Oc!Bonds, Oc!TypeOK
<1>2. [b EXCEPT !.status = "back"] \in Oc!Bonds
  BY DEF Oc!Bonds
<1>3. CASE b.status = "held" /\ b.expiry - top <= HoldExpiryDelta
  BY <1>2, <1>3 DEF Oc!AfterBlocks, Oc!Bonds
<1>4. CASE ~ (b.status = "held" /\ b.expiry - top <= HoldExpiryDelta)
  <2>1. Oc!AfterBlocks(b, top) = b
    BY <1>4 DEF Oc!AfterBlocks
  <2>2. b.status = "back" => b.expiry - top <= HoldExpiryDelta
    BY <1>1 DEF OcEndedIsBack
  <2> QED
    BY <2>1, <2>2
<1> QED
  BY <1>3, <1>4

\* Time: what it takes while the daemon is up is before the deadline, and the rest is downtime.
LEMMA PassStep ==
  ASSUME Oc!AreWindows, OcIInv, Oc!Pass
  PROVE  OcIInv'
<1>0. /\ now' = now + 1 /\ height' - now' <= Drift /\ (height' = height + 1 \/ height' = height + 2)
      /\ customer' = Oc!AfterBlocks(customer, height') /\ sponsor' = Oc!AfterBlocks(sponsor, height')
      /\ UNCHANGED <<up, warm, Oc!order, chain, reorgs>> /\ st # "decided"
      /\ (chain = "confirming" => now < due + MaxConfirm)
  <2>1. now \in Int /\ due \in Int /\ MaxConfirm \in Int
    BY Windows DEF OcIInv, Oc!TypeOK
  <2> QED
    BY <2>1 DEF Oc!Pass
<1>1. \/ up /\ Oc!Nothing /\ away' = away
      \/ ~ up /\ away < MaxAway /\ away' = away + 1
  BY DEF Oc!Pass
<1>2. now \in Nat /\ height \in Nat /\ now <= height /\ away \in Nat /\ due \in Nat /\ fundedAt \in Nat
  BY Windows DEF OcIInv, Oc!TypeOK
<1>3. /\ customer' \in Oc!Bonds /\ customer'.expiry = customer.expiry
      /\ customer'.status = customer.status \/ (customer.status = "held" /\ customer'.status = "back")
      /\ OcEndedIsBack(customer)'
      /\ sponsor' \in Oc!Bonds /\ sponsor'.expiry = sponsor.expiry /\ sponsor'.cltv = sponsor.cltv
      /\ sponsor'.status = sponsor.status \/ (sponsor.status = "held" /\ sponsor'.status = "back")
      /\ OcEndedIsBack(sponsor)'
  <2>1. customer \in Oc!Bonds /\ sponsor \in Oc!Bonds /\ OcEndedIsBack(customer) /\ OcEndedIsBack(sponsor) /\ Oc!TypeOK
    BY DEF OcIInv, Oc!TypeOK, OcLong
  <2>2. height' \in Int /\ height' >= height
    BY <1>0, <1>2
  <2> QED
    BY <1>0, <2>1, <2>2, BlocksPass DEF OcEndedIsBack
<1>4. Oc!TypeOK'
  <2>1. now' \in Nat /\ height' \in now'..(now' + Drift) /\ away' \in 0..MaxAway
    BY <1>0, <1>1, <1>2, Windows DEF OcIInv, Oc!TypeOK
  <2>2. sentAt' \in -1..now'
    BY <1>0, <1>2 DEF Oc!order, OcIInv, Oc!TypeOK
  <2> QED
    BY <1>0, <1>3, <2>1, <2>2 DEF Oc!order, OcIInv, Oc!TypeOK
<1>5. up => /\ st = "bonded" => now < due + MaxConfirm
            /\ Oc!Awaits \/ st = "remitted" => now < due
            /\ ~ (Oc!Awaits /\ Oc!InTime)
  <2> SUFFICES ASSUME up
               PROVE  /\ st = "bonded" => now < due + MaxConfirm
                      /\ Oc!Awaits \/ st = "remitted" => now < due
                      /\ ~ (Oc!Awaits /\ Oc!InTime)
    OBVIOUS
  <2>1. Oc!Nothing /\ warm
    BY <1>1 DEF Oc!Nothing
  <2>2. ~ (Oc!Awaits /\ Oc!InTime)
    BY <2>1 DEF Oc!Nothing, Oc!Handled
  <2>3. Oc!Awaits \/ st = "remitted" => now < due
    BY <1>2, <2>1 DEF Oc!Nothing, Oc!MustReturn, Oc!MustSettle, Oc!MustDispute
  <2>4. st = "bonded" => (chain = "none" /\ now < due) \/ chain = "confirming"
    BY <1>2, <2>1 DEF Oc!Nothing, Oc!MustFund, Oc!MustCancel, OcIInv, Oc!TypeOK
  <2>5. st = "bonded" => now < due + MaxConfirm
    BY <1>0, <1>2, <2>4, Windows
  <2> QED
    BY <2>2, <2>3, <2>5
<1>6. SetBack' = SetBack /\ Rest' = Rest /\ Oc!Awaits' = Oc!Awaits /\ Oc!InTime' = Oc!InTime
  BY <1>0 DEF Oc!order, SetBack, Rest, Oc!Awaits, Oc!InTime, Oc!Again
<1>7. ASSUME NEW b \in Oc!Bonds, Fits(b), NEW g, g.expiry = b.expiry, st \in Trading
      PROVE  Fits(g)'
  <2> DEFINE S == SetBack
             X == Room(b)
             Y == Room(g)'
             E == b.expiry - CLTV_SAFETY_MARGIN - 3
             Q == Rest
             M == MaxConfirm
  <2>1. S \in Int /\ X \in Int /\ E \in Int /\ Q \in Int /\ M \in Nat
    BY RoomIs, Windows
  <2>2. X = E + S + away /\ Y = E + S + away'
    BY <1>6, <1>7 DEF Room
  <2>3. Y = X + (IF up THEN 0 ELSE 1)
    <3>1. X = E + S + away
      BY <2>2
    <3>2. Y = E + S + away'
      BY <2>2
    <3>3. E \in Int /\ S \in Int /\ away \in Int
      BY <1>2, <2>1
    <3>4. away' = away + (IF up THEN 0 ELSE 1)
      BY <1>1, <1>2
    <3> HIDE DEF S, X, Y, E
    <3> QED
      BY <3>1, <3>2, <3>3, <3>4
  <2>4. Y \in Int /\ X <= Y
    <3> HIDE DEF S, X, Y, E, Q, M
    <3> QED
      BY <2>1, <2>3
  <2>5. /\ st = "bonded" => due + Q <= X
        /\ due + Q <= X + M
        /\ st \in {"bonded", "funded", "presigned", "remitted"} => now + Q <= X + M
        /\ Oc!Awaits /\ Oc!InTime => now + 1 + Q <= X + M
    BY <1>7 DEF Fits
  <2>6. st = "bonded" => due + Q <= Y
    <3> HIDE DEF X, Y, Q
    <3> QED
      BY <1>2, <2>1, <2>4, <2>5
  <2>7. due + Q <= Y + M
    <3> HIDE DEF X, Y, Q, M
    <3> QED
      BY <1>2, <2>1, <2>4, <2>5
  <2>8. st \in {"bonded", "funded", "presigned", "remitted"} => now + 1 + Q <= Y + M
    <3>1. CASE up
      <4>1. st = "bonded" => now + 1 <= due + M /\ due + Q <= X
        BY <1>2, <1>5, <2>1, <2>5, <3>1
      <4>2. st \in {"funded", "presigned", "remitted"} => now + 1 <= due /\ due + Q <= X + M
        BY <1>2, <1>5, <2>1, <2>5, <3>1 DEF Oc!Awaits
      <4> HIDE DEF X, Y, Q, M
      <4>3. st = "bonded" => now + 1 + Q <= Y + M
        BY <1>2, <2>1, <2>4, <4>1
      <4>4. st \in {"funded", "presigned", "remitted"} => now + 1 + Q <= Y + M
        BY <1>2, <2>1, <2>4, <4>2
      <4> QED
        BY <4>3, <4>4
    <3>2. CASE ~ up
      <4>1. Y = X + 1
        BY <2>3, <3>2
      <4> HIDE DEF X, Y, Q, M
      <4> QED
        BY <1>2, <2>1, <2>5, <4>1
    <3> QED
      BY <3>1, <3>2
  <2>9. Oc!Awaits /\ Oc!InTime => now + 1 + 1 + Q <= Y + M
    <3>2. Oc!Awaits /\ Oc!InTime => Y = X + 1
      BY <1>5, <2>3
    <3> HIDE DEF X, Y, Q, M
    <3> QED
      BY <1>2, <2>1, <2>5, <3>2
  <2> QED
    BY <1>0, <1>6, <2>6, <2>7, <2>8, <2>9 DEF Fits, Oc!order
<1>8. OcLong'
  <2>1. customer \in Oc!Bonds /\ sponsor \in Oc!Bonds
    BY DEF OcIInv, Oc!TypeOK
  <2>2. st \in Trading => Fits(customer)' /\ Fits(sponsor)'
    <3> SUFFICES ASSUME st \in Trading
                 PROVE  Fits(customer)' /\ Fits(sponsor)'
      OBVIOUS
    <3>1. Fits(customer) /\ Fits(sponsor)
      BY DEF OcIInv, OcLong
    <3>2. Fits(customer)'
      BY <1>3, <1>7, <2>1, <3>1 DEF Fits, Room
    <3>3. Fits(sponsor)'
      BY <1>3, <1>7, <2>1, <3>1 DEF Fits, Room
    <3> QED
      BY <3>2, <3>3
  <2> QED
    BY <1>0, <1>3, <2>2 DEF Oc!order, OcIInv, OcLong, Trading
<1>9. OcStages'
  BY <1>0 DEF Oc!order, OcIInv, OcStages, Oc!Awaits, Trading
<1>10. Stamped'
  <2>1. Oc!Awaits => now + 1 <= fundedAt + Opened + away'
    <3> SUFFICES ASSUME Oc!Awaits
                 PROVE  now + 1 <= fundedAt + Opened + away'
      OBVIOUS
    <3>1. due <= fundedAt + Opened + away /\ now <= fundedAt + Opened + away
      BY DEF OcIInv, Stamped
    <3>2. Opened \in Nat
      BY Windows DEF Opened
    <3>3. CASE up
      BY <1>1, <1>2, <1>5, <3>1, <3>2, <3>3
    <3>4. CASE ~ up
      BY <1>1, <1>2, <3>1, <3>2, <3>4
    <3> QED
      BY <3>3, <3>4
  <2>2. Oc!Awaits => due <= fundedAt + Opened + away'
    <3>1. Opened \in Nat
      BY Windows DEF Opened
    <3> QED
      BY <1>1, <1>2, <3>1 DEF OcIInv, Stamped
  <2>3. Opened' = Opened /\ Window' = Window
    BY <1>0 DEF Oc!order, Opened, Window
  <2> QED
    BY <1>0, <1>6, <2>1, <2>2, <2>3 DEF Oc!order, OcIInv, Stamped
<1>11. OcHeard'
  <2>1. warm /\ Oc!Awaits /\ Oc!InTime => FALSE
    BY <1>5 DEF OcIInv, OcHeard
  <2> QED
    BY <1>0, <1>6, <2>1 DEF OcIInv, OcHeard
<1>12. OcDecided'
  <2>1. why' = "none" /\ lost' = lost
    BY <1>0 DEF Oc!order, OcIInv, OcStages
  <2> QED
    BY <2>1 DEF OcIInv, OcDecided, Oc!NobodyInTimeIsLate, Oc!WindowIsWhole, Oc!ReorgIsNobodysFault, Oc!BondIsThere,
       Oc!MarginIsWide, Oc!Again
<1> QED
  BY <1>4, <1>8, <1>9, <1>10, <1>11, <1>12 DEF OcIInv

LEMMA Inductive ==
  ASSUME Oc!AreWindows, OcIInv, [Oc!Next]_(Oc!vars)
  PROVE  OcIInv'
<1>1. CASE Oc!Claim
  BY <1>1, ClaimStep
<1>2. CASE Oc!PaySponsorBond
  BY <1>2, PaySponsorBondStep
<1>3. CASE Oc!FundEscrow \/ Oc!Confirms \/ Oc!Reorg
  BY <1>3, ChainStep
<1>4. CASE Oc!Send
  BY <1>4, SendStep
<1>5. CASE Oc!ocPresig \/ Oc!ocAccountInfo \/ Oc!ocRemit
  BY <1>5, HandleStep
<1>6. CASE Oc!AccountUnusable
  BY <1>6, ObjectStep
<1>7. CASE Oc!ocDispute \/ Oc!dispute \/ Oc!settleDisputed \/ Oc!fund \/ Oc!reorg
  BY <1>7, StampStep
<1>8. CASE Oc!ocCosign \/ Oc!Rule \/ Oc!fold \/ Oc!cancel \/ Oc!settle
  BY <1>8, DecideStep
<1>9. CASE Oc!Pass
  BY <1>9, PassStep
<1>10. CASE Oc!GoDown \/ Oc!Start \/ Oc!WarmUp \/ UNCHANGED Oc!vars
  BY <1>10, DaemonStep
<1> QED
  BY <1>1, <1>2, <1>3, <1>4, <1>5, <1>6, <1>7, <1>8, <1>9, <1>10 DEF Oc!Next, Oc!Party, Oc!Watcher

LEMMA Holding ==
  ASSUME Oc!AreWindows
  PROVE  Oc!Spec => []OcIInv
<1>1. Oc!Init => OcIInv
  BY OcStarts
<1>2. OcIInv /\ [Oc!Next]_(Oc!vars) => OcIInv'
  BY Inductive
<1> QED
  BY <1>1, <1>2, PTL DEF Oc!Spec

-------------------------------------------------------------------------------
(* The theorems. *)

\* The clocks, the state, the deadlines and the bonds stay in their ranges.
THEOREM OcTypeCorrect ==
  ASSUME Oc!AreWindows
  PROVE  Oc!Spec => []Oc!TypeOK
<1>1. OcIInv => Oc!TypeOK
  BY DEF OcIInv
<1> QED
  BY <1>1, Holding, PTL

\* A bond that a decision takes has not gone back (MAX_TRADE_DURATION_SEC, depositCltvBlocks): the
\* margin of its CLTV has to cover the speed of the chain, the downtime, a funding that confirms late
\* and, for each reorganisation, the funding and the option window once more.
THEOREM BondsOutlastTheTrade ==
  ASSUME Oc!AreWindows, Oc!MarginIsWide
  PROVE  Oc!Spec => []Oc!BondIsThere
<1>1. OcIInv => Oc!BondIsThere
  BY DEF OcIInv, OcDecided
<1> QED
  BY <1>1, Holding, PTL

\* The price stays open for the three windows and no longer than the daemon was down besides, and
\* exactly for them if it never was (timing.ts, head, 2).
THEOREM OptionEnds ==
  ASSUME Oc!AreWindows
  PROVE  /\ Oc!Spec => []Oc!OptionIsBoundedByTheDaemon
         /\ MaxAway = 0 => (Oc!Spec => []Oc!OptionIsBounded)
<1>1. OcIInv => Oc!OptionIsBoundedByTheDaemon
  <2> SUFFICES ASSUME OcIInv, Oc!Awaits
               PROVE  due <= fundedAt + Oc!MAX_OPTION_WINDOW + MaxAway
    BY DEF Oc!OptionIsBoundedByTheDaemon
  <2>1. due <= fundedAt + Opened + away /\ away \in Nat /\ away <= MaxAway /\ fundedAt \in Nat /\ due \in Nat
    BY Windows DEF OcIInv, Stamped, Oc!TypeOK
  <2>2. Opened <= Oc!MAX_OPTION_WINDOW /\ Opened \in Nat
    BY Windows DEF Opened
  <2> QED
    BY <2>1, <2>2, Windows
<1>2. MaxAway = 0 /\ OcIInv => Oc!OptionIsBounded
  <2> SUFFICES ASSUME MaxAway = 0, OcIInv, Oc!Awaits
               PROVE  due <= fundedAt + Oc!MAX_OPTION_WINDOW
    BY DEF Oc!OptionIsBounded
  <2>1. due <= fundedAt + Oc!MAX_OPTION_WINDOW + 0 /\ fundedAt \in Nat
    BY <1>1 DEF Oc!OptionIsBoundedByTheDaemon, OcIInv, Oc!TypeOK
  <2> QED
    BY <2>1, Windows
<1>3. Oc!Spec => []Oc!OptionIsBoundedByTheDaemon
  BY <1>1, Holding, PTL
<1>4. ASSUME MaxAway = 0
      PROVE  Oc!Spec => []Oc!OptionIsBounded
  <2>1. OcIInv => Oc!OptionIsBounded
    BY <1>2, <1>4
  <2> QED
    BY <2>1, Holding, PTL
<1> QED
  BY <1>3, <1>4

\* Who is charged with a delay had not sent his request in time, and had his window whole; and who
\* is charged with an escrow that was not funded had the funding window whole, after a
\* reorganisation too (handlers.ts, requestAt; timing.ts, fundingDeadlineFrom).
THEOREM NobodyPaysForAnother ==
  ASSUME Oc!AreWindows
  PROVE  Oc!Spec => [](Oc!NobodyInTimeIsLate /\ Oc!WindowIsWhole /\ Oc!ReorgIsNobodysFault)
<1>1. OcIInv => Oc!NobodyInTimeIsLate /\ Oc!WindowIsWhole /\ Oc!ReorgIsNobodysFault
  BY DEF OcIInv, OcDecided
<1> QED
  BY <1>1, Holding, PTL

-----------------------------------------------------------------------------
(* PriceFeed. *)

\* The sizes of the instance are those of its sets.
LEMMA SizesOfPrice ==
  ASSUME NEW S
  PROVE  (Pr!IsFiniteSet(S) <=> IsFiniteSet(S)) /\ Pr!Cardinality(S) = Cardinality(S)
<1>1. Pr!IsFiniteSet(S) <=> IsFiniteSet(S)
  BY DEF IsFiniteSet, Pr!IsFiniteSet
<1>2. Pr!Cardinality(S) = Cardinality(S)
  BY DEF Cardinality, Pr!Cardinality
<1> QED
  BY <1>1, <1>2

-----------------------------------------------------------------------------
(* Ranks of quotes. *)

LEMMA Least ==
  ASSUME NEW T, T \subseteq Nat, T # {}
  PROVE  \E x \in T : \A y \in T : x <= y
<1>1. \E x \in T : \A y \in T : ~(<<y, x>> \in OpToRel(<, Nat))
  BY WFMin, NatLessThanWellFounded
<1>2. \A x, y \in Nat : y < x => <<y, x>> \in OpToRel(<, Nat)
  BY DEF OpToRel
<1>3. ASSUME NEW x \in T, NEW y \in T, ~(<<y, x>> \in OpToRel(<, Nat))
      PROVE  x <= y
  <2>1. x \in Nat /\ y \in Nat /\ ~(y < x)
    BY <1>2, <1>3
  <2> QED
    BY <2>1
<1> QED
  BY <1>1, <1>3

LEMMA Greatest ==
  ASSUME NEW S, IsFiniteSet(S), S # {}, NEW q, \A e \in S : q[e] \in Nat
  PROVE  \E e \in S : \A f \in S : q[f] <= q[e]
<1> DEFINE Above(e) == {f \in S : q[f] > q[e]}
           T == {Cardinality(Above(e)) : e \in S}
<1>1. \A e \in S : IsFiniteSet(Above(e)) /\ Cardinality(Above(e)) \in Nat
  BY FS_Subset, FS_CardinalityType
<1>2. T \subseteq Nat /\ T # {}
  BY <1>1
<1>3. PICK x \in T : \A y \in T : x <= y
  <2> HIDE DEF T
  <2> QED
    BY <1>2, Least
<1>4. PICK e \in S : x = Cardinality(Above(e))
  OBVIOUS
<1>5. ASSUME NEW f \in S, ~(q[f] <= q[e])
      PROVE  FALSE
  <2>1. q[f] > q[e] /\ q[e] \in Nat /\ q[f] \in Nat
    BY <1>5
  <2>2. f \in Above(e) /\ f \notin Above(f)
    BY <2>1
  <2>3. Above(f) \subseteq Above(e)
    BY <2>1
  <2>4. Cardinality(Above(f)) < Cardinality(Above(e))
    <3>1. Above(f) # Above(e)
      BY <2>2
    <3> HIDE DEF Above
    <3> QED
      BY <1>1, <2>2, <2>3, <3>1, FS_Subset
  <2>5. Cardinality(Above(f)) \in T
    OBVIOUS
  <2>6. x <= Cardinality(Above(f))
    BY <1>3, <2>5
  <2> HIDE DEF Above, T
  <2> QED
    BY <1>1, <1>4, <2>4, <2>6
<1> QED
  BY <1>5

\* Of so many quotes the n-th is there.
LEMMA NthIsThere ==
  ASSUME NEW S, IsFiniteSet(S), NEW q, \A e \in S : q[e] \in Nat,
         NEW n \in Nat \ {0}, n <= Cardinality(S)
  PROVE  /\ Pr!Nth(q, S, n) \in {q[e] : e \in S}
         /\ Cardinality({e \in S : q[e] < Pr!Nth(q, S, n)}) < n
         /\ Cardinality({e \in S : q[e] <= Pr!Nth(q, S, n)}) >= n
<1> DEFINE Upto(e) == {f \in S : q[f] <= q[e]}
           Late == {e \in S : Cardinality(Upto(e)) >= n}
           T == {q[e] : e \in Late}
<1>1. Cardinality(S) \in Nat
  BY FS_CardinalityType
<1>2. S # {}
  BY <1>1, FS_EmptySet
<1>3. PICK top \in S : \A f \in S : q[f] <= q[top]
  BY <1>2, Greatest
<1>4. Upto(top) = S
  BY <1>3
<1>5. top \in Late
  BY <1>4
<1>6. T \subseteq Nat /\ T # {}
  <2> HIDE DEF Upto
  <2> QED
    BY <1>5
<1>7. PICK p \in T : \A y \in T : p <= y
  <2> HIDE DEF T
  <2> QED
    BY <1>6, Least
<1>8. PICK e \in Late : p = q[e]
  OBVIOUS
<1>9. Cardinality({f \in S : q[f] <= p}) >= n
  BY <1>8
<1>10. Cardinality({f \in S : q[f] < p}) < n
  <2> DEFINE Lower == {f \in S : q[f] < p}
  <2>1. IsFiniteSet(Lower) /\ Cardinality(Lower) \in Nat
    BY FS_Subset, FS_CardinalityType
  <2>2. SUFFICES ASSUME Cardinality(Lower) >= n PROVE FALSE
    <3> HIDE DEF Lower
    <3>1. Cardinality(Lower) < n
      BY <2>1, <2>2
    <3> QED
      BY <3>1 DEF Lower
  <2>3. Lower # {}
    <3> HIDE DEF Lower
    <3> QED
      BY <2>1, <2>2, FS_EmptySet
  <2>4. \A f \in Lower : q[f] \in Nat
    OBVIOUS
  <2>5. PICK g \in Lower : \A f \in Lower : q[f] <= q[g]
    <3> HIDE DEF Lower
    <3> QED
      BY <2>1, <2>3, <2>4, Greatest
  <2>6. g \in S /\ q[g] < p /\ q[g] \in Nat /\ p \in Nat
    BY <1>6
  <2>7. Lower \subseteq Upto(g)
    BY <2>5
  <2>8. IsFiniteSet(Upto(g)) /\ Cardinality(Upto(g)) \in Nat
    BY FS_Subset, FS_CardinalityType
  <2>9. Cardinality(Upto(g)) >= n
    <3>1. Cardinality(Lower) <= Cardinality(Upto(g))
      <4> HIDE DEF Lower, Upto
      <4> QED
        BY <2>7, <2>8, FS_Subset
    <3> HIDE DEF Lower, Upto
    <3> QED
      BY <2>1, <2>2, <2>8, <3>1
  <2>10. q[g] \in T
    BY <2>6, <2>9
  <2>11. p <= q[g]
    BY <1>7, <2>10
  <2> HIDE DEF T, Lower, Late
  <2> QED
    BY <2>6, <2>11
<1>11. p \in {q[f] : f \in S}
  BY <1>8
<1> HIDE DEF T, Late, Upto
<1> QED
  BY <1>9, <1>10, <1>11, SizesOfPrice DEF Pr!Nth

-----------------------------------------------------------------------------
(* The inductive invariant. *)

PriceTypes ==
  /\ market \in Prices /\ running \in BOOLEAN
  /\ socket \in [Exchanges -> {"none", "connecting", "open", "mute"}]
  /\ price \in [Exchanges -> Prices \cup {Pr!None}] /\ age \in [Exchanges -> 0 .. Pr!Old]
  /\ timer \in [Exchanges -> BOOLEAN] /\ ping \in [Exchanges -> BOOLEAN] /\ stale \in [Exchanges -> BOOLEAN]

\* One connection for each socket, and none of a feed that does not run.
Sockets ==
  /\ live = [e \in Exchanges |-> IF socket[e] = "none" THEN 0 ELSE 1]
  /\ Pr!NobodyAbandoned /\ Pr!StoppedIsQuiet
  /\ ~running => \A e \in Exchanges : socket[e] = "none"

\* A quote of an honest exchange is as far from the market as the market can have moved since.
Honest == \A e \in Exchanges \ Faulty :
            price[e] # Pr!None /\ age[e] <= MaxAge => price[e] - market <= age[e] /\ market - price[e] <= age[e]

PriceIInv == PriceTypes /\ Sockets /\ Honest

LEMMA PriceStarts == ASSUME Pr!PriceAssumption PROVE Pr!Init => PriceIInv
<1> SUFFICES ASSUME Pr!Init PROVE PriceIInv
  OBVIOUS
<1>1. Pr!Old \in 0 .. Pr!Old /\ MaxAge \in Nat
  BY DEF Pr!Old, Pr!PriceAssumption
<1>2. PriceTypes
  BY <1>1 DEF Pr!Init, PriceTypes
<1>3. Sockets
  <2>1. live = [e \in Exchanges |-> IF socket[e] = "none" THEN 0 ELSE 1]
    BY DEF Pr!Init
  <2> QED
    BY <2>1 DEF Pr!Init, Sockets, Pr!NobodyAbandoned, Pr!StoppedIsQuiet
<1>4. Honest
  BY DEF Pr!Init, Honest
<1> QED
  BY <1>2, <1>3, <1>4 DEF PriceIInv

\* The sockets of all exchanges.
LEMMA FeedStep ==
  ASSUME Pr!PriceAssumption, PriceIInv, Pr!start \/ Pr!stop \/ UNCHANGED Pr!vars
  PROVE  PriceIInv'
<1>1. market' = market /\ running' \in BOOLEAN
  BY DEF Pr!start, Pr!stop, Pr!vars, PriceIInv, PriceTypes
<1>2. /\ socket' \in [Exchanges -> {"none", "connecting", "open", "mute"}]
      /\ timer' \in [Exchanges -> BOOLEAN] /\ ping' \in [Exchanges -> BOOLEAN] /\ stale' \in [Exchanges -> BOOLEAN]
  <2>1. /\ socket \in [Exchanges -> {"none", "connecting", "open", "mute"}]
        /\ timer \in [Exchanges -> BOOLEAN] /\ ping \in [Exchanges -> BOOLEAN] /\ stale \in [Exchanges -> BOOLEAN]
    BY DEF PriceIInv, PriceTypes
  <2>2. CASE Pr!start
    BY ONLY <2>1, <2>2 DEF Pr!start
  <2>3. CASE Pr!stop
    BY ONLY <2>1, <2>3 DEF Pr!stop
  <2>4. CASE UNCHANGED Pr!vars
    BY ONLY <2>1, <2>4 DEF Pr!vars
  <2> QED
    BY <2>2, <2>3, <2>4
<1>3. \/ UNCHANGED <<price, age>>
      \/ price' = [e \in Exchanges |-> Pr!None] /\ age' = [e \in Exchanges |-> Pr!Old]
  BY DEF Pr!start, Pr!stop, Pr!vars, Pr!Cleared
<1>4. /\ price' \in [Exchanges -> Prices \cup {Pr!None}] /\ age' \in [Exchanges -> 0 .. Pr!Old]
      /\ Honest'
  <2>1. Pr!Old \in 0 .. Pr!Old
    BY DEF Pr!Old, Pr!PriceAssumption
  <2> QED
    BY <1>1, <1>3, <2>1 DEF PriceIInv, PriceTypes, Honest
<1>5. Sockets'
  <2>1. CASE Pr!start
    BY <2>1 DEF Pr!start, PriceIInv, PriceTypes, Sockets, Pr!NobodyAbandoned, Pr!StoppedIsQuiet
  <2>2. CASE Pr!stop
    BY <2>2 DEF Pr!stop, Pr!Cleared, PriceIInv, PriceTypes, Sockets, Pr!NobodyAbandoned, Pr!StoppedIsQuiet
  <2>3. CASE UNCHANGED Pr!vars
    BY <2>3 DEF Pr!vars, PriceIInv, Sockets, Pr!NobodyAbandoned, Pr!StoppedIsQuiet
  <2> QED
    BY <2>1, <2>2, <2>3
<1> QED
  BY <1>1, <1>2, <1>4, <1>5 DEF PriceIInv, PriceTypes

\* The socket of one.
LEMMA SocketStep ==
  ASSUME Pr!PriceAssumption, PriceIInv, NEW e \in Exchanges,
         Pr!TimerFires(e) \/ Pr!Opened(e) \/ Pr!GoesMute(e) \/ Pr!Closes(e) \/ Pr!StaleCloses(e)
  PROVE  PriceIInv'
<1>1. UNCHANGED <<market, running, price, age>>
  BY DEF Pr!TimerFires, Pr!Opened, Pr!GoesMute, Pr!Closes, Pr!StaleCloses
<1>2. /\ socket' \in [Exchanges -> {"none", "connecting", "open", "mute"}]
      /\ timer' \in [Exchanges -> BOOLEAN] /\ ping' \in [Exchanges -> BOOLEAN] /\ stale' \in [Exchanges -> BOOLEAN]
  BY DEF Pr!TimerFires, Pr!Opened, Pr!GoesMute, Pr!Closes, Pr!StaleCloses, Pr!IgnoresStale, Pr!connectExchange,
     Pr!Dropped, PriceIInv, PriceTypes
<1>3. \/ UNCHANGED <<socket, timer, ping, live>>
      \/ /\ running
         /\ \A f \in Exchanges \ {e} : socket'[f] = socket[f] /\ timer'[f] = timer[f]
         /\ socket'[e] # "none" \/ timer'[e]
         /\ live' = [live EXCEPT ![e] = IF socket'[e] = "none" THEN 0 ELSE 1]
  <2>1. live[e] = IF socket[e] = "none" THEN 0 ELSE 1
    BY DEF PriceIInv, Sockets
  <2>2. socket[e] # "none" => running
    BY DEF PriceIInv, Sockets
  <2>3. CASE Pr!TimerFires(e)
    <3>1. running
      BY <2>3 DEF Pr!TimerFires
    <3>2. PICK s \in {"none", "connecting"} :
            /\ socket' = [socket EXCEPT ![e] = s] /\ timer' = [timer EXCEPT ![e] = (s = "none")]
            /\ live' = [live EXCEPT ![e] = IF s = "none" THEN IF socket[e] = "none" THEN @ ELSE @ - 1
                                           ELSE (IF socket[e] = "none" THEN @ ELSE @ - 1) + 1]
      BY <2>3, Zenon DEF Pr!TimerFires, Pr!connectExchange, Pr!Dropped
    <3>3. socket'[e] = s /\ timer'[e] = (s = "none") /\ live \in [Exchanges -> {0, 1}]
      BY <3>2 DEF PriceIInv, PriceTypes, Sockets
    <3>4. live' = [live EXCEPT ![e] = IF s = "none" THEN 0 ELSE 1]
      <4>1. PICK old, new : /\ old = (IF socket[e] = "none" THEN live[e] ELSE live[e] - 1)
                            /\ new = (IF s = "none" THEN old ELSE old + 1)
        OBVIOUS
      <4>2. live' = [live EXCEPT ![e] = new]
        BY <3>2, <4>1
      <4>3. old = 0
        BY <2>1, <4>1
      <4>4. new = IF s = "none" THEN 0 ELSE 1
        BY <4>1, <4>3
      <4> QED
        BY <4>2, <4>4
    <3>5. \A f \in Exchanges \ {e} : socket'[f] = socket[f] /\ timer'[f] = timer[f]
      BY <3>2 DEF PriceIInv, PriceTypes
    <3> QED
      BY <3>1, <3>3, <3>4, <3>5
  <2>4. CASE Pr!Closes(e)
    <3>1. live' = [live EXCEPT ![e] = 0] /\ running
      <4>1. live' = [live EXCEPT ![e] = live[e] - 1] /\ socket[e] # "none"
        BY <2>4 DEF Pr!Closes
      <4>2. live[e] - 1 = 0
        BY <2>1, <4>1
      <4> QED
        BY <2>2, <4>1, <4>2
    <3>2. socket' = [socket EXCEPT ![e] = "none"] /\ timer' = [timer EXCEPT ![e] = TRUE]
      BY <2>4 DEF Pr!Closes
    <3>3. /\ socket'[e] = "none" /\ timer'[e]
          /\ \A f \in Exchanges \ {e} : socket'[f] = socket[f] /\ timer'[f] = timer[f]
      BY <3>2 DEF PriceIInv, PriceTypes
    <3> QED
      BY <3>1, <3>3
  <2>5. CASE Pr!Opened(e) \/ Pr!GoesMute(e)
    <3>1. socket[e] # "none" /\ socket'[e] # "none" /\ UNCHANGED <<live, timer>>
      BY <2>5 DEF Pr!Opened, Pr!GoesMute, PriceIInv, PriceTypes
    <3>2. live' = [live EXCEPT ![e] = 1]
      BY <2>1, <3>1 DEF PriceIInv, Sockets
    <3> QED
      BY <2>2, <2>5, <3>1, <3>2 DEF Pr!Opened, Pr!GoesMute, PriceIInv, PriceTypes
  <2>6. CASE Pr!StaleCloses(e)
    BY <2>6 DEF Pr!StaleCloses, Pr!IgnoresStale
  <2> QED
    BY <2>3, <2>4, <2>5, <2>6
<1>4. Sockets'
  <2>1. CASE UNCHANGED <<socket, timer, ping, live>>
    BY <1>1, <2>1 DEF PriceIInv, Sockets, Pr!NobodyAbandoned, Pr!StoppedIsQuiet
  <2>2. CASE ~UNCHANGED <<socket, timer, ping, live>>
    BY <1>1, <1>2, <1>3, <2>2 DEF PriceIInv, Sockets, Pr!NobodyAbandoned, Pr!StoppedIsQuiet
  <2> QED
    BY <2>1, <2>2
<1> QED
  BY <1>1, <1>2, <1>4 DEF PriceIInv, PriceTypes, Honest

LEMMA QuoteStep ==
  ASSUME Pr!PriceAssumption, PriceIInv, NEW e \in Exchanges, NEW p \in Prices, Pr!Quote(e, p)
  PROVE  PriceIInv'
<1>1. /\ price' = [price EXCEPT ![e] = p] /\ age' = [age EXCEPT ![e] = 0]
      /\ UNCHANGED <<market, running, socket, timer, ping, stale, live>>
      /\ socket[e] = "open" /\ (p = market \/ e \in Faulty)
  BY DEF Pr!Quote
<1>2. running /\ 0 \in 0 .. Pr!Old /\ p \in Nat /\ market \in Nat
  BY <1>1 DEF PriceIInv, PriceTypes, Sockets, Pr!Old, Pr!PriceAssumption
<1>3. PriceTypes'
  BY <1>1, <1>2 DEF PriceIInv, PriceTypes
<1>4. Sockets'
  BY <1>1, <1>2 DEF PriceIInv, Sockets, Pr!NobodyAbandoned, Pr!StoppedIsQuiet
<1>5. Honest'
  BY <1>1, <1>2 DEF PriceIInv, PriceTypes, Honest
<1> QED
  BY <1>3, <1>4, <1>5 DEF PriceIInv

LEMMA TickStep ==
  ASSUME Pr!PriceAssumption, PriceIInv, Pr!Tick
  PROVE  PriceIInv'
<1>1. /\ age' = [e \in Exchanges |-> IF age[e] < Pr!Old THEN age[e] + 1 ELSE Pr!Old]
      /\ market' \in Prices /\ market' - market \in -1 .. 1
      /\ UNCHANGED <<running, socket, price, timer, ping, stale, live>>
  BY DEF Pr!Tick
<1>2. market \in Nat /\ market' \in Nat /\ MaxAge \in Nat /\ Pr!Old \in Nat /\ Pr!Old > MaxAge
  BY <1>1 DEF PriceIInv, PriceTypes, Pr!PriceAssumption, Pr!Old
<1>3. \A e \in Exchanges : age[e] \in 0 .. Pr!Old /\ age[e] \in Nat
  BY <1>2 DEF PriceIInv, PriceTypes
<1>4. age' \in [Exchanges -> 0 .. Pr!Old]
  BY <1>1, <1>2, <1>3
<1>5. Honest'
  <2> SUFFICES ASSUME NEW e \in Exchanges \ Faulty, price[e] # Pr!None, age'[e] <= MaxAge
               PROVE  price[e] - market' <= age'[e] /\ market' - price[e] <= age'[e]
    BY <1>1 DEF Honest
  <2>1. price[e] \in Nat /\ age'[e] = age[e] + 1
    <3>1. price[e] \in Nat
      BY DEF PriceIInv, PriceTypes, Pr!PriceAssumption
    <3>2. age'[e] = IF age[e] < Pr!Old THEN age[e] + 1 ELSE Pr!Old
      BY <1>1
    <3> QED
      BY <1>2, <1>3, <3>1, <3>2
  <2>2. price[e] - market <= age[e] /\ market - price[e] <= age[e]
    BY <1>2, <1>3, <2>1 DEF PriceIInv, Honest
  <2>3. PICK m \in Nat : m = market' /\ m - market \in -1 .. 1
    BY <1>1, <1>2
  <2>4. m - market \in -1 .. 1 /\ market \in Nat /\ age[e] \in Nat
    BY <1>2, <1>3, <2>3
  <2>5. price[e] - m <= age[e] + 1 /\ m - price[e] <= age[e] + 1
    BY <2>1, <2>2, <2>4
  <2> QED
    BY <2>1, <2>3, <2>5
<1>6. Sockets'
  BY <1>1 DEF PriceIInv, Sockets, Pr!NobodyAbandoned, Pr!StoppedIsQuiet
<1> QED
  BY <1>1, <1>4, <1>5, <1>6 DEF PriceIInv, PriceTypes

LEMMA PriceInductive ==
  ASSUME Pr!PriceAssumption
  PROVE  PriceIInv /\ [Pr!Next]_(Pr!vars) => PriceIInv'
BY FeedStep, SocketStep, QuoteStep, TickStep DEF Pr!Next

-----------------------------------------------------------------------------
(* The price that money is settled by. *)

\* A quote whose rank has an honest one on either side.
LEMMA RankIsNear ==
  ASSUME Pr!PriceAssumption, PriceIInv, NEW n \in Nat \ {0}, n <= Cardinality(Pr!FreshOnes),
         \/ Pr!FreshOnes \cap Faulty = {}
         \/ Cardinality(Pr!FreshOnes \cap Faulty) <= 1 /\ n > 1 /\ n < Cardinality(Pr!FreshOnes)
  PROVE  Pr!Nth(price, Pr!FreshOnes, n) - market \in -MaxAge .. MaxAge
<1> DEFINE p == Pr!Nth(price, Pr!FreshOnes, n)
           Upto == {e \in Pr!FreshOnes : price[e] <= p}
           Lower == {e \in Pr!FreshOnes : price[e] < p}
           Kept == Pr!FreshOnes \ Lower
           Wrong == Pr!FreshOnes \cap Faulty
<1>1. IsFiniteSet(Pr!FreshOnes) /\ Cardinality(Pr!FreshOnes) \in Nat
  <2>1. Pr!FreshOnes \subseteq Exchanges
    BY DEF Pr!FreshOnes
  <2> QED
    BY <2>1, SizesOfPrice, FS_Subset, FS_CardinalityType DEF Pr!PriceAssumption
<1>2. \A e \in Pr!FreshOnes : price[e] \in Nat /\ price[e] # Pr!None /\ age[e] \in Nat /\ age[e] <= MaxAge /\ e \in Exchanges
  <2> SUFFICES ASSUME NEW e \in Pr!FreshOnes
               PROVE  price[e] \in Nat /\ price[e] # Pr!None /\ age[e] \in Nat /\ age[e] <= MaxAge /\ e \in Exchanges
    OBVIOUS
  <2>1. e \in Exchanges /\ price[e] # Pr!None /\ age[e] <= MaxAge
    BY DEF Pr!FreshOnes
  <2>2. Pr!Old \in Nat /\ age[e] \in 0 .. Pr!Old /\ price[e] \in Prices \cup {Pr!None} /\ Prices \subseteq Nat
    BY <2>1 DEF PriceIInv, PriceTypes, Pr!PriceAssumption, Pr!Old
  <2>3. price[e] \in Nat
    BY <2>1, <2>2
  <2>4. age[e] \in Nat
    BY <2>2
  <2> QED
    BY <2>1, <2>3, <2>4
<1>3. p \in {price[e] : e \in Pr!FreshOnes} /\ Cardinality(Lower) < n /\ Cardinality(Upto) >= n
  <2>1. \A e \in Pr!FreshOnes : price[e] \in Nat
    BY <1>2
  <2> QED
    BY <1>1, <2>1, NthIsThere
<1>4. p \in Nat
  <2> HIDE DEF p
  <2> QED
    BY <1>2, <1>3
<1>5. /\ IsFiniteSet(Lower) /\ Cardinality(Lower) \in Nat /\ IsFiniteSet(Upto) /\ Cardinality(Upto) \in Nat
      /\ IsFiniteSet(Wrong) /\ Cardinality(Wrong) \in Nat
      /\ IsFiniteSet(Kept) /\ Cardinality(Kept) = Cardinality(Pr!FreshOnes) - Cardinality(Lower)
  <2>1. /\ Lower \subseteq Pr!FreshOnes /\ Upto \subseteq Pr!FreshOnes /\ Wrong \subseteq Pr!FreshOnes
        /\ Pr!FreshOnes \cap Lower = Lower
    OBVIOUS
  <2>2. Kept = Pr!FreshOnes \ Lower
    OBVIOUS
  <2> HIDE DEF Lower, Upto, Wrong, Kept, p
  <2>3. IsFiniteSet(Lower) /\ Cardinality(Lower) \in Nat
    <3>1. IsFiniteSet(Lower)
      BY ONLY <1>1, <2>1, FS_Subset
    <3> QED
      BY ONLY <3>1, FS_CardinalityType
  <2>4. IsFiniteSet(Upto) /\ Cardinality(Upto) \in Nat
    <3>1. IsFiniteSet(Upto)
      BY ONLY <1>1, <2>1, FS_Subset
    <3> QED
      BY ONLY <3>1, FS_CardinalityType
  <2>5. IsFiniteSet(Wrong) /\ Cardinality(Wrong) \in Nat
    <3>1. IsFiniteSet(Wrong)
      BY ONLY <1>1, <2>1, FS_Subset
    <3> QED
      BY ONLY <3>1, FS_CardinalityType
  <2>6. IsFiniteSet(Kept) /\ Cardinality(Kept) = Cardinality(Pr!FreshOnes) - Cardinality(Lower)
    <3>1. /\ IsFiniteSet(Pr!FreshOnes \ Lower)
          /\ Cardinality(Pr!FreshOnes \ Lower) = Cardinality(Pr!FreshOnes) - Cardinality(Pr!FreshOnes \cap Lower)
      BY ONLY <1>1, FS_Difference
    <3> QED
      BY ONLY <2>1, <2>2, <3>1
  <2> QED
    BY ONLY <2>3, <2>4, <2>5, <2>6
<1>6. PICK e \in Upto : e \notin Faulty
  <2>1. SUFFICES ASSUME Upto \subseteq Wrong PROVE FALSE
    OBVIOUS
  <2> HIDE DEF p, Upto, Wrong, Lower
  <2>2. Cardinality(Upto) <= Cardinality(Wrong)
    BY <1>5, <2>1, FS_Subset
  <2>3. Wrong # {}
    BY <1>3, <1>5, <2>1, FS_EmptySet
  <2> QED
    BY <1>3, <1>5, <2>2, <2>3 DEF Wrong
<1>7. PICK f \in Kept : f \notin Faulty
  <2>1. SUFFICES ASSUME Kept \subseteq Wrong PROVE FALSE
    OBVIOUS
  <2> HIDE DEF p, Kept, Wrong, Lower
  <2>2. Cardinality(Kept) <= Cardinality(Wrong) /\ Cardinality(Kept) \in Nat
    BY <1>5, <2>1, FS_Subset, FS_CardinalityType
  <2>3. Cardinality(Kept) > Cardinality(Pr!FreshOnes) - n
    BY <1>1, <1>3, <1>5
  <2>4. Wrong # {}
    <3>1. Cardinality(Kept) # 0
      BY <1>1, <2>2, <2>3
    <3>2. Kept # {}
      BY <3>1, FS_EmptySet
    <3> QED
      BY <2>1, <3>2
  <2> QED
    BY <1>1, <1>5, <2>2, <2>3, <2>4 DEF Wrong
<1>8. e \in Pr!FreshOnes /\ f \in Pr!FreshOnes /\ price[e] <= p /\ ~(price[f] < p)
  <2> HIDE DEF p
  <2> QED
    BY <1>6, <1>7
<1>9. /\ price[e] - market <= age[e] /\ market - price[e] <= age[e]
      /\ price[f] - market <= age[f] /\ market - price[f] <= age[f]
  BY <1>2, <1>6, <1>7, <1>8 DEF PriceIInv, Honest
<1>10. market \in Nat /\ MaxAge \in Nat
  BY DEF PriceIInv, PriceTypes, Pr!PriceAssumption
<1> HIDE DEF p
<1>11. p - market \in -MaxAge .. MaxAge
  BY <1>2, <1>4, <1>8, <1>9, <1>10
<1> QED
  BY <1>11 DEF p

\* The price that money is settled by is as near to the market as the market can have moved while
\* a quote counts as fresh, for any number of exchanges of which one may be wrong (price.ts 300-311).
THEOREM PriceIsNear ==
  ASSUME Pr!PriceAssumption, Pr!OneMayBeWrong
  PROVE  Pr!Spec => []Pr!MoneyPriceIsNear
<1>1. Pr!Init => PriceIInv
  BY PriceStarts
<1>2. PriceIInv /\ [Pr!Next]_(Pr!vars) => PriceIInv'
  BY PriceInductive
<1>3. PriceIInv => Pr!MoneyPriceIsNear
  <2> SUFFICES ASSUME PriceIInv, Pr!freshPrice2 # Pr!None, Cardinality(Pr!FreshOnes) > 2 \/ Pr!FreshOnes \cap Faulty = {}
               PROVE  Pr!freshPrice2 - 2 * market \in -(2 * MaxAge) .. 2 * MaxAge
    BY SizesOfPrice DEF Pr!MoneyPriceIsNear
  <2> DEFINE n == Cardinality(Pr!FreshOnes)
             low == Pr!Nth(price, Pr!FreshOnes, (n + 1) \div 2)
             high == Pr!Nth(price, Pr!FreshOnes, n \div 2 + 1)
  <2>1. Pr!FreshOnes \subseteq Exchanges /\ IsFiniteSet(Exchanges) /\ Faulty \subseteq Exchanges
    BY SizesOfPrice DEF Pr!FreshOnes, Pr!PriceAssumption
  <2>2. n \in Nat /\ IsFiniteSet(Faulty) /\ Cardinality(Faulty) \in Nat
    BY <2>1, FS_Subset, FS_CardinalityType
  <2>3. Pr!freshPrice2 = low + high /\ n >= 1
    BY <2>2, SizesOfPrice DEF Pr!freshPrice2, Pr!median2, Pr!PriceAssumption
  <2>4. Cardinality(Pr!FreshOnes \cap Faulty) <= 1
    <3>1. Pr!FreshOnes \cap Faulty \subseteq Faulty
      OBVIOUS
    <3>2. Cardinality(Pr!FreshOnes \cap Faulty) \in Nat /\ Cardinality(Pr!FreshOnes \cap Faulty) <= Cardinality(Faulty)
      BY <2>2, <3>1, FS_Subset, FS_CardinalityType
    <3> QED
      BY <2>2, <3>2, SizesOfPrice DEF Pr!OneMayBeWrong
  <2>5. /\ (n + 1) \div 2 \in Nat \ {0} /\ (n + 1) \div 2 <= n /\ n \div 2 + 1 \in Nat \ {0} /\ n \div 2 + 1 <= n
        /\ n > 2 => (n + 1) \div 2 > 1 /\ (n + 1) \div 2 < n /\ n \div 2 + 1 > 1 /\ n \div 2 + 1 < n
    <3> HIDE DEF n
    <3> QED
      BY <2>2, <2>3
  <2>6. low - market \in -MaxAge .. MaxAge /\ high - market \in -MaxAge .. MaxAge
    <3>1. low - market \in -MaxAge .. MaxAge
      BY <2>4, <2>5, RankIsNear
    <3>2. high - market \in -MaxAge .. MaxAge
      BY <2>4, <2>5, RankIsNear
    <3> QED
      BY <3>1, <3>2
  <2>7. low \in Int /\ high \in Int /\ market \in Nat /\ MaxAge \in Nat
    <3>1. market \in Nat /\ MaxAge \in Nat
      BY DEF PriceIInv, PriceTypes, Pr!PriceAssumption
    <3>2. low \in {price[e] : e \in Pr!FreshOnes} /\ high \in {price[e] : e \in Pr!FreshOnes}
      <4>1. \A e \in Pr!FreshOnes : price[e] \in Nat
        BY DEF Pr!FreshOnes, PriceIInv, PriceTypes, Pr!PriceAssumption
      <4>2. IsFiniteSet(Pr!FreshOnes)
        BY <2>1, FS_Subset
      <4>3. low \in {price[e] : e \in Pr!FreshOnes}
        BY <2>5, <4>1, <4>2, NthIsThere
      <4>4. high \in {price[e] : e \in Pr!FreshOnes}
        BY <2>5, <4>1, <4>2, NthIsThere
      <4> QED
        BY <4>3, <4>4
    <3>3. \A e \in Pr!FreshOnes : price[e] \in Nat
      BY DEF Pr!FreshOnes, PriceIInv, PriceTypes, Pr!PriceAssumption
    <3> HIDE DEF low, high
    <3> QED
      BY <3>1, <3>2, <3>3
  <2> HIDE DEF low, high
  <2> QED
    BY <2>3, <2>6, <2>7
<1> QED
  BY <1>1, <1>2, <1>3, PTL DEF Pr!Spec

\* Through starts, stops, dead lines and close events that come late, an exchange has one
\* connection or a timer that will make one, and a feed that was stopped has nothing left.
THEOREM FeedIsKept ==
  ASSUME Pr!PriceAssumption
  PROVE  Pr!Spec => [](Pr!TypeOK /\ Pr!NobodyAbandoned /\ Pr!OneConnection /\ Pr!StoppedIsQuiet)
<1>1. Pr!Init => PriceIInv
  BY PriceStarts
<1>2. PriceIInv /\ [Pr!Next]_(Pr!vars) => PriceIInv'
  BY PriceInductive
<1>3. PriceIInv => Pr!TypeOK
  <2> SUFFICES ASSUME PriceIInv PROVE Pr!TypeOK
    OBVIOUS
  <2>1. live \in [Exchanges -> Nat]
    BY DEF PriceIInv, Sockets
  <2> QED
    BY <2>1 DEF PriceIInv, PriceTypes, Pr!TypeOK
<1>4. PriceIInv => Pr!NobodyAbandoned /\ Pr!OneConnection /\ Pr!StoppedIsQuiet
  BY DEF PriceIInv, Sockets, Pr!OneConnection
<1> QED
  BY <1>1, <1>2, <1>3, <1>4, PTL DEF Pr!Spec
=============================================================================
