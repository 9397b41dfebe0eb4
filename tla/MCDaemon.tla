------------------------------ MODULE MCDaemon -------------------------------
(* Components of the daemon and of what it is read by, each on small instances  *)
(* of its own: the first state chooses the part, and the states of one part    *)
(* have nothing in common with those of another.  The cells v1, v2, ... are    *)
(* the variables of the part that was chosen.                                  *)
EXTENDS Naturals, FiniteSets, TLC

CONSTANTS x1, x2   \* two relays, presses or exchanges that are interchangeable
Symmetry == Permutations({x1, x2})

\* The windows of a trade in units of about half an hour (a block is a third of
\* one), in the proportions of shared/src/ln/timing.ts ...
MIN_CLAIM_LEAD == 3
MAX_DEADLINE_LEAD == 6
SPONSOR_DEPOSIT_PAY == 1
ESCROW_PAY_WINDOW == 4
ESCROW_PAY_LEAD == 1
MIN_ESCROW_PAY_WINDOW == 1
ESCROW_HOLD_MARGIN == 14
DEADLINE_GRACE == 2
DEPOSIT_MARGIN == 20
INVOICE_WINDOW == 2
CLTV_MIN_BLOCKS == 3
CLTV_MAX_BLOCKS == 30
SAFETY_SETTLE_BLOCKS == 6
ESCROW_END_BLOCKS == 8
INVOICE_ESCROW_MIN_BLOCKS == 10
HoldExpiryDelta == 1

\* ... and of shared/src/onchain/timing.ts.
MAX_ORDER_EXPIRY == 2
FUNDING_WINDOW == 3
PRESIGN_WINDOW == 2
ACCOUNT_WINDOW == 3
KRW_WINDOW == 2
COSIGN_WINDOW == 3
DISPUTE_RULING_BUDGET == 3

\* Addresses: of a wallet, of a sponsor, and none (an order from before they were asked for).
Wallet == [own |-> "wallet", kind |-> "tr", written |-> "small"]
Payout == [own |-> "sponsor", kind |-> "wpkh", written |-> "small"]
NoAddress == [own |-> "none", kind |-> "none", written |-> "none"]

VARIABLES part,
          v1, v2, v3, v4, v5, v6, v7, v8, v9, v10, v11, v12, v13, v14, v15, v16, v17, v18, v19

\* The cells a part does not need, from the given one on, stay empty.
Rest19 == <<v19>>
Rest18 == <<v18, Rest19>>
Rest17 == <<v17, Rest18>>
Rest16 == <<v16, Rest17>>
Rest15 == <<v15, Rest16>>
Rest14 == <<v14, Rest15>>
Rest13 == <<v13, Rest14>>
Rest12 == <<v12, Rest13>>
Rest11 == <<v11, Rest12>>
Rest10 == <<v10, Rest11>>
Empty19 == v19 = "-"
Empty18 == v18 = "-" /\ Empty19
Empty17 == v17 = "-" /\ Empty18
Empty16 == v16 = "-" /\ Empty17
Empty15 == v15 = "-" /\ Empty16
Empty14 == v14 = "-" /\ Empty15
Empty13 == v13 = "-" /\ Empty14
Empty12 == v12 = "-" /\ Empty13
Empty11 == v11 = "-" /\ Empty12
Empty10 == v10 = "-" /\ Empty11

vars == <<part, v1, v2, v3, v4, v5, v6, v7, v8, v9, v10, v11, v12, v13, v14, v15, v16, v17, v18,
           v19>>

\* ingress.ts: two requests, two relays that are away for up to two units
Subscriptions == INSTANCE Ingress WITH
    Requests <- {"e1", "e2"}, Relays <- {x1, x2}, Epoch <- 1, Lookback <- 4, Skew <- 1,
    Resubscribe <- 1, MaxAway <- 2, MaxTime <- 6, Far <- 20, now <- v1, created <- v2, at <- v3,
    prompt <- v4, up <- v5, cursor <- v6, from <- v7, sub <- v8, inbox <- v9, age <- v10,
    away <- v11

\* dispatch.ts: four requests, one whose handler throws
Inbox == INSTANCE Dispatch WITH
    Requests <- 1..4, Throwing <- {2}, Unrouted <- {}, Hold <- 2, TickEvery <- 3, Batch <- 2,
    FeesTake <- FALSE, MaxRestarts <- 0, inbox <- v1, outcome <- v2, applied <- v3,
    closeAfter <- v4, swapped <- v5, stage <- v6, rows <- v7, thrown <- v8, timer <- v9,
    stopped <- v10, restarts <- v11

\* dispatch.ts: the daemon is stopped and started, one request is of no known kind
Restarted == INSTANCE Dispatch WITH
    Requests <- 1..3, Throwing <- {2}, Unrouted <- {3}, Hold <- 2, TickEvery <- 3, Batch <- 2,
    FeesTake <- TRUE, MaxRestarts <- 2, inbox <- v1, outcome <- v2, applied <- v3,
    closeAfter <- v4, swapped <- v5, stage <- v6, rows <- v7, thrown <- v8, timer <- v9,
    stopped <- v10, restarts <- v11

\* publish.ts, an order of the order book
Open == INSTANCE Publication WITH
    Relays <- {x1, x2}, Operators <- {}, Designated <- FALSE, Unsealable <- {},
    Reader <- "customer", MaxVersion <- 3, MaxTime <- 7, MaxRestarts <- 1, Backoff <- 3,
    RestartTakes <- 3, now <- v1, version <- v2, lapsed <- v3, published_at <- v4,
    waiting <- v5, next_at <- v6, run <- v7, took <- v8, operators <- v9, known <- v10,
    alerted <- v11, relay <- v12, newest <- v13, book <- v14, archive <- v15, chain <- v16,
    mine <- v17, restarts <- v18

\* publish.ts, a designated trade: sealed for each party, the list of operators changes
Sealed == INSTANCE Publication WITH
    Relays <- {x1, x2}, Operators <- {"first"}, Designated <- TRUE, Unsealable <- {"sponsor"},
    Reader <- "first", MaxVersion <- 2, MaxTime <- 5, MaxRestarts <- 1, Backoff <- 2,
    RestartTakes <- 2, now <- v1, version <- v2, lapsed <- v3, published_at <- v4,
    waiting <- v5, next_at <- v6, run <- v7, took <- v8, operators <- v9, known <- v10,
    alerted <- v11, relay <- v12, newest <- v13, book <- v14, archive <- v15, chain <- v16,
    mine <- v17, restarts <- v18

\* commands.ts, admin-channel.ts: two presses of a button
Rulings == INSTANCE AdminChannel WITH
    Commands <- {x1, x2}, Devices <- {"d1"}, MaxVersion <- 3, MaxTime <- 4, MaxOffset <- 1,
    ADMIN_COMMAND_TTL <- 1, FUTURE_SKEW <- 0, now <- v1, offset <- v2, version <- v3,
    screen <- v4, status <- v5, command <- v6, posted <- v7, posting <- v8, waiting <- v9,
    judged <- v10, answer <- v11, answeredAt <- v12, heard <- v13

\* feed.ts: a relay that keeps what expired, a database begun anew
Feed == INSTANCE AdminFeed WITH
    Relays <- {"r1", "r2"}, Hoarders <- {"r1"}, LN_ACTIVE_RETENTION <- 3,
    LN_TERMINAL_RETENTION <- 1, MaxVersion <- 3, MaxTime <- 5, MaxNewDbs <- 1, MaxLogouts <- 1,
    now <- v1, designated <- v2, last <- v3, relay <- v4, states <- v5, daemonState <- v6,
    decrypting <- v7, opening <- v8, opened <- v9, shown <- v10, endSeen <- v11, newDbs <- v12,
    logouts <- v13

\* price.ts: three exchanges, one of which quotes anything
Price == INSTANCE PriceFeed WITH
    Exchanges <- {x1, x2, "third"}, Faulty <- {"third"}, Prices <- 1..3, MaxAge <- 1,
    MinSources <- 2, market <- v1, running <- v2, socket <- v3, price <- v4, age <- v5,
    timer <- v6, ping <- v7, stale <- v8, live <- v9

\* ln/timing.ts: the daemon is down for one unit in a trade
LnTime == INSTANCE LnWindows WITH
    Burst <- 2, Drift <- 2, MaxAway <- 1, now <- v1, height <- v2, away <- v3, up <- v4,
    warm <- v5, st <- v6, deadline <- v7, why <- v8, customer <- v9, sponsor <- v10,
    escrow <- v11, escrowedAt <- v12, invoiceDeadline <- v13, accountSent <- v14,
    remitAt <- v15, lost <- v16

\* ln/timing.ts: blocks far ahead of the clock
LnFast == INSTANCE LnWindows WITH
    Burst <- 2, Drift <- 9, MaxAway <- 0, now <- v1, height <- v2, away <- v3, up <- v4,
    warm <- v5, st <- v6, deadline <- v7, why <- v8, customer <- v9, sponsor <- v10,
    escrow <- v11, escrowedAt <- v12, invoiceDeadline <- v13, accountSent <- v14,
    remitAt <- v15, lost <- v16

\* onchain/timing.ts: the daemon is down for one unit, one reorganisation
OcTime == INSTANCE OcWindows WITH
    CLTV_SAFETY_MARGIN <- 14, HoldExpiryDelta <- 2, Drift <- 1, MaxAway <- 1, MaxConfirm <- 1,
    MaxReorgs <- 1, now <- v1, height <- v2, away <- v3, up <- v4, warm <- v5, st <- v6,
    why <- v7, expiration <- v8, anchor <- v9, due <- v10, fundedAt <- v11, chain <- v12,
    account <- v13, objected <- v14, sentAt <- v15, reorgs <- v16, customer <- v17,
    sponsor <- v18, lost <- v19

\* onchain/timing.ts: the daemon is always up, and the margin is smaller
OcUp == INSTANCE OcWindows WITH
    CLTV_SAFETY_MARGIN <- 4, HoldExpiryDelta <- 2, Drift <- 1, MaxAway <- 0, MaxConfirm <- 0,
    MaxReorgs <- 0, now <- v1, height <- v2, away <- v3, up <- v4, warm <- v5, st <- v6,
    why <- v7, expiration <- v8, anchor <- v9, due <- v10, fundedAt <- v11, chain <- v12,
    account <- v13, objected <- v14, sentAt <- v15, reorgs <- v16, customer <- v17,
    sponsor <- v18, lost <- v19

\* flow.ts, a rescue: an output with the agreed amount and one with another
Rescue == INSTANCE OcRescue WITH
    Right <- {"right"}, Wrong <- {"wrong"}, Fees <- {1}, MaxTries <- 2, MaxReorgs <- 1,
    Wary <- TRUE, Patient <- FALSE, SameSecond <- FALSE, trade <- v1, coins <- v2, taken <- v3,
    reorgs <- v4, facts <- v5, strays <- v6, rescues <- v7, asks <- v8, newest <- v9,
    second <- v10, shown <- v11, cosigns <- v12, queue <- v13

\* flow.ts, a rescue: two fees
TwoFees == INSTANCE OcRescue WITH
    Right <- {"right"}, Wrong <- {}, Fees <- {1, 2}, MaxTries <- 2, MaxReorgs <- 1,
    Wary <- TRUE, Patient <- FALSE, SameSecond <- FALSE, trade <- v1, coins <- v2, taken <- v3,
    reorgs <- v4, facts <- v5, strays <- v6, rescues <- v7, asks <- v8, newest <- v9,
    second <- v10, shown <- v11, cosigns <- v12, queue <- v13

\* The spending of the escrow: the market moves, an old order has no refund address
Escrow == INSTANCE OcEscrow WITH
    Amount <- 100000, Rates <- {2, 640}, ClaimRates <- {2}, Refunds <- {Wallet, NoAddress},
    Payouts <- {Payout}, ClaimKeys <- {"S", "C"}, Timelock <- 4, Distance <- 2, KrwBlocks <- 1,
    MaxSane <- 1000, MaxMoves <- 1, MaxMistakes <- 0, Forgets <- FALSE, Vanishes <- FALSE,
    order <- v1, meta <- v2, view <- v3, box <- v4, mail <- v5, sigs <- v6, held <- v7,
    knows <- v8, outbox <- v9, chain <- v10, looked <- v11, market <- v12, krw <- v13,
    up <- v14, mistakes <- v15

\* The spending of the escrow: one sign request does not match the order
Mistakes == INSTANCE OcEscrow WITH
    Amount <- 200000, Rates <- {2}, ClaimRates <- {2}, Refunds <- {Wallet}, Payouts <- {Payout},
    ClaimKeys <- {"S"}, Timelock <- 1, Distance <- 1, KrwBlocks <- 1, MaxSane <- 1000,
    MaxMoves <- 0, MaxMistakes <- 1, Forgets <- FALSE, Vanishes <- FALSE, order <- v1,
    meta <- v2, view <- v3, box <- v4, mail <- v5, sigs <- v6, held <- v7, knows <- v8,
    outbox <- v9, chain <- v10, looked <- v11, market <- v12, krw <- v13, up <- v14,
    mistakes <- v15

----------------------------------------------------------------------------
\* The first state chooses the part, and each step is one of that part.
Init ==
    \/ part = "ingress" /\ Subscriptions!Init /\ Empty12
    \/ part = "dispatch" /\ Inbox!Init /\ Empty12
    \/ part = "restart" /\ Restarted!Init /\ Empty12
    \/ part = "publish" /\ Open!Init /\ Empty19
    \/ part = "sealed" /\ Sealed!Init /\ Empty19
    \/ part = "rulings" /\ Rulings!Init /\ Empty14
    \/ part = "feed" /\ Feed!Init /\ Empty14
    \/ part = "price" /\ Price!Init /\ Empty10
    \/ part = "lnwindows" /\ LnTime!Init /\ Empty17
    \/ part = "lnfast" /\ LnFast!Init /\ Empty17
    \/ part = "ocwindows" /\ OcTime!Init
    \/ part = "ocup" /\ OcUp!Init
    \/ part = "rescue" /\ Rescue!Init /\ Empty14
    \/ part = "fees" /\ TwoFees!Init /\ Empty14
    \/ part = "escrow" /\ Escrow!Init /\ Empty16
    \/ part = "mistakes" /\ Mistakes!Init /\ Empty16
Next ==
    \/ part = "ingress" /\ Subscriptions!Next /\ UNCHANGED <<part, Rest12>>
    \/ part = "dispatch" /\ Inbox!Next /\ UNCHANGED <<part, Rest12>>
    \/ part = "restart" /\ Restarted!Next /\ UNCHANGED <<part, Rest12>>
    \/ part = "publish" /\ Open!Next /\ UNCHANGED <<part, Rest19>>
    \/ part = "sealed" /\ Sealed!Next /\ UNCHANGED <<part, Rest19>>
    \/ part = "rulings" /\ Rulings!Next /\ UNCHANGED <<part, Rest14>>
    \/ part = "feed" /\ Feed!Next /\ UNCHANGED <<part, Rest14>>
    \/ part = "price" /\ Price!Next /\ UNCHANGED <<part, Rest10>>
    \/ part = "lnwindows" /\ LnTime!Next /\ UNCHANGED <<part, Rest17>>
    \/ part = "lnfast" /\ LnFast!Next /\ UNCHANGED <<part, Rest17>>
    \/ part = "ocwindows" /\ OcTime!Next /\ UNCHANGED part
    \/ part = "ocup" /\ OcUp!Next /\ UNCHANGED part
    \/ part = "rescue" /\ Rescue!Next /\ UNCHANGED <<part, Rest14>>
    \/ part = "fees" /\ TwoFees!Next /\ UNCHANGED <<part, Rest14>>
    \/ part = "escrow" /\ Escrow!Next /\ UNCHANGED <<part, Rest16>>
    \/ part = "mistakes" /\ Mistakes!Next /\ UNCHANGED <<part, Rest16>>
    \* the parts whose work may be over
    \/ part \notin {"dispatch", "restart", "price"} /\ UNCHANGED vars
Spec == Init /\ [][Next]_vars

\* What the modules assume of their constants holds in every part.
ASSUME PartsAssumption ==
    /\ Subscriptions!IngressAssumption
    /\ Inbox!DispatchAssumption
    /\ Restarted!DispatchAssumption
    /\ Open!PublicationAssumption /\ Open!PausesAreLong
    /\ Sealed!PublicationAssumption /\ Sealed!PausesAreLong
    /\ Rulings!AdminChannelAssumption
    /\ Feed!AdminFeedAssumption
    /\ Price!PriceAssumption /\ Price!OneMayBeWrong
    /\ LnTime!AreWindows /\ LnTime!SleepIsShort /\ LnTime!EscrowIsLong
    /\ LnTime!DepositsAreLong /\ LnTime!PayWindowIsWhole
    /\ LnFast!AreWindows /\ LnFast!SleepIsShort
    /\ OcTime!AreWindows /\ OcTime!MarginIsWide
    /\ OcUp!AreWindows /\ OcUp!MarginIsWide
    /\ Rescue!RescueAssumption
    /\ TwoFees!RescueAssumption
    /\ Escrow!EscrowAssumption /\ Escrow!PayoutsAreNotHers
    /\ Escrow!AddressesArePlain /\ Escrow!RatesAreSane
    /\ Mistakes!EscrowAssumption
----------------------------------------------------------------------------
\* ingress.ts, dispatch.ts: a request that was sent in time stays within reach of the
\* subscriptions that follow each other; it is applied exactly if its outcome is ok, however
\* handlers throw and the daemon restarts; requests are judged in the order they were made;
\* and the tick never goes to sleep for good.
RequestsAreJudged ==
    /\ part = "ingress" => Subscriptions!TypeOK /\ Subscriptions!StaysInReach
    /\ part = "dispatch" => Inbox!TypeOK /\ Inbox!ExactlyIfOk /\ Inbox!NeverAsleep /\ Inbox!JudgedInOrder
    /\ part = "restart" => Restarted!TypeOK /\ Restarted!ExactlyIfOk /\ Restarted!NeverAsleep

\* publish.ts, commands.ts, feed.ts: among the events at a relay the newest state wins, what
\* has no publication waiting is published, an operator rules once on what he sees, and he sees
\* no order of a database that is gone.
ChangesAreSeen ==
    /\ part = "publish" => Open!TypeOK /\ Open!NewestStays /\ Open!NothingWaitingMeansPublished
    /\ part = "sealed" => Sealed!TypeOK /\ Sealed!NewestStays /\ Sealed!NothingWaitingMeansPublished
    /\ part = "rulings" => Rulings!TypeOK /\ Rulings!OneRulingPerVersion
    /\ part = "feed" => Feed!TypeOK /\ Feed!OldDbHidden

\* ln/timing.ts, onchain/timing.ts: the deposits, the escrow and the bonds outlast every step
\* they have to cover, deadlines end, and who acts in time is not late because the daemon was
\* down or a block was undone.
WindowsAreLongEnough ==
    /\ part = "lnwindows" => /\ LnTime!TypeOK /\ LnTime!KrwIsCovered /\ LnTime!ForfeitIsThere /\ LnTime!LateClaimIsApproved
                             /\ LnTime!EndsInTime /\ LnTime!RemitInTimeIsHeard
    /\ part = "lnfast" => LnFast!KrwIsCovered /\ LnFast!EndsInTime /\ LnFast!InvoiceHadTime
    /\ part = "ocwindows" => /\ OcTime!TypeOK /\ OcTime!BondIsThere /\ OcTime!OptionIsBoundedByTheDaemon
                             /\ OcTime!NobodyInTimeIsLate /\ OcTime!WindowIsWhole
                             /\ OcTime!ReorgIsNobodysFault
    /\ part = "ocup" => OcUp!OptionIsBounded /\ OcUp!BondIsThere

\* actions.ts, flow.ts, policy.ts, price.ts: nobody can take the escrow alone, a release stays
\* ready and a device signs only what is its own; a rescue that is shown as sent has left its
\* address, at the fee the customer signed last; and money is moved at a price that is near
\* what an honest exchange asks.
MoneyIsSafe ==
    /\ part = "escrow" => Escrow!TypeOK /\ Escrow!NobodyTakesAlone /\ Escrow!ReleaseStaysReady
    /\ part = "mistakes" => Mistakes!SignsOnlyOwn
    /\ part = "rescue" => Rescue!TypeOK /\ Rescue!SentHasLeft
    /\ part = "fees" => TwoFees!SentHasLeft /\ TwoFees!FinishedIsAsked
    /\ part = "price" => /\ Price!TypeOK /\ Price!MoneyPriceIsNear /\ Price!NobodyAbandoned /\ Price!OneConnection
                         /\ Price!StoppedIsQuiet

\* order-store.ts, idb.ts, feed.ts: an app never goes back to an earlier state of an order;
\* commands.ts: what was pressed long ago is not executed; flow.ts, actions.ts: no rescue takes
\* the escrow of a trade that lives, a settlement that is finished stays the one, and the won
\* leave only while the timelock is far.
NothingIsUndone ==
    [][/\ part = "publish" => Open!NeverBack
       /\ part = "feed" => Feed!NeverBack
       /\ part = "rulings" => Rulings!NeverExecutedLate
       /\ part = "rescue" => Rescue!LiveEscrowIsKept
       /\ part = "escrow" => Escrow!FinishedOnce /\ Escrow!RemitKeepsDistance]_vars
==============================================================================
