------------------------------- MODULE MCLive --------------------------------
(* Whatever was begun comes to its end: what the components promise in the end, *)
(* each on a small instance of its own and under the fairness its module       *)
(* states, or less.  The first state chooses the part; the cells v1, v2, ...   *)
(* are the variables of the part that was chosen.                              *)
EXTENDS Naturals, FiniteSets

Limits == [k \in {"publish", "money", "broadcast"} |-> IF k = "broadcast" THEN 2 ELSE 0]

\* Addresses: of a wallet, of a sponsor, and none (an order from before they were asked for).
Wallet == [own |-> "wallet", kind |-> "tr", written |-> "small"]
Payout == [own |-> "sponsor", kind |-> "wpkh", written |-> "small"]
NoAddress == [own |-> "none", kind |-> "none", written |-> "none"]

VARIABLES part,
          v1, v2, v3, v4, v5, v6, v7, v8, v9, v10, v11, v12, v13, v14, v15, v16, v17, v18, v19,
          v20, v21

\* The cells a part does not need, from the given one on, stay empty.
Rest21 == <<v21>>
Rest20 == <<v20, Rest21>>
Rest19 == <<v19, Rest20>>
Rest18 == <<v18, Rest19>>
Rest17 == <<v17, Rest18>>
Rest16 == <<v16, Rest17>>
Rest15 == <<v15, Rest16>>
Rest14 == <<v14, Rest15>>
Rest13 == <<v13, Rest14>>
Rest12 == <<v12, Rest13>>
Rest11 == <<v11, Rest12>>
Rest10 == <<v10, Rest11>>
Rest9 == <<v9, Rest10>>
Empty21 == v21 = "-"
Empty20 == v20 = "-" /\ Empty21
Empty19 == v19 = "-" /\ Empty20
Empty18 == v18 = "-" /\ Empty19
Empty17 == v17 = "-" /\ Empty18
Empty16 == v16 = "-" /\ Empty17
Empty15 == v15 = "-" /\ Empty16
Empty14 == v14 = "-" /\ Empty15
Empty13 == v13 = "-" /\ Empty14
Empty12 == v12 = "-" /\ Empty13
Empty11 == v11 = "-" /\ Empty12
Empty10 == v10 = "-" /\ Empty11
Empty9 == v9 = "-" /\ Empty10

vars == <<part, v1, v2, v3, v4, v5, v6, v7, v8, v9, v10, v11, v12, v13, v14, v15, v16, v17, v18,
           v19, v20, v21>>

\* hold/index.ts: the creation of an invoice, calls that fail but not for ever
Created == INSTANCE HoldInvoice WITH
    Hold <- {"h1"}, row <- v1, bolt11 <- v2, creating <- v3, disposing <- v4, node <- v5,
    exec <- v6, settleAsked <- v7, alarm <- v8

\* hold/index.ts: the disposal of an invoice
Disposed == INSTANCE HoldInvoice WITH
    Hold <- {"h1"}, row <- v1, bolt11 <- v2, creating <- v3, disposing <- v4, node <- v5,
    exec <- v6, settleAsked <- v7, alarm <- v8

\* A Lightning trade that everybody may abandon, LND fails again and again
Trade == INSTANCE LnTrade WITH
    Sponsors <- {"s1"}, MaxHolds <- 1, MaxCrashes <- 0, MinLife <- 4, Deposits <- {},
    Failing <- {"reads", "effects", "answers"}, order <- v1, holds <- v2, pc <- v3, todo <- v4,
    phase <- v5, invoiceDue <- v6, life <- v7, seenLife <- v8, heightOk <- v9, warm <- v10,
    crashes <- v11, remit <- v12, alerts <- v13

\* effects.ts: two effects, one run at a time, an outside world that does not refuse for ever
Queue == INSTANCE EffectQueue WITH
    Orders <- {"o1"}, Kinds <- {"publish", "money", "broadcast"}, Limit <- Limits,
    Watched <- {"publish", "money"}, MaxEffects <- 2, MaxVersion <- 2, MaxDelay <- 2,
    BatchLimit <- 1, StuckAttempts <- 1, MaxCrashes <- 0, effects <- v1, before <- v2,
    version <- v3, sent <- v4, alarmed <- v5, follow <- v6, acted <- v7, stage <- v8,
    batch <- v9, running <- v10, seen <- v11, crashes <- v12

\* ingress.ts: a request at a relay that is away for up to two units
Subscriptions == INSTANCE Ingress WITH
    Requests <- {"e1"}, Relays <- {"r1"}, Epoch <- 1, Lookback <- 4, Skew <- 1,
    Resubscribe <- 1, MaxAway <- 2, MaxTime <- 6, Far <- 20, now <- v1, created <- v2, at <- v3,
    prompt <- v4, up <- v5, cursor <- v6, from <- v7, sub <- v8, inbox <- v9, age <- v10,
    away <- v11

\* dispatch.ts: three requests, one whose handler throws
Inbox == INSTANCE Dispatch WITH
    Requests <- 1..3, Throwing <- {2}, Unrouted <- {}, Hold <- 2, TickEvery <- 3, Batch <- 2,
    FeesTake <- FALSE, MaxRestarts <- 0, inbox <- v1, outcome <- v2, applied <- v3,
    closeAfter <- v4, swapped <- v5, stage <- v6, rows <- v7, thrown <- v8, timer <- v9,
    stopped <- v10, restarts <- v11

\* dispatch.ts: the daemon is stopped and started once
Restarted == INSTANCE Dispatch WITH
    Requests <- 1..3, Throwing <- {2}, Unrouted <- {3}, Hold <- 2, TickEvery <- 3, Batch <- 2,
    FeesTake <- TRUE, MaxRestarts <- 1, inbox <- v1, outcome <- v2, applied <- v3,
    closeAfter <- v4, swapped <- v5, stage <- v6, rows <- v7, thrown <- v8, timer <- v9,
    stopped <- v10, restarts <- v11

\* publish.ts: two relays, two versions of an order
Open == INSTANCE Publication WITH
    Relays <- {"r1", "r2"}, Operators <- {}, Designated <- FALSE, Unsealable <- {},
    Reader <- "customer", MaxVersion <- 2, MaxTime <- 6, MaxRestarts <- 1, Backoff <- 3,
    RestartTakes <- 3, now <- v1, version <- v2, lapsed <- v3, published_at <- v4,
    waiting <- v5, next_at <- v6, run <- v7, took <- v8, operators <- v9, known <- v10,
    alerted <- v11, relay <- v12, newest <- v13, book <- v14, archive <- v15, chain <- v16,
    mine <- v17, restarts <- v18

\* commands.ts: one press of a button
Rulings == INSTANCE AdminChannel WITH
    Commands <- {"c1"}, Devices <- {"d1"}, MaxVersion <- 3, MaxTime <- 3, MaxOffset <- 1,
    ADMIN_COMMAND_TTL <- 1, FUTURE_SKEW <- 0, now <- v1, offset <- v2, version <- v3,
    screen <- v4, status <- v5, command <- v6, posted <- v7, posting <- v8, waiting <- v9,
    judged <- v10, answer <- v11, answeredAt <- v12, heard <- v13

\* feed.ts: the screen of an operator
Feed == INSTANCE AdminFeed WITH
    Relays <- {"r1"}, Hoarders <- {}, LN_ACTIVE_RETENTION <- 9, LN_TERMINAL_RETENTION <- 5,
    MaxVersion <- 2, MaxTime <- 4, MaxNewDbs <- 1, MaxLogouts <- 0, now <- v1, designated <- v2,
    last <- v3, relay <- v4, states <- v5, daemonState <- v6, decrypting <- v7, opening <- v8,
    opened <- v9, shown <- v10, endSeen <- v11, newDbs <- v12, logouts <- v13

\* price.ts: one exchange
Price == INSTANCE PriceFeed WITH
    Exchanges <- {"e1"}, Faulty <- {}, Prices <- {1}, MaxAge <- 1, MinSources <- 1,
    market <- v1, running <- v2, socket <- v3, price <- v4, age <- v5, timer <- v6, ping <- v7,
    stale <- v8, live <- v9

\* flow.ts, a rescue: one output, a node that does not refuse for ever
Rescue == INSTANCE OcRescue WITH
    Right <- {"right"}, Wrong <- {}, Fees <- {1}, MaxTries <- 2, MaxReorgs <- 0, Wary <- TRUE,
    Patient <- TRUE, SameSecond <- FALSE, trade <- v1, coins <- v2, taken <- v3, reorgs <- v4,
    facts <- v5, strays <- v6, rescues <- v7, asks <- v8, newest <- v9, second <- v10,
    shown <- v11, cosigns <- v12, queue <- v13

\* The spending of the escrow: whoever is asked signs
Escrow == INSTANCE OcEscrow WITH
    Amount <- 100000, Rates <- {2}, ClaimRates <- {2}, Refunds <- {Wallet, NoAddress},
    Payouts <- {Payout}, ClaimKeys <- {"S"}, Timelock <- 2, Distance <- 1, KrwBlocks <- 1,
    MaxSane <- 1000, MaxMoves <- 0, MaxMistakes <- 0, Forgets <- FALSE, Vanishes <- FALSE,
    order <- v1, meta <- v2, view <- v3, box <- v4, mail <- v5, sigs <- v6, held <- v7,
    knows <- v8, outbox <- v9, chain <- v10, looked <- v11, market <- v12, krw <- v13,
    up <- v14, mistakes <- v15

\* The spending of the escrow: only the customer is left
Gone == INSTANCE OcEscrow WITH
    Amount <- 100000, Rates <- {2}, ClaimRates <- {2}, Refunds <- {Wallet}, Payouts <- {Payout},
    ClaimKeys <- {"S"}, Timelock <- 1, Distance <- 1, KrwBlocks <- 1, MaxSane <- 1000,
    MaxMoves <- 0, MaxMistakes <- 0, Forgets <- FALSE, Vanishes <- TRUE, order <- v1,
    meta <- v2, view <- v3, box <- v4, mail <- v5, sigs <- v6, held <- v7, knows <- v8,
    outbox <- v9, chain <- v10, looked <- v11, market <- v12, krw <- v13, up <- v14,
    mistakes <- v15

\* The userscript and the seller's app: one sale, an account and a status that may not arrive at first
Shop == INSTANCE Coupang WITH
    MaxOrders <- 1, Fails <- {"account", "status"}, Hasty <- FALSE, Typing <- TRUE,
    OldKey <- FALSE, Cancels <- FALSE, SelfPays <- FALSE, Lapses <- FALSE, shop <- v1,
    dead <- v2, payer <- v3, key <- v4, code <- v5, processed <- v6, page <- v7, relay <- v8,
    card <- v9, orders <- v10, line <- v11, requesting <- v12, attaching <- v13, sending <- v14,
    heard <- v15, seen <- v16, dated <- v17, st <- v18, sent <- v19, sends <- v20,
    reached <- v21

\* The cards of a Lightning trade: everybody does what his card offers
LnCard == INSTANCE LnCards WITH
    Customer <- "customer", Sponsors <- {"s"}, NoOne <- "nobody", MaxClaims <- 1,
    MaxInvoices <- 1, MaxReloads <- 0, Mistakes <- FALSE, Outside <- FALSE, Patient <- TRUE,
    InOrder <- TRUE, order <- v1, closing <- v2, invoice <- v3, payout <- v4, committed <- v5,
    paid <- v6, claims <- v7, requests <- v8, notices <- v9, raw <- v10, account <- v11,
    shown <- v12, received <- v13, heard <- v14, claimError <- v15, made <- v16, sending <- v17,
    reloads <- v18

\* chat-store.ts: one text is sent twice, one is received
Chat == INSTANCE ChatStore WITH
    Texts <- {"t1"}, Theirs <- {"m1"}, MaxTries <- 2, MaxEnters <- 2, MaxReloads <- 0,
    AcksLost <- TRUE, SlowLoads <- FALSE, open <- v1, chats <- v2, idb <- v3, asked <- v4,
    reads <- v5, flying <- v6, relay <- v7, retrying <- v8, tries <- v9, enters <- v10,
    reloads <- v11

\* chat.ts: the operator is called
Call == INSTANCE ChatCall WITH
    Customer <- "customer", Sponsors <- {"s"}, NoOne <- "nobody", CHAT_DM_QUIET_SEC <- 2,
    PEER_PUSH_QUIET_SEC <- 1, MaxTime <- 2, MaxEvents <- 2, MaxReplacements <- 0, now <- v1,
    sponsor <- v2, replaced <- v3, sent <- v4, handled <- v5, dmAt <- v6, disclosed <- v7,
    peerLast <- v8, copies <- v9, called <- v10, seen <- v11, written <- v12, dms <- v13,
    waits <- v14, first <- v15

\* subscribe.ts: the operator changes his key, nothing is cut off
Moves == INSTANCE Push WITH
    Devices <- {"d1"}, MaxKey <- 2, MaxEp <- 2, Versions <- 0, Chats <- 0, MaxFaults <- 0,
    MaxCrashes <- 0, Breaks <- 0, Disables <- 0, key <- v1, built <- v2, sub <- v3, mig <- v4,
    migEp <- v5, lost <- v6, pan <- v7, panEp <- v8, wire <- v9, made <- v10, rows <- v11,
    status <- v12, attempts <- v13, queue <- v14, run <- v15, answered <- v16, visible <- v17,
    newest <- v18, left <- v19

\* push/send.ts: one device, two posts that fail, a crash
Rings == INSTANCE Push WITH
    Devices <- {"d1"}, MaxKey <- 1, MaxEp <- 2, Versions <- 2, Chats <- 0, MaxFaults <- 2,
    MaxCrashes <- 1, Breaks <- 0, Disables <- 0, key <- v1, built <- v2, sub <- v3, mig <- v4,
    migEp <- v5, lost <- v6, pan <- v7, panEp <- v8, wire <- v9, made <- v10, rows <- v11,
    status <- v12, attempts <- v13, queue <- v14, run <- v15, answered <- v16, visible <- v17,
    newest <- v18, left <- v19

----------------------------------------------------------------------------
\* The first state chooses the part, and each step is one of that part.
Init ==
    \/ part = "create" /\ Created!Init /\ Empty9
    \/ part = "dispose" /\ Disposed!Init /\ Empty9
    \/ part = "trade" /\ Trade!Init /\ Empty14
    \/ part = "queue" /\ Queue!Init /\ Empty13
    \/ part = "ingress" /\ Subscriptions!Init /\ Empty12
    \/ part = "dispatch" /\ Inbox!Init /\ Empty12
    \/ part = "restart" /\ Restarted!Init /\ Empty12
    \/ part = "publish" /\ Open!Init /\ Empty19
    \/ part = "rulings" /\ Rulings!Init /\ Empty14
    \/ part = "feed" /\ Feed!Init /\ Empty14
    \/ part = "price" /\ Price!Init /\ Empty10
    \/ part = "rescue" /\ Rescue!Init /\ Empty14
    \/ part = "escrow" /\ Escrow!Init /\ Empty16
    \/ part = "gone" /\ Gone!Init /\ Empty16
    \/ part = "shop" /\ Shop!Init
    \/ part = "ln" /\ LnCard!Init /\ Empty19
    \/ part = "chat" /\ Chat!Init /\ Empty12
    \/ part = "call" /\ Call!Init /\ Empty16
    \/ part = "moves" /\ Moves!Init /\ Empty20
    \/ part = "push" /\ Rings!Init /\ Empty20
Next ==
    \/ part = "create" /\ Created!Next /\ UNCHANGED <<part, Rest9>>
    \/ part = "dispose" /\ Disposed!Next /\ UNCHANGED <<part, Rest9>>
    \/ part = "trade" /\ Trade!Next /\ UNCHANGED <<part, Rest14>>
    \/ part = "queue" /\ Queue!Next /\ UNCHANGED <<part, Rest13>>
    \/ part = "ingress" /\ Subscriptions!Next /\ UNCHANGED <<part, Rest12>>
    \/ part = "dispatch" /\ Inbox!Next /\ UNCHANGED <<part, Rest12>>
    \/ part = "restart" /\ Restarted!Next /\ UNCHANGED <<part, Rest12>>
    \/ part = "publish" /\ Open!Next /\ UNCHANGED <<part, Rest19>>
    \/ part = "rulings" /\ Rulings!Next /\ UNCHANGED <<part, Rest14>>
    \/ part = "feed" /\ Feed!Next /\ UNCHANGED <<part, Rest14>>
    \/ part = "price" /\ Price!Next /\ UNCHANGED <<part, Rest10>>
    \/ part = "rescue" /\ Rescue!Next /\ UNCHANGED <<part, Rest14>>
    \/ part = "escrow" /\ Escrow!Next /\ UNCHANGED <<part, Rest16>>
    \/ part = "gone" /\ Gone!Next /\ UNCHANGED <<part, Rest16>>
    \/ part = "shop" /\ Shop!Next /\ UNCHANGED part
    \/ part = "ln" /\ LnCard!Next /\ UNCHANGED <<part, Rest19>>
    \/ part = "chat" /\ Chat!Next /\ UNCHANGED <<part, Rest12>>
    \/ part = "call" /\ Call!Next /\ UNCHANGED <<part, Rest16>>
    \/ part = "moves" /\ Moves!Next /\ UNCHANGED <<part, Rest20>>
    \/ part = "push" /\ Rings!Next /\ UNCHANGED <<part, Rest20>>
    \* the parts whose work may be over
    \/ part \notin {"queue", "dispatch", "restart", "price"} /\ UNCHANGED vars
Spec == Init /\ [][Next]_vars

----------------------------------------------------------------------------
\* What a part does in the end if it can go on doing it: the n-th of its fair actions.
Weak(n) ==
    /\ UNCHANGED part
    /\ \/ part = "create" /\ UNCHANGED Rest9 /\
            \/ n = 1 /\ Created!Observe("h1")
            \/ n = 2 /\ (Created!DisposeAct("h1") \/ Created!DisposeRecord("h1"))
       \/ part = "dispose" /\ UNCHANGED Rest9 /\
            \/ n = 1 /\ Disposed!Observe("h1")
            \/ n = 2 /\ (Disposed!CreateAct("h1") \/ Disposed!CreateRecord("h1"))
       \/ part = "trade" /\ UNCHANGED Rest14 /\
            \/ n = 1 /\ Trade!Watching
            \/ n = 2 /\ Trade!EndTick
       \/ part = "queue" /\ UNCHANGED Rest13 /\
            \/ n = 1 /\ Queue!Loop
            \/ n = 2 /\ Queue!Outcome
            \/ n = 3 /\ Queue!Pass
       \/ part = "dispatch" /\ UNCHANGED Rest12 /\
            \/ n = 1 /\ Inbox!Tick
            \/ n = 2 /\ Inbox!Fire
            \/ n = 3 /\ Inbox!Elapse
       \/ part = "restart" /\ UNCHANGED Rest12 /\
            \/ n = 1 /\ Restarted!Tick
            \/ n = 2 /\ Restarted!Fire
            \/ n = 3 /\ Restarted!Elapse
            \/ n = 4 /\ Restarted!start
       \/ part = "publish" /\ UNCHANGED Rest19 /\
            \/ n = 1 /\ Open!Elapse
            \/ n = 2 /\ Open!Run
            \/ n = 3 /\ Open!Done
            \/ n = 4 /\ v3 /\ Open!Update
            \/ n = 5 /\ \E r \in {"r1", "r2"} : Open!Accept(r, "public")
            \/ n = 6 /\ \E r \in {"r1", "r2"} : Open!Accept(r, "customer")
            \/ n = 7 /\ \E r \in {"r1", "r2"} : Open!Accept(r, "sponsor")
            \/ n = 8 /\ Open!Hear("r1")
            \/ n = 9 /\ Open!Hear("r2")
       \/ part = "rulings" /\ UNCHANGED Rest14 /\
            \/ n = 1 /\ Rulings!handle("c1")
            \/ n = 2 /\ Rulings!Publish("c1")
            \/ n = 3 /\ Rulings!receiveResult("c1")
            \/ n = 4 /\ (Rulings!Sent("c1") \/ Rulings!SendFailed("c1"))
            \/ n = 5 /\ Rulings!Timeout("c1")
       \/ part = "feed" /\ UNCHANGED Rest14 /\
            \/ n = 1 /\ \E s \in v5 : Feed!onStateEvent(s)
            \/ n = 2 /\ \E s \in v5 : Feed!StateDecrypted(s)
            \/ n = 3 /\ Feed!Receive("r1")
            \/ n = 4 /\ Feed!onDesignatedEvent("r1")
            \/ n = 5 /\ \E e \in v8 : Feed!Opened(e)
       \/ part = "price" /\ UNCHANGED Rest10 /\
            \/ n = 1 /\ Price!Tick
            \/ n = 2 /\ v3["e1"] = "mute" /\ Price!Closes("e1")
       \/ part = "rescue" /\ UNCHANGED Rest14 /\
            \/ n = 1 /\ Rescue!Gather
            \/ n = 2 /\ Rescue!Apply
            \/ n = 3 /\ Rescue!NextSecond
            \/ n = 4 /\ Rescue!Mine("right")
            \/ n = 5 /\ Rescue!sign("right")
            \/ n = 6 /\ Rescue!ocRescueCosign([coin |-> "right", fee |-> 1])
            \/ n = 7 /\ \E e \in v13 : e.tries = 0 /\ (Rescue!Accepted(e) \/ Rescue!Refused(e))
            \/ n = 8 /\ \E e \in v13 : e.tries = 1 /\ (Rescue!Accepted(e) \/ Rescue!Refused(e))
       \/ part = "escrow" /\ UNCHANGED Rest16 /\
            \/ n = 1 /\ Escrow!See("customer")
            \/ n = 2 /\ Escrow!See("sponsor")
            \/ n = 3 /\ Escrow!sign("customer", "refund")
            \/ n = 4 /\ Escrow!sign("customer", "dispute-customer")
            \/ n = 5 /\ Escrow!sign("customer", "dispute-sponsor")
            \/ n = 6 /\ Escrow!sign("sponsor", "refund")
            \/ n = 7 /\ Escrow!sign("sponsor", "dispute-customer")
            \/ n = 8 /\ Escrow!sign("sponsor", "dispute-sponsor")
            \/ n = 9 /\ Escrow!Hears
            \/ n = 10 /\ Escrow!Confirm
       \/ part = "gone" /\ UNCHANGED Rest16 /\
            \/ n = 1 /\ Gone!See("customer")
            \/ n = 2 /\ Gone!Block
            \/ n = 3 /\ Gone!Sweep
            \/ n = 4 /\ Gone!buildRefundSweep
       \/ part = "shop" /\
            \/ n = 1 /\ Shop!Visit
            \/ n = 2 /\ Shop!Published
            \/ n = 3 /\ Shop!Paste
            \/ n = 4 /\ Shop!HearParsed
            \/ n = 5 /\ Shop!HearStatus("paid")
            \/ n = 6 /\ Shop!HearStatus("cancelled")
            \/ n = 7 /\ \E s \in v14 : Shop!Arrive(s)
            \/ n = 8 /\ \E s \in v14 : Shop!Told(s, TRUE)
            \/ n = 9 /\ Shop!HearOrder(1)
       \/ part = "ln" /\ UNCHANGED Rest19 /\
            \/ n = 1 /\ LnCard!publish
            \/ n = 2 /\ LnCard!Pay("customer")
            \/ n = 3 /\ LnCard!Hear("customer")
            \/ n = 4 /\ LnCard!Pay("s")
            \/ n = 5 /\ LnCard!Hear("s")
            \/ n = 6 /\ LnCard!sendAccount
            \/ n = 7 /\ LnCard!publishClaim("s")
            \/ n = 8 /\ LnCard!handleSubmit("s", "good")
            \/ n = 9 /\ LnCard!Handle
            \/ n = 10 /\ LnCard!customerDepositAccepted
            \/ n = 11 /\ LnCard!sponsorDepositAccepted
            \/ n = 12 /\ LnCard!approve
            \/ n = 13 /\ LnCard!escrowAccepted
            \/ n = 14 /\ LnCard!finishClose
            \/ n = 15 /\ LnCard!Payout
            \/ n = 16 /\ LnCard!onSubmitted
            \/ n = 17 /\ LnCard!handleAccountInfo
            \/ n = 18 /\ LnCard!setClaimError
       \/ part = "chat" /\ UNCHANGED Rest12 /\
            \/ n = 1 /\ Chat!Read
            \/ n = 2 /\ Chat!loadFromIdb
            \/ n = 3 /\ Chat!Published(<<"t1", 1>>)
            \/ n = 4 /\ Chat!Published(<<"t1", 2>>)
            \/ n = 5 /\ Chat!Echo(<<"t1", 1>>) /\ ~Chat!Has(<<"t1", 1>>)
            \/ n = 6 /\ Chat!Echo(<<"t1", 2>>) /\ ~Chat!Has(<<"t1", 2>>)
            \/ n = 7 /\ Chat!Echo(<<"m1", 1>>) /\ ~Chat!Has(<<"m1", 1>>)
       \/ part = "call" /\ UNCHANGED Rest16 /\
            \/ n = 1 /\ Call!Handle
            \/ n = 2 /\ Call!Signal("customer")
            \/ n = 3 /\ Call!Signal("s")
       \/ part = "moves" /\ UNCHANGED Rest20 /\
            \/ n = 1 /\ Moves!MigUnsubscribes("d1")
            \/ n = 2 /\ Moves!MigSubscribes("d1")
            \/ n = 3 /\ Moves!MigPublishes("d1")
            \/ n = 4 /\ Moves!EnableUnsubscribes("d1")
            \/ n = 5 /\ Moves!EnableSubscribes("d1")
            \/ n = 6 /\ Moves!EnablePublishes("d1")
            \/ n = 7 /\ Moves!pushSubscription(1)
            \/ n = 8 /\ Moves!pushSubscription(2)
            \/ n = 9 /\ Moves!Start
            \/ n = 10 /\ Moves!Post
            \/ n = 11 /\ Moves!Finish
       \/ part = "push" /\ UNCHANGED Rest20 /\
            \/ n = 1 /\ Rings!EnableUnsubscribes("d1")
            \/ n = 2 /\ Rings!EnableSubscribes("d1")
            \/ n = 3 /\ Rings!EnablePublishes("d1")
            \/ n = 4 /\ Rings!pushSubscription(1)
            \/ n = 5 /\ Rings!pushSubscription(2)
            \/ n = 6 /\ Rings!Due(<<"order", 1>>)
            \/ n = 7 /\ Rings!Due(<<"order", 2>>)
            \/ n = 8 /\ Rings!Due(<<"welcome", 1>>)
            \/ n = 9 /\ Rings!Due(<<"welcome", 2>>)
            \/ n = 10 /\ Rings!Start
            \/ n = 11 /\ Rings!Post
            \/ n = 12 /\ Rings!Finish

\* What a part does in the end if it can do it again and again.
Strong(n) ==
    /\ UNCHANGED part
    /\ \/ part = "create" /\ UNCHANGED Rest9 /\
            \/ n = 1 /\ Created!CreateLookup("h1")
            \/ n = 2 /\ Created!CreateAct("h1")
            \/ n = 3 /\ Created!CreateRecord("h1")
       \/ part = "dispose" /\ UNCHANGED Rest9 /\
            \/ n = 1 /\ Disposed!DisposeLookup("h1")
            \/ n = 2 /\ Disposed!DisposeAct("h1")
            \/ n = 3 /\ Disposed!DisposeRecord("h1")
       \/ part = "trade" /\ UNCHANGED Rest14 /\
            \/ n = 1 /\ ((1 \in DOMAIN v2 /\ (Trade!HoldCreate(1) \/ Trade!HoldDispose(1))) \/ Trade!CloseStart)
            \/ n = 2 /\ 1 \in DOMAIN v2 /\ Trade!CloseHold(1)
            \/ n = 3 /\ (Trade!CloseFinished \/ Trade!CloseAbandoned)
       \/ part = "queue" /\ UNCHANGED Rest13 /\
            \/ n = 1 /\ (v10 = 1 /\ (Queue!AnswerDone \/ Queue!Act))
            \/ n = 2 /\ (v10 = 2 /\ (Queue!AnswerDone \/ Queue!Act))
       \/ part = "ingress" /\ UNCHANGED Rest12 /\
            \/ n = 1 /\ Subscriptions!start({"r1"})
            \/ n = 2 /\ Subscriptions!reopen({"r1"})
            \/ n = 3 /\ Subscriptions!accept("e1", "r1")
       \/ part = "feed" /\ UNCHANGED Rest14 /\
            \/ n = 1 /\ \E e \in v8 : e.at = v3.at /\ Feed!Opened(e)
       \/ part = "price" /\ UNCHANGED Rest10 /\
            \/ n = 1 /\ Price!TimerFires("e1") /\ v3'["e1"] = "connecting"
            \/ n = 2 /\ Price!Opened("e1")
            \/ n = 3 /\ Price!Quote("e1", 1)
       \/ part = "rescue" /\ UNCHANGED Rest14 /\
            \/ n = 1 /\ v1.state = "over" /\ Rescue!oc_rescue("right")
            \/ n = 2 /\ v9["right"] = 1 /\ Rescue!putSignRequest([coin |-> "right", fee |-> 1])
            \/ n = 3 /\ \E e \in v13 : Rescue!Accepted(e)
       \/ part = "shop" /\
            \/ n = 1 /\ Shop!Reload
            \/ n = 2 /\ \E s \in v14 : s.what = "payment-confirm" /\ Shop!Arrive(s)
            \/ n = 3 /\ \E s \in v14 : s.what = "payment-confirm" /\ Shop!Told(s, TRUE)
       \/ part = "ln" /\ UNCHANGED Rest19 /\
            \/ n = 1 /\ LnCard!confirmPaid

FairSpec ==
    Spec /\ (\A n \in 1..18 : WF_vars(Weak(n))) /\ (\A n \in 1..3 : SF_vars(Strong(n)))
----------------------------------------------------------------------------
\* What a part has begun: the n-th of its questions, n up to three ...
Begun(n) ==
    \/ part = "create" /\ n = 1 /\ v3["h1"]
    \/ part = "dispose" /\ n = 1 /\ v4["h1"] # "none"
    \/ part = "trade" /\ \/ n = 1 /\ v1.pendingClose # "none"
                         \/ n = 2 /\ v5 = 3 /\ v1.state \in Trade!OrderState
    \/ part = "queue" /\ \/ n \in 1..2 /\ Queue!Pending(n)
                         \/ n = 3 /\ v3["o1"] = 2
    \/ part = "ingress" /\ n = 1 /\ "e1" \in v4
    \/ part = "dispatch" /\ n \in Inbox!Received
    \/ part = "restart" /\ n = 1
    \/ part = "publish" /\ v2 = n
    \/ part = "rulings" /\ \/ n = 1 /\ Rulings!Judged("c1")
                           \/ n = 2 /\ Rulings!Sending("c1")
    \/ part = "feed" /\ Feed!Lasts(n)
    \/ part = "price" /\ n = 1
    \/ part = "rescue" /\ n = 1 /\ Rescue!Astray("right")
    \/ part = "escrow" /\ \/ n = 1 /\ Escrow!Favours("customer")
                          \/ n = 2 /\ Escrow!Favours("sponsor")
    \/ part = "gone" /\ n = 1 /\ v10.confs # Gone!Unseen
    \/ part = "shop" /\ \/ n = 1 /\ v3 = 1
                        \/ n = 2 /\ Shop!Detected
    \/ part = "ln" /\ n = 1
    \/ part = "chat" /\ \/ n \in 1..2 /\ Chat!Pending(<<"t1", n>>)
                        \/ n = 3 /\ <<"m1", 1>> \in v7
    \/ part = "call" /\ \/ n = 1 /\ Call!Called
                        \/ n = 2 /\ Call!Called
    \/ part = "moves" /\ Moves!Moves("d1", n)
    \/ part = "push" /\ n \in 1..2 /\ Rings!Meant("d1", <<"order", n>>)

\* ... and how it ends.
Ended(n) ==
    \/ part = "create" /\ ~v3["h1"]
    \/ part = "dispose" /\ v1["h1"] \in Disposed!Final
    \/ part = "trade" /\ \/ n = 1 /\ v1.pendingClose = "none"
                         \/ n = 2 /\ (v1.state \in Trade!Terminal \cup {"remitted"} \/ "close-failed" \in v13)
    \/ part = "queue" /\ \/ n \in 1..2 /\ Queue!Runs(n)
                         \/ n = 3 /\ v4["o1"] = 2
    \/ part = "ingress" /\ "e1" \in v9
    \/ part = "dispatch" /\ Inbox!Closed(n)
    \/ part = "restart" /\ v6 = "judge"
    \/ part = "publish" /\ Open!Shown(n)
    \/ part = "rulings" /\ \/ n = 1 /\ Rulings!Told("c1")
                           \/ n = 2 /\ Rulings!Free("c1")
    \/ part = "feed" /\ (v10 = v3 \/ ~ Feed!Lasts(n))
    \/ part = "price" /\ Price!PriceThere
    \/ part = "rescue" /\ Rescue!Returned("right")
    \/ part = "escrow" /\ \/ n = 1 /\ Escrow!PaidTo("customer")
                          \/ n = 2 /\ Escrow!PaidTo("sponsor")
    \/ part = "gone" /\ Gone!Out
    \/ part = "shop" /\ \/ n = 1 /\ Shop!Over(1)
                        \/ n = 2 /\ Shop!CardThere
    \/ part = "ln" /\ LnCard!AtTheEnd
    \/ part = "chat" /\ \/ n \in 1..2 /\ ~Chat!Pending(<<"t1", n>>)
                        \/ n = 3 /\ Chat!OnScreen(<<"m1", 1>>)
    \/ part = "call" /\ \/ n = 1 /\ Call!Tells("customer")
                        \/ n = 2 /\ Call!Tells("s")
    \/ part = "moves" /\ Moves!Moved("d1", n)
    \/ part = "push" /\ n \in 1..2 /\ Rings!Noticed("d1", <<"order", n>>)

EverythingEnds == \A n \in 1..3 : Begun(n) ~> Ended(n)
==============================================================================
