------------------------------- MODULE MCApps --------------------------------
(* Components of the apps, the userscript and what they show, each on small instances  *)
(* of its own: the first state chooses the part, and the states of one part    *)
(* have nothing in common with those of another.  The cells v1, v2, ... are    *)
(* the variables of the part that was chosen.                                  *)
EXTENDS Naturals, FiniteSets, TLC

CONSTANTS x1, x2   \* two sponsors, terms, texts or devices that are interchangeable
Symmetry == Permutations({x1, x2})

VARIABLES part,
          v1, v2, v3, v4, v5, v6, v7, v8, v9, v10, v11, v12, v13, v14, v15, v16, v17, v18, v19,
          v20, v21

\* The cells a part does not need, from the given one on, stay empty.
Rest21 == <<v21>>
Rest20 == <<v20, Rest21>>
Rest19 == <<v19, Rest20>>
Rest18 == <<v18, Rest19>>
Rest17 == <<v17, Rest18>>
Rest16 == <<v16, Rest17>>
Rest15 == <<v15, Rest16>>
Rest14 == <<v14, Rest15>>
Rest13 == <<v13, Rest14>>
Rest12 == <<v12, Rest13>>
Empty21 == v21 = "-"
Empty20 == v20 = "-" /\ Empty21
Empty19 == v19 = "-" /\ Empty20
Empty18 == v18 = "-" /\ Empty19
Empty17 == v17 = "-" /\ Empty18
Empty16 == v16 = "-" /\ Empty17
Empty15 == v15 = "-" /\ Empty16
Empty14 == v14 = "-" /\ Empty15
Empty13 == v13 = "-" /\ Empty14
Empty12 == v12 = "-" /\ Empty13

vars == <<part, v1, v2, v3, v4, v5, v6, v7, v8, v9, v10, v11, v12, v13, v14, v15, v16, v17, v18,
           v19, v20, v21>>

\* deposit-store.ts: three claims, notices that come in any order
Notices == INSTANCE DepositNotices WITH
    MaxClaims <- 3, MaxTime <- 6, MaxReloads <- 1, Orderly <- TRUE, now <- v1, claim <- v2,
    claims <- v3, row <- v4, paid <- v5, disposing <- v6, notices <- v7, heard <- v8,
    view <- v9, own <- v10, ownHeard <- v11, ownStatus <- v12, reloads <- v13

\* The cards of a Lightning trade: an invoice may be rejected, the clock and the operator act
LnCard == INSTANCE LnCards WITH
    Customer <- "customer", Sponsors <- {"s"}, NoOne <- "nobody", MaxClaims <- 1,
    MaxInvoices <- 2, MaxReloads <- 0, Mistakes <- TRUE, Outside <- TRUE, Patient <- TRUE,
    InOrder <- TRUE, order <- v1, closing <- v2, invoice <- v3, payout <- v4, committed <- v5,
    paid <- v6, claims <- v7, requests <- v8, notices <- v9, raw <- v10, account <- v11,
    shown <- v12, received <- v13, heard <- v14, claimError <- v15, made <- v16, sending <- v17,
    reloads <- v18

\* The cards of a Lightning trade: two people claim
LnClaims == INSTANCE LnCards WITH
    Customer <- "customer", Sponsors <- {x1, x2}, NoOne <- "nobody", MaxClaims <- 1,
    MaxInvoices <- 1, MaxReloads <- 0, Mistakes <- FALSE, Outside <- FALSE, Patient <- TRUE,
    InOrder <- TRUE, order <- v1, closing <- v2, invoice <- v3, payout <- v4, committed <- v5,
    paid <- v6, claims <- v7, requests <- v8, notices <- v9, raw <- v10, account <- v11,
    shown <- v12, received <- v13, heard <- v14, claimError <- v15, made <- v16, sending <- v17,
    reloads <- v18

\* The cards of an on-chain trade: deadlines pass, the operator and the timelock act
OcCard == INSTANCE OcCards WITH
    Customer <- "customer", Sponsors <- {"s"}, NoOne <- "nobody", Terms <- {"t1"},
    None <- "none", Designated <- FALSE, MaxClaims <- 1, MaxReorgs <- 0, MaxReloads <- 0,
    MaxFaults <- 0, Faults <- {}, Clock <- TRUE, Patient <- TRUE, order <- v1, candidates <- v2,
    coin <- v3, been <- v4, requests <- v5, mail <- v6, fresh <- v7, seen <- v8, sign <- v9,
    accounts <- v10, app <- v11, sent <- v12, reorgs <- v13, reloads <- v14, faults <- v15

\* The cards of an on-chain trade: a block that is undone
OcReorg == INSTANCE OcCards WITH
    Customer <- "customer", Sponsors <- {"s"}, NoOne <- "nobody", Terms <- {"t1"},
    None <- "none", Designated <- FALSE, MaxClaims <- 1, MaxReorgs <- 1, MaxReloads <- 0,
    MaxFaults <- 0, Faults <- {}, Clock <- FALSE, Patient <- TRUE, order <- v1,
    candidates <- v2, coin <- v3, been <- v4, requests <- v5, mail <- v6, fresh <- v7,
    seen <- v8, sign <- v9, accounts <- v10, app <- v11, sent <- v12, reorgs <- v13,
    reloads <- v14, faults <- v15

\* The cards of an on-chain trade: two people claim, each on terms of his own, and an app is opened anew
OcTwo == INSTANCE OcCards WITH
    Customer <- "customer", Sponsors <- {x1, x2}, NoOne <- "nobody", Terms <- {"t1", "t2"},
    None <- "none", Designated <- FALSE, MaxClaims <- 1, MaxReorgs <- 0, MaxReloads <- 1,
    MaxFaults <- 0, Faults <- {}, Clock <- FALSE, Patient <- TRUE, order <- v1,
    candidates <- v2, coin <- v3, been <- v4, requests <- v5, mail <- v6, fresh <- v7,
    seen <- v8, sign <- v9, accounts <- v10, app <- v11, sent <- v12, reorgs <- v13,
    reloads <- v14, faults <- v15

\* The cards of an on-chain trade: one fault of every kind
OcFaults == INSTANCE OcCards WITH
    Customer <- "customer", Sponsors <- {"s"}, NoOne <- "nobody", Terms <- {"t1"},
    None <- "none", Designated <- FALSE, MaxClaims <- 1, MaxReorgs <- 0, MaxReloads <- 0,
    MaxFaults <- 1, Faults <- {"lost", "unacked", "presig", "remit", "device"}, Clock <- FALSE,
    Patient <- TRUE, order <- v1, candidates <- v2, coin <- v3, been <- v4, requests <- v5,
    mail <- v6, fresh <- v7, seen <- v8, sign <- v9, accounts <- v10, app <- v11, sent <- v12,
    reorgs <- v13, reloads <- v14, faults <- v15

\* chat-store.ts, chat-send.ts: two texts, an acknowledgement may be lost
Chat == INSTANCE ChatStore WITH
    Texts <- {x1, x2}, Theirs <- {"m1"}, MaxTries <- 2, MaxEnters <- 2, MaxReloads <- 0,
    AcksLost <- TRUE, SlowLoads <- FALSE, open <- v1, chats <- v2, idb <- v3, asked <- v4,
    reads <- v5, flying <- v6, relay <- v7, retrying <- v8, tries <- v9, enters <- v10,
    reloads <- v11

\* chat.ts: three messages
Call == INSTANCE ChatCall WITH
    Customer <- "customer", Sponsors <- {"s"}, NoOne <- "nobody", CHAT_DM_QUIET_SEC <- 2,
    PEER_PUSH_QUIET_SEC <- 1, MaxTime <- 3, MaxEvents <- 3, MaxReplacements <- 0, now <- v1,
    sponsor <- v2, replaced <- v3, sent <- v4, handled <- v5, dmAt <- v6, disclosed <- v7,
    peerLast <- v8, copies <- v9, called <- v10, seen <- v11, written <- v12, dms <- v13,
    waits <- v14, first <- v15

\* chat.ts: the sponsor who is replaced goes on writing
CallTwo == INSTANCE ChatCall WITH
    Customer <- "customer", Sponsors <- {x1, x2}, NoOne <- "nobody", CHAT_DM_QUIET_SEC <- 2,
    PEER_PUSH_QUIET_SEC <- 1, MaxTime <- 2, MaxEvents <- 2, MaxReplacements <- 1, now <- v1,
    sponsor <- v2, replaced <- v3, sent <- v4, handled <- v5, dmAt <- v6, disclosed <- v7,
    peerLast <- v8, copies <- v9, called <- v10, seen <- v11, written <- v12, dms <- v13,
    waits <- v14, first <- v15

\* push/send.ts: two devices, a post that fails, a crash
Rings == INSTANCE Push WITH
    Devices <- {x1, x2}, MaxKey <- 1, MaxEp <- 2, Versions <- 2, Chats <- 0, MaxFaults <- 1,
    MaxCrashes <- 1, Breaks <- 0, Disables <- 0, key <- v1, built <- v2, sub <- v3, mig <- v4,
    migEp <- v5, lost <- v6, pan <- v7, panEp <- v8, wire <- v9, made <- v10, rows <- v11,
    status <- v12, attempts <- v13, queue <- v14, run <- v15, answered <- v16, visible <- v17,
    newest <- v18, left <- v19

\* subscribe.ts: the operator changes his key, a page is closed in the middle
Keys == INSTANCE Push WITH
    Devices <- {"d1"}, MaxKey <- 2, MaxEp <- 2, Versions <- 1, Chats <- 1, MaxFaults <- 0,
    MaxCrashes <- 0, Breaks <- 1, Disables <- 1, key <- v1, built <- v2, sub <- v3, mig <- v4,
    migEp <- v5, lost <- v6, pan <- v7, panEp <- v8, wire <- v9, made <- v10, rows <- v11,
    status <- v12, attempts <- v13, queue <- v14, run <- v15, answered <- v16, visible <- v17,
    newest <- v18, left <- v19

\* subscribe.ts: three subscriptions, nothing is cut off
Settled == INSTANCE Push WITH
    Devices <- {"d1"}, MaxKey <- 2, MaxEp <- 3, Versions <- 1, Chats <- 0, MaxFaults <- 0,
    MaxCrashes <- 0, Breaks <- 0, Disables <- 1, key <- v1, built <- v2, sub <- v3, mig <- v4,
    migEp <- v5, lost <- v6, pan <- v7, panEp <- v8, wire <- v9, made <- v10, rows <- v11,
    status <- v12, attempts <- v13, queue <- v14, run <- v15, answered <- v16, visible <- v17,
    newest <- v18, left <- v19

\* The userscript and the seller's app: two sales of one order at the shop
Shop == INSTANCE Coupang WITH
    MaxOrders <- 2, Fails <- {}, Hasty <- FALSE, Typing <- FALSE, OldKey <- FALSE,
    Cancels <- FALSE, SelfPays <- FALSE, Lapses <- FALSE, shop <- v1, dead <- v2, payer <- v3,
    key <- v4, code <- v5, processed <- v6, page <- v7, relay <- v8, card <- v9, orders <- v10,
    line <- v11, requesting <- v12, attaching <- v13, sending <- v14, heard <- v15, seen <- v16,
    dated <- v17, st <- v18, sent <- v19, sends <- v20, reached <- v21

\* The userscript and the seller's app: an old key, the shop cancels, the account lapses, a page is not published
ShopKey == INSTANCE Coupang WITH
    MaxOrders <- 1, Fails <- {"page"}, Hasty <- FALSE, Typing <- FALSE, OldKey <- TRUE,
    Cancels <- TRUE, SelfPays <- FALSE, Lapses <- TRUE, shop <- v1, dead <- v2, payer <- v3,
    key <- v4, code <- v5, processed <- v6, page <- v7, relay <- v8, card <- v9, orders <- v10,
    line <- v11, requesting <- v12, attaching <- v13, sending <- v14, heard <- v15, seen <- v16,
    dated <- v17, st <- v18, sent <- v19, sends <- v20, reached <- v21

----------------------------------------------------------------------------
\* The first state chooses the part, and each step is one of that part.
Init ==
    \/ part = "notices" /\ Notices!Init /\ Empty14
    \/ part = "ln" /\ LnCard!Init /\ Empty19
    \/ part = "lnclaims" /\ LnClaims!Init /\ Empty19
    \/ part = "oc" /\ OcCard!Init /\ Empty16
    \/ part = "ocreorg" /\ OcReorg!Init /\ Empty16
    \/ part = "octwo" /\ OcTwo!Init /\ Empty16
    \/ part = "ocfaults" /\ OcFaults!Init /\ Empty16
    \/ part = "chat" /\ Chat!Init /\ Empty12
    \/ part = "call" /\ Call!Init /\ Empty16
    \/ part = "calltwo" /\ CallTwo!Init /\ Empty16
    \/ part = "push" /\ Rings!Init /\ Empty20
    \/ part = "keys" /\ Keys!Init /\ Empty20
    \/ part = "settled" /\ Settled!Init /\ Empty20
    \/ part = "shop" /\ Shop!Init
    \/ part = "shopkey" /\ ShopKey!Init
Next ==
    \/ part = "notices" /\ Notices!Next /\ UNCHANGED <<part, Rest14>>
    \/ part = "ln" /\ LnCard!Next /\ UNCHANGED <<part, Rest19>>
    \/ part = "lnclaims" /\ LnClaims!Next /\ UNCHANGED <<part, Rest19>>
    \/ part = "oc" /\ OcCard!Next /\ UNCHANGED <<part, Rest16>>
    \/ part = "ocreorg" /\ OcReorg!Next /\ UNCHANGED <<part, Rest16>>
    \/ part = "octwo" /\ OcTwo!Next /\ UNCHANGED <<part, Rest16>>
    \/ part = "ocfaults" /\ OcFaults!Next /\ UNCHANGED <<part, Rest16>>
    \/ part = "chat" /\ Chat!Next /\ UNCHANGED <<part, Rest12>>
    \/ part = "call" /\ Call!Next /\ UNCHANGED <<part, Rest16>>
    \/ part = "calltwo" /\ CallTwo!Next /\ UNCHANGED <<part, Rest16>>
    \/ part = "push" /\ Rings!Next /\ UNCHANGED <<part, Rest20>>
    \/ part = "keys" /\ Keys!Next /\ UNCHANGED <<part, Rest20>>
    \/ part = "settled" /\ Settled!Next /\ UNCHANGED <<part, Rest20>>
    \/ part = "shop" /\ Shop!Next /\ UNCHANGED part
    \/ part = "shopkey" /\ ShopKey!Next /\ UNCHANGED part
    \* the parts whose work may be over
    \/ UNCHANGED vars
Spec == Init /\ [][Next]_vars

\* What the modules assume of their constants holds in every part.
ASSUME PartsAssumption ==
    /\ Notices!DepositNoticesAssumption
    /\ LnCard!LnCardsAssumption
    /\ LnClaims!LnCardsAssumption
    /\ OcCard!OcCardsAssumption
    /\ OcReorg!OcCardsAssumption
    /\ OcTwo!OcCardsAssumption
    /\ OcFaults!OcCardsAssumption
    /\ Chat!ChatStoreAssumption
    /\ Call!ChatCallAssumption
    /\ CallTwo!ChatCallAssumption
    /\ Rings!PushAssumption
    /\ Keys!PushAssumption
    /\ Settled!PushAssumption
    /\ Shop!CoupangAssumption
    /\ ShopKey!CoupangAssumption
----------------------------------------------------------------------------
\* Where the question of a part does not need all of its states, it is followed so far:
\* the notices of one party at a time, for the two sides of the module have nothing in common;
\* two requests at once on the relays; who gets the order, up to its funding; what a block that
\* is undone does to it, up to the account; and at the shop a second sale from the time the
\* first has its invoice, while neither has ended and one event at a time is on its way.
Bounds ==
    /\ part = "notices" => v10 = {} \/ v3 = 0
    /\ part \in {"oc", "ocfaults"} => Cardinality(v5) <= 2
    /\ part = "lnclaims" => Cardinality(v8) <= 2
    /\ part = "octwo" => v1.st \in {"listed", "bonded", "funded", "cancelled"}
    /\ part = "ocreorg" => v1.st \in {"listed", "bonded", "funded", "presigned", "cancelled"}
    /\ part = "shop" =>
        /\ Cardinality(v14) <= 1 /\ {v18[1], v18[2]} \cap Shop!Terminal = {}
        /\ v18[2] # "none" => v18[1] \in {"invoiced", "remitted"}

\* card-view.ts, actions.ts, progress.ts, deposit-store.ts: what a card offers the daemon
\* accepts, whose turn it shows can move, somebody can always move, and what it says of a
\* deposit, an invoice or a bond is so.
CardsAreTrue ==
    /\ part = "notices" => Notices!TypeOK /\ Notices!OfferIsWaiting /\ Notices!StatusFitsInvoice
    /\ part = "ln" => /\ LnCard!OfferIsAccepted /\ LnCard!TurnIsReal /\ LnCard!SomebodyCanMove
                      /\ LnCard!AccountAfterInvoice /\ LnCard!RejectionIsShown
                      /\ LnCard!ReregistrationIsOpen
    /\ part = "lnclaims" => LnClaims!TypeOK /\ LnClaims!OfferIsAccepted /\ LnClaims!TurnIsReal /\ LnClaims!SomebodyCanMove
    /\ part = "oc" => /\ OcCard!TypeOK /\ OcCard!OfferIsAccepted /\ OcCard!TurnIsReal /\ OcCard!SomebodyCanMove
                      /\ OcCard!TextTellsTheBond
    /\ part = "ocreorg" => OcReorg!OfferIsAccepted /\ OcReorg!SomebodyCanMove
    /\ part = "octwo" => OcTwo!ClaimIsKept
    /\ part = "ocfaults" => OcFaults!OfferIsAccepted

\* chat-store.ts, chat-send.ts, chat.ts: a message that shows as sent is with a relay, none is
\* forgotten, and whoever waits for an answer is rung, with his chat private until then.
ChatIsTrue ==
    /\ part = "chat" => Chat!TypeOK /\ Chat!SentIsThere /\ Chat!NoneForgotten /\ Chat!ScreenIsWhole /\ Chat!RetriedIsGone
    /\ part = "call" => Call!TypeOK /\ Call!NobodyWaitsUnrung /\ Call!HasAWay /\ Call!FirstRings
    /\ part = "calltwo" => CallTwo!PrivateUntilCalled

\* push/send.ts, subscribe.ts: no push rings twice but after a crash, no live device is given up,
\* "your turn" stays on the screen, and what shows as switched on is known to the daemon.
DevicesAreKnown ==
    /\ part = "push" => Rings!TypeOK /\ Rings!QueuedOnce /\ Rings!ReachedOnce
    /\ part = "keys" => Keys!NoLiveDeviceGivenUp /\ Keys!TurnStaysVisible
    /\ part = "settled" => Settled!OnIsKnown

\* nostr.ts, main.ts: no account before the invoice, no account twice, no order of the shop
\* up for sale twice, and no trade paid that its own buyer has not paid.
AccountsAreSafe ==
    /\ part = "shop" => /\ Shop!TypeOK /\ Shop!AccountAfterInvoice /\ Shop!AccountGoesOnce /\ Shop!OneListing
                        /\ Shop!ConfirmIsTrue
    /\ part = "shopkey" => ShopKey!AccountAfterInvoice /\ ShopKey!AccountGoesOnce /\ ShopKey!ConfirmIsTrue

\* deposit-store.ts, nostr.ts: the sponsor's card does not turn back to an earlier claim, and
\* a status of the shop finds the sale it is about.
NothingIsMissed ==
    [][/\ part = "notices" => Notices!NeverBack
       /\ part = "shop" => Shop!StatusFindsItsOrder]_vars
==============================================================================
