------------------------------ MODULE OcEscrow ------------------------------
(* The escrow of one on-chain trade as transactions and signatures: the four leaves of   *)
(* its address and who signs each (shared/src/onchain: script.ts, address.ts, tx.ts,     *)
(* verify.ts, policy.ts), the daemon that rebuilds, asks and finishes (daemon/src/        *)
(* onchain: escrow.ts, flow.ts, handlers.ts) and the two apps that sign only what they    *)
(* have rebuilt themselves (customer/src/onchain: verify.ts, actions.ts, the panels).     *)
(* A transaction is its leaf, the output it takes, where it pays and its fee; a           *)
(* signature is a key and a transaction. The state machine, its clocks and its bonds are  *)
(* in OcFlow and OcTrade: here a deadline may pass at any moment.                         *)
EXTENDS Integers, FiniteSets

CONSTANTS
    Amount,        \* the price of the trade, in sat
    Rates,         \* the feerates the market may have, in sat/vB (half an hour, and fastest)
    ClaimRates,    \* the feerates a sponsor may ask for
    Refunds,       \* the refund addresses a customer may give; NoAddress: an old order
    Payouts,       \* the payout addresses a sponsor may give
    ClaimKeys,     \* the keys a claim may carry for the sponsor
    Timelock,      \* blocks of the fourth leaf (8064 in script.ts 40)
    Distance,      \* blocks the timelock must still have when KRW is sent (1008, timing.ts)
    KrwBlocks,     \* bound: blocks that pass between the account and the deadline of the KRW
    MaxSane,       \* the feerate above which the apps do not sign (1000 in policy.ts)
    MaxMoves,      \* bound: changes of the market
    MaxMistakes,   \* bound: sign requests that do not match the order
    Forgets,       \* a device may have lost what it recorded of the order
    Vanishes       \* the daemon may stop for good

\* An address belongs to the customer's wallet, to the customer's key for this order, to the
\* sponsor's wallet or to neither; it is of a kind; Bech32 may be written in capitals.
Addresses == [own : {"wallet", "orderkey", "sponsor", "elsewhere"},
              kind : {"tr", "wsh", "wpkh", "sh", "pkh"}, written : {"small", "capitals"}]
NoAddress == [own |-> "none", kind |-> "none", written |-> "none"]

EscrowAssumption ==
    /\ {Amount, Timelock, Distance, KrwBlocks, MaxSane, MaxMoves, MaxMistakes} \subseteq Nat
    /\ Rates \cup ClaimRates \subseteq Nat \ {0}
    /\ Refunds \subseteq Addresses \cup {NoAddress} /\ Payouts \subseteq Addresses
    /\ ClaimKeys \subseteq {"S", "C", "A"} /\ {Forgets, Vanishes} \subseteq BOOLEAN

\* A sponsor does not ask to be paid to the customer.
PayoutsAreNotHers == \A a \in Payouts : a.own \notin {"wallet", "orderkey"}

\* A sponsor asks for no feerate above the one the apps sign up to: the cap, meant for refunds and
\* rulings (policy.ts 100), is on a release as well (verify.ts 192), and the daemon would take more
\* of him while the market is above a fifth of it (policy.ts 51).
ClaimRatesAreSane == \A r \in ClaimRates : r <= MaxSane

\* Addresses written as the apps write them, and a market below that cap.
AddressesArePlain == \A a \in (Refunds \cup Payouts) \ {NoAddress} : a.written = "small"
RatesAreSane == ClaimRatesAreSane /\ \A r \in Rates : r <= MaxSane

Parties == {"customer", "sponsor"}
Purposes == {"release", "refund", "dispute-customer", "dispute-sponsor", "rescue"}
RefundKinds == {"refund:account-disputed", "refund:customer-late"}
NoKind == "none"
NoFee == -1
\* An output is the funding, a stray one at the same address (of the agreed amount, too), or elsewhere.
AtEscrow == {"funding", "stray"}

derived == [own |-> "orderkey", kind |-> "tr", written |-> "small"]
Mine(p) == IF p = "customer" THEN {"wallet", "orderkey"} ELSE {"sponsor"}
outputScriptFor(a) == [own |-> a.own, kind |-> a.kind]
outputAddressOf(t) == [own |-> t.dest.own, kind |-> t.dest.kind, written |-> "small"]

----------------------------------------------------------------------------
(* Leaves, sizes, fees: script.ts, tx.ts, policy.ts.                                       *)

Leaves == {"release", "customer-win", "sponsor-win", "timelock"}
\* The keys a leaf asks for, given the key the order has for the sponsor.
leafSigners(leaf, sponsorKey) ==
    CASE leaf = "release"      -> {"C", sponsorKey}
      [] leaf = "customer-win" -> {"A", "C"}
      [] leaf = "sponsor-win"  -> {"A", sponsorKey}
      [] leaf = "timelock"     -> {"C"}
assertEscrowKeys(sponsorKey) == Cardinality({"C", "A", sponsorKey}) = 3

settlementLeafFor(kind) ==
    CASE kind = "release"     -> "release"
      [] kind = "sponsor_win" -> "sponsor-win"
      [] OTHER                -> "customer-win"

SpkLen(kind) == CASE kind \in {"tr", "wsh"} -> 34 [] kind = "wpkh" -> 22
                  [] kind = "sh" -> 23 [] OTHER -> 25
dustThresholdFor(kind) == CASE kind \in {"tr", "wsh"} -> 330 [] kind = "wpkh" -> 294
                            [] kind = "sh" -> 540 [] OTHER -> 546
ScriptLen(leaf) == IF leaf = "timelock" THEN 39 ELSE 68
SigCount(leaf) == IF leaf = "timelock" THEN 1 ELSE 2
estimateSettlementVsize(leaf, dest) ==
    LET nonWitness == 4 + 1 + 41 + 1 + (9 + SpkLen(dest.kind)) + 4
        witness    == 1 + SigCount(leaf) * 65 + (1 + ScriptLen(leaf)) + 98
    IN (4 * nonWitness + witness + 2 + 3) \div 4
settlementFeeSat(leaf, dest, rate) == estimateSettlementVsize(leaf, dest) * rate
CanBuild(t) == t.fee >= 0 /\ Amount - t.fee >= dustThresholdFor(t.dest.kind)

releaseFeerateProblem(rate, fastest, dest) ==
    LET fee == settlementFeeSat("release", dest, rate)
        ceiling == IF 5 * fastest > 100 THEN 5 * fastest ELSE 100
    IN rate < 1 \/ rate > ceiling \/ 5 * fee > Amount \/ Amount - fee < dustThresholdFor(dest.kind)

----------------------------------------------------------------------------
VARIABLES
    order,     \* the order as the daemon has and publishes it
    meta,      \* what only the daemon has: the addresses, the rate, the stored presignature
    view,      \* the version of the order each app shows
    box,       \* the sign request each app holds for each purpose
    mail,      \* presignatures and cosignatures on their way to the daemon
    sigs,      \* every signature ever made
    held,      \* the signatures each party has in hand
    knows,     \* what the customer's and the sponsor's device remember: addresses, the rate
    outbox,    \* the settlement the daemon finished
    chain,     \* confirmations of the funding, and what spent it
    looked,    \* the confirmations the sponsor's screen has read
    market,    \* the feerate now, and how often it changed
    krw,       \* KRW was sent
    up,        \* the daemon works
    mistakes

vars == <<order, meta, view, box, mail, sigs, held, knows, outbox, chain, looked, market, krw, up,
          mistakes>>

NoTx == [leaf |-> "none", coin |-> "none", dest |-> outputScriptFor(NoAddress), fee |-> NoFee]
NoPsbt == [tx |-> NoTx, sigs |-> {}]
Unseen == -1

TypeOK ==
    /\ order.state \in {"listed", "bonded", "funded", "presigned", "remitted", "disputed",
                        "refunding", "settling", "over"}
    /\ order.kind \in {NoKind, "release", "sponsor_win", "customer_win"} \cup RefundKinds
    /\ order.sponsorKey \in ClaimKeys \cup {"none"} /\ order.coin \in {"none", "funding"}
    /\ order.releaseFee >= NoFee /\ order.settleFee >= NoFee /\ order.account \in -1 .. Timelock
    /\ meta.refund \in Refunds /\ meta.payout \in Payouts \cup {NoAddress}
    /\ DOMAIN box = Parties /\ \A p \in Parties : DOMAIN box[p] = Purposes
    /\ mistakes = 0 => /\ \A q \in {"dispute-sponsor", "rescue"} : box["customer"][q] = NoPsbt
                       /\ \A q \in Purposes \ {"dispute-sponsor"} : box["sponsor"][q] = NoPsbt
    /\ \A s \in sigs : s.key \in {"C", "S", "A"} /\ s.tx.leaf \in Leaves
    /\ \A p \in Parties : held[p] \subseteq sigs
    /\ outbox = NoTx \/ outbox.leaf \in {"release", "customer-win", "sponsor-win"}
    /\ chain.confs \in -1 .. Timelock /\ looked \in -1 .. Timelock
    /\ market.rate \in Rates /\ market.moves \in 0 .. MaxMoves /\ mistakes \in 0 .. MaxMistakes
    /\ krw \in BOOLEAN /\ up \in BOOLEAN

Init ==
    /\ order = [state |-> "listed", kind |-> NoKind, sponsorKey |-> "none", coin |-> "none",
                releaseFee |-> NoFee, settleFee |-> NoFee, account |-> Unseen]
    /\ meta \in [refund : Refunds, payout : {NoAddress}, rate : {0}, presig : {NoPsbt}]
    /\ view = [p \in Parties |-> order]
    /\ box = [p \in Parties |-> [q \in Purposes |-> NoPsbt]]
    /\ mail = {} /\ sigs = {} /\ held = [p \in Parties |-> {}]
    /\ knows = [refund |-> meta.refund, payout |-> NoAddress, rate |-> 0]
    /\ outbox = NoTx /\ chain = [confs |-> Unseen, spent |-> NoTx] /\ looked = Unseen
    /\ market \in [rate : Rates, moves : {0}] /\ krw = FALSE /\ up = TRUE /\ mistakes = 0

----------------------------------------------------------------------------
(* The daemon's transactions, always from its own record: escrow.ts.                       *)

refundDestinationFor(m) == IF m.refund = NoAddress THEN derived ELSE m.refund
destinationFor(m, kind) ==
    IF kind \in {"release", "sponsor_win"} THEN m.payout ELSE refundDestinationFor(m)
settlementParamsFor(o, m, kind) ==
    [leaf |-> settlementLeafFor(kind), coin |-> o.coin,
     dest |-> outputScriptFor(destinationFor(m, kind)),
     fee  |-> IF kind = "release" THEN o.releaseFee ELSE o.settleFee]
signPurposeFor(kind) ==
    CASE kind = "release" -> "release" [] kind = "sponsor_win" -> "dispute-sponsor"
      [] kind = "customer_win" -> "dispute-customer" [] OTHER -> "refund"
awaitingSignerFor(kind) == IF kind = "sponsor_win" THEN "sponsor" ELSE "customer"
KeyOf(p, o) == IF p = "customer" THEN "C" ELSE o.sponsorKey
\* A signature is bound to its key and to the very transaction, leaf included; a PSBT
\* carries a transaction with signatures of it.
signSettlement(key, t) == [key |-> key, tx |-> t]
\* verifyPresignature: the very transaction, signed by that key.
verifyPresignature(psbt, t, key) == CanBuild(t) /\ psbt.tx = t /\ signSettlement(key, t) \in psbt.sigs

canActOnSignRequest(o, purpose) ==
    CASE purpose = "release"          -> o.state \in {"remitted", "disputed"}
      [] purpose = "refund"           -> o.state = "refunding"
      [] purpose = "dispute-customer" -> o.state = "disputed" /\ o.kind = "customer_win"
      [] purpose = "dispute-sponsor"  -> o.state = "disputed" /\ o.kind = "sponsor_win"
      [] purpose = "rescue"           -> TRUE

\* sendOcSignRequest: the request reaches the app, where the latest of its purpose is kept.
Ask(p, purpose, psbt) ==
    /\ box' = [box EXCEPT ![p][purpose] = psbt]
    /\ held' = [held EXCEPT ![p] = @ \cup psbt.sigs]

\* Mutant: the daemon signs what it sends.
requestSettlementSignature_signed(o) ==
    LET t == settlementParamsFor(o, meta, o.kind)
    IN Ask(awaitingSignerFor(o.kind), signPurposeFor(o.kind), [tx |-> t, sigs |-> {signSettlement("A", t)}])

\* requestSettlementSignature sends the transaction without a signature.
requestSettlementSignature(o) ==
    Ask(awaitingSignerFor(o.kind), signPurposeFor(o.kind),
        [tx |-> settlementParamsFor(o, meta, o.kind), sigs |-> {}])

----------------------------------------------------------------------------
(* The trade.                                                                              *)

\* ocClaim and the bond: the address, the rate and the keys are judged at once.
ocClaim(a, rate, key) ==
    /\ up /\ order.state = "listed"
    /\ assertEscrowKeys(key)
    /\ ~releaseFeerateProblem(rate, market.rate, outputScriptFor(a))
    /\ order' = [order EXCEPT !.state = "bonded", !.sponsorKey = key]
    /\ meta' = [meta EXCEPT !.payout = a, !.rate = rate]
    /\ knows' = [knows EXCEPT !.payout = a, !.rate = rate]
    /\ UNCHANGED <<view, box, mail, sigs, held, outbox, chain, looked, market, krw, up, mistakes>>

\* The customer pays the agreed amount to the address of a bonded order.
PayIn ==
    /\ view["customer"].state = "bonded" /\ chain.confs = Unseen
    /\ chain' = [chain EXCEPT !.confs = 0]
    /\ UNCHANGED <<order, meta, view, box, mail, sigs, held, knows, outbox, looked, market, krw, up,
                   mistakes>>

\* T0: the release fee is fixed with the terms of the claim and never computed again.
releaseFeeFor == settlementFeeSat("release", outputScriptFor(meta.payout), meta.rate)
Fund ==
    /\ up /\ order.state = "bonded" /\ chain.confs >= 1
    /\ Amount - releaseFeeFor > 0
    /\ order' = [order EXCEPT !.state = "funded", !.coin = "funding", !.releaseFee = releaseFeeFor]
    /\ UNCHANGED <<meta, view, box, mail, sigs, held, knows, outbox, chain, looked, market, krw, up,
                   mistakes>>

\* decideSettlement: a ruling on a dispute, or a refund when a deadline has passed.
settleRate(kind) ==
    IF kind = "sponsor_win" /\ meta.rate > market.rate THEN meta.rate ELSE market.rate
decideSettlement(kind) ==
    /\ up /\ order.kind = NoKind
    /\ IF kind \in RefundKinds
       THEN order.state \in {"funded", "presigned"} \/ (order.state = "bonded" /\ chain.confs >= 1)
       ELSE order.state = "disputed"
    /\ LET coin == [order EXCEPT !.coin = "funding", !.kind = kind]
           tx == settlementParamsFor(coin, meta, kind)
           fee == settlementFeeSat(tx.leaf, tx.dest, settleRate(kind))
       IN /\ CanBuild([tx EXCEPT !.fee = fee])
          /\ order' = [coin EXCEPT !.settleFee = fee,
                                   !.state = IF kind \in RefundKinds THEN "refunding" ELSE @]
    /\ requestSettlementSignature(order')
    /\ UNCHANGED <<meta, view, mail, sigs, knows, outbox, chain, looked, market, krw, up, mistakes>>

\* resolveAccountDispute changes the reason of a refund and nothing of its transaction.
resolveAccountDispute ==
    /\ up /\ order.kind = "refund:account-disputed"
    /\ order.state \in {"refunding", "settling", "over"}
    /\ order' = [order EXCEPT !.kind = "refund:customer-late"]
    /\ UNCHANGED <<meta, view, box, mail, sigs, held, knows, outbox, chain, looked, market, krw, up,
                   mistakes>>

\* The operator asks again for the signature that is awaited (resendRelease too).
Resend ==
    /\ up /\ order.state \notin {"settling", "over"}
    /\ IF order.kind # NoKind THEN requestSettlementSignature(order)
       ELSE meta.presig # NoPsbt /\ Ask("customer", "release", meta.presig)
    /\ UNCHANGED <<order, meta, view, mail, sigs, knows, outbox, chain, looked, market, krw, up,
                   mistakes>>

----------------------------------------------------------------------------
(* The apps.                                                                               *)

\* A newer version of the order arrives; the sponsor's panel then reads the chain again.
See(p) ==
    /\ view[p] # order
    /\ view' = [view EXCEPT ![p] = order]
    /\ looked' = IF p = "sponsor" THEN Unseen ELSE looked
    /\ UNCHANGED <<order, meta, box, mail, sigs, held, knows, outbox, chain, market, krw, up, mistakes>>

Send(p, purpose, t, more) ==
    LET sig == signSettlement(KeyOf(p, view[p]), t)
    IN /\ sigs' = sigs \cup {sig}
       /\ held' = [held EXCEPT ![p] = @ \cup {sig}]
       /\ mail' = mail \cup {[from |-> p, purpose |-> purpose, psbt |-> [tx |-> t, sigs |-> {sig} \cup more]]}

\* buildPresignature: from the claim this device remembers, if the fee of the order is its fee.
buildPresignature ==
    LET o == view["sponsor"]
        dest == outputScriptFor(knows.payout)
        t == [leaf |-> "release", coin |-> o.coin, dest |-> dest, fee |-> o.releaseFee]
    IN /\ knows.payout # NoAddress
       /\ o.state = "funded" /\ o.kind = NoKind /\ o.coin # "none" /\ o.releaseFee # NoFee
       /\ o.releaseFee = settlementFeeSat("release", dest, knows.rate)
       /\ CanBuild(t)
       /\ Send("sponsor", "presig", t, {})
       /\ UNCHANGED <<order, meta, view, box, knows, outbox, chain, looked, market, krw, up, mistakes>>

\* A device that has lost its record asks for it again (PresignStatus.tsx, SignPanel.tsx).
Forget ==
    /\ Forgets /\ order.state # "listed"
    /\ \/ knows' = [knows EXCEPT !.refund = NoAddress]
       \/ knows' = [knows EXCEPT !.payout = NoAddress, !.rate = 0]
    /\ UNCHANGED <<order, meta, view, box, mail, sigs, held, outbox, chain, looked, market, krw, up,
                   mistakes>>
Reenter ==
    /\ knows.payout = NoAddress /\ view["sponsor"].state = "funded" /\ view["sponsor"].kind = NoKind
    /\ knows' = [knows EXCEPT !.payout = meta.payout, !.rate = meta.rate]
    /\ UNCHANGED <<order, meta, view, box, mail, sigs, held, outbox, chain, looked, market, krw, up,
                   mistakes>>

\* Where a refund may go: the key of this order, or the address the customer gave.
refundDestination(refund, shown) == shown = derived \/ (refund # NoAddress /\ shown = refund)

\* The purpose fits the role and the decision that the shown order carries; a rescue is asked of
\* no role and of no decision.
Fits(p, o, purpose) ==
    CASE purpose = "release"          -> p = "customer" /\ o.releaseFee # NoFee
      [] purpose = "dispute-sponsor"  -> p = "sponsor" /\ o.kind = "sponsor_win" /\ o.settleFee # NoFee
      [] purpose = "refund"           -> p = "customer" /\ o.state = "refunding" /\ o.settleFee # NoFee
      [] purpose = "dispute-customer" -> p = "customer" /\ o.kind = "customer_win" /\ o.settleFee # NoFee
      [] purpose = "rescue"           -> TRUE

\* Whom the transaction pays, judged by the own record; a release is tied by the other's signature.
PaysRight(purpose, psbt, refund) ==
    CASE purpose = "release"         -> TRUE
      [] purpose = "dispute-sponsor" ->
            knows.payout # NoAddress /\ outputAddressOf(psbt.tx) = knows.payout
      [] OTHER                       -> refundDestination(refund, outputAddressOf(psbt.tx))

\* What is decided comes from the order; the output and the fee of a rescue from the PSBT.
Rebuilt(o, purpose, psbt) ==
    [leaf |-> CASE purpose = "release" -> "release" [] purpose = "dispute-sponsor" -> "sponsor-win"
                [] OTHER -> "customer-win",
     coin |-> IF purpose = "rescue" THEN psbt.tx.coin ELSE o.coin, dest |-> psbt.tx.dest,
     fee  |-> CASE purpose = "release" -> o.releaseFee [] purpose = "rescue" -> psbt.tx.fee
                [] OTHER -> o.settleFee]
Sane(t) == t.fee <= MaxSane * estimateSettlementVsize(t.leaf, t.dest)

checkEscrowAddress(p, o) ==
    o.sponsorKey # "none" /\ assertEscrowKeys(o.sponsorKey) /\ KeyOf(p, o) = (IF p = "customer" THEN "C" ELSE "S")

checkSignRequest(p, o, purpose, psbt, refund) ==
    LET t == Rebuilt(o, purpose, psbt)
    IN /\ psbt # NoPsbt /\ checkEscrowAddress(p, o)
       /\ IF purpose = "rescue" THEN t.coin \in AtEscrow ELSE o.coin # "none"
       /\ Fits(p, o, purpose) /\ PaysRight(purpose, psbt, refund)
       /\ Sane(t) /\ CanBuild(t) /\ psbt.tx = t
       /\ purpose = "release" => verifyPresignature(psbt, t, o.sponsorKey)

\* What the customer's screen compares with: the record, or else what she types.
Compared == IF knows.refund # NoAddress THEN {knows.refund} ELSE {NoAddress, meta.refund}

\* SignPanel: the request is shown when the order allows it, and what is rebuilt is signed, if
\* the own key is one of its leaf (signSettlement throws: a sponsor cannot sign a rescue).
sign(p, purpose) ==
    /\ canActOnSignRequest(view[p], purpose)
    /\ \E refund \in Compared : checkSignRequest(p, view[p], purpose, box[p][purpose], refund)
    /\ LET t == Rebuilt(view[p], purpose, box[p][purpose])
       IN /\ KeyOf(p, view[p]) \in leafSigners(t.leaf, view[p].sponsorKey)
          /\ Send(p, purpose, t, IF purpose = "release" THEN {signSettlement(view[p].sponsorKey, t)} ELSE {})
    /\ UNCHANGED <<order, meta, view, box, knows, outbox, chain, looked, market, krw, up, mistakes>>

\* A request that nobody decided, from whatever made it: one thing is not as in the order, or
\* it asks for a rescue.
KindFor(purpose) ==
    CASE purpose = "release" -> "release" [] purpose = "dispute-sponsor" -> "sponsor_win"
      [] purpose = "dispute-customer" -> "customer_win" [] OTHER -> "refund:customer-late"
Mistakes(t) ==
    {[t EXCEPT !.leaf = l] : l \in Leaves \ {"timelock"}}
      \cup {[t EXCEPT !.coin = c] : c \in {"stray", "elsewhere"}}
      \cup {[t EXCEPT !.dest.own = a] : a \in {"wallet", "sponsor", "elsewhere"}}
      \cup {[t EXCEPT !.dest = outputScriptFor(derived)]}
      \cup {[t EXCEPT !.fee = f] : f \in {t.fee + 1, Amount - 546}}
\* A rescue takes what is at the address for the customer, at the fee of the moment: as it
\* should be for a stray output, and a mistake for the funding, pinned or not yet.
RescueOf(coin) ==
    LET dest == outputScriptFor(refundDestinationFor(meta))
    IN [leaf |-> "customer-win", coin |-> coin, dest |-> dest,
        fee |-> settlementFeeSat("customer-win", dest, market.rate)]
Unasked(purpose) ==
    IF purpose = "rescue"
    THEN UNION {{RescueOf(c)} \cup Mistakes(RescueOf(c)) : c \in AtEscrow}
    ELSE IF order.coin = "none" THEN {}
         ELSE Mistakes(settlementParamsFor(order, meta, KindFor(purpose)))
Mistaken ==
    /\ mistakes < MaxMistakes /\ order.sponsorKey # "none"
    /\ \E p \in Parties, purpose \in Purposes, signed \in BOOLEAN :
          \E t \in Unasked(purpose) :
             /\ CanBuild(t)
             /\ Ask(p, purpose, [tx |-> t, sigs |-> IF signed THEN meta.presig.sigs ELSE {}])
    /\ mistakes' = mistakes + 1
    /\ UNCHANGED <<order, meta, view, mail, sigs, knows, outbox, chain, looked, market, krw, up>>

----------------------------------------------------------------------------
(* KRW.                                                                                    *)

\* The customer gives the account; the deadline of the KRW runs from here.
GiveAccount ==
    /\ up /\ order.state = "presigned" /\ order.kind = NoKind /\ order.account = Unseen
    /\ view["customer"].state = "presigned"
    /\ order' = [order EXCEPT !.account = chain.confs]
    /\ UNCHANGED <<meta, view, box, mail, sigs, held, knows, outbox, chain, looked, market, krw, up,
                   mistakes>>

\* RemitPanel reads the funding once for each version of the order it is given.
checkFundingOnChain == chain.spent = NoTx /\ chain.confs >= 1
Look ==
    /\ view["sponsor"].state = "presigned" /\ looked = Unseen /\ checkFundingOnChain
    /\ looked' = chain.confs
    /\ UNCHANGED <<order, meta, view, box, mail, sigs, held, knows, outbox, chain, market, krw, up,
                   mistakes>>

\* The button: known confirmations, enough of the timelock left, the deadline not passed. The
\* daemon takes the claim at once (how late it may come is in OcWindows).
timelockStatus(confs) == confs # Unseen /\ Timelock - confs >= Distance
Remit ==
    /\ up /\ view["sponsor"].state = "presigned" /\ view["sponsor"].account # Unseen
    /\ timelockStatus(looked) /\ chain.confs - view["sponsor"].account <= KrwBlocks
    /\ order.state = "presigned" /\ order.kind = NoKind
    /\ order' = [order EXCEPT !.state = "remitted"] /\ krw' = TRUE
    /\ UNCHANGED <<meta, view, box, mail, sigs, held, knows, outbox, chain, looked, market, up, mistakes>>

Dispute ==
    /\ up /\ order.state = "remitted"
    /\ order' = [order EXCEPT !.state = "disputed"]
    /\ UNCHANGED <<meta, view, box, mail, sigs, held, knows, outbox, chain, looked, market, krw, up,
                   mistakes>>

----------------------------------------------------------------------------
(* Signatures arrive at the daemon.                                                        *)

ocPresig(msg) ==
    LET t == settlementParamsFor(order, meta, "release")
    IN /\ up /\ msg.purpose = "presig" /\ mail' = mail \ {msg}
       /\ IF order.state = "funded" /\ order.kind = NoKind
             /\ verifyPresignature(msg.psbt, t, order.sponsorKey)
          THEN /\ order' = [order EXCEPT !.state = "presigned"]
               /\ meta' = [meta EXCEPT !.presig = msg.psbt]
               /\ Ask("customer", "release", msg.psbt)
          ELSE UNCHANGED <<order, meta, box, held>>
       /\ UNCHANGED <<view, sigs, knows, outbox, chain, looked, market, krw, up, mistakes>>

\* The daemon adds the last signature: the stored one of the sponsor, or its own. A signed rescue
\* is none of a decision: ocRescueCosign, which refuses the pinned output of a live trade, is in
\* OcRescue.
ocCosign(msg) ==
    LET kind == IF msg.purpose = "release" THEN "release" ELSE order.kind
        t == settlementParamsFor(order, meta, kind)
        good == /\ canActOnSignRequest(order, msg.purpose)
                /\ kind # NoKind /\ signPurposeFor(kind) = msg.purpose
                /\ msg.from = awaitingSignerFor(kind)
                /\ verifyPresignature(msg.psbt, t, KeyOf(msg.from, order))
                /\ kind = "release" => verifyPresignature(meta.presig, t, order.sponsorKey)
    IN /\ up /\ msg.purpose # "presig" /\ mail' = mail \ {msg}
       /\ IF good
          THEN /\ order' = [order EXCEPT !.state = "settling", !.kind = kind]
               /\ outbox' = t
               /\ sigs' = IF kind = "release" THEN sigs ELSE sigs \cup {signSettlement("A", t)}
          ELSE UNCHANGED <<order, outbox, sigs>>
       /\ UNCHANGED <<meta, view, box, held, knows, chain, looked, market, krw, up, mistakes>>

----------------------------------------------------------------------------
(* The chain and the world.                                                                *)

Block ==
    /\ chain.confs \in 0 .. Timelock - 1 /\ chain.spent = NoTx
    /\ chain' = [chain EXCEPT !.confs = @ + 1]
    /\ UNCHANGED <<order, meta, view, box, mail, sigs, held, knows, outbox, looked, market, krw, up,
                   mistakes>>

\* What the daemon finished is mined, with or without it.
Confirm ==
    /\ outbox # NoTx /\ chain.spent = NoTx
    /\ chain' = [chain EXCEPT !.spent = outbox]
    /\ order' = [order EXCEPT !.state = "over"]
    /\ UNCHANGED <<meta, view, box, mail, sigs, held, knows, outbox, looked, market, krw, up, mistakes>>

\* RecoveryPanel: the customer alone, once the funding is old enough, to any address of hers.
buildTimelockSweep(rate) ==
    [leaf |-> "timelock", coin |-> "funding", dest |-> [own |-> "wallet", kind |-> "tr"],
     fee |-> settlementFeeSat("timelock", [own |-> "wallet", kind |-> "tr"], rate)]
RecoveryShown == view["customer"].sponsorKey # "none" /\ chain.confs >= Timelock
Sweep ==
    /\ RecoveryShown /\ chain.spent = NoTx
    /\ LET t == buildTimelockSweep(market.rate)
       IN /\ CanBuild(t)
          /\ sigs' = sigs \cup {signSettlement("C", t)}
          /\ held' = [held EXCEPT !["customer"] = @ \cup {signSettlement("C", t)}]
          /\ chain' = [chain EXCEPT !.spent = t]
    /\ order' = [order EXCEPT !.state = IF up THEN "over" ELSE @]
    /\ UNCHANGED <<meta, view, box, mail, knows, outbox, looked, market, krw, up, mistakes>>

\* LegacySweep: a refund that came to the key of the order goes on to the wallet.
buildRefundSweep ==
    /\ chain.spent.dest.own = "orderkey"
    /\ chain' = [chain EXCEPT !.spent.dest.own = "wallet"]
    /\ UNCHANGED <<order, meta, view, box, mail, sigs, held, knows, outbox, looked, market, krw, up,
                   mistakes>>

Market ==
    /\ market.moves < MaxMoves
    /\ \E r \in Rates \ {market.rate} : market' = [rate |-> r, moves |-> market.moves + 1]
    /\ UNCHANGED <<order, meta, view, box, mail, sigs, held, knows, outbox, chain, looked, krw, up,
                   mistakes>>

Vanish ==
    /\ Vanishes /\ up /\ up' = FALSE
    /\ UNCHANGED <<order, meta, view, box, mail, sigs, held, knows, outbox, chain, looked, market, krw,
                   mistakes>>

Signs == \E p \in Parties, purpose \in Purposes : sign(p, purpose)
Hears == \E msg \in mail : ocPresig(msg) \/ ocCosign(msg)
Decides == \E kind \in RefundKinds \cup {"sponsor_win", "customer_win"} : decideSettlement(kind)

Next ==
    \/ \E a \in Payouts, rate \in ClaimRates, key \in ClaimKeys : ocClaim(a, rate, key)
    \/ PayIn \/ Fund \/ Decides \/ resolveAccountDispute \/ Resend
    \/ \E p \in Parties : See(p)
    \/ buildPresignature \/ Forget \/ Reenter \/ Signs \/ Mistaken
    \/ GiveAccount \/ Look \/ Remit \/ Dispute
    \/ Hears
    \/ Block \/ Confirm \/ Sweep \/ buildRefundSweep \/ Market \/ Vanish

Spec == Init /\ [][Next]_vars

\* Apps receive, people sign what was decided for them (to release is the customer's own choice),
\* the daemon hears, a settlement is mined.
FairSpec ==
    /\ Spec
    /\ \A p \in Parties : WF_vars(See(p)) /\ \A q \in Purposes \ {"release", "rescue"} : WF_vars(sign(p, q))
    /\ WF_vars(Hears) /\ WF_vars(Confirm)

\* Blocks come, and a customer takes back what nobody else settles.
LastingSpec ==
    /\ Spec
    /\ WF_vars(See("customer")) /\ WF_vars(Block) /\ WF_vars(Sweep) /\ WF_vars(buildRefundSweep)

----------------------------------------------------------------------------
(* Properties.                                                                             *)

Foreign(p, leaf) == leafSigners(leaf, order.sponsorKey) \ {KeyOf(p, order)}
TakesAlone(p) ==
    \E leaf \in Leaves \ {"timelock"} :
       /\ KeyOf(p, order) \in leafSigners(leaf, order.sponsorKey)
       /\ \/ Foreign(p, leaf) = {}
          \/ \E s \in held[p] :
                /\ s.tx.leaf = leaf /\ s.tx.coin = "funding" /\ s.tx.dest.own \in Mine(p)
                /\ \A k \in Foreign(p, leaf) : signSettlement(k, s.tx) \in held[p]

\* Before the daemon has finished a settlement nobody can finish one that pays himself: not with
\* a request in hand, not with a key that counts twice (tx.ts 26-30; keys.ts, assertEscrowKeys).
NobodyTakesAlone ==
    order.sponsorKey # "none" /\ outbox = NoTx => \A p \in Parties : ~TakesAlone(p)

\* Whatever request a device was sent and however old the order it shows, a signature of the
\* customer pays the sponsor what was agreed, over the sponsor's own signature, or pays herself
\* from her escrow, and not above the cap on feerates; one of the sponsor pays his own address.
\* What she sends back on a decision takes the funding at the decided fee: any other fee only on
\* a rescue, which the daemon does not finish for the funding (verify.ts, actions.ts).
SignsOnlyOwn ==
    /\ \A s \in sigs :
       /\ s.key = "C" => CASE s.tx.leaf = "release" ->
                                  /\ s.tx.dest = outputScriptFor(meta.payout) /\ s.tx.fee = order.releaseFee
                                  /\ signSettlement(order.sponsorKey, s.tx) \in sigs
                            [] s.tx.leaf = "timelock" -> s.tx.dest.own = "wallet"
                            [] OTHER -> /\ s.tx.leaf = "customer-win" /\ s.tx.coin \in AtEscrow
                                        /\ s.tx.dest \in {outputScriptFor(refundDestinationFor(meta)),
                                                           outputScriptFor(derived)}
                                        /\ Sane(s.tx)
       /\ s.key = "S" => /\ s.tx.leaf \in {"release", "sponsor-win"} /\ s.tx.coin = "funding"
                         /\ s.tx.dest = outputScriptFor(meta.payout)
                         /\ s.tx.fee = IF s.tx.leaf = "release"
                                       THEN settlementFeeSat("release", s.tx.dest, meta.rate)
                                       ELSE order.settleFee
    /\ \A msg \in mail :
       msg.from = "customer" /\ msg.purpose \in {"refund", "dispute-customer"} =>
          msg.psbt.tx.coin = "funding" /\ msg.psbt.tx.fee = order.settleFee

Genuine == [tx |-> settlementParamsFor(order, meta, order.kind), sigs |-> {}]

\* Once KRW was sent the release needs nothing but the customer's signature: the stored
\* presignature fits the release as the daemon would build it now, and the app of the customer,
\* shown the order as it is, accepts it (handlers.ts ocPresig, ocCosign; watcher.ts 209-228).
ReleaseStaysReady ==
    order.state \in {"remitted", "disputed"} =>
       /\ verifyPresignature(meta.presig, settlementParamsFor(order, meta, "release"), order.sponsorKey)
       /\ checkSignRequest("customer", order, "release", meta.presig, NoAddress)

\* What was decided can be signed: the party whose signature is awaited, on a device that has
\* its record or where the address is typed again, is not refused (verify.ts, refundDestination).
DecidedIsSignable ==
    order.state \in {"refunding", "disputed"} /\ order.kind # NoKind /\ knows.payout = meta.payout =>
       \E refund \in Compared :
          checkSignRequest(awaitingSignerFor(order.kind), order, signPurposeFor(order.kind), Genuine, refund)

\* One settlement is finished and stays the one, though signatures for a release and for a
\* ruling may be under way together (state-machine.ts 415, canActOnSignRequest).
FinishedOnce == outbox # NoTx => outbox' = outbox

\* KRW leaves only while the timelock is far, though the screen reads the chain once and the
\* button is pressed later (RemitPanel.tsx, actions.ts timelockStatus).
RemitKeepsDistance == krw' # krw => Timelock - chain.confs >= Distance - KrwBlocks

\* The money of the escrow comes out, also when the daemon is gone for good, and is never left
\* at the key of the order (actions.ts buildTimelockSweep, buildRefundSweep).
Out == chain.spent # NoTx /\ chain.spent.dest.own # "orderkey"
EscrowComesOut == chain.confs # Unseen ~> Out

\* A decision reaches whom it favours, unless the timelock has run out before or the customer
\* releases after all: the request is unsigned, checked against the device's record, and the
\* daemon signs last (flow.ts requestSettlementSignature, handlers.ts ocCosign).
Favours(p) == order.kind \notin {NoKind, "release"} /\ awaitingSignerFor(order.kind) = p
PaidTo(p) == chain.spent.dest.own \in Mine(p) \/ order.kind = "release" \/ chain.confs = Timelock
DecidedIsPaid == \A p \in Parties : Favours(p) ~> PaidTo(p)
=============================================================================
