------------------------------- MODULE OcCards -------------------------------
(* The cards of an on-chain order (customer/src/onchain): what the apps of    *)
(* the customer and of the sponsors remember and offer, from the order's      *)
(* event, the daemon's letters and their own echoes, against what the         *)
(* daemon's handlers (daemon/src/onchain/handlers.ts) take.  One order that   *)
(* has been listed.                                                           *)
EXTENDS Integers, Sequences, OcOutcomes

CONSTANTS
    Customer, Sponsors, NoOne,
    Terms, None,  \* a payout address with a fee rate; none
    Designated,   \* an order for one sponsor, without bonds
    MaxClaims,    \* bound: claims a sponsor sends
    MaxReorgs,    \* bound: fundings undone by a block
    MaxReloads,   \* bound: a sponsor's app is opened anew
    MaxFaults,    \* bound: faults
    Faults,       \* what may fail: "unacked", "lost", "presig", "remit", "device"
    Clock,        \* deadlines pass, the operator and the timelock act
    Patient       \* nobody claims, or presses again, before his app has the order as it is

OcCardsAssumption ==
    /\ Customer \notin Sponsors /\ NoOne \notin Sponsors \cup {Customer} /\ None \notin Terms
    /\ {MaxClaims, MaxReorgs, MaxReloads, MaxFaults} \subseteq Nat
    /\ Faults \subseteq {"unacked", "lost", "presig", "remit", "device"}
    /\ {Designated, Clock, Patient} \subseteq BOOLEAN

VARIABLES
    order,      \* what the daemon publishes of it, with the terms it keeps to itself
    candidates, \* sponsors whose bond is asked for, with the terms of their claim
    coin,       \* the money is at the escrow's address
    been,       \* history: the steps the trade has taken
    requests,   \* on the relays, not yet handled
    mail,       \* the daemon's letters, not yet read
    fresh,      \* parties whose app has had the order's present event since it was opened
    seen,       \* the order as the customer's app has it
    sign,       \* the signatures asked for, as the apps store them
    accounts,   \* account events the customer has sent
    app,        \* what a sponsor's app remembers
    sent,       \* the claims he has on the relays
    reorgs, reloads, faults

daemon == <<order, candidates, fresh, been>>
bounds == <<reorgs, reloads, faults>>
vars == <<daemon, coin, requests, mail, seen, sign, accounts, app, sent, bounds>>

Parties == Sponsors \cup {Customer}
NoClaim == [terms |-> None, at |-> 0]
Listed == [st |-> "listed", kind |-> "", sponsor |-> NoOne, terms |-> None, funding |-> 0,
           account |-> 0, disputed |-> FALSE]

Init ==
    /\ order = Listed /\ candidates = [p \in Sponsors |-> None] /\ coin = FALSE /\ been = {"listed"}
    /\ requests = {} /\ mail = {} /\ fresh = Parties /\ seen = Listed /\ sign = {} /\ accounts = 0
    /\ app = [p \in Sponsors |->
                [shown |-> Listed, claim |-> NoClaim, asked |-> FALSE, echoed |-> {},
                 invoice |-> "none", presigning |-> FALSE, account |-> 0, remitted |-> FALSE]]
    /\ sent = [p \in Sponsors |-> <<>>]
    /\ reorgs = 0 /\ reloads = 0 /\ faults = 0

Fault(what) == what \in Faults /\ faults < MaxFaults /\ faults' = faults + 1

-----------------------------------------------------------------------------
(* The ladder.                                                                *)

Ladder == <<"listed", "bonded", "funded", "presigned", "remitted", "settling", "released">>
ONCHAIN_PROGRESS_STEPS ==
    [st \in {Ladder[i] : i \in DOMAIN Ladder} |->
        CASE st \in {"listed", "funded"} -> "sponsor"
          [] st \in {"settling", "released"} -> "chain"
          [] OTHER -> "customer"]

onchainStepActor(st, accountInfoSent) ==
    IF st = "refunding" THEN "customer"
    ELSE IF st = "presigned" /\ accountInfoSent THEN "sponsor"
    ELSE IF st \in DOMAIN ONCHAIN_PROGRESS_STEPS THEN ONCHAIN_PROGRESS_STEPS[st] ELSE "admin"

\* How far the ladder is done, for the states beside it as far as they tell.
terminalDoneThrough(st) ==
    CASE st = "cancelled" -> 0
      [] st \in {"refunded", "swept"} -> 2
      [] st \in {"sponsor_wins", "customer_wins"} -> 5
offLadder(st) == st \in {"disputed", "refunding"} \cup (OcTerminal \ {"released"})
doneThrough(st) ==
    CASE st = "disputed" -> 5
      [] st = "refunding" -> 2
      [] offLadder(st) -> terminalDoneThrough(st)
      [] OTHER -> CHOOSE i \in DOMAIN Ladder : Ladder[i] = st
stepsDone(st) ==
    {Ladder[i] : i \in {i \in DOMAIN Ladder :
        i < doneThrough(st) \/ (offLadder(st) /\ i = doneThrough(st))}}

\* What a card of a refund says of a bond: nothing, for an order without bonds.
refundingInfo(kind, role, bond) ==
    CASE kind = "refund:reserve" -> "refund"
      [] kind = "refund:sponsor-timeout" /\ bond = "sponsor" -> "forfeit"
      [] kind = "refund:customer-late" /\ bond = "customer" -> "forfeit"
      [] kind = "refund:customer-late" /\ bond = "sponsor" /\ role = "sponsor" -> "refund"
      [] kind = "refund:account-disputed" -> "leave"
      [] OTHER -> ""

-----------------------------------------------------------------------------
(* The cards.                                                                 *)

\* He has claimed and waits for the answer.
pendingClaim(p) == app[p].claim.terms # None /\ app[p].asked

\* Mutant: whatever is stored.
actionable_stored(p, o) == {r \in sign : r.to = p}
actionable(p, o) ==
    {r \in sign : r.to = p /\ canActOnSignRequest(o.st, r.tx, o.kind)}
\* It builds the transaction anew, for the funding the order names.
checkSignRequest(r, o) == r.funding = o.funding
Signing(p, o) == {r.tx : r \in {r \in actionable(p, o) : checkSignRequest(r, o)}}

customerCard(o) ==
    (IF o.st = "listed" THEN {"cancel"} ELSE {})
    \cup (IF o.st = "bonded" THEN {"fund"} ELSE {})
    \cup (IF o.st = "presigned" /\ o.account = 0 THEN {"send-account"} ELSE {})
    \cup (IF o.st = "remitted" THEN {"dispute"} ELSE {})
    \cup Signing(Customer, o)
canRemit(p) == app[p].shown.account # 0 /\ app[p].account # 0 /\ ~app[p].remitted
sponsorCard(p, o) ==
    (IF o.st = "funded" /\ app[p].claim.terms = None THEN {"presign"} ELSE {})
    \cup (IF o.st = "presigned" /\ canRemit(p) THEN {"remit"} ELSE {})
    \cup (IF o.st = "presigned" /\ o.account # 0 /\ ~o.disputed THEN {"object"} ELSE {})
    \cup (IF o.st = "remitted" THEN {"dispute"} ELSE {})
    \cup Signing(p, o)
bookCard(p) ==
    IF app[p].invoice = "open" THEN {"pay"} ELSE IF pendingClaim(p) THEN {} ELSE {"claim"}

view(p) == IF p = Customer THEN seen ELSE app[p].shown
offers(p) ==
    IF p = Customer THEN customerCard(seen)
    ELSE IF view(p).sponsor = p THEN sponsorCard(p, view(p))
    ELSE IF view(p).st = "listed" THEN bookCard(p) ELSE {}
isMyTurn(p) ==
    LET actor == onchainStepActor(view(p).st, view(p).account # 0) IN
    /\ ~offLadder(view(p).st) \/ view(p).st = "refunding"
    /\ IF p = Customer THEN actor = "customer" ELSE view(p).sponsor = p /\ actor = "sponsor"

-----------------------------------------------------------------------------
(* What the parties press.                                                    *)

Request(action, by, arg, n) == [action |-> action, by |-> by, arg |-> arg, n |-> n]
send(action, by, arg, n) == requests' = requests \cup {Request(action, by, arg, n)}
Again(p, action) == Patient /\ (p \notin fresh \/ \E r \in requests : r.by = p /\ r.action = action)
elsewhere == <<daemon, coin, mail, seen, sign, accounts, sent>>

\* What the form sends: while he waits, only the same again.
claimTerms(p) == IF pendingClaim(p) THEN {app[p].claim.terms} ELSE Terms
\* ClaimForm.send: the terms are remembered first, and forgotten if no relay is known to
\* have taken them.
claimSend(p, t) ==
    LET a == app[p]
        n == Len(sent[p]) + 1 IN
    /\ a.shown.st = "listed" /\ a.shown.sponsor # p /\ a.invoice # "open" /\ n <= MaxClaims
    /\ t \in claimTerms(p)
    /\ Patient => p \in fresh
    /\ \/ /\ app' = [app EXCEPT ![p].claim = [terms |-> t, at |-> n], ![p].asked = TRUE]
          /\ sent' = [sent EXCEPT ![p] = Append(@, t)] /\ send("claim", p, t, n)
          /\ UNCHANGED faults
       \/ /\ Fault("unacked")
          /\ app' = [app EXCEPT ![p].claim = NoClaim, ![p].asked = FALSE]
          /\ sent' = [sent EXCEPT ![p] = Append(@, t)] /\ send("claim", p, t, n)
       \/ /\ Fault("lost")
          /\ app' = [app EXCEPT ![p].claim = NoClaim, ![p].asked = FALSE]
          /\ UNCHANGED <<sent, requests>>
    /\ UNCHANGED <<daemon, coin, mail, seen, sign, accounts, reorgs, reloads>>

payBond(p) ==
    /\ "pay" \in offers(p)
    /\ send("pay", p, None, 0)
    /\ UNCHANGED <<elsewhere, app, bounds>>

cancel ==
    /\ "cancel" \in offers(Customer) /\ ~Again(Customer, "cancel")
    /\ send("cancel", Customer, None, 0)
    /\ UNCHANGED <<elsewhere, app, bounds>>
fundEscrow ==
    /\ "fund" \in offers(Customer) /\ ~coin /\ order.st = "bonded"
    /\ coin' = TRUE
    /\ UNCHANGED <<daemon, requests, mail, seen, sign, accounts, app, sent, bounds>>
sendAccount ==
    /\ "send-account" \in offers(Customer) /\ ~Again(Customer, "account-info")
    /\ accounts < 2 + MaxReorgs /\ accounts' = accounts + 1
    /\ send("account-info", Customer, None, accounts')
    /\ UNCHANGED <<daemon, coin, mail, seen, sign, app, sent, bounds>>
\* RemitPanel: the button has done its work whatever became of the publication.
remit(p) ==
    /\ "remit" \in offers(p)
    /\ app' = [app EXCEPT ![p].remitted = TRUE]
    /\ \/ send("remit-request", p, None, 0) /\ UNCHANGED faults
       \/ Fault("remit") /\ UNCHANGED requests
    /\ UNCHANGED <<elsewhere, reorgs, reloads>>
object(p) ==
    /\ {"object", "dispute"} \cap offers(p) # {} /\ ~Again(p, "dispute")
    /\ send("dispute", p, None, IF "object" \in offers(p) THEN 1 ELSE 0)
    /\ UNCHANGED <<elsewhere, app, bounds>>
\* SignPanel.sign: what has been signed is put away.
signPanel(p) ==
    /\ \E r \in actionable(p, view(p)) :
        /\ checkSignRequest(r, view(p))
        /\ send("cosign", p, r.tx, r.funding) /\ sign' = sign \ {r}
    /\ UNCHANGED <<daemon, coin, mail, seen, accounts, app, sent, bounds>>

-----------------------------------------------------------------------------
(* The handlers.                                                              *)

Publish(o) ==
    /\ order' = o /\ fresh' = {}
    /\ been' = IF o.st = "bonded" THEN {"listed", "bonded"} ELSE been \cup {o.st}
Letter(to, what) == [to |-> to, what |-> what, tx |-> "", funding |-> 0]
SignLetter(to, tx) == [to |-> to, what |-> "sign", tx |-> tx, funding |-> order.funding]
Quiet == UNCHANGED <<order, fresh, been>>

takes(r) ==
    CASE r.action = "claim" ->
            /\ order.st = "listed" /\ candidates[r.by] = None
      [] r.action = "pay" -> order.st = "listed" /\ candidates[r.by] # None
      [] r.action = "cancel" -> order.st = "listed"
      [] r.action = "presig" ->
            /\ order.sponsor = r.by /\ order.st = "funded"
            /\ r.arg = order.terms /\ r.n = order.funding
      [] r.action = "account-info" -> order.st = "presigned" /\ order.account = 0
      [] r.action = "remit-request" ->
            order.sponsor = r.by /\ order.st = "presigned" /\ order.account # 0
      [] r.action = "dispute" ->
            \/ order.st = "remitted"
            \/ /\ order.st = "presigned" /\ r.n = 1
               /\ order.sponsor = r.by /\ order.account # 0 /\ ~order.disputed
      [] r.action = "cosign" ->
            /\ canActOnSignRequest(order.st, r.arg, order.kind) /\ r.n = order.funding
            /\ r.by = IF r.arg = "sponsor" THEN order.sponsor ELSE Customer

\* Everybody else's bond is given back.
dropSponsorCandidates ==
    /\ candidates' = [p \in Sponsors |-> None]
    /\ mail' = mail \cup {Letter(p, "done") : p \in {p \in Sponsors : candidates[p] # None}}
bondOc(p, t) ==
    /\ Publish([order EXCEPT !.st = "bonded", !.sponsor = p, !.terms = t])
    /\ dropSponsorCandidates

ocClaim(r) ==
    IF Designated THEN bondOc(r.by, r.arg)
    ELSE /\ candidates' = [candidates EXCEPT ![r.by] = r.arg]
         /\ mail' = mail \cup {Letter(r.by, "invoice")} /\ Quiet
onSponsorBond(r) == bondOc(r.by, candidates[r.by])
ocCancel == Publish([order EXCEPT !.st = "cancelled"]) /\ dropSponsorCandidates
ocPresig ==
    /\ Publish([order EXCEPT !.st = "presigned"])
    /\ mail' = mail \cup {SignLetter(Customer, "release")} /\ UNCHANGED candidates
ocAccountInfo(r) ==
    Publish([order EXCEPT !.account = r.n]) /\ UNCHANGED <<candidates, mail>>
ocRemit == Publish([order EXCEPT !.st = "remitted"]) /\ UNCHANGED <<candidates, mail>>
ocDispute ==
    /\ Publish(IF order.st = "remitted" THEN [order EXCEPT !.st = "disputed"]
               ELSE [order EXCEPT !.disputed = TRUE])
    /\ UNCHANGED <<candidates, mail>>
ocCosign(r) ==
    /\ Publish([order EXCEPT !.st = "settling",
                             !.kind = IF r.arg = "release" THEN "release" ELSE @])
    /\ UNCHANGED <<candidates, mail>>

\* A claim that comes too late is answered, one made again is not; the other answers are
\* read and change nothing.
reject(r) ==
    /\ mail' = IF r.action = "claim" /\ order.st # "listed"
               THEN mail \cup {Letter(r.by, "rejected")} ELSE mail
    /\ UNCHANGED <<candidates, order, fresh, been>>

Handle ==
    \E r \in requests :
        /\ requests' = requests \ {r}
        /\ IF ~takes(r) THEN reject(r)
           ELSE CASE r.action = "claim" -> ocClaim(r)
                  [] r.action = "pay" -> onSponsorBond(r)
                  [] r.action = "cancel" -> ocCancel
                  [] r.action = "presig" -> ocPresig
                  [] r.action = "account-info" -> ocAccountInfo(r)
                  [] r.action = "remit-request" -> ocRemit
                  [] r.action = "dispute" -> ocDispute
                  [] r.action = "cosign" -> ocCosign(r)
        /\ UNCHANGED <<coin, seen, sign, accounts, app, sent, bounds>>

-----------------------------------------------------------------------------
(* The chain, the clock and the operator.                                     *)

nowhere == <<requests, seen, sign, accounts, app, sent>>

\* A block takes longer than the minute an app waits before it may presign again.
Confirmed ==
    /\ coin /\ order.st = "bonded" /\ \A p \in Sponsors : ~app[p].presigning
    /\ Publish([order EXCEPT !.st = "funded", !.funding = reorgs + 1])
    /\ UNCHANGED <<candidates, coin, mail, nowhere, bounds>>
reorg ==
    /\ order.st \in {"funded", "presigned"} /\ reorgs < MaxReorgs /\ reorgs' = reorgs + 1
    /\ coin' = FALSE
    /\ Publish([order EXCEPT !.st = "bonded", !.account = 0, !.disputed = FALSE])
    /\ UNCHANGED <<candidates, mail, nowhere, reloads, faults>>
settled ==
    /\ order.st = "settling"
    /\ Publish([order EXCEPT !.st = OUTCOME_RULES[order.kind].terminal])
    /\ UNCHANGED <<candidates, coin, mail, nowhere, bounds>>

\* A refund is decided: the price is below the reserve, or a deadline has passed.
decideSettlement ==
    /\ Clock
    /\ \/ order.st = "bonded" /\ coin
       \/ order.st \in {"funded", "presigned"}
    /\ \E kind \in CASE order.st = "bonded" -> {"refund:reserve", "refund:bond-expired"}
                     [] order.st = "funded" -> {"refund:sponsor-timeout"}
                     [] order.account = 0   -> {"refund:customer-late"}
                     [] order.disputed      -> {"refund:account-disputed"}
                     [] OTHER               -> {"refund:sponsor-timeout"} :
        LET o == [order EXCEPT !.st = "refunding", !.kind = kind,
                               !.funding = IF order.st = "bonded" THEN reorgs + 1 ELSE @] IN
        /\ Publish(o)
        /\ mail' = mail \cup {[SignLetter(Customer, "refund") EXCEPT !.funding = o.funding]}
    /\ UNCHANGED <<candidates, coin, nowhere, bounds>>
\* Nobody funds, nobody claims, nobody confirms.
Deadline ==
    /\ Clock
    /\ \/ order.st = "listed" /\ ocCancel
       \/ /\ order.st = "bonded" /\ ~coin
          /\ Publish([order EXCEPT !.st = "cancelled"]) /\ UNCHANGED <<candidates, mail>>
       \/ /\ order.st = "remitted"
          /\ Publish([order EXCEPT !.st = "disputed"]) /\ UNCHANGED <<candidates, mail>>
       \/ /\ "swept" \in ONCHAIN_TRANSITIONS[order.st]
          /\ Publish([order EXCEPT !.st = "swept"]) /\ UNCHANGED <<candidates, mail>>
    /\ UNCHANGED <<coin, nowhere, bounds>>
oc_rule ==
    /\ order.st = "disputed" /\ order.kind = ""
    /\ \E kind \in {"sponsor_win", "customer_win"} :
        /\ Publish([order EXCEPT !.kind = kind])
        /\ mail' = mail \cup {SignLetter(IF kind = "sponsor_win" THEN order.sponsor ELSE Customer,
                                         TxFor(kind))}
    /\ UNCHANGED <<candidates, coin, nowhere, bounds>>
resolveAccountDispute ==
    /\ order.kind = "refund:account-disputed"
    /\ \E kind \in {"refund:customer-late", "refund:sponsor-timeout"} :
        Publish([order EXCEPT !.kind = kind])
    /\ UNCHANGED <<candidates, coin, mail, nowhere, bounds>>

-----------------------------------------------------------------------------
(* What the apps hear.                                                        *)

\* buildPresignature and its publication. Other terms make another transaction: the app
\* refuses to sign it for the fee, or the daemon for the address.
autoPresign(p, a) ==
    IF a.presigning \/ a.shown.st # "funded" \/ a.shown.sponsor # p
    THEN app' = [app EXCEPT ![p] = a] /\ UNCHANGED <<requests, faults>>
    ELSE \/ /\ a.claim.terms # None
            /\ app' = [app EXCEPT ![p] = [a EXCEPT !.presigning = TRUE]]
            /\ send("presig", p, a.claim.terms, a.shown.funding) /\ UNCHANGED faults
         \/ /\ a.claim.terms # None /\ Fault("presig")
            /\ app' = [app EXCEPT ![p] = a] /\ UNCHANGED requests
         \/ /\ a.claim.terms # a.shown.terms
            /\ app' = [app EXCEPT ![p] = [a EXCEPT !.presigning = TRUE]]
            /\ UNCHANGED <<requests, faults>>

clearSignRequestsFor(p, o) ==
    sign' = IF o.st = "settling" \/ o.st \in OcTerminal THEN {r \in sign : r.to # p} ELSE sign

handleOrderEvent(p) ==
    /\ p \notin fresh /\ fresh' = fresh \cup {p}
    /\ clearSignRequestsFor(p, order)
    /\ IF p = Customer
       THEN seen' = order /\ UNCHANGED <<app, requests, faults>>
       ELSE /\ autoPresign(p, [app[p] EXCEPT !.shown = order, !.remitted = @ /\ order.st = "presigned"])
            /\ UNCHANGED seen
    /\ UNCHANGED <<order, candidates, been, coin, mail, accounts, sent, reorgs, reloads>>
presigningOver(p) ==
    /\ app[p].presigning /\ app' = [app EXCEPT ![p].presigning = FALSE]
    /\ UNCHANGED <<elsewhere, requests, bounds>>
\* PresignStatus asks for the terms of the claim when there is no record of them.
presignNow(p, t) ==
    /\ "presign" \in offers(p)
    /\ \E i \in DOMAIN sent[p] : sent[p][i] = t
    /\ autoPresign(p, [app[p] EXCEPT !.claim = [terms |-> t, at |-> 0], !.presigning = FALSE])
    /\ UNCHANGED <<elsewhere, reorgs, reloads>>

\* The newer request for a purpose takes the place of the older.
putSignRequest(m) ==
    LET old == {r \in sign : r.to = m.to /\ r.tx = m.tx} IN
    sign' = IF \E r \in old : r.funding > m.funding THEN sign
            ELSE (sign \ old) \cup {[to |-> m.to, tx |-> m.tx, funding |-> m.funding]}
handleInboxEvent ==
    \E m \in mail :
        /\ mail' = mail \ {m}
        /\ IF m.what = "sign" THEN putSignRequest(m) /\ UNCHANGED app
           ELSE /\ UNCHANGED sign
                /\ app' = IF m.to = Customer THEN app
                          ELSE [app EXCEPT ![m.to].asked = FALSE,
                                           ![m.to].invoice = CASE m.what = "invoice" -> "open"
                                                               [] m.what = "done" -> "done"
                                                               [] OTHER -> @]
        /\ UNCHANGED <<daemon, coin, requests, seen, accounts, sent, bounds>>
\* The account of the order's customer; the first that comes is kept.
handleAccountInfo(p) ==
    /\ view(p).sponsor = p /\ app[p].account = 0
    /\ \E n \in 1..accounts : app' = [app EXCEPT ![p].account = n]
    /\ UNCHANGED <<elsewhere, requests, bounds>>
\* His own claims come back from the relays, once each; the latest counts.
handleOwnOnchainRequest(p) ==
    /\ \E i \in DOMAIN sent[p] \ app[p].echoed :
        LET known == app[p].claim.terms # None /\ app[p].claim.at >= i IN
        app' = [app EXCEPT ![p].echoed = @ \cup {i},
                           ![p].claim = IF known THEN @ ELSE [terms |-> sent[p][i], at |-> i],
                           ![p].asked = IF known THEN @ ELSE app[p].invoice = "none"]
    /\ UNCHANGED <<elsewhere, requests, bounds>>

\* The app is opened anew: on the same device the stores are still there.
Reload(p) ==
    /\ reloads < MaxReloads /\ reloads' = reloads + 1
    /\ fresh' = fresh \ {p}
    /\ \/ /\ app' = [app EXCEPT ![p].presigning = FALSE, ![p].remitted = FALSE, ![p].echoed = {}]
          /\ UNCHANGED faults
       \/ /\ Fault("device")
          /\ app' = [app EXCEPT ![p] = [@ EXCEPT !.presigning = FALSE, !.remitted = FALSE, !.echoed = {},
                                                 !.claim = NoClaim, !.asked = FALSE, !.account = 0]]
    /\ UNCHANGED <<order, candidates, been, coin, requests, mail, seen, sign, accounts, sent, reorgs>>

-----------------------------------------------------------------------------

Next ==
    \/ \E p \in Sponsors :
        \/ \E t \in Terms : claimSend(p, t) \/ presignNow(p, t)
        \/ payBond(p) \/ remit(p) \/ presigningOver(p) \/ handleAccountInfo(p)
        \/ handleOwnOnchainRequest(p) \/ Reload(p)
    \/ \E p \in Parties : object(p) \/ signPanel(p) \/ handleOrderEvent(p)
    \/ cancel \/ fundEscrow \/ sendAccount
    \/ Handle \/ handleInboxEvent
    \/ Confirmed \/ reorg \/ settled \/ decideSettlement \/ Deadline
    \/ oc_rule \/ resolveAccountDispute

Spec == Init /\ [][Next]_vars

\* The parties press what they are offered, and what is sent arrives.
LiveSpec ==
    /\ Spec
    /\ WF_vars(Handle) /\ WF_vars(handleInboxEvent)
    /\ WF_vars(fundEscrow) /\ WF_vars(sendAccount)
    /\ WF_vars(Confirmed) /\ WF_vars(settled) /\ WF_vars(oc_rule)
    /\ \A p \in Parties : WF_vars(handleOrderEvent(p)) /\ WF_vars(signPanel(p))
    /\ \A p \in Sponsors :
        /\ \A t \in Terms : WF_vars(claimSend(p, t)) /\ WF_vars(presignNow(p, t))
        /\ WF_vars(payBond(p)) /\ WF_vars(remit(p)) /\ WF_vars(presigningOver(p))
        /\ WF_vars(handleAccountInfo(p)) /\ WF_vars(handleOwnOnchainRequest(p))

-----------------------------------------------------------------------------

TypeOK ==
    /\ order.st \in OcState /\ order.kind \in SettlementKind \cup {""}
    /\ (order.sponsor = NoOne) = (order.terms = None)
    /\ (order.st \in {"listed"}) => order.sponsor = NoOne
    /\ order.account \in 0..accounts /\ fresh \subseteq Parties
    /\ \A p \in Sponsors : candidates[p] # None => order.st = "listed"
    /\ \A r, q \in sign : r.to = q.to /\ r.tx = q.tx => r = q

\* Everything sent was handled, everything published heard.
Settled ==
    /\ requests = {} /\ mail = {} /\ fresh = Parties
    /\ \A p \in Sponsors : /\ view(p).sponsor = p /\ accounts # 0 => app[p].account # 0
                           /\ app[p].echoed = DOMAIN sent[p]

\* What a card offers when nothing is under way, the daemon takes (card-view.ts and the
\* panels against handlers.ts): no button is pressed for nothing.
RequestOf(p, a) ==
    CASE a = "object" -> Request("dispute", p, None, 1)
      [] a = "dispute" -> Request("dispute", p, None, 0)
      [] a = "send-account" -> Request("account-info", p, None, accounts + 1)
      [] a = "remit" -> Request("remit-request", p, None, 0)
      [] a \in Tx -> Request("cosign", p, a, view(p).funding)
      [] OTHER -> Request(a, p, None, 0)
OfferIsAccepted ==
    Settled => \A p \in Parties : \A a \in offers(p) \ {"fund", "presign"} : takes(RequestOf(p, a))

\* Whoever's ladder says that it is his turn has something to press, but for the sponsor
\* whose app signs by itself, and not both at once.
TurnIsReal ==
    Settled => \A p \in Parties :
        /\ isMyTurn(p) /\ order.st # "funded" => offers(p) \ {"object", "dispute"} # {}
        /\ isMyTurn(p) => \A q \in Parties \ {p} : ~isMyTurn(q)

\* A trade never comes to rest with nobody able to move it on.
SomebodyCanMove ==
    Settled /\ order.st \notin OcTerminal =>
        \/ \E p \in Parties : offers(p) \ {"cancel", "object", "dispute"} # {}
        \/ order.st = "bonded" /\ coin
        \/ order.st = "settling"
        \/ order.st = "disputed" /\ order.kind = ""

\* A sponsor's app that knows his terms knows those his claim was bonded with: with any
\* others it cannot presign, and does not ask for them (claim-store.ts, PresignStatus.tsx).
ClaimIsKept ==
    \A p \in Sponsors :
        order.sponsor = p /\ app[p].claim.terms # None => app[p].claim.terms = order.terms

\* The account the sponsor has is the one the customer is bound to, which the operator
\* will compare in a dispute (publish.ts, publishOnchainAccountInfo).
AccountIsCommitted ==
    \A p \in Sponsors :
        order.sponsor = p /\ order.account # 0 /\ app[p].account # 0 => app[p].account = order.account

\* What a card says of a bond is what the outcome does with it (progress.ts against
\* OUTCOME_RULES).
TextTellsTheBond ==
    order.st = "refunding" =>
        \A role, bond \in {"customer", "sponsor"} :
            LET rule == IF bond = "customer" THEN OUTCOME_RULES[order.kind].customerBond
                        ELSE OUTCOME_RULES[order.kind].sponsorBond IN
            refundingInfo(order.kind, role, bond) \in {"", rule}

\* The ladder shows no step as done that was not taken (progress.ts, resolveOnchainProgress).
StepsAreTrue == stepsDone(order.st) \subseteq been

\* A card that says the daemon was told of the remittance speaks true (RemitPanel.tsx).
RemitIsTold ==
    \A p \in Sponsors :
        app[p].remitted /\ order.st = "presigned" /\ order.account # 0 =>
            Request("remit-request", p, None, 0) \in requests

\* The app of a sponsor presigns without him (PresignStatus.tsx).
PresignsByItself == (order.st = "funded") ~> (order.st # "funded")

\* Parties that press what their cards offer get to the end.
AtTheEnd == order.st \in OcTerminal
OcCardsLeadToTheEnd == <>AtTheEnd
=============================================================================
