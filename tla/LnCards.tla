------------------------------- MODULE LnCards -------------------------------
(* The cards of a Lightning order (customer/src/ln/card-view.ts): what they   *)
(* offer the customer and the sponsors, from the order's events and the       *)
(* daemon's notices, both of which come late, against what the daemon's       *)
(* handlers (daemon/src/ln/handlers.ts) take when the request arrives.        *)
EXTENDS Integers, Sequences, LnOutcomes

CONSTANTS
    Customer, Sponsors, NoOne,
    MaxClaims,   \* bound: claims of the order
    MaxInvoices, \* bound: payout invoices made; the last is good and does not expire
    MaxReloads,  \* bound: the sponsor's app is opened anew
    Mistakes,    \* an invoice may be one the daemon rejects
    Outside,     \* the clock and the operator may end the trade
    Patient,     \* a relay's acknowledgement comes before the daemon's answer, and the
                 \* sponsor makes another invoice only when told to
    InOrder      \* notices come in the order they were made

LnCardsAssumption ==
    /\ Customer \notin Sponsors /\ NoOne \notin Sponsors \cup {Customer}
    /\ {MaxClaims, MaxReloads} \subseteq Nat /\ MaxInvoices \in Nat \ {0}
    /\ {Mistakes, Outside, Patient, InOrder} \subseteq BOOLEAN

VARIABLES
    order,     \* what the daemon publishes of it
    closing,   \* pending_close, "" for none
    invoice,   \* sponsor_invoice, 0 for none
    payout,    \* the payment of it
    committed, \* account_commitment
    paid,      \* hold invoices paid at the node
    claims,
    requests,  \* on the relays, not yet handled
    notices,   \* of the payout invoice, in the order they were made
    raw,       \* the customer has published the order
    account,   \* he has sent his account: accountInfo
    shown,     \* the order as each app has it
    received,  \* the sponsor's app has the account
    heard,     \* notices the sponsor's app has had since it was opened
    claimError,
    made,      \* the payout invoices made: what each is worth
    sending,   \* the one whose publication still waits for the relays
    reloads

daemon == <<order, closing, invoice, payout, committed, claims, notices>>
customer == <<raw, account>>
sponsor == <<received, heard, claimError, made, sending, reloads>>
vars == <<daemon, paid, requests, customer, shown, sponsor>>

Hold(purpose, n) == [purpose |-> purpose, n |-> n]
Parties == Sponsors \cup {Customer}
Unborn == [st |-> "none", sponsor |-> NoOne, deposit |-> "none", disbursed |-> FALSE]
Paying == {"paid", "sponsor_wins"}
Ended == Terminal \cup {"dropped"}

Init ==
    /\ order = Unborn /\ closing = "" /\ invoice = 0 /\ payout = "none" /\ committed = FALSE
    /\ paid = {} /\ claims = 0 /\ requests = {} /\ notices = <<>>
    /\ raw = FALSE /\ account = FALSE /\ shown = [p \in Parties |-> Unborn]
    /\ received = FALSE /\ heard = {} /\ claimError = "" /\ made = <<>> /\ sending = 0
    /\ reloads = 0

-----------------------------------------------------------------------------
(* The cards.                                                                 *)

canSendAccountInfo(st) == st \in {"invoiced", "remitted"}

\* Whose turn it is at each step of the ladder.
PROGRESS_STEPS ==
    [st \in {"requested", "claimed", "verified", "escrowed", "invoiced", "remitted", "paid"} |->
        CASE st \in {"requested", "escrowed"} -> "sponsor"
          [] st \in {"claimed", "paid"} -> "admin"
          [] OTHER -> "customer"]
ladderState(o) == IF o.st = "claimed" /\ o.deposit = "due" THEN "requested" ELSE o.st
stepActor(st, accountInfoSent) ==
    IF st = "invoiced" /\ accountInfoSent THEN "sponsor"
    ELSE IF st \in DOMAIN PROGRESS_STEPS THEN PROGRESS_STEPS[st] ELSE "none"
summarizeProgress(o, accountInfoSent) == stepActor(ladderState(o), accountInfoSent)

customerActions(o) ==
    (IF o.st = "verified" THEN {"pay"} ELSE {})
    \cup (IF canSendAccountInfo(o.st) /\ ~account THEN {"send-account"} ELSE {})
    \cup (IF (canSendAccountInfo(o.st) /\ account) \/ o.st = "remitted" THEN {"confirm-paid"} ELSE {})
draftView(o) ==
    (IF o.st = "none" /\ ~raw THEN {"publish"} ELSE {})
    \cup (IF o.st = "draft" THEN {"pay"} ELSE {})
canCancel(o) == o.st \in {"requested", "claimed", "verified"}
cancelForfeitsDeposit(o) == o.st \in {"claimed", "verified"}

resubmit(o) ==
    /\ claimError # ""
    /\ \/ o.st \in {"invoiced", "remitted"}
       \/ o.st \in Paying /\ ~o.disbursed /\ claimError # "warning"
sponsorActions(o) ==
    (IF o.st = "claimed" /\ o.deposit = "due" THEN {"pay"} ELSE {})
    \cup (IF o.st = "escrowed" \/ resubmit(o) THEN {"register-invoice"} ELSE {})
    \cup (IF o.st = "invoiced" /\ received THEN {"remit"} ELSE {})

\* lnCardView, and the order book for those who have no part in the order.
offers(p) ==
    LET o == shown[p] IN
    IF p = Customer
    THEN IF o.st \in OrderState THEN customerActions(o) ELSE draftView(o)
    ELSE IF o.sponsor = p THEN sponsorActions(o)
    ELSE IF o.st = "requested" THEN {"claim"} ELSE {}
isMyTurn(p) ==
    LET o == shown[p] IN
    IF p = Customer THEN summarizeProgress(o, account) = "customer"
    ELSE o.sponsor = p /\ summarizeProgress(o, received) = "sponsor"

-----------------------------------------------------------------------------
(* What the parties press.                                                    *)

Request(action, by, arg) == [action |-> action, by |-> by, arg |-> arg]
send(action, by, arg) == requests' = requests \cup {Request(action, by, arg)}

publish ==
    /\ "publish" \in offers(Customer)
    /\ raw' = TRUE /\ send("order-request", Customer, 0)
    /\ UNCHANGED <<daemon, paid, account, shown, sponsor>>

\* A wallet pays the invoice the card shows; an invoice can be paid once.
Pay(p) ==
    LET what == IF p # Customer THEN Hold("deposit", claims)
                ELSE Hold(IF shown[p].st = "draft" THEN "own" ELSE "escrow", 0) IN
    /\ "pay" \in offers(p) /\ what \notin paid
    /\ p # Customer => order.sponsor = p
    /\ paid' = paid \cup {what}
    /\ UNCHANGED <<daemon, requests, customer, shown, sponsor>>

publishClaim(p) ==
    /\ "claim" \in offers(p) /\ claims < MaxClaims
    /\ send("claim", p, claims)
    /\ UNCHANGED <<daemon, paid, customer, shown, sponsor>>

sendAccount ==
    /\ "send-account" \in offers(Customer)
    /\ account' = TRUE /\ send("account-info", Customer, 0)
    /\ UNCHANGED <<daemon, paid, raw, shown, sponsor>>

confirmPaid ==
    /\ "confirm-paid" \in offers(Customer)
    /\ send("payment-confirm", Customer, 0)
    /\ UNCHANGED <<daemon, paid, customer, shown, sponsor>>

\* The request does not say what the dialogue said: arg is kept for the property.
cancel ==
    /\ canCancel(shown[Customer])
    /\ send("cancel-request", Customer, IF cancelForfeitsDeposit(shown[Customer]) THEN 1 ELSE 0)
    /\ UNCHANGED <<daemon, paid, customer, shown, sponsor>>

remit(p) ==
    /\ "remit" \in offers(p)
    /\ send("remit-request", p, 0)
    /\ UNCHANGED <<daemon, paid, customer, shown, sponsor>>

\* SponsorInvoiceForm.handleSubmit, until and after the relays have answered; the
\* last invoice may be submitted again.
handleSubmit(p, worth) ==
    /\ "register-invoice" \in offers(p) /\ sending = 0
    /\ Patient => made = <<>> \/ claimError # ""
    /\ worth = "good" \/ (Mistakes /\ Len(made) + 1 < MaxInvoices)
    /\ made' = IF Len(made) < MaxInvoices THEN Append(made, worth) ELSE made
    /\ sending' = Len(made') /\ send("sponsor-invoice", p, Len(made'))
    /\ UNCHANGED <<daemon, paid, customer, shown, received, heard, claimError, reloads>>
onSubmitted ==
    /\ sending # 0 /\ sending' = 0 /\ claimError' = ""
    /\ UNCHANGED <<daemon, paid, requests, customer, shown, received, heard, made, reloads>>

-----------------------------------------------------------------------------
(* The handlers: when they take a request, and what they do then.             *)

takes(r) ==
    /\ closing = ""
    /\ CASE r.action = "order-request" -> order.st = "none"
         [] r.action = "claim" -> canTransition(order.st, "claimed")
         [] r.action = "cancel-request" -> order.st \in {"requested", "claimed", "verified"}
         [] r.action = "payment-confirm" -> order.st \in {"invoiced", "remitted"}
         [] r.action = "account-info" -> order.st \in {"invoiced", "remitted"} /\ ~committed
         [] r.action = "remit-request" -> order.sponsor = r.by /\ order.st = "invoiced"
         [] r.action = "sponsor-invoice" ->
              /\ order.sponsor = r.by /\ invoice # r.arg
              /\ \/ order.st \in {"escrowed", "invoiced", "remitted"}
                 \/ order.st \in Paying /\ ~order.disbursed /\ payout = "expired"

Notify(kind, n) == notices' = Append(notices, [kind |-> kind, n |-> n])

orderRequest ==
    /\ order' = [order EXCEPT !.st = "draft"]
    /\ UNCHANGED <<closing, invoice, payout, committed, claims, notices>>
claim(p) ==
    /\ order' = [order EXCEPT !.st = "claimed", !.sponsor = p, !.deposit = "due"]
    /\ claims' = claims + 1
    /\ UNCHANGED <<closing, invoice, payout, committed, notices>>
cancelRequest ==
    /\ closing' = IF order.st = "requested" THEN "cancel:customer" ELSE "cancel:customer-after-claim"
    /\ UNCHANGED <<order, invoice, payout, committed, claims, notices>>
paymentConfirm ==
    /\ closing' = "paid"
    /\ UNCHANGED <<order, invoice, payout, committed, claims, notices>>
accountInfo ==
    /\ committed' = TRUE
    /\ UNCHANGED <<order, closing, invoice, payout, claims, notices>>
remitRequest ==
    /\ order' = [order EXCEPT !.st = "remitted"]
    /\ UNCHANGED <<closing, invoice, payout, committed, claims, notices>>
sponsorInvoice(n) ==
    /\ IF made[n] # "good"
       THEN Notify("rejected", n) /\ UNCHANGED <<order, invoice, payout>>
       ELSE /\ invoice' = n /\ payout' = IF order.st \in Paying THEN "due" ELSE payout
            /\ order' = IF order.st = "escrowed" THEN [order EXCEPT !.st = "invoiced"] ELSE order
            /\ UNCHANGED notices
    /\ UNCHANGED <<closing, committed, claims>>

Handle ==
    \E r \in requests :
        /\ requests' = requests \ {r}
        /\ IF ~takes(r) THEN UNCHANGED daemon
           ELSE CASE r.action = "order-request" -> orderRequest
                  [] r.action = "claim" -> claim(r.by)
                  [] r.action = "cancel-request" -> cancelRequest
                  [] r.action = "payment-confirm" -> paymentConfirm
                  [] r.action = "account-info" -> accountInfo
                  [] r.action = "remit-request" -> remitRequest
                  [] r.action = "sponsor-invoice" -> sponsorInvoice(r.arg)
        /\ UNCHANGED <<paid, customer, shown, sponsor>>

-----------------------------------------------------------------------------
(* What the daemon does of itself.                                            *)

elsewhere == <<paid, requests, customer, shown, sponsor>>

customerDepositAccepted ==
    /\ order.st = "draft" /\ Hold("own", 0) \in paid
    /\ order' = [order EXCEPT !.st = "requested"]
    /\ UNCHANGED <<closing, invoice, payout, committed, claims, notices, elsewhere>>
\* The draft's deposit is not paid in time.
draftDropped ==
    /\ Outside /\ order.st = "draft" /\ Hold("own", 0) \notin paid
    /\ order' = [order EXCEPT !.st = "dropped"]
    /\ UNCHANGED <<closing, invoice, payout, committed, claims, notices, elsewhere>>
sponsorDepositAccepted ==
    /\ order.st = "claimed" /\ order.deposit = "due" /\ closing = "" /\ Hold("deposit", claims) \in paid
    /\ order' = [order EXCEPT !.deposit = "held"]
    /\ UNCHANGED <<closing, invoice, payout, committed, claims, notices, elsewhere>>
\* The sponsor does not pay his deposit in time, and another may claim.
revertClaim ==
    /\ order.st = "claimed" /\ order.deposit = "due" /\ closing = ""
    /\ Hold("deposit", claims) \notin paid /\ claims < MaxClaims
    /\ order' = [order EXCEPT !.st = "requested", !.sponsor = NoOne, !.deposit = "none"]
    /\ UNCHANGED <<closing, invoice, payout, committed, claims, notices, elsewhere>>
\* The claim is approved and the escrow's invoice is there.
approve ==
    /\ order.st = "claimed" /\ order.deposit = "held" /\ closing = ""
    /\ order' = [order EXCEPT !.st = "verified"]
    /\ UNCHANGED <<closing, invoice, payout, committed, claims, notices, elsewhere>>
escrowAccepted ==
    /\ order.st = "verified" /\ Hold("escrow", 0) \in paid /\ closing = ""
    /\ order' = [order EXCEPT !.st = "escrowed"]
    /\ UNCHANGED <<closing, invoice, payout, committed, claims, notices, elsewhere>>

\* Time is up, or the operator decides.
Close ==
    /\ Outside /\ closing = "" /\ order.st \in OrderState \ Terminal
    /\ closing' \in
         ({expiryReasonFor(order.st, order.sponsor # NoOne, committed)} \ {"none"})
         \cup (IF order.st \in {"escrowed", "invoiced"} THEN {"admin_closed"} ELSE {})
         \cup (IF order.st = "remitted" THEN {"sponsor_wins", "customer_wins"} ELSE {})
    /\ UNCHANGED <<order, invoice, payout, committed, claims, notices, elsewhere>>
finishClose ==
    /\ closing # ""
    /\ order' = [order EXCEPT !.st = CLOSE_RULES[closing].terminal]
    /\ payout' = IF order'.st \in Paying THEN "due" ELSE payout
    /\ closing' = ""
    /\ UNCHANGED <<invoice, committed, claims, notices, elsewhere>>

\* The payout executor: the invoice is paid, or it has expired.
Payout ==
    /\ payout = "due"
    /\ IF made[invoice] = "good"
       THEN /\ payout' = "done" /\ order' = [order EXCEPT !.disbursed = TRUE] /\ UNCHANGED notices
       ELSE /\ payout' = "expired" /\ Notify("expired", invoice) /\ UNCHANGED order
    /\ UNCHANGED <<closing, invoice, committed, claims, elsewhere>>
\* The probe finds no way to the registered invoice.
Probe ==
    /\ invoice # 0 /\ order.st \in {"invoiced", "remitted"}
    /\ \A i \in DOMAIN notices : notices[i].n # invoice
    /\ Notify("warning", invoice)
    /\ UNCHANGED <<order, closing, invoice, payout, committed, claims, elsewhere>>

InvoiceExpires ==
    /\ \E n \in DOMAIN made :
        n < MaxInvoices /\ made[n] = "good" /\ made' = [made EXCEPT ![n] = "expired"]
    /\ UNCHANGED <<daemon, paid, requests, customer, shown, received, heard, claimError, sending, reloads>>

-----------------------------------------------------------------------------
(* What the apps hear.                                                        *)

Hear(p) ==
    /\ shown[p] # order /\ order.st # "none"
    /\ shown' = [shown EXCEPT ![p] = order]
    /\ UNCHANGED <<daemon, paid, requests, customer, sponsor>>
handleAccountInfo ==
    /\ account /\ ~received /\ received' = TRUE
    /\ UNCHANGED <<daemon, paid, requests, customer, shown, heard, claimError, made, sending, reloads>>
setClaimError ==
    /\ \E i \in DOMAIN notices \ heard :
        /\ InOrder => 1..(i - 1) \subseteq heard
        /\ Patient => sending = 0
        /\ heard' = heard \cup {i} /\ claimError' = notices[i].kind
    /\ UNCHANGED <<daemon, paid, requests, customer, shown, received, made, sending, reloads>>

\* The sponsor's app is opened anew: his session's stores are empty, the relays
\* still have the account and the notices.
Reload ==
    /\ reloads < MaxReloads /\ reloads' = reloads + 1
    /\ received' = FALSE /\ heard' = {} /\ claimError' = "" /\ sending' = 0
    /\ UNCHANGED <<daemon, paid, requests, customer, shown, made>>

CustomerPresses == publish \/ Pay(Customer) \/ sendAccount \/ confirmPaid
SponsorPresses(p) == Pay(p) \/ publishClaim(p) \/ remit(p) \/ handleSubmit(p, "good")
DaemonMoves ==
    Handle \/ customerDepositAccepted \/ sponsorDepositAccepted \/ approve \/ escrowAccepted
    \/ finishClose \/ Payout

Next ==
    \/ CustomerPresses \/ cancel \/ DaemonMoves
    \/ draftDropped \/ revertClaim \/ Close \/ Probe \/ InvoiceExpires
    \/ onSubmitted \/ handleAccountInfo \/ setClaimError \/ Reload
    \/ \E p \in Sponsors : SponsorPresses(p) \/ handleSubmit(p, "bad")
    \/ \E p \in Parties : Hear(p)

Spec == Init /\ [][Next]_vars

\* The parties press what they are offered, and everything sent arrives.
LiveSpec ==
    /\ Spec
    /\ WF_vars(publish) /\ WF_vars(Pay(Customer)) /\ WF_vars(sendAccount) /\ SF_vars(confirmPaid)
    /\ \A p \in Sponsors : WF_vars(publishClaim(p)) /\ WF_vars(Pay(p)) /\ WF_vars(handleSubmit(p, "good"))
    /\ WF_vars(Handle) /\ WF_vars(customerDepositAccepted) /\ WF_vars(sponsorDepositAccepted)
    /\ WF_vars(approve) /\ WF_vars(escrowAccepted) /\ WF_vars(finishClose) /\ WF_vars(Payout)
    /\ WF_vars(onSubmitted) /\ WF_vars(handleAccountInfo) /\ WF_vars(setClaimError)
    /\ \A p \in Parties : WF_vars(Hear(p))

-----------------------------------------------------------------------------

TypeOK ==
    /\ order.st \in OrderState \cup {"none", "draft", "dropped"}
    /\ (order.sponsor = NoOne) = (order.deposit = "none")
    /\ closing \in LnCloseReason \cup {""} /\ claims \in 0..MaxClaims
    /\ invoice \in 0..Len(made) /\ payout \in {"none", "due", "expired", "done"}
    /\ claimError \in {"", "rejected", "warning", "expired"} /\ heard \subseteq DOMAIN notices
    /\ {account, received, committed, raw} \subseteq BOOLEAN

\* Everything sent was handled, everything published heard.
Settled ==
    /\ requests = {} /\ closing = "" /\ sending = 0 /\ heard = DOMAIN notices
    /\ \A p \in Parties : shown[p] = order
    /\ received = account

\* What a card offers when nothing is under way, the daemon takes, up to the payout:
\* no button is pressed for nothing (card-view.ts against handlers.ts).
RequestOf(p, a) ==
    CASE a = "publish" -> Request("order-request", p, 0)
      [] a = "send-account" -> Request("account-info", p, 0)
      [] a = "confirm-paid" -> Request("payment-confirm", p, 0)
      [] a = "register-invoice" -> Request("sponsor-invoice", p, Len(made) + 1)
      [] a = "remit" -> Request("remit-request", p, 0)
      [] a = "claim" -> Request("claim", p, 0)
OfferIsAccepted ==
    Settled /\ order.st \notin Paying =>
        \A p \in Parties : \A a \in offers(p) \ {"pay"} : takes(RequestOf(p, a))

\* card-view.ts: the form does not open while the payout cannot change its invoice.
FormIsTaken ==
    Settled /\ order.st \in Paying =>
        \A p \in Parties : \A a \in offers(p) : takes(RequestOf(p, a))

\* Whoever's card says it is his turn has something to press, and a party that
\* waits for the other is not waited for in turn.
TurnIsReal ==
    Settled => \A p \in Parties :
        /\ isMyTurn(p) => offers(p) # {}
        /\ order.sponsor # NoOne => ~(isMyTurn(Customer) /\ isMyTurn(order.sponsor))

\* A trade never comes to rest with nobody able to move: a party, the daemon or,
\* for a new claim, anybody.
SomebodyCanMove ==
    Settled /\ order.st \notin Ended =>
        \/ \E p \in Parties : offers(p) # {}
        \/ order.st = "claimed" /\ order.deposit = "held"

\* I-009: the account is nowhere on the relays before the daemon has taken the
\* payout invoice (canSendAccountInfo).
AccountAfterInvoice == account => invoice # 0

\* A payout that stopped because the invoice expired has its form open (messages.ts,
\* sendInvoiceRejected).
ReregistrationIsOpen ==
    Settled /\ order.st \in Paying /\ payout = "expired" =>
        "register-invoice" \in offers(order.sponsor)

\* claim-error-store.ts: why an invoice was not taken is on the screen, whatever it costs.
RejectionIsShown ==
    Settled /\ order.st = "escrowed" /\ made # <<>> => claimError # ""

\* card-view.ts: whoever forfeits his deposit by cancelling was told so before.
NoUnwarnedForfeit ==
    [][closing = "" /\ closing' = "cancel:customer-after-claim" =>
        \E r \in requests \ requests' : r.action = "cancel-request" /\ r.arg = 1]_vars

\* Two parties that press what their cards offer, and nothing else, get to the end,
\* a payout included, though invoices expire and are made anew.
AtTheEnd == order.st \in Ended /\ (order.st \in Paying => order.disbursed)
CardsLeadToTheEnd == <>AtTheEnd
=============================================================================
