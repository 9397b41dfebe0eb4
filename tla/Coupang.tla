------------------------------ MODULE Coupang ------------------------------
(* One order at Coupang and the seller's own two programs: the userscript that reads the  *)
(* shop's page (customer/userscript), which knows no order of ours and speaks only to its *)
(* own key, and the web app (customer/src/buyer), which puts the shop's virtual account   *)
(* on a sale, hands it to the buyer by itself and passes on what the shop says.  They     *)
(* meet on the relays; every publication can be slow, and may fail in the sender's eyes   *)
(* although it has arrived.  The daemon's order and the buyer are external.               *)
EXTENDS Integers, FiniteSets

CONSTANTS
    MaxOrders,  \* how many sales the seller ever writes
    Fails,      \* what may fail to be published: "page", "order", "account", "status"
    Hasty,      \* the seller presses another button, or reloads, in the middle of a step, or puts an
                \* order up that the shop has ended
    Typing,     \* he may type an account by hand
    OldKey,     \* the script may still have the key the app had before
    Cancels,    \* the shop's order may be cancelled
    SelfPays,   \* he may pay the shop himself
    Lapses      \* the virtual account may die

CoupangAssumption ==
    /\ MaxOrders \in Nat /\ Fails \subseteq {"page", "order", "account", "status"}
    /\ {Hasty, Typing, OldKey, Cancels, SelfPays, Lapses} \subseteq BOOLEAN

Ids == 1..MaxOrders
None == 0
Reports == {"parsed", "paid", "cancelled"}
Accounts == {"shop", "typed"}
Terminal == {"paid", "closed"}
States == {"none", "requested", "claimed", "escrowed", "invoiced", "remitted"} \cup Terminal
Whats == {"order", "account", "payment-confirm", "cancel-request"}
Publications == [what : Whats, id : Ids, account : Accounts \cup {"none"}, there : BOOLEAN]

VARIABLES
    shop,        \* what the shop's page says of its order: "unpaid", "paid" or "cancelled"
    dead,        \* the virtual account is past its time
    payer,       \* the sale whose buyer paid the shop; None: nobody, or the seller himself
    key, code,   \* the stored key and the one in the installed text: "mine", "old", "blank"
    processed,   \* sajwo:processed-orders
    page,        \* what the open page is publishing, and with which key
    relay,       \* the script's events that the app's subscription finds
    card,        \* customer:parsed-orders
    orders,      \* customer:orders
    line,        \* which of two was added before the other
    requesting, attaching,  \* the sale the card waits for; None: its buttons are free
    sending,     \* the app's publications under way
    heard,       \* what this session's subscriptions have brought
    seen,        \* the state of each order they brought last
    dated,       \* sales whose deadline is the virtual account's
    st,          \* the daemon's orders
    sent,        \* the accounts on the relays, for each order
    sends,       \* how many times the app set out to send one; 2: more than once
    reached      \* the orders that have been invoiced
atShop == <<shop, dead, payer>>
script == <<key, code, processed, page>>
session == <<requesting, attaching, sending, heard, seen>>
app == <<card, orders, line, session, dated>>
outside == <<st, sent, sends, reached>>
vars == <<atShop, script, relay, app, outside>>

NoPage == [doing |-> "none", key |-> "blank"]

Init ==
    /\ shop = "unpaid" /\ dead = FALSE /\ payer = None
    /\ \/ key = "mine" /\ code = "mine" /\ processed = "none"
       \/ OldKey /\ key = "old" /\ code = "blank" /\ processed \in {"none", "parsed"}
    /\ page = NoPage /\ relay = {}
    /\ card = FALSE /\ orders = [i \in {} |-> {}] /\ line = {}
    /\ requesting = None /\ attaching = None
    /\ sending = {} /\ heard = {} /\ seen = [i \in Ids |-> "none"] /\ dated = {}
    /\ st = [i \in Ids |-> "none"] /\ sent = [i \in Ids |-> {}] /\ sends = [i \in Ids |-> 0]
    /\ reached = {}

-----------------------------------------------------------------------------
(* The userscript: one page, from opening it to the relays' answer.                       *)

\* The code in the installed text wins over the key that is stored; what was done with another
\* key is forgotten. Mutant: nothing is forgotten.
pickNsec == IF code # "blank" THEN code ELSE key
ensureNsec_kept == processed
ensureNsec == IF code # "blank" /\ key # "blank" /\ key # code THEN "none" ELSE processed

isPaid == shop = "paid"
isCancelled == shop = "cancelled"
isTargetOrder == shop = "unpaid"

report(status) ==
    CASE status = "none" /\ isTargetOrder -> "parsed"
      [] status \notin {"none", "cancelled"} /\ isCancelled -> "cancelled"
      [] status \notin {"none", "paid"} /\ isPaid -> "paid"
      [] OTHER -> "none"

\* main(), up to the publication.
Visit ==
    /\ page = NoPage /\ pickNsec # "blank"
    /\ key' = pickNsec /\ processed' = ensureNsec
    /\ page' = IF report(ensureNsec) = "none" THEN NoPage ELSE [doing |-> report(ensureNsec), key |-> pickNsec]
    /\ UNCHANGED <<atShop, code, relay, app, outside>>

\* buildParsedOrderEvent, buildCoupangStatusEvent: both expire with the virtual account, and a relay
\* takes no event that has expired.  publishToRelays, markProcessed.
onRelay == IF page.key = "mine" THEN relay \cup {page.doing} ELSE relay
Published ==
    /\ page # NoPage /\ ~dead
    /\ relay' = onRelay /\ processed' = page.doing /\ page' = NoPage
    /\ UNCHANGED <<atShop, key, code, app, outside>>

\* Refused, or no answer came: what the relays have of it, the history does not say.
Refused ==
    /\ page # NoPage /\ (dead \/ "page" \in Fails)
    /\ relay' \in (IF dead THEN {relay} ELSE {relay, onRelay})
    /\ page' = NoPage
    /\ UNCHANGED <<atShop, key, code, processed, app, outside>>

\* UserscriptGuide: the text with the app's key in it is copied and pasted.
Paste ==
    /\ code # "mine" /\ code' = "mine"
    /\ UNCHANGED <<atShop, key, processed, page, relay, app, outside>>

-----------------------------------------------------------------------------
(* The app's publications.                                                                *)

Pub(what, i, a) == [what |-> what, id |-> i, account |-> a, there |-> FALSE]
Sent(what, i) == \E s \in sending : s.what = what /\ s.id = i
fixedSale(i) == i \in DOMAIN orders /\ orders[i].fixed

\* The event is on the relays, and the daemon has judged it.
judged(o, what) ==
    CASE what = "order" /\ o = "none" -> "requested"
      [] what = "payment-confirm" /\ o \in {"invoiced", "remitted"} -> "paid"
      [] what = "cancel-request" /\ o \in {"requested", "claimed"} -> "closed"
      [] OTHER -> o

Arrive(s) ==
    /\ s \in sending /\ ~s.there
    /\ sending' = (sending \ {s}) \cup {[s EXCEPT !.there = TRUE]}
    /\ st' = [st EXCEPT ![s.id] = judged(@, s.what)]
    /\ sent' = [sent EXCEPT ![s.id] = @ \cup ({s.account} \cap Accounts)]
    /\ UNCHANGED <<atShop, script, relay, card, orders, line, requesting, attaching, heard, seen, dated,
                   sends, reached>>

\* What follows on the answer in handleRequest, handleAttach, autoSendAccountInfo, LnOrderCard.
after(s, ok) ==
    CASE ok /\ s.what = "order" /\ s.id \in DOMAIN orders -> [orders EXCEPT ![s.id].raw = TRUE]
      [] ok /\ s.what = "account" /\ s.id \in DOMAIN orders -> [orders EXCEPT ![s.id].account = s.account]
      [] OTHER -> orders
Told(s, ok) ==
    /\ s \in sending
    /\ IF ok THEN s.there ELSE (CASE s.what \in {"order", "account"} -> s.what [] OTHER -> "status") \in Fails
    /\ sending' = sending \ {s}
    /\ orders' = after(s, ok)
    /\ requesting' = IF s.what = "order" /\ requesting = s.id THEN None ELSE requesting
    /\ attaching' = IF s.what = "account" /\ attaching = s.id THEN None ELSE attaching
    /\ card' = (card /\ attaching = attaching' /\ ~(ok /\ requesting # requesting'))
    /\ UNCHANGED <<atShop, script, relay, line, heard, seen, dated, outside>>

-----------------------------------------------------------------------------
(* What the seller does.                                                                  *)

free == Ids \ (DOMAIN orders \cup {i \in Ids : st[i] # "none"} \cup {s.id : s \in sending})
newOrderId == CHOOSE i \in free : \A j \in free : i <= j
add(i, sale) == [j \in DOMAIN orders \cup {i} |-> IF j = i THEN sale ELSE orders[j]]
Draft(fixed) == [fixed |-> fixed, account |-> "none", raw |-> FALSE, st |-> "none"]
addOrder(i, sale) == orders' = add(i, sale) /\ line' = line \cup ((DOMAIN orders) \X {i})

\* OrderForm: a sale of the same amount, for as long as a week.
Post ==
    /\ free # {}
    /\ addOrder(newOrderId, Draft(FALSE))
    /\ UNCHANGED <<atShop, script, relay, card, session, dated, outside>>

\* LnOrderCard: publish.
PublishDraft(i) ==
    /\ i \in DOMAIN orders /\ ~orders[i].raw /\ orders[i].st = "none" /\ ~Sent("order", i)
    /\ i \in dated => ~dead
    /\ sending' = sending \cup {Pub("order", i, "none")}
    /\ UNCHANGED <<atShop, script, relay, card, orders, line, requesting, attaching, heard, seen, dated, outside>>

\* handleRequest: written first, then published. Attaching does not disable the button.
ListParsed ==
    /\ card /\ requesting = None /\ ~dead /\ free # {}
    /\ ~Hasty => attaching = None /\ shop = "unpaid"
    /\ LET i == newOrderId IN
         /\ addOrder(i, Draft(TRUE)) /\ dated' = dated \cup {i} /\ requesting' = i
         /\ sending' = sending \cup {Pub("order", i, "none")}
    /\ UNCHANGED <<atShop, script, relay, card, attaching, heard, seen, outside>>

canSendAccountInfo(o) == o \in {"invoiced", "remitted"}
canAttachParsedOrder(o, already) == ~already /\ o \in {"requested", "claimed", "escrowed", "invoiced"}

again(n) == IF n = 0 THEN 1 ELSE 2

\* autoSending. Mutant: no note is kept of what is under way.
autoSendable_twice(i, sale) == sale.fixed /\ sale.account = "none" /\ canSendAccountInfo(sale.st)
autoSendable(i, sale) ==
    sale.fixed /\ sale.account = "none" /\ canSendAccountInfo(sale.st)
    /\ ~\E s \in sending : s.id = i /\ s.account = "shop"
autoSendAccountInfo(i, sale) ==
    IF autoSendable(i, sale)
    THEN sending' = sending \cup {Pub("account", i, "shop")} /\ sends' = [sends EXCEPT ![i] = again(@)]
    ELSE UNCHANGED <<sending, sends>>

\* handleAttach; the card goes when the account has gone, or at once.
Attach(i) ==
    LET sale == [orders[i] EXCEPT !.fixed = TRUE] IN
    /\ card /\ requesting = None /\ attaching = None /\ ~dead /\ (~Hasty => shop = "unpaid")
    /\ i \in DOMAIN orders /\ ~orders[i].fixed
    /\ canAttachParsedOrder(orders[i].st, orders[i].account # "none")
    /\ orders' = add(i, sale)
    /\ autoSendAccountInfo(i, sale)
    /\ attaching' = IF autoSendable(i, sale) THEN i ELSE None
    /\ card' = autoSendable(i, sale)
    /\ UNCHANGED <<atShop, script, relay, line, requesting, heard, seen, dated, st, sent, reached>>

Dismiss ==
    /\ card /\ requesting = None /\ card' = FALSE
    /\ UNCHANGED <<atShop, script, relay, orders, line, session, dated, outside>>

\* LnOrderCard: sendAccount, from the button to the form (AccountInfoModal); the form may be closed
\* while it sends.
TypeAccount(i) ==
    /\ Typing /\ i \in DOMAIN orders /\ ~orders[i].fixed /\ orders[i].account = "none"
    /\ canSendAccountInfo(orders[i].st) /\ ~Sent("account", i)
    /\ sending' = sending \cup {Pub("account", i, "typed")} /\ sends' = [sends EXCEPT ![i] = again(@)]
    /\ UNCHANGED <<atShop, script, relay, card, orders, line, requesting, attaching, heard, seen, dated,
                   st, sent, reached>>

\* deleteOrder, clearDeletableOrders: drafts and what has ended.
Delete(i) ==
    /\ i \in DOMAIN orders /\ orders[i].st \in {"none"} \cup Terminal
    /\ ~Hasty => \A s \in sending : s.id # i
    /\ orders' = [j \in DOMAIN orders \ {i} |-> orders[j]]
    /\ line' = {w \in line : i \notin {w[1], w[2]}}
    /\ UNCHANGED <<atShop, script, relay, card, session, dated, outside>>

Reload ==
    /\ ~Hasty => sending = {}
    /\ sending' = {} /\ heard' = {} /\ seen' = [i \in Ids |-> "none"]
    /\ requesting' = None /\ attaching' = None
    /\ UNCHANGED <<atShop, script, relay, card, orders, line, dated, outside>>

-----------------------------------------------------------------------------
(* What the subscriptions bring; all of it again with every session.                      *)

\* handleAdminOrder.
HearOrder(i) ==
    /\ st[i] # "none" /\ seen[i] # st[i]
    /\ seen' = [seen EXCEPT ![i] = st[i]]
    /\ IF i \in DOMAIN orders
       THEN LET sale == [orders[i] EXCEPT !.st = st[i]] IN
            /\ orders' = add(i, sale)
            /\ IF st[i] = "invoiced" THEN autoSendAccountInfo(i, sale) ELSE UNCHANGED <<sending, sends>>
       ELSE UNCHANGED <<orders, sending, sends>>
    /\ UNCHANGED <<atShop, script, relay, card, line, requesting, attaching, heard, dated, st, sent, reached>>

\* restoreOrderRequest: my own request brings a sale back that I have no record of (the others change
\* nothing when they come).
HearOwnOrder(i) ==
    /\ st[i] # "none" /\ <<"order", i>> \notin heard
    /\ heard' = heard \cup {<<"order", i>>}
    /\ i \notin DOMAIN orders /\ addOrder(i, [Draft(FALSE) EXCEPT !.raw = TRUE, !.st = seen[i]])
    /\ UNCHANGED <<atShop, script, relay, card, requesting, attaching, sending, seen, dated, outside>>

\* restoreSentAccount, accountBeforeOrder.
HearOwnAccount(i, a) ==
    /\ a \in sent[i] /\ <<a, i>> \notin heard /\ i \in DOMAIN orders /\ orders[i].account = "none"
    /\ heard' = heard \cup {<<a, i>>}
    /\ orders' = [orders EXCEPT ![i].account = a]
    /\ UNCHANGED <<atShop, script, relay, card, line, requesting, attaching, sending, seen, dated, outside>>

\* addParsedOrder.
alreadyRequested == \E i \in DOMAIN orders : orders[i].fixed
HearParsed ==
    /\ "parsed" \in relay /\ <<"parsed", None>> \notin heard
    /\ heard' = heard \cup {<<"parsed", None>>}
    /\ card' = (card \/ ~alreadyRequested)
    /\ UNCHANGED <<atShop, script, relay, orders, line, requesting, attaching, sending, seen, dated, outside>>

\* relayCoupangStatus: the first sale that has the shop's order.
mine == {i \in DOMAIN orders : orders[i].fixed}
found == CHOOSE i \in mine : \A j \in mine : <<j, i>> \notin line
request == [paid |-> "payment-confirm", cancelled |-> "cancel-request"]
\* Mutant: only once the buyer says that he has paid.
relayCoupangStatus_remitted(status) ==
    IF mine # {} /\ orders[found].st = "remitted" THEN {Pub(request[status], found, "none")} ELSE {}
relayCoupangStatus(status) ==
    IF mine # {} /\ orders[found].st # "none" THEN {Pub(request[status], found, "none")} ELSE {}
HearStatus(status) ==
    /\ status \in relay /\ <<status, None>> \notin heard
    /\ heard' = heard \cup {<<status, None>>}
    /\ sending' = sending \cup relayCoupangStatus(status)
    /\ UNCHANGED <<atShop, script, relay, card, orders, line, requesting, attaching, seen, dated, outside>>

-----------------------------------------------------------------------------
(* The shop, the daemon's order and its buyer, and time.                                  *)

Buyer(i) ==
    /\ \/ /\ st[i] \in {"requested", "claimed", "escrowed"} /\ (i \in dated => ~dead)
          /\ st' = [st EXCEPT ![i] = CASE @ = "requested" -> "claimed" [] @ = "claimed" -> "escrowed"
                                       [] OTHER -> "invoiced"]
       \/ st[i] = "invoiced" /\ (payer = i \/ "typed" \in sent[i]) /\ st' = [st EXCEPT ![i] = "remitted"]
    /\ reached' = reached \cup IF st'[i] = "invoiced" THEN {i} ELSE {}
    /\ UNCHANGED <<atShop, script, relay, app, sent, sends>>

\* A deadline of the daemon's passes.
Ends(i) ==
    /\ st[i] \notin {"none", "remitted"} \cup Terminal /\ payer # i
    /\ st' = [st EXCEPT ![i] = "closed"]
    /\ UNCHANGED <<atShop, script, relay, app, sent, sends, reached>>

Pay(i) ==
    /\ shop = "unpaid" /\ ~dead
    /\ IF i = None THEN SelfPays ELSE st[i] = "invoiced" /\ "shop" \in sent[i]
    /\ shop' = "paid" /\ payer' = i
    /\ UNCHANGED <<dead, script, relay, app, outside>>

CancelAtShop ==
    /\ Cancels /\ shop = "unpaid" /\ shop' = "cancelled"
    /\ UNCHANGED <<dead, payer, script, relay, app, outside>>

\* The account's time is over, and so is that of the script's events.
Lapse ==
    /\ Lapses /\ ~dead /\ dead' = TRUE /\ relay' = {}
    /\ UNCHANGED <<shop, payer, script, app, outside>>

Next ==
    \/ Visit \/ Published \/ Refused \/ Paste
    \/ \E s \in sending : Arrive(s) \/ \E ok \in BOOLEAN : Told(s, ok)
    \/ Post \/ ListParsed \/ Dismiss \/ Reload
    \/ \E i \in Ids : PublishDraft(i) \/ Attach(i) \/ TypeAccount(i) \/ Delete(i)
    \/ HearParsed \/ \E status \in {"paid", "cancelled"} : HearStatus(status)
    \/ \E i \in Ids : HearOrder(i) \/ HearOwnOrder(i) \/ \E a \in Accounts : HearOwnAccount(i, a)
    \/ \E i \in Ids : Buyer(i) \/ Ends(i)
    \/ \E i \in Ids \cup {None} : Pay(i)
    \/ CancelAtShop \/ Lapse

Spec == Init /\ [][Next]_vars

\* The seller opens the shop's page and the app again and again, and has the text with his key in it;
\* what is tried again and again succeeds; the browser, the relays and the daemon do their work.
Works(what, i) ==
    /\ SF_vars(\E s \in sending : s.what = what /\ s.id = i /\ Arrive(s))
    /\ SF_vars(\E s \in sending : s.what = what /\ s.id = i /\ Told(s, TRUE))
FairSpec ==
    /\ Spec
    /\ WF_vars(Visit) /\ SF_vars(Published) /\ WF_vars(Paste) /\ SF_vars(Reload)
    /\ WF_vars(HearParsed) /\ \A status \in {"paid", "cancelled"} : WF_vars(HearStatus(status))
    /\ WF_vars(\E s \in sending : Arrive(s)) /\ WF_vars(\E s \in sending : Told(s, TRUE))
    /\ \A i \in Ids : WF_vars(HearOrder(i)) /\ Works("account", i) /\ Works("payment-confirm", i)

-----------------------------------------------------------------------------
(* What is checked.                                                                       *)

Sale == [fixed : BOOLEAN, account : Accounts \cup {"none"}, raw : BOOLEAN, st : States]

\* The variables hold what the programs store; of two sales one was added first.
TypeOK ==
    /\ shop \in {"unpaid", "paid", "cancelled"} /\ dead \in BOOLEAN /\ payer \in Ids \cup {None}
    /\ key \in {"mine", "old"} /\ code \in {"mine", "blank"} /\ processed \in Reports \cup {"none"}
    /\ page \in [doing : Reports \cup {"none"}, key : {"mine", "old", "blank"}] /\ relay \subseteq Reports
    /\ card \in BOOLEAN /\ DOMAIN orders \subseteq Ids /\ \A i \in DOMAIN orders : orders[i] \in Sale
    /\ line \subseteq (DOMAIN orders) \X (DOMAIN orders)
    /\ \A i, j \in DOMAIN orders : i # j => (<<i, j>> \in line) # (<<j, i>> \in line)
    /\ requesting \in Ids \cup {None} /\ attaching \in Ids \cup {None}
    /\ sending \subseteq Publications /\ dated \subseteq Ids
    /\ heard \subseteq (Reports \cup {"order"} \cup Accounts) \X (Ids \cup {None}) /\ seen \in [Ids -> States]
    /\ st \in [Ids -> States] /\ sent \in [Ids -> SUBSET Accounts] /\ sends \in [Ids -> 0..2]
    /\ reached \subseteq Ids

\* I-009 (order-progress.ts, handleAdminOrder): no account is on the relays before the order's buyer has
\* registered his invoice, whichever of the roads (by itself, attaching, by hand) it takes.
AccountAfterInvoice == \A i \in Ids : sent[i] # {} => i \in reached

\* autoSending: an update that comes while the account is on its way, or an attachment, does not send it
\* a second time.
AccountGoesOnce == \A i \in Ids : sends[i] <= 1

\* parsed-store.ts: a Coupang order that is up for sale does not come back as a card and go up twice.
OneListing == Cardinality({i \in DOMAIN orders : orders[i].fixed /\ st[i] \notin {"none"} \cup Terminal}) <= 1

\* canAttachParsedOrder: the buyer of a sale is never given two accounts.
OneAccount == \A i \in Ids : Cardinality(sent[i]) <= 1

\* relayCoupangStatus, the confirmation's text in LnOrderCard: no trade is closed as paid that its own
\* buyer has not paid.
ConfirmIsTrue == \A i \in Ids : st[i] = "paid" => payer = i

\* relayCoupangStatus: the app cancels by itself, without the question that the button asks, only what
\* costs the seller no deposit.
AutoCancelIsFree == [][\A s \in sending' \ sending : s.what = "cancel-request" => orders[s.id].st # "claimed"]_vars

\* handleAttach: a buyer is not sent to a virtual account that has died.
AttachedIsAlive == [][(\E i \in Ids \ dated : sends'[i] > sends[i] /\ Pub("account", i, "shop") \in sending') => ~dead]_vars

\* relayCoupangStatus: when a status is heard and the daemon knows a sale with that Coupang order, its
\* request is published.
StatusFindsItsOrder ==
    \A status \in {"paid", "cancelled"} :
      (<<status, None>> \in heard' \ heard /\ \E i \in DOMAIN orders : orders[i].fixed /\ orders[i].st # "none")
      => \E s \in sending' : s.what = request[status] /\ orders[s.id].st # "none"

\* nostr.ts, main.ts: once the buyer has paid the shop, the seller's visits to the shop's page and to the
\* app close the trade, without his pressing a button.
Over(i) == st[i] \in Terminal
PaidIsConfirmed == \A i \in Ids : (payer = i) ~> Over(i)

\* pickNsec, ensureNsec: with the text that has the app's key pasted, an order waiting to be paid is
\* shown in the app, whatever the script did with the key it had before.
Detected == code = "mine" /\ shop = "unpaid"
CardThere == card \/ alreadyRequested \/ shop # "unpaid" \/ dead
DetectedIsShown == Detected ~> CardThere

\* handleAdminOrder: the account of a sale that has one goes out, a failed attempt notwithstanding.
Awaited(i) == fixedSale(i) /\ st[i] = "invoiced"
AccountGoesOut == \A i \in Ids : Awaited(i) ~> (sent[i] # {} \/ ~Awaited(i))
=============================================================================
