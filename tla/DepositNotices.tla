--------------------------- MODULE DepositNotices ---------------------------
(* The notices of deposits (daemon/src/ln/flow.ts, messages.ts) and what the  *)
(* apps make of them: the sponsor's store, which goes by the time of a notice *)
(* (customer/src/sponsor/deposit-store.ts), and the customer's own record,    *)
(* which does not (buyer/order-store.ts). Relays hand notices over in any     *)
(* order, and all of them again after a reload.                               *)
EXTENDS Integers, FiniteSets

CONSTANTS
    MaxClaims,  \* bound: claims of one sponsor on one order, each with an invoice
    MaxTime,    \* bound: the clock
    MaxReloads, \* bound
    Orderly     \* notices are dated in different seconds, and an invoice is made
                \* once the earlier ones are disposed of

DepositNoticesAssumption ==
    {MaxClaims, MaxReloads} \subseteq Nat /\ MaxTime \in Nat \ {0} /\ Orderly \in BOOLEAN

VARIABLES
    now,
    claim,     \* the claim in force, 0 for none
    claims,    \* claims made so far
    row,       \* the hold invoice of each claim
    paid,      \* invoices the sponsor has paid at the node
    disposing, \* invoices with a hold.dispose in the queue
    notices,   \* for the sponsor, on the relays
    heard,     \* since the app was opened
    view,      \* SponsorDeposit
    own,       \* the customer's deposit: what the daemon has done with it
    ownHeard,  \* notices of it heard since the app was opened
    ownStatus, \* CustomerOrder.depositStatus
    reloads

daemon == <<claim, claims, row, paid, disposing, notices>>
customer == <<own, ownHeard, ownStatus>>
vars == <<now, daemon, heard, view, customer, reloads>>

Claims == 1..MaxClaims
Live == {"planned", "open", "accepted"}
Ended == {"cancelled", "settled"}
NoDeposit == [bolt11 |-> 0, at |-> 0, status |-> "", statusAt |-> 0]

Init ==
    /\ now = 1 /\ claim = 0 /\ claims = 0
    /\ row = [n \in Claims |-> "none"] /\ paid = {} /\ disposing = {}
    /\ notices = {} /\ heard = {} /\ view = NoDeposit
    /\ own = {} /\ ownHeard = {} /\ ownStatus = "" /\ reloads = 0

Notice(n, kind) == [n |-> n, kind |-> kind, at |-> now]
send(n, kind) ==
    /\ Orderly => \A e \in notices : e.at < now
    /\ notices' = notices \cup {Notice(n, kind)}
sendDepositRequired(n) == send(n, "required")
sendDepositStatus(n, status) == send(n, status)

planSponsorDeposit ==
    /\ claim = 0 /\ claims < MaxClaims
    /\ claim' = claims + 1 /\ claims' = claims + 1
    /\ row' = [row EXCEPT ![claims + 1] = "planned"]
    /\ UNCHANGED <<now, paid, disposing, notices, heard, view, customer, reloads>>

\* hold.create, once the node answers.
created(n) ==
    /\ row[n] = "planned" /\ n \notin disposing
    /\ Orderly => disposing = {}
    /\ row' = [row EXCEPT ![n] = "open"]
    /\ sendDepositRequired(n)
    /\ UNCHANGED <<now, claim, claims, paid, disposing, heard, view, customer, reloads>>

\* What the card offers to pay (lnCardView).
Offered == IF view.status = "" THEN view.bolt11 ELSE 0
Pay ==
    /\ Offered # 0 /\ row[Offered] = "open"
    /\ paid' = paid \cup {Offered}
    /\ UNCHANGED <<now, claim, claims, row, disposing, notices, heard, view, customer, reloads>>

\* The poll sees the payment; a claim that is over gives it back.
accepted(n) ==
    /\ row[n] = "open" /\ n \in paid /\ n \notin disposing
    /\ row' = [row EXCEPT ![n] = "accepted"]
    /\ IF claim = n THEN sendDepositStatus(n, "accepted") /\ UNCHANGED disposing
                    ELSE disposing' = disposing \cup {n} /\ UNCHANGED notices
    /\ UNCHANGED <<now, claim, claims, paid, heard, view, customer, reloads>>

\* The node cancels an invoice nobody has paid in time, and the claim is undone.
nodeCancelled(n) ==
    /\ row[n] = "open" /\ n \notin paid \cup disposing
    /\ row' = [row EXCEPT ![n] = "cancelled"]
    /\ sendDepositStatus(n, "cancelled")
    /\ claim' = IF claim = n THEN 0 ELSE claim
    /\ UNCHANGED <<now, claims, paid, disposing, heard, view, customer, reloads>>

revertClaim ==
    /\ claim # 0
    /\ claim' = 0
    /\ disposing' = IF row[claim] \in Live THEN disposing \cup {claim} ELSE disposing
    /\ UNCHANGED <<now, claims, row, paid, notices, heard, view, customer, reloads>>

\* hold.dispose; nobody is told of an invoice nobody has seen.
disposed(n) ==
    /\ n \in disposing
    /\ disposing' = disposing \ {n}
    /\ row' = [row EXCEPT ![n] = "cancelled"]
    /\ IF row[n] \in {"open", "accepted"} THEN sendDepositStatus(n, "cancelled") ELSE UNCHANGED notices
    /\ UNCHANGED <<now, claim, claims, paid, heard, view, customer, reloads>>

\* The trade is closed, the deposit kept or given back.
closed ==
    /\ claim # 0 /\ row[claim] = "accepted" /\ claims = MaxClaims
    /\ \E status \in Ended :
        row' = [row EXCEPT ![claim] = status] /\ sendDepositStatus(claim, status)
    /\ claim' = 0
    /\ UNCHANGED <<now, claims, paid, disposing, heard, view, customer, reloads>>

setDepositBolt11(n, at) ==
    IF view.bolt11 = n \/ at < view.at THEN UNCHANGED view
    ELSE view' = [bolt11 |-> n, at |-> at,
                  status |-> IF view.statusAt >= at THEN view.status ELSE "",
                  statusAt |-> IF view.statusAt >= at THEN view.statusAt ELSE 0]
setDepositStatus(status, at) ==
    IF at < view.at \/ at < view.statusAt \/ view.status = status THEN UNCHANGED view
    ELSE view' = [view EXCEPT !.status = status, !.statusAt = at]

handleInboxEvent ==
    /\ \E e \in notices \ heard :
        /\ heard' = heard \cup {e}
        /\ IF e.kind = "required" THEN setDepositBolt11(e.n, e.at) ELSE setDepositStatus(e.kind, e.at)
    /\ UNCHANGED <<now, daemon, customer, reloads>>

\* The customer's deposit is taken, and later kept or given back.
OwnMoves ==
    /\ \/ own = {} /\ own' = {"accepted"}
       \/ own = {"accepted"} /\ \E status \in Ended : own' = own \cup {status}
    /\ UNCHANGED <<now, daemon, heard, view, ownHeard, ownStatus, reloads>>
\* applyDepositStatus goes by the order of arrival.
applyDepositStatus ==
    /\ \E status \in own \ ownHeard :
        ownHeard' = ownHeard \cup {status} /\ ownStatus' = status
    /\ UNCHANGED <<now, daemon, heard, view, own, reloads>>

\* The app is opened anew: what was stored stays, the relays hand over everything again.
Reload ==
    /\ reloads < MaxReloads /\ reloads' = reloads + 1
    /\ heard' = {} /\ ownHeard' = {}
    /\ UNCHANGED <<now, daemon, view, own, ownStatus>>

Elapse ==
    /\ now < MaxTime /\ now' = now + 1
    /\ UNCHANGED <<daemon, heard, view, customer, reloads>>

Next ==
    \/ planSponsorDeposit \/ Pay \/ revertClaim \/ closed \/ handleInboxEvent
    \/ OwnMoves \/ applyDepositStatus \/ Reload \/ Elapse
    \/ \E n \in Claims : created(n) \/ accepted(n) \/ nodeCancelled(n) \/ disposed(n)

Spec == Init /\ [][Next]_vars

-----------------------------------------------------------------------------

TypeOK ==
    /\ now \in 1..MaxTime /\ claim \in 0..claims /\ claims \in 0..MaxClaims
    /\ \A n \in Claims : row[n] \in Live \cup Ended \cup {"none"} /\ (n <= claims <=> row[n] # "none")
    /\ paid \cup disposing \subseteq 1..claims /\ heard \subseteq notices
    /\ view.bolt11 \in 0..claims /\ view.status \in {"", "accepted"} \cup Ended
    /\ ownHeard \subseteq own

AllHeard == heard = notices

\* Whoever has to pay is offered the invoice that is waiting for him, however
\* often the claim was undone and made again (setDepositBolt11).
OfferIsWaiting ==
    AllHeard /\ claim # 0 /\ row[claim] = "open" /\ claim \notin paid => Offered = claim

\* With everything heard, the status shown is that of the invoice shown: no refund
\* or forfeit of another claim is taken for this one's.
StatusFitsInvoice ==
    AllHeard /\ view.status # "" => row[view.bolt11] = view.status

\* The sponsor's store never turns back to the invoice of an earlier claim, and
\* what was given back or kept does not look as if it was still held.
NeverBack ==
    /\ view'.bolt11 >= view.bolt11
    /\ view'.bolt11 = view.bolt11 /\ view.status \in Ended => view'.status # "accepted"

\* deposit-store.ts: notices come again in any order and are told apart by their
\* time; so they do for the customer, whose deposit is over or not.
OwnNeverBack == [][(ownStatus \in Ended) => ownStatus' \in Ended]_vars
=============================================================================
