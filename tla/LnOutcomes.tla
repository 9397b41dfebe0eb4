------------------------------ MODULE LnOutcomes ------------------------------
(***************************************************************************)
(* The pure tables of the Lightning track: the order's state machine       *)
(* (shared/src/ln/state-machine.ts) and what each reason for closing does  *)
(* with the escrow and the two deposits (shared/src/ln/outcomes.ts).       *)
(***************************************************************************)

OrderState == {"requested", "claimed", "verified", "escrowed", "invoiced", "remitted",
               "paid", "cancelled", "sponsor_wins", "customer_wins", "admin_closed", "expired"}

TRANSITIONS == [s \in OrderState |->
  CASE s = "requested" -> {"claimed", "cancelled", "expired"}
    [] s = "claimed"   -> {"requested", "verified", "cancelled", "expired"}
    [] s = "verified"  -> {"escrowed", "cancelled", "expired"}
    [] s = "escrowed"  -> {"invoiced", "admin_closed", "expired"}
    [] s = "invoiced"  -> {"remitted", "paid", "admin_closed", "expired"}
    [] s = "remitted"  -> {"paid", "sponsor_wins", "customer_wins"}
    [] OTHER           -> {}]

canTransition(from, to) == to \in TRANSITIONS[from]

\* A state is terminal when the table leads nowhere from it.
Terminal == {s \in OrderState : TRANSITIONS[s] = {}}

LnCloseReason == {"paid", "sponsor_wins", "customer_wins", "admin_closed",
                  "cancel:customer", "cancel:customer-after-claim", "cancel:unpaid-escrow",
                  "expired:no-sponsor", "expired:not-approved", "expired:unpaid-escrow",
                  "expired:no-invoice", "expired:no-account", "expired:no-remit"}

\* Whoever is at fault forfeits his deposit; all other money goes back, unless it is paid out.
CustomerAtFault == {"cancel:customer-after-claim", "cancel:unpaid-escrow",
                    "expired:unpaid-escrow", "expired:no-account"}
SponsorAtFault == {"customer_wins", "expired:no-invoice"}

TerminalOf(reason) ==
  CASE reason \in {"paid", "sponsor_wins", "customer_wins", "admin_closed"} -> reason
    [] reason \in {"cancel:customer", "cancel:customer-after-claim",
                   "cancel:unpaid-escrow"} -> "cancelled"
    [] OTHER -> "expired"

CLOSE_RULES == [reason \in LnCloseReason |->
  [terminal        |-> TerminalOf(reason),
   escrow          |-> IF reason \in {"paid", "sponsor_wins"} THEN "settle" ELSE "cancel",
   customerDeposit |-> IF reason \in CustomerAtFault THEN "forfeit" ELSE "refund",
   sponsorDeposit  |-> IF reason \in SponsorAtFault THEN "forfeit" ELSE "refund"]]

\* Why a trade in this state is closed when its time is up; "none" leaves it to a person.
expiryReasonFor(state, hasSponsor, accountSent) ==
  CASE state = "requested" -> "expired:no-sponsor"
    [] state = "claimed" -> IF hasSponsor THEN "expired:not-approved" ELSE "expired:no-sponsor"
    [] state = "verified" -> "expired:unpaid-escrow"
    [] state = "escrowed" -> "expired:no-invoice"
    [] state = "invoiced" -> IF accountSent THEN "expired:no-remit" ELSE "expired:no-account"
    [] OTHER -> "none"
===============================================================================
