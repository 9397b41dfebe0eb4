------------------------------ MODULE OcWindows -------------------------------
(*****************************************************************************)
(* The deadlines of an on-chain trade (shared/src/onchain/timing.ts) against *)
(* the lives of its two bonds (daemon/src/onchain/deposit.ts), over an outage *)
(* of the daemon, a reorg and a chain that is faster than the clock.  OcTrade *)
(* has the control; here the deadlines are numbers and each is anchored where *)
(* the code anchors it.                                                       *)
(*                                                                           *)
(* One unit of time is one block on a chain that is not ahead.  The price and *)
(* the chain are always known and the funding is the right amount (OcTrade).  *)
(*****************************************************************************)
EXTENDS Integers

CONSTANTS
  MAX_ORDER_EXPIRY, FUNDING_WINDOW, PRESIGN_WINDOW, ACCOUNT_WINDOW, KRW_WINDOW, COSIGN_WINDOW,
  DISPUTE_RULING_BUDGET, CLTV_SAFETY_MARGIN,
  HoldExpiryDelta,  \* LND gives an HTLC back this many blocks before it ends
  Drift,            \* bound: blocks the chain is ahead of the clock
  MaxAway,          \* bound: units of time the daemon is down in one trade
  MaxConfirm,       \* bound: how long after its deadline a funding still confirms
  MaxReorgs         \* bound

MAX_OPTION_WINDOW == PRESIGN_WINDOW + ACCOUNT_WINDOW + KRW_WINDOW
MAX_TRADE_DURATION == FUNDING_WINDOW + MAX_OPTION_WINDOW + COSIGN_WINDOW + DISPUTE_RULING_BUDGET

AreWindows ==
  /\ {MAX_ORDER_EXPIRY, FUNDING_WINDOW, PRESIGN_WINDOW, ACCOUNT_WINDOW, KRW_WINDOW, COSIGN_WINDOW,
      DISPUTE_RULING_BUDGET, CLTV_SAFETY_MARGIN, HoldExpiryDelta} \subseteq Nat \ {0}
  /\ {Drift, MaxAway, MaxConfirm, MaxReorgs} \subseteq Nat

VARIABLES
  now, height, away, up, warm,
  st, why, expiration,
  anchor,    \* when the present window of the state began
  due,       \* fundingDeadline, presignDeadline, accountDeadline, krwDeadline, cosignDeadline
  fundedAt,  \* T0
  chain,     \* the funding: none, confirming, deep
  account, objected,   \* accountSentAt and accountDisputedAt are set
  sentAt,    \* created_at of the request the state waits for, -1 for none
  reorgs,
  customer, sponsor,   \* the bonds
  lost       \* a bond that a decision forfeits had gone back already

order == <<st, why, expiration, anchor, due, fundedAt, account, objected, sentAt, lost>>
bonds == <<customer, sponsor>>
clocks == <<now, height, away, up, warm>>
vars == <<clocks, order, chain, reorgs, bonds>>

-------------------------------------------------------------------------------
(* The bonds.  cltv counts from the block in which the bond is paid. *)

depositCltvBlocks == (expiration - now) + MAX_TRADE_DURATION + CLTV_SAFETY_MARGIN

NoBond == [status |-> "none", cltv |-> 0, expiry |-> 0]

AfterBlocks(b, top) ==
  IF b.status = "held" /\ b.expiry - top <= HoldExpiryDelta THEN [b EXCEPT !.status = "back"] ELSE b

\* The customer's bond is paid the moment it is planned: the earliest it can end.
Init ==
  /\ now = 0 /\ height = 0 /\ away = 0 /\ up = TRUE /\ warm = TRUE
  /\ st = "listed" /\ why = "none" /\ expiration \in 1..MAX_ORDER_EXPIRY
  /\ anchor = 0 /\ due = expiration /\ fundedAt = 0
  /\ chain = "none" /\ account = FALSE /\ objected = FALSE /\ sentAt = -1 /\ reorgs = 0
  /\ LET blocks == expiration + MAX_TRADE_DURATION + CLTV_SAFETY_MARGIN IN
     customer = [status |-> "held", cltv |-> blocks, expiry |-> blocks]
  /\ sponsor = NoBond /\ lost = FALSE

-------------------------------------------------------------------------------
(* Stamps *)

Moves(s, window) == /\ st' = s
                    /\ anchor' = now
                    /\ due' = now + window
                    /\ sentAt' = -1

Reasons == {"release", "customer_win", "sponsor_win", "refund:sponsor-timeout",
            "refund:customer-late", "refund:bond-expired", "cancel:expired", "cancel:no-funding"}

\* OUTCOME_RULES
Forfeited(reason) ==
  CASE reason \in {"refund:sponsor-timeout", "customer_win"} -> sponsor
    [] reason \in {"refund:customer-late", "sponsor_win", "cancel:no-funding"} -> customer
    [] OTHER -> NoBond

Decide(reason) ==
  /\ st' = "decided" /\ why' = reason
  /\ lost' = (Forfeited(reason).status = "back")
  /\ UNCHANGED <<clocks, expiration, anchor, due, fundedAt, account, objected, sentAt, chain, reorgs, bonds>>

-------------------------------------------------------------------------------
(* The parties *)

\* ocClaim: the sponsor's bond is planned; it can be paid until the listing expires.
Claim == /\ up /\ st = "listed" /\ expiration > now /\ sponsor.status = "none"
         /\ sponsor' = [status |-> "open", cltv |-> depositCltvBlocks, expiry |-> 0]
         /\ UNCHANGED <<clocks, order, chain, reorgs, customer>>

\* Paid and observed: bondOc.
PaySponsorBond == /\ up /\ st = "listed" /\ sponsor.status = "open" /\ now <= expiration
                  /\ sponsor' = [sponsor EXCEPT !.status = "held", !.expiry = height + sponsor.cltv]
                  /\ Moves("bonded", FUNDING_WINDOW)
                  /\ UNCHANGED <<clocks, why, expiration, fundedAt, account, objected, lost, chain,
                                 reorgs, customer>>

FundEscrow == /\ st = "bonded" /\ chain = "none" /\ now < due
              /\ chain' = "confirming"
              /\ UNCHANGED <<clocks, order, reorgs, bonds>>

\* A block: judgeFunding sees enough confirmations.
Confirms == /\ chain = "confirming"
            /\ chain' = "deep"
            /\ UNCHANGED <<clocks, order, reorgs, bonds>>

Reorg == /\ chain = "deep" /\ reorgs < MaxReorgs /\ st \in {"funded", "presigned"}
         /\ chain' = "none" /\ reorgs' = reorgs + 1
         /\ UNCHANGED <<clocks, order, bonds>>

Awaits == st = "funded" \/ st = "presigned"

\* The presignature, the account, the remittance: made now, handled when the daemon is up.
Send == /\ Awaits /\ sentAt = -1
        /\ sentAt' = now
        /\ UNCHANGED <<clocks, st, why, expiration, anchor, due, fundedAt, account, objected, lost,
                       chain, reorgs, bonds>>

\* isPast(deadline, requestAt)
InTime == sentAt >= 0 /\ sentAt < due

ocPresig == /\ up /\ st = "funded" /\ InTime
            /\ Moves("presigned", ACCOUNT_WINDOW)
            /\ UNCHANGED <<clocks, why, expiration, fundedAt, account, objected, lost, chain, reorgs, bonds>>

ocAccountInfo == /\ up /\ st = "presigned" /\ ~ account /\ InTime
                 /\ account' = TRUE
                 /\ Moves("presigned", KRW_WINDOW)
                 /\ UNCHANGED <<clocks, why, expiration, fundedAt, objected, lost, chain, reorgs, bonds>>

\* ocDispute on the account: the clock goes on.
AccountUnusable == /\ up /\ st = "presigned" /\ account /\ ~ objected /\ now < due
                   /\ objected' = TRUE
                   /\ UNCHANGED <<clocks, st, why, expiration, anchor, due, fundedAt, account, sentAt,
                                  lost, chain, reorgs, bonds>>

ocRemit == /\ up /\ st = "presigned" /\ account /\ InTime
           /\ Moves("remitted", COSIGN_WINDOW)
           /\ UNCHANGED <<clocks, why, expiration, fundedAt, account, objected, lost, chain, reorgs, bonds>>

ocDispute == /\ up /\ st = "remitted"
             /\ Moves("disputed", DISPUTE_RULING_BUDGET)
             /\ UNCHANGED <<clocks, why, expiration, fundedAt, account, objected, lost, chain, reorgs, bonds>>

ocCosign == up /\ st = "remitted" /\ Decide("release")

\* The operator rules while the bonds are promised to last.
Rule == /\ up /\ now <= due
        /\ \/ st = "disputed" /\ \E r \in {"customer_win", "sponsor_win"} : Decide(r)
           \/ st = "held" /\ \E r \in {"refund:sponsor-timeout", "refund:customer-late"} : Decide(r)

-------------------------------------------------------------------------------
(* The watcher: decideOnchainAction, CLOCK_ACTIONS only after the warm-up. *)

bondAlive == sponsor.status = "held"

MustFund == up /\ st = "bonded" /\ chain = "deep"

fund == /\ MustFund /\ bondAlive
        /\ Moves("funded", PRESIGN_WINDOW)
        /\ fundedAt' = now
        /\ UNCHANGED <<clocks, why, expiration, account, objected, lost, chain, reorgs, bonds>>

fold == MustFund /\ ~ bondAlive /\ Decide("refund:bond-expired")

MustCancel == up /\ warm /\ now >= due /\ \/ st = "listed"
                                          \/ st = "bonded" /\ chain = "none"

cancel == MustCancel /\ Decide(IF st = "listed" THEN "cancel:expired" ELSE "cancel:no-funding")

MustReturn == up /\ Awaits /\ chain # "deep"

reorg == /\ MustReturn
         /\ Moves("bonded", FUNDING_WINDOW)
         /\ fundedAt' = 0 /\ account' = FALSE /\ objected' = FALSE
         /\ UNCHANGED <<clocks, why, expiration, lost, chain, reorgs, bonds>>

MustSettle == up /\ warm /\ Awaits /\ chain = "deep" /\ now >= due

lateReason == CASE st = "funded"                  -> "refund:sponsor-timeout"
                [] st = "presigned" /\ ~ account  -> "refund:customer-late"
                [] OTHER                          -> "refund:sponsor-timeout"

settle == MustSettle /\ ~ (account /\ objected) /\ Decide(lateReason)

\* refund:account-disputed holds both bonds until the operator has decided.
settleDisputed == /\ MustSettle /\ account /\ objected
                  /\ Moves("held", DISPUTE_RULING_BUDGET)
                  /\ UNCHANGED <<clocks, why, expiration, fundedAt, account, objected, lost, chain, reorgs,
                                 bonds>>

MustDispute == up /\ warm /\ st = "remitted" /\ now >= due

dispute == /\ MustDispute
           /\ Moves("disputed", DISPUTE_RULING_BUDGET)
           /\ UNCHANGED <<clocks, why, expiration, fundedAt, account, objected, lost, chain, reorgs, bonds>>

-------------------------------------------------------------------------------
(* Time.  While the daemon is up, a unit of time is many polls. *)

Handled == ~ (Awaits /\ InTime)

Nothing == /\ warm /\ Handled
           /\ ~ MustFund /\ ~ MustCancel /\ ~ MustReturn /\ ~ MustSettle /\ ~ MustDispute

Pass == /\ st # "decided"
        /\ ~ (st \in {"disputed", "held"} /\ now > due)   \* followed to the end of the budget
        /\ ~ (chain = "confirming" /\ now >= due + MaxConfirm)
        /\ \/ up /\ Nothing /\ UNCHANGED away
           \/ ~ up /\ away < MaxAway /\ away' = away + 1
        /\ now' = now + 1
        /\ \E b \in {1, 2} : height' = height + b
        /\ height' - now' <= Drift
        /\ customer' = AfterBlocks(customer, height')
        /\ sponsor' = AfterBlocks(sponsor, height')
        /\ UNCHANGED <<up, warm, order, chain, reorgs>>

GoDown == /\ up /\ away < MaxAway /\ st # "decided"
          /\ up' = FALSE /\ warm' = FALSE
          /\ UNCHANGED <<now, height, away, order, chain, reorgs, bonds>>

Start == /\ ~ up
         /\ up' = TRUE
         /\ UNCHANGED <<now, height, away, warm, order, chain, reorgs, bonds>>

\* What was sent during the downtime arrives within CATCHUP_WARMUP_SEC.
WarmUp == /\ up /\ ~ warm /\ Handled
          /\ warm' = TRUE
          /\ UNCHANGED <<now, height, away, up, order, chain, reorgs, bonds>>

Party == \/ Claim \/ PaySponsorBond \/ FundEscrow \/ Send
         \/ ocPresig \/ ocAccountInfo \/ AccountUnusable \/ ocRemit \/ ocDispute \/ ocCosign \/ Rule

Watcher == fund \/ fold \/ cancel \/ reorg \/ settle \/ settleDisputed \/ dispute

Next == Party \/ Watcher \/ Confirms \/ Reorg \/ Pass \/ GoDown \/ Start \/ WarmUp

Spec == Init /\ [][Next]_vars

-------------------------------------------------------------------------------
(* What the bonds' margin has to cover: a relation that no test states.         *)

\* What a reorganisation can cost: the funding and the option window anew.  A request that is in
\* time is made a unit before its deadline, at the least.
Again == FUNDING_WINDOW + MaxConfirm + MAX_OPTION_WINDOW - 2

\* The margin of a bond's CLTV, 36 blocks against the 12 at which the node gives up, covers the
\* speed of the chain, the downtime, a funding that confirms late and every reorganisation.  The
\* code's own leaves some 27 blocks, if there is no reorganisation; one costs 22.
MarginIsWide ==
  HoldExpiryDelta + Drift + MaxAway + MaxConfirm + MaxReorgs * Again < CLTV_SAFETY_MARGIN + 3

-------------------------------------------------------------------------------
Bonds == [status : {"none", "open", "held", "back"}, cltv : Int, expiry : Int]

\* The variables stay in their ranges.
TypeOK ==
  /\ now \in Nat /\ height \in now..(now + Drift) /\ away \in 0..MaxAway
  /\ up \in BOOLEAN /\ warm \in BOOLEAN
  /\ st \in {"listed", "bonded", "funded", "presigned", "remitted", "disputed", "held", "decided"}
  /\ why \in Reasons \cup {"none"} /\ expiration \in Nat /\ anchor \in Nat /\ due \in Nat /\ fundedAt \in Nat
  /\ chain \in {"none", "confirming", "deep"} /\ account \in BOOLEAN /\ objected \in BOOLEAN
  /\ sentAt \in -1..now /\ reorgs \in 0..MaxReorgs
  /\ {customer, sponsor} \subseteq Bonds /\ lost \in BOOLEAN

\* A bond that a decision takes is still there: "otherwise it is refunded by its own expiry in the
\* middle of the trade and the deterrent is gone" (timing.ts, MAX_TRADE_DURATION_SEC).
BondIsThere == ~ lost

\* No deadline of an open price lies beyond T0 + MAX_OPTION_WINDOW: "the three do not add up to more"
\* (timing.ts, head, 2).
OptionIsBounded == Awaits => due <= fundedAt + MAX_OPTION_WINDOW

\* The bound of the option window as the daemon's downtime leaves it: each deadline after the first
\* is stamped when the request before it is handled.
OptionIsBoundedByTheDaemon == Awaits => due <= fundedAt + MAX_OPTION_WINDOW + MaxAway

\* Nobody is charged with a delay who sent his request in time, though the daemon was down when it
\* arrived (handlers.ts, requestAt).
NobodyInTimeIsLate ==
  why \in {"refund:sponsor-timeout", "refund:customer-late"} => objected \/ ~ InTime

\* The customer's delay does not shorten the sponsor's window (timing.ts, head, 1), and no other
\* deadline is shorter than its window.
WindowIsWhole ==
  (why = "refund:sponsor-timeout" /\ ~ objected) =>
    now - anchor >= IF account THEN KRW_WINDOW ELSE PRESIGN_WINDOW

\* A customer whose funding a reorg undid has a whole window to see it mined again
\* (timing.ts, fundingDeadlineFrom).
ReorgIsNobodysFault == why = "cancel:no-funding" => now - anchor >= FUNDING_WINDOW
===============================================================================
