-------------------------------- MODULE OcFlow --------------------------------
(*****************************************************************************)
(* What moves an on-chain trade, whoever moves it: its row, the bonds that   *)
(* secure it, the funding on the chain, and the pieces the transactions on   *)
(* them are made of (daemon/src/onchain/flow.ts, bonds.ts, store.ts).        *)
(*                                                                           *)
(* One trade.  A bond is a hold invoice (HoldInvoice): here only what the    *)
(* trade can tell of it.                                                     *)
(*****************************************************************************)
EXTENDS OcOutcomes, Naturals, FiniteSets

CONSTANTS
  Sponsors,    \* people who may claim
  Utxos,       \* outputs that may ever be paid to the escrow's address
  MaxReorgs,   \* bound: blocks that undo a funding
  MaxCrashes,  \* bound: restarts of the daemon
  Mishaps      \* what may happen besides a trade's usual course, see Mishap

Mishap == {"lapse",             \* a bond is held until its HTLC expires
           "sweep",             \* the customer takes the escrow back over the timelock
           "evicted",           \* the mempool forgets a spend made with a second signature
           "sweep-evicted",     \* or the customer's sweep
           "refused",           \* the chain's node refuses a good transaction for good
           "release-anywhere",  \* a release is broadcast that an earlier funding was signed for
           "rescue-live"}       \* a rescue is asked for money that could still be the funding

ASSUME OcTradeAssumption == /\ "customer" \notin Sponsors /\ "none" \notin Sponsors \cup Utxos
                            /\ Utxos \cap {"account", "remit", "objection"} = {}
                            /\ MaxReorgs \in Nat /\ MaxCrashes \in Nat
                            /\ Mishaps \subseteq Mishap

VARIABLES
  order,    \* the row of oc_orders
  meta,     \* its private part
  bonds,    \* the bonds' hold invoices and candidates
  lapsed,   \* bonds whose HTLC has expired at the node
  coins,    \* the outputs at the escrow's address and what has become of them
  outgoing, \* pending oc.broadcast effects
  due,      \* has the deadline of the order's present stage passed?
  warm,     \* is CATCHUP_WARMUP_SEC over?
  mail,     \* requests made in time and not handled yet; a UTXO is a presignature for it
  copies,   \* fundings whose release the customer could complete himself
  reorgs,   \* how many so far
  crashes,  \* how many so far
  alerts,   \* history: what a person was called for
  verdict   \* history: the first outcome that judged the bonds

chain == <<coins, reorgs>>
trade == <<order, due, bonds, verdict>>
vars == <<order, meta, bonds, lapsed, coins, outgoing, due, warm, mail, copies, reorgs, crashes,
          alerts, verdict>>

-------------------------------------------------------------------------------
(* State                                                                    *)

Party == Sponsors \cup {"customer"}
Maybe(S) == S \cup {"none"}

\* asked: planned or open, a candidate waits for it; paid: the node has the money and the
\* daemon has not seen it; held: it has; taking, returning: hold.dispose is pending.
BondState == {"none", "asked", "paid", "held", "taking", "returning", "taken", "returned"}

OrderRow == [state : OcState \cup {"none"},
             designated : Maybe(Sponsors), sponsor : Maybe(Sponsors),
             pinned : Maybe(Utxos),               \* fundingOutpoint
             kind : Maybe(SettlementKind), tx : Maybe(Tx),   \* settlementKind, settlementTxid
             accountSent : BOOLEAN, accountDisputed : BOOLEAN, remitted : BOOLEAN]

MetaRow == [presig : Maybe(Utxos), outbox : Maybe(Tx), strays : SUBSET Utxos,
            rescues : [Utxos -> {"none", "requested", "signed", "sent"}]]

\* shallow: in a block, with fewer than requiredConfirmations.  by: the transaction that
\* spends it; final: with that many confirmations.
Coin == [at : {"none", "mempool", "shallow", "deep"}, value : {"unset", "exact", "wrong"},
         by : Maybe(Tx), final : BOOLEAN]

\* Of the alerts, the two that a trade which goes as it should never raises.
Alert == {"unknown-spend", "forfeit-missed"}

TypeOK == /\ order \in OrderRow /\ meta \in MetaRow
          /\ bonds \in [Party -> BondState] /\ lapsed \subseteq Party
          /\ coins \in [Utxos -> Coin]
          /\ outgoing \subseteq [coin : Utxos, tx : Tx]
          /\ due \in BOOLEAN /\ warm \in BOOLEAN
          /\ mail \subseteq Utxos \cup {"account", "remit", "objection"}
          /\ copies \subseteq Utxos
          /\ reorgs \in 0..MaxReorgs /\ crashes \in 0..MaxCrashes
          /\ alerts \subseteq Alert /\ verdict \in Maybe(Outcome)

Init == /\ order = [state |-> "none", designated |-> "none", sponsor |-> "none",
                    pinned |-> "none", kind |-> "none", tx |-> "none", accountSent |-> FALSE,
                    accountDisputed |-> FALSE, remitted |-> FALSE]
        /\ meta = [presig |-> "none", outbox |-> "none", strays |-> {},
                   rescues |-> [u \in Utxos |-> "none"]]
        /\ bonds = [p \in Party |-> "none"] /\ lapsed = {}
        /\ coins = [u \in Utxos |-> [at |-> "none", value |-> "unset", by |-> "none",
                                     final |-> FALSE]]
        /\ outgoing = {} /\ due = FALSE /\ warm = TRUE /\ mail = {} /\ copies = {}
        /\ reorgs = 0 /\ crashes = 0 /\ alerts = {} /\ verdict = "none"

-------------------------------------------------------------------------------
(* What the transactions are made of.                                       *)

canOnchainTransition(from, to) == to \in ONCHAIN_TRANSITIONS[from]

\* updateOc to another state: a move outside the table throws and undoes its transaction,
\* so the action it belongs to does not happen.  Every stage has a deadline of its own.
MovesTo(o) == /\ canOnchainTransition(order.state, o.state)
              /\ order' = o /\ due' = FALSE
Stays(o) == order' = o /\ UNCHANGED due

\* applyOutcome: what has been received is returned or taken, once; a disposal that is
\* pending is not changed any more.  (Faults: it is; the rule is written for the status.)
Touchable_pendingToo(p) == bonds[p] \in {"held", "taking", "returning"}
Touchable(p) == bonds[p] = "held"
Disposition(o, outcome, p) ==
  CASE p = "customer" -> OUTCOME_RULES[outcome].customerBond
    [] p = o.sponsor  -> OUTCOME_RULES[outcome].sponsorBond
    [] OTHER          -> "leave"
Judged_ruleAsStatus(o, outcome) ==
  [p \in Party |-> IF Touchable(p) THEN Disposition(o, outcome, p) ELSE bonds[p]]
Judged(o, outcome) == [p \in Party |->
  CASE Touchable(p) /\ Disposition(o, outcome, p) = "forfeit" -> "taking"
    [] Touchable(p) /\ Disposition(o, outcome, p) = "refund"  -> "returning"
    [] OTHER -> bonds[p]]
Verdict(outcome) == IF verdict = "none" /\ outcome \notin BothBondsLeft THEN outcome ELSE verdict
applyOutcome(o, outcome) == bonds' = Judged(o, outcome) /\ verdict' = Verdict(outcome)

\* dropSponsorCandidates: nobody else is waited for.
Dropped(bs) == [p \in Party |-> IF p # "customer" /\ bs[p] \in {"asked", "paid"}
                                THEN "returning" ELSE bs[p]]

\* listOc and bondOc.
Listed(designated) == /\ order' = [order EXCEPT !.state = "listed", !.designated = designated]
                      /\ due' = FALSE
bondOc(s) == MovesTo([order EXCEPT !.state = "bonded", !.sponsor = s])

\* decideSettlement of a refund: it is decided once, and the bonds with it, before anybody
\* signs.  A refund from bonded pins the funding it gives back.
DecideRefund(kind, coin) ==
  /\ order.kind = "none"
  /\ MovesTo([order EXCEPT !.state = "refunding", !.kind = kind, !.pinned = coin])
  /\ applyOutcome(order, kind)

\* enterSettling: the raw transaction and the state in one write, then the broadcast.  A
\* release is decided only now.
enterSettling(kind) ==
  /\ MovesTo([order EXCEPT !.state = "settling", !.kind = kind, !.tx = TxFor(kind)])
  /\ meta' = [meta EXCEPT !.outbox = TxFor(kind)]
  /\ IF kind = "release" THEN applyOutcome(order, kind) ELSE UNCHANGED <<bonds, verdict>>
  /\ outgoing' = outgoing \cup {[coin |-> order.pinned, tx |-> TxFor(kind)]}

\* A live trade's escrow belongs to its settlement.
isPinnedOfLiveTrade(u) == order.pinned = u /\ order.state \notin OcTerminal
===============================================================================
