------------------------------- MODULE OcTrade --------------------------------
(*****************************************************************************)
(* One on-chain trade, from the request to its end: requests, commands, the  *)
(* watcher and the effects are transactions; between any two of them the     *)
(* chain grows and reorganises, people sign and pay, deadlines pass and the  *)
(* daemon restarts.  The ledger is one database: a restart loses nothing but *)
(* the daemon's confidence that it has heard everything.                     *)
(*****************************************************************************)
EXTENDS OcWatcher

-------------------------------------------------------------------------------
(* Clock and process.                                                       *)

Around == UNCHANGED <<order, meta, bonds, lapsed, chain, outgoing, copies, alerts, verdict>>

HasDeadline == order.state \in {"listed", "bonded", "funded", "presigned", "remitted"}

\* A daemon that runs has handled what was sent in time before it sees the deadline passed.
DeadlinePasses == /\ Around
                  /\ HasDeadline /\ ~ due /\ (warm => mail = {})
                  /\ due' = TRUE
                  /\ UNCHANGED <<warm, mail, crashes>>

Restart == /\ Around
           /\ crashes < MaxCrashes
           /\ crashes' = crashes + 1 /\ warm' = FALSE
           /\ UNCHANGED <<due, mail>>

\* CATCHUP_WARMUP_SEC is time enough for the relays to deliver what was missed.
WarmUp == /\ Around
          /\ ~ warm /\ mail = {}
          /\ warm' = TRUE
          /\ UNCHANGED <<due, mail, crashes>>

-------------------------------------------------------------------------------
(* Bonds at the Lightning node.                                             *)

AtTheNode == UNCHANGED <<order, meta, chain, outgoing, due, warm, mail, copies, crashes, alerts,
                         verdict>>

BondPaid(p) == /\ AtTheNode /\ bonds[p] = "asked"
               /\ bonds' = [bonds EXCEPT ![p] = "paid"] /\ UNCHANGED lapsed

\* The invoice could not be made, or nobody paid it.
BondFails(p) == /\ AtTheNode /\ bonds[p] = "asked"
                /\ bonds' = [bonds EXCEPT ![p] = "none"] /\ UNCHANGED lapsed

Lapse(p) == /\ AtTheNode /\ "lapse" \in Mishaps
            /\ bonds[p] \in {"held", "taking"} /\ p \notin lapsed
            /\ lapsed' = lapsed \cup {p} /\ UNCHANGED bonds

-------------------------------------------------------------------------------
(* The chain.                                                               *)

OnChain == UNCHANGED <<order, meta, bonds, lapsed, outgoing, due, warm, mail, copies, crashes,
                       alerts, verdict>>

Becomes(u, coin) == coins' = [coins EXCEPT ![u] = coin] /\ UNCHANGED reorgs

\* Bound: what is first seen after the end is not modelled, what confirms after it is.
Deposit(u) == /\ OnChain /\ order.sponsor # "none" /\ coins[u].at = "none"
              /\ order.state \notin OcTerminal
              /\ \E value \in {"exact", "wrong"} :
                   /\ coins[u].value \in {"unset", value}
                   /\ Becomes(u, [coins[u] EXCEPT !.at = "mempool", !.value = value])

Mine(u) == /\ OnChain
           /\ \/ coins[u].at = "mempool" /\ Becomes(u, [coins[u] EXCEPT !.at = "shallow"])
              \/ coins[u].at = "shallow" /\ Becomes(u, [coins[u] EXCEPT !.at = "deep"])

\* Replaced, double-spent or forgotten before it was mined.
Drop(u) == /\ OnChain /\ coins[u].at = "mempool" /\ coins[u].by = "none"
           /\ Becomes(u, [coins[u] EXCEPT !.at = "none"])

\* Blocks are undone: fewer confirmations, back to the mempool, or another block takes the
\* inputs.
Reorg(u) == /\ OnChain /\ reorgs < MaxReorgs
            /\ coins[u].at \in {"shallow", "deep"} /\ ~ coins[u].final
            /\ coins[u].by # "timelock"          \* eight weeks of blocks are not undone
            /\ \/ coins[u].at = "deep" /\ coins' = [coins EXCEPT ![u].at = "shallow"]
               \/ coins' = [coins EXCEPT ![u].at = "mempool"]
               \/ coins' = [coins EXCEPT ![u].at = "none", ![u].by = "none"]
            /\ reorgs' = reorgs + 1

SpendConfirms(u) == /\ OnChain
                    /\ coins[u].at = "deep" /\ coins[u].by # "none" /\ ~ coins[u].final
                    /\ Becomes(u, [coins[u] EXCEPT !.final = TRUE])

Evict(u) == /\ OnChain /\ coins[u].by # "none" /\ ~ coins[u].final
            /\ IF coins[u].by = "timelock" THEN "sweep-evicted" \in Mishaps
                                           ELSE "evicted" \in Mishaps
            /\ Becomes(u, [coins[u] EXCEPT !.by = "none"])

Spend(u, tx) == /\ OnChain /\ coins[u].at # "none" /\ coins[u].by = "none"
                /\ Becomes(u, [coins[u] EXCEPT !.by = tx])

\* The customer takes an escrow back that has been there for the timelock's eight weeks.
Sweep(u) == "sweep" \in Mishaps /\ coins[u].at = "deep" /\ Spend(u, "timelock")

\* With the sponsor's signature he needs nobody else to release.
ReleaseOnChain(u) == /\ u \in copies
                     /\ \/ u = order.pinned
                           /\ order.state \in {"presigned", "remitted", "disputed", "refunding",
                                               "settling"}
                        \/ "release-anywhere" \in Mishaps
                     /\ Spend(u, "release")

-------------------------------------------------------------------------------
Requests == \/ ocOrderRequest \/ \E s \in Sponsors : ocDesignatedOrderRequest(s) \/ ocClaim(s)
            \/ ocAccountInfo \/ ocRemit \/ ocObjection \/ ocDispute \/ ocCancel
            \/ \E u \in Utxos : ocPresig(u) \/ ocRescueCosign(u)
            \/ \E tx \in {"release", "refund", "sponsor"} : ocCosign(tx)
Commands == oc_rule \/ resolveAccountDispute \/ \E u \in Utxos : requestRescue(u)
Watching == \/ \E known \in BOOLEAN, price \in {"stale", "below", "fine"} : apply(known, price)
            \/ watchEnded
            \/ \E p \in Party : PollBond(p)
Effects == \/ \E p \in Party : DisposeBond(p)
           \/ \E e \in outgoing : Broadcast(e) \/ BroadcastDead(e)
People == SponsorSigns \/ CustomerSendsAccount \/ SponsorRemits \/ SponsorObjects
World == \/ DeadlinePasses \/ Restart \/ WarmUp
         \/ \E p \in Party : BondPaid(p) \/ BondFails(p) \/ Lapse(p)
         \/ \E u \in Utxos : \/ Deposit(u) \/ Mine(u) \/ Drop(u) \/ Reorg(u) \/ SpendConfirms(u)
                             \/ Evict(u) \/ Sweep(u) \/ ReleaseOnChain(u)

Next == Requests \/ Commands \/ Watching \/ Effects \/ People \/ World

Spec == Init /\ [][Next]_vars

-------------------------------------------------------------------------------
(* Properties                                                               *)

Ended == order.state \in OcTerminal
Pinned == coins[order.pinned]

\* O-004: the order's end says what the chain did with the escrow, whoever broadcast what and
\* whatever the mempool forgot in between.  A sweep is booked before it is confirmed.
LedgerFollowsChain ==
  Ended /\ order.state \notin {"cancelled", "swept"} =>
    /\ Pinned.final
    /\ order.state = OUTCOME_RULES[order.kind].terminal
    /\ LeafOf(Pinned.by) = LeafOf(TxFor(order.kind))

\* O-007, O-017: once a remittance has been taken, the customer does not get the escrow back
\* with the daemon's signature unless a ruling says so; a late refund, a rescue or a cosign
\* for something that is over would give him both the KRW and the bitcoin.
KrwProtectsEscrow ==
  order.remitted /\ Pinned.by # "none" /\ LeafOf(Pinned.by) = "customer-win" =>
    verdict = "customer_win"

\* The bonds go where the first outcome that judged them says: no later outcome, no release
\* after a ruling, no confirmation that judges once more sends a bond elsewhere.
BondsFollowVerdict == \A p \in Party :
  /\ bonds[p] \in {"taking", "taken"} =>
       verdict # "none" /\ Disposition(order, verdict, p) = "forfeit"
  /\ bonds[p] \in {"returning", "returned"} /\ verdict # "none" /\ order.designated = "none"
       /\ Disposition(order, verdict, p) = "forfeit" => p \in lapsed

\* When a trade has ended and nothing is pending, no bond is held for it and no invoice is
\* open, the losing candidates' included: except where the outcome leaves the bonds alone.
NothingHeldAtEnd ==
  /\ Ended /\ order.state # "swept" /\ order.kind # "refund:account-disputed"
  /\ \A p \in Party : bonds[p] \notin {"taking", "returning"}
  => \A p \in Party : bonds[p] \in {"none", "returned", "taken"} \/ p \in lapsed

\* requestAt: what a party sent in time is heard before his time is judged to be up, even if
\* the daemon was down over the deadline.
InTimeIsHeard ==
  order.state # "refunding" /\ order'.state = "refunding" =>
    /\ order'.kind = "refund:sponsor-timeout" =>
         order.pinned \notin mail /\ (order.accountSent => mail \cap {"remit", "objection"} = {})
    /\ order'.kind = "refund:customer-late" => "account" \notin mail

\* O-003, O-005: from the moment the account may be disclosed, the daemon holds a release of
\* the very funding that is pinned: the customer's signature is all it takes.
ReleaseIsReady == order.state \in {"presigned", "remitted", "disputed"} =>
                    meta.presig = order.pinned

\* O-001, O-014: a customer whose funding was confirmed when the watcher asked does not lose
\* his bond for not having funded, whether the chain answered or not.
FundedIsNotForfeited == order.state = "bonded" /\ order'.state = "cancelled" => Confirmed = {}

\* The bonds follow the verdict, and none is left behind.
BondsGoWhereTheyShould == BondsFollowVerdict /\ NothingHeldAtEnd

\* The clock charges nobody with what he did in time.
ClockIsFair == [][InTimeIsHeard /\ FundedIsNotForfeited]_vars

-------------------------------------------------------------------------------
(* What does not hold (README.md, "What the code does otherwise").          *)

\* updateOc: whoever moves an order has made sure that it may move: a spend the watcher will
\* book is one it can book.
SpendCanBeBooked ==
  order.pinned # "none" /\ order.state \notin OcTerminal \cup {"settling"} /\ Pinned.by # "none" =>
    LET to == IF Pinned.by = "timelock" THEN "swept" ELSE "settling"
    IN  Pinned.by = "timelock" \/ Adopted # "none" => canOnchainTransition(order.state, to)
===============================================================================
