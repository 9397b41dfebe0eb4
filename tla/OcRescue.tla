------------------------------ MODULE OcRescue ------------------------------
(* The rescue of money that came to an escrow address against the terms (paid twice,    *)
(* a wrong amount, too late), from the watcher that lists it to the transaction that     *)
(* takes it back to the customer: daemon/src/onchain (watcher.ts, flow.ts, handlers.ts,  *)
(* effects.ts), the operator's button (admin OnchainOrderDetail.tsx) and the customer's  *)
(* sign requests (customer/src/onchain: sign-request-store.ts, verify.ts, actions.ts).   *)
(* The trade itself, which OcTrade models in full, is here only what a rescue can see    *)
(* of it: whether it lives and which output it rests on. A rescue transaction is named   *)
(* by its fee: all else in it is fixed by the record.                                    *)
EXTENDS Naturals, FiniteSets

CONSTANTS
    Right, Wrong,   \* outputs at the escrow address: with the agreed amount, with another
    Fees,           \* the fees the estimates give: positive, and within what the apps sign
    MaxTries,       \* attempts at one broadcast (8 in effects.ts 158)
    MaxReorgs,      \* bound: confirmations that are undone
    Wary,           \* the operator rescues from a live trade only what cannot be its funding
    Patient,        \* the operator asks again only when nothing is under way
    SameSecond      \* two requests may be made within one second

Coins == Right \cup Wrong
Nowhere == "nowhere"

RescueAssumption ==
    /\ Nowhere \notin Coins
    /\ Fees \subseteq Nat \ {0} /\ MaxTries \in Nat \ {0} /\ MaxReorgs \in Nat
    /\ {Wary, Patient, SameSecond} \subseteq BOOLEAN

NoFee == 0
States == {"bonded", "funded", "remitted", "over"}

VARIABLES
    trade,     \* the order: its state and the output pinned as its funding
    coins,     \* each output on the chain
    taken,     \* the fee of the rescue that took an output
    reorgs,    \* confirmations undone so far
    facts,     \* what the watcher has gathered and not applied yet
    strays,    \* meta.strays
    rescues,   \* meta.rescues: the fee asked for, that of the finished tx, that of the sent one
    asks,      \* sign requests that relays hold
    newest,    \* the fee of the latest request for each output
    second,    \* a sign request was queued in this second
    shown,     \* the customer's store of sign requests
    cosigns,   \* signatures on their way to the daemon
    queue      \* broadcast effects

chain == <<coins, taken, reorgs>>
ledger == <<strays, rescues, queue>>
mail == <<asks, newest, second, shown, cosigns>>
vars == <<trade, chain, facts, ledger, mail>>

NoRescue == [fee |-> NoFee, raw |-> NoFee, sent |-> NoFee]
NoFacts == [known |-> FALSE, found |-> {}, spent |-> FALSE]

Init ==
    /\ trade = [state |-> "bonded", pinned |-> Nowhere]
    /\ coins = [c \in Coins |-> "away"] /\ taken = [c \in Coins |-> NoFee] /\ reorgs = 0
    /\ facts = NoFacts
    /\ strays = {} /\ rescues = [c \in Coins |-> NoRescue] /\ queue = {}
    /\ asks = {} /\ newest = [c \in Coins |-> NoFee] /\ second = FALSE
    /\ shown = [c \in Coins |-> NoFee] /\ cosigns = {}

isPinnedOfLiveTrade(c) == trade.pinned = c /\ trade.state # "over"

(* -------------------------------- the chain -------------------------------- *)
Move(c, from, to) ==
    /\ coins[c] \in from
    /\ coins' = [coins EXCEPT ![c] = to]
    /\ UNCHANGED <<trade, taken, facts, ledger, mail>>

Pay(c) == Move(c, {"away"}, "mempool") /\ UNCHANGED reorgs
Mine(c) == Move(c, {"mempool"}, "confirmed") /\ UNCHANGED reorgs
Reorg(c) == reorgs < MaxReorgs /\ Move(c, {"confirmed"}, "mempool") /\ reorgs' = reorgs + 1

(* ----------------------- the trade and its watcher ------------------------- *)
\* The trade moves on: facts gathered about an older version of it are thrown away.
Becomes(state, pinned) ==
    trade' = [state |-> state, pinned |-> pinned] /\ facts' = NoFacts

Remit ==
    /\ trade.state = "funded" /\ Becomes("remitted", trade.pinned)
    /\ UNCHANGED <<chain, ledger, mail>>

\* The trade's own end takes the escrow: a release, a refund, a ruling.
Settle ==
    /\ trade.state \in {"funded", "remitted"} /\ coins[trade.pinned] = "confirmed"
    /\ coins' = [coins EXCEPT ![trade.pinned] = "settled"]
    /\ Becomes("over", trade.pinned)
    /\ UNCHANGED <<taken, reorgs, ledger, mail>>

Unspent == {c \in Coins : coins[c] = "confirmed"}

Gather ==
    /\ facts' = [known |-> TRUE, found |-> Unspent,
                 spent |-> trade.pinned # Nowhere /\ coins[trade.pinned] = "rescued"]
    /\ UNCHANGED <<trade, chain, ledger, mail>>

judgeFunding(found) ==
    CASE found = {} -> "none"
      [] Cardinality(found) > 1 \/ found \cap Wrong # {} -> "anomaly"
      [] OTHER -> "funded"

\* The order is still bonded: it is funded, is cancelled when its deadline passed with
\* nothing there, or stays. Only a funding of a wrong shape is listed as stray.
ApplyBonded ==
    /\ trade.state = "bonded"
    /\ LET judged == judgeFunding(facts.found) IN
         /\ \/ judged = "funded" /\ \E c \in facts.found : Becomes("funded", c)
            \/ judged = "none" /\ Becomes("over", Nowhere)
            \/ UNCHANGED trade /\ facts' = NoFacts
         /\ strays' = IF judged = "anomaly" THEN facts.found ELSE {}

\* The funding is pinned: before the won are sent a reorganisation takes the order back
\* to bonded; a spend that is not in the books calls an operator and changes nothing.
ApplyPinned ==
    /\ trade.state \in {"funded", "remitted"}
    /\ IF trade.state = "funded" /\ trade.pinned \notin facts.found /\ ~ facts.spent
       THEN Becomes("bonded", Nowhere) /\ strays' = {}
       ELSE /\ UNCHANGED trade /\ facts' = NoFacts
            /\ strays' = facts.found \ {trade.pinned}

ApplyOver ==
    /\ trade.state = "over"
    /\ strays' = facts.found /\ UNCHANGED trade /\ facts' = NoFacts

Apply ==
    /\ facts.known
    /\ ApplyBonded \/ ApplyPinned \/ ApplyOver
    /\ UNCHANGED <<chain, rescues, queue, mail>>

(* ------------------------------ the operator ------------------------------- *)
\* Nothing is under way for this output: it was not asked for, or its broadcast was given up.
Idle(c) ==
    /\ \A e \in queue : e.coin # c
    /\ rescues[c].fee = NoFee \/ rescues[c].raw # NoFee

\* A fresh record, whatever the old one held, and a sign request whose key is the order,
\* the purpose and the second: a second one in the same second is not queued.
requestRescue(c, fee) ==
    /\ ~ isPinnedOfLiveTrade(c)
    /\ rescues' = [rescues EXCEPT ![c] = [NoRescue EXCEPT !.fee = fee]]
    /\ second' = TRUE
    /\ IF second THEN UNCHANGED <<asks, newest>>
       ELSE asks' = asks \cup {[coin |-> c, fee |-> fee]} /\ newest' = [newest EXCEPT ![c] = fee]

oc_rescue(c) ==
    /\ c \in strays /\ rescues[c].sent = NoFee
    /\ Wary => c \in Wrong \/ trade.state = "over"
    /\ Patient => Idle(c)
    /\ SameSecond \/ ~ second
    /\ \E fee \in Fees : requestRescue(c, fee)
    /\ UNCHANGED <<trade, chain, facts, strays, queue, shown, cosigns>>

NextSecond ==
    /\ second /\ second' = FALSE
    /\ UNCHANGED <<trade, chain, facts, ledger, asks, newest, shown, cosigns>>

(* ------------------------------ the customer ------------------------------- *)
\* A request comes in, perhaps again; one that is older than what is shown is passed over.
putSignRequest(m) ==
    /\ m \in asks /\ shown[m.coin] # m.fee
    /\ shown[m.coin] = NoFee \/ m.fee = newest[m.coin]
    /\ shown' = [shown EXCEPT ![m.coin] = m.fee]
    /\ UNCHANGED <<trade, chain, facts, ledger, asks, newest, second, cosigns>>

\* The customer signs the transaction rebuilt from the request, and the request is cleared. What
\* the device checks of it (the escrow's script, the refund address, the cap on feerates: verify.ts
\* 131-147, modelled in OcEscrow) holds of whatever the daemon asks for here; that the output is
\* not the funding is no part of it.
sign(c) ==
    /\ shown[c] # NoFee
    /\ cosigns' = cosigns \cup {[coin |-> c, fee |-> shown[c]]}
    /\ shown' = [shown EXCEPT ![c] = NoFee]
    /\ UNCHANGED <<trade, chain, facts, ledger, asks, newest, second>>

(* ------------------------- the daemon's last signature ---------------------- *)
Finishes(m) ==
    /\ rescues[m.coin].fee = m.fee
    /\ rescues[m.coin].raw = NoFee /\ rescues[m.coin].sent = NoFee
    /\ ~ isPinnedOfLiveTrade(m.coin)

Queued(c, fee) == \E e \in queue : e.coin = c /\ e.fee = fee

ocRescueCosign(m) ==
    /\ m \in cosigns /\ cosigns' = cosigns \ {m}
    /\ IF Finishes(m)
       THEN /\ rescues' = [rescues EXCEPT ![m.coin].raw = m.fee]
            /\ queue' = IF Queued(m.coin, m.fee) THEN queue
                        ELSE queue \cup {[coin |-> m.coin, fee |-> m.fee, tries |-> 0]}
       ELSE UNCHANGED <<rescues, queue>>
    /\ UNCHANGED <<trade, chain, facts, strays, asks, newest, second, shown>>

(* -------------------------------- broadcast -------------------------------- *)
\* The effect is gone and the record says which transaction was sent: the one the effect
\* was queued for.
Done(e) ==
    /\ queue' = queue \ {e}
    /\ rescues' = [rescues EXCEPT ![e.coin].sent = e.fee]

Accepted(e) ==
    LET raw == rescues[e.coin].raw IN
    /\ raw # NoFee
    /\ \/ /\ coins[e.coin] \in {"mempool", "confirmed"}
          /\ coins' = [coins EXCEPT ![e.coin] = "rescued"]
          /\ taken' = [taken EXCEPT ![e.coin] = raw]
       \/ taken[e.coin] = raw /\ UNCHANGED <<coins, taken>>   \* the node has it already
    /\ Done(e)
    /\ UNCHANGED <<trade, reorgs, facts, strays, mail>>

\* An operator is called; the record stays as it is.
GivenUp(e) == UNCHANGED rescues

GivesUp(e) == rescues[e.coin].raw = NoFee \/ e.tries + 1 >= MaxTries

Refused(e) ==
    /\ IF GivesUp(e)
       THEN queue' = queue \ {e} /\ GivenUp(e)
       ELSE queue' = (queue \ {e}) \cup {[e EXCEPT !.tries = @ + 1]} /\ UNCHANGED rescues
    /\ UNCHANGED <<trade, chain, facts, strays, mail>>

Next ==
    \/ \E c \in Coins : Pay(c) \/ Mine(c) \/ Reorg(c) \/ oc_rescue(c) \/ sign(c)
    \/ Remit \/ Settle \/ Gather \/ Apply \/ NextSecond
    \/ \E m \in asks : putSignRequest(m)
    \/ \E m \in cosigns : ocRescueCosign(m)
    \/ \E e \in queue : Accepted(e) \/ Refused(e)

Spec == Init /\ [][Next]_vars

\* The watcher polls, effects run, what is mined stays mined; relays redeliver requests,
\* the customer signs what he is shown, the operator presses the button on what is listed
\* once the trade is over, and a node that refuses does not refuse for ever.
ForCoin(c) ==
    /\ WF_vars(Mine(c)) /\ WF_vars(sign(c))
    /\ SF_vars(trade.state = "over" /\ oc_rescue(c))
    /\ \A fee \in Fees : LET m == [coin |-> c, fee |-> fee] IN
         /\ WF_vars(m \in cosigns /\ ocRescueCosign(m))
         /\ SF_vars(fee = newest[c] /\ putSignRequest(m))
         /\ \A n \in 0 .. MaxTries - 1 :
              LET e == [coin |-> c, fee |-> fee, tries |-> n] IN
              /\ WF_vars(e \in queue /\ (Accepted(e) \/ Refused(e)))
    /\ SF_vars(\E e \in queue : e.coin = c /\ Accepted(e))
Fairness ==
    /\ WF_vars(Gather) /\ SF_vars(Apply) /\ WF_vars(NextSecond)
    /\ \A c \in Coins : ForCoin(c)
LiveSpec == Spec /\ Fairness

(* -------------------------------- properties ------------------------------- *)
Message == [coin : Coins, fee : Fees]
TypeOK ==
    /\ trade \in [state : States, pinned : Coins \cup {Nowhere}]
    /\ coins \in [Coins -> {"away", "mempool", "confirmed", "rescued", "settled"}]
    /\ taken \in [Coins -> Fees \cup {NoFee}] /\ reorgs \in 0 .. MaxReorgs
    /\ facts \in [known : BOOLEAN, found : SUBSET Coins, spent : BOOLEAN]
    /\ strays \subseteq Coins
    /\ rescues \in [Coins -> [fee : Fees \cup {NoFee}, raw : Fees \cup {NoFee}, sent : Fees \cup {NoFee}]]
    /\ asks \subseteq Message /\ cosigns \subseteq Message
    /\ newest \in [Coins -> Fees \cup {NoFee}] /\ shown \in [Coins -> Fees \cup {NoFee}]
    /\ second \in BOOLEAN
    /\ queue \subseteq [coin : Coins, fee : Fees, tries : 0 .. MaxTries - 1]

\* No rescue takes the escrow of a trade that lives (flow.ts 181: its own end spends it; to
\* take it once the won were sent would be theft).
LiveEscrowIsKept ==
    \A c \in Coins : coins'[c] = "rescued" /\ coins[c] # "rescued" => ~ isPinnedOfLiveTrade(c)

\* What is marked as sent has left the address: the button to ask for it again is gone
\* with the mark (OnchainOrderDetail.tsx 218), so nobody would see to it any more.
SentHasLeft == \A c \in Coins : rescues[c].sent # NoFee => coins[c] = "rescued"

\* The customer pays the fee he signed for, at the latest request that was finished.
FinishedIsAsked == \A c \in Coins : rescues[c].raw # NoFee => rescues[c].raw = rescues[c].fee

\* With its effects over, the record names the transaction that took the output
\* (store.ts 37: the txid, once the broadcast was accepted).
SentIsTheOne ==
    \A c \in Coins : rescues[c].sent # NoFee /\ (\A e \in queue : e.coin # c)
                     => rescues[c].sent = taken[c]

\* Every rescue on record has been asked of the customer (messages.ts 71: sending again
\* is a new event; sign-request-store.ts 11: each output comes with a request of its own).
EachIsAskedFor ==
    \A c \in Coins : rescues[c].fee # NoFee => [coin |-> c, fee |-> rescues[c].fee] \in asks

\* Money left at the address of a trade that is over goes back to the customer, though
\* broadcasts are given up and asked for anew.
Astray(c) == trade.state = "over" /\ coins[c] = "confirmed"
Returned(c) == coins[c] \in {"rescued", "mempool"}
StraysReturn ==
    \A c \in Coins : Astray(c) ~> Returned(c)
=============================================================================
