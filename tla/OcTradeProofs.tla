---------------------------- MODULE OcTradeProofs ----------------------------
(***************************************************************************)
(* OcTrade, proved for any sponsors, outputs at the escrow's address,      *)
(* reorganisations and restarts: the ledger against the chain, the bonds   *)
(* against the verdict, the clock against the mail.  What a mishap of the  *)
(* constant Mishaps would break says so in its ASSUME.                     *)
(***************************************************************************)
EXTENDS OcTrade, TLAPS

Undecided == {"none", "listed", "bonded", "funded", "presigned", "remitted", "cancelled"}
Booked == {"released", "refunded", "sponsor_wins", "customer_wins"}
Unpinned == {"none", "listed", "bonded", "cancelled"}
Ours == {"release", "refund", "sponsor"}

\* What each stage of the order has fixed.
KindFits ==
  /\ order.state \in Undecided => order.kind = "none"
  /\ order.state = "disputed" => order.kind \in {"none", "sponsor_win", "customer_win"}
  /\ order.state = "refunding" => order.kind \in RefundKind
  /\ order.state \in Booked \cup {"settling"} => order.kind \in SettlementKind
PinFits == order.pinned = "none" <=> order.state \in Unpinned
PartnerFits ==
  /\ order.state = "none" => order.designated = "none"
  /\ order.state \in {"none", "listed"} => order.sponsor = "none"
  /\ order.sponsor = "none" => order.state \in {"none", "listed", "cancelled"}
\* The bonds are judged once: by the kind that is decided, a release apart.
VerdictFits ==
  /\ order.kind = "none" /\ order.state # "cancelled" => verdict = "none"
  /\ order.kind = "refund:account-disputed" => verdict = "none"
  /\ order.kind \notin {"none", "release", "refund:account-disputed"} => verdict = order.kind
\* The transaction that is waited for is one of the kind that is booked.
TxFits == order.state = "settling" => LeafOf(order.tx) = LeafOf(TxFor(order.kind))
OutboxFits ==
  /\ meta.outbox \in Maybe(Ours)
  /\ meta.outbox # "none" => order.state \in OcTerminal \cup {"settling"}
OrderBook == /\ KindFits /\ PinFits /\ PartnerFits /\ VerdictFits
             /\ TxFits /\ OutboxFits /\ ReleaseIsReady

\* What is final stays.
FinalIsDeep == \A u \in Utxos : coins[u].final => coins[u].at = "deep" /\ coins[u].by # "none"
ChainBook == FinalIsDeep /\ LedgerFollowsChain

\* Whose bond the verdict takes, from the first judgement to the end.
Forfeits(p) == verdict # "none" /\ Disposition(order, verdict, p) = "forfeit"
OnlyJustTakings == \A p \in Party : bonds[p] \in {"taking", "taken"} => Forfeits(p)
AllJustTakings == \A p \in Party : order.designated = "none" /\ Forfeits(p) =>
  bonds[p] \in {"taking", "taken"} \/ p \in lapsed
\* Until then the bonds of both are there, or have expired.
Secured(p) == bonds[p] = "held" \/ (bonds[p] = "returned" /\ p \in lapsed)
TradeIsSecured ==
  order.state # "none" /\ verdict = "none" /\ order.designated = "none" =>
    Secured("customer") /\ (order.sponsor # "none" => Secured(order.sponsor))
NoBondWaits ==
  /\ order.state # "none" => bonds["customer"] \notin {"asked", "paid"}
  /\ order.state \notin {"none", "listed"} =>
       \A s \in Sponsors : bonds[s] \notin {"asked", "paid"}
NoOtherIsHeld ==
  /\ \A s \in Sponsors : s # order.sponsor => bonds[s] # "held"
  /\ order.state = "none" => bonds["customer"] # "held" /\ \A s \in Sponsors : bonds[s] = "none"
DesignatedHasNone == order.designated # "none" =>
  bonds["customer"] # "held" /\ \A s \in Sponsors : bonds[s] = "none"
ExpiredIsGone == order.kind = "refund:bond-expired" => bonds[order.sponsor] # "held"
EndedHoldsNothing ==
  order.state \in OcTerminal \ {"swept"} /\ order.kind # "refund:account-disputed" =>
    \A p \in Party : bonds[p] # "held"
BondBook == /\ OnlyJustTakings /\ AllJustTakings /\ TradeIsSecured /\ NoBondWaits
            /\ NoOtherIsHeld /\ DesignatedHasNone /\ ExpiredIsGone /\ EndedHoldsNothing

\* A daemon that judges by the clock has handled what was sent in time.
DueIsHeard == due /\ warm => mail = {}

IInv == TypeOK /\ OrderBook /\ ChainBook /\ BondBook /\ DueIsHeard

-----------------------------------------------------------------------------
\* The tables, spelt out.
LEMMA Ends == OcTerminal = Booked \cup {"cancelled", "swept"}
  BY DEF OcTerminal, Booked, ONCHAIN_TRANSITIONS, OcState

LEMMA Transitions ==
  /\ ONCHAIN_TRANSITIONS["listed"] = {"bonded", "cancelled"}
  /\ ONCHAIN_TRANSITIONS["bonded"] = {"funded", "refunding", "cancelled"}
  /\ ONCHAIN_TRANSITIONS["funded"] = {"presigned", "refunding", "bonded", "swept"}
  /\ ONCHAIN_TRANSITIONS["presigned"] = {"remitted", "refunding", "settling", "bonded", "swept"}
  /\ ONCHAIN_TRANSITIONS["remitted"] = {"settling", "disputed", "swept"}
  /\ ONCHAIN_TRANSITIONS["disputed"] = {"settling", "swept"}
  /\ ONCHAIN_TRANSITIONS["refunding"] = {"settling", "swept"}
  /\ ONCHAIN_TRANSITIONS["settling"] = Booked \cup {"swept"}
  /\ \A s \in OcTerminal : ONCHAIN_TRANSITIONS[s] = {}
  BY Ends DEF ONCHAIN_TRANSITIONS, OcState, Booked

LEMMA Terminals ==
  ASSUME NEW k \in SettlementKind
  PROVE  OUTCOME_RULES[k].terminal \in Booked
  BY DEF OUTCOME_RULES, SettlementKind, RefundKind, Outcome, Booked

LEMMA Dispositions ==
  ASSUME NEW k \in Outcome
  PROVE  /\ OUTCOME_RULES[k].sponsorBond =
              IF k \in {"refund:sponsor-timeout", "customer_win"} THEN "forfeit"
              ELSE IF k \in SponsorBondLeft THEN "leave" ELSE "refund"
         /\ OUTCOME_RULES[k].customerBond =
              IF k \in {"refund:customer-late", "sponsor_win", "cancel:no-funding"} THEN "forfeit"
              ELSE IF k \in BothBondsLeft THEN "leave" ELSE "refund"
  BY DEF OUTCOME_RULES, SponsorBondLeft, BothBondsLeft

LEMMA Kinds ==
  /\ SettlementKind \subseteq Outcome /\ RefundKind \subseteq SettlementKind
  /\ "none" \notin Outcome /\ BothBondsLeft \subseteq SponsorBondLeft
  /\ "none" \notin OcState
  BY DEF Outcome, SettlementKind, RefundKind, BothBondsLeft, SponsorBondLeft, OcState

\* What belongs to a kind goes through a leaf of ours.
LEMMA Leaves ==
  /\ \A k : TxFor(k) \in Ours
  /\ \A t \in Ours : LeafOf(t) = CASE t = "release" -> "release" [] t = "refund" -> "customer-win"
                                   [] OTHER -> "sponsor-win"
  /\ LeafOf("timelock") = "timelock" /\ LeafOf("none") = "none" /\ LeafOf("rescue") = "customer-win"
  BY DEF TxFor, LeafOf, Ours

LEMMA Parties ==
  /\ "customer" \in Party /\ Sponsors \subseteq Party /\ "customer" \notin Sponsors
  /\ \A p \in Party : p # "customer" => p \in Sponsors
  /\ "none" \notin Party /\ "none" \notin Utxos
  BY OcTradeAssumption DEF Party

-----------------------------------------------------------------------------
(* What a group of steps leaves alone.                                      *)

LEMMA OrderRests ==
  ASSUME OrderBook, UNCHANGED <<order, verdict>>, meta'.outbox = meta.outbox,
         meta'.presig = meta.presig
  PROVE  OrderBook'
  BY DEF OrderBook, KindFits, PinFits, PartnerFits, VerdictFits, TxFits, OutboxFits, ReleaseIsReady

LEMMA ChainRests ==
  ASSUME ChainBook, UNCHANGED coins, UNCHANGED order \/ order'.state \notin Booked,
         order'.state \in OcState \cup {"none"}
  PROVE  ChainBook'
<1>1. FinalIsDeep'
  BY DEF ChainBook, FinalIsDeep
<1>2. CASE UNCHANGED order
  BY <1>1, <1>2 DEF ChainBook, LedgerFollowsChain, Ended, Pinned
<1>3. CASE order'.state \notin Booked
  <2>1. LedgerFollowsChain'
    BY <1>3, Ends DEF LedgerFollowsChain, Ended
  <2> QED
    BY <1>1, <2>1 DEF ChainBook
<1> QED
  BY <1>2, <1>3

LEMMA BondsRest ==
  ASSUME BondBook, UNCHANGED <<order, bonds, lapsed, verdict>>
  PROVE  BondBook'
  BY DEF BondBook, OnlyJustTakings, AllJustTakings, TradeIsSecured, NoBondWaits, NoOtherIsHeld,
         DesignatedHasNone, ExpiredIsGone, EndedHoldsNothing, Forfeits, Secured

LEMMA ClockRests ==
  ASSUME DueIsHeard, UNCHANGED due \/ due' = FALSE, UNCHANGED warm \/ warm' = FALSE,
         mail' \subseteq mail
  PROVE  DueIsHeard'
  BY DEF DueIsHeard

\* A move that judges nobody leaves the bonds' book right.
LEMMA Unjudged ==
  ASSUME BondBook, UNCHANGED <<bonds, lapsed, verdict>>,
         order.state # "none", order'.state # "none",
         order'.state # "listed" => order.state # "listed",
         order'.state \notin OcTerminal \ {"swept"},
         order'.designated = order.designated, order'.sponsor = order.sponsor,
         order'.kind = "refund:bond-expired" => order.kind = "refund:bond-expired"
  PROVE  BondBook'
<1>1. \A p \in Party : Disposition(order', verdict, p) = Disposition(order, verdict, p)
  BY DEF Disposition
<1>2. OnlyJustTakings' /\ AllJustTakings'
  BY <1>1 DEF BondBook, OnlyJustTakings, AllJustTakings, Forfeits
<1>3. TradeIsSecured'
  BY DEF BondBook, TradeIsSecured, Secured
<1>4. NoBondWaits' /\ NoOtherIsHeld' /\ DesignatedHasNone' /\ ExpiredIsGone'
  BY DEF BondBook, NoBondWaits, NoOtherIsHeld, DesignatedHasNone, ExpiredIsGone
<1>5. EndedHoldsNothing'
  BY DEF EndedHoldsNothing
<1> QED
  BY <1>2, <1>3, <1>4, <1>5 DEF BondBook

\* One bond goes on at the node or with its poll; the order stands still.
Goes(p, b) ==
  /\ bonds' = [bonds EXCEPT ![p] = b] /\ b # "held"
  /\ b \in {"taking", "taken"} => bonds[p] \in {"taking", "taken"}
  /\ bonds[p] \in {"taking", "taken"} => b \in {"taking", "taken"} \/ p \in lapsed
  /\ bonds[p] = "held" => b = "returned" /\ p \in lapsed
  /\ bonds[p] = "returned" =>
       order.state = "none" \/ (p # "customer" /\ order.sponsor # p)
  /\ b \in {"asked", "paid"} =>
       IF p = "customer" THEN order.state = "none" ELSE order.state \in {"none", "listed"}
  /\ p \in Sponsors => order.state # "none" /\ order.designated = "none"

LEMMA BondGoes ==
  ASSUME TypeOK, OrderBook, BondBook, UNCHANGED <<order, lapsed, verdict>>,
         NEW p \in Party, NEW b \in BondState, Goes(p, b)
  PROVE  BondBook' /\ bonds' \in [Party -> BondState]
<1>1. /\ bonds \in [Party -> BondState] /\ bonds' = [bonds EXCEPT ![p] = b]
      /\ bonds'[p] = b /\ \A q \in Party : q # p => bonds'[q] = bonds[q]
  BY DEF TypeOK, Goes
<1>2. bonds' \in [Party -> BondState]
  BY <1>1
<1>3. OnlyJustTakings' /\ AllJustTakings'
  BY <1>1 DEF Goes, BondBook, OnlyJustTakings, AllJustTakings, Forfeits
<1>4. order.sponsor # "none" => order.sponsor \in Party
  BY Parties DEF TypeOK, OrderRow, Maybe
<1>5. TradeIsSecured'
  BY <1>1, <1>4, Parties DEF Goes, BondBook, TradeIsSecured, Secured
<1>6. NoBondWaits'
  BY <1>1, Parties DEF Goes, BondBook, NoBondWaits
<1>7. NoOtherIsHeld' /\ DesignatedHasNone'
  BY <1>1, Parties DEF Goes, BondBook, NoOtherIsHeld, DesignatedHasNone, OrderBook, PartnerFits
<1>8. ExpiredIsGone'
  <2>1. order.kind = "refund:bond-expired" => order.sponsor \in Party
    BY <1>4 DEF OrderBook, KindFits, PartnerFits, Undecided
  <2> QED
    BY <1>1, <2>1 DEF Goes, BondBook, ExpiredIsGone
<1>9. EndedHoldsNothing'
  BY <1>1 DEF Goes, BondBook, EndedHoldsNothing
<1> QED
  BY <1>2, <1>3, <1>5, <1>6, <1>7, <1>8, <1>9 DEF BondBook

\* A judgement: what is held is taken or returned by the rule, and nothing else; candidates may
\* be dropped with it.
LEMMA JudgedBonds ==
  ASSUME TypeOK, NEW k \in Outcome
  PROVE  LET js == Judged(order, k) ds == Dropped(js) IN
         /\ js \in [Party -> BondState] /\ ds \in [Party -> BondState]
         /\ \A p \in Party :
              /\ js[p] = IF bonds[p] = "held" /\ Disposition(order, k, p) = "forfeit" THEN "taking"
                         ELSE IF bonds[p] = "held" /\ Disposition(order, k, p) = "refund"
                         THEN "returning" ELSE bonds[p]
              /\ ds[p] = IF p # "customer" /\ js[p] \in {"asked", "paid"} THEN "returning" ELSE js[p]
<1> DEFINE js == Judged(order, k)
           ds == Dropped(js)
<1>1. \A p \in Party : js[p] = IF bonds[p] = "held" /\ Disposition(order, k, p) = "forfeit" THEN "taking"
                         ELSE IF bonds[p] = "held" /\ Disposition(order, k, p) = "refund"
                         THEN "returning" ELSE bonds[p]
  BY DEF Judged, Touchable
<1>2. \A p \in Party : ds[p] = IF p # "customer" /\ js[p] \in {"asked", "paid"} THEN "returning" ELSE js[p]
  BY DEF Dropped
<1>3. js = [p \in Party |-> js[p]] /\ ds = [p \in Party |-> ds[p]]
  BY DEF Judged, Dropped
<1> HIDE DEF js, ds
<1>4. \A p \in Party : js[p] \in BondState
  BY <1>1 DEF TypeOK, BondState
<1>5. \A p \in Party : ds[p] \in BondState
  BY <1>2, <1>4 DEF BondState
<1>6. js \in [Party -> BondState] /\ ds \in [Party -> BondState]
  BY <1>3, <1>4, <1>5
<1> QED
  BY <1>1, <1>2, <1>6 DEF js, ds

\* Whether this judgement is the first or says what the first one said.
Agrees(k) == verdict = "none" \/ verdict = k \/ k = "release" \/ k \in BothBondsLeft

LEMMA Judges ==
  ASSUME TypeOK, OrderBook, BondBook, NEW k \in Outcome, Agrees(k),
         order.state # "none", order'.state # "none",
         order'.designated = order.designated, order'.sponsor = order.sponsor,
         bonds' \in {Judged(order, k), Dropped(Judged(order, k))},
         verdict' = Verdict(k), UNCHANGED lapsed
  PROVE  /\ OnlyJustTakings' /\ AllJustTakings' /\ TradeIsSecured' /\ NoOtherIsHeld'
         /\ DesignatedHasNone' /\ bonds' \in [Party -> BondState] /\ verdict' \in Maybe(Outcome)
         /\ \A p \in Party :
              /\ bonds'[p] = "held" =>
                   bonds[p] = "held" /\ Disposition(order, k, p) = "leave"
              /\ bonds'[p] \in {"asked", "paid"} => bonds[p] = bonds'[p]
              /\ p \in Sponsors /\ bonds' = Dropped(Judged(order, k)) =>
                   bonds'[p] \notin {"asked", "paid"}
<1> DEFINE disp(p) == Disposition(order, k, p)
           took(p) == bonds[p] = "held" /\ disp(p) = "forfeit"
           gave(p) == bonds[p] = "held" /\ disp(p) = "refund"
<1>1. \A p \in Party :
        /\ took(p) => bonds'[p] = "taking"
        /\ gave(p) => bonds'[p] = "returning"
        /\ ~ took(p) /\ ~ gave(p) =>
             bonds'[p] = bonds[p] \/ (bonds[p] \in {"asked", "paid"} /\ bonds'[p] = "returning" /\ p # "customer")
        /\ p # "customer" /\ bonds' = Dropped(Judged(order, k)) => bonds'[p] \notin {"asked", "paid"}
  BY JudgedBonds
<1>2. bonds' \in [Party -> BondState]
  BY JudgedBonds
<1>3. \A p \in Party : disp(p) \in {"forfeit", "refund", "leave"}
  BY Dispositions DEF Disposition
<1>4. verdict \in Maybe(Outcome) /\ "none" \notin Outcome
  BY Kinds DEF TypeOK
<1>5. \A p \in Party : disp(p) = "forfeit" => k # "release" /\ k \notin BothBondsLeft
  BY Dispositions DEF Disposition, BothBondsLeft
<1>6. /\ verdict # "none" => verdict' = verdict
      /\ verdict = "none" /\ k \notin BothBondsLeft => verdict' = k
      /\ verdict = "none" /\ k \in BothBondsLeft => verdict' = "none"
  BY DEF Verdict
<1>7. \A p \in Party : \A v : Disposition(order', v, p) = Disposition(order, v, p)
  BY DEF Disposition
<1>8. verdict' \in Maybe(Outcome)
  BY <1>4, <1>6 DEF Maybe
<1>9. \A p \in Party : disp(p) = "forfeit" => verdict' = k
  BY <1>4, <1>5, <1>6 DEF Agrees
<1>10. OnlyJustTakings'
  <2> SUFFICES ASSUME NEW p \in Party, bonds'[p] \in {"taking", "taken"}
               PROVE  verdict' # "none" /\ Disposition(order', verdict', p) = "forfeit"
    BY DEF OnlyJustTakings, Forfeits
  <2>1. CASE took(p)
    BY <2>1, <1>4, <1>7, <1>9
  <2>2. CASE ~ took(p)
    <3>1. bonds[p] \in {"taking", "taken"}
      BY <2>2, <1>1
    <3>2. verdict # "none" /\ Disposition(order, verdict, p) = "forfeit"
      BY <3>1 DEF BondBook, OnlyJustTakings, Forfeits
    <3> QED
      BY <3>2, <1>6, <1>7
  <2> QED
    BY <2>1, <2>2
<1>11. AllJustTakings'
  <2> SUFFICES ASSUME NEW p \in Party, order.designated = "none", verdict' # "none",
                      Disposition(order, verdict', p) = "forfeit"
               PROVE  bonds'[p] \in {"taking", "taken"} \/ p \in lapsed
    BY <1>7 DEF AllJustTakings, Forfeits
  <2>1. CASE verdict # "none"
    <3>1. bonds[p] \in {"taking", "taken"} \/ p \in lapsed
      BY <2>1, <1>6 DEF BondBook, AllJustTakings, Forfeits
    <3> QED
      BY <3>1, <1>1
  <2>2. CASE verdict = "none"
    <3>1. verdict' = k /\ disp(p) = "forfeit"
      BY <2>2, <1>6
    <3>2. p = "customer" \/ p = order.sponsor
      BY <3>1 DEF Disposition
    <3>3. bonds[p] = "held" \/ p \in lapsed
      BY <2>2, <3>2, Parties DEF BondBook, TradeIsSecured, Secured
    <3> QED
      BY <3>1, <3>3, <1>1
  <2> QED
    BY <2>1, <2>2
<1>12. TradeIsSecured'
  <2> SUFFICES ASSUME verdict' = "none", order.designated = "none"
               PROVE  Secured("customer")' /\ (order.sponsor # "none" => Secured(order.sponsor)')
    BY DEF TradeIsSecured, Secured
  <2>1. verdict = "none" /\ k \in BothBondsLeft
    BY <1>4, <1>6
  <2>2. \A p \in Party : disp(p) = "leave"
    BY <2>1, Dispositions DEF Disposition, BothBondsLeft, SponsorBondLeft
  <2>3. \A p \in Party : Secured(p) => bonds'[p] = bonds[p]
    BY <2>2, <1>1 DEF Secured
  <2>4. order.sponsor # "none" => order.sponsor \in Party
    BY Parties DEF TypeOK, OrderRow, Maybe
  <2> QED
    BY <2>1, <2>3, <2>4, Parties DEF BondBook, TradeIsSecured, Secured
<1>13. NoOtherIsHeld' /\ DesignatedHasNone'
  BY <1>1, Parties DEF BondBook, NoOtherIsHeld, DesignatedHasNone
<1>14. \A p \in Party : /\ bonds'[p] = "held" => bonds[p] = "held" /\ disp(p) = "leave"
                        /\ bonds'[p] \in {"asked", "paid"} => bonds[p] = bonds'[p]
  BY <1>1, <1>3
<1> QED
  BY <1>1, <1>2, <1>8, <1>10, <1>11, <1>12, <1>13, <1>14, Parties

-----------------------------------------------------------------------------
(* Steps that leave the order where it is.                                  *)

LEMMA Stands ==
  ASSUME IInv, TypeOK', BondBook', UNCHANGED <<order, verdict, coins>>,
         meta'.outbox = meta.outbox, meta'.presig = meta.presig,
         UNCHANGED due \/ due' = FALSE, UNCHANGED warm \/ warm' = FALSE, mail' \subseteq mail
  PROVE  IInv'
<1>1. OrderBook'
  BY OrderRests DEF IInv
<1>2. ChainBook'
  BY ChainRests DEF IInv, TypeOK, OrderRow
<1>3. DueIsHeard'
  BY ClockRests DEF IInv
<1> QED
  BY <1>1, <1>2, <1>3 DEF IInv

\* The same, and the bonds with it.
LEMMA StandsStill ==
  ASSUME IInv, TypeOK', UNCHANGED <<order, bonds, lapsed, verdict, coins>>,
         meta'.outbox = meta.outbox, meta'.presig = meta.presig,
         UNCHANGED due \/ due' = FALSE, UNCHANGED warm \/ warm' = FALSE, mail' \subseteq mail
  PROVE  IInv'
<1>1. BondBook'
  BY BondsRest DEF IInv
<1> QED
  BY <1>1, Stands

LEMMA AtNodeType ==
  ASSUME TypeOK, AtTheNode, bonds' \in [Party -> BondState], lapsed' \subseteq Party,
         UNCHANGED verdict
  PROVE  TypeOK'
  BY DEF TypeOK, AtTheNode, chain

LEMMA AtNode ==
  ASSUME IInv, NEW p \in Party, BondPaid(p) \/ BondFails(p) \/ Lapse(p)
  PROVE  IInv'
<1>1. CASE Lapse(p)
  <2>1. TypeOK'
    BY <1>1, AtNodeType DEF IInv, TypeOK, Lapse, AtTheNode
  <2>2. BondBook'
    BY <1>1, Parties DEF IInv, Lapse, AtTheNode, BondBook, OnlyJustTakings, AllJustTakings, TradeIsSecured,
       NoBondWaits, NoOtherIsHeld, DesignatedHasNone, ExpiredIsGone, EndedHoldsNothing, Forfeits,
       Secured
  <2> QED
    BY <1>1, <2>1, <2>2, Stands DEF Lapse, AtTheNode, chain
<1>2. CASE BondPaid(p) \/ BondFails(p)
  <2>1. UNCHANGED <<order, lapsed, verdict, coins, meta, due, warm, mail>>
    BY <1>2 DEF BondPaid, BondFails, AtTheNode, chain
  <2>2. PICK b \in {"paid", "none"} : bonds' = [bonds EXCEPT ![p] = b] /\ bonds[p] = "asked"
    BY <1>2 DEF BondPaid, BondFails
  <2>3. p \in Sponsors => order.state # "none" /\ order.designated = "none"
    BY <2>2 DEF IInv, BondBook, NoOtherIsHeld, DesignatedHasNone
  <2>4. IF p = "customer" THEN order.state = "none" ELSE order.state \in {"none", "listed"}
    BY <2>2, Parties DEF IInv, BondBook, NoBondWaits
  <2>5. Goes(p, b) /\ b \in BondState
    BY <2>2, <2>3, <2>4 DEF Goes, BondState
  <2>6. BondBook' /\ bonds' \in [Party -> BondState]
    BY <2>1, <2>5, BondGoes DEF IInv
  <2>7. TypeOK'
    BY <1>2, <2>1, <2>6, AtNodeType DEF IInv, TypeOK, BondPaid, BondFails
  <2> QED
    BY <2>1, <2>6, <2>7, Stands
<1> QED
  BY <1>1, <1>2

LEMMA ClockSteps ==
  ASSUME IInv, DeadlinePasses \/ Restart \/ WarmUp
  PROVE  IInv'
<1>1. UNCHANGED <<order, meta, bonds, lapsed, coins, reorgs, outgoing, copies, alerts, verdict, mail>>
  BY DEF DeadlinePasses, Restart, WarmUp, Around, chain
<1>2. TypeOK'
  <2>1. crashes' \in 0..MaxCrashes
    <3>1. crashes \in 0..MaxCrashes /\ MaxCrashes \in Nat
      BY OcTradeAssumption DEF IInv, TypeOK
    <3>2. crashes' = crashes \/ (crashes < MaxCrashes /\ crashes' = crashes + 1)
      BY DEF DeadlinePasses, Restart, WarmUp
    <3> QED
      BY <3>1, <3>2
  <2>2. due' \in BOOLEAN /\ warm' \in BOOLEAN
    BY Zenon DEF IInv, TypeOK, DeadlinePasses, Restart, WarmUp
  <2> QED
    BY <1>1, <2>1, <2>2 DEF IInv, TypeOK
<1>3. OrderBook' /\ BondBook'
  BY <1>1, OrderRests, BondsRest DEF IInv
<1>4. ChainBook'
  BY <1>1, <1>2, ChainRests DEF IInv, TypeOK, OrderRow
<1>5. DueIsHeard'
  BY <1>1 DEF IInv, DueIsHeard, DeadlinePasses, Restart, WarmUp, TypeOK
<1> QED
  BY <1>2, <1>3, <1>4, <1>5 DEF IInv

LEMMA PeopleSteps ==
  ASSUME IInv, People
  PROVE  IInv'
<1>1. PICK what \in Utxos \cup {"account", "remit", "objection"} : Sends(what)
  <2>1. order.state = "funded" => order.pinned \in Utxos
    BY DEF IInv, OrderBook, PinFits, Unpinned, TypeOK, OrderRow, Maybe
  <2> QED
    BY <2>1 DEF People, SponsorSigns, CustomerSendsAccount, SponsorRemits, SponsorObjects
<1>2. UNCHANGED <<order, meta, bonds, lapsed, coins, reorgs, outgoing, due, warm, copies, crashes, alerts, verdict>>
  BY <1>1 DEF Sends, chain
<1>3. TypeOK'
  BY <1>1, <1>2 DEF IInv, TypeOK, Sends
<1>4. OrderBook' /\ BondBook'
  BY <1>2, OrderRests, BondsRest DEF IInv
<1>5. ChainBook'
  BY <1>2, <1>3, ChainRests DEF IInv, TypeOK, OrderRow
<1>6. DueIsHeard'
  BY <1>1, <1>2 DEF DueIsHeard, Sends
<1> QED
  BY <1>3, <1>4, <1>5, <1>6 DEF IInv

-----------------------------------------------------------------------------
(* The chain.                                                               *)

\* A coin that goes on, and what it keeps: of one that is final, everything.
CoinGoes(u, c) == /\ coins' = [coins EXCEPT ![u] = c] /\ c \in Coin
                  /\ coins[u].final => c.final /\ c.by = coins[u].by /\ c.at = coins[u].at
                  /\ c.final => c.at = "deep" /\ c.by # "none"

LEMMA CoinMoves ==
  ASSUME TypeOK, ChainBook, UNCHANGED order, NEW u \in Utxos, NEW c, CoinGoes(u, c),
         order.state \in Booked => order.pinned \in Utxos
  PROVE  ChainBook' /\ coins' \in [Utxos -> Coin]
<1>1. /\ coins' \in [Utxos -> Coin] /\ coins'[u] = c
      /\ \A v \in Utxos : v # u => coins'[v] = coins[v]
  BY DEF TypeOK, CoinGoes
<1>2. FinalIsDeep'
  BY <1>1 DEF CoinGoes, ChainBook, FinalIsDeep
<1>3. LedgerFollowsChain'
  <2> SUFFICES ASSUME order.state \in Booked
               PROVE  coins'[order.pinned].final /\ order.state = OUTCOME_RULES[order.kind].terminal
                      /\ LeafOf(coins'[order.pinned].by) = LeafOf(TxFor(order.kind))
    BY Ends DEF LedgerFollowsChain, Ended, Pinned
  <2>1. /\ coins[order.pinned].final /\ order.state = OUTCOME_RULES[order.kind].terminal
        /\ LeafOf(coins[order.pinned].by) = LeafOf(TxFor(order.kind))
    BY Ends DEF ChainBook, LedgerFollowsChain, Ended, Pinned, Booked
  <2>2. coins'[order.pinned].final = coins[order.pinned].final \/ coins'[order.pinned].final
    BY <1>1, <2>1 DEF CoinGoes
  <2>3. coins'[order.pinned].by = coins[order.pinned].by
    BY <1>1, <2>1 DEF CoinGoes
  <2> QED
    BY <2>1, <2>2, <2>3
<1> QED
  BY <1>1, <1>2, <1>3 DEF ChainBook

LEMMA BookedIsPinned ==
  ASSUME TypeOK, OrderBook, order.state \notin Unpinned
  PROVE  order.pinned \in Utxos
  BY DEF TypeOK, OrderBook, PinFits, OrderRow, Maybe

LEMMA CoinSteps ==
  ASSUME IInv, OnChain, NEW u \in Utxos, NEW c, CoinGoes(u, c), reorgs' \in 0..MaxReorgs
  PROVE  IInv'
<1>1. UNCHANGED <<order, meta, bonds, lapsed, outgoing, due, warm, mail, copies, crashes, alerts, verdict>>
  BY DEF OnChain
<1>2. ChainBook' /\ coins' \in [Utxos -> Coin]
  BY <1>1, CoinMoves, BookedIsPinned DEF IInv, Booked, Unpinned
<1>3. TypeOK'
  BY <1>1, <1>2 DEF IInv, TypeOK
<1>4. OrderBook' /\ BondBook' /\ DueIsHeard'
  BY <1>1, OrderRests, BondsRest, ClockRests DEF IInv
<1> QED
  BY <1>2, <1>3, <1>4 DEF IInv

\* What each event of the chain writes to a coin.
LEMMA Coin_At ==
  ASSUME NEW c \in Coin, NEW a \in {"none", "mempool", "shallow", "deep"}
  PROVE  LET d == [c EXCEPT !.at = a] IN
         d \in Coin /\ d.at = a /\ d.value = c.value /\ d.by = c.by /\ d.final = c.final
  BY DEF Coin

LEMMA Coin_By ==
  ASSUME NEW c \in Coin, NEW t \in Maybe(Tx)
  PROVE  LET d == [c EXCEPT !.by = t] IN
         d \in Coin /\ d.by = t /\ d.value = c.value /\ d.at = c.at /\ d.final = c.final
  BY DEF Coin

LEMMA Coin_Final ==
  ASSUME NEW c \in Coin
  PROVE  LET d == [c EXCEPT !.final = TRUE] IN
         d \in Coin /\ d.final /\ d.value = c.value /\ d.at = c.at /\ d.by = c.by
  BY DEF Coin

LEMMA Coin_Seen ==
  ASSUME NEW c \in Coin, NEW v \in {"exact", "wrong"}
  PROVE  LET d == [c EXCEPT !.at = "mempool", !.value = v] IN
         d \in Coin /\ d.at = "mempool" /\ d.value = v /\ d.by = c.by /\ d.final = c.final
  BY DEF Coin

LEMMA Coin_Gone ==
  ASSUME NEW c \in Coin
  PROVE  LET d == [c EXCEPT !.at = "none", !.by = "none"] IN
         d \in Coin /\ d.at = "none" /\ d.by = "none" /\ d.value = c.value /\ d.final = c.final
  BY DEF Coin, Maybe

LEMMA Coins ==
  ASSUME TypeOK, NEW u \in Utxos
  PROVE  coins \in [Utxos -> Coin] /\ coins[u] \in Coin /\ coins[u].final \in BOOLEAN
  BY DEF TypeOK, Coin

LEMMA ReorgIsACoin ==
  ASSUME NEW u \in Utxos, coins \in [Utxos -> Coin]
  PROVE  /\ [coins EXCEPT ![u].at = "shallow"] = [coins EXCEPT ![u] = [coins[u] EXCEPT !.at = "shallow"]]
         /\ [coins EXCEPT ![u].at = "mempool"] = [coins EXCEPT ![u] = [coins[u] EXCEPT !.at = "mempool"]]
         /\ [coins EXCEPT ![u].at = "none", ![u].by = "none"]
              = [coins EXCEPT ![u] = [coins[u] EXCEPT !.at = "none", !.by = "none"]]
         /\ \A t : [coins EXCEPT ![u].by = t] = [coins EXCEPT ![u] = [coins[u] EXCEPT !.by = t]]
<1> DEFINE x == [coins EXCEPT ![u].at = "none", ![u].by = "none"]
           d == [coins[u] EXCEPT !.at = "none", !.by = "none"]
           y == [coins EXCEPT ![u] = d]
<1>1. x = [v \in Utxos |-> IF v = u THEN d ELSE coins[v]]
  OBVIOUS
<1>2. x = y
  BY <1>1
<1>3. /\ [coins EXCEPT ![u].at = "shallow"] = [coins EXCEPT ![u] = [coins[u] EXCEPT !.at = "shallow"]]
      /\ [coins EXCEPT ![u].at = "mempool"] = [coins EXCEPT ![u] = [coins[u] EXCEPT !.at = "mempool"]]
  OBVIOUS
<1>4. \A t : [coins EXCEPT ![u].by = t] = [coins EXCEPT ![u] = [coins[u] EXCEPT !.by = t]]
  OBVIOUS
<1> QED
  BY <1>2, <1>3, <1>4

LEMMA Deposits ==
  ASSUME IInv, NEW u \in Utxos, Deposit(u)
  PROVE  IInv'
<1>1. PICK v \in {"exact", "wrong"} : coins' = [coins EXCEPT ![u] = [coins[u] EXCEPT !.at = "mempool", !.value = v]]
  BY DEF Deposit, Becomes
<1> DEFINE c == [coins[u] EXCEPT !.at = "mempool", !.value = v]
<1>2. c \in Coin /\ c.final = coins[u].final
  <2>1. coins[u] \in Coin
    BY Coins DEF IInv
  <2> QED
    BY ONLY <2>1, v \in {"exact", "wrong"}, Coin_Seen
<1>3. ~ coins[u].final
  BY DEF Deposit, IInv, ChainBook, FinalIsDeep
<1> HIDE DEF c
<1>4. CoinGoes(u, c)
  BY <1>1, <1>2, <1>3 DEF CoinGoes, c
<1>5. OnChain /\ reorgs' \in 0..MaxReorgs
  BY DEF Deposit, Becomes, IInv, TypeOK
<1> QED
  BY <1>4, <1>5, CoinSteps

LEMMA Mines ==
  ASSUME IInv, NEW u \in Utxos, Mine(u)
  PROVE  IInv'
<1>1. PICK a \in {"shallow", "deep"} : coins' = [coins EXCEPT ![u] = [coins[u] EXCEPT !.at = a]]
  BY DEF Mine, Becomes
<1> DEFINE c == [coins[u] EXCEPT !.at = a]
<1>2. c \in Coin /\ c.final = coins[u].final
  BY Coins DEF IInv, Coin
<1>3. ~ coins[u].final
  BY DEF Mine, IInv, ChainBook, FinalIsDeep
<1> HIDE DEF c
<1>4. CoinGoes(u, c)
  BY <1>1, <1>2, <1>3 DEF CoinGoes, c
<1>5. OnChain /\ reorgs' \in 0..MaxReorgs
  BY DEF Mine, Becomes, IInv, TypeOK
<1> QED
  BY <1>4, <1>5, CoinSteps

LEMMA Drops ==
  ASSUME IInv, NEW u \in Utxos, Drop(u)
  PROVE  IInv'
<1> DEFINE c == [coins[u] EXCEPT !.at = "none"]
<1>1. coins' = [coins EXCEPT ![u] = c]
  BY DEF Drop, Becomes
<1>2. c \in Coin /\ c.final = coins[u].final
  BY Coin_At, Coins DEF IInv
<1>3. ~ coins[u].final
  BY DEF Drop, IInv, ChainBook, FinalIsDeep
<1> HIDE DEF c
<1>4. CoinGoes(u, c)
  BY <1>1, <1>2, <1>3 DEF CoinGoes
<1>5. OnChain /\ reorgs' \in 0..MaxReorgs
  BY DEF Drop, Becomes, IInv, TypeOK
<1> QED
  BY <1>4, <1>5, CoinSteps

LEMMA Reorgs ==
  ASSUME IInv, NEW u \in Utxos, Reorg(u)
  PROVE  IInv'
<1>1. OnChain /\ ~ coins[u].final
  BY DEF Reorg
<1>2. reorgs' \in 0..MaxReorgs
  <2>1. reorgs \in 0..MaxReorgs /\ reorgs < MaxReorgs /\ reorgs' = reorgs + 1 /\ MaxReorgs \in Nat
    BY OcTradeAssumption DEF Reorg, IInv, TypeOK
  <2> QED
    BY <2>1
<1> DEFINE lower(a) == [coins[u] EXCEPT !.at = a]
           gone == [coins[u] EXCEPT !.at = "none", !.by = "none"]
<1>3. \/ \E a \in {"shallow", "mempool"} : coins' = [coins EXCEPT ![u] = lower(a)]
      \/ coins' = [coins EXCEPT ![u] = gone]
  BY ReorgIsACoin, Coins DEF Reorg, IInv
<1>4. ASSUME NEW a \in {"shallow", "mempool"}, coins' = [coins EXCEPT ![u] = lower(a)] PROVE IInv'
  <2>1. lower(a) \in Coin /\ lower(a).final = coins[u].final
    BY Coins DEF IInv, Coin
  <2> HIDE DEF lower
  <2>2. CoinGoes(u, lower(a))
    BY <1>1, <1>4, <2>1 DEF CoinGoes
  <2> QED
    BY <1>1, <1>2, <2>2, CoinSteps
<1>5. CASE coins' = [coins EXCEPT ![u] = gone]
  <2>1. gone \in Coin /\ gone.final = coins[u].final
    BY Coin_Gone, Coins DEF IInv
  <2> HIDE DEF gone
  <2>2. CoinGoes(u, gone)
    BY <1>1, <1>5, <2>1 DEF CoinGoes
  <2> QED
    BY <1>1, <1>2, <2>2, CoinSteps
<1> QED
  BY <1>3, <1>4, <1>5

LEMMA SpendsConfirm ==
  ASSUME IInv, NEW u \in Utxos, SpendConfirms(u)
  PROVE  IInv'
<1> DEFINE c == [coins[u] EXCEPT !.final = TRUE]
<1>1. coins' = [coins EXCEPT ![u] = c] /\ coins[u].at = "deep" /\ coins[u].by # "none"
  BY DEF SpendConfirms, Becomes
<1>2. c \in Coin /\ c.final /\ c.at = coins[u].at /\ c.by = coins[u].by
  BY Coin_Final, Coins DEF IInv
<1> HIDE DEF c
<1>3. CoinGoes(u, c)
  BY <1>1, <1>2 DEF CoinGoes
<1>4. OnChain /\ reorgs' \in 0..MaxReorgs
  BY DEF SpendConfirms, Becomes, IInv, TypeOK
<1> QED
  BY <1>3, <1>4, CoinSteps

LEMMA Spends ==
  ASSUME IInv, NEW u \in Utxos,
         Evict(u) \/ Sweep(u) \/ ReleaseOnChain(u)
  PROVE  IInv'
<1>1. PICK t \in {"none", "timelock", "release"} :
         coins' = [coins EXCEPT ![u] = [coins[u] EXCEPT !.by = t]]
  BY DEF Evict, Sweep, ReleaseOnChain, Spend, Becomes
<1> DEFINE c == [coins[u] EXCEPT !.by = t]
<1>2. c \in Coin /\ c.final = coins[u].final
  BY Coin_By, Coins DEF IInv, Maybe, Tx
<1>3. ~ coins[u].final
  BY DEF Evict, Sweep, ReleaseOnChain, Spend, IInv, ChainBook, FinalIsDeep
<1> HIDE DEF c
<1>4. CoinGoes(u, c)
  BY <1>1, <1>2, <1>3 DEF CoinGoes, c
<1>5. OnChain /\ reorgs' \in 0..MaxReorgs
  BY DEF Evict, Sweep, ReleaseOnChain, Spend, Becomes, IInv, TypeOK
<1> QED
  BY <1>4, <1>5, CoinSteps

LEMMA Broadcasts ==
  ASSUME IInv, NEW e \in outgoing, Broadcast(e) \/ BroadcastDead(e)
  PROVE  IInv'
<1>1. UNCHANGED <<order, due, bonds, verdict, lapsed, reorgs, warm, mail, copies, crashes, alerts>>
      /\ outgoing' = outgoing \ {e}
  BY DEF Broadcast, BroadcastDead, Broadcasting, trade
<1>2. e.coin \in Utxos /\ e.tx \in Tx
  BY DEF IInv, TypeOK
<1>3. meta' \in MetaRow /\ meta'.outbox = meta.outbox /\ meta'.presig = meta.presig
  <2>1. meta \in MetaRow
    BY DEF IInv, TypeOK
  <2>2. meta' = meta \/ meta' = [meta EXCEPT !.rescues[e.coin] = "sent"]
    BY DEF Broadcast, BroadcastDead
  <2> QED
    BY <1>2, <2>1, <2>2 DEF MetaRow
<1>4. ChainBook' /\ coins' \in [Utxos -> Coin]
  <2>1. CASE BroadcastDead(e)
    <3>1. UNCHANGED coins
      BY <2>1 DEF BroadcastDead
    <3> QED
      BY <1>1, <3>1, ChainRests DEF IInv, TypeOK, OrderRow
  <2>2. CASE Broadcast(e)
    <3> DEFINE c == [coins[e.coin] EXCEPT !.by = e.tx]
    <3>1. coins' = [coins EXCEPT ![e.coin].by = e.tx]
      BY <2>2 DEF Broadcast
    <3>2. coins' = [coins EXCEPT ![e.coin] = c]
      BY <1>2, <3>1, ReorgIsACoin, Coins DEF IInv
    <3>3. c \in Coin /\ c.final = coins[e.coin].final /\ c.by = e.tx /\ c.at = coins[e.coin].at
      BY <1>2, Coin_By, Coins DEF IInv, Maybe
    <3>4. coins[e.coin].final => coins[e.coin].by = e.tx /\ coins[e.coin].at = "deep" /\ e.tx # "none"
      BY <1>2, <2>2 DEF Broadcast, ChainTakes, IInv, ChainBook, FinalIsDeep
    <3> HIDE DEF c
    <3>5. CoinGoes(e.coin, c)
      BY <3>2, <3>3, <3>4 DEF CoinGoes
    <3> QED
      BY <1>1, <1>2, <3>5, CoinMoves, BookedIsPinned DEF IInv, Booked, Unpinned
  <2> QED
    BY <2>1, <2>2
<1>5. TypeOK'
  BY <1>1, <1>3, <1>4 DEF IInv, TypeOK
<1>6. OrderBook' /\ BondBook' /\ DueIsHeard'
  BY <1>1, <1>3, OrderRests, BondsRest, ClockRests DEF IInv
<1> QED
  BY <1>4, <1>5, <1>6 DEF IInv

-----------------------------------------------------------------------------
(* One bond at a time.                                                      *)

LEMMA BondSteps ==
  ASSUME IInv, NEW p \in Party, NEW b \in BondState, Goes(p, b),
         UNCHANGED <<order, meta, coins, reorgs, outgoing, due, warm, mail, copies, crashes, lapsed, verdict>>,
         alerts' \subseteq Alert
  PROVE  IInv'
<1>1. BondBook' /\ bonds' \in [Party -> BondState]
  BY BondGoes DEF IInv
<1>2. TypeOK'
  BY <1>1 DEF IInv, TypeOK
<1> QED
  BY <1>1, <1>2, Stands

LEMMA AsksForBonds ==
  ASSUME IInv, ocOrderRequest
  PROVE  IInv'
<1>1. Goes("customer", "asked") /\ "asked" \in BondState
  BY Parties DEF ocOrderRequest, Goes, BondState
<1>2. UNCHANGED <<order, meta, coins, reorgs, outgoing, due, warm, mail, copies, crashes, lapsed, verdict, alerts>>
  BY DEF ocOrderRequest, Handling, chain
<1> QED
  BY <1>1, <1>2, BondSteps, Parties DEF IInv, TypeOK

LEMMA Disposes ==
  ASSUME IInv, NEW p \in Party, DisposeBond(p)
  PROVE  IInv'
<1> DEFINE b == IF bonds[p] = "taking" /\ p \notin lapsed THEN "taken" ELSE "returned"
<1>1. bonds' = [bonds EXCEPT ![p] = b] /\ bonds[p] \in {"taking", "returning"}
  BY Zenon DEF DisposeBond
<1>2. p \in Sponsors => order.state # "none" /\ order.designated = "none"
  BY <1>1 DEF IInv, BondBook, NoOtherIsHeld, DesignatedHasNone
<1>3. Goes(p, b) /\ b \in BondState
  BY <1>1, <1>2 DEF Goes, BondState
<1>4. UNCHANGED <<order, meta, coins, reorgs, outgoing, due, warm, mail, copies, crashes, lapsed, verdict>>
  BY DEF DisposeBond, BondsOnly, chain
<1>5. alerts' \subseteq Alert
  BY DEF DisposeBond, Alert, IInv, TypeOK
<1> HIDE DEF b
<1> QED
  BY <1>3, <1>4, <1>5, BondSteps

\* What the poll finds of a bond nobody waits for, or that is gone.
PollReturns(p) == /\ BondsOnly /\ UNCHANGED <<lapsed, alerts, order, due, verdict>>
                  /\ \/ bonds[p] = "paid" /\ bonds' = [bonds EXCEPT ![p] = "returning"]
                     \/ bonds[p] = "held" /\ p \in lapsed /\ bonds' = [bonds EXCEPT ![p] = "returned"]

LEMMA PollsReturn ==
  ASSUME IInv, NEW p \in Party, PollReturns(p)
  PROVE  IInv'
<1>1. PICK b \in {"returning", "returned"} :
         /\ bonds' = [bonds EXCEPT ![p] = b]
         /\ bonds[p] = "paid" \/ (bonds[p] = "held" /\ p \in lapsed /\ b = "returned")
  BY DEF PollReturns
<1>2. p \in Sponsors => order.state # "none" /\ order.designated = "none"
  BY <1>1 DEF IInv, BondBook, NoOtherIsHeld, DesignatedHasNone
<1>3. Goes(p, b) /\ b \in BondState
  BY <1>1, <1>2 DEF Goes, BondState
<1>4. UNCHANGED <<order, meta, coins, reorgs, outgoing, due, warm, mail, copies, crashes, lapsed, verdict, alerts>>
  BY DEF PollReturns, BondsOnly, chain
<1> QED
  BY <1>3, <1>4, BondSteps DEF IInv, TypeOK

-----------------------------------------------------------------------------
(* Steps that move the order.                                               *)

LEMMA Moves ==
  ASSUME IInv, TypeOK', OrderBook', BondBook', order'.state \notin Booked, UNCHANGED coins,
         UNCHANGED due \/ due' = FALSE, UNCHANGED warm \/ warm' = FALSE, mail' \subseteq mail
  PROVE  IInv'
<1>1. ChainBook'
  BY ChainRests DEF IInv, TypeOK, OrderRow
<1>2. DueIsHeard'
  BY ClockRests DEF IInv
<1> QED
  BY <1>1, <1>2 DEF IInv

\* The order begins.
LEMMA Lists ==
  ASSUME IInv, NEW d \in Maybe(Sponsors), Listed(d), order.state = "none",
         UNCHANGED <<meta, coins, reorgs, outgoing, warm, mail, copies, crashes, lapsed, verdict, alerts>>,
         bonds' \in [Party -> BondState], \A s \in Sponsors : bonds'[s] = "none",
         bonds'["customer"] \notin {"asked", "paid", "taking", "taken"},
         IF d = "none" THEN bonds'["customer"] = "held" ELSE bonds'["customer"] # "held"
  PROVE  IInv'
<1>1. order \in OrderRow
  BY DEF IInv, TypeOK
<1>2. /\ order' \in OrderRow /\ order'.state = "listed" /\ order'.designated = d
      /\ order'.sponsor = order.sponsor /\ order'.pinned = order.pinned /\ order'.kind = order.kind
  BY <1>1 DEF Listed, OcState, OrderRow
<1>3. verdict = "none" /\ order.kind = "none" /\ order.pinned = "none" /\ order.sponsor = "none"
  BY DEF IInv, OrderBook, KindFits, VerdictFits, PinFits, PartnerFits, Undecided, Unpinned
<1>4. due' = FALSE
  BY DEF Listed
<1>5. TypeOK'
  BY <1>2, <1>4 DEF IInv, TypeOK
<1>6. OrderBook'
  BY <1>2, <1>3, Ends DEF IInv, OrderBook, KindFits, PinFits, PartnerFits, VerdictFits, TxFits,
     OutboxFits, ReleaseIsReady, Undecided, Unpinned, Booked
<1>7. BondBook'
  <2>1. OnlyJustTakings' /\ AllJustTakings'
    BY <1>3, Parties DEF OnlyJustTakings, AllJustTakings, Forfeits
  <2>2. TradeIsSecured' /\ NoBondWaits'
    BY <1>2, <1>3 DEF TradeIsSecured, NoBondWaits, Secured
  <2>3. NoOtherIsHeld' /\ DesignatedHasNone' /\ ExpiredIsGone' /\ EndedHoldsNothing'
    BY <1>2, <1>3, Ends DEF NoOtherIsHeld, DesignatedHasNone, ExpiredIsGone, EndedHoldsNothing, Booked
  <2> QED
    BY <2>1, <2>2, <2>3 DEF BondBook
<1> QED
  BY <1>2, <1>4, <1>5, <1>6, <1>7, Moves DEF Booked

LEMMA RequestsOfOneOrder ==
  ASSUME IInv, NEW s \in Sponsors, ocDesignatedOrderRequest(s)
  PROVE  IInv'
<1>1. UNCHANGED <<meta, coins, reorgs, outgoing, warm, mail, copies, crashes, lapsed, verdict, alerts, bonds>>
  BY DEF ocDesignatedOrderRequest, Handling, Judging, chain
<1>2. order.state = "none" /\ Listed(s) /\ bonds["customer"] \in {"none", "returning", "returned"}
  BY DEF ocDesignatedOrderRequest
<1>3. bonds \in [Party -> BondState] /\ \A t \in Sponsors : bonds[t] = "none"
  BY <1>2 DEF IInv, TypeOK, BondBook, NoOtherIsHeld
<1>4. s \in Maybe(Sponsors) /\ s # "none"
  BY Parties DEF Maybe
<1> QED
  BY <1>1, <1>2, <1>3, <1>4, Lists

LEMMA PollLists ==
  ASSUME IInv, PollBond("customer"), bonds["customer"] = "paid", order.state = "none", Listed("none"),
         bonds' = [bonds EXCEPT !["customer"] = "held"]
  PROVE  IInv'
<1>1. UNCHANGED <<meta, coins, reorgs, outgoing, warm, mail, copies, crashes, lapsed, verdict, alerts>>
  BY DEF PollBond, BondsOnly, chain
<1>2. bonds \in [Party -> BondState] /\ \A t \in Sponsors : bonds[t] = "none"
  BY DEF IInv, TypeOK, BondBook, NoOtherIsHeld
<1>3. bonds' \in [Party -> BondState] /\ bonds'["customer"] = "held" /\ \A t \in Sponsors : bonds'[t] = "none"
  BY <1>2, Parties DEF BondState
<1>4. "none" \in Maybe(Sponsors)
  BY DEF Maybe
<1> QED
  BY <1>1, <1>3, <1>4, Lists

\* Somebody takes the order: with his bond held, or designated and without one.
LEMMA Bonds ==
  ASSUME IInv, NEW s \in Sponsors, bondOc(s), order.state = "listed",
         UNCHANGED <<meta, coins, reorgs, outgoing, warm, mail, copies, crashes, lapsed, verdict, alerts>>,
         bonds' \in [Party -> BondState], bonds'["customer"] = bonds["customer"],
         \A t \in Sponsors \ {s} : bonds'[t] \notin {"asked", "paid", "held", "taking", "taken"},
         IF order.designated = "none" THEN bonds'[s] = "held" ELSE UNCHANGED bonds
  PROVE  IInv'
<1>1. order \in OrderRow
  BY DEF IInv, TypeOK
<1>2. s \in Maybe(Sponsors) /\ s # "none"
  BY Parties DEF Maybe
<1>3. /\ order' \in OrderRow /\ order'.state = "bonded" /\ order'.sponsor = s
      /\ order'.designated = order.designated /\ order'.pinned = order.pinned
      /\ order'.kind = order.kind /\ due' = FALSE
  BY <1>1, <1>2 DEF bondOc, MovesTo, OcState, OrderRow
<1>4. verdict = "none" /\ order.kind = "none" /\ order.pinned = "none" /\ order.sponsor = "none"
  BY DEF IInv, OrderBook, KindFits, VerdictFits, PinFits, PartnerFits, Undecided, Unpinned
<1>5. TypeOK'
  BY <1>3 DEF IInv, TypeOK
<1>6. OrderBook'
  BY <1>2, <1>3, <1>4, Ends DEF IInv, OrderBook, KindFits, PinFits, PartnerFits, VerdictFits, TxFits,
     OutboxFits, ReleaseIsReady, Undecided, Unpinned, Booked
<1>7. BondBook'
  <2>1. \A p \in Party : bonds[p] \notin {"taking", "taken"}
    BY <1>4 DEF IInv, BondBook, OnlyJustTakings, Forfeits
  <2>2. \A p \in Party : bonds'[p] \notin {"taking", "taken"}
    BY <2>1, Parties
  <2>3. OnlyJustTakings' /\ AllJustTakings'
    BY <1>4, <2>2 DEF OnlyJustTakings, AllJustTakings, Forfeits
  <2>4. TradeIsSecured'
    BY <1>3, <1>4 DEF IInv, BondBook, TradeIsSecured, Secured
  <2>5. order.designated # "none" => bonds["customer"] # "held" /\ \A t \in Sponsors : bonds[t] = "none"
    BY DEF IInv, BondBook, DesignatedHasNone
  <2>6. NoBondWaits' /\ NoOtherIsHeld' /\ DesignatedHasNone'
    BY <1>3, <2>5 DEF IInv, BondBook, NoBondWaits, NoOtherIsHeld, DesignatedHasNone
  <2>7. ExpiredIsGone' /\ EndedHoldsNothing'
    BY <1>3, <1>4, Ends DEF ExpiredIsGone, EndedHoldsNothing, Booked
  <2> QED
    BY <2>3, <2>4, <2>6, <2>7 DEF BondBook
<1> QED
  BY <1>3, <1>5, <1>6, <1>7, Moves DEF Booked

LEMMA Claims ==
  ASSUME IInv, NEW s \in Sponsors, ocClaim(s)
  PROVE  IInv'
<1>1. UNCHANGED <<meta, coins, reorgs, outgoing, warm, mail, copies, crashes, lapsed, verdict, alerts>>
      /\ order.state = "listed" /\ order.designated \in {"none", s}
  BY DEF ocClaim, Handling, chain
<1>2. CASE order.designated = s
  <2>1. bondOc(s) /\ UNCHANGED bonds /\ order.designated # "none"
    BY <1>2, Parties DEF ocClaim
  <2>2. bonds \in [Party -> BondState] /\ \A t \in Sponsors : bonds[t] = "none"
    BY <2>1 DEF IInv, TypeOK, BondBook, DesignatedHasNone
  <2> QED
    BY <1>1, <2>1, <2>2, Bonds
<1>3. CASE order.designated # s
  <2>1. bonds' = [bonds EXCEPT ![s] = "asked"] /\ bonds[s] \in {"none", "returned"} /\ UNCHANGED <<order, due>>
    BY <1>3 DEF ocClaim
  <2>2. order.sponsor # s /\ s # "customer" /\ s \in Party
    BY <1>1, Parties DEF IInv, OrderBook, PartnerFits
  <2>3. Goes(s, "asked") /\ "asked" \in BondState
    BY <1>1, <1>3, <2>1, <2>2 DEF Goes, BondState
  <2> QED
    BY <1>1, <2>1, <2>2, <2>3, BondSteps DEF IInv, TypeOK
<1> QED
  BY <1>2, <1>3

LEMMA PollBonds ==
  ASSUME IInv, NEW p \in Party, PollBond(p), bonds[p] = "paid", p # "customer", order.state = "listed",
         bondOc(p), bonds' = Dropped([bonds EXCEPT ![p] = "held"])
  PROVE  IInv'
<1>1. UNCHANGED <<meta, coins, reorgs, outgoing, warm, mail, copies, crashes, lapsed, verdict, alerts>>
  BY DEF PollBond, BondsOnly, chain
<1>2. p \in Sponsors /\ bonds \in [Party -> BondState]
  BY Parties DEF IInv, TypeOK
<1> DEFINE hs == [bonds EXCEPT ![p] = "held"]
<1>3. hs \in [Party -> BondState] /\ hs[p] = "held" /\ \A q \in Party : q # p => hs[q] = bonds[q]
  BY <1>2 DEF BondState
<1> HIDE DEF hs
<1>4. bonds' = [q \in Party |-> IF q # "customer" /\ hs[q] \in {"asked", "paid"} THEN "returning" ELSE hs[q]]
  BY DEF Dropped, hs
<1>5. bonds' \in [Party -> BondState]
  BY <1>3, <1>4 DEF BondState
<1>6. bonds'[p] = "held" /\ bonds'["customer"] = bonds["customer"]
  BY <1>3, <1>4, Parties
<1>7. order.sponsor = "none" /\ order.designated = "none" /\ verdict = "none"
  BY <1>2, Parties DEF IInv, OrderBook, PartnerFits, KindFits, VerdictFits, Undecided, BondBook, DesignatedHasNone
<1>8. \A t \in Sponsors \ {p} : bonds[t] \notin {"held", "taking", "taken"}
  BY <1>7, Parties DEF IInv, BondBook, NoOtherIsHeld, OnlyJustTakings, Forfeits
<1>9. \A t \in Sponsors \ {p} : bonds'[t] \notin {"asked", "paid", "held", "taking", "taken"}
  BY <1>3, <1>4, <1>8, Parties
<1> QED
  BY <1>1, <1>2, <1>5, <1>6, <1>7, <1>9, Bonds

LEMMA Polls ==
  ASSUME IInv, NEW p \in Party, PollBond(p)
  PROVE  IInv'
<1>1. CASE bonds[p] = "paid" /\ p = "customer" /\ order.state = "none" /\ Listed("none")
           /\ bonds' = [bonds EXCEPT ![p] = "held"]
  BY <1>1, PollLists
<1>2. CASE bonds[p] = "paid" /\ p # "customer" /\ order.state = "listed" /\ bondOc(p)
           /\ bonds' = Dropped([bonds EXCEPT ![p] = "held"])
  BY <1>2, PollBonds
<1>3. CASE PollReturns(p)
  BY <1>3, PollsReturn
<1> QED
  BY <1>1, <1>2, <1>3 DEF PollBond, PollReturns

\* A move that judges nobody.
LEMMA MovesUnjudged ==
  ASSUME IInv, TypeOK', OrderBook', UNCHANGED <<bonds, lapsed, verdict, coins>>,
         order.state \notin {"none", "listed"}, order'.state \notin {"none", "listed"},
         order'.state \notin Booked \cup {"cancelled"},
         order'.designated = order.designated, order'.sponsor = order.sponsor,
         order'.kind = "refund:bond-expired" => order.kind = "refund:bond-expired",
         UNCHANGED due \/ due' = FALSE, UNCHANGED warm \/ warm' = FALSE, mail' \subseteq mail
  PROVE  IInv'
<1>1. BondBook'
  BY Unjudged, Ends DEF IInv
<1> QED
  BY <1>1, Moves

\* What the proofs about the order's book open.
LEMMA OrderFacts ==
  ASSUME IInv
  PROVE  /\ order \in OrderRow /\ meta \in MetaRow
         /\ KindFits /\ PinFits /\ PartnerFits /\ VerdictFits /\ TxFits /\ OutboxFits /\ ReleaseIsReady
  BY DEF IInv, TypeOK, OrderBook, OrderRow

\* An order whose kind is open, in a stage after the claim.
LEMMA OpenBook ==
  ASSUME order' \in OrderRow, order'.kind = "none", verdict' = "none", order'.sponsor # "none",
         order'.state \in {"bonded", "funded", "presigned", "remitted", "disputed"},
         order'.pinned = "none" <=> order'.state = "bonded",
         meta'.outbox = "none",
         order'.state \in {"presigned", "remitted", "disputed"} => meta'.presig = order'.pinned
  PROVE  OrderBook'
<1>1. KindFits' /\ PinFits' /\ PartnerFits'
  BY DEF KindFits, PinFits, PartnerFits, Booked, Unpinned
<1>2. VerdictFits' /\ TxFits' /\ OutboxFits' /\ ReleaseIsReady'
  BY DEF VerdictFits, TxFits, OutboxFits, ReleaseIsReady, Maybe
<1> QED
  BY <1>1, <1>2 DEF OrderBook

LEMMA OpenFacts ==
  ASSUME IInv, order.kind = "none", order.state \in {"bonded", "funded", "presigned", "remitted", "disputed"}
  PROVE  /\ verdict = "none" /\ order.sponsor # "none" /\ meta.outbox = "none"
         /\ order.pinned = "none" <=> order.state = "bonded"
         /\ order.state \in {"presigned", "remitted", "disputed"} => meta.presig = order.pinned
<1>1. KindFits /\ PinFits /\ PartnerFits /\ VerdictFits /\ OutboxFits /\ ReleaseIsReady
  BY OrderFacts
<1> QED
  BY <1>1, Ends DEF PinFits, PartnerFits, VerdictFits, OutboxFits, ReleaseIsReady, Unpinned, Booked

-----------------------------------------------------------------------------
(* Requests.                                                                *)

LEMMA TakesPresignatures ==
  ASSUME IInv, NEW u \in Utxos, ocPresig(u)
  PROVE  IInv'
<1>1. UNCHANGED <<coins, reorgs, lapsed, warm, crashes, bonds, verdict, outgoing, alerts>> /\ mail' \subseteq mail
  BY DEF ocPresig, Takes, Handling, Judging, chain
<1>2. CASE order.state = "funded" /\ order.kind = "none" /\ Matches(u)
  <2>1. /\ order' = [order EXCEPT !.state = "presigned"] /\ meta' = [meta EXCEPT !.presig = u]
        /\ copies' = copies \cup {u} /\ due' = FALSE /\ u = order.pinned
    BY <1>2 DEF ocPresig, MovesTo, Matches
  <2>2. /\ order' \in OrderRow /\ order'.state = "presigned" /\ order'.kind = order.kind
        /\ order'.sponsor = order.sponsor /\ order'.designated = order.designated
        /\ order'.pinned = order.pinned
    BY <2>1, OrderFacts DEF OrderRow, OcState
  <2>3. meta' \in MetaRow /\ meta'.presig = u /\ meta'.outbox = meta.outbox
    BY <2>1, OrderFacts DEF MetaRow, Maybe
  <2>4. TypeOK'
    BY <1>1, <2>1, <2>2, <2>3 DEF IInv, TypeOK
  <2>5. OrderBook'
    BY <1>1, <1>2, <2>1, <2>2, <2>3, OpenFacts, OpenBook
  <2> QED
    BY <1>1, <1>2, <2>1, <2>2, <2>4, <2>5, MovesUnjudged DEF Booked
<1>3. CASE ~ (order.state = "funded" /\ order.kind = "none" /\ Matches(u))
  <2>1. UNCHANGED <<order, meta, due, copies>>
    BY <1>3 DEF ocPresig
  <2>2. TypeOK'
    BY <1>1, <2>1 DEF IInv, TypeOK
  <2> QED
    BY <1>1, <2>1, <2>2, StandsStill
<1> QED
  BY <1>2, <1>3

LEMMA TakesAccounts ==
  ASSUME IInv, ocAccountInfo \/ ocObjection
  PROVE  IInv'
<1>1. UNCHANGED <<coins, reorgs, lapsed, warm, crashes, bonds, verdict, outgoing, alerts, meta, copies>>
      /\ mail' \subseteq mail
  BY DEF ocAccountInfo, ocObjection, Takes, Handling, Judging, chain
<1>2. CASE UNCHANGED order
  <2>1. UNCHANGED due \/ due' = FALSE
    BY DEF ocAccountInfo, ocObjection, Stays
  <2>2. TypeOK'
    BY <1>1, <1>2, <2>1 DEF IInv, TypeOK
  <2> QED
    BY <1>1, <1>2, <2>1, <2>2, StandsStill
<1>3. CASE ~ UNCHANGED order
  <2>1. /\ order.state = "presigned" /\ order.kind = "none"
        /\ \/ order' = [order EXCEPT !.accountSent = TRUE] /\ due' = FALSE
           \/ order' = [order EXCEPT !.accountDisputed = TRUE] /\ UNCHANGED due
    BY <1>3 DEF ocAccountInfo, ocObjection, Stays
  <2>2. /\ order' \in OrderRow /\ order'.state = order.state /\ order'.kind = order.kind
        /\ order'.sponsor = order.sponsor /\ order'.designated = order.designated
        /\ order'.pinned = order.pinned
    BY <2>1, OrderFacts DEF OrderRow
  <2>3. TypeOK'
    BY <1>1, <2>1, <2>2 DEF IInv, TypeOK
  <2>4. OrderBook'
    BY <1>1, <2>1, <2>2, OpenFacts, OpenBook
  <2> QED
    BY <1>1, <2>1, <2>2, <2>3, <2>4, MovesUnjudged DEF Booked
<1> QED
  BY <1>2, <1>3

LEMMA TakesRemittances ==
  ASSUME IInv, ocRemit
  PROVE  IInv'
<1>1. UNCHANGED <<coins, reorgs, lapsed, warm, crashes, bonds, verdict, outgoing, alerts, meta, copies>>
      /\ mail' \subseteq mail
  BY DEF ocRemit, Takes, Handling, Judging, chain
<1>2. CASE order.state = "presigned" /\ order.kind = "none" /\ order.accountSent
  <2>1. order' = [order EXCEPT !.state = "remitted", !.remitted = TRUE] /\ due' = FALSE
    BY <1>2 DEF ocRemit, MovesTo
  <2>2. /\ order' \in OrderRow /\ order'.state = "remitted" /\ order'.kind = order.kind
        /\ order'.sponsor = order.sponsor /\ order'.designated = order.designated
        /\ order'.pinned = order.pinned
    BY <2>1, OrderFacts DEF OrderRow, OcState
  <2>3. TypeOK'
    BY <1>1, <2>1, <2>2 DEF IInv, TypeOK
  <2>4. OrderBook'
    BY <1>1, <1>2, <2>2, OpenFacts, OpenBook
  <2> QED
    BY <1>1, <1>2, <2>1, <2>2, <2>3, <2>4, MovesUnjudged DEF Booked
<1>3. CASE ~ (order.state = "presigned" /\ order.kind = "none" /\ order.accountSent)
  <2>1. UNCHANGED <<order, due>>
    BY <1>3 DEF ocRemit
  <2>2. TypeOK'
    BY <1>1, <2>1 DEF IInv, TypeOK
  <2> QED
    BY <1>1, <2>1, <2>2, StandsStill
<1> QED
  BY <1>2, <1>3

\* A dispute, by the customer or by the clock.
LEMMA Disputed ==
  ASSUME IInv, order.state = "remitted", MovesTo([order EXCEPT !.state = "disputed"]),
         UNCHANGED <<coins, reorgs, lapsed, warm, crashes, bonds, verdict, outgoing, alerts, mail, copies>>,
         meta' \in MetaRow, meta'.outbox = meta.outbox, meta'.presig = meta.presig
  PROVE  IInv'
<1>1. order' = [order EXCEPT !.state = "disputed"] /\ due' = FALSE
  BY DEF MovesTo
<1>2. /\ order' \in OrderRow /\ order'.state = "disputed" /\ order'.kind = order.kind
      /\ order'.sponsor = order.sponsor /\ order'.designated = order.designated
      /\ order'.pinned = order.pinned
  BY <1>1, OrderFacts DEF OrderRow, OcState
<1>3. order.kind = "none"
  BY OrderFacts DEF KindFits, Undecided
<1>4. TypeOK'
  BY <1>1, <1>2 DEF IInv, TypeOK
<1>5. OrderBook'
  BY <1>2, <1>3, OpenFacts, OpenBook
<1> QED
  BY <1>1, <1>2, <1>4, <1>5, MovesUnjudged DEF Booked

LEMMA Rescues ==
  ASSUME IInv, NEW u \in Utxos, ocRescueCosign(u) \/ requestRescue(u)
  PROVE  IInv'
<1>1. UNCHANGED <<order, coins, reorgs, lapsed, warm, crashes, bonds, verdict, due, mail, copies, alerts>>
  BY DEF ocRescueCosign, requestRescue, Handling, Judging, chain
<1>2. meta' \in MetaRow /\ meta'.outbox = meta.outbox /\ meta'.presig = meta.presig
  BY OrderFacts DEF ocRescueCosign, requestRescue, MetaRow
<1>3. outgoing' \subseteq [coin : Utxos, tx : Tx]
  BY DEF ocRescueCosign, requestRescue, IInv, TypeOK, Tx
<1>4. TypeOK'
  BY <1>1, <1>2, <1>3 DEF IInv, TypeOK
<1> QED
  BY <1>1, <1>2, <1>4, StandsStill

-----------------------------------------------------------------------------
(* Steps that judge the bonds.                                              *)

LEMMA BondsJudged ==
  ASSUME IInv, NEW k \in Outcome, Agrees(k),
         order.state # "none", order'.state \notin {"none", "listed"},
         order.state # "listed" \/ bonds' = Dropped(Judged(order, k)),
         order'.designated = order.designated, order'.sponsor = order.sponsor,
         bonds' \in {Judged(order, k), Dropped(Judged(order, k))},
         verdict' = Verdict(k), UNCHANGED lapsed,
         order'.kind = "refund:bond-expired" =>
           order.kind = "refund:bond-expired" \/ bonds[order.sponsor] # "held",
         order'.kind = "refund:bond-expired" => order.sponsor \in Party,
         order'.state \in Booked \cup {"cancelled"} /\ order'.kind # "refund:account-disputed" =>
           /\ OUTCOME_RULES[k].customerBond # "leave"
           /\ \/ OUTCOME_RULES[k].sponsorBond # "leave"
              \/ order.sponsor = "none" \/ bonds[order.sponsor] # "held"
  PROVE  BondBook' /\ bonds' \in [Party -> BondState] /\ verdict' \in Maybe(Outcome)
<1>1. /\ OnlyJustTakings' /\ AllJustTakings' /\ TradeIsSecured' /\ NoOtherIsHeld'
      /\ DesignatedHasNone' /\ bonds' \in [Party -> BondState] /\ verdict' \in Maybe(Outcome)
      /\ \A p \in Party :
           /\ bonds'[p] = "held" =>
                bonds[p] = "held" /\ Disposition(order, k, p) = "leave"
           /\ bonds'[p] \in {"asked", "paid"} => bonds[p] = bonds'[p]
           /\ p \in Sponsors /\ bonds' = Dropped(Judged(order, k)) =>
                bonds'[p] \notin {"asked", "paid"}
  BY Judges DEF IInv
<1>2. NoBondWaits /\ NoOtherIsHeld /\ ExpiredIsGone
  BY DEF IInv, BondBook
<1>3. NoBondWaits'
  <2>1. bonds'["customer"] \notin {"asked", "paid"}
    BY <1>1, <1>2, Parties DEF NoBondWaits
  <2>2. \A s \in Sponsors : bonds'[s] \notin {"asked", "paid"}
    BY <1>1, <1>2, Parties DEF NoBondWaits
  <2> QED
    BY <2>1, <2>2 DEF NoBondWaits
<1>4. ExpiredIsGone'
  BY <1>1, <1>2 DEF ExpiredIsGone
<1>5. EndedHoldsNothing'
  <2> SUFFICES ASSUME order'.state \in Booked \cup {"cancelled"}, order'.kind # "refund:account-disputed",
                      NEW p \in Party, bonds'[p] = "held"
               PROVE  FALSE
    BY Ends DEF EndedHoldsNothing
  <2>1. bonds[p] = "held" /\ Disposition(order, k, p) = "leave"
    BY <1>1
  <2>2. CASE p = "customer"
    BY <2>1, <2>2 DEF Disposition
  <2>3. CASE p # "customer"
    <3>1. p = order.sponsor /\ p # "none"
      BY <2>1, <2>3, <1>2, Parties DEF NoOtherIsHeld
    <3>2. OUTCOME_RULES[k].sponsorBond = "leave"
      BY <2>1, <2>3, <3>1 DEF Disposition
    <3> QED
      BY <2>1, <3>1, <3>2
  <2> QED
    BY <2>2, <2>3
<1> QED
  BY <1>1, <1>3, <1>4, <1>5 DEF BondBook

\* Before anything is decided, every judgement is the first.
LEMMA FirstJudgement ==
  ASSUME IInv, order.kind = "none", order.state # "cancelled", NEW k \in Outcome
  PROVE  Agrees(k) /\ verdict = "none" /\ Verdict(k) = IF k \in BothBondsLeft THEN "none" ELSE k
  BY OrderFacts DEF VerdictFits, Agrees, Verdict

LEMMA SponsorIsParty ==
  ASSUME IInv, order.state \notin {"none", "listed", "cancelled"}
  PROVE  order.sponsor \in Party
  BY OrderFacts, Parties DEF PartnerFits, OrderRow, Maybe

\* A cancel, from the market or without a funding.
LEMMA CancelsTrade ==
  ASSUME IInv, NEW k \in {"cancel:customer", "cancel:expired", "cancel:no-funding"},
         order.state = "listed" \/ (order.state = "bonded" /\ k = "cancel:no-funding"),
         MovesTo([order EXCEPT !.state = "cancelled"]),
         bonds' = Dropped(Judged(order, k)), verdict' = Verdict(k),
         UNCHANGED <<coins, reorgs, lapsed, warm, crashes, outgoing, alerts, mail, copies>>,
         meta' \in MetaRow, meta'.outbox = meta.outbox, meta'.presig = meta.presig
  PROVE  IInv'
<1>1. order' = [order EXCEPT !.state = "cancelled"] /\ due' = FALSE
  BY DEF MovesTo
<1>2. /\ order' \in OrderRow /\ order'.state = "cancelled" /\ order'.kind = order.kind
      /\ order'.sponsor = order.sponsor /\ order'.designated = order.designated
      /\ order'.pinned = order.pinned
  BY <1>1, OrderFacts DEF OrderRow, OcState
<1>3. order.kind = "none" /\ order.pinned = "none" /\ k \in Outcome
  BY OrderFacts DEF KindFits, PinFits, Undecided, Unpinned, Outcome
<1>4. /\ OUTCOME_RULES[k].customerBond # "leave"
      /\ OUTCOME_RULES[k].sponsorBond # "leave" \/ order.sponsor = "none"
  <2>1. OUTCOME_RULES[k].customerBond # "leave"
    BY <1>3, Dispositions DEF BothBondsLeft
  <2>2. k = "cancel:no-funding" => OUTCOME_RULES[k].sponsorBond # "leave"
    BY <1>3, Dispositions DEF SponsorBondLeft
  <2>3. order.state = "listed" => order.sponsor = "none"
    BY OrderFacts DEF PartnerFits
  <2> QED
    BY <2>1, <2>2, <2>3
<1>5. Agrees(k)
  BY <1>3, FirstJudgement
<1>6. BondBook' /\ bonds' \in [Party -> BondState] /\ verdict' \in Maybe(Outcome)
  BY <1>2, <1>3, <1>4, <1>5, BondsJudged
<1>7. TypeOK'
  BY <1>1, <1>2, <1>6 DEF IInv, TypeOK
<1>8. OrderBook'
  <2>1. KindFits' /\ PinFits' /\ PartnerFits' /\ VerdictFits' /\ TxFits' /\ ReleaseIsReady'
    BY <1>2, <1>3 DEF KindFits, PinFits, PartnerFits, VerdictFits, TxFits, ReleaseIsReady, Booked, Unpinned
  <2>2. OutboxFits'
    BY <1>2, OrderFacts, Ends DEF OutboxFits
  <2> QED
    BY <2>1, <2>2 DEF OrderBook
<1> QED
  BY <1>1, <1>2, <1>6, <1>7, <1>8, Moves DEF Booked

LEMMA Cancels ==
  ASSUME IInv, ocCancel
  PROVE  IInv'
<1>1. UNCHANGED <<coins, reorgs, lapsed, warm, crashes, outgoing, alerts, mail, copies, meta>>
  BY DEF ocCancel, Handling, chain
<1>2. CASE order.state = "none"
  <2>1. /\ bonds["customer"] \in {"asked", "paid"} /\ bonds' = [bonds EXCEPT !["customer"] = "returning"]
        /\ UNCHANGED <<order, due, verdict>>
    BY <1>2 DEF ocCancel
  <2>2. Goes("customer", "returning") /\ "returning" \in BondState
    BY <2>1, Parties DEF Goes, BondState
  <2> QED
    BY <1>1, <2>1, <2>2, BondSteps, Parties DEF IInv, TypeOK
<1>3. CASE order.state # "none"
  <2>1. /\ order.state = "listed" /\ MovesTo([order EXCEPT !.state = "cancelled"])
        /\ bonds' = Dropped(Judged(order, "cancel:customer"))
        /\ verdict' = Verdict("cancel:customer")
    BY <1>3 DEF ocCancel
  <2> QED
    BY <1>1, <2>1, CancelsTrade, OrderFacts
<1> QED
  BY <1>2, <1>3

\* A refund is decided: of a funding that is pinned with it, or of the one that was.
LEMMA DecidesRefund ==
  ASSUME IInv, NEW k \in RefundKind, NEW u \in Utxos, DecideRefund(k, u),
         order.state \in {"bonded", "funded", "presigned"},
         k = "refund:bond-expired" => bonds[order.sponsor] # "held",
         UNCHANGED <<coins, reorgs, lapsed, warm, crashes, outgoing, alerts, mail, copies>>,
         meta' \in MetaRow, meta'.outbox = meta.outbox, meta'.presig = meta.presig
  PROVE  IInv'
<1>1. /\ order' = [order EXCEPT !.state = "refunding", !.kind = k, !.pinned = u] /\ due' = FALSE
      /\ order.kind = "none" /\ bonds' = Judged(order, k) /\ verdict' = Verdict(k)
  BY DEF DecideRefund, MovesTo, applyOutcome
<1>2. k \in SettlementKind /\ k \in Outcome /\ k \notin {"none", "release"}
  BY Kinds DEF RefundKind
<1>3. /\ order' \in OrderRow /\ order'.state = "refunding" /\ order'.kind = k
      /\ order'.sponsor = order.sponsor /\ order'.designated = order.designated
      /\ order'.pinned = u
  BY <1>1, <1>2, OrderFacts DEF OrderRow, OcState, Maybe
<1>4. Agrees(k) /\ verdict = "none" /\ verdict' = IF k \in BothBondsLeft THEN "none" ELSE k
  BY <1>1, <1>2, FirstJudgement
<1>5. BondBook' /\ bonds' \in [Party -> BondState] /\ verdict' \in Maybe(Outcome)
  BY <1>1, <1>2, <1>3, <1>4, BondsJudged, SponsorIsParty DEF Booked
<1>6. TypeOK'
  BY <1>1, <1>3, <1>5 DEF IInv, TypeOK
<1>7. OrderBook'
  <2>1. KindFits' /\ PinFits' /\ PartnerFits' /\ TxFits' /\ ReleaseIsReady'
    BY <1>2, <1>3, OrderFacts, Parties DEF KindFits, PinFits, PartnerFits, TxFits, ReleaseIsReady, Booked,
       Unpinned, Undecided
  <2>2. VerdictFits'
    BY <1>2, <1>3, <1>4 DEF VerdictFits, BothBondsLeft, RefundKind
  <2>3. OutboxFits'
    BY <1>1, <1>3, OpenFacts, Ends DEF OutboxFits, Maybe
  <2> QED
    BY <2>1, <2>2, <2>3 DEF OrderBook
<1> QED
  BY <1>1, <1>3, <1>5, <1>6, <1>7, Moves DEF Booked

\* The operator's ruling of a dispute.
LEMMA Rules ==
  ASSUME IInv, oc_rule
  PROVE  IInv'
<1>1. UNCHANGED <<coins, reorgs, lapsed, warm, crashes, outgoing, alerts, mail, copies, meta>>
      /\ order.state = "disputed" /\ order.kind = "none"
  BY DEF oc_rule, Handling, chain
<1>2. PICK k \in {"sponsor_win", "customer_win"} :
        /\ order' = [order EXCEPT !.kind = k] /\ UNCHANGED due
        /\ bonds' = Judged(order, k) /\ verdict' = Verdict(k)
  BY DEF oc_rule, Stays, applyOutcome
<1>3. k \in SettlementKind /\ k \in Outcome
  BY DEF SettlementKind, Outcome
<1>4. /\ order' \in OrderRow /\ order'.state = "disputed" /\ order'.kind = k
      /\ order'.sponsor = order.sponsor /\ order'.designated = order.designated
      /\ order'.pinned = order.pinned
  BY <1>1, <1>2, <1>3, OrderFacts DEF OrderRow, Maybe
<1>5. Agrees(k) /\ verdict' = k
  BY <1>1, <1>2, <1>3, FirstJudgement DEF BothBondsLeft
<1>6. BondBook' /\ bonds' \in [Party -> BondState] /\ verdict' \in Maybe(Outcome)
  BY <1>1, <1>2, <1>3, <1>4, <1>5, BondsJudged DEF Booked
<1>7. TypeOK'
  BY <1>1, <1>2, <1>4, <1>6 DEF IInv, TypeOK
<1>8. OrderBook'
  <2>1. KindFits' /\ PinFits' /\ PartnerFits' /\ TxFits' /\ VerdictFits'
    BY <1>1, <1>4, <1>5, OrderFacts DEF KindFits, PinFits, PartnerFits, TxFits, VerdictFits, Booked,
       Unpinned, Undecided
  <2>2. OutboxFits' /\ ReleaseIsReady'
    BY <1>1, <1>4, OrderFacts DEF OutboxFits, ReleaseIsReady
  <2> QED
    BY <2>1, <2>2 DEF OrderBook
<1> QED
  BY <1>1, <1>2, <1>4, <1>6, <1>7, <1>8, Moves DEF Booked

\* The operator says whose fault a disputed account was: before the refund confirms, or after it.
LEMMA ResolvesAccounts ==
  ASSUME IInv, resolveAccountDispute
  PROVE  IInv'
<1>1. UNCHANGED <<coins, reorgs, lapsed, warm, crashes, outgoing, alerts, mail, copies, meta>>
      /\ order.kind = "refund:account-disputed" /\ order.state \in {"refunding", "settling", "refunded"}
  BY DEF resolveAccountDispute, Handling, chain
<1>2. PICK k \in {"refund:customer-late", "refund:sponsor-timeout"} :
        /\ order' = [order EXCEPT !.kind = k] /\ UNCHANGED due
        /\ bonds' = Judged(order, k) /\ verdict' = Verdict(k)
  BY DEF resolveAccountDispute, Stays, applyOutcome
<1>3. k \in RefundKind /\ k \in SettlementKind /\ k \in Outcome
  BY DEF RefundKind, SettlementKind, Outcome
<1>4. /\ order' \in OrderRow /\ order'.state = order.state /\ order'.kind = k
      /\ order'.sponsor = order.sponsor /\ order'.designated = order.designated
      /\ order'.pinned = order.pinned /\ order'.tx = order.tx
  BY <1>1, <1>2, <1>3, OrderFacts DEF OrderRow, Maybe
<1>5. Agrees(k) /\ verdict' = k
  BY <1>1, <1>2, OrderFacts DEF VerdictFits, Agrees, Verdict, BothBondsLeft
<1>6. BondBook' /\ bonds' \in [Party -> BondState] /\ verdict' \in Maybe(Outcome)
  <2>1. OUTCOME_RULES[k].customerBond # "leave" /\ OUTCOME_RULES[k].sponsorBond # "leave"
    BY <1>3, Dispositions DEF BothBondsLeft, SponsorBondLeft
  <2> QED
    BY <1>1, <1>2, <1>3, <1>4, <1>5, <2>1, BondsJudged
<1>7. TypeOK'
  BY <1>1, <1>2, <1>4, <1>6 DEF IInv, TypeOK
<1>8. TxFor(order.kind) = "refund" /\ TxFor(k) = "refund"
  BY <1>1 DEF TxFor
<1>9. OrderBook'
  <2>1. KindFits' /\ PinFits' /\ PartnerFits' /\ VerdictFits'
    BY <1>1, <1>3, <1>4, <1>5, OrderFacts DEF KindFits, PinFits, PartnerFits, VerdictFits, Booked,
       Unpinned, Undecided
  <2>2. TxFits' /\ OutboxFits' /\ ReleaseIsReady'
    BY <1>1, <1>4, <1>8, OrderFacts DEF TxFits, OutboxFits, ReleaseIsReady
  <2> QED
    BY <2>1, <2>2 DEF OrderBook
<1>10. ChainBook'
  <2>1. FinalIsDeep'
    BY <1>1 DEF IInv, ChainBook, FinalIsDeep
  <2>2. OUTCOME_RULES[order.kind].terminal = "refunded" /\ OUTCOME_RULES[k].terminal = "refunded"
    BY <1>1, <1>3 DEF OUTCOME_RULES, Outcome, SettlementKind, RefundKind
  <2>3. LedgerFollowsChain'
    BY <1>1, <1>4, <1>8, <2>2 DEF IInv, ChainBook, LedgerFollowsChain, Ended, Pinned
  <2> QED
    BY <2>1, <2>3 DEF ChainBook
<1>11. DueIsHeard'
  BY <1>1, <1>2, ClockRests DEF IInv
<1> QED
  BY <1>6, <1>7, <1>9, <1>10, <1>11 DEF IInv

-----------------------------------------------------------------------------
(* Settling, and what the chain makes of it.                                *)

\* Into settling or on in it: by our own transaction or by one that fits.
LEMMA SettlingBook ==
  ASSUME IInv, order' \in OrderRow, order'.state = "settling", order'.kind \in SettlementKind,
         order'.sponsor = order.sponsor, order'.designated = order.designated,
         order'.pinned = order.pinned, order.state \notin Unpinned,
         LeafOf(order'.tx) = LeafOf(TxFor(order'.kind)),
         order'.kind = "release" \/ (order'.kind = order.kind /\ UNCHANGED verdict),
         meta'.outbox \in Maybe(Ours)
  PROVE  OrderBook'
<1>1. "none" \notin SettlementKind
  BY Kinds
<1>2. KindFits' /\ TxFits' /\ OutboxFits' /\ ReleaseIsReady'
  BY DEF KindFits, TxFits, OutboxFits, ReleaseIsReady, Undecided
<1>3. PinFits' /\ PartnerFits'
  BY OrderFacts DEF PinFits, PartnerFits, Unpinned
<1>4. VerdictFits'
  BY <1>1, OrderFacts DEF VerdictFits
<1> QED
  BY <1>2, <1>3, <1>4 DEF OrderBook

LEMMA MayActWhen ==
  ASSUME IInv, NEW tx \in Tx, canActOnSignRequest(order.state, tx, order.kind)
  PROVE  /\ order.state \in {"remitted", "disputed", "refunding"}
         /\ tx \in Ours
         /\ tx # "release" => /\ order.kind \in SettlementKind /\ order.kind # "release"
                              /\ TxFor(order.kind) = tx
<1>1. tx \in {"release", "refund", "sponsor"}
  BY DEF canActOnSignRequest
<1>2. CASE tx = "release"
  BY <1>2 DEF canActOnSignRequest, Ours
<1>3. CASE tx = "refund"
  <2>1. \/ order.state = "refunding" /\ order.kind \in RefundKind
        \/ order.state = "disputed" /\ order.kind = "customer_win"
    BY <1>3, OrderFacts DEF canActOnSignRequest, KindFits
  <2> QED
    BY <1>3, <2>1 DEF TxFor, Ours, RefundKind, SettlementKind
<1>4. CASE tx = "sponsor"
  <2>1. order.state = "disputed" /\ order.kind = "sponsor_win"
    BY <1>4 DEF canActOnSignRequest
  <2> QED
    BY <1>4, <2>1 DEF TxFor, Ours, SettlementKind
<1> QED
  BY <1>1, <1>2, <1>3, <1>4

LEMMA Cosigns ==
  ASSUME IInv, NEW tx \in Tx, ocCosign(tx)
  PROVE  IInv'
<1> DEFINE k == IF tx = "release" THEN "release" ELSE order.kind
<1>1. UNCHANGED <<coins, reorgs, lapsed, warm, crashes, mail, copies, alerts>>
      /\ enterSettling(k) /\ canActOnSignRequest(order.state, tx, order.kind)
  BY DEF ocCosign, Handling, chain
<1>2. /\ order.state \in {"remitted", "disputed", "refunding"}
      /\ k \in SettlementKind /\ TxFor(k) = tx /\ tx \in Ours
      /\ k = "release" <=> tx = "release"
      /\ k = "release" \/ k = order.kind
  BY <1>1, MayActWhen DEF TxFor, SettlementKind
<1> HIDE DEF k
<1>3. /\ order' = [order EXCEPT !.state = "settling", !.kind = k, !.tx = TxFor(k)] /\ due' = FALSE
      /\ meta' = [meta EXCEPT !.outbox = TxFor(k)]
      /\ outgoing' = outgoing \cup {[coin |-> order.pinned, tx |-> TxFor(k)]}
      /\ IF k = "release" THEN bonds' = Judged(order, k) /\ verdict' = Verdict(k)
                          ELSE UNCHANGED <<bonds, verdict>>
  BY <1>1 DEF enterSettling, MovesTo, applyOutcome
<1>4. tx \in Maybe(Tx) /\ tx \in Tx
  BY <1>2 DEF Maybe
<1>5. /\ order' \in OrderRow /\ order'.state = "settling" /\ order'.kind = k /\ order'.tx = tx
      /\ order'.sponsor = order.sponsor /\ order'.designated = order.designated
      /\ order'.pinned = order.pinned
  BY <1>2, <1>3, <1>4, OrderFacts DEF OrderRow, OcState, Maybe
<1>6. meta' \in MetaRow /\ meta'.outbox = tx
  BY <1>2, <1>3, <1>4, OrderFacts DEF MetaRow
<1>7. order.pinned \in Utxos
  BY <1>2, BookedIsPinned DEF IInv, Unpinned
<1>8. outgoing' \subseteq [coin : Utxos, tx : Tx]
  BY <1>2, <1>3, <1>4, <1>7 DEF IInv, TypeOK
<1>9. BondBook' /\ bonds' \in [Party -> BondState] /\ verdict' \in Maybe(Outcome)
  <2>1. CASE k = "release"
    <3>1. k \in Outcome /\ Agrees(k)
      BY <1>2, <2>1, Kinds DEF Agrees
    <3> QED
      BY <1>1, <1>2, <1>3, <1>5, <2>1, <3>1, BondsJudged DEF Booked
  <2>2. CASE k # "release"
    <3>1. UNCHANGED <<bonds, verdict>> /\ k = order.kind
      BY <1>2, <1>3, <2>2
    <3> QED
      BY <1>1, <1>2, <1>5, <3>1, Unjudged, Ends DEF IInv, TypeOK, Booked
  <2> QED
    BY <2>1, <2>2
<1>10. TypeOK'
  BY <1>1, <1>3, <1>5, <1>6, <1>8, <1>9 DEF IInv, TypeOK
<1>11. OrderBook'
  BY <1>2, <1>3, <1>5, <1>6, SettlingBook DEF Unpinned, Maybe
<1> QED
  BY <1>1, <1>3, <1>5, <1>9, <1>10, <1>11, Moves DEF Booked

\* What a step of the watcher leaves alone; the list of strays is nobody's business here.
Watches == /\ UNCHANGED <<coins, reorgs, lapsed, warm, mail, copies, crashes>>
           /\ meta' \in MetaRow /\ meta'.outbox = meta.outbox /\ meta'.presig = meta.presig

LEMMA Funds ==
  ASSUME IInv, Watches, fund, order.state = "bonded"
  PROVE  IInv'
<1>1. PICK u \in Confirmed : MovesTo([order EXCEPT !.state = "funded", !.pinned = u])
  BY DEF fund
<1>2. UNCHANGED <<bonds, verdict, outgoing, alerts>> /\ due' = FALSE
      /\ order' = [order EXCEPT !.state = "funded", !.pinned = u]
  BY <1>1 DEF fund, Judging, MovesTo
<1>3. u \in Utxos /\ u # "none" /\ u \in Maybe(Utxos)
  BY Parties DEF Confirmed, Maybe
<1>4. /\ order' \in OrderRow /\ order'.state = "funded" /\ order'.kind = order.kind
      /\ order'.sponsor = order.sponsor /\ order'.designated = order.designated
      /\ order'.pinned = u
  BY <1>2, <1>3, OrderFacts DEF OrderRow, OcState
<1>5. order.kind = "none"
  BY OrderFacts DEF KindFits, Undecided
<1>6. TypeOK'
  BY <1>2, <1>4 DEF IInv, TypeOK, Watches
<1>7. OrderBook'
  BY <1>2, <1>3, <1>4, <1>5, OpenFacts, OpenBook DEF Watches
<1> QED
  BY <1>2, <1>4, <1>6, <1>7, MovesUnjudged DEF Watches, Booked

LEMMA Reorganises ==
  ASSUME IInv, Watches, reorg, order.state \in {"funded", "presigned"}
  PROVE  IInv'
<1>1. UNCHANGED <<bonds, verdict, outgoing, alerts>> /\ due' = FALSE /\ order' = Unfunded
  BY DEF reorg, Judging, MovesTo
<1>2. /\ order' \in OrderRow /\ order'.state = "bonded" /\ order'.kind = order.kind
      /\ order'.sponsor = order.sponsor /\ order'.designated = order.designated
      /\ order'.pinned = "none"
  BY <1>1, OrderFacts DEF OrderRow, OcState, Unfunded, Maybe
<1>3. order.kind = "none"
  BY OrderFacts DEF KindFits, Undecided
<1>4. TypeOK'
  BY <1>1, <1>2 DEF IInv, TypeOK, Watches
<1>5. OrderBook'
  BY <1>1, <1>2, <1>3, OpenFacts, OpenBook DEF Watches
<1> QED
  BY <1>1, <1>2, <1>4, <1>5, MovesUnjudged DEF Watches, Booked

\* The spend is final: the order ends as it was decided, and what the bonds still await happens.
LEMMA Confirms ==
  ASSUME IInv, Watches, confirmed, order.state = "settling",
         coins[order.pinned].by = order.tx, coins[order.pinned].final
  PROVE  IInv'
<1> DEFINE k == order.kind
           t == OUTCOME_RULES[k].terminal
<1>1. order' = [order EXCEPT !.state = t] /\ due' = FALSE /\ UNCHANGED <<outgoing, alerts>>
      /\ bonds' = Judged(order, k) /\ verdict' = Verdict(k)
  BY DEF confirmed, MovesTo, applyOutcome
<1>2. k \in SettlementKind /\ k \in Outcome /\ t \in Booked
  BY OrderFacts, Kinds, Terminals DEF KindFits
<1> HIDE DEF t
<1>3. /\ order' \in OrderRow /\ order'.state = t /\ order'.kind = k
      /\ order'.sponsor = order.sponsor /\ order'.designated = order.designated
      /\ order'.pinned = order.pinned
  BY <1>1, <1>2, OrderFacts DEF OrderRow, OcState, Booked
<1>4. Agrees(k) /\ (verdict = k \/ k \in {"release", "refund:account-disputed"})
  BY <1>2, OrderFacts, Kinds DEF VerdictFits, Agrees, BothBondsLeft
<1>5. k # "refund:account-disputed" =>
        /\ OUTCOME_RULES[k].customerBond # "leave"
        /\ \/ OUTCOME_RULES[k].sponsorBond # "leave"
           \/ order.sponsor = "none" \/ bonds[order.sponsor] # "held"
  <2>1. k = "refund:bond-expired" => bonds[order.sponsor] # "held"
    BY DEF IInv, BondBook, ExpiredIsGone
  <2>2. k \notin {"refund:bond-expired", "refund:account-disputed"} => k \notin SponsorBondLeft
    BY <1>2 DEF SettlementKind, RefundKind, SponsorBondLeft
  <2>3. k # "refund:account-disputed" => k \notin BothBondsLeft
    BY <1>2 DEF SettlementKind, RefundKind, BothBondsLeft
  <2> QED
    BY <1>2, <2>1, <2>2, <2>3, Dispositions
<1>6. BondBook' /\ bonds' \in [Party -> BondState] /\ verdict' \in Maybe(Outcome)
  BY <1>1, <1>2, <1>3, <1>4, <1>5, BondsJudged, SponsorIsParty DEF Watches, Booked
<1>7. TypeOK'
  BY <1>1, <1>3, <1>6 DEF IInv, TypeOK, Watches
<1>8. OrderBook'
  <2>1. KindFits' /\ PinFits' /\ PartnerFits'
    BY <1>2, <1>3, OrderFacts DEF KindFits, PinFits, PartnerFits, Booked, Unpinned, Undecided
  <2>2. VerdictFits'
    BY <1>1, <1>2, <1>3, <1>4, OrderFacts, Kinds DEF VerdictFits, Verdict, BothBondsLeft
  <2>3. TxFits' /\ OutboxFits' /\ ReleaseIsReady'
    BY <1>2, <1>3, OrderFacts, Ends DEF TxFits, OutboxFits, ReleaseIsReady, Watches, Booked
  <2> QED
    BY <2>1, <2>2, <2>3 DEF OrderBook
<1>9. ChainBook'
  <2>1. FinalIsDeep'
    BY DEF IInv, ChainBook, FinalIsDeep, Watches
  <2>2. LeafOf(coins[order.pinned].by) = LeafOf(TxFor(k))
    BY OrderFacts DEF TxFits
  <2>3. LedgerFollowsChain'
    BY <1>3, <2>2 DEF LedgerFollowsChain, Ended, Pinned, Watches, t
  <2> QED
    BY <2>1, <2>3 DEF ChainBook
<1>10. DueIsHeard'
  BY <1>1, ClockRests DEF IInv, Watches
<1> QED
  BY <1>6, <1>7, <1>8, <1>9, <1>10 DEF IInv

\* The customer's own sweep ends the order and judges nobody.
LEMMA Sweeps ==
  ASSUME IInv, Watches, UNCHANGED <<outgoing, alerts>>, order.state \notin Unpinned,
         MovesTo([order EXCEPT !.state = "swept", !.tx = "timelock"]), applyOutcome(order, "swept")
  PROVE  IInv'
<1>1. order' = [order EXCEPT !.state = "swept", !.tx = "timelock"] /\ due' = FALSE
      /\ bonds' = Judged(order, "swept") /\ verdict' = Verdict("swept")
  BY DEF MovesTo, applyOutcome
<1>2. /\ order' \in OrderRow /\ order'.state = "swept" /\ order'.kind = order.kind
      /\ order'.sponsor = order.sponsor /\ order'.designated = order.designated
      /\ order'.pinned = order.pinned
  BY <1>1, OrderFacts DEF OrderRow, OcState, Maybe, Tx
<1>3. "swept" \in Outcome /\ Agrees("swept") /\ verdict' = verdict
  BY <1>1 DEF Outcome, Agrees, Verdict, BothBondsLeft
<1>4. BondBook' /\ bonds' \in [Party -> BondState] /\ verdict' \in Maybe(Outcome)
  <2>1. order.sponsor \in Party
    BY SponsorIsParty DEF Unpinned
  <2> QED
    BY <1>1, <1>2, <1>3, <2>1, BondsJudged DEF Watches, Booked, Unpinned
<1>5. TypeOK'
  BY <1>1, <1>2, <1>4 DEF IInv, TypeOK, Watches
<1>6. OrderBook'
  <2>1. KindFits' /\ PinFits' /\ PartnerFits'
    BY <1>2, OrderFacts DEF KindFits, PinFits, PartnerFits, Booked, Unpinned, Undecided
  <2>2. VerdictFits' /\ TxFits' /\ OutboxFits' /\ ReleaseIsReady'
    BY <1>2, <1>3, OrderFacts, Ends DEF VerdictFits, TxFits, OutboxFits, ReleaseIsReady, Watches, Unpinned
  <2> QED
    BY <2>1, <2>2 DEF OrderBook
<1> QED
  BY <1>1, <1>2, <1>4, <1>5, <1>6, Moves DEF Watches, Booked

LEMMA Observes ==
  ASSUME IInv, Watches, observeSpend, order.state \notin Unpinned, order.state \notin OcTerminal
  PROVE  IInv'
<1> DEFINE by == coins[order.pinned].by
<1>1. UNCHANGED outgoing /\ order.pinned \in Utxos /\ by \in Maybe(Tx)
  BY BookedIsPinned DEF observeSpend, IInv, TypeOK, Coin
<1>2. CASE by = "timelock"
  <2>1. /\ MovesTo([order EXCEPT !.state = "swept", !.tx = "timelock"])
        /\ applyOutcome(order, "swept") /\ UNCHANGED alerts
    BY <1>2 DEF observeSpend
  <2> QED
    BY <1>1, <2>1, Sweeps
<1>3. CASE by # "timelock" /\ Adopted = "none"
  <2>1. alerts' = alerts \cup {"unknown-spend"} /\ UNCHANGED <<order, due, bonds, verdict>>
    BY <1>3 DEF observeSpend, Judging
  <2>2. TypeOK'
    BY <1>1, <2>1 DEF IInv, TypeOK, Watches, Alert
  <2> QED
    BY <2>1, <2>2, StandsStill DEF Watches
<1>4. CASE by # "timelock" /\ Adopted # "none"
  <2> DEFINE k == Adopted
  <2>1. /\ order' = [order EXCEPT !.state = "settling", !.kind = k, !.tx = by]
        /\ UNCHANGED due \/ due' = FALSE
        /\ UNCHANGED <<bonds, verdict, alerts>>
    BY <1>4, Zenon DEF observeSpend, Judging, Stays, MovesTo
  <2>2. LeafOf(by) = "release" => k = "release"
    <3>1. LeafOf(TxFor(order.kind)) = "release" => order.kind = "release"
      BY DEF TxFor, LeafOf
    <3> QED
      BY <3>1 DEF Adopted
  <2>3. LeafOf(by) # "release" => k = order.kind /\ k # "none" /\ LeafOf(by) = LeafOf(TxFor(order.kind))
    BY <1>4 DEF Adopted
  <2> HIDE DEF k, by
  <2>4. LeafOf(by) = LeafOf(TxFor(k))
    <3>1. TxFor("release") = "release" /\ LeafOf("release") = "release"
      BY DEF TxFor, LeafOf
    <3> QED
      BY <2>2, <2>3, <3>1
  <2>5. k \in SettlementKind /\ (k = "release" \/ k = order.kind)
    BY <2>2, <2>3, OrderFacts DEF SettlementKind, OrderRow, Maybe
  <2>6. k \in Maybe(SettlementKind)
    BY <2>5 DEF Maybe
  <2>7. /\ order' \in OrderRow /\ order'.state = "settling" /\ order'.kind = k /\ order'.tx = by
        /\ order'.sponsor = order.sponsor /\ order'.designated = order.designated
        /\ order'.pinned = order.pinned
    BY <1>1, <2>1, <2>6, OrderFacts DEF OrderRow, OcState
  <2>8. TypeOK'
    BY <1>1, <2>1, <2>7 DEF IInv, TypeOK, Watches
  <2>9. OrderBook'
    <3>1. meta'.outbox \in Maybe(Ours)
      BY OrderFacts DEF OutboxFits, Watches
    <3>2. order'.kind = "release" \/ (order'.kind = order.kind /\ UNCHANGED verdict)
      BY <2>1, <2>5, <2>7
    <3> QED
      BY <2>4, <2>5, <2>7, <3>1, <3>2, SettlingBook
  <2> QED
    BY <2>1, <2>5, <2>7, <2>8, <2>9, MovesUnjudged DEF Watches, Booked, Unpinned
<1> QED
  BY <1>2, <1>3, <1>4

LEMMA Rebroadcasts ==
  ASSUME IInv, Watches, rebroadcast, order.state = "settling", meta.outbox = order.tx
  PROVE  IInv'
<1>1. UNCHANGED <<order, due, alerts, bonds, verdict>>
      /\ outgoing' = outgoing \cup {[coin |-> order.pinned, tx |-> meta.outbox]}
  BY DEF rebroadcast, Judging
<1>2. order.pinned \in Utxos
  BY BookedIsPinned DEF IInv, Unpinned
<1>3. meta.outbox # "none"
  <2>1. LeafOf(TxFor(order.kind)) # "none"
    BY Leaves DEF Ours
  <2> QED
    BY <2>1, OrderFacts, Leaves DEF TxFits
<1>4. meta.outbox \in Tx
  BY <1>3, OrderFacts DEF OutboxFits, Ours, Tx, Maybe
<1>5. outgoing' \subseteq [coin : Utxos, tx : Tx]
  BY <1>1, <1>2, <1>4 DEF IInv, TypeOK
<1>6. TypeOK'
  BY <1>1, <1>5 DEF IInv, TypeOK, Watches
<1> QED
  BY <1>1, <1>6, StandsStill DEF Watches

-----------------------------------------------------------------------------
(* The watcher decides.                                                     *)

LEMMA JudgesFunding ==
  ASSUME NEW known \in BOOLEAN
  PROVE  /\ judgeFunding(known) = "none" => Confirmed = {}
         /\ judgeFunding(known) = "funded" =>
              known /\ \A u \in Confirmed : coins[u].value # "wrong" /\ coins[u].at # "shallow"
  BY DEF judgeFunding

\* Which stage each action belongs to, and for which outcome it is.
Justified(a, known) ==
  /\ a.do = "cancel" => \/ order.state = "listed" /\ a.kind = "cancel:expired"
                        \/ order.state = "bonded" /\ a.kind = "cancel:no-funding" /\ Confirmed = {}
  /\ a.do = "fund" => order.state = "bonded" /\ judgeFunding(known) = "funded"
  /\ a.do = "fold" => /\ order.state = "bonded" /\ judgeFunding(known) = "funded"
                      /\ \/ a.kind = "refund:reserve"
                         \/ a.kind = "refund:bond-expired" /\ ~ sponsorBondAlive
  /\ a.do = "settle" => /\ order.state \in {"funded", "presigned"} /\ due
                        /\ a.kind \in {"refund:sponsor-timeout", "refund:customer-late",
                                       "refund:account-disputed"}
  /\ a.do = "reorg" => order.state \in {"funded", "presigned"}
  /\ a.do = "dispute" => order.state = "remitted"
  /\ a.do = "confirmed" => /\ order.state = "settling" /\ coins[order.pinned].by = order.tx
                           /\ coins[order.pinned].final
  /\ a.do = "observe-spend" => order.state \notin {"none", "listed", "bonded"}
  /\ a.do = "rebroadcast" => order.state = "settling" /\ meta.outbox = order.tx

LEMMA Decides ==
  ASSUME NEW known \in BOOLEAN, NEW price \in {"stale", "below", "fine"},
         order.state \in OcState \ OcTerminal
  PROVE  Justified(decideOnchainAction(known, price), known)
<1> DEFINE a == decideOnchainAction(known, price)
<1>1. CASE order.state = "listed"
  <2>1. a = Kind("cancel", "cancel:expired") \/ a = Idle
    BY <1>1 DEF decideOnchainAction
  <2> QED
    BY <1>1, <2>1 DEF Justified, Idle, Kind
<1>2. CASE order.state = "bonded"
  <2>1. a = decideBonded(known, price)
    BY <1>2 DEF decideOnchainAction
  <2>2. \/ a = Do("anomaly") \/ a = Idle
        \/ a = Kind("cancel", "cancel:no-funding") /\ judgeFunding(known) = "none"
        \/ a = Kind("fold", "refund:bond-expired") /\ judgeFunding(known) = "funded" /\ ~ sponsorBondAlive
        \/ a = Kind("fold", "refund:reserve") /\ judgeFunding(known) = "funded"
        \/ a = Do("fund") /\ judgeFunding(known) = "funded"
    BY <2>1 DEF decideBonded
  <2> QED
    BY <1>2, <2>2, JudgesFunding DEF Justified, Idle, Kind, Do
<1>3. CASE order.state = "settling"
  <2>1. a = decideSettling(known)
    BY <1>3 DEF decideOnchainAction
  <2>2. \/ a \in {Do("observe-spend"), Do("anomaly"), Idle}
        \/ a = Do("confirmed") /\ coins[order.pinned].by = order.tx /\ SpendIsFinal
        \/ a = Do("rebroadcast") /\ meta.outbox = order.tx
    BY <2>1 DEF decideSettling
  <2> QED
    BY <1>3, <2>2 DEF Justified, Idle, Kind, Do, SpendIsFinal
<1>4. CASE order.state \notin {"listed", "bonded", "settling"}
  <2>1. a = decidePinned(known)
    BY <1>4 DEF decideOnchainAction
  <2>2. \/ a \in {Do("observe-spend"), Do("anomaly"), Idle}
        \/ a = Do("reorg") /\ order.state \in {"funded", "presigned"}
        \/ a = Overdue /\ due
    BY <2>1 DEF decidePinned
  <2>3. \/ Overdue = Idle
        \/ Overdue = Do("dispute") /\ order.state = "remitted"
        \/ /\ order.state \in {"funded", "presigned"}
           /\ \E k \in {"refund:sponsor-timeout", "refund:customer-late", "refund:account-disputed"} :
                Overdue = Kind("settle", k)
    BY DEF Overdue
  <2>4. order.state # "none"
    BY DEF OcState
  <2> QED
    BY <1>4, <2>2, <2>3, <2>4 DEF Justified, Idle, Kind, Do
<1> QED
  BY <1>1, <1>2, <1>3, <1>4

LEMMA NotesStrays ==
  ASSUME TypeOK, NEW a, NEW known, noteStrays(known, a)
  PROVE  meta' \in MetaRow /\ meta'.outbox = meta.outbox /\ meta'.presig = meta.presig
         /\ meta'.rescues = meta.rescues
<1>1. meta \in MetaRow
  BY DEF TypeOK
<1>2. CASE UNCHANGED meta
  BY <1>1, <1>2
<1>3. CASE meta' = [meta EXCEPT !.strays = strayUtxos(order', a)]
  <2>1. strayUtxos(order', a) \subseteq Utxos
    BY DEF strayUtxos, Confirmed
  <2> QED
    BY <1>1, <1>3, <2>1 DEF MetaRow
<1> QED
  BY <1>2, <1>3 DEF noteStrays

LEMMA Executes ==
  ASSUME IInv, Watches, NEW known \in BOOLEAN, NEW a, Justified(a, known), execute(a),
         order.state \in OcState \ OcTerminal
  PROVE  IInv'
<1>1. CASE a.do = "cancel" /\ cancel(a.kind)
  <2>1. a.kind \in {"cancel:customer", "cancel:expired", "cancel:no-funding"}
        /\ (order.state = "listed" \/ (order.state = "bonded" /\ a.kind = "cancel:no-funding"))
    BY <1>1 DEF Justified
  <2>2. /\ MovesTo([order EXCEPT !.state = "cancelled"])
        /\ bonds' = Dropped(Judged(order, a.kind)) /\ verdict' = Verdict(a.kind)
        /\ UNCHANGED <<outgoing, alerts>>
    BY <1>1 DEF cancel
  <2> QED
    BY <2>1, <2>2, CancelsTrade DEF Watches
<1>2. CASE a.do = "fund" /\ fund
  BY <1>2, Funds DEF Justified
<1>3. CASE a.do = "fold" /\ fold(a.kind)
  <2>1. PICK u \in Confirmed : DecideRefund(a.kind, u)
    BY <1>3 DEF fold
  <2>2. u \in Utxos /\ UNCHANGED <<outgoing, alerts>>
    BY <1>3 DEF fold, Confirmed
  <2>3. /\ order.state = "bonded" /\ a.kind \in RefundKind
        /\ a.kind = "refund:bond-expired" => bonds[order.sponsor] # "held"
    BY <1>3 DEF Justified, RefundKind, sponsorBondAlive
  <2> QED
    BY <2>1, <2>2, <2>3, DecidesRefund DEF Watches
<1>4. CASE a.do = "settle" /\ settle(a.kind)
  <2>1. DecideRefund(a.kind, order.pinned) /\ UNCHANGED <<outgoing, alerts>>
    BY <1>4 DEF settle
  <2>2. order.state \in {"funded", "presigned"} /\ a.kind \in RefundKind /\ a.kind # "refund:bond-expired"
    BY <1>4 DEF Justified, RefundKind
  <2>3. order.pinned \in Utxos
    BY <2>2, BookedIsPinned DEF IInv, Unpinned
  <2> QED
    BY <2>1, <2>2, <2>3, DecidesRefund DEF Watches
<1>5. CASE a.do = "reorg" /\ reorg
  BY <1>5, Reorganises DEF Justified
<1>6. CASE a.do = "dispute" /\ dispute
  <2>1. MovesTo([order EXCEPT !.state = "disputed"]) /\ UNCHANGED <<bonds, verdict, outgoing, alerts>>
    BY <1>6 DEF dispute, Judging
  <2> QED
    BY <1>6, <2>1, Disputed DEF Justified, Watches
<1>7. CASE a.do = "confirmed" /\ confirmed
  BY <1>7, Confirms DEF Justified
<1>8. CASE a.do = "observe-spend" /\ observeSpend
  <2>1. order.state \notin Unpinned
    BY <1>8, Ends DEF Justified, Unpinned
  <2> QED
    BY <1>8, <2>1, Observes
<1>9. CASE a.do = "rebroadcast" /\ rebroadcast
  BY <1>9, Rebroadcasts DEF Justified
<1>10. CASE UNCHANGED <<trade, outgoing, alerts>>
  <2>1. UNCHANGED <<order, due, bonds, verdict, outgoing, alerts>>
    BY <1>10 DEF trade
  <2>2. TypeOK'
    BY <2>1 DEF IInv, TypeOK, Watches
  <2> QED
    BY <2>1, <2>2, StandsStill DEF Watches
<1> QED
  BY <1>1, <1>2, <1>3, <1>4, <1>5, <1>6, <1>7, <1>8, <1>9, <1>10 DEF execute

\* What applies: nothing, or what was decided and is justified.
LEMMA Applied ==
  ASSUME IInv, NEW known \in BOOLEAN, NEW price \in {"stale", "below", "fine"}, apply(known, price)
  PROVE  \E a : /\ a = decideOnchainAction(known, price) /\ Justified(a, known) /\ noteStrays(known, a)
                /\ UNCHANGED <<trade, outgoing, alerts>> \/ execute(a)
                /\ a.do \in CLOCK_ACTIONS /\ ~ warm => UNCHANGED <<trade, outgoing, alerts>>
                /\ Watches /\ order.state \in OcState \ OcTerminal
<1> DEFINE a == decideOnchainAction(known, price)
<1>1. /\ order.state \in OcState \ OcTerminal /\ noteStrays(known, a)
      /\ IF a = Idle \/ (~ warm /\ a.do \in CLOCK_ACTIONS)
         THEN UNCHANGED <<trade, outgoing, alerts>> ELSE execute(a)
      /\ UNCHANGED <<lapsed, coins, reorgs, warm, mail, copies, crashes>>
  BY OrderFacts DEF apply, chain, OrderRow
<1>2. Justified(a, known)
  BY <1>1, Decides
<1> HIDE DEF a
<1>3. Watches
  BY <1>1, NotesStrays DEF Watches, IInv
<1> QED
  BY <1>1, <1>2, <1>3 DEF a

LEMMA Applies ==
  ASSUME IInv, NEW known \in BOOLEAN, NEW price \in {"stale", "below", "fine"}, apply(known, price)
  PROVE  IInv'
<1>1. PICK a : /\ Justified(a, known) /\ Watches /\ order.state \in OcState \ OcTerminal
               /\ UNCHANGED <<trade, outgoing, alerts>> \/ execute(a)
  BY Applied
<1>2. CASE UNCHANGED <<trade, outgoing, alerts>>
  <2>1. UNCHANGED <<order, due, bonds, verdict, outgoing, alerts>>
    BY <1>2 DEF trade
  <2>2. TypeOK'
    BY <1>1, <2>1 DEF IInv, TypeOK, Watches
  <2> QED
    BY <1>1, <2>1, <2>2, StandsStill DEF Watches
<1>3. CASE execute(a)
  BY <1>1, <1>3, Executes
<1> QED
  BY <1>1, <1>2, <1>3

LEMMA WatchesEnded ==
  ASSUME IInv, watchEnded
  PROVE  IInv'
<1>1. UNCHANGED <<order, due, bonds, verdict, lapsed, coins, reorgs, outgoing, warm, mail, copies, crashes, alerts>>
  BY DEF watchEnded, trade, chain
<1>2. meta' \in MetaRow /\ meta'.outbox = meta.outbox /\ meta'.presig = meta.presig
  BY OrderFacts DEF watchEnded, Confirmed, MetaRow
<1>3. TypeOK'
  BY <1>1, <1>2 DEF IInv, TypeOK
<1> QED
  BY <1>1, <1>2, <1>3, StandsStill

-----------------------------------------------------------------------------
LEMMA Starts == Init => IInv
<1> SUFFICES ASSUME Init PROVE IInv
  OBVIOUS
<1>1. TypeOK
  <2>1. order \in OrderRow /\ meta \in MetaRow
    BY DEF Init, OrderRow, MetaRow, Maybe
  <2>2. bonds \in [Party -> BondState] /\ coins \in [Utxos -> Coin]
    BY DEF Init, BondState, Coin, Maybe
  <2>3. reorgs \in 0..MaxReorgs /\ crashes \in 0..MaxCrashes
    BY OcTradeAssumption DEF Init
  <2>4. verdict \in Maybe(Outcome) /\ due \in BOOLEAN /\ warm \in BOOLEAN
    BY DEF Init, Maybe
  <2> QED
    BY <2>1, <2>2, <2>3, <2>4 DEF Init, TypeOK
<1>2. OrderBook
  <2>1. KindFits /\ PinFits /\ PartnerFits
    BY DEF Init, KindFits, PinFits, PartnerFits, Booked, Unpinned
  <2>2. VerdictFits /\ TxFits /\ OutboxFits /\ ReleaseIsReady
    BY DEF Init, VerdictFits, TxFits, OutboxFits, ReleaseIsReady, Maybe
  <2> QED
    BY <2>1, <2>2 DEF OrderBook
<1>3. ChainBook
  BY Ends DEF Init, ChainBook, FinalIsDeep, LedgerFollowsChain, Ended, Booked
<1>4. BondBook
  <2>1. \A p \in Party : bonds[p] = "none"
    BY DEF Init
  <2>2. OnlyJustTakings /\ AllJustTakings /\ TradeIsSecured
    BY <2>1 DEF Init, OnlyJustTakings, AllJustTakings, TradeIsSecured, Forfeits
  <2>3. NoBondWaits /\ NoOtherIsHeld /\ DesignatedHasNone /\ ExpiredIsGone /\ EndedHoldsNothing
    BY <2>1, Parties DEF Init, NoBondWaits, NoOtherIsHeld, DesignatedHasNone, ExpiredIsGone, EndedHoldsNothing
  <2> QED
    BY <2>2, <2>3 DEF BondBook
<1>5. DueIsHeard
  BY DEF Init, DueIsHeard
<1> QED
  BY <1>1, <1>2, <1>3, <1>4, <1>5 DEF IInv

LEMMA Steps == IInv /\ [Next]_vars => IInv'
<1> SUFFICES ASSUME IInv, [Next]_vars PROVE IInv'
  OBVIOUS
<1>1. CASE UNCHANGED vars
  <2>1. UNCHANGED <<order, meta, bonds, lapsed, coins, outgoing, due, warm, mail, copies, reorgs, crashes,
                    alerts, verdict>>
    BY <1>1 DEF vars
  <2>2. TypeOK'
    BY <2>1 DEF IInv, TypeOK
  <2> QED
    BY <2>1, <2>2, StandsStill
<1>2. CASE Requests
  <2>1. CASE ocOrderRequest
    BY <2>1, AsksForBonds
  <2>2. CASE \E s \in Sponsors : ocDesignatedOrderRequest(s) \/ ocClaim(s)
    BY <2>2, RequestsOfOneOrder, Claims
  <2>3. CASE ocAccountInfo \/ ocRemit \/ ocObjection
    BY <2>3, TakesAccounts, TakesRemittances
  <2>4. CASE ocDispute
    <3>1. /\ order.state = "remitted" /\ MovesTo([order EXCEPT !.state = "disputed"])
          /\ UNCHANGED <<coins, reorgs, lapsed, warm, crashes, bonds, verdict, outgoing, alerts, mail, copies, meta>>
      BY <2>4 DEF ocDispute, Handling, Judging, chain
    <3> QED
      BY <3>1, Disputed, OrderFacts
  <2>5. CASE ocCancel
    BY <2>5, Cancels
  <2>6. CASE \E u \in Utxos : ocPresig(u) \/ ocRescueCosign(u)
    BY <2>6, TakesPresignatures, Rescues
  <2>7. CASE \E tx \in {"release", "refund", "sponsor"} : ocCosign(tx)
    BY <2>7, Cosigns DEF Tx
  <2> QED
    BY <1>2, <2>1, <2>2, <2>3, <2>4, <2>5, <2>6, <2>7 DEF Requests
<1>3. CASE Commands
  BY <1>3, Rules, ResolvesAccounts, Rescues DEF Commands
<1>4. CASE Watching
  BY <1>4, Applies, WatchesEnded, Polls DEF Watching
<1>5. CASE Effects
  BY <1>5, Disposes, Broadcasts DEF Effects
<1>6. CASE People
  BY <1>6, PeopleSteps
<1>7. CASE World
  BY <1>7, ClockSteps, AtNode, Deposits, Mines, Drops, Reorgs, SpendsConfirm, Spends DEF World
<1> QED
  BY <1>1, <1>2, <1>3, <1>4, <1>5, <1>6, <1>7 DEF Next

LEMMA Invariant == Spec => []IInv
  BY Starts, Steps, PTL DEF Spec

-----------------------------------------------------------------------------
\* Order, bonds, coins and clock keep their types, for any people, outputs, reorganisations and
\* restarts and every mishap.
THEOREM TypeCorrect == Spec => []TypeOK
<1>1. IInv => TypeOK
  BY DEF IInv
<1> QED
  BY <1>1, Invariant, PTL

\* From the moment the account may be disclosed until a settlement begins, the daemon holds the
\* sponsor's release of the very funding that is pinned, whatever is reorganised and re-signed
\* (handlers.ts, ocPresig; O-003, O-005).
THEOREM ReleaseIsAlwaysReady == Spec => []ReleaseIsReady
<1>1. IInv => ReleaseIsReady
  BY DEF IInv, OrderBook
<1> QED
  BY <1>1, Invariant, PTL

\* How an order ended is what the chain did with its escrow, for good: no reorganisation, no
\* eviction and no broadcast of a pending effect undoes it (watcher.ts, confirmed; O-004).
THEOREM LedgerIsTrue == Spec => []LedgerFollowsChain
<1>1. IInv => LedgerFollowsChain
  BY DEF IInv, ChainBook
<1> QED
  BY <1>1, Invariant, PTL

\* A bond is taken if the first outcome that judged it says so, or has expired at the node, and
\* only then; and an ended trade holds none (flow.ts, applyOutcome).
THEOREM BondsAreJust == Spec => []BondsGoWhereTheyShould
<1>1. IInv => BondsFollowVerdict
  <2> SUFFICES ASSUME BondBook, NEW p \in Party
               PROVE  /\ bonds[p] \in {"taking", "taken"} => Forfeits(p)
                      /\ bonds[p] \in {"returning", "returned"} /\ order.designated = "none" /\ Forfeits(p)
                           => p \in lapsed
    BY DEF IInv, BondsFollowVerdict, Forfeits
  <2> QED
    BY DEF BondBook, OnlyJustTakings, AllJustTakings
<1>2. IInv => NothingHeldAtEnd
  <2> SUFFICES ASSUME IInv, Ended, order.state # "swept", order.kind # "refund:account-disputed",
                      \A p \in Party : bonds[p] \notin {"taking", "returning"}, NEW p \in Party
               PROVE  bonds[p] \in {"none", "returned", "taken"}
    BY DEF NothingHeldAtEnd
  <2>1. bonds[p] \in BondState /\ bonds[p] # "held"
    BY DEF IInv, TypeOK, BondBook, EndedHoldsNothing, Ended
  <2>2. order.state \notin {"none", "listed"}
    BY Ends DEF Ended, Booked
  <2>3. bonds[p] \notin {"asked", "paid"}
    BY <2>2, Parties DEF IInv, BondBook, NoBondWaits
  <2> QED
    BY <2>1, <2>3 DEF BondState
<1>3. IInv => BondsGoWhereTheyShould
  BY <1>1, <1>2 DEF BondsGoWhereTheyShould
<1> QED
  BY <1>3, Invariant, PTL

-----------------------------------------------------------------------------
(* How the order goes on, whoever moves it.                                 *)

Forward ==
  /\ order'.pinned = order.pinned
  /\ order'.remitted = order.remitted \/ (order.state = "presigned" /\ order'.state = "remitted")
  /\ \/ order'.state = order.state \/ order.state = "none"
     \/ canOnchainTransition(order.state, order'.state)
  /\ verdict # "none" => verdict' = verdict

\* Requests and commands refund nothing and cancel only what is in the market.
ByPeople == /\ Forward
            /\ \/ order'.state = order.state \/ order'.state \notin {"refunding", "cancelled"}
               \/ order.state = "listed" /\ order'.state = "cancelled"

LEMMA ForwardTo ==
  ASSUME IInv, NEW s \in OcState, MovesTo([order EXCEPT !.state = s]),
         verdict # "none" => verdict' = verdict
  PROVE  Forward /\ order'.state = s
<1>1. order' = [order EXCEPT !.state = s] /\ canOnchainTransition(order.state, order'.state)
  BY OrderFacts DEF MovesTo, OrderRow
<1>2. order'.state = s /\ order'.pinned = order.pinned /\ order'.remitted = order.remitted
  BY <1>1, OrderFacts DEF OrderRow
<1> QED
  BY <1>1, <1>2 DEF Forward

LEMMA VerdictStays == ASSUME NEW k, verdict # "none" PROVE Verdict(k) = verdict
  BY DEF Verdict

LEMMA Same_ByPeople == ASSUME UNCHANGED <<order, verdict>> PROVE ByPeople
  BY DEF ByPeople, Forward

LEMMA RequestsAreByPeople ==
  ASSUME IInv, Requests
  PROVE  ByPeople
<1>1. order \in OrderRow
  BY OrderFacts
<1>2. CASE ocOrderRequest \/ \E u \in Utxos : ocRescueCosign(u)
  BY <1>2, Same_ByPeople DEF ocOrderRequest, ocRescueCosign, Judging
<1>3. CASE \E s \in Sponsors : ocDesignatedOrderRequest(s)
  <2>1. PICK s \in Sponsors : Listed(s) /\ order.state = "none" /\ UNCHANGED verdict
    BY <1>3 DEF ocDesignatedOrderRequest, Judging
  <2>2. order'.state = "listed" /\ order'.pinned = order.pinned /\ order'.remitted = order.remitted
    BY <1>1, <2>1 DEF Listed, OrderRow
  <2> QED
    BY <2>1, <2>2 DEF ByPeople, Forward
<1>4. CASE \E s \in Sponsors : ocClaim(s)
  <2>1. PICK s \in Sponsors : UNCHANGED verdict /\ (UNCHANGED order \/ bondOc(s))
    BY <1>4 DEF ocClaim
  <2>2. CASE bondOc(s)
    <3>1. order'.state = "bonded" /\ order'.pinned = order.pinned /\ order'.remitted = order.remitted
          /\ canOnchainTransition(order.state, "bonded")
      BY <1>1, <2>2 DEF bondOc, MovesTo, OrderRow
    <3> QED
      BY <2>1, <3>1 DEF ByPeople, Forward
  <2> QED
    BY <2>1, <2>2, Same_ByPeople
<1>5. CASE ocAccountInfo \/ ocObjection
  <2>1. UNCHANGED verdict /\ \/ UNCHANGED order
                             \/ order' = [order EXCEPT !.accountSent = TRUE]
                             \/ order' = [order EXCEPT !.accountDisputed = TRUE]
    BY <1>5 DEF ocAccountInfo, ocObjection, Takes, Judging, Stays
  <2>2. order'.state = order.state /\ order'.pinned = order.pinned /\ order'.remitted = order.remitted
    BY <1>1, <2>1 DEF OrderRow
  <2> QED
    BY <2>1, <2>2 DEF ByPeople, Forward
<1>6. CASE ocRemit
  <2>1. UNCHANGED verdict /\ \/ UNCHANGED order
                             \/ /\ order.state = "presigned"
                                /\ order' = [order EXCEPT !.state = "remitted", !.remitted = TRUE]
                                /\ canOnchainTransition(order.state, order'.state)
    BY <1>1, <1>6 DEF ocRemit, Takes, Judging, MovesTo, OrderRow
  <2>2. CASE ~ UNCHANGED order
    <3>1. order'.state = "remitted" /\ order'.pinned = order.pinned
      BY <1>1, <2>1, <2>2 DEF OrderRow
    <3> QED
      BY <2>1, <2>2, <3>1 DEF ByPeople, Forward
  <2> QED
    BY <2>1, <2>2, Same_ByPeople
<1>7. CASE ocDispute \/ \E u \in Utxos : ocPresig(u)
  <2>1. UNCHANGED verdict /\ \/ UNCHANGED order
                             \/ MovesTo([order EXCEPT !.state = "disputed"])
                             \/ MovesTo([order EXCEPT !.state = "presigned"])
    BY <1>7 DEF ocDispute, ocPresig, Takes, Judging
  <2> QED
    BY <2>1, ForwardTo, Same_ByPeople DEF ByPeople, OcState
<1>8. CASE ocCancel
  <2>1. \/ UNCHANGED <<order, verdict>>
        \/ /\ order.state = "listed" /\ MovesTo([order EXCEPT !.state = "cancelled"])
           /\ verdict' = Verdict("cancel:customer")
    BY <1>8 DEF ocCancel
  <2> QED
    BY <2>1, ForwardTo, VerdictStays, Same_ByPeople DEF ByPeople, OcState
<1>9. CASE \E tx \in {"release", "refund", "sponsor"} : ocCosign(tx)
  <2>1. PICK k : enterSettling(k)
    BY <1>9 DEF ocCosign
  <2>2. order'.state = "settling" /\ order'.pinned = order.pinned /\ order'.remitted = order.remitted
        /\ canOnchainTransition(order.state, "settling")
    BY <1>1, <2>1 DEF enterSettling, MovesTo, OrderRow
  <2>3. verdict # "none" => verdict' = verdict
    BY <2>1, VerdictStays DEF enterSettling, applyOutcome
  <2> QED
    BY <2>2, <2>3 DEF ByPeople, Forward
<1> QED
  BY <1>2, <1>3, <1>4, <1>5, <1>6, <1>7, <1>8, <1>9 DEF Requests

LEMMA CommandsAreByPeople ==
  ASSUME IInv, Commands
  PROVE  ByPeople
<1>1. CASE oc_rule \/ resolveAccountDispute
  <2>1. PICK k : order' = [order EXCEPT !.kind = k] /\ verdict' = Verdict(k)
    BY <1>1 DEF oc_rule, resolveAccountDispute, Stays, applyOutcome
  <2>2. order'.state = order.state /\ order'.pinned = order.pinned /\ order'.remitted = order.remitted
    BY <2>1, OrderFacts DEF OrderRow
  <2> QED
    BY <2>1, <2>2, VerdictStays DEF ByPeople, Forward
<1>2. CASE \E u \in Utxos : requestRescue(u)
  BY <1>2, Same_ByPeople DEF requestRescue, Judging
<1> QED
  BY <1>1, <1>2 DEF Commands

LEMMA PollsAreByPeople ==
  ASSUME IInv, NEW p \in Party, PollBond(p)
  PROVE  ByPeople
<1>1. UNCHANGED verdict /\ (UNCHANGED order \/ (order.state = "none" /\ Listed("none")) \/ bondOc(p))
  BY DEF PollBond
<1>2. CASE bondOc(p)
  <2>1. order'.state = "bonded" /\ order'.pinned = order.pinned /\ order'.remitted = order.remitted
        /\ canOnchainTransition(order.state, "bonded")
    BY <1>2, OrderFacts DEF bondOc, MovesTo, OrderRow
  <2> QED
    BY <1>1, <2>1 DEF ByPeople, Forward
<1>3. CASE order.state = "none" /\ Listed("none")
  <2>1. order'.state = "listed" /\ order'.pinned = order.pinned /\ order'.remitted = order.remitted
    BY <1>3, OrderFacts DEF Listed, OrderRow
  <2> QED
    BY <1>1, <1>3, <2>1 DEF ByPeople, Forward
<1> QED
  BY <1>1, <1>2, <1>3, Same_ByPeople

\* Nothing else touches the order.
LEMMA RestIsByPeople ==
  ASSUME watchEnded \/ Effects \/ People \/ World
  PROVE  UNCHANGED <<order, verdict>>
<1>1. CASE watchEnded
  BY <1>1 DEF watchEnded, trade
<1>2. CASE Effects
  BY <1>2 DEF Effects, DisposeBond, Broadcast, BroadcastDead, Broadcasting, trade
<1>3. CASE People
  BY <1>3 DEF People, SponsorSigns, CustomerSendsAccount, SponsorRemits, SponsorObjects, Sends
<1>4. CASE World
  BY <1>4 DEF World, DeadlinePasses, Restart, WarmUp, Around, BondPaid, BondFails, Lapse, AtTheNode,
     Deposit, Mine, Drop, Reorg, SpendConfirms, Evict, Sweep, ReleaseOnChain, Spend, OnChain
<1> QED
  BY <1>1, <1>2, <1>3, <1>4

-----------------------------------------------------------------------------
(* The clock.                                                               *)

LEMMA PeopleAreFair ==
  ASSUME ByPeople
  PROVE  InTimeIsHeard /\ FundedIsNotForfeited
  BY DEF ByPeople, InTimeIsHeard, FundedIsNotForfeited

LEMMA WatcherIsFair ==
  ASSUME IInv, NEW known \in BOOLEAN, NEW price \in {"stale", "below", "fine"}, apply(known, price)
  PROVE  InTimeIsHeard /\ FundedIsNotForfeited
<1>1. PICK a : /\ Justified(a, known)
               /\ UNCHANGED <<trade, outgoing, alerts>> \/ execute(a)
               /\ a.do \in CLOCK_ACTIONS /\ ~ warm => UNCHANGED <<trade, outgoing, alerts>>
               /\ order.state \in OcState \ OcTerminal
  BY Applied
<1>2. CASE UNCHANGED <<trade, outgoing, alerts>>
  BY <1>2, PeopleAreFair, Same_ByPeople DEF trade
<1>3. CASE ~ UNCHANGED <<trade, outgoing, alerts>>
  <2>1. execute(a) /\ (a.do \in CLOCK_ACTIONS => warm)
    BY <1>1, <1>3 DEF IInv, TypeOK
  <2>2. order \in OrderRow
    BY OrderFacts
  <2>3. CASE a.do = "cancel" /\ cancel(a.kind)
    <3>1. order'.state = "cancelled"
      BY <2>3, ForwardTo, VerdictStays DEF cancel, OcState
    <3> QED
      BY <1>1, <2>3, <3>1 DEF Justified, InTimeIsHeard, FundedIsNotForfeited
  <2>4. CASE a.do = "fold" /\ fold(a.kind)
    <3>1. PICK u : order' = [order EXCEPT !.state = "refunding", !.kind = a.kind, !.pinned = u]
      BY <2>4 DEF fold, DecideRefund, MovesTo
    <3>2. order'.state = "refunding" /\ order'.kind = a.kind
      BY <2>2, <3>1 DEF OrderRow
    <3>3. a.kind \in {"refund:reserve", "refund:bond-expired"}
      BY <1>1, <2>4 DEF Justified
    <3> QED
      BY <3>2, <3>3 DEF InTimeIsHeard, FundedIsNotForfeited
  <2>5. CASE a.do = "settle" /\ settle(a.kind)
    <3>1. order' = [order EXCEPT !.state = "refunding", !.kind = a.kind, !.pinned = order.pinned]
      BY <2>5 DEF settle, DecideRefund, MovesTo
    <3>2. order'.state = "refunding"
      BY <2>2, <3>1 DEF OrderRow
    <3>3. mail = {}
      BY <1>1, <2>1, <2>5 DEF Justified, CLOCK_ACTIONS, IInv, DueIsHeard
    <3> QED
      BY <3>2, <3>3 DEF InTimeIsHeard, FundedIsNotForfeited
  <2>6. CASE \/ a.do = "fund" /\ fund
             \/ a.do = "reorg" /\ reorg
             \/ a.do = "dispute" /\ dispute
             \/ a.do = "confirmed" /\ confirmed
    <3>1. PICK s \in Booked \cup {"funded", "bonded", "disputed"} : order'.state = s
      <4>1. CASE fund
        BY <2>2, <4>1 DEF fund, MovesTo, OrderRow
      <4>2. CASE reorg
        BY <2>2, <4>2 DEF reorg, MovesTo, Unfunded, OrderRow
      <4>3. CASE dispute
        BY <2>2, <4>3 DEF dispute, MovesTo, OrderRow
      <4>4. CASE a.do = "confirmed" /\ confirmed
        <5>1. order.state = "settling"
          BY <1>1, <4>4 DEF Justified
        <5>2. order.kind \in SettlementKind
          BY <5>1, OrderFacts DEF KindFits
        <5>3. OUTCOME_RULES[order.kind].terminal \in Booked
          BY <5>2, Terminals
        <5> QED
          BY <2>2, <4>4, <5>3 DEF confirmed, MovesTo, OrderRow
      <4> QED
        BY <2>6, <4>1, <4>2, <4>3, <4>4
    <3> QED
      BY <3>1 DEF InTimeIsHeard, FundedIsNotForfeited, Booked
  <2>7. CASE a.do = "observe-spend" /\ observeSpend
    <3>1. order'.state \in {"swept", "settling"} \/ UNCHANGED order
      <4>1. \/ UNCHANGED order
            \/ \E k, t : order' = [order EXCEPT !.state = "settling", !.kind = k, !.tx = t]
            \/ \E t : order' = [order EXCEPT !.state = "swept", !.tx = t]
        BY <2>7, Zenon DEF observeSpend, Stays, MovesTo
      <4> QED
        BY <2>2, <4>1 DEF OrderRow
    <3> QED
      BY <3>1 DEF InTimeIsHeard, FundedIsNotForfeited
  <2>8. CASE a.do = "rebroadcast" /\ rebroadcast
    BY <2>8 DEF rebroadcast, InTimeIsHeard, FundedIsNotForfeited
  <2> QED
    BY <1>3, <2>1, <2>3, <2>4, <2>5, <2>6, <2>7, <2>8 DEF execute
<1> QED
  BY <1>2, <1>3

LEMMA FairSteps ==
  ASSUME IInv, Next
  PROVE  InTimeIsHeard /\ FundedIsNotForfeited
<1>1. CASE Requests \/ Commands
  BY <1>1, RequestsAreByPeople, CommandsAreByPeople, PeopleAreFair
<1>2. CASE Watching
  BY <1>2, WatcherIsFair, PollsAreByPeople, RestIsByPeople, Same_ByPeople, PeopleAreFair DEF Watching
<1>3. CASE Effects \/ People \/ World
  BY <1>3, RestIsByPeople, Same_ByPeople, PeopleAreFair
<1> QED
  BY <1>1, <1>2, <1>3 DEF Next

\* Who signed, remitted or objected in time is not refunded against for being late, even if the
\* daemon was down over the deadline, and nobody loses his bond for a funding that is confirmed
\* (CATCHUP_WARMUP_SEC; decide.ts; O-001, O-014).
THEOREM NobodyIsLateUnheard == Spec => ClockIsFair
<1>1. IInv /\ [Next]_vars => [InTimeIsHeard /\ FundedIsNotForfeited]_vars
  BY FairSteps
<1> QED
  BY <1>1, Invariant, PTL DEF Spec, ClockIsFair

-----------------------------------------------------------------------------
(* KRW against bitcoin: what spends the escrow, once a remittance is taken.  *)
(* A rescue of money that may still be the funding, and a sweep that         *)
(* disappears again, are assumed away: with either the property is false.    *)

Remitted == {"remitted", "disputed", "settling", "swept"} \cup Booked
RemittedFits == order.remitted => order.state \in Remitted
\* A funding has the agreed value, and keeps it.
ValueIsKnown == \A u \in Utxos : coins[u].at # "none" => coins[u].value # "unset"
PinnedIsExact == order.pinned # "none" => coins[order.pinned].value = "exact"
SweptIsSpent == order.state = "swept" => coins[order.pinned].by = "timelock"
\* So what is rescued is never the funding of this trade.
NotAStray == order.pinned \notin meta.strays
Rescuing(u) == \/ meta.rescues[u] # "none"
               \/ coins[u].by = "rescue"
               \/ \E e \in outgoing : e.coin = u /\ e.tx = "rescue"
RescueIsOfStrays == \A u \in Utxos : Rescuing(u) =>
  coins[u].value = "wrong" \/ (order.state \in OcTerminal /\ u # order.pinned)
\* Besides a rescue only the one transaction in the outbox is ours.
OursIsKept == \A u \in Utxos : coins[u].by \in {"refund", "sponsor"} => meta.outbox = coins[u].by
RuledForCustomer == order.remitted /\ meta.outbox = "refund" => verdict = "customer_win"
KrwInv == /\ RemittedFits /\ ValueIsKnown /\ PinnedIsExact /\ SweptIsSpent /\ NotAStray
          /\ RescueIsOfStrays /\ OursIsKept /\ RuledForCustomer

LEMMA KrwFollows ==
  ASSUME IInv, KrwInv
  PROVE  KrwProtectsEscrow
<1> SUFFICES ASSUME order.remitted, LeafOf(Pinned.by) = "customer-win"
             PROVE  verdict = "customer_win"
  BY DEF KrwProtectsEscrow
<1>1. order.pinned \in Utxos
  BY BookedIsPinned, Ends DEF IInv, KrwInv, RemittedFits, Remitted, Unpinned, Booked
<1>2. Pinned.by \in Maybe(Tx)
  BY <1>1 DEF IInv, TypeOK, Coin, Pinned
<1>3. Pinned.by \in {"refund", "rescue"}
  BY <1>2 DEF LeafOf, Maybe, Tx
<1>4. Pinned.by # "rescue"
  BY <1>1, Parties DEF KrwInv, RescueIsOfStrays, Rescuing, PinnedIsExact, Pinned
<1>5. meta.outbox = "refund"
  BY <1>1, <1>3, <1>4 DEF KrwInv, OursIsKept, Pinned
<1> QED
  BY <1>5 DEF KrwInv, RuledForCustomer

LEMMA RemittedForward ==
  ASSUME IInv, RemittedFits, Forward
  PROVE  RemittedFits' /\ (order.state \in OcTerminal => order'.state \in OcTerminal)
<1>1. order.state \in Remitted => order'.state \in Remitted
  BY Transitions, Ends DEF Forward, canOnchainTransition, Remitted, Booked
<1>2. order.state \in OcTerminal => order'.state \in OcTerminal
  BY Transitions, Ends DEF Forward, canOnchainTransition, Booked
<1>3. RemittedFits'
  BY <1>1 DEF RemittedFits, Forward, Remitted
<1> QED
  BY <1>2, <1>3

\* The order goes on and no coin moves.
LEMMA KrwRests ==
  ASSUME IInv, KrwInv, Forward, UNCHANGED coins,
         meta'.rescues = meta.rescues, meta'.outbox = meta.outbox,
         order.pinned \notin meta'.strays,
         \A e \in outgoing' : e \in outgoing \/ e.tx # "rescue",
         order'.state = "swept" => order.state = "swept" \/ coins[order.pinned].by = "timelock"
  PROVE  KrwInv'
<1>1. RemittedFits' /\ (order.state \in OcTerminal => order'.state \in OcTerminal)
  BY RemittedForward DEF KrwInv
<1>2. ValueIsKnown' /\ PinnedIsExact' /\ SweptIsSpent' /\ NotAStray' /\ OursIsKept'
  BY DEF KrwInv, ValueIsKnown, PinnedIsExact, SweptIsSpent, NotAStray, OursIsKept, Forward
<1>3. RescueIsOfStrays'
  <2>1. \A u \in Utxos : Rescuing(u)' => Rescuing(u)
    BY DEF Rescuing
  <2> QED
    BY <1>1, <2>1 DEF KrwInv, RescueIsOfStrays, Forward
<1>4. RuledForCustomer'
  <2>1. order.state = "presigned" => meta.outbox = "none"
    BY OrderFacts, Ends DEF OutboxFits, Booked
  <2> QED
    BY <2>1 DEF KrwInv, RuledForCustomer, Forward
<1> QED
  BY <1>1, <1>2, <1>3, <1>4 DEF KrwInv

\* A coin goes on.
LEMMA KrwCoin ==
  ASSUME IInv, KrwInv, UNCHANGED <<order, meta, outgoing, verdict>>, NEW u \in Utxos, NEW c,
         coins' = [coins EXCEPT ![u] = c],
         coins[u].value = "unset" \/ c.value = coins[u].value,
         c.at # "none" => c.value # "unset",
         c.by \in {"refund", "sponsor", "rescue"} => c.by = coins[u].by,
         coins[u].by = "timelock" => c.by = "timelock"
  PROVE  KrwInv'
<1>1. coins'[u] = c /\ \A v \in Utxos : v # u => coins'[v] = coins[v]
  BY DEF IInv, TypeOK
<1>2. order.pinned \in Utxos \/ order.pinned = "none"
  BY OrderFacts DEF OrderRow, Maybe
<1>3. order.state = "swept" => order.pinned \in Utxos
  BY BookedIsPinned DEF IInv, Unpinned
<1>4. RemittedFits' /\ NotAStray' /\ RuledForCustomer'
  BY DEF KrwInv, RemittedFits, NotAStray, RuledForCustomer
<1>5. ValueIsKnown' /\ PinnedIsExact'
  BY <1>1, <1>2 DEF KrwInv, ValueIsKnown, PinnedIsExact
<1>6. SweptIsSpent'
  BY <1>1, <1>3 DEF KrwInv, SweptIsSpent
<1>7. OursIsKept'
  BY <1>1 DEF KrwInv, OursIsKept
<1>8. RescueIsOfStrays'
  <2>1. \A v \in Utxos : Rescuing(v)' => Rescuing(v)
    BY <1>1 DEF Rescuing
  <2>2. \A v \in Utxos : coins[v].value = "wrong" => coins'[v].value = "wrong"
    BY <1>1
  <2> QED
    BY <2>1, <2>2 DEF KrwInv, RescueIsOfStrays
<1> QED
  BY <1>4, <1>5, <1>6, <1>7, <1>8 DEF KrwInv

LEMMA KrwDeposits ==
  ASSUME IInv, KrwInv, NEW u \in Utxos, Deposit(u)
  PROVE  KrwInv'
<1>1. PICK v \in {"exact", "wrong"} :
         /\ coins' = [coins EXCEPT ![u] = [coins[u] EXCEPT !.at = "mempool", !.value = v]]
         /\ coins[u].value \in {"unset", v}
  BY DEF Deposit, Becomes
<1> DEFINE c == [coins[u] EXCEPT !.at = "mempool", !.value = v]
<1>2. c.by = coins[u].by /\ c.value = v
  BY Coins DEF IInv, Coin
<1> HIDE DEF c
<1>3. coins' = [coins EXCEPT ![u] = c]
  BY <1>1 DEF c
<1>4. UNCHANGED <<order, meta, outgoing, verdict>>
  BY DEF Deposit, OnChain
<1> QED
  BY <1>1, <1>2, <1>3, <1>4, KrwCoin

\* What moves in the chain: blocks, their undoing, confirmations.
LEMMA KrwBlocks ==
  ASSUME IInv, KrwInv, NEW u \in Utxos, Mine(u) \/ Drop(u) \/ Reorg(u) \/ SpendConfirms(u)
  PROVE  KrwInv'
<1> DEFINE low(a) == [coins[u] EXCEPT !.at = a]
           gone == [coins[u] EXCEPT !.at = "none", !.by = "none"]
           final == [coins[u] EXCEPT !.final = TRUE]
<1>1. UNCHANGED <<order, meta, outgoing, verdict>>
  BY DEF Mine, Drop, Reorg, SpendConfirms, OnChain
<1>2. coins[u] \in Coin /\ coins \in [Utxos -> Coin]
  BY Coins DEF IInv
<1>3. \/ \E a \in {"none", "mempool", "shallow", "deep"} :
           coins' = [coins EXCEPT ![u] = low(a)] /\ (a # "none" => coins[u].at # "none")
      \/ coins' = [coins EXCEPT ![u] = gone] /\ coins[u].by # "timelock"
      \/ coins' = [coins EXCEPT ![u] = final]
  <2>1. CASE Mine(u) \/ Drop(u) \/ SpendConfirms(u)
    BY <2>1 DEF Mine, Drop, SpendConfirms, Becomes
  <2>2. CASE Reorg(u)
    BY <1>2, <2>2, ReorgIsACoin DEF Reorg
  <2> QED
    BY <2>1, <2>2
<1>4. ASSUME NEW a \in {"none", "mempool", "shallow", "deep"}, coins' = [coins EXCEPT ![u] = low(a)],
             a # "none" => coins[u].at # "none"
      PROVE  KrwInv'
  <2>1. low(a).value = coins[u].value /\ low(a).by = coins[u].by /\ low(a).at = a
    BY <1>2 DEF Coin
  <2>2. a # "none" => coins[u].value # "unset"
    BY <1>4 DEF KrwInv, ValueIsKnown
  <2> HIDE DEF low
  <2> QED
    BY <1>1, <1>4, <2>1, <2>2, KrwCoin
<1>5. CASE coins' = [coins EXCEPT ![u] = gone] /\ coins[u].by # "timelock"
  <2>1. gone.value = coins[u].value /\ gone.by = "none" /\ gone.at = "none"
    BY <1>2 DEF Coin
  <2> HIDE DEF gone
  <2> QED
    BY <1>1, <1>5, <2>1, KrwCoin
<1>6. CASE coins' = [coins EXCEPT ![u] = final]
  <2>1. final.value = coins[u].value /\ final.by = coins[u].by /\ final.at = coins[u].at
    BY <1>2 DEF Coin
  <2>2. final.at # "none" => final.value # "unset"
    BY <2>1 DEF KrwInv, ValueIsKnown
  <2> HIDE DEF final
  <2> QED
    BY <1>1, <1>6, <2>1, <2>2, KrwCoin
<1> QED
  BY <1>3, <1>4, <1>5, <1>6

\* A spend comes, or one that is no sweep goes.
LEMMA KrwSpends ==
  ASSUME IInv, KrwInv, "sweep-evicted" \notin Mishaps, NEW u \in Utxos,
         Evict(u) \/ Sweep(u) \/ ReleaseOnChain(u)
  PROVE  KrwInv'
<1>1. PICK t \in {"none", "timelock", "release"} :
         /\ coins' = [coins EXCEPT ![u] = [coins[u] EXCEPT !.by = t]]
         /\ coins[u].by # "timelock"
  BY DEF Evict, Sweep, ReleaseOnChain, Spend, Becomes
<1> DEFINE c == [coins[u] EXCEPT !.by = t]
<1>2. c.by = t /\ c.value = coins[u].value /\ c.at = coins[u].at
  BY Coins DEF IInv, Coin
<1> HIDE DEF c
<1>3. coins' = [coins EXCEPT ![u] = c]
  BY <1>1 DEF c
<1>4. c.at # "none" => c.value # "unset"
  BY <1>2 DEF KrwInv, ValueIsKnown
<1>5. UNCHANGED <<order, meta, outgoing, verdict>>
  BY DEF Evict, Sweep, ReleaseOnChain, Spend, OnChain
<1> QED
  BY <1>1, <1>2, <1>3, <1>4, <1>5, KrwCoin

\* A pending transaction goes out: it is the outbox's, or a rescue that was allowed.
LEMMA KrwBroadcasts ==
  ASSUME IInv, KrwInv, NEW e \in outgoing, Broadcast(e) \/ BroadcastDead(e)
  PROVE  KrwInv'
<1>1. UNCHANGED <<order, verdict>> /\ outgoing' = outgoing \ {e}
  BY DEF Broadcast, BroadcastDead, Broadcasting, trade
<1>2. CASE BroadcastDead(e)
  <2>1. UNCHANGED <<coins, meta>> /\ Forward
    BY <1>1, <1>2 DEF BroadcastDead, Forward
  <2> QED
    BY <1>1, <2>1, KrwRests DEF KrwInv, NotAStray
<1>3. CASE Broadcast(e)
  <2> DEFINE u == e.coin
             t == e.tx
             c == [coins[u] EXCEPT !.by = t]
  <2>1. u \in Utxos /\ t \in Tx
    BY DEF IInv, TypeOK
  <2>2. coins \in [Utxos -> Coin] /\ coins[u] \in Coin
    BY <2>1, Coins DEF IInv
  <2>3. /\ rawOf(e) /\ coins[u].at # "none" /\ coins[u].by \in {"none", t}
        /\ coins' = [coins EXCEPT ![u].by = t]
        /\ meta' = IF t = "rescue" THEN [meta EXCEPT !.rescues[u] = "sent"] ELSE meta
    BY <1>3 DEF Broadcast, ChainTakes
  <2>4. coins' = [coins EXCEPT ![u] = c]
    BY <2>1, <2>2, <2>3, ReorgIsACoin
  <2>5. c.by = t /\ c.value = coins[u].value /\ c.at = coins[u].at
    BY <2>2 DEF Coin
  <2>6. /\ meta'.strays = meta.strays /\ meta'.outbox = meta.outbox
        /\ \A v \in Utxos : meta'.rescues[v] # "none" => meta.rescues[v] # "none" \/ (v = u /\ t = "rescue")
    <3>1. CASE t = "rescue"
      BY <2>1, <2>3, <3>1, OrderFacts DEF MetaRow
    <3>2. CASE t # "rescue"
      BY <2>3, <3>2
    <3> QED
      BY <3>1, <3>2
  <2>7. t = "rescue" => Rescuing(u)
    BY DEF Rescuing
  <2>8. t \in {"refund", "sponsor"} => meta.outbox = t
    BY <2>3 DEF rawOf
  <2> HIDE DEF u, t, c
  <2>9. coins'[u] = c /\ \A v \in Utxos : v # u => coins'[v] = coins[v]
    BY <2>1, <2>2, <2>4
  <2>10. order.pinned \in Utxos \/ order.pinned = "none"
    BY OrderFacts DEF OrderRow, Maybe
  <2>11. order.state = "swept" => order.pinned \in Utxos
    BY BookedIsPinned DEF IInv, Unpinned
  <2>12. RemittedFits' /\ NotAStray' /\ RuledForCustomer'
    BY <1>1, <2>6 DEF KrwInv, RemittedFits, NotAStray, RuledForCustomer
  <2>13. ValueIsKnown' /\ PinnedIsExact'
    BY <1>1, <2>1, <2>5, <2>9, <2>10 DEF KrwInv, ValueIsKnown, PinnedIsExact
  <2>14. SweptIsSpent'
    BY <1>1, <2>3, <2>5, <2>9, <2>11 DEF KrwInv, SweptIsSpent
  <2>15. OursIsKept'
    BY <2>5, <2>6, <2>8, <2>9 DEF KrwInv, OursIsKept
  <2>16. RescueIsOfStrays'
    <3>1. \A v \in Utxos : Rescuing(v)' => Rescuing(v)
      BY <1>1, <2>5, <2>6, <2>7, <2>9 DEF Rescuing
    <3>2. \A v \in Utxos : coins[v].value = "wrong" => coins'[v].value = "wrong"
      BY <2>5, <2>9
    <3> QED
      BY <1>1, <3>1, <3>2 DEF KrwInv, RescueIsOfStrays
  <2> QED
    BY <2>12, <2>13, <2>14, <2>15, <2>16 DEF KrwInv
<1> QED
  BY <1>2, <1>3

\* What the watcher notes is never the funding the row has pinned.
LEMMA StraysNoted ==
  ASSUME IInv, IInv', NotAStray, NEW known, NEW a, noteStrays(known, a),
         \/ order'.pinned \in {order.pinned, "none"}
         \/ known /\ order.sponsor # "none" /\ order'.state \notin OcTerminal
  PROVE  NotAStray'
<1>1. CASE order'.pinned = "none"
  <2>1. meta'.strays \subseteq Utxos
    BY DEF IInv, TypeOK, MetaRow
  <2> QED
    BY <1>1, <2>1, Parties DEF NotAStray
<1>2. CASE order'.pinned # "none"
  <2>1. order'.state # "bonded"
    BY <1>2 DEF IInv, OrderBook, PinFits, Unpinned
  <2>2. CASE meta' = [meta EXCEPT !.strays = strayUtxos(order', a)]
    <3>1. meta'.strays = Confirmed \ {order'.pinned}
      BY <2>1, <2>2, OrderFacts DEF strayUtxos, MetaRow
    <3> QED
      BY <3>1 DEF NotAStray
  <2>3. CASE UNCHANGED meta /\ order'.pinned = order.pinned
    BY <2>3 DEF NotAStray
  <2> QED
    BY <1>2, <2>2, <2>3 DEF noteStrays
<1> QED
  BY <1>1, <1>2

\* The pinned funding changes only before anything is remitted.
LEMMA KrwRepins ==
  ASSUME IInv, KrwInv, UNCHANGED <<coins, outgoing>>,
         order.state \in {"bonded", "funded", "presigned"}, order'.remitted = order.remitted,
         order'.state # "swept", meta'.rescues = meta.rescues, meta'.outbox = meta.outbox,
         order'.pinned # "none" => coins[order'.pinned].value = "exact", NotAStray'
  PROVE  KrwInv'
<1>1. ~ order.remitted /\ order.state \notin OcTerminal
  BY Ends DEF KrwInv, RemittedFits, Remitted, Booked
<1>2. RemittedFits' /\ RuledForCustomer'
  BY <1>1 DEF RemittedFits, RuledForCustomer
<1>3. ValueIsKnown' /\ PinnedIsExact' /\ SweptIsSpent' /\ OursIsKept'
  BY DEF KrwInv, ValueIsKnown, PinnedIsExact, SweptIsSpent, OursIsKept
<1>4. RescueIsOfStrays'
  <2>1. \A u \in Utxos : Rescuing(u)' => Rescuing(u)
    BY DEF Rescuing
  <2> QED
    BY <1>1, <2>1 DEF KrwInv, RescueIsOfStrays
<1> QED
  BY <1>2, <1>3, <1>4 DEF KrwInv

LEMMA KrwWatches ==
  ASSUME IInv, KrwInv, NEW known \in BOOLEAN, NEW price \in {"stale", "below", "fine"},
         apply(known, price)
  PROVE  KrwInv'
<1>1. PICK a : /\ Justified(a, known) /\ noteStrays(known, a)
               /\ UNCHANGED <<trade, outgoing, alerts>> \/ execute(a)
               /\ Watches /\ order.state \in OcState \ OcTerminal
  BY Applied
<1>2. IInv' /\ order \in OrderRow
  BY Applies, OrderFacts
<1>3. UNCHANGED coins /\ meta'.rescues = meta.rescues /\ meta'.outbox = meta.outbox
  BY <1>1, NotesStrays DEF Watches, IInv
<1>4. ASSUME Forward, \A e \in outgoing' : e \in outgoing \/ e.tx # "rescue",
             order'.state = "swept" => coins[order.pinned].by = "timelock"
      PROVE  KrwInv'
  <2>1. NotAStray' /\ order'.pinned = order.pinned
    BY <1>1, <1>2, <1>4, StraysNoted DEF KrwInv, Forward
  <2> QED
    BY <1>3, <1>4, <2>1, KrwRests DEF NotAStray
<1>5. CASE UNCHANGED <<trade, outgoing, alerts>>
  <2>1. UNCHANGED <<order, verdict, outgoing>> /\ order.state # "swept"
    BY <1>1, <1>5, Ends DEF trade
  <2> QED
    BY <1>4, <2>1 DEF Forward
<1>6. CASE \/ a.do = "cancel" /\ cancel(a.kind)
           \/ a.do = "dispute" /\ dispute
           \/ a.do = "confirmed" /\ confirmed
  <2>1. UNCHANGED outgoing
    BY <1>6 DEF cancel, dispute, confirmed
  <2>2. PICK s \in Booked \cup {"cancelled", "disputed"} :
          MovesTo([order EXCEPT !.state = s]) /\ (verdict # "none" => verdict' = verdict)
    <3>1. CASE cancel(a.kind)
      BY <3>1, VerdictStays DEF cancel
    <3>2. CASE dispute
      BY <3>2 DEF dispute, Judging
    <3>3. CASE a.do = "confirmed" /\ confirmed
      <4>1. order.kind \in SettlementKind
        BY <1>1, <3>3, OrderFacts DEF Justified, KindFits
      <4>2. OUTCOME_RULES[order.kind].terminal \in Booked
        BY <4>1, Terminals
      <4> QED
        BY <3>3, <4>2, VerdictStays DEF confirmed, applyOutcome
    <3> QED
      BY <1>6, <3>1, <3>2, <3>3
  <2>3. s \in OcState /\ s # "swept"
    BY <2>2 DEF OcState, Booked
  <2>4. Forward /\ order'.state = s
    BY <2>2, <2>3, ForwardTo
  <2> QED
    BY <1>4, <2>1, <2>3, <2>4
<1>7. CASE a.do = "settle" /\ settle(a.kind)
  <2>1. /\ order' = [order EXCEPT !.state = "refunding", !.kind = a.kind, !.pinned = order.pinned]
        /\ canOnchainTransition(order.state, order'.state)
        /\ UNCHANGED outgoing /\ (verdict # "none" => verdict' = verdict)
    BY <1>2, <1>7, VerdictStays DEF settle, DecideRefund, MovesTo, applyOutcome, OrderRow
  <2>2. order'.state = "refunding" /\ order'.pinned = order.pinned /\ order'.remitted = order.remitted
    BY <1>2, <2>1 DEF OrderRow
  <2> QED
    BY <1>4, <2>1, <2>2 DEF Forward
<1>8. CASE a.do = "observe-spend" /\ observeSpend
  <2> DEFINE t == coins[order.pinned].by
  <2>1. UNCHANGED outgoing
    BY <1>8 DEF observeSpend
  <2>2. CASE UNCHANGED <<order, verdict>>
    BY <1>1, <1>4, <2>1, <2>2, Ends DEF Forward
  <2>3. CASE /\ t = "timelock" /\ MovesTo([order EXCEPT !.state = "swept", !.tx = t])
             /\ applyOutcome(order, "swept")
    <3>1. order'.state = "swept" /\ order'.pinned = order.pinned /\ order'.remitted = order.remitted
          /\ canOnchainTransition(order.state, order'.state)
      BY <1>2, <2>3 DEF MovesTo, OrderRow
    <3>2. verdict # "none" => verdict' = verdict
      BY <2>3, VerdictStays DEF applyOutcome
    <3> QED
      BY <1>4, <2>1, <2>3, <3>1, <3>2 DEF Forward
  <2>4. CASE /\ order' = [order EXCEPT !.state = "settling", !.kind = Adopted, !.tx = t]
             /\ order.state = "settling" \/ canOnchainTransition(order.state, order'.state)
             /\ UNCHANGED verdict
    <3>1. order'.state = "settling" /\ order'.pinned = order.pinned /\ order'.remitted = order.remitted
      BY <1>2, <2>4 DEF OrderRow
    <3> QED
      BY <1>4, <2>1, <2>4, <3>1 DEF Forward
  <2>5. [order EXCEPT !.state = "settling", !.kind = Adopted, !.tx = t].state = "settling"
    BY <1>2 DEF OrderRow
  <2>6. \/ UNCHANGED <<order, verdict>>
        \/ /\ t = "timelock" /\ MovesTo([order EXCEPT !.state = "swept", !.tx = t])
           /\ applyOutcome(order, "swept")
        \/ /\ order' = [order EXCEPT !.state = "settling", !.kind = Adopted, !.tx = t]
           /\ order.state = "settling" \/ canOnchainTransition(order.state, order'.state)
           /\ UNCHANGED verdict
    BY <1>8, Zenon DEF observeSpend, Stays, MovesTo, Judging
  <2> QED
    BY <2>2, <2>3, <2>4, <2>6
<1>9. CASE a.do = "rebroadcast" /\ rebroadcast
  <2>1. UNCHANGED <<order, verdict>>
        /\ outgoing' = outgoing \cup {[coin |-> order.pinned, tx |-> meta.outbox]}
    BY <1>9 DEF rebroadcast, Judging
  <2>2. meta.outbox # "rescue" /\ order.state # "swept"
    BY <1>1, OrderFacts, Ends DEF OutboxFits, Ours, Maybe
  <2> QED
    BY <1>4, <2>1, <2>2 DEF Forward
<1>10. CASE \/ a.do = "fund" /\ fund
            \/ a.do = "fold" /\ fold(a.kind)
  <2>1. PICK u \in Confirmed, s \in {"funded", "refunding"} :
          \E k : order' = [order EXCEPT !.state = s, !.kind = k, !.pinned = u]
    <3>1. CASE fund
      <4>1. PICK u \in Confirmed : order' = [order EXCEPT !.state = "funded", !.pinned = u]
        BY <3>1 DEF fund, MovesTo
      <4>2. order' = [order EXCEPT !.state = "funded", !.kind = order.kind, !.pinned = u]
        BY <1>2, <4>1 DEF OrderRow
      <4> QED
        BY <4>2
    <3>2. CASE fold(a.kind)
      BY <3>2 DEF fold, DecideRefund, MovesTo
    <3> QED
      BY <1>10, <3>1, <3>2
  <2>2. order'.state = s /\ order'.pinned = u /\ order'.remitted = order.remitted
    BY <1>2, <2>1 DEF OrderRow
  <2>3. order.state = "bonded" /\ judgeFunding(known) = "funded" /\ UNCHANGED outgoing
    BY <1>1, <1>10 DEF Justified, fund, fold
  <2>4. known /\ coins[u].value = "exact"
    <3>1. known /\ coins[u].value # "wrong"
      BY <2>3, JudgesFunding
    <3>2. u \in Utxos /\ coins[u].at # "none"
      BY DEF Confirmed
    <3>3. coins[u].value \in {"unset", "exact", "wrong"}
      BY <3>2 DEF IInv, TypeOK, Coin
    <3> QED
      BY <3>1, <3>2, <3>3 DEF KrwInv, ValueIsKnown
  <2>5. order.sponsor # "none" /\ order'.state \notin OcTerminal
    BY <2>2, <2>3, OrderFacts, Ends DEF PartnerFits, Booked
  <2>6. NotAStray'
    BY <1>1, <1>2, <2>4, <2>5, StraysNoted DEF KrwInv
  <2> QED
    BY <1>3, <2>2, <2>3, <2>4, <2>6, KrwRepins
<1>11. CASE a.do = "reorg" /\ reorg
  <2>1. order.state \in {"funded", "presigned"} /\ UNCHANGED outgoing /\ order' = Unfunded
    BY <1>1, <1>11 DEF Justified, reorg, MovesTo
  <2>2. order'.state = "bonded" /\ order'.pinned = "none" /\ order'.remitted = order.remitted
    BY <1>2, <2>1 DEF Unfunded, OrderRow
  <2>3. NotAStray'
    BY <1>1, <1>2, <2>2, StraysNoted DEF KrwInv
  <2> QED
    BY <1>3, <2>1, <2>2, <2>3, KrwRepins
<1>12. CASE execute(a)
  <2>1. CASE a.do = "anomaly" /\ UNCHANGED <<trade, outgoing, alerts>>
    BY <1>5, <2>1
  <2> QED
    BY <1>6, <1>7, <1>8, <1>9, <1>10, <1>11, <1>12, <2>1 DEF execute
<1> QED
  BY <1>1, <1>5, <1>12

\* Requests that sign for nothing: they move no coin and send nothing.
LEMMA KrwRequests ==
  ASSUME IInv, KrwInv, Forward, UNCHANGED <<coins, outgoing>>,
         UNCHANGED meta \/ (\E u : meta' = [meta EXCEPT !.presig = u]),
         order'.state # "swept" \/ UNCHANGED order
  PROVE  KrwInv'
<1>1. meta'.rescues = meta.rescues /\ meta'.outbox = meta.outbox /\ meta'.strays = meta.strays
  BY OrderFacts DEF MetaRow
<1>2. order'.state = "swept" => order.state = "swept"
  OBVIOUS
<1> QED
  BY <1>1, <1>2, KrwRests DEF KrwInv, NotAStray

LEMMA KrwCosigns ==
  ASSUME IInv, KrwInv, NEW tx \in Tx, ocCosign(tx), Forward
  PROVE  KrwInv'
<1> DEFINE k == IF tx = "release" THEN "release" ELSE order.kind
<1>1. UNCHANGED coins /\ enterSettling(k) /\ canActOnSignRequest(order.state, tx, order.kind)
  BY DEF ocCosign, Handling, chain
<1>2. /\ order.state \in {"remitted", "disputed", "refunding"} /\ order.state \notin OcTerminal
      /\ TxFor(k) = tx /\ tx \in Ours /\ (tx # "release" => k # "release")
  BY <1>1, MayActWhen, Ends DEF TxFor, Booked
<1> HIDE DEF k
<1>3. /\ order'.state = "settling" /\ order'.remitted = order.remitted /\ order'.pinned = order.pinned
      /\ outgoing' = outgoing \cup {[coin |-> order.pinned, tx |-> tx]}
      /\ k # "release" => UNCHANGED verdict
  BY <1>1, <1>2, OrderFacts DEF enterSettling, MovesTo, OrderRow
<1>4. meta'.outbox = tx /\ meta'.rescues = meta.rescues /\ meta'.strays = meta.strays
  BY <1>1, <1>2, OrderFacts DEF enterSettling, MetaRow
<1>5. RemittedFits'
  BY RemittedForward DEF KrwInv
<1>6. ValueIsKnown' /\ PinnedIsExact' /\ SweptIsSpent' /\ NotAStray'
  BY <1>1, <1>3, <1>4 DEF KrwInv, ValueIsKnown, PinnedIsExact, SweptIsSpent, NotAStray
<1>7. RescueIsOfStrays'
  <2>1. \A u \in Utxos : Rescuing(u)' => Rescuing(u)
    BY <1>1, <1>2, <1>3, <1>4 DEF Rescuing, Ours
  <2> QED
    BY <1>1, <1>2, <2>1 DEF KrwInv, RescueIsOfStrays
<1>8. OursIsKept'
  <2>1. meta.outbox = "none"
    BY <1>2, OrderFacts DEF OutboxFits
  <2> QED
    BY <1>1, <2>1 DEF KrwInv, OursIsKept
<1>9. RuledForCustomer'
  <2> SUFFICES ASSUME order.remitted, tx = "refund" PROVE verdict' = "customer_win"
    BY <1>3, <1>4 DEF RuledForCustomer
  <2>1. order.state \in Remitted
    BY DEF KrwInv, RemittedFits
  <2>2. order.state # "refunding"
    BY <2>1 DEF Remitted, Booked
  <2>3. order.kind = "customer_win"
    BY <1>1, <2>2 DEF canActOnSignRequest
  <2>4. verdict = "customer_win"
    BY <2>3, OrderFacts DEF VerdictFits
  <2> QED
    BY <1>2, <1>3, <2>4
<1> QED
  BY <1>5, <1>6, <1>7, <1>8, <1>9 DEF KrwInv

\* A rescue is asked only for what is not, or can no longer be, the funding.
LEMMA KrwRescues ==
  ASSUME IInv, KrwInv, "rescue-live" \notin Mishaps, NEW u \in Utxos,
         ocRescueCosign(u) \/ requestRescue(u)
  PROVE  KrwInv'
<1>1. UNCHANGED <<order, coins, verdict>>
  BY DEF ocRescueCosign, requestRescue, Handling, Judging, chain
<1>2. PICK r : meta' = [meta EXCEPT !.rescues[u] = r]
  BY DEF ocRescueCosign, requestRescue
<1>3. /\ meta'.strays = meta.strays /\ meta'.outbox = meta.outbox
      /\ \A v \in Utxos : v # u => meta'.rescues[v] = meta.rescues[v]
  BY <1>2, OrderFacts DEF MetaRow
<1>4. outgoing' \subseteq outgoing \cup {[coin |-> u, tx |-> "rescue"]}
  BY DEF ocRescueCosign, requestRescue
<1>5. Rescuing(u) \/ coins[u].value = "wrong" \/ (order.state \in OcTerminal /\ u # order.pinned)
  BY DEF ocRescueCosign, requestRescue, Rescuing, KrwInv, NotAStray
<1>6. RescueIsOfStrays'
  <2>1. \A v \in Utxos : v # u /\ Rescuing(v)' => Rescuing(v)
    BY <1>1, <1>3, <1>4 DEF Rescuing
  <2> QED
    BY <1>1, <1>5, <2>1 DEF KrwInv, RescueIsOfStrays
<1>7. RemittedFits' /\ ValueIsKnown' /\ PinnedIsExact' /\ SweptIsSpent'
  BY <1>1 DEF KrwInv, RemittedFits, ValueIsKnown, PinnedIsExact, SweptIsSpent
<1>8. NotAStray' /\ OursIsKept' /\ RuledForCustomer'
  BY <1>1, <1>3 DEF KrwInv, NotAStray, OursIsKept, RuledForCustomer
<1> QED
  BY <1>6, <1>7, <1>8 DEF KrwInv

\* What is seen of an order that has ended: its own funding is spent.
LEMMA KrwWatchesEnded ==
  ASSUME IInv, KrwInv, watchEnded
  PROVE  KrwInv'
<1>1. UNCHANGED <<order, coins, outgoing, verdict>>
  BY DEF watchEnded, trade, chain
<1>2. meta'.rescues = meta.rescues /\ meta'.outbox = meta.outbox /\ meta'.strays = Confirmed
  BY OrderFacts DEF watchEnded, MetaRow
<1>3. order.pinned \notin Confirmed
  <2>1. CASE order.state \in Booked
    <3>1. coins[order.pinned].final
      BY <2>1, Ends DEF IInv, ChainBook, LedgerFollowsChain, Ended, Pinned, Booked
    <3> QED
      BY <3>1 DEF Confirmed, IInv, ChainBook, FinalIsDeep
  <2>2. CASE order.state = "swept"
    BY <2>2 DEF Confirmed, KrwInv, SweptIsSpent
  <2>3. CASE order.state = "cancelled"
    BY <2>3, OrderFacts, Parties DEF Confirmed, PinFits, Unpinned
  <2> QED
    BY <2>1, <2>2, <2>3, Ends DEF watchEnded
<1> QED
  BY <1>1, <1>2, <1>3, KrwRests DEF Forward

\* The rest moves neither the order nor a coin.
LEMMA KrwStands ==
  ASSUME IInv, KrwInv, UNCHANGED <<order, meta, coins, outgoing, verdict>>
  PROVE  KrwInv'
  BY KrwRequests DEF Forward

LEMMA KrwPeople ==
  ASSUME IInv, KrwInv, "rescue-live" \notin Mishaps, Requests \/ Commands
  PROVE  KrwInv'
<1>1. Forward /\ order \in OrderRow
  BY RequestsAreByPeople, CommandsAreByPeople, OrderFacts DEF ByPeople
<1>2. CASE ocOrderRequest
  BY <1>2, KrwStands DEF ocOrderRequest, Handling, chain
<1>3. CASE \E s \in Sponsors : ocDesignatedOrderRequest(s) \/ ocClaim(s)
  <2>1. UNCHANGED <<coins, outgoing, meta>> /\ (UNCHANGED order \/ (\E s \in Sponsors : Listed(s) \/ bondOc(s)))
    BY <1>3 DEF ocDesignatedOrderRequest, ocClaim, Handling, chain
  <2>2. order'.state # "swept" \/ UNCHANGED order
    BY <1>1, <2>1 DEF Listed, bondOc, MovesTo, OrderRow
  <2> QED
    BY <1>1, <2>1, <2>2, KrwRequests
<1>4. CASE ocAccountInfo \/ ocRemit \/ ocObjection
  <2>1. UNCHANGED <<coins, outgoing, meta>>
        /\ \/ UNCHANGED order
           \/ order.state = "presigned" /\ order' = [order EXCEPT !.accountSent = TRUE]
           \/ order' = [order EXCEPT !.state = "remitted", !.remitted = TRUE]
           \/ order.state = "presigned" /\ order' = [order EXCEPT !.accountDisputed = TRUE]
    BY <1>4 DEF ocAccountInfo, ocRemit, ocObjection, Takes, Handling, Stays, MovesTo, chain
  <2>2. order'.state # "swept" \/ UNCHANGED order
    BY <1>1, <2>1 DEF OrderRow
  <2> QED
    BY <1>1, <2>1, <2>2, KrwRequests
<1>5. CASE ocDispute \/ ocCancel \/ \E u \in Utxos : ocPresig(u)
  <2>1. UNCHANGED <<coins, outgoing>> /\ (UNCHANGED meta \/ (\E u : meta' = [meta EXCEPT !.presig = u]))
    BY <1>5 DEF ocDispute, ocCancel, ocPresig, Takes, Handling, chain
  <2>2. UNCHANGED order \/ (\E s \in {"disputed", "cancelled", "presigned"} : order' = [order EXCEPT !.state = s])
    BY <1>5 DEF ocDispute, ocCancel, ocPresig, MovesTo
  <2>3. order'.state # "swept" \/ UNCHANGED order
    BY <1>1, <2>2 DEF OrderRow
  <2> QED
    BY <1>1, <2>1, <2>3, KrwRequests
<1>6. CASE \E tx \in {"release", "refund", "sponsor"} : ocCosign(tx)
  BY <1>1, <1>6, KrwCosigns DEF Tx
<1>7. CASE \E u \in Utxos : ocRescueCosign(u) \/ requestRescue(u)
  BY <1>7, KrwRescues
<1>8. CASE oc_rule \/ resolveAccountDispute
  <2>1. /\ UNCHANGED <<coins, outgoing, meta>> /\ order.state # "swept"
        /\ \E k : order' = [order EXCEPT !.kind = k]
    BY <1>8 DEF oc_rule, resolveAccountDispute, Handling, Stays, chain
  <2>2. order'.state # "swept"
    BY <1>1, <2>1 DEF OrderRow
  <2> QED
    BY <1>1, <2>1, <2>2, KrwRequests
<1> QED
  BY <1>2, <1>3, <1>4, <1>5, <1>6, <1>7, <1>8 DEF Requests, Commands

LEMMA KrwStarts == Init => KrwInv
<1> SUFFICES ASSUME Init PROVE KrwInv
  OBVIOUS
<1>1. RemittedFits /\ ValueIsKnown /\ PinnedIsExact /\ SweptIsSpent
  BY DEF Init, RemittedFits, ValueIsKnown, PinnedIsExact, SweptIsSpent
<1>2. NotAStray /\ RescueIsOfStrays /\ OursIsKept /\ RuledForCustomer
  BY DEF Init, NotAStray, RescueIsOfStrays, Rescuing, OursIsKept, RuledForCustomer
<1> QED
  BY <1>1, <1>2 DEF KrwInv

LEMMA KrwSteps ==
  ASSUME "rescue-live" \notin Mishaps, "sweep-evicted" \notin Mishaps, IInv, KrwInv, [Next]_vars
  PROVE  KrwInv'
<1>1. CASE UNCHANGED vars
  BY <1>1, KrwStands DEF vars
<1>2. CASE Requests \/ Commands
  BY <1>2, KrwPeople
<1>3. CASE Watching
  <2>1. CASE \E p \in Party : PollBond(p)
    <3>1. PICK p \in Party : PollBond(p)
      BY <2>1
    <3>2. UNCHANGED <<meta, coins, outgoing>> /\ (UNCHANGED order \/ Listed("none") \/ bondOc(p))
      BY <3>1 DEF PollBond, BondsOnly, chain
    <3>3. order'.state # "swept" \/ UNCHANGED order
      BY <3>2, OrderFacts DEF Listed, bondOc, MovesTo, OrderRow
    <3> QED
      BY <3>1, <3>2, <3>3, PollsAreByPeople, KrwRequests DEF ByPeople
  <2> QED
    BY <1>3, <2>1, KrwWatches, KrwWatchesEnded DEF Watching
<1>4. CASE Effects
  <2>1. CASE \E p \in Party : DisposeBond(p)
    BY <2>1, KrwStands DEF DisposeBond, BondsOnly, chain
  <2> QED
    BY <1>4, <2>1, KrwBroadcasts DEF Effects
<1>5. CASE People
  BY <1>5, KrwStands DEF People, SponsorSigns, CustomerSendsAccount, SponsorRemits, SponsorObjects,
     Sends, chain
<1>6. CASE World
  <2>1. CASE DeadlinePasses \/ Restart \/ WarmUp
    BY <2>1, KrwStands DEF DeadlinePasses, Restart, WarmUp, Around, chain
  <2>2. CASE \E p \in Party : BondPaid(p) \/ BondFails(p) \/ Lapse(p)
    BY <2>2, KrwStands DEF BondPaid, BondFails, Lapse, AtTheNode, chain
  <2> QED
    BY <1>6, <2>1, <2>2, KrwDeposits, KrwBlocks, KrwSpends DEF World
<1> QED
  BY <1>1, <1>2, <1>3, <1>4, <1>5, <1>6 DEF Next

\* Once a remittance has been taken, no signature of the daemon gives the customer the escrow
\* back unless a person has ruled for him.  Assumed away are the two mishaps that do break it: a
\* rescue asked for money that could still be the funding, and a customer's own sweep that the
\* ledger has booked and the mempool forgets again (handlers.ts, ocCosign, ocRescueCosign;
\* commands.ts, requestRescue; O-007, O-017).
THEOREM KrwIsProtected ==
  ASSUME "rescue-live" \notin Mishaps, "sweep-evicted" \notin Mishaps
  PROVE  Spec => []KrwProtectsEscrow
<1>1. IInv /\ KrwInv /\ [Next]_vars => KrwInv'
  BY KrwSteps
<1>2. IInv /\ KrwInv => KrwProtectsEscrow
  BY KrwFollows
<1> QED
  BY <1>1, <1>2, KrwStarts, Invariant, PTL DEF Spec

=============================================================================
