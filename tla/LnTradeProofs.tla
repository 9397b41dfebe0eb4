---------------------------- MODULE LnTradeProofs ----------------------------
(***************************************************************************)
(* LnTrade, proved for any number of sponsors, hold invoices and crashes,  *)
(* and whatever fails at LND: where the money may go.  The argument is the *)
(* bookkeeping between the order's row, the rows of its hold invoices and  *)
(* the node: who has asked for a settle, what a close has done so far, and *)
(* that a close that ends finds the trade where it found it.  The last two *)
(* theorems, about time, are for an LND that answers (Failing = {}).       *)
(***************************************************************************)
EXTENDS LnTrade, SequenceTheorems, TLAPS

Late == {"escrowed", "invoiced", "remitted"}
Early == {"none", "draft", "requested"}
Calls == {"escrow-timed-out", "settle-missed", "close-failed"}

\* The order's escrow is one of its hold invoices.
EscrowIsThere == order.escrow # 0 =>
  order.escrow \in DOMAIN holds /\ holds[order.escrow].purpose = "escrow"
\* Nothing moves a trade whose close has begun out of the reach of that close.
CloseIsLegal ==
  /\ order.pendingClose # "none" =>
       order.state \in OrderState /\ MovesTo(order, CLOSE_RULES[order.pendingClose].terminal)
  /\ pc = "closing" => order.pendingClose # "none"
ReasonIsKept ==
  /\ order.state \in Terminal => order.closeReason # "none"
  /\ order.closeReason # "none" => order.state = CLOSE_RULES[order.closeReason].terminal
NobodyYet ==
  /\ order.state \in Early => order.sponsor = "none" /\ order.escrow = 0
  /\ order.state = "claimed" => order.sponsor # "none"
OrderBook == EscrowIsThere /\ CloseIsLegal /\ ReasonIsKept /\ NobodyYet

\* A row that is final is true of the node.
Truthful(inv) == /\ inv.status = "settled" => inv.node = "settled"
                 /\ inv.status = "cancelled" => inv.node \in {"absent", "cancelled"}
FinalIsTrue == \A h \in DOMAIN holds : Truthful(holds[h])
\* Only the safety settle asks for a settle outside of a close.
OnlyEscrowIsAsked == \A h \in DOMAIN holds : holds[h].disposing = "settle" =>
  h = order.escrow /\ order.state \in {"remitted", "paid", "sponsor_wins", "customer_wins"}
\* What the node has settled and the row does not show yet is somebody's business.
SettlesAreOurs == \A h \in DOMAIN holds :
  holds[h].node = "settled" /\ holds[h].status # "settled" /\ holds[h].disposing = "none" =>
    order.pendingClose # "none"
\* An ended trade has no live row, and so nothing alive at the node.
EndedIsClosed == order.state \in Terminal => \A h \in DOMAIN holds : ~ LiveHold(holds[h])
\* Once the escrow was paid, a cancelled one has called a person.
EscrowIsKnown == order.state \in Late =>
  /\ order.escrow # 0
  /\ holds[order.escrow].status \in {"accepted", "settled", "cancelled"}
  /\ holds[order.escrow].disposing # "cancel"
  /\ holds[order.escrow].status = "cancelled" => alerts \cap Calls # {}
HoldBook == FinalIsTrue /\ OnlyEscrowIsAsked /\ SettlesAreOurs /\ EndedIsClosed /\ EscrowIsKnown

\* What a run of the close has behind it is dead at the node, an escrow it takes settled.
CloseGoesOn == pc = "closing" =>
  /\ \A h \in CloseSet \ todo : holds[h].node \notin {"open", "accepted"}
  /\ rule.escrow = "settle" /\ order.escrow # 0 /\ order.escrow \notin todo =>
       holds[order.escrow].node = "settled"
\* The poll still has rows to visit that were not final when it began.
PollIsOfOpen == pc = "poll" => \A h \in todo : holds[h].status \in {"open", "accepted"}
Progress == CloseGoesOn /\ PollIsOfOpen

Promises == PayoutBacked /\ NoFalseAlarm /\ EscrowTakenForCause /\ MoneyByRule

IInv == TypeOK /\ OrderBook /\ HoldBook /\ Progress /\ Promises

-----------------------------------------------------------------------------
\* The tables, spelt out.
LEMMA TerminalStates ==
  Terminal = {"paid", "cancelled", "sponsor_wins", "customer_wins", "admin_closed", "expired"}
  BY DEF Terminal, TRANSITIONS, OrderState

LEMMA Transitions ==
  /\ TRANSITIONS["requested"] = {"claimed", "cancelled", "expired"}
  /\ TRANSITIONS["claimed"] = {"requested", "verified", "cancelled", "expired"}
  /\ TRANSITIONS["verified"] = {"escrowed", "cancelled", "expired"}
  /\ TRANSITIONS["escrowed"] = {"invoiced", "admin_closed", "expired"}
  /\ TRANSITIONS["invoiced"] = {"remitted", "paid", "admin_closed", "expired"}
  /\ TRANSITIONS["remitted"] = {"paid", "sponsor_wins", "customer_wins"}
  /\ \A s \in Terminal : TRANSITIONS[s] = {}
  BY TerminalStates DEF TRANSITIONS, OrderState

\* Every reason ends the trade; only two take the escrow, and they take nothing else.
LEMMA Rules ==
  ASSUME NEW r \in LnCloseReason
  PROVE  /\ r # "none" /\ CLOSE_RULES[r].terminal \in Terminal
         /\ CLOSE_RULES[r].escrow \in {"settle", "cancel"}
         /\ CLOSE_RULES[r].escrow = "settle" <=> CLOSE_RULES[r].terminal \in {"paid", "sponsor_wins"}
         /\ CLOSE_RULES[r].escrow = "settle" =>
              CLOSE_RULES[r].customerDeposit = "refund" /\ CLOSE_RULES[r].sponsorDeposit = "refund"
<1>1. CLOSE_RULES[r].terminal = TerminalOf(r)
  BY DEF CLOSE_RULES
<1>2. CLOSE_RULES[r].escrow = IF r \in {"paid", "sponsor_wins"} THEN "settle" ELSE "cancel"
  BY DEF CLOSE_RULES
<1>3. r \in {"paid", "sponsor_wins"} =>
        CLOSE_RULES[r].customerDeposit = "refund" /\ CLOSE_RULES[r].sponsorDeposit = "refund"
  BY DEF CLOSE_RULES, CustomerAtFault, SponsorAtFault
<1>4. TerminalOf(r) \in Terminal /\ (TerminalOf(r) \in {"paid", "sponsor_wins"} <=> r \in {"paid", "sponsor_wins"})
  BY TerminalStates DEF TerminalOf, LnCloseReason
<1>5. r # "none"
  BY DEF LnCloseReason
<1>6. QED
  BY <1>1, <1>2, <1>3, <1>4, <1>5

\* Where a close may find the trade.
LEMMA LegalCloses ==
  ASSUME NEW s \in OrderState, NEW t, t \in TRANSITIONS[s]
  PROVE  /\ s \notin Terminal
         /\ t = "paid" => s \in {"invoiced", "remitted"}
         /\ t \in {"sponsor_wins", "customer_wins"} => s = "remitted"
         /\ s = "remitted" => t \in {"paid", "sponsor_wins", "customer_wins"}
         /\ s = "claimed" => t \notin {"paid", "sponsor_wins"}
  BY Transitions, TerminalStates DEF OrderState

-----------------------------------------------------------------------------
(* What the operators do to a row, to all the rows, and to the order.       *)

Statuses == {"creating", "open", "accepted", "settled", "cancelled"}
NodeStates == {"absent", "open", "accepted", "settled", "cancelled"}

LEMMA Became_Row ==
  ASSUME NEW r \in HoldRow, NEW s \in Statuses
  PROVE  /\ Became(r, s) \in HoldRow
         /\ Became(r, s).status = s
         /\ Became(r, s).purpose = r.purpose /\ Became(r, s).party = r.party
         /\ Became(r, s).node = r.node /\ Became(r, s).disposing = r.disposing
         /\ Became(r, s).creating = r.creating /\ Became(r, s).paid = r.paid
<1> DEFINE q == [r EXCEPT !.status = s]
           d == r.due /\ s \in {"creating", "open"}
<1>1. q \in HoldRow /\ q.status = s /\ q.due = r.due /\ d \in BOOLEAN
  BY DEF HoldRow, Statuses
<1>2. Became(r, s) = [q EXCEPT !.due = d]
  BY DEF Became, HoldRow
<1> HIDE DEF d
<1>3. [q EXCEPT !.due = d] \in HoldRow
  BY <1>1 DEF HoldRow
<1>4. /\ [q EXCEPT !.due = d].status = s
      /\ [q EXCEPT !.due = d].purpose = r.purpose /\ [q EXCEPT !.due = d].party = r.party
      /\ [q EXCEPT !.due = d].node = r.node /\ [q EXCEPT !.due = d].disposing = r.disposing
      /\ [q EXCEPT !.due = d].creating = r.creating /\ [q EXCEPT !.due = d].paid = r.paid
  BY <1>1 DEF HoldRow, Statuses
<1> QED
  BY <1>2, <1>3, <1>4

\* hold.create and hold.dispose write the node, the row's status and the end of the effect.
CreatedRow(r, s, n) == [Became(r, s) EXCEPT !.node = n, !.creating = FALSE]
DisposedRow(r, s, n) == [Became(r, s) EXCEPT !.node = n, !.disposing = "none"]

LEMMA Became_Ends ==
  ASSUME NEW r \in HoldRow, NEW s \in Statuses, NEW n \in NodeStates
  PROVE  /\ CreatedRow(r, s, n) \in HoldRow
         /\ CreatedRow(r, s, n).status = s /\ CreatedRow(r, s, n).node = n
         /\ CreatedRow(r, s, n).disposing = r.disposing
         /\ CreatedRow(r, s, n).purpose = r.purpose /\ CreatedRow(r, s, n).party = r.party
         /\ DisposedRow(r, s, n) \in HoldRow
         /\ DisposedRow(r, s, n).status = s /\ DisposedRow(r, s, n).node = n
         /\ DisposedRow(r, s, n).disposing = "none"
         /\ DisposedRow(r, s, n).purpose = r.purpose /\ DisposedRow(r, s, n).party = r.party
<1> DEFINE q == Became(r, s)
           c == [q EXCEPT !.node = n, !.creating = FALSE]
           d == [q EXCEPT !.node = n, !.disposing = "none"]
<1>1. q \in HoldRow /\ q.status = s /\ q.purpose = r.purpose /\ q.party = r.party
      /\ q.disposing = r.disposing
  BY Became_Row
<1>2. CreatedRow(r, s, n) = c /\ DisposedRow(r, s, n) = d
  BY DEF CreatedRow, DisposedRow
<1> HIDE DEF q
<1>3. c \in HoldRow /\ d \in HoldRow
  BY <1>1 DEF HoldRow, NodeStates, Maybe
<1>4. /\ c.status = s /\ c.node = n /\ c.disposing = r.disposing
      /\ c.purpose = r.purpose /\ c.party = r.party
      /\ d.status = s /\ d.node = n /\ d.disposing = "none"
      /\ d.purpose = r.purpose /\ d.party = r.party
  BY <1>1 DEF HoldRow
<1> HIDE DEF c, d
<1> QED
  BY <1>2, <1>3, <1>4

LEMMA Row_Node ==
  ASSUME NEW r \in HoldRow, NEW n \in NodeStates
  PROVE  LET q == [r EXCEPT !.node = n] IN
         /\ q \in HoldRow /\ q.purpose = r.purpose /\ q.party = r.party
         /\ q.status = r.status /\ q.node = n /\ q.disposing = r.disposing
  BY DEF HoldRow, NodeStates, Maybe

LEMMA Row_Disposing ==
  ASSUME NEW r \in HoldRow, NEW a \in {"settle", "cancel"}
  PROVE  LET q == [r EXCEPT !.disposing = a] IN
         /\ q \in HoldRow /\ q.purpose = r.purpose /\ q.party = r.party
         /\ q.status = r.status /\ q.node = r.node /\ q.disposing = a
  BY DEF HoldRow, NodeStates, Maybe

LEMMA Row_Due ==
  ASSUME NEW r \in HoldRow, NEW b \in BOOLEAN
  PROVE  LET q == [r EXCEPT !.due = b] IN
         /\ q \in HoldRow /\ q.purpose = r.purpose /\ q.party = r.party
         /\ q.status = r.status /\ q.node = r.node /\ q.disposing = r.disposing
  BY DEF HoldRow, NodeStates, Maybe

LEMMA Row_Paid ==
  ASSUME NEW r \in HoldRow, NEW b \in BOOLEAN
  PROVE  LET q == [r EXCEPT !.paid = b] IN
         /\ q \in HoldRow /\ q.purpose = r.purpose /\ q.party = r.party
         /\ q.status = r.status /\ q.node = r.node /\ q.disposing = r.disposing
  BY DEF HoldRow, NodeStates, Maybe

\* Rows written in place are rows again.
LEMMA InPlace ==
  ASSUME NEW hs \in Seq(HoldRow), NEW gs, gs = [h \in DOMAIN hs |-> gs[h]],
         \A h \in DOMAIN hs : gs[h] \in HoldRow
  PROVE  gs \in Seq(HoldRow) /\ Len(gs) = Len(hs) /\ DOMAIN gs = DOMAIN hs
<1>1. DOMAIN hs = 1..Len(hs) /\ Len(hs) \in Nat
  OBVIOUS
<1>2. gs \in [1..Len(hs) -> HoldRow]
  BY <1>1
<1> QED
  BY <1>1, <1>2

LEMMA WriteRow ==
  ASSUME NEW hs \in Seq(HoldRow), NEW h \in DOMAIN hs, NEW r \in HoldRow
  PROVE  LET gs == [hs EXCEPT ![h] = r] IN
         /\ gs \in Seq(HoldRow) /\ Len(gs) = Len(hs) /\ DOMAIN gs = DOMAIN hs
         /\ gs[h] = r /\ \A g \in DOMAIN hs \ {h} : gs[g] = hs[g]
<1> DEFINE gs == [hs EXCEPT ![h] = r]
<1>1. gs = [g \in DOMAIN hs |-> gs[g]] /\ \A g \in DOMAIN hs : gs[g] = IF g = h THEN r ELSE hs[g]
  OBVIOUS
<1>2. \A g \in DOMAIN hs : hs[g] \in HoldRow
  BY ElementOfSeq
<1> HIDE DEF gs
<1>3. \A g \in DOMAIN hs : gs[g] \in HoldRow
  BY <1>1, <1>2
<1> QED
  BY <1>1, <1>3, InPlace DEF gs

\* A disposal is written to a row unless one is pending there.
LEMMA Disposed_Rows ==
  ASSUME NEW hs \in Seq(HoldRow), NEW H, NEW a \in {"settle", "cancel"}
  PROVE  LET gs == Disposed(hs, H, a) IN
         /\ gs \in Seq(HoldRow) /\ Len(gs) = Len(hs) /\ DOMAIN gs = DOMAIN hs
         /\ \A h \in DOMAIN hs :
              /\ gs[h].purpose = hs[h].purpose /\ gs[h].party = hs[h].party
              /\ gs[h].status = hs[h].status /\ gs[h].node = hs[h].node
              /\ gs[h].disposing = IF h \in H /\ hs[h].disposing = "none" THEN a
                                   ELSE hs[h].disposing
<1> DEFINE gs == Disposed(hs, H, a)
<1>1. \A h \in DOMAIN hs : gs[h] = IF h \in H /\ hs[h].disposing = "none"
                                   THEN [hs[h] EXCEPT !.disposing = a] ELSE hs[h]
  BY DEF Disposed
<1>2. gs = [h \in DOMAIN hs |-> gs[h]]
  BY DEF Disposed
<1>3. \A h \in DOMAIN hs : hs[h] \in HoldRow
  BY ElementOfSeq
<1> HIDE DEF gs
<1>4. ASSUME NEW h \in DOMAIN hs
      PROVE  /\ gs[h] \in HoldRow
             /\ gs[h].purpose = hs[h].purpose /\ gs[h].party = hs[h].party
             /\ gs[h].status = hs[h].status /\ gs[h].node = hs[h].node
             /\ gs[h].disposing = IF h \in H /\ hs[h].disposing = "none" THEN a
                                  ELSE hs[h].disposing
  <2>1. CASE h \in H /\ hs[h].disposing = "none"
    <3> DEFINE q == [hs[h] EXCEPT !.disposing = a]
    <3>1. gs[h] = q
      BY <1>1, <2>1
    <3>2. /\ q \in HoldRow /\ q.purpose = hs[h].purpose /\ q.party = hs[h].party
          /\ q.status = hs[h].status /\ q.node = hs[h].node /\ q.disposing = a
      BY <1>3, Row_Disposing
    <3> HIDE DEF q
    <3> QED
      BY <2>1, <3>1, <3>2
  <2>2. CASE ~ (h \in H /\ hs[h].disposing = "none")
    BY <1>1, <1>3, <2>2
  <2> QED
    BY <2>1, <2>2
<1> QED
  BY <1>2, <1>4, InPlace DEF gs

LEMMA Reverted_Rows ==
  ASSUME NEW hs \in Seq(HoldRow), NEW o
  PROVE  LET gs == Reverted(hs, o) IN
         /\ gs \in Seq(HoldRow) /\ Len(gs) = Len(hs) /\ DOMAIN gs = DOMAIN hs
         /\ \A h \in DOMAIN hs :
              /\ gs[h].purpose = hs[h].purpose /\ gs[h].party = hs[h].party
              /\ gs[h].status = hs[h].status /\ gs[h].node = hs[h].node
              /\ gs[h].disposing \in {"cancel", hs[h].disposing}
              /\ gs[h].disposing # "none" \/ gs[h].disposing = hs[h].disposing
              /\ LiveHold(hs[h]) /\ (hs[h].purpose = "escrow" \/
                   (hs[h].purpose = "sponsor" /\ hs[h].party = o.sponsor)) => gs[h].disposing # "none"
<1> DEFINE H == {h \in DOMAIN hs : /\ LiveHold(hs[h])
                                   /\ \/ hs[h].purpose = "escrow"
                                      \/ hs[h].purpose = "sponsor" /\ hs[h].party = o.sponsor}
<1>1. Reverted(hs, o) = Disposed(hs, H, "cancel")
  BY DEF Reverted
<1>2. ASSUME NEW h \in DOMAIN hs, LiveHold(hs[h]),
             hs[h].purpose = "escrow" \/ (hs[h].purpose = "sponsor" /\ hs[h].party = o.sponsor)
      PROVE  h \in H
  BY <1>2
<1> HIDE DEF H
<1> DEFINE gs == Disposed(hs, H, "cancel")
<1>3. /\ gs \in Seq(HoldRow) /\ Len(gs) = Len(hs) /\ DOMAIN gs = DOMAIN hs
      /\ \A h \in DOMAIN hs :
           /\ gs[h].purpose = hs[h].purpose /\ gs[h].party = hs[h].party
           /\ gs[h].status = hs[h].status /\ gs[h].node = hs[h].node
           /\ gs[h].disposing = IF h \in H /\ hs[h].disposing = "none" THEN "cancel"
                                ELSE hs[h].disposing
  BY Disposed_Rows
<1> HIDE DEF gs
<1>4. ASSUME NEW h \in DOMAIN hs
      PROVE  /\ gs[h].disposing \in {"cancel", hs[h].disposing}
             /\ gs[h].disposing # "none" \/ gs[h].disposing = hs[h].disposing
             /\ h \in H => gs[h].disposing # "none"
  BY <1>3
<1> QED
  BY <1>1, <1>2, <1>3, <1>4 DEF gs

\* A planned invoice comes behind the others.
Fresh(r) == r.status = "creating" /\ r.node = "absent" /\ r.disposing = "none"

-----------------------------------------------------------------------------
(* The moves of the order's row.                                            *)

OrderStates == OrderState \cup {"none", "draft"}
Rest(o, p) == /\ p.sponsor = o.sponsor /\ p.pendingClose = o.pendingClose
              /\ p.closeReason = o.closeReason /\ p.escrow = o.escrow

Stays(o, p) == p.state = o.state /\ Rest(o, p)
Opens(o, p) == o.state \in {"none", "draft"} /\ p.state \in Early /\ Rest(o, p)
Claims(o, p) == /\ o.pendingClose = "none" /\ o.state = "requested" /\ p.state = "claimed"
                /\ p.sponsor \in Sponsors
                /\ p.pendingClose = o.pendingClose /\ p.closeReason = o.closeReason
                /\ p.escrow = o.escrow
GoesOn(o, p) == /\ o.pendingClose = "none" /\ Rest(o, p)
                /\ \/ o.state = "claimed" /\ p.state = "verified"
                   \/ o.state = "verified" /\ p.state = "escrowed"
                   \/ o.state = "escrowed" /\ p.state = "invoiced"
                   \/ o.state = "invoiced" /\ p.state = "remitted"
\* An escrow is planned for a claim, or could not be made.
Rebinds(o, p) == /\ o.state = "claimed" /\ p.state = "claimed"
                 /\ o.escrow = 0 \/ p.escrow = 0
                 /\ p.sponsor = o.sponsor /\ p.pendingClose = o.pendingClose
                 /\ p.closeReason = o.closeReason
Undoes(o, p) == /\ o.pendingClose = "none" /\ o.state = "claimed" /\ p.state = "requested"
                /\ p.sponsor = "none" /\ p.escrow = 0
                /\ p.pendingClose = o.pendingClose /\ p.closeReason = o.closeReason
Begins(o, p) == /\ o.pendingClose = "none" /\ p.pendingClose \in LnCloseReason
                /\ o.state \in OrderState /\ MovesTo(o, CLOSE_RULES[p.pendingClose].terminal)
                /\ p.state = o.state /\ p.sponsor = o.sponsor
                /\ p.closeReason = o.closeReason /\ p.escrow = o.escrow

Move(o, p) == \/ Stays(o, p) \/ Opens(o, p) \/ Claims(o, p) \/ GoesOn(o, p)
              \/ Rebinds(o, p) \/ Undoes(o, p) \/ Begins(o, p)

LEMMA Order_State ==
  ASSUME NEW o \in OrderRow, NEW s \in OrderStates
  PROVE  LET p == [o EXCEPT !.state = s] IN
         p \in OrderRow /\ p.state = s /\ Rest(o, p)
  BY DEF OrderRow, OrderStates, Rest

LEMMA Order_Designated ==
  ASSUME NEW o \in OrderRow, NEW d \in Sponsors
  PROVE  LET p == [o EXCEPT !.state = "requested", !.designated = d] IN
         p \in OrderRow /\ p.state = "requested" /\ Rest(o, p)
  BY DEF OrderRow, OrderState, Rest, Maybe

LEMMA Order_Claimed ==
  ASSUME NEW o \in OrderRow, NEW d \in Sponsors
  PROVE  LET p == [o EXCEPT !.state = "claimed", !.sponsor = d] IN
         /\ p \in OrderRow /\ p.state = "claimed" /\ p.sponsor = d
         /\ p.pendingClose = o.pendingClose /\ p.closeReason = o.closeReason /\ p.escrow = o.escrow
  BY DEF OrderRow, OrderState, Maybe

LEMMA Order_Account ==
  ASSUME NEW o \in OrderRow
  PROVE  LET p == [o EXCEPT !.accountSent = TRUE] IN p \in OrderRow /\ Stays(o, p)
  BY DEF OrderRow, Stays, Rest

LEMMA Order_Escrow ==
  ASSUME NEW o \in OrderRow, NEW e \in 0..MaxHolds
  PROVE  LET p == [o EXCEPT !.escrow = e] IN
         /\ p \in OrderRow /\ p.escrow = e /\ p.state = o.state /\ p.sponsor = o.sponsor
         /\ p.pendingClose = o.pendingClose /\ p.closeReason = o.closeReason
  BY DEF OrderRow

LEMMA Order_Deposit ==
  ASSUME NEW o \in OrderRow, NEW e \in 0..MaxHolds
  PROVE  LET p == [o EXCEPT !.sponsorDeposit = e] IN p \in OrderRow /\ Stays(o, p)
  BY DEF OrderRow, Stays, Rest

LEMMA Order_Closing ==
  ASSUME NEW o \in OrderRow, NEW r \in Maybe(LnCloseReason)
  PROVE  LET p == [o EXCEPT !.pendingClose = r] IN
         /\ p \in OrderRow /\ p.pendingClose = r
         /\ p.state = o.state /\ p.sponsor = o.sponsor
         /\ p.closeReason = o.closeReason /\ p.escrow = o.escrow
  BY DEF OrderRow

LEMMA Order_Unclaimed ==
  ASSUME NEW o \in OrderRow
  PROVE  LET p == Unclaimed(o) IN
         /\ p \in OrderRow /\ p.state = "requested" /\ p.sponsor = "none" /\ p.escrow = 0
         /\ p.pendingClose = o.pendingClose /\ p.closeReason = o.closeReason
<1> DEFINE a == [o EXCEPT !.state = "requested"]
           b == [a EXCEPT !.sponsor = "none"]
           c == [b EXCEPT !.escrow = 0]
           d == [c EXCEPT !.sponsorDeposit = 0]
<1>0. 0 \in 0..MaxHolds
  BY LnTradeAssumption
<1>1. a \in OrderRow /\ a.state = "requested" /\ Rest(o, a)
  BY Order_State DEF OrderStates, OrderState
<1>2. Unclaimed(o) = [a EXCEPT !.sponsor = "none", !.escrow = 0, !.sponsorDeposit = 0]
  BY Zenon DEF Unclaimed
<1> HIDE DEF a
<1>3. b \in OrderRow /\ b.state = a.state /\ b.sponsor = "none"
      /\ b.pendingClose = a.pendingClose /\ b.closeReason = a.closeReason
  BY <1>1 DEF OrderRow, Maybe
<1>4. Unclaimed(o) = [b EXCEPT !.escrow = 0, !.sponsorDeposit = 0]
  BY <1>2, Zenon
<1> HIDE DEF b
<1>5. c \in OrderRow /\ c.state = b.state /\ c.sponsor = b.sponsor /\ c.escrow = 0
      /\ c.pendingClose = b.pendingClose /\ c.closeReason = b.closeReason
  BY <1>3, <1>0, Order_Escrow
<1>6. Unclaimed(o) = d
  BY <1>4, Zenon
<1> HIDE DEF c
<1>7. d \in OrderRow /\ d.state = c.state /\ d.sponsor = c.sponsor /\ d.escrow = c.escrow
      /\ d.pendingClose = c.pendingClose /\ d.closeReason = c.closeReason
  BY <1>5, <1>0, Order_Deposit DEF Stays, Rest
<1> QED
  BY <1>1, <1>3, <1>5, <1>6, <1>7 DEF Rest

LEMMA Order_Closed ==
  ASSUME order \in OrderRow, order.pendingClose \in LnCloseReason
  PROVE  LET p == Closed(order) IN
         /\ p \in OrderRow /\ p.state = CLOSE_RULES[order.pendingClose].terminal
         /\ p.closeReason = order.pendingClose /\ p.pendingClose = "none"
         /\ p.sponsor = order.sponsor /\ p.escrow = order.escrow
<1> DEFINE a == [order EXCEPT !.state = rule.terminal]
           b == [a EXCEPT !.closeReason = order.pendingClose]
           c == [b EXCEPT !.pendingClose = "none"]
<1>1. rule.terminal \in OrderStates
  BY Rules, TerminalStates DEF rule, OrderStates, OrderState
<1>2. a \in OrderRow /\ a.state = rule.terminal /\ Rest(order, a)
  BY <1>1, Order_State
<1>3. Closed(order) = [a EXCEPT !.closeReason = order.pendingClose, !.pendingClose = "none"]
  BY Zenon DEF Closed
<1> HIDE DEF a
<1>4. b \in OrderRow /\ b.state = a.state /\ b.closeReason = order.pendingClose
      /\ b.sponsor = a.sponsor /\ b.escrow = a.escrow
  BY <1>2 DEF OrderRow, Maybe
<1>5. Closed(order) = c
  BY <1>3, Zenon
<1> HIDE DEF b
<1>6. c \in OrderRow /\ c.pendingClose = "none" /\ c.state = b.state
      /\ c.closeReason = b.closeReason /\ c.sponsor = b.sponsor /\ c.escrow = b.escrow
  BY <1>4, Order_Closing DEF Maybe
<1> QED
  BY <1>2, <1>4, <1>5, <1>6 DEF Rest, rule

-----------------------------------------------------------------------------
(* The steps in which nothing is settled: what they have in common, and that *)
(* they keep the books.                                                     *)

Dead(r) == r.node \notin {"open", "accepted"}
Caught(r) == r.status = "accepted" /\ r.disposing = "none"
Asked(r) == r.node = "settled" /\ r.status # "settled" /\ r.disposing = "none"

\* Row r became q, without a settle at the node or a new wish for one.
Ordinary(r, q) ==
  /\ q.purpose = r.purpose /\ q.party = r.party
  /\ q.node = "settled" <=> r.node = "settled"
  /\ Truthful(q)
  /\ LiveHold(q) => LiveHold(r)
  /\ q.disposing = "settle" => r.disposing = "settle"
  /\ Asked(q) => Asked(r)

Rows(hs, gs) == /\ DOMAIN hs \subseteq DOMAIN gs
                /\ \A h \in DOMAIN hs : Ordinary(hs[h], gs[h])
                /\ \A h \in DOMAIN gs \ DOMAIN hs : Fresh(gs[h])

\* Rows of an ended trade stay as they are in number, and a close in progress has its order.
Calm == /\ Move(order, order') /\ Rows(holds, holds') /\ EscrowIsThere'
        /\ DOMAIN holds' = DOMAIN holds \/ order'.state \notin Terminal
        /\ pc' = "closing" => order'.pendingClose # "none"
        /\ alerts \subseteq alerts' /\ "unexpected-settle" \notin alerts' \ alerts

LEMMA OrdinaryIsTransitive ==
  ASSUME NEW r, NEW q, NEW p, Ordinary(r, q), Ordinary(q, p)
  PROVE  Ordinary(r, p)
  BY DEF Ordinary

\* What every move leaves alone.
LEMMA Moves ==
  ASSUME TypeOK, OrderBook, Move(order, order')
  PROVE  /\ order.pendingClose # "none" => Rebinds(order, order') \/ Stays(order, order')
         /\ order.state \in Terminal => Stays(order, order')
         /\ order'.state \in Terminal => Stays(order, order') 
         /\ order'.closeReason = order.closeReason
         /\ order'.pendingClose # order.pendingClose => Begins(order, order')
         /\ order.state = "remitted" => order'.state = "remitted"
         /\ order'.escrow # order.escrow => order.state = "claimed"
<1>1. order \in OrderRow
  BY DEF TypeOK
<1>2. order.state \in {"none", "draft"} => order.pendingClose = "none"
  BY DEF OrderBook, CloseIsLegal, OrderState
<1>3. order.state \in {"none", "draft", "requested", "claimed", "verified", "escrowed", "invoiced",
                       "remitted"} => order.state \notin Terminal
  BY TerminalStates
<1>4. \A r \in LnCloseReason : CLOSE_RULES[r].terminal \in Terminal /\ r # "none"
  BY Rules
<1>5. Begins(order, order') => order.state \notin Terminal
  BY <1>4, LegalCloses DEF Begins, MovesTo, canTransition
<1>6. order'.state \in Terminal => Stays(order, order') \/ Begins(order, order')
  BY TerminalStates DEF Move, Opens, Early, Claims, GoesOn, Rebinds, Undoes
<1>7. order'.state \in Terminal => Stays(order, order')
  BY <1>5, <1>6 DEF Begins
<1>8. order.state \in Terminal => Stays(order, order')
  BY <1>3, <1>5 DEF Move, Opens, Early, Claims, GoesOn, Rebinds, Undoes
<1>9. order.pendingClose # "none" => Rebinds(order, order') \/ Stays(order, order')
  BY <1>2 DEF Move, Opens, Early, Claims, GoesOn, Undoes, Begins
<1>10. order'.closeReason = order.closeReason
  BY DEF Move, Stays, Rest, Opens, Claims, GoesOn, Rebinds, Undoes, Begins
<1>11. order'.pendingClose # order.pendingClose => Begins(order, order')
  BY DEF Move, Stays, Rest, Opens, Claims, GoesOn, Rebinds, Undoes
<1>12. order.state = "remitted" => order'.state = "remitted"
  BY DEF Move, Stays, Opens, Claims, GoesOn, Rebinds, Undoes, Begins
<1>13. order'.escrow # order.escrow => order.state = "claimed"
  BY DEF Move, Stays, Rest, Opens, Claims, GoesOn, Rebinds, Undoes, Begins
<1> QED
  BY <1>7, <1>8, <1>9, <1>10, <1>11, <1>12, <1>13

LEMMA CalmOrder ==
  ASSUME TypeOK, OrderBook, Calm
  PROVE  OrderBook'
<1>1. Move(order, order') /\ EscrowIsThere' /\ (pc' = "closing" => order'.pendingClose # "none")
  BY DEF Calm
<1>2. CloseIsLegal'
  <2>1. ASSUME order'.pendingClose # "none"
        PROVE  order'.state \in OrderState
               /\ MovesTo(order, CLOSE_RULES[order.pendingClose].terminal)'
    <3>1. CASE Begins(order, order')
      BY <3>1 DEF Begins, MovesTo, canTransition
    <3>2. CASE ~ Begins(order, order')
      <4>1. order'.pendingClose = order.pendingClose
        BY <1>1, <3>2, Moves
      <4>2. order'.state = order.state
        BY <1>1, <2>1, <4>1, Moves DEF Rebinds, Stays
      <4> QED
        BY <2>1, <4>1, <4>2 DEF OrderBook, CloseIsLegal, MovesTo, canTransition
    <3> QED
      BY <3>1, <3>2
  <2>2. pc' = "closing" => order'.pendingClose # "none"
    BY <1>1 DEF OrderBook, CloseIsLegal
  <2> QED
    BY <2>1, <2>2 DEF CloseIsLegal
<1>3. ReasonIsKept'
  <2>1. order'.closeReason = order.closeReason
    BY <1>1, Moves
  <2>2. order'.state \in Terminal => order.state = order'.state
    BY <1>1, Moves DEF Stays
  <2>3. order.closeReason # "none" => order.state \in Terminal
    BY Rules DEF TypeOK, OrderRow, Maybe, OrderBook, ReasonIsKept
  <2>4. order.state \in Terminal => order'.state = order.state
    BY <1>1, Moves DEF Stays
  <2> QED
    BY <2>1, <2>2, <2>3, <2>4 DEF OrderBook, ReasonIsKept
<1>4. NobodyYet'
  BY <1>1, LnTradeAssumption DEF OrderBook, NobodyYet, Early, Move, Stays, Rest, Opens, Claims, GoesOn, Rebinds,
              Undoes, Begins
<1> QED
  BY <1>1, <1>2, <1>3, <1>4 DEF OrderBook

LEMMA CalmHolds ==
  ASSUME IInv, Calm
  PROVE  /\ FinalIsTrue' /\ OnlyEscrowIsAsked' /\ SettlesAreOurs' /\ EndedIsClosed'
         /\ PayoutBacked' /\ NoFalseAlarm' /\ EscrowTakenForCause' /\ ForfeitOnlyByRule'
<1>1. TypeOK /\ OrderBook /\ Move(order, order') /\ Rows(holds, holds')
  BY DEF IInv, Calm
<1>2. \A h \in DOMAIN holds' : (h \in DOMAIN holds /\ Ordinary(holds[h], holds'[h]))
                               \/ (h \notin DOMAIN holds /\ Fresh(holds'[h]))
  BY <1>1 DEF Rows
<1>3. \A h \in DOMAIN holds : h \in DOMAIN holds' /\ Ordinary(holds[h], holds'[h])
  BY <1>1 DEF Rows
<1>4. /\ order.state \in Terminal => Stays(order, order')
      /\ order.state = "remitted" => order'.state = "remitted" /\ order'.escrow = order.escrow
      /\ order'.state \in Terminal => Stays(order, order')
      /\ order.pendingClose # "none" => Rebinds(order, order') \/ Stays(order, order')
      /\ order'.escrow # order.escrow => order.state = "claimed"
  BY <1>1, Moves
<1>5. FinalIsTrue'
  BY <1>2 DEF FinalIsTrue, Ordinary, Fresh, Truthful
<1>6. OnlyEscrowIsAsked'
  <2> SUFFICES ASSUME NEW h \in DOMAIN holds', holds'[h].disposing = "settle"
               PROVE  h = order'.escrow
                      /\ order'.state \in {"remitted", "paid", "sponsor_wins", "customer_wins"}
    BY DEF OnlyEscrowIsAsked
  <2>1. h \in DOMAIN holds /\ holds[h].disposing = "settle"
    BY <1>2 DEF Ordinary, Fresh
  <2>2. h = order.escrow /\ order.state \in {"remitted", "paid", "sponsor_wins", "customer_wins"}
    BY <2>1 DEF IInv, HoldBook, OnlyEscrowIsAsked
  <2> QED
    BY <2>2, <1>4, TerminalStates DEF Stays, Rest
<1>7. SettlesAreOurs'
  <2> SUFFICES ASSUME NEW h \in DOMAIN holds', Asked(holds'[h])
               PROVE  order'.pendingClose # "none"
    BY DEF SettlesAreOurs, Asked
  <2>1. h \in DOMAIN holds /\ Asked(holds[h])
    BY <1>2 DEF Ordinary, Fresh, Asked
  <2>2. order.pendingClose # "none"
    BY <2>1 DEF IInv, HoldBook, SettlesAreOurs, Asked
  <2> QED
    BY <2>2, <1>4 DEF Rebinds, Stays, Rest
<1>8. EndedIsClosed'
  <2> SUFFICES ASSUME order'.state \in Terminal, NEW h \in DOMAIN holds'
               PROVE  ~ LiveHold(holds'[h])
    BY DEF EndedIsClosed
  <2>1. h \in DOMAIN holds
    BY DEF Calm
  <2>2. ~ LiveHold(holds[h])
    BY <2>1, <1>4 DEF IInv, HoldBook, EndedIsClosed, Stays
  <2> QED
    BY <2>1, <2>2, <1>3 DEF Ordinary
<1>9. PayoutBacked'
  <2> SUFFICES ASSUME order'.state \in {"paid", "sponsor_wins"}
               PROVE  order'.escrow # 0 /\ holds'[order'.escrow].node = "settled"
    BY DEF PayoutBacked
  <2>1. Stays(order, order')
    BY <1>4, TerminalStates
  <2>2. order.escrow # 0 /\ holds[order.escrow].node = "settled" /\ order'.escrow = order.escrow
    BY <2>1 DEF IInv, Promises, PayoutBacked, Stays, Rest
  <2>3. order.escrow \in DOMAIN holds
    BY <2>2 DEF IInv, OrderBook, EscrowIsThere
  <2> QED
    BY <2>2, <2>3, <1>3 DEF Ordinary
<1>10. NoFalseAlarm'
  BY DEF Calm, IInv, Promises, NoFalseAlarm
<1>11. EscrowTakenForCause'
  <2> SUFFICES ASSUME NEW h \in DOMAIN holds', holds'[h].purpose = "escrow",
                      holds'[h].node = "settled"
               PROVE  /\ h = order'.escrow
                      /\ \/ order'.state \in {"remitted", "paid", "sponsor_wins"}
                         \/ order'.state = "invoiced" /\ order'.pendingClose = "paid"
                         \/ order'.state = "customer_wins" /\ "refund-manually" \in alerts'
    BY DEF EscrowTakenForCause, Escrow
  <2>1. h \in DOMAIN holds /\ holds[h].purpose = "escrow" /\ holds[h].node = "settled"
    BY <1>2 DEF Ordinary, Fresh
  <2>2. /\ h = order.escrow
        /\ \/ order.state \in {"remitted", "paid", "sponsor_wins"}
           \/ order.state = "invoiced" /\ order.pendingClose = "paid"
           \/ order.state = "customer_wins" /\ "refund-manually" \in alerts
    BY <2>1 DEF IInv, Promises, EscrowTakenForCause, Escrow
  <2>3. h = order'.escrow
    BY <2>2, <1>4
  <2>4. CASE order.state \in {"remitted", "paid", "sponsor_wins"}
    BY <2>3, <2>4, <1>4, TerminalStates DEF Stays
  <2>5. CASE order.state = "invoiced" /\ order.pendingClose = "paid"
    BY <2>3, <2>5, <1>4 DEF Stays, Rest, Rebinds
  <2>6. CASE order.state = "customer_wins" /\ "refund-manually" \in alerts
    BY <2>3, <2>6, <1>4, TerminalStates DEF Stays, Calm
  <2> QED
    BY <2>2, <2>4, <2>5, <2>6
<1>12. ForfeitOnlyByRule'
  <2> SUFFICES ASSUME NEW h \in DOMAIN holds', holds'[h].purpose # "escrow",
                      holds'[h].node = "settled"
               PROVE  /\ Reason' # "none"
                      /\ IF holds'[h].purpose = "customer"
                         THEN CLOSE_RULES[Reason'].customerDeposit = "forfeit"
                         ELSE /\ CLOSE_RULES[Reason'].sponsorDeposit = "forfeit"
                              /\ holds'[h].party = order'.sponsor
    BY DEF ForfeitOnlyByRule, Escrow
  <2>1. h \in DOMAIN holds /\ holds[h].purpose # "escrow" /\ holds[h].node = "settled"
        /\ holds'[h].purpose = holds[h].purpose /\ holds'[h].party = holds[h].party
    BY <1>2 DEF Ordinary, Fresh
  <2>2. /\ Reason # "none"
        /\ IF holds[h].purpose = "customer" THEN CLOSE_RULES[Reason].customerDeposit = "forfeit"
           ELSE /\ CLOSE_RULES[Reason].sponsorDeposit = "forfeit"
                /\ holds[h].party = order.sponsor
    BY <2>1 DEF IInv, Promises, MoneyByRule, ForfeitOnlyByRule, Escrow
  <2>3. order.closeReason # "none" => order.state \in Terminal
    BY <1>1, Rules DEF TypeOK, OrderRow, Maybe, OrderBook, ReasonIsKept
  <2>4. Rebinds(order, order') \/ Stays(order, order')
    BY <2>2, <2>3, <1>4 DEF Reason
  <2>5. Reason' = Reason /\ order'.sponsor = order.sponsor
    BY <2>4 DEF Reason, Rebinds, Stays, Rest
  <2> QED
    BY <2>1, <2>2, <2>5
<1> QED
  BY <1>5, <1>6, <1>7, <1>8, <1>9, <1>10, <1>11, <1>12

-----------------------------------------------------------------------------
(* What the calm steps keep besides, when they catch no money and write off *)
(* no escrow.                                                               *)

EscrowStays == order'.state \in Late =>
  /\ order.state \in Late
  /\ holds'[order.escrow].status = holds[order.escrow].status
  /\ holds'[order.escrow].disposing # "cancel"
\* What is held is held for the trade as it is.
Belongs(h) == /\ order.state \in OrderState \ Terminal
              /\ holds[h].purpose = "escrow" => h = order.escrow
              /\ holds[h].purpose = "sponsor" => holds[h].party = order.sponsor
CatchesItsOwn ==
  \A h \in DOMAIN holds : Caught(holds'[h]) => Caught(holds[h]) \/ Belongs(h)'
\* A claim that is undone gives back what is held for it; an escrow it lets go is not held.
ClaimIsReturned ==
  /\ Undoes(order, order') => \A h \in DOMAIN holds :
       LiveHold(holds'[h]) /\ (holds'[h].purpose = "escrow" \/
         (holds'[h].purpose = "sponsor" /\ holds'[h].party = order.sponsor))
       => holds'[h].disposing # "none"
  /\ Rebinds(order, order') /\ order.escrow # 0 => ~ Caught(holds'[order.escrow])

LEMMA StaysKnown ==
  ASSUME IInv, Calm, EscrowStays
  PROVE  EscrowIsKnown'
<1> SUFFICES ASSUME order'.state \in Late
             PROVE  /\ order'.escrow # 0
                    /\ holds'[order'.escrow].status \in {"accepted", "settled", "cancelled"}
                    /\ holds'[order'.escrow].disposing # "cancel"
                    /\ holds'[order'.escrow].status = "cancelled" => alerts' \cap Calls # {}
  BY DEF EscrowIsKnown
<1>1. order.state \in Late /\ alerts \subseteq alerts'
  BY DEF EscrowStays, Calm
<1>2. order'.escrow = order.escrow
  BY <1>1, Moves DEF IInv, Calm, Late
<1>3. /\ order.escrow # 0
      /\ holds[order.escrow].status \in {"accepted", "settled", "cancelled"}
      /\ holds[order.escrow].status = "cancelled" => alerts \cap Calls # {}
  BY <1>1 DEF IInv, HoldBook, EscrowIsKnown
<1>4. /\ holds'[order.escrow].status = holds[order.escrow].status
      /\ holds'[order.escrow].disposing # "cancel"
  BY DEF EscrowStays
<1>5. alerts \cap Calls \subseteq alerts' \cap Calls
  BY <1>1
<1> QED
  BY <1>2, <1>3, <1>4, <1>5

LEMMA NothingStray ==
  ASSUME IInv, Calm, CatchesItsOwn, ClaimIsReturned, "none" \notin Party
  PROVE  NoStrayMoney'
<1> SUFFICES ASSUME NEW h \in DOMAIN holds', Caught(holds'[h]), ~ Belongs(h)'
             PROVE  /\ order'.state \in OrderState \ Terminal
                    /\ holds'[h].purpose = "escrow" => h = order'.escrow
                    /\ holds'[h].purpose = "sponsor" => holds'[h].party = order'.sponsor
  BY DEF NoStrayMoney, Caught, Escrow, Belongs
<1>1. TypeOK /\ OrderBook /\ Move(order, order') /\ Rows(holds, holds')
  BY DEF IInv, Calm
<1>2. h \in DOMAIN holds /\ Caught(holds[h]) /\ Ordinary(holds[h], holds'[h])
  BY <1>1 DEF CatchesItsOwn, Rows, Fresh, Caught
<1>3. /\ order.state \in OrderState \ Terminal
      /\ holds[h].purpose = "escrow" => h = order.escrow
      /\ holds[h].purpose = "sponsor" => holds[h].party = order.sponsor
  BY <1>2 DEF IInv, Promises, MoneyByRule, NoStrayMoney, Caught, Escrow
<1>4. holds[h] \in HoldRow /\ h # 0
  BY <1>1, <1>2, ElementOfSeq DEF TypeOK
<1>5. holds[h].purpose \in {"customer", "sponsor", "escrow"} /\ holds[h].party # "none"
  BY <1>4 DEF HoldRow
<1>6. holds'[h].purpose = holds[h].purpose /\ holds'[h].party = holds[h].party
  BY <1>2 DEF Ordinary
<1>7. CASE Stays(order, order') \/ Begins(order, order')
  BY <1>3, <1>6, <1>7 DEF Stays, Rest, Begins
<1>8. CASE Opens(order, order')
  BY <1>3, <1>8 DEF Opens, OrderState
<1>9. CASE Claims(order, order')
  <2>1. order.sponsor = "none" /\ order.escrow = 0
    BY <1>1, <1>9 DEF Claims, OrderBook, NobodyYet, Early
  <2>2. order'.state \in OrderState \ Terminal
    BY <1>9, TerminalStates DEF Claims, OrderState
  <2> QED
    BY <2>1, <2>2, <1>3, <1>4, <1>5, <1>6
<1>10. CASE GoesOn(order, order')
  <2>1. order'.state \in OrderState \ Terminal
    BY <1>10, TerminalStates DEF GoesOn, OrderState
  <2> QED
    BY <2>1, <1>3, <1>6, <1>10 DEF GoesOn, Rest
<1>11. CASE Rebinds(order, order')
  <2>1. order'.state \in OrderState \ Terminal
    BY <1>11, TerminalStates DEF Rebinds, OrderState
  <2>2. order'.sponsor = order.sponsor
    BY <1>11 DEF Rebinds
  <2>3. ASSUME holds[h].purpose = "escrow" PROVE h = order'.escrow
    BY <1>3, <1>4, <1>11, <2>3 DEF ClaimIsReturned
  <2> QED
    BY <2>1, <2>2, <2>3, <1>3, <1>6
<1>12. CASE Undoes(order, order')
  <2>1. order'.state \in OrderState \ Terminal
    BY <1>12, TerminalStates DEF Undoes, OrderState
  <2>2. LiveHold(holds'[h])
    BY DEF Caught, LiveHold
  <2>3. holds'[h].disposing = "none"
    BY DEF Caught
  <2>4. ~ (holds'[h].purpose = "escrow" \/
           (holds'[h].purpose = "sponsor" /\ holds'[h].party = order.sponsor))
    BY <2>2, <2>3, <1>2, <1>12 DEF ClaimIsReturned
  <2>5. holds'[h].purpose = "sponsor" => holds'[h].party = order.sponsor
    BY <1>3, <1>6
  <2>6. holds'[h].purpose # "escrow" /\ holds'[h].purpose # "sponsor"
    BY <2>4, <2>5
  <2> QED
    BY <2>1, <2>6
<1> QED
  BY <1>1, <1>7, <1>8, <1>9, <1>10, <1>11, <1>12 DEF Move

-----------------------------------------------------------------------------
(* A step that keeps what can be kept keeps the invariant.                  *)

Others == /\ pc \in {"dispatch", "poll", "claims", "verified", "expiry", "effects", "closing"}
          /\ todo \subseteq DOMAIN holds
          /\ phase \in Phases /\ life \in Lives /\ seenLife \in Lives
          /\ invoiceDue \in BOOLEAN /\ heightOk \in BOOLEAN /\ warm \in BOOLEAN
          /\ crashes \in 0..MaxCrashes
          /\ remit \in {"none", "in-time", "too-late", "taken", "refused", "ignored",
                        "escalated"}
          /\ alerts \subseteq Alert
Whole(hs) == hs \in Seq(HoldRow) /\ Len(hs) <= MaxHolds

LEMMA Steady ==
  ASSUME IInv, Calm, EscrowIsKnown', CatchesItsOwn, ClaimIsReturned,
         order' \in OrderRow, Whole(holds'), Others', Progress'
  PROVE  IInv'
<1>1. TypeOK'
  BY DEF TypeOK, Others, Whole
<1>2. OrderBook'
  BY CalmOrder DEF IInv
<1>3. /\ FinalIsTrue' /\ OnlyEscrowIsAsked' /\ SettlesAreOurs' /\ EndedIsClosed'
      /\ PayoutBacked' /\ NoFalseAlarm' /\ EscrowTakenForCause' /\ ForfeitOnlyByRule'
  BY CalmHolds
<1>5. "none" \notin Party
  BY LnTradeAssumption DEF Party
<1>6. NoStrayMoney'
  BY <1>5, NothingStray
<1>7. HoldBook'
  BY <1>3 DEF HoldBook
<1>8. Promises'
  BY <1>3, <1>6 DEF Promises, MoneyByRule
<1> QED
  BY <1>1, <1>2, <1>7, <1>8 DEF IInv

\* Row r became q, and at most a refund was asked for.
Same(r, q) == /\ q.purpose = r.purpose /\ q.party = r.party
              /\ q.status = r.status /\ q.node = r.node
              /\ q.disposing = r.disposing \/ (r.disposing = "none" /\ q.disposing = "cancel")
Kept(hs, gs) == /\ Whole(gs)
                /\ DOMAIN hs \subseteq DOMAIN gs
                /\ \A h \in DOMAIN hs : Same(hs[h], gs[h])
                /\ \A h \in DOMAIN gs \ DOMAIN hs : Fresh(gs[h])

LEMMA Kept_Unchanged ==
  ASSUME NEW hs, Whole(hs)
  PROVE  Kept(hs, hs)
  BY DEF Kept, Same

LEMMA Kept_Disposed ==
  ASSUME NEW hs, Whole(hs), NEW H
  PROVE  /\ Kept(hs, Disposed(hs, H, "cancel")) /\ DOMAIN Disposed(hs, H, "cancel") = DOMAIN hs
         /\ \A h \in DOMAIN hs \ H : Disposed(hs, H, "cancel")[h].disposing = hs[h].disposing
<1> DEFINE gs == Disposed(hs, H, "cancel")
<1>1. hs \in Seq(HoldRow) /\ "cancel" \in {"settle", "cancel"}
  BY DEF Whole
<1>2. /\ gs \in Seq(HoldRow) /\ Len(gs) = Len(hs) /\ DOMAIN gs = DOMAIN hs
      /\ \A h \in DOMAIN hs :
           /\ gs[h].purpose = hs[h].purpose /\ gs[h].party = hs[h].party
           /\ gs[h].status = hs[h].status /\ gs[h].node = hs[h].node
           /\ gs[h].disposing = IF h \in H /\ hs[h].disposing = "none" THEN "cancel"
                                ELSE hs[h].disposing
  BY <1>1, Disposed_Rows
<1> HIDE DEF gs
<1>3. Whole(gs)
  BY <1>2 DEF Whole
<1>4. \A h \in DOMAIN hs : Same(hs[h], gs[h])
  BY <1>2 DEF Same
<1>5. Kept(hs, gs)
  BY <1>2, <1>3, <1>4 DEF Kept
<1> QED
  BY <1>2, <1>5 DEF gs

LEMMA Kept_Reverted ==
  ASSUME NEW hs, Whole(hs), NEW o
  PROVE  /\ Kept(hs, Reverted(hs, o)) /\ DOMAIN Reverted(hs, o) = DOMAIN hs
         /\ \A h \in DOMAIN hs : LiveHold(Reverted(hs, o)[h]) /\
              (Reverted(hs, o)[h].purpose = "escrow" \/
               (Reverted(hs, o)[h].purpose = "sponsor" /\ Reverted(hs, o)[h].party = o.sponsor))
              => Reverted(hs, o)[h].disposing # "none"
<1> DEFINE gs == Reverted(hs, o)
           H == {h \in DOMAIN hs : /\ LiveHold(hs[h])
                                   /\ \/ hs[h].purpose = "escrow"
                                      \/ hs[h].purpose = "sponsor" /\ hs[h].party = o.sponsor}
<1>1. gs = Disposed(hs, H, "cancel")
  BY DEF Reverted
<1>2. Kept(hs, gs) /\ DOMAIN gs = DOMAIN hs
  BY <1>1, Kept_Disposed
<1>3. hs \in Seq(HoldRow)
  BY DEF Whole
<1>4. \A h \in DOMAIN hs :
           /\ gs[h].purpose = hs[h].purpose /\ gs[h].party = hs[h].party
           /\ gs[h].status = hs[h].status
           /\ LiveHold(hs[h]) /\ (hs[h].purpose = "escrow" \/
                   (hs[h].purpose = "sponsor" /\ hs[h].party = o.sponsor)) => gs[h].disposing # "none"
  BY <1>3, Reverted_Rows
<1> HIDE DEF gs, H
<1>5. \A h \in DOMAIN hs : LiveHold(gs[h]) /\ (gs[h].purpose = "escrow" \/
               (gs[h].purpose = "sponsor" /\ gs[h].party = o.sponsor)) => gs[h].disposing # "none"
  BY <1>4 DEF LiveHold
<1> QED
  BY <1>2, <1>5 DEF gs

LEMMA Kept_Planned ==
  ASSUME NEW hs, Whole(hs), CanPlan(hs), NEW purpose \in {"customer", "sponsor", "escrow"},
         NEW party \in Party
  PROVE  /\ Kept(hs, Planned(hs, purpose, party))
         /\ \A h \in DOMAIN hs : Planned(hs, purpose, party)[h] = hs[h]
         /\ Len(Planned(hs, purpose, party)) \in DOMAIN Planned(hs, purpose, party)
         /\ Planned(hs, purpose, party)[Len(Planned(hs, purpose, party))].purpose = purpose
<1> DEFINE r == [purpose |-> purpose, party |-> party, status |-> "creating", node |-> "absent",
                 creating |-> TRUE, disposing |-> "none", due |-> FALSE, paid |-> FALSE]
           gs == Append(hs, r)
           n == Len(hs) + 1
<1>1. r \in HoldRow /\ Fresh(r) /\ r.purpose = purpose
  BY DEF HoldRow, Fresh, Maybe
<1>2. Planned(hs, purpose, party) = gs
  BY DEF Planned
<1> HIDE DEF r
<1>3. hs \in Seq(HoldRow) /\ Len(hs) \in Nat /\ Len(hs) < MaxHolds /\ MaxHolds \in Nat
  BY LnTradeAssumption DEF Whole, CanPlan
<1>4. gs \in Seq(HoldRow) /\ Len(gs) = n /\ (\A h \in 1..Len(hs) : gs[h] = hs[h]) /\ gs[n] = r
  BY <1>1, <1>3, AppendProperties
<1>5. DOMAIN hs = 1..Len(hs) /\ DOMAIN gs = 1..n /\ n \in 1..n
  BY <1>3, <1>4
<1>6. ASSUME NEW h \in DOMAIN gs \ DOMAIN hs PROVE Fresh(gs[h])
  <2>1. h = n
    BY <1>3, <1>5, <1>6
  <2> QED
    BY <2>1, <1>1, <1>4
<1>7. DOMAIN hs \subseteq DOMAIN gs
  BY <1>3, <1>5
<1>8. Whole(gs)
  BY <1>3, <1>4 DEF Whole
<1>9. \A h \in DOMAIN hs : gs[h] = hs[h]
  BY <1>4, <1>5
<1> HIDE DEF gs
<1>10. \A h \in DOMAIN hs : Same(hs[h], gs[h])
  BY <1>9 DEF Same
<1>11. Kept(hs, gs)
  BY <1>6, <1>7, <1>8, <1>10 DEF Kept
<1>12. gs[Len(gs)].purpose = purpose /\ Len(gs) \in DOMAIN gs
  BY <1>1, <1>4, <1>5
<1> QED
  BY <1>2, <1>9, <1>11, <1>12

LEMMA Kept_Ordinary ==
  ASSUME NEW r, NEW q, Truthful(r), Same(r, q)
  PROVE  Ordinary(r, q) /\ (Caught(q) => Caught(r))
<1>1. q.status = r.status /\ q.node = r.node /\ (q.disposing = "none" => r.disposing = "none")
      /\ (q.disposing = "settle" => r.disposing = "settle")
      /\ q.purpose = r.purpose /\ q.party = r.party
  BY DEF Same
<1>2. Truthful(q) /\ (LiveHold(q) <=> LiveHold(r)) /\ (Asked(q) => Asked(r)) /\ (Caught(q) => Caught(r))
  BY <1>1 DEF Truthful, LiveHold, Asked, Caught
<1> QED
  BY <1>1, <1>2 DEF Ordinary

\* What an action may do to the rows without a word from the node.
LEMMA KeptRows ==
  ASSUME IInv, Kept(holds, holds')
  PROVE  Rows(holds, holds') /\ CatchesItsOwn
<1>1. \A h \in DOMAIN holds : Truthful(holds[h])
  BY DEF IInv, HoldBook, FinalIsTrue
<1>2. \A h \in DOMAIN holds : Ordinary(holds[h], holds'[h]) /\ (Caught(holds'[h]) => Caught(holds[h]))
  BY <1>1, Kept_Ordinary DEF Kept
<1> QED
  BY <1>2 DEF Kept, Rows, CatchesItsOwn

LEMMA Quiet ==
  ASSUME IInv, Others', Progress', order' \in OrderRow,
         Move(order, order'), Kept(holds, holds'), EscrowIsThere', ClaimIsReturned,
         pc' = "closing" => order'.pendingClose # "none",
         DOMAIN holds' = DOMAIN holds \/ order'.state \notin Terminal,
         order'.state \in Late => order.state \in Late /\ holds'[order.escrow].disposing # "cancel",
         alerts \subseteq alerts', "unexpected-settle" \notin alerts' \ alerts
  PROVE  IInv'
<1>1. Rows(holds, holds') /\ CatchesItsOwn
  BY KeptRows
<1>2. Calm
  BY <1>1 DEF Calm
<1>3. Whole(holds')
  BY DEF Kept
<1>4. EscrowStays
  <2> SUFFICES ASSUME order'.state \in Late
               PROVE  holds'[order.escrow].status = holds[order.escrow].status
    BY DEF EscrowStays
  <2>1. order.escrow # 0
    BY DEF IInv, HoldBook, EscrowIsKnown
  <2>2. order.escrow \in DOMAIN holds
    BY <2>1 DEF IInv, OrderBook, EscrowIsThere
  <2> QED
    BY <2>2 DEF Kept, Same
<1> QED
  BY <1>1, <1>2, <1>3, <1>4, StaysKnown, Steady

LEMMA Elsewhere ==
  ASSUME pc' \notin {"poll", "closing"}
  PROVE  Progress' /\ (pc' = "closing" => order'.pendingClose # "none")
  BY DEF Progress, CloseGoesOn, PollIsOfOpen

LEMMA Typed ==
  ASSUME IInv
  PROVE  order \in OrderRow /\ Whole(holds) /\ Others
  BY DEF IInv, TypeOK, Whole, Others

\* The order moves, its hold invoices do not.
LEMMA OnlyTheOrder ==
  ASSUME IInv, UNCHANGED holds, Others', Progress',
         pc' = "closing" => order'.pendingClose # "none",
         order' \in OrderRow, Move(order, order'), ~ Undoes(order, order'),
         order'.escrow = order.escrow, order'.state \in Late => order.state \in Late,
         alerts \subseteq alerts', "unexpected-settle" \notin alerts' \ alerts
  PROVE  IInv'
<1>1. Kept(holds, holds') /\ DOMAIN holds' = DOMAIN holds
  BY Typed, Kept_Unchanged
<1>2. EscrowIsThere'
  BY DEF IInv, OrderBook, EscrowIsThere
<1>3. ClaimIsReturned
  BY DEF ClaimIsReturned, Rebinds
<1>4. order'.state \in Late => order.state \in Late /\ holds'[order.escrow].disposing # "cancel"
  BY DEF IInv, HoldBook, EscrowIsKnown
<1> QED
  BY <1>1, <1>2, <1>3, <1>4, Quiet

\* A row's status may be asked about only where there is a row.
LEMMA RowOf ==
  ASSUME IInv, NEW h \in DOMAIN holds
  PROVE  holds[h] \in HoldRow /\ h \in 1..MaxHolds /\ h \in 0..MaxHolds /\ h # 0
<1>1. holds \in Seq(HoldRow) /\ Len(holds) <= MaxHolds /\ DOMAIN holds = 1..Len(holds)
      /\ Len(holds) \in Nat /\ MaxHolds \in Nat
  BY Typed, LnTradeAssumption DEF Whole
<1> QED
  BY <1>1, ElementOfSeq

LEMMA Closes ==
  ASSUME IInv, NEW reason \in LnCloseReason, beginClose(reason)
  PROVE  order' \in OrderRow /\ Begins(order, order') /\ order'.escrow = order.escrow
         /\ order'.state = order.state
<1>1. order \in OrderRow
  BY Typed
<1>2. order' = [order EXCEPT !.pendingClose = reason] /\ order.pendingClose = "none"
      /\ order.state \in OrderState /\ MovesTo(order, CLOSE_RULES[reason].terminal)
  BY DEF beginClose, Closing, MayClose
<1>3. order' \in OrderRow /\ order'.pendingClose = reason
      /\ order'.state = order.state /\ order'.sponsor = order.sponsor
      /\ order'.closeReason = order.closeReason /\ order'.escrow = order.escrow
  BY <1>1, <1>2, Order_Closing DEF Maybe
<1> QED
  BY <1>2, <1>3 DEF Begins

\* A close begins, and nothing else happens.
LEMMA BeginsOnly ==
  ASSUME IInv, NEW reason \in LnCloseReason, beginClose(reason), UNCHANGED holds, Others',
         pc' \notin {"poll", "closing"},
         alerts \subseteq alerts', "unexpected-settle" \notin alerts' \ alerts
  PROVE  IInv'
<1>1. order' \in OrderRow /\ Begins(order, order') /\ order'.escrow = order.escrow
      /\ order'.state = order.state
  BY Closes
<1>2. ~ Undoes(order, order')
  BY <1>1, Rules DEF Undoes, Begins, OrderState
<1>3. Move(order, order')
  BY <1>1 DEF Move
<1> QED
  BY <1>1, <1>2, <1>3, Elsewhere, OnlyTheOrder

-----------------------------------------------------------------------------
(* The requests and the operator's commands.                                *)

Remits == {"none", "in-time", "too-late", "taken", "refused", "ignored", "escalated"}

LEMMA Handled ==
  ASSUME IInv, Handling, DOMAIN holds \subseteq DOMAIN holds', remit' \in Remits, UNCHANGED alerts
  PROVE  /\ Others' /\ pc' \notin {"poll", "closing"} /\ Progress'
         /\ (pc' = "closing" => order'.pendingClose # "none")
         /\ alerts \subseteq alerts' /\ "unexpected-settle" \notin alerts' \ alerts
<1>1. Others
  BY Typed
<1>2. pc = "dispatch" /\ pc' = pc /\ todo' = todo /\ time' = time /\ seenLife' = seenLife
      /\ heightOk' = heightOk
  BY DEF Handling
<1>3. Others'
  BY <1>1, <1>2 DEF Others, time, Remits
<1>4. pc' \notin {"poll", "closing"}
  BY <1>2
<1> QED
  BY <1>3, <1>4, Elsewhere

LEMMA Remitted ==
  ASSUME IInv PROVE remit \in Remits
  BY DEF IInv, TypeOK, Remits

\* Only the order moves, by a request.
LEMMA RequestMoves ==
  ASSUME IInv, Handling, remit' \in Remits, UNCHANGED <<alerts, holds>>, order' \in OrderRow,
         Move(order, order'), ~ Undoes(order, order'), order'.escrow = order.escrow,
         order'.state \in Late => order.state \in Late
  PROVE  IInv'
<1>1. /\ Others' /\ pc' \notin {"poll", "closing"} /\ Progress'
      /\ (pc' = "closing" => order'.pendingClose # "none")
      /\ alerts \subseteq alerts' /\ "unexpected-settle" \notin alerts' \ alerts
  BY Handled
<1> QED
  BY <1>1, OnlyTheOrder

LEMMA RequestCloses ==
  ASSUME IInv, Handling, remit' \in Remits, UNCHANGED <<alerts, holds>>,
         NEW reason \in LnCloseReason, beginClose(reason)
  PROVE  IInv'
<1>1. /\ Others' /\ pc' \notin {"poll", "closing"}
      /\ alerts \subseteq alerts' /\ "unexpected-settle" \notin alerts' \ alerts
  BY Handled
<1> QED
  BY <1>1, BeginsOnly

LEMMA SponsorInvoice == IInv /\ sponsorInvoice => IInv'
<1> SUFFICES ASSUME IInv, sponsorInvoice PROVE IInv'
  OBVIOUS
<1>1. /\ Handling /\ order.pendingClose = "none" /\ order.state = "escrowed"
      /\ order' = [order EXCEPT !.state = "invoiced"] /\ UNCHANGED <<holds, remit, alerts>>
  BY DEF sponsorInvoice
<1>2. order' \in OrderRow /\ order'.state = "invoiced" /\ Rest(order, order')
  BY <1>1, Typed, Order_State DEF OrderStates, OrderState
<1>3. GoesOn(order, order') /\ ~ Undoes(order, order') /\ order'.escrow = order.escrow
  BY <1>1, <1>2 DEF GoesOn, Undoes, Rest
<1>4. remit' \in Remits
  BY <1>1, Remitted
<1> QED
  BY <1>1, <1>2, <1>3, <1>4, RequestMoves DEF Move, Late

LEMMA AccountInfo == IInv /\ accountInfo => IInv'
<1> SUFFICES ASSUME IInv, accountInfo PROVE IInv'
  OBVIOUS
<1>1. /\ Handling /\ order' = [order EXCEPT !.accountSent = TRUE]
      /\ order.state \in {"invoiced", "remitted"} /\ UNCHANGED <<holds, remit, alerts>>
  BY DEF accountInfo
<1>2. order' \in OrderRow /\ Stays(order, order')
  BY <1>1, Typed, Order_Account
<1>3. ~ Undoes(order, order') /\ order'.escrow = order.escrow
      /\ (order'.state \in Late => order.state \in Late)
  BY <1>1, <1>2 DEF Stays, Rest, Undoes
<1>4. remit' \in Remits
  BY <1>1, Remitted
<1> QED
  BY <1>1, <1>2, <1>3, <1>4, RequestMoves DEF Move

LEMMA RemitRequest == IInv /\ remitRequest => IInv'
<1> SUFFICES ASSUME IInv, remitRequest PROVE IInv'
  OBVIOUS
<1>1. Handling /\ UNCHANGED <<holds, alerts>> /\ remit' \in Remits
  BY DEF remitRequest, Remits
<1>2. CASE UNCHANGED order
  <2>1. Stays(order, order') /\ ~ Undoes(order, order') /\ order'.escrow = order.escrow
        /\ (order'.state \in Late => order.state \in Late) /\ order' \in OrderRow
    BY <1>2, Typed DEF Stays, Rest, Undoes
  <2> QED
    BY <1>1, <2>1, RequestMoves DEF Move
<1>3. CASE ~ closing /\ order.state = "invoiced" /\ order' = [order EXCEPT !.state = "remitted"]
  <2>1. order' \in OrderRow /\ order'.state = "remitted" /\ Rest(order, order')
    BY <1>3, Typed, Order_State DEF OrderStates, OrderState
  <2>2. GoesOn(order, order') /\ ~ Undoes(order, order') /\ order'.escrow = order.escrow
    BY <1>3, <2>1 DEF GoesOn, Undoes, Rest, closing
  <2> QED
    BY <1>1, <1>3, <2>1, <2>2, RequestMoves DEF Move, Late
<1> QED
  BY <1>2, <1>3 DEF remitRequest

LEMMA PaymentConfirm == IInv /\ paymentConfirm => IInv'
  BY Remitted, RequestCloses DEF paymentConfirm, LnCloseReason

LEMMA AdminRule == IInv /\ adminRule => IInv'
<1> SUFFICES ASSUME IInv, adminRule PROVE IInv'
  OBVIOUS
<1>1. PICK reason \in {"sponsor_wins", "customer_wins"} : beginClose(reason)
  BY DEF adminRule
<1> QED
  BY <1>1, Remitted, RequestCloses DEF adminRule, LnCloseReason

LEMMA AdminForceClose == IInv /\ adminForceClose => IInv'
  BY Remitted, RequestCloses DEF adminForceClose, LnCloseReason

LEMMA DesignatedOrderRequest ==
  ASSUME IInv, NEW s \in Sponsors, designatedOrderRequest(s) PROVE IInv'
<1>1. /\ Handling /\ order.state = "none" /\ UNCHANGED <<holds, remit, alerts>>
      /\ order' = [order EXCEPT !.state = "requested", !.designated = s]
  BY DEF designatedOrderRequest
<1>2. order' \in OrderRow /\ order'.state = "requested" /\ Rest(order, order')
  BY <1>1, Typed, Order_Designated
<1>3. Opens(order, order') /\ ~ Undoes(order, order') /\ order'.escrow = order.escrow
  BY <1>1, <1>2 DEF Opens, Undoes, Rest, Early
<1>4. remit' \in Remits
  BY <1>1, Remitted
<1> QED
  BY <1>1, <1>2, <1>3, <1>4, RequestMoves DEF Move, Late

\* Before an escrow is paid, an action that keeps the rows keeps the invariant.
LEMMA EarlyMove ==
  ASSUME IInv, Others', pc' \notin {"poll", "closing"}, order' \in OrderRow,
         Move(order, order'), Kept(holds, holds'), EscrowIsThere', ClaimIsReturned,
         order'.state \notin Late, order'.state \notin Terminal, UNCHANGED alerts
  PROVE  IInv'
  BY Elsewhere, Quiet

LEMMA SameEscrow ==
  ASSUME IInv, Kept(holds, holds'), order'.escrow = order.escrow
  PROVE  EscrowIsThere'
  BY DEF IInv, OrderBook, EscrowIsThere, Kept, Same

LEMMA NothingReturned ==
  ASSUME order'.escrow = order.escrow, ~ Undoes(order, order')
  PROVE  ClaimIsReturned
  BY DEF ClaimIsReturned, Rebinds

LEMMA CustomerPlans ==
  ASSUME IInv, NEW d \in OrderRow, d.state = "draft", Rest(order, d),
         order.state \in {"none", "draft"}, planCustomerDeposit(d)
  PROVE  /\ order' \in OrderRow /\ Opens(order, order') /\ order'.state \in {"none", "draft"}
         /\ order'.escrow = order.escrow /\ Kept(holds, holds') /\ DOMAIN holds \subseteq DOMAIN holds'
<1>1. order' \in OrderRow /\ order'.state \in {"none", "draft"} /\ Rest(order, order')
  <2>1. CASE order' = d
    BY <2>1
  <2>2. CASE order' = [d EXCEPT !.state = "none"]
    BY <2>2, Order_State DEF OrderStates, Rest
  <2> QED
    BY <2>1, <2>2 DEF planCustomerDeposit
<1>2. Kept(holds, holds')
  <2>1. CASE UNCHANGED holds
    BY <2>1, Typed, Kept_Unchanged
  <2>2. CASE CanPlan(holds) /\ holds' = Planned(holds, "customer", "customer")
    <3>1. "customer" \in Party
      BY DEF Party
    <3> QED
      BY <2>2, <3>1, Typed, Kept_Planned
  <2> QED
    BY <2>1, <2>2 DEF planCustomerDeposit
<1> QED
  BY <1>1, <1>2 DEF Opens, Rest, Early, Kept

LEMMA SponsorPlans ==
  ASSUME IInv, NEW s \in Sponsors, planSponsorDeposit(s)
  PROVE  Kept(holds, holds') /\ DOMAIN holds \subseteq DOMAIN holds'
<1>1. s \in Party
  BY DEF Party
<1>2. CASE UNCHANGED holds
  BY <1>2, Typed, Kept_Unchanged DEF Kept
<1>3. CASE CanPlan(holds) /\ holds' = Planned(holds, "sponsor", s)
  BY <1>1, <1>3, Typed, Kept_Planned DEF Kept
<1> QED
  BY <1>2, <1>3 DEF planSponsorDeposit

LEMMA OrderRequest == IInv /\ orderRequest => IInv'
<1> SUFFICES ASSUME IInv, orderRequest PROVE IInv'
  OBVIOUS
<1>1. Handling /\ order.state = "none" /\ UNCHANGED <<remit, alerts>> /\ order \in OrderRow
  BY Typed DEF orderRequest
<1>2. /\ order' \in OrderRow /\ Opens(order, order') /\ order'.state \in {"none", "draft", "requested"}
      /\ order'.escrow = order.escrow /\ Kept(holds, holds') /\ DOMAIN holds \subseteq DOMAIN holds'
  <2>1. CASE planCustomerDeposit([order EXCEPT !.state = "draft"])
    <3> DEFINE d == [order EXCEPT !.state = "draft"]
    <3>1. d \in OrderRow /\ d.state = "draft" /\ Rest(order, d)
      BY <1>1, Order_State DEF OrderStates
    <3> HIDE DEF d
    <3>2. planCustomerDeposit(d)
      BY <2>1 DEF d
    <3> QED
      BY <1>1, <3>1, <3>2, CustomerPlans
  <2>2. CASE order' = [order EXCEPT !.state = "requested"] /\ UNCHANGED holds
    <3>1. order' \in OrderRow /\ order'.state = "requested" /\ Rest(order, order')
      BY <1>1, <2>2, Order_State DEF OrderStates, OrderState
    <3>2. Kept(holds, holds') /\ DOMAIN holds \subseteq DOMAIN holds'
      BY <2>2, Typed, Kept_Unchanged
    <3> QED
      BY <1>1, <3>1, <3>2 DEF Opens, Rest, Early
  <2> QED
    BY <2>1, <2>2 DEF orderRequest
<1>3. remit' \in Remits
  BY <1>1, Remitted
<1>4. Others' /\ pc' \notin {"poll", "closing"}
  BY <1>1, <1>2, <1>3, Handled
<1>5. order'.state \notin Late /\ order'.state \notin Terminal /\ ~ Undoes(order, order')
  BY <1>1, <1>2, TerminalStates DEF Late, Undoes
<1> QED
  BY <1>1, <1>2, <1>4, <1>5, SameEscrow, NothingReturned, EarlyMove DEF Move

LEMMA Claim ==
  ASSUME IInv, NEW s \in Sponsors, claim(s) PROVE IInv'
<1>1. /\ Handling /\ order.pendingClose = "none" /\ order.state \in OrderState
      /\ MovesTo(order, "claimed")
      /\ order' = [order EXCEPT !.state = "claimed", !.sponsor = s]
      /\ planSponsorDeposit(s) \/ UNCHANGED holds
      /\ UNCHANGED <<remit, alerts>> /\ order \in OrderRow
  BY Typed DEF claim
<1>2. order.state = "requested"
  BY <1>1, Transitions, TerminalStates DEF MovesTo, canTransition, OrderState
<1>3. /\ order' \in OrderRow /\ order'.state = "claimed" /\ order'.sponsor = s
      /\ order'.pendingClose = order.pendingClose /\ order'.closeReason = order.closeReason
      /\ order'.escrow = order.escrow
  BY <1>1, Order_Claimed
<1>4. Claims(order, order')
  BY <1>1, <1>2, <1>3 DEF Claims
<1>5. Kept(holds, holds') /\ DOMAIN holds \subseteq DOMAIN holds'
  BY <1>1, Typed, Kept_Unchanged, SponsorPlans
<1>6. remit' \in Remits
  BY <1>1, Remitted
<1>7. Others' /\ pc' \notin {"poll", "closing"}
  BY <1>1, <1>5, <1>6, Handled
<1>8. order'.state \notin Late /\ order'.state \notin Terminal /\ ~ Undoes(order, order')
  BY <1>3, TerminalStates DEF Late, Undoes
<1> QED
  BY <1>1, <1>3, <1>4, <1>5, <1>7, <1>8, SameEscrow, NothingReturned, EarlyMove DEF Move

LEMMA CancelRequest == IInv /\ cancelRequest => IInv'
<1> SUFFICES ASSUME IInv, cancelRequest PROVE IInv'
  OBVIOUS
<1>1. Handling /\ UNCHANGED <<remit, alerts>> /\ order \in OrderRow /\ remit' \in Remits
  BY Typed, Remitted DEF cancelRequest
<1>2. CASE /\ order.state = "draft" /\ order' = [order EXCEPT !.state = "none"]
           /\ holds' = Disposed(holds, {current("customer", "customer")}, "cancel")
  <2>1. order' \in OrderRow /\ order'.state = "none" /\ Rest(order, order')
    BY <1>1, <1>2, Order_State DEF OrderStates
  <2>2. Opens(order, order') /\ ~ Undoes(order, order') /\ order'.escrow = order.escrow
    BY <1>2, <2>1 DEF Opens, Undoes, Rest, Early
  <2>3. Kept(holds, holds') /\ DOMAIN holds \subseteq DOMAIN holds'
    BY <1>2, Typed, Kept_Disposed
  <2>4. Others' /\ pc' \notin {"poll", "closing"}
    BY <1>1, <2>3, Handled
  <2>5. order'.state \notin Late /\ order'.state \notin Terminal
    BY <2>1, TerminalStates DEF Late
  <2> QED
    BY <1>1, <2>1, <2>2, <2>3, <2>4, <2>5, SameEscrow, NothingReturned, EarlyMove DEF Move
<1>3. CASE beginClose("cancel:customer") /\ UNCHANGED holds
  BY <1>1, <1>3, RequestCloses DEF LnCloseReason
<1>4. CASE beginClose("cancel:customer-after-claim") /\ UNCHANGED holds
  BY <1>1, <1>4, RequestCloses DEF LnCloseReason
<1> QED
  BY <1>2, <1>3, <1>4 DEF cancelRequest

\* The escrow that is planned becomes the order's.
LEMMA Approves ==
  ASSUME IInv, approve
  PROVE  /\ order' \in OrderRow /\ Rebinds(order, order') /\ Kept(holds, holds') /\ EscrowIsThere'
         /\ order'.state = "claimed" /\ ClaimIsReturned /\ DOMAIN holds \subseteq DOMAIN holds'
<1>1. /\ order.state = "claimed" /\ order.escrow = 0 /\ order.pendingClose = "none"
      /\ CanPlan(holds) /\ holds' = Planned(holds, "escrow", "customer")
      /\ order' = [order EXCEPT !.escrow = Len(holds')]
  BY DEF approve, approveBlocked
<1>2. "customer" \in Party /\ order \in OrderRow /\ Whole(holds)
  BY Typed DEF Party
<1>3. Kept(holds, holds') /\ Len(holds') \in DOMAIN holds' /\ holds'[Len(holds')].purpose = "escrow"
  BY <1>1, <1>2, Kept_Planned
<1>4. Len(holds') \in 0..MaxHolds
  BY <1>3, LnTradeAssumption DEF Kept, Whole
<1>5. /\ order' \in OrderRow /\ order'.escrow = Len(holds') /\ order'.state = order.state
      /\ order'.sponsor = order.sponsor /\ order'.pendingClose = order.pendingClose
      /\ order'.closeReason = order.closeReason
  BY <1>1, <1>2, <1>4, Order_Escrow
<1>6. Rebinds(order, order') /\ ~ Undoes(order, order')
  BY <1>1, <1>5 DEF Rebinds, Undoes
<1>7. EscrowIsThere' /\ ClaimIsReturned
  BY <1>1, <1>3, <1>5, <1>6 DEF EscrowIsThere, ClaimIsReturned
<1> QED
  BY <1>1, <1>3, <1>5, <1>6, <1>7 DEF Kept

LEMMA AdminApprove == IInv /\ adminApprove => IInv'
<1> SUFFICES ASSUME IInv, adminApprove PROVE IInv'
  OBVIOUS
<1>1. Handling /\ approve /\ UNCHANGED <<remit, alerts>> /\ remit' \in Remits
  BY Remitted DEF adminApprove
<1>2. /\ order' \in OrderRow /\ Rebinds(order, order') /\ Kept(holds, holds') /\ EscrowIsThere'
      /\ order'.state = "claimed" /\ ClaimIsReturned /\ DOMAIN holds \subseteq DOMAIN holds'
  BY <1>1, Approves
<1>3. Others' /\ pc' \notin {"poll", "closing"}
  BY <1>1, <1>2, Handled
<1>4. order'.state \notin Late /\ order'.state \notin Terminal
  BY <1>2, TerminalStates DEF Late
<1> QED
  BY <1>1, <1>2, <1>3, <1>4, EarlyMove DEF Move

\* A claim is undone, and what was held for it goes back.
LEMMA Reverts ==
  ASSUME IInv, order.state = "claimed", order.pendingClose = "none",
         holds' = Reverted(holds, order), order' = Unclaimed(order)
  PROVE  /\ order' \in OrderRow /\ Undoes(order, order') /\ Kept(holds, holds') /\ EscrowIsThere'
         /\ order'.state = "requested" /\ ClaimIsReturned /\ DOMAIN holds' = DOMAIN holds
<1>1. order \in OrderRow /\ Whole(holds)
  BY Typed
<1>2. /\ order' \in OrderRow /\ order'.state = "requested" /\ order'.sponsor = "none"
      /\ order'.escrow = 0 /\ order'.pendingClose = order.pendingClose
      /\ order'.closeReason = order.closeReason
  BY <1>1, Order_Unclaimed
<1>3. Undoes(order, order') /\ ~ Rebinds(order, order') /\ EscrowIsThere'
  BY <1>2 DEF Undoes, Rebinds, EscrowIsThere
<1>4. /\ Kept(holds, holds') /\ DOMAIN holds' = DOMAIN holds
      /\ \A h \in DOMAIN holds : LiveHold(holds'[h]) /\
           (holds'[h].purpose = "escrow" \/
            (holds'[h].purpose = "sponsor" /\ holds'[h].party = order.sponsor))
           => holds'[h].disposing # "none"
  BY <1>1, Kept_Reverted
<1> QED
  BY <1>2, <1>3, <1>4 DEF ClaimIsReturned

LEMMA AdminRevertClaim == IInv /\ adminRevertClaim => IInv'
<1> SUFFICES ASSUME IInv, adminRevertClaim PROVE IInv'
  OBVIOUS
<1>1. /\ Handling /\ order.state = "claimed" /\ order.pendingClose = "none"
      /\ holds' = Reverted(holds, order) /\ order' = Unclaimed(order)
      /\ UNCHANGED <<remit, alerts>> /\ remit' \in Remits
  BY Remitted DEF adminRevertClaim
<1>2. /\ order' \in OrderRow /\ Undoes(order, order') /\ Kept(holds, holds') /\ EscrowIsThere'
      /\ order'.state = "requested" /\ ClaimIsReturned /\ DOMAIN holds' = DOMAIN holds
  BY <1>1, Reverts
<1>3. Others' /\ pc' \notin {"poll", "closing"}
  BY <1>1, <1>2, Handled
<1>4. order'.state \notin Late /\ order'.state \notin Terminal
  BY <1>2, TerminalStates DEF Late
<1> QED
  BY <1>1, <1>2, <1>3, <1>4, EarlyMove DEF Move

-----------------------------------------------------------------------------
(* The clock, and the steps that move neither the order nor a row.          *)

LEMMA NothingMoves ==
  ASSUME IInv, UNCHANGED <<order, holds>>, Others', Progress',
         pc' = "closing" => order'.pendingClose # "none",
         alerts \subseteq alerts', "unexpected-settle" \notin alerts' \ alerts
  PROVE  IInv'
<1>1. Stays(order, order') /\ ~ Undoes(order, order') /\ order'.escrow = order.escrow
      /\ order' \in OrderRow /\ (order'.state \in Late => order.state \in Late)
  BY Typed DEF Stays, Rest, Undoes
<1> QED
  BY <1>1, OnlyTheOrder DEF Move

LEMMA StartsTick == IInv /\ StartTick => IInv'
<1> SUFFICES ASSUME IInv, StartTick PROVE IInv'
  OBVIOUS
<1>1. Others'
  BY Typed DEF StartTick, Others, time
<1>2. Progress' /\ pc' # "closing"
  BY DEF StartTick, Progress, CloseGoesOn, PollIsOfOpen
<1> QED
  BY <1>1, <1>2, NothingMoves DEF StartTick

LEMMA LookupFails == IInv /\ PollLookupFails => IInv'
<1> SUFFICES ASSUME IInv, PollLookupFails PROVE IInv'
  OBVIOUS
<1>1. Others'
  BY Typed DEF PollLookupFails, Others, time
<1>2. pc = "poll" /\ pc' = "poll" /\ todo' \subseteq todo /\ UNCHANGED <<order, holds, alerts>>
  BY DEF PollLookupFails
<1>3. Progress'
  BY <1>2 DEF IInv, Progress, CloseGoesOn, PollIsOfOpen
<1> QED
  BY <1>1, <1>2, <1>3, NothingMoves

LEMMA ClockIsStarted == IInv /\ ClockStarts => IInv'
<1> SUFFICES ASSUME IInv, ClockStarts PROVE IInv'
  OBVIOUS
<1>1. Others'
  BY Typed DEF ClockStarts, Others, time
<1>2. pc' \notin {"poll", "closing"} /\ UNCHANGED <<order, holds, alerts>>
  BY DEF ClockStarts
<1> QED
  BY <1>1, <1>2, Elsewhere, NothingMoves

LEMMA Ticked ==
  ASSUME IInv, NEW at, NEW next \in {"verified", "expiry", "effects"}, Ticking(at, next),
         DOMAIN holds \subseteq DOMAIN holds'
  PROVE  Others' /\ pc' \notin {"poll", "closing"} /\ UNCHANGED alerts
<1>1. Others
  BY Typed
<1>2. pc' = next /\ UNCHANGED <<todo, time, seenLife, heightOk, remit, alerts>>
  BY DEF Ticking
<1> QED
  BY <1>1, <1>2 DEF Others, time

LEMMA ClockDrafts ==
  ASSUME IInv, Ticking("claims", "verified"), ClockDraft
  PROVE  IInv'
<1> DEFINE dep == current("customer", "customer")
<1>1. order.state = "draft" /\ order \in OrderRow
  BY Typed DEF ClockDraft
<1>2. /\ order' \in OrderRow /\ Opens(order, order') /\ order'.state \in {"none", "draft"}
      /\ order'.escrow = order.escrow /\ Kept(holds, holds') /\ DOMAIN holds \subseteq DOMAIN holds'
  <2>1. CASE planCustomerDeposit(order)
    BY <1>1, <2>1, CustomerPlans DEF Rest
  <2>2. CASE /\ order' = [order EXCEPT !.state = "none"]
             /\ holds' = Disposed(holds, {dep}, "cancel")
    <3>1. order' \in OrderRow /\ order'.state = "none" /\ Rest(order, order')
      BY <1>1, <2>2, Order_State DEF OrderStates
    <3>2. Kept(holds, holds') /\ DOMAIN holds \subseteq DOMAIN holds'
      BY <2>2, Typed, Kept_Disposed
    <3> QED
      BY <1>1, <3>1, <3>2 DEF Opens, Rest, Early
  <2>3. CASE UNCHANGED <<order, holds>>
    <3>1. Kept(holds, holds') /\ DOMAIN holds \subseteq DOMAIN holds'
      BY <2>3, Typed, Kept_Unchanged
    <3> QED
      BY <1>1, <2>3, <3>1 DEF Opens, Rest, Early
  <2> QED
    BY <2>1, <2>2, <2>3 DEF ClockDraft
<1>3. Others' /\ pc' \notin {"poll", "closing"} /\ UNCHANGED alerts
  BY <1>2, Ticked
<1>4. order'.state \notin Late /\ order'.state \notin Terminal /\ ~ Undoes(order, order')
  BY <1>1, <1>2, TerminalStates DEF Late, Undoes
<1> QED
  BY <1>2, <1>3, <1>4, SameEscrow, NothingReturned, EarlyMove DEF Move

LEMMA ClockOnClaimed ==
  ASSUME IInv, Ticking("claims", "verified"), ClockClaimed
  PROVE  IInv'
<1>1. order.state = "claimed" /\ order.pendingClose = "none" /\ order \in OrderRow
  BY Typed DEF ClockClaimed
<1>2. CASE UNCHANGED <<order, holds>>
  <2>1. Others' /\ pc' \notin {"poll", "closing"} /\ UNCHANGED alerts
    BY <1>2, Ticked
  <2> QED
    BY <1>2, <2>1, Elsewhere, NothingMoves
<1>3. CASE planSponsorDeposit(order.sponsor) /\ UNCHANGED order /\ order.sponsor \in Sponsors
  <2>1. Kept(holds, holds') /\ DOMAIN holds \subseteq DOMAIN holds'
    BY <1>3, SponsorPlans
  <2>2. Others' /\ pc' \notin {"poll", "closing"} /\ UNCHANGED alerts
    BY <2>1, Ticked
  <2>3. Stays(order, order') /\ ~ Undoes(order, order') /\ order'.escrow = order.escrow
        /\ order' \in OrderRow /\ order'.state \notin Late /\ order'.state \notin Terminal
    BY <1>1, <1>3, TerminalStates DEF Stays, Rest, Undoes, Late
  <2> QED
    BY <2>1, <2>2, <2>3, SameEscrow, NothingReturned, EarlyMove DEF Move
<1>4. CASE holds' = Reverted(holds, order) /\ order' = Unclaimed(order)
  <2>1. /\ order' \in OrderRow /\ Undoes(order, order') /\ Kept(holds, holds') /\ EscrowIsThere'
        /\ order'.state = "requested" /\ ClaimIsReturned /\ DOMAIN holds' = DOMAIN holds
    BY <1>1, <1>4, Reverts
  <2>2. Others' /\ pc' \notin {"poll", "closing"} /\ UNCHANGED alerts
    BY <2>1, Ticked
  <2>3. order'.state \notin Late /\ order'.state \notin Terminal
    BY <2>1, TerminalStates DEF Late
  <2> QED
    BY <2>1, <2>2, <2>3, EarlyMove DEF Move
<1>5. CASE approve
  <2>1. /\ order' \in OrderRow /\ Rebinds(order, order') /\ Kept(holds, holds') /\ EscrowIsThere'
        /\ order'.state = "claimed" /\ ClaimIsReturned /\ DOMAIN holds \subseteq DOMAIN holds'
    BY <1>5, Approves
  <2>2. Others' /\ pc' \notin {"poll", "closing"} /\ UNCHANGED alerts
    BY <2>1, Ticked
  <2>3. order'.state \notin Late /\ order'.state \notin Terminal
    BY <2>1, TerminalStates DEF Late
  <2> QED
    BY <2>1, <2>2, <2>3, EarlyMove DEF Move
<1>6. order.sponsor \in Sponsors
  BY <1>1 DEF OrderRow, Maybe, IInv, OrderBook, NobodyYet
<1> QED
  BY <1>2, <1>3, <1>4, <1>5, <1>6 DEF ClockClaimed

LEMMA ClockForClaims == IInv /\ ClockClaims => IInv'
<1> SUFFICES ASSUME IInv, ClockClaims PROVE IInv'
  OBVIOUS
<1>1. Ticking("claims", "verified")
  BY DEF ClockClaims
<1>2. CASE UNCHANGED <<order, holds>>
  <2>1. Others' /\ pc' \notin {"poll", "closing"} /\ UNCHANGED alerts
    BY <1>1, <1>2, Ticked
  <2> QED
    BY <1>2, <2>1, Elsewhere, NothingMoves
<1> QED
  BY <1>1, <1>2, ClockDrafts, ClockOnClaimed DEF ClockClaims

LEMMA ClockForVerified == IInv /\ ClockVerified => IInv'
<1> SUFFICES ASSUME IInv, ClockVerified PROVE IInv'
  OBVIOUS
<1>1. Ticking("verified", "expiry") /\ UNCHANGED holds
  BY DEF ClockVerified
<1>2. Others' /\ pc' \notin {"poll", "closing"} /\ UNCHANGED alerts
  BY <1>1, Ticked
<1>3. CASE UNCHANGED order
  BY <1>1, <1>2, <1>3, Elsewhere, NothingMoves
<1>4. CASE beginClose("cancel:unpaid-escrow")
  BY <1>1, <1>2, <1>4, BeginsOnly DEF LnCloseReason
<1> QED
  BY <1>3, <1>4 DEF ClockVerified

LEMMA OverdueReason ==
  overdue \in LnCloseReason \cup {"none"}
  BY DEF overdue, expiryReasonFor, LnCloseReason

\* The safety settle asks for the escrow, and nothing else changes.
LEMMA SafetySettles ==
  ASSUME IInv, SafetySettleDue, holds' = Disposed(holds, {order.escrow}, "settle"),
         UNCHANGED <<order, alerts>>, Others', pc' \notin {"poll", "closing"}
  PROVE  IInv'
<1>1. /\ order.state = "remitted" /\ order.pendingClose = "none" /\ order.escrow # 0
      /\ holds[order.escrow].status = "accepted" /\ order.escrow \in DOMAIN holds
  BY DEF SafetySettleDue, IInv, OrderBook, EscrowIsThere
<1>2. holds \in Seq(HoldRow) /\ Len(holds) <= MaxHolds /\ "settle" \in {"settle", "cancel"}
  BY Typed DEF Whole
<1>3. /\ holds' \in Seq(HoldRow) /\ Len(holds') = Len(holds) /\ DOMAIN holds' = DOMAIN holds
      /\ \A h \in DOMAIN holds :
           /\ holds'[h].purpose = holds[h].purpose /\ holds'[h].party = holds[h].party
           /\ holds'[h].status = holds[h].status /\ holds'[h].node = holds[h].node
           /\ holds'[h].disposing = IF h \in {order.escrow} /\ holds[h].disposing = "none"
                                    THEN "settle" ELSE holds[h].disposing
  BY <1>2, Disposed_Rows
<1>4. \A h \in DOMAIN holds : holds'[h].disposing = "none" => holds[h].disposing = "none"
  BY <1>3
<1>5. \A h \in DOMAIN holds :
        holds'[h].disposing = holds[h].disposing \/ (h = order.escrow /\ holds'[h].disposing = "settle")
  BY <1>3
<1>6. TypeOK'
  BY <1>2, <1>3, Typed DEF TypeOK, Others
<1>7. OrderBook'
  BY <1>3 DEF IInv, OrderBook, EscrowIsThere, CloseIsLegal, ReasonIsKept, NobodyYet, MovesTo
<1>8. HoldBook'
  <2>1. FinalIsTrue'
    <3>1. DOMAIN holds' = DOMAIN holds /\ \A h \in DOMAIN holds :
            holds'[h].status = holds[h].status /\ holds'[h].node = holds[h].node
      BY <1>3
    <3>2. FinalIsTrue
      BY DEF IInv, HoldBook
    <3> QED
      BY <3>1, <3>2 DEF FinalIsTrue, Truthful
  <2>2. OnlyEscrowIsAsked'
    <3>1. \A h \in DOMAIN holds : holds'[h].disposing = "settle" =>
            h = order.escrow \/ holds[h].disposing = "settle"
      BY <1>5
    <3>2. \A h \in DOMAIN holds : holds[h].disposing = "settle" => h = order.escrow
      BY DEF IInv, HoldBook, OnlyEscrowIsAsked
    <3> QED
      BY <1>1, <1>3, <3>1, <3>2 DEF OnlyEscrowIsAsked
  <2>3. SettlesAreOurs'
    BY <1>3, <1>4 DEF IInv, HoldBook, SettlesAreOurs
  <2>4. EndedIsClosed'
    BY <1>1, TerminalStates DEF EndedIsClosed
  <2>5. EscrowIsKnown'
    BY <1>1, <1>3, <1>5 DEF IInv, HoldBook, EscrowIsKnown
  <2> QED
    BY <2>1, <2>2, <2>3, <2>4, <2>5 DEF HoldBook
<1>9. Promises'
  <2>1. PayoutBacked' /\ NoFalseAlarm'
    BY <1>1, <1>3 DEF IInv, Promises, PayoutBacked, NoFalseAlarm
  <2>2. EscrowTakenForCause'
    BY <1>3 DEF IInv, Promises, EscrowTakenForCause, Escrow
  <2>3. ForfeitOnlyByRule'
    <3>1. Reason' = Reason
      BY DEF Reason
    <3>2. ForfeitOnlyByRule
      BY DEF IInv, Promises, MoneyByRule
    <3> SUFFICES ASSUME NEW h \in DOMAIN holds', holds'[h].purpose # "escrow",
                        holds'[h].node = "settled"
                 PROVE  /\ Reason' # "none"
                        /\ IF holds'[h].purpose = "customer"
                           THEN CLOSE_RULES[Reason'].customerDeposit = "forfeit"
                           ELSE /\ CLOSE_RULES[Reason'].sponsorDeposit = "forfeit"
                                /\ holds'[h].party = order'.sponsor
      BY DEF ForfeitOnlyByRule, Escrow
    <3>3. h \in DOMAIN holds /\ holds[h].purpose # "escrow" /\ holds[h].node = "settled"
      BY <1>3
    <3>4. /\ Reason # "none"
          /\ IF holds[h].purpose = "customer"
             THEN CLOSE_RULES[Reason].customerDeposit = "forfeit"
             ELSE /\ CLOSE_RULES[Reason].sponsorDeposit = "forfeit"
                  /\ holds[h].party = order.sponsor
      BY <3>2, <3>3 DEF ForfeitOnlyByRule, Escrow
    <3> QED
      BY <3>1, <3>3, <3>4, <1>3
  <2>4. NoStrayMoney'
    <3> SUFFICES ASSUME NEW h \in DOMAIN holds', Caught(holds'[h])
                 PROVE  /\ order'.state \in OrderState \ Terminal
                        /\ holds'[h].purpose = "escrow" => h = order'.escrow
                        /\ holds'[h].purpose = "sponsor" => holds'[h].party = order'.sponsor
      BY DEF NoStrayMoney, Caught, Escrow
    <3>1. h \in DOMAIN holds /\ Caught(holds[h])
      BY <1>3, <1>4 DEF Caught
    <3>2. /\ order.state \in OrderState \ Terminal
          /\ holds[h].purpose = "escrow" => h = order.escrow
          /\ holds[h].purpose = "sponsor" => holds[h].party = order.sponsor
      BY <3>1 DEF IInv, Promises, MoneyByRule, NoStrayMoney, Escrow, Caught
    <3> QED
      BY <3>1, <3>2, <1>3
  <2> QED
    BY <2>1, <2>2, <2>3, <2>4 DEF Promises, MoneyByRule
<1> QED
  BY <1>6, <1>7, <1>8, <1>9, Elsewhere DEF IInv

LEMMA ClockForExpiry == IInv /\ ClockExpiry => IInv'
<1> SUFFICES ASSUME IInv, ClockExpiry PROVE IInv'
  OBVIOUS
<1>1. Ticking("expiry", "effects")
  BY DEF ClockExpiry
<1>2. CASE Expires /\ beginClose(overdue) /\ UNCHANGED holds
  <2>1. Others' /\ pc' \notin {"poll", "closing"} /\ UNCHANGED alerts
    BY <1>1, <1>2, Ticked
  <2>2. overdue \in LnCloseReason
    BY <1>2, OverdueReason DEF Expires
  <2> QED
    BY <1>2, <2>1, <2>2, BeginsOnly
<1>3. CASE /\ SafetySettleDue /\ UNCHANGED order
           /\ holds' = Disposed(holds, {order.escrow}, "settle")
  <2>1. DOMAIN holds \subseteq DOMAIN holds'
    BY <1>3 DEF Disposed
  <2>2. Others' /\ pc' \notin {"poll", "closing"} /\ UNCHANGED alerts
    BY <1>1, <2>1, Ticked
  <2> QED
    BY <1>3, <2>2, SafetySettles
<1>4. CASE UNCHANGED <<order, holds>>
  <2>1. Others' /\ pc' \notin {"poll", "closing"} /\ UNCHANGED alerts
    BY <1>1, <1>4, Ticked
  <2> QED
    BY <1>4, <2>1, Elsewhere, NothingMoves
<1> QED
  BY <1>2, <1>3, <1>4 DEF ClockExpiry

-----------------------------------------------------------------------------
(* The world.                                                               *)

\* A row q for h, of which only the node's side may be new.
AtNode(r, q) == /\ q \in HoldRow /\ q.purpose = r.purpose /\ q.party = r.party
                /\ q.status = r.status /\ q.disposing = r.disposing
                /\ q.node = "settled" <=> r.node = "settled"
                /\ q.node = r.node \/ q.node = "cancelled" \/ r.status = "open"
                /\ r.node \in {"open", "accepted"} \/ q.node = r.node

LEMMA NodeMoves ==
  ASSUME IInv, Outside, DOMAIN holds' = DOMAIN holds, Whole(holds'), Others',
         \A h \in DOMAIN holds : AtNode(holds[h], holds'[h])
  PROVE  IInv'
<1>1. UNCHANGED <<order, pc, todo, alerts>> /\ pc \notin {"poll"}
  BY DEF Outside
<1>2. ASSUME NEW h \in DOMAIN holds
      PROVE  /\ Ordinary(holds[h], holds'[h]) /\ (Caught(holds'[h]) => Caught(holds[h]))
             /\ holds'[h].status = holds[h].status /\ holds'[h].disposing = holds[h].disposing
  <2> DEFINE r == holds[h]
             q == holds'[h]
  <2>1. Truthful(r) /\ AtNode(r, q)
    BY DEF IInv, HoldBook, FinalIsTrue
  <2> HIDE DEF r, q
  <2>2. /\ q.purpose = r.purpose /\ q.party = r.party /\ q.status = r.status
        /\ q.disposing = r.disposing /\ (q.node = "settled" <=> r.node = "settled")
    BY <2>1 DEF AtNode
  <2>3. Truthful(q)
    BY <2>1, <2>2 DEF AtNode, Truthful
  <2>4. Ordinary(r, q) /\ (Caught(q) => Caught(r))
    BY <2>2, <2>3 DEF Ordinary, LiveHold, Asked, Caught
  <2> QED
    BY <2>2, <2>4 DEF r, q
<1>3. Rows(holds, holds') /\ CatchesItsOwn
  BY <1>2 DEF Rows, CatchesItsOwn
<1>4. Stays(order, order') /\ ~ Undoes(order, order') /\ order'.escrow = order.escrow
  BY <1>1 DEF Stays, Rest, Undoes
<1>5. EscrowIsThere'
  BY <1>1, <1>2 DEF IInv, OrderBook, EscrowIsThere, Ordinary
<1>6. pc' = "closing" => order'.pendingClose # "none"
  BY <1>1 DEF IInv, OrderBook, CloseIsLegal
<1>7. Calm
  BY <1>1, <1>3, <1>4, <1>5, <1>6 DEF Calm, Move
<1>8. EscrowStays
  <2> SUFFICES ASSUME order'.state \in Late
               PROVE  /\ order.state \in Late
                      /\ holds'[order.escrow].status = holds[order.escrow].status
                      /\ holds'[order.escrow].disposing # "cancel"
    BY DEF EscrowStays
  <2>1. order.state \in Late /\ order.escrow \in DOMAIN holds
        /\ holds[order.escrow].disposing # "cancel"
    BY <1>1 DEF IInv, HoldBook, EscrowIsKnown, OrderBook, EscrowIsThere
  <2> QED
    BY <1>2, <2>1
<1>9. Progress'
  <2>1. CASE pc # "closing"
    BY <1>1, <2>1 DEF Progress, CloseGoesOn, PollIsOfOpen
  <2>2. CASE pc = "closing"
    <3>1. CloseSet' = CloseSet
      BY <1>1, <1>2 DEF CloseSet, LiveHold
    <3>2. \A h \in CloseSet \ todo : h \in DOMAIN holds
      BY DEF CloseSet, IInv, OrderBook, EscrowIsThere
    <3>3. \A h \in CloseSet \ todo : holds[h].node \notin {"open", "accepted"}
      BY <2>2 DEF IInv, Progress, CloseGoesOn
    <3>4. \A h \in CloseSet \ todo : holds'[h].node = holds[h].node
      BY <3>2, <3>3 DEF AtNode
    <3>5. order.escrow # 0 => order.escrow \in CloseSet
      BY DEF CloseSet
    <3>6. rule.escrow = "settle" /\ order.escrow # 0 /\ order.escrow \notin todo =>
            holds[order.escrow].node = "settled"
      BY <2>2 DEF IInv, Progress, CloseGoesOn
    <3>7. rule' = rule
      BY <1>1 DEF rule
    <3>8. CloseGoesOn'
      BY <1>1, <3>1, <3>3, <3>4, <3>5, <3>6, <3>7 DEF CloseGoesOn
    <3> QED
      BY <1>1, <2>2, <3>8 DEF Progress, PollIsOfOpen
  <2> QED
    BY <2>1, <2>2
<1> QED
  BY <1>1, <1>3, <1>4, <1>7, <1>8, <1>9, Typed, StaysKnown, NothingReturned, Steady

LEMMA RowMoves ==
  ASSUME IInv, NEW h \in DOMAIN holds, NEW q, AtNode(holds[h], q),
         holds' = [holds EXCEPT ![h] = q]
  PROVE  DOMAIN holds' = DOMAIN holds /\ Whole(holds')
         /\ \A g \in DOMAIN holds : AtNode(holds[g], holds'[g])
<1>1. holds \in Seq(HoldRow) /\ Len(holds) <= MaxHolds /\ q \in HoldRow
  BY Typed DEF Whole, AtNode
<1>2. /\ holds' \in Seq(HoldRow) /\ Len(holds') = Len(holds) /\ DOMAIN holds' = DOMAIN holds
      /\ holds'[h] = q /\ \A g \in DOMAIN holds \ {h} : holds'[g] = holds[g]
  BY <1>1, WriteRow
<1>3. ASSUME NEW g \in DOMAIN holds PROVE AtNode(holds[g], holds'[g])
  <2>1. CASE g = h
    BY <1>2, <2>1
  <2>2. CASE g # h
    <3>1. holds'[g] = holds[g] /\ holds[g] \in HoldRow
      BY <1>2, <2>2, RowOf
    <3> QED
      BY <3>1 DEF AtNode
  <2> QED
    BY <2>1, <2>2
<1> QED
  BY <1>1, <1>2, <1>3 DEF Whole

LEMMA OutsideOthers ==
  ASSUME IInv, Outside, DOMAIN holds' = DOMAIN holds, remit' \in Remits,
         phase' \in Phases, life' \in Lives, invoiceDue' \in BOOLEAN, warm' \in BOOLEAN,
         crashes' = crashes
  PROVE  Others'
<1>1. Others /\ UNCHANGED <<order, pc, todo, seenLife, heightOk, alerts>>
  BY Typed DEF Outside
<1> QED
  BY <1>1 DEF Others, Remits

\* Nothing of the world's own moves.
LEMMA OutsideStill ==
  ASSUME IInv, Outside, UNCHANGED <<time, remit>>, DOMAIN holds' = DOMAIN holds
  PROVE  Others'
<1>1. /\ phase' \in Phases /\ life' \in Lives /\ invoiceDue' \in BOOLEAN /\ warm' \in BOOLEAN
      /\ crashes' = crashes /\ remit' \in Remits
  BY Typed DEF Others, time, Remits
<1> QED
  BY <1>1, OutsideOthers

LEMMA PayerHasPaid ==
  ASSUME IInv, NEW h \in DOMAIN holds, PayerPays(h) PROVE IInv'
<1> DEFINE r == holds[h]
           p == [r EXCEPT !.node = "accepted"]
           b == holds[h].purpose = "escrow"
           q == [p EXCEPT !.paid = b]
<1>1. /\ Outside /\ r.status = "open" /\ r.node = "open" /\ UNCHANGED <<time, remit>>
      /\ holds' = [holds EXCEPT ![h].node = "accepted", ![h].paid = (holds[h].purpose = "escrow")]
  BY DEF PayerPays
<1>2. r \in HoldRow
  BY RowOf
<1>3. p \in HoldRow /\ p.purpose = r.purpose /\ p.party = r.party
      /\ p.status = r.status /\ p.node = "accepted" /\ p.disposing = r.disposing
  BY <1>2, Row_Node DEF NodeStates
<1>4. holds' = [holds EXCEPT ![h] = q]
  BY <1>1, Zenon
<1>0. b \in BOOLEAN
  OBVIOUS
<1> HIDE DEF p, b
<1>5. q \in HoldRow /\ q.purpose = p.purpose /\ q.party = p.party
      /\ q.status = p.status /\ q.node = p.node /\ q.disposing = p.disposing
  BY <1>0, <1>3, Row_Paid
<1>6. AtNode(r, q)
  BY <1>1, <1>3, <1>5 DEF AtNode
<1> HIDE DEF q, r
<1>7. AtNode(holds[h], q)
  BY <1>6 DEF r
<1>8. DOMAIN holds' = DOMAIN holds /\ Whole(holds')
      /\ \A g \in DOMAIN holds : AtNode(holds[g], holds'[g])
  BY <1>1, <1>4, <1>7, RowMoves
<1> QED
  BY <1>1, <1>8, OutsideStill, NodeMoves

LEMMA NodeHasGivenUp ==
  ASSUME IInv, NEW h \in DOMAIN holds, NodeGivesUp(h) PROVE IInv'
<1> DEFINE q == [holds[h] EXCEPT !.node = "cancelled"]
<1>1. /\ Outside /\ holds[h].node \in {"open", "accepted"} /\ UNCHANGED <<time, remit>>
      /\ holds' = [holds EXCEPT ![h].node = "cancelled"]
  BY DEF NodeGivesUp
<1>2. q \in HoldRow /\ q.purpose = holds[h].purpose /\ q.party = holds[h].party
      /\ q.status = holds[h].status /\ q.node = "cancelled" /\ q.disposing = holds[h].disposing
  BY RowOf, Row_Node DEF NodeStates
<1>3. holds' = [holds EXCEPT ![h] = q]
  BY <1>1
<1> HIDE DEF q
<1>4. AtNode(holds[h], q)
  BY <1>1, <1>2 DEF AtNode
<1>5. DOMAIN holds' = DOMAIN holds /\ Whole(holds')
      /\ \A g \in DOMAIN holds : AtNode(holds[g], holds'[g])
  BY <1>1, <1>3, <1>4, RowMoves
<1> QED
  BY <1>1, <1>5, OutsideStill, NodeMoves

LEMMA DueAtNode ==
  ASSUME NEW r \in HoldRow
  PROVE  AtNode(r, [r EXCEPT !.due = TRUE]) /\ AtNode(r, r)
<1> DEFINE q == [r EXCEPT !.due = TRUE]
<1>1. q \in HoldRow /\ q.purpose = r.purpose /\ q.party = r.party
      /\ q.status = r.status /\ q.node = r.node /\ q.disposing = r.disposing
  BY Row_Due
<1> HIDE DEF q
<1>2. AtNode(r, q) /\ AtNode(r, r)
  BY <1>1 DEF AtNode
<1> QED
  BY <1>2 DEF q

LEMMA PayByHasPassed ==
  ASSUME IInv, NEW h \in DOMAIN holds, PayByPasses(h) PROVE IInv'
<1> DEFINE q == [holds[h] EXCEPT !.due = TRUE]
<1>1. Outside /\ UNCHANGED <<time, remit>> /\ holds' = [holds EXCEPT ![h].due = TRUE]
  BY DEF PayByPasses, Clockwork
<1>2. AtNode(holds[h], q)
  BY RowOf, DueAtNode
<1>3. holds' = [holds EXCEPT ![h] = q]
  BY <1>1
<1> HIDE DEF q
<1>4. DOMAIN holds' = DOMAIN holds /\ Whole(holds')
      /\ \A g \in DOMAIN holds : AtNode(holds[g], holds'[g])
  BY <1>1, <1>2, <1>3, RowMoves
<1> QED
  BY <1>1, <1>4, OutsideStill, NodeMoves

LEMMA PhaseHasPassed == IInv /\ PhasePasses => IInv'
<1> SUFFICES ASSUME IInv, PhasePasses PROVE IInv'
  OBVIOUS
<1>1. /\ Outside /\ UNCHANGED <<remit, life, warm, crashes>>
      /\ phase < 3 /\ phase' = phase + 1 /\ invoiceDue' = (invoiceDue \/ phase' = 3)
  BY DEF PhasePasses, Clockwork
<1> DEFINE Before == IF phase = 0 THEN {"customer"} ELSE {"customer", "escrow"}
<1>2. holds' = [h \in DOMAIN holds |-> IF Unpaid(holds[h]) /\ holds[h].purpose \in Before
                                      THEN [holds[h] EXCEPT !.due = TRUE] ELSE holds[h]]
  BY DEF PhasePasses
<1> HIDE DEF Before
<1>3. DOMAIN holds' = DOMAIN holds /\ holds' = [h \in DOMAIN holds |-> holds'[h]]
  BY <1>2
<1>4. ASSUME NEW h \in DOMAIN holds PROVE AtNode(holds[h], holds'[h])
  <2>1. AtNode(holds[h], [holds[h] EXCEPT !.due = TRUE]) /\ AtNode(holds[h], holds[h])
    BY RowOf, DueAtNode
  <2> QED
    BY <1>2, <2>1
<1>5. Whole(holds')
  <2>1. \A h \in DOMAIN holds : holds'[h] \in HoldRow
    BY <1>4 DEF AtNode
  <2> QED
    BY <1>3, <2>1, Typed, InPlace DEF Whole
<1>6. phase \in Phases /\ life \in Lives /\ warm \in BOOLEAN /\ invoiceDue \in BOOLEAN
  BY Typed DEF Others
<1>7. phase' \in Phases /\ invoiceDue' \in BOOLEAN /\ remit' \in Remits
  BY <1>1, <1>6, Remitted DEF Phases
<1>8. Others'
  BY <1>1, <1>3, <1>6, <1>7, OutsideOthers
<1> QED
  BY <1>1, <1>3, <1>4, <1>5, <1>8, NodeMoves

LEMMA TimePasses == IInv /\ (SponsorRemits \/ InvoiceWindowEnds \/ LifeDrops \/ WarmsUp) => IInv'
<1> SUFFICES ASSUME IInv, SponsorRemits \/ InvoiceWindowEnds \/ LifeDrops \/ WarmsUp PROVE IInv'
  OBVIOUS
<1>1. phase \in Phases /\ life \in Lives /\ warm \in BOOLEAN /\ invoiceDue \in BOOLEAN
      /\ remit \in Remits /\ MinLife \in 0..4
  BY Typed, Remitted, LnTradeAssumption DEF Others
<1>2. Outside /\ UNCHANGED holds /\ crashes' = crashes
  BY DEF SponsorRemits, InvoiceWindowEnds, LifeDrops, WarmsUp, Clockwork, time
<1>3. phase' \in Phases /\ warm' \in BOOLEAN /\ invoiceDue' \in BOOLEAN /\ remit' \in Remits
  BY <1>1 DEF SponsorRemits, InvoiceWindowEnds, LifeDrops, WarmsUp, Clockwork, time, Remits
<1>4. life' \in Lives
  <2>1. CASE LifeDrops
    BY <1>1, <2>1 DEF LifeDrops, Lives
  <2>2. CASE ~ LifeDrops
    BY <1>1, <2>2 DEF SponsorRemits, InvoiceWindowEnds, WarmsUp, time
  <2> QED
    BY <2>1, <2>2
<1>5. Others'
  BY <1>2, <1>3, <1>4, OutsideOthers
<1>6. Whole(holds') /\ DOMAIN holds' = DOMAIN holds
  BY <1>2, Typed
<1>7. \A h \in DOMAIN holds : AtNode(holds[h], holds'[h])
  BY <1>2, RowOf, DueAtNode
<1> QED
  BY <1>2, <1>5, <1>6, <1>7, NodeMoves

-----------------------------------------------------------------------------
(* The effects.                                                             *)

LEMMA Crashes == IInv /\ (Crash \/ CloseInterrupted \/ EndTick) => IInv'
<1> SUFFICES ASSUME IInv, Crash \/ CloseInterrupted \/ EndTick PROVE IInv'
  OBVIOUS
<1>1. Others
  BY Typed
<1>2. UNCHANGED <<order, holds, alerts>> /\ pc' \in {"dispatch", "effects"}
  BY DEF Crash, Dies, CloseInterrupted, EndTick
<1>3. CASE Crash
  <2>1. crashes' \in 0..MaxCrashes
    BY <1>1, <1>3, LnTradeAssumption DEF Crash, Dies, Others
  <2>2. Others'
    BY <1>1, <1>2, <1>3, <2>1 DEF Crash, Dies, Others
  <2> QED
    BY <1>2, <2>2, Elsewhere, NothingMoves
<1>4. CASE CloseInterrupted \/ EndTick
  <2>1. Others'
    BY <1>1, <1>2, <1>4 DEF CloseInterrupted, EndTick, InClosing, InEffects, time, Others
  <2> QED
    BY <1>2, <2>1, Elsewhere, NothingMoves
<1> QED
  BY <1>3, <1>4

LEMMA CloseStarts == IInv /\ CloseStart => IInv'
<1> SUFFICES ASSUME IInv, CloseStart PROVE IInv'
  OBVIOUS
<1>1. /\ order.pendingClose # "none" /\ pc' = "closing" /\ todo' = CloseSet
      /\ UNCHANGED <<order, holds, time, seenLife, heightOk, remit, alerts>>
  BY DEF CloseStart
<1>2. CloseSet \subseteq DOMAIN holds /\ CloseSet' = CloseSet
  BY <1>1 DEF CloseSet, LiveHold, IInv, OrderBook, EscrowIsThere
<1>3. Others'
  BY <1>1, <1>2, Typed DEF Others, time
<1>4. order.escrow # 0 => order.escrow \in CloseSet
  BY DEF CloseSet
<1>5. Progress'
  BY <1>1, <1>2, <1>4 DEF Progress, CloseGoesOn, PollIsOfOpen
<1> QED
  BY <1>1, <1>3, <1>5, NothingMoves

LEMMA EffectsOthers ==
  ASSUME IInv, InEffects, pc' \in {"effects", "dispatch"}, DOMAIN holds \subseteq DOMAIN holds',
         alerts' \subseteq Alert
  PROVE  Others' /\ Progress' /\ pc' \notin {"poll", "closing"}
<1>1. Others /\ UNCHANGED <<todo, time, seenLife, heightOk, remit>>
  BY Typed DEF InEffects
<1>2. Others'
  BY <1>1 DEF Others, time
<1> QED
  BY <1>2, Elsewhere

LEMMA LostOthers ==
  ASSUME IInv, AnswerLost, DOMAIN holds \subseteq DOMAIN holds'
  PROVE  Others' /\ Progress' /\ pc' \notin {"poll", "closing"} /\ UNCHANGED <<order, alerts>>
<1>1. Others /\ UNCHANGED <<order, alerts>> /\ pc = "effects"
  BY Typed DEF AnswerLost
<1>2. CASE Dies
  <2>1. crashes' \in 0..MaxCrashes
    BY <1>1, <1>2, LnTradeAssumption DEF Dies, Others
  <2>2. Others' /\ pc' = "dispatch"
    BY <1>1, <1>2, <2>1 DEF Dies, Others
  <2> QED
    BY <1>1, <2>2, Elsewhere
<1>3. CASE InEffects /\ UNCHANGED pc
  <2>1. alerts' \subseteq Alert /\ pc' = "effects"
    BY <1>1, <1>3 DEF Others
  <2> QED
    BY <1>1, <1>3, <2>1, EffectsOthers
<1> QED
  BY <1>2, <1>3 DEF AnswerLost

\* Rows change under an order that does not, without catching money.
LEMMA RowsOnly ==
  ASSUME IInv, UNCHANGED order, Others', Progress', pc' \notin {"poll", "closing"},
         Whole(holds'), DOMAIN holds' = DOMAIN holds, Rows(holds, holds'),
         EscrowIsKnown',
         \A h \in DOMAIN holds : Caught(holds'[h]) => Caught(holds[h]),
         alerts \subseteq alerts', "unexpected-settle" \notin alerts' \ alerts
  PROVE  IInv'
<1>1. Stays(order, order') /\ ~ Undoes(order, order') /\ order'.escrow = order.escrow
      /\ order' \in OrderRow
  BY Typed DEF Stays, Rest, Undoes
<1>2. EscrowIsThere'
  BY <1>1 DEF IInv, OrderBook, EscrowIsThere, Rows, Ordinary
<1>3. Calm
  BY <1>1, <1>2 DEF Calm, Move
<1>4. CatchesItsOwn
  BY DEF CatchesItsOwn
<1> QED
  BY <1>1, <1>3, <1>4, NothingReturned, Steady

\* hold.create has run, its answer is lost: the invoice is at the node.
LEMMA CreateLost ==
  ASSUME IInv, NEW h \in DOMAIN holds, HoldCreateLost(h) PROVE IInv'
<1> DEFINE q == [holds[h] EXCEPT !.node = "open"]
<1>1. /\ AnswerLost /\ holds[h].status = "creating" /\ holds[h].node = "absent"
      /\ holds' = [holds EXCEPT ![h].node = "open"]
  BY DEF HoldCreateLost
<1>2. q \in HoldRow /\ q.purpose = holds[h].purpose /\ q.party = holds[h].party
      /\ q.status = holds[h].status /\ q.node = "open" /\ q.disposing = holds[h].disposing
  BY RowOf, Row_Node DEF NodeStates
<1>3. holds' = [holds EXCEPT ![h] = q]
  BY <1>1
<1> HIDE DEF q
<1>4. holds \in Seq(HoldRow) /\ Len(holds) <= MaxHolds
  BY Typed DEF Whole
<1>5. /\ holds' \in Seq(HoldRow) /\ Len(holds') = Len(holds) /\ DOMAIN holds' = DOMAIN holds
      /\ holds'[h] = q /\ \A g \in DOMAIN holds \ {h} : holds'[g] = holds[g]
  BY <1>2, <1>3, <1>4, WriteRow
<1>6. Ordinary(holds[h], q) /\ ~ Caught(q)
  BY <1>1, <1>2 DEF Ordinary, Truthful, LiveHold, Asked, Caught
<1>7. ASSUME NEW g \in DOMAIN holds
      PROVE  /\ Ordinary(holds[g], holds'[g]) /\ (Caught(holds'[g]) => Caught(holds[g]))
             /\ holds'[g].status = holds[g].status /\ holds'[g].disposing = holds[g].disposing
  <2>1. Same(holds[g], holds[g]) /\ Truthful(holds[g])
    BY DEF Same, IInv, HoldBook, FinalIsTrue
  <2>2. CASE g = h
    BY <1>2, <1>5, <1>6, <2>2
  <2>3. CASE g # h
    BY <1>5, <2>1, <2>3, Kept_Ordinary
  <2> QED
    BY <2>2, <2>3
<1>8. Others' /\ Progress' /\ pc' \notin {"poll", "closing"} /\ UNCHANGED <<order, alerts>>
  BY <1>1, <1>5, LostOthers
<1>9. EscrowIsKnown'
  BY <1>7, <1>8 DEF IInv, HoldBook, EscrowIsKnown, OrderBook, EscrowIsThere
<1>10. Rows(holds, holds') /\ Whole(holds')
  BY <1>4, <1>5, <1>7 DEF Rows, Whole
<1> QED
  BY <1>5, <1>7, <1>8, <1>9, <1>10, RowsOnly

\* One row is written, and then perhaps refunds are asked for.
LEMMA ThenKept ==
  ASSUME IInv, NEW h \in DOMAIN holds, NEW q \in HoldRow, Ordinary(holds[h], q),
         NEW hs, hs = [holds EXCEPT ![h] = q], Kept(hs, holds'), DOMAIN holds' = DOMAIN hs
  PROVE  /\ Whole(holds') /\ DOMAIN holds' = DOMAIN holds /\ Rows(holds, holds')
         /\ Same(q, holds'[h]) /\ (Caught(holds'[h]) => Caught(q))
         /\ \A g \in DOMAIN holds \ {h} : Same(holds[g], holds'[g])
         /\ \A g \in DOMAIN holds \ {h} : Caught(holds'[g]) => Caught(holds[g])
<1>1. holds \in Seq(HoldRow)
  BY Typed DEF Whole
<1>2. /\ DOMAIN hs = DOMAIN holds /\ hs[h] = q
      /\ \A g \in DOMAIN holds \ {h} : hs[g] = holds[g]
  BY <1>1, WriteRow
<1>3. \A g \in DOMAIN holds : Same(hs[g], holds'[g])
  BY <1>2 DEF Kept
<1>4. Truthful(q)
  BY DEF Ordinary
<1>5. Ordinary(q, holds'[h]) /\ (Caught(holds'[h]) => Caught(q))
  BY <1>2, <1>3, <1>4, Kept_Ordinary
<1>6. Ordinary(holds[h], holds'[h])
  BY <1>5, OrdinaryIsTransitive
<1>7. ASSUME NEW g \in DOMAIN holds \ {h}
      PROVE  Same(holds[g], holds'[g]) /\ Ordinary(holds[g], holds'[g])
             /\ (Caught(holds'[g]) => Caught(holds[g]))
  <2>1. Truthful(holds[g])
    BY DEF IInv, HoldBook, FinalIsTrue
  <2>2. Same(holds[g], holds'[g])
    BY <1>2, <1>3
  <2> QED
    BY <2>1, <2>2, Kept_Ordinary
<1>8. Rows(holds, holds')
  BY <1>2, <1>6, <1>7 DEF Rows
<1> QED
  BY <1>2, <1>3, <1>5, <1>7, <1>8 DEF Kept

\* A row is not the escrow of a trade whose escrow was paid, when it says otherwise.
LEMMA OthersKnown ==
  ASSUME IInv, NEW h \in DOMAIN holds, Rows(holds, holds'),
         \A g \in DOMAIN holds \ {h} : Same(holds[g], holds'[g]),
         order'.state \in Late => order' = order /\ h # order.escrow,
         order'.state \in Late => holds'[order.escrow].disposing # "cancel",
         alerts \subseteq alerts'
  PROVE  EscrowIsKnown'
<1> SUFFICES ASSUME order'.state \in Late
             PROVE  /\ order'.escrow # 0
                    /\ holds'[order'.escrow].status \in {"accepted", "settled", "cancelled"}
                    /\ holds'[order'.escrow].disposing # "cancel"
                    /\ holds'[order'.escrow].status = "cancelled" => alerts' \cap Calls # {}
  BY DEF EscrowIsKnown
<1>1. order' = order /\ h # order.escrow /\ order.state \in Late /\ order.escrow # 0
  BY DEF IInv, HoldBook, EscrowIsKnown
<1>2. order.escrow \in DOMAIN holds \ {h}
  BY <1>1 DEF IInv, OrderBook, EscrowIsThere
<1>3. holds'[order.escrow].status = holds[order.escrow].status
  BY <1>2 DEF Same
<1>4. alerts \cap Calls \subseteq alerts' \cap Calls
  OBVIOUS
<1> QED
  BY <1>1, <1>3, <1>4 DEF IInv, HoldBook, EscrowIsKnown

\* The end of a hold.create whose row still said that it was being made.
LEMMA CreateEnds ==
  ASSUME IInv, InEffects, UNCHANGED <<pc, alerts>>,
         NEW h \in DOMAIN holds, holds[h].status = "creating",
         NEW q \in HoldRow, Ordinary(holds[h], q), q.status \in {"open", "cancelled"},
         NEW hs, hs = [holds EXCEPT ![h] = q], Kept(hs, holds'), DOMAIN holds' = DOMAIN hs,
         \A g \in DOMAIN holds \ {h} : order'.state \in Late => holds'[g].disposing = holds[g].disposing,
         order' \in OrderRow, Move(order, order'), order'.escrow \in {0, order.escrow},
         ClaimIsReturned, order'.state \in Late => order' = order
  PROVE  IInv'
<1>1. /\ Whole(holds') /\ DOMAIN holds' = DOMAIN holds /\ Rows(holds, holds')
      /\ Same(q, holds'[h]) /\ (Caught(holds'[h]) => Caught(q))
      /\ \A g \in DOMAIN holds \ {h} : Same(holds[g], holds'[g])
      /\ \A g \in DOMAIN holds \ {h} : Caught(holds'[g]) => Caught(holds[g])
  BY ThenKept
<1>2. CatchesItsOwn
  <2>1. ~ Caught(holds'[h])
    BY <1>1 DEF Caught
  <2> QED
    BY <1>1, <2>1 DEF CatchesItsOwn
<1>3. order'.state \in Late => h # order.escrow
  BY DEF IInv, HoldBook, EscrowIsKnown
<1>4. order'.state \in Late => holds'[order.escrow].disposing # "cancel"
  <2> SUFFICES ASSUME order'.state \in Late PROVE holds'[order.escrow].disposing # "cancel"
    OBVIOUS
  <2>1. order.escrow \in DOMAIN holds \ {h} /\ holds[order.escrow].disposing # "cancel"
    BY <1>3 DEF IInv, HoldBook, EscrowIsKnown, OrderBook, EscrowIsThere
  <2> QED
    BY <2>1
<1>5. EscrowIsKnown'
  BY <1>1, <1>3, <1>4, OthersKnown
<1>6. EscrowIsThere'
  BY <1>1 DEF IInv, OrderBook, EscrowIsThere, Rows, Ordinary
<1>7. alerts' \subseteq Alert /\ pc' = "effects"
  BY Typed DEF Others, InEffects
<1>8. Others' /\ Progress' /\ pc' \notin {"poll", "closing"}
  BY <1>1, <1>7, EffectsOthers
<1>9. Calm
  BY <1>1, <1>6, <1>8 DEF Calm
<1> QED
  BY <1>1, <1>2, <1>5, <1>8, <1>9, Steady

LEMMA OneRow ==
  ASSUME IInv, NEW h \in DOMAIN holds, NEW q \in HoldRow, NEW hs, hs = [holds EXCEPT ![h] = q]
  PROVE  /\ Whole(hs) /\ DOMAIN hs = DOMAIN holds /\ hs[h] = q
         /\ \A g \in DOMAIN holds \ {h} : hs[g] = holds[g]
         /\ Kept(hs, hs)
<1>1. holds \in Seq(HoldRow) /\ Len(holds) <= MaxHolds
  BY Typed DEF Whole
<1>2. /\ hs \in Seq(HoldRow) /\ Len(hs) = Len(holds) /\ DOMAIN hs = DOMAIN holds
      /\ hs[h] = q /\ \A g \in DOMAIN holds \ {h} : hs[g] = holds[g]
  BY <1>1, WriteRow
<1>3. Whole(hs)
  BY <1>1, <1>2 DEF Whole
<1> QED
  BY <1>2, <1>3, Kept_Unchanged

\* A claim whose deposit came to nothing is undone from rows of which one has been written.
LEMMA RevertsFrom ==
  ASSUME IInv, order.state = "claimed", order.pendingClose = "none",
         NEW hs, Whole(hs), DOMAIN hs = DOMAIN holds,
         holds' = Reverted(hs, order), order' = Unclaimed(order)
  PROVE  /\ order' \in OrderRow /\ Undoes(order, order') /\ order'.state = "requested"
         /\ order'.escrow = 0 /\ Kept(hs, holds') /\ DOMAIN holds' = DOMAIN hs
         /\ ClaimIsReturned
<1>1. order \in OrderRow
  BY Typed
<1>2. /\ order' \in OrderRow /\ order'.state = "requested" /\ order'.sponsor = "none"
      /\ order'.escrow = 0 /\ order'.pendingClose = order.pendingClose
      /\ order'.closeReason = order.closeReason
  BY <1>1, Order_Unclaimed
<1>3. Undoes(order, order') /\ ~ Rebinds(order, order')
  BY <1>2 DEF Undoes, Rebinds
<1>4. /\ Kept(hs, holds') /\ DOMAIN holds' = DOMAIN hs
      /\ \A h \in DOMAIN hs : LiveHold(holds'[h]) /\
           (holds'[h].purpose = "escrow" \/
            (holds'[h].purpose = "sponsor" /\ holds'[h].party = order.sponsor))
           => holds'[h].disposing # "none"
  BY Kept_Reverted
<1> QED
  BY <1>2, <1>3, <1>4 DEF ClaimIsReturned

LEMMA Failed ==
  ASSUME IInv, InEffects, UNCHANGED <<pc, alerts>>,
         NEW h \in DOMAIN holds, holds[h].status = "creating",
         NEW q \in HoldRow, Ordinary(holds[h], q), q.status = "cancelled",
         NEW hs, hs = [holds EXCEPT ![h] = q], createFailed(h, hs)
  PROVE  IInv'
<1>1. /\ Whole(hs) /\ DOMAIN hs = DOMAIN holds /\ hs[h] = q
      /\ \A g \in DOMAIN holds \ {h} : hs[g] = holds[g]
      /\ Kept(hs, hs)
  BY OneRow
<1>2. q.status \in {"open", "cancelled"} /\ order \in OrderRow
  BY Typed
<1>3. CASE holds' = hs /\ UNCHANGED order
  <2>1. Stays(order, order') /\ ~ Undoes(order, order') /\ order'.escrow = order.escrow
    BY <1>3 DEF Stays, Rest, Undoes
  <2>2. ClaimIsReturned
    BY <2>1, NothingReturned
  <2>3. /\ Kept(hs, holds') /\ DOMAIN holds' = DOMAIN hs /\ order' \in OrderRow
        /\ \A g \in DOMAIN holds \ {h} : order'.state \in Late => holds'[g].disposing = holds[g].disposing
    BY <1>1, <1>2, <1>3
  <2> QED
    BY <1>2, <1>3, <2>1, <2>2, <2>3, CreateEnds DEF Move
<1>4. CASE holds' = hs /\ order.state = "draft" /\ order' = [order EXCEPT !.state = "none"]
  <2>1. order' \in OrderRow /\ order'.state = "none" /\ Rest(order, order')
    BY <1>2, <1>4, Order_State DEF OrderStates
  <2>2. Opens(order, order') /\ ~ Undoes(order, order') /\ order'.escrow = order.escrow
    BY <1>4, <2>1 DEF Opens, Rest, Early, Undoes
  <2>3. ClaimIsReturned
    BY <2>2, NothingReturned
  <2>4. order'.state \notin Late
    BY <2>1 DEF Late
  <2>5. Kept(hs, holds') /\ DOMAIN holds' = DOMAIN hs
    BY <1>1, <1>4
  <2> QED
    BY <1>2, <2>1, <2>2, <2>3, <2>4, <2>5, CreateEnds DEF Move
<1>5. CASE /\ order.state = "claimed" /\ order.pendingClose = "none"
           /\ holds' = Reverted(hs, order) /\ order' = Unclaimed(order)
  <2>1. /\ order' \in OrderRow /\ Undoes(order, order') /\ order'.state = "requested"
        /\ order'.escrow = 0 /\ Kept(hs, holds') /\ DOMAIN holds' = DOMAIN hs
        /\ ClaimIsReturned
    BY <1>1, <1>5, RevertsFrom
  <2>2. order'.state \notin Late
    BY <2>1 DEF Late
  <2> QED
    BY <1>2, <2>1, <2>2, CreateEnds DEF Move
<1>6. CASE /\ holds' = hs /\ order.state = "claimed" /\ order.escrow = h
           /\ order' = [order EXCEPT !.escrow = 0]
  <2>1. /\ order' \in OrderRow /\ order'.escrow = 0 /\ order'.state = order.state
        /\ order'.sponsor = order.sponsor /\ order'.pendingClose = order.pendingClose
        /\ order'.closeReason = order.closeReason
    BY <1>2, <1>6, Order_Escrow, LnTradeAssumption
  <2>2. Rebinds(order, order') /\ ~ Undoes(order, order')
    BY <1>6, <2>1 DEF Rebinds, Undoes
  <2>3. ClaimIsReturned
    BY <1>1, <1>6, <2>2 DEF ClaimIsReturned, Caught
  <2>4. order'.state \notin Late
    BY <1>6, <2>1 DEF Late
  <2>5. Kept(hs, holds') /\ DOMAIN holds' = DOMAIN hs
    BY <1>1, <1>6
  <2> QED
    BY <1>2, <2>1, <2>2, <2>3, <2>4, <2>5, CreateEnds DEF Move
<1>7. q.purpose \in {"customer", "sponsor", "escrow"}
  BY DEF HoldRow
<1>8. CASE q.purpose = "customer"
  BY <1>1, <1>3, <1>4, <1>8 DEF createFailed
<1>9. CASE q.purpose = "sponsor"
  BY <1>1, <1>3, <1>5, <1>9 DEF createFailed
<1>10. CASE q.purpose = "escrow"
  BY <1>1, <1>3, <1>6, <1>10 DEF createFailed
<1> QED
  BY <1>7, <1>8, <1>9, <1>10

LEMMA Made ==
  ASSUME IInv, InEffects, UNCHANGED <<pc, alerts>>,
         NEW h \in DOMAIN holds, holds[h].status = "creating",
         NEW q \in HoldRow, Ordinary(holds[h], q), q.status = "open",
         NEW hs, hs = [holds EXCEPT ![h] = q], created(h, hs)
  PROVE  IInv'
<1>1. /\ Whole(hs) /\ DOMAIN hs = DOMAIN holds /\ hs[h] = q
      /\ \A g \in DOMAIN holds \ {h} : hs[g] = holds[g]
      /\ Kept(hs, hs)
  BY OneRow
<1>2. q.status \in {"open", "cancelled"} /\ order \in OrderRow
  BY Typed
<1>3. CASE UNCHANGED order /\ (holds' = hs \/ holds' = Disposed(hs, {h}, "cancel"))
  <2>1. Stays(order, order') /\ ~ Undoes(order, order') /\ order'.escrow = order.escrow
    BY <1>3 DEF Stays, Rest, Undoes
  <2>2. ClaimIsReturned
    BY <2>1, NothingReturned
  <2>3. /\ Kept(hs, holds') /\ DOMAIN holds' = DOMAIN hs /\ order' \in OrderRow
        /\ \A g \in DOMAIN holds \ {h} : holds'[g].disposing = holds[g].disposing
    <3>1. CASE holds' = hs
      BY <1>1, <1>2, <1>3, <3>1
    <3>2. CASE holds' = Disposed(hs, {h}, "cancel")
      <4>0. Whole(hs)
        BY <1>1
      <4>1. /\ Kept(hs, holds') /\ DOMAIN holds' = DOMAIN hs
            /\ \A g \in DOMAIN hs \ {h} : holds'[g].disposing = hs[g].disposing
        BY <4>0, <3>2, Kept_Disposed, Zenon
      <4> QED
        BY <1>1, <1>2, <1>3, <4>1
    <3> QED
      BY <1>3, <3>1, <3>2
  <2> QED
    BY <1>2, <1>3, <2>1, <2>2, <2>3, CreateEnds DEF Move
<1>4. CASE /\ holds' = hs /\ order.state = "claimed" /\ order.pendingClose = "none"
           /\ order' = [order EXCEPT !.state = "verified"]
  <2>1. order' \in OrderRow /\ order'.state = "verified" /\ Rest(order, order')
    BY <1>2, <1>4, Order_State DEF OrderStates, OrderState
  <2>2. GoesOn(order, order') /\ ~ Undoes(order, order') /\ order'.escrow = order.escrow
    BY <1>4, <2>1 DEF GoesOn, Rest, Undoes
  <2>3. ClaimIsReturned
    BY <2>2, NothingReturned
  <2>4. order'.state \notin Late
    BY <2>1 DEF Late
  <2>5. Kept(hs, holds') /\ DOMAIN holds' = DOMAIN hs
    BY <1>1, <1>4
  <2> QED
    BY <1>2, <2>1, <2>2, <2>3, <2>4, <2>5, CreateEnds DEF Move
<1>5. q.purpose \in {"customer", "sponsor", "escrow"}
  BY DEF HoldRow
<1>6. CASE Wanted(q, h) /\ q.purpose = "escrow"
  <2>1. order.state = "claimed" /\ order.pendingClose = "none"
    BY <1>6 DEF Wanted
  <2> QED
    BY <1>1, <1>4, <1>6, <2>1 DEF created
<1>7. CASE ~ (Wanted(q, h) /\ q.purpose = "escrow")
  BY <1>1, <1>3, <1>7 DEF created
<1> QED
  BY <1>6, <1>7

LEMMA Creates ==
  ASSUME IInv, NEW h \in DOMAIN holds, HoldCreate(h) PROVE IInv'
<1> DEFINE r == holds[h]
           Row(node, status) == CreatedRow(r, status, node)
           After(node, status) == [holds EXCEPT ![h] = Row(node, status)]
<1>1. /\ InEffects /\ UNCHANGED <<pc, alerts>>
      /\ \/ /\ r.status # "creating"
            /\ holds' = After(settleOrCancel(r, "cancel"), r.status) /\ UNCHANGED order
         \/ /\ r.status = "creating" /\ r.node = "absent"
            /\ createFailed(h, After("absent", "cancelled"))
         \/ /\ r.status = "creating" /\ r.node = "absent"
            /\ created(h, After("open", "open"))
         \/ /\ r.status = "creating" /\ r.node # "absent"
            /\ created(h, After(r.node, "open"))
  BY DEF HoldCreate, CreatedRow
<1>2. r \in HoldRow /\ r.status \in Statuses /\ r.node \in NodeStates
  BY RowOf DEF HoldRow, Statuses, NodeStates
<1>3. Truthful(r)
  BY DEF IInv, HoldBook, FinalIsTrue
<1> HIDE DEF r
<1>4. ASSUME NEW node \in NodeStates, NEW status \in Statuses
      PROVE  /\ Row(node, status) \in HoldRow /\ Row(node, status).status = status
             /\ Row(node, status).node = node /\ Row(node, status).disposing = r.disposing
             /\ Row(node, status).purpose = r.purpose /\ Row(node, status).party = r.party
  BY <1>2, Became_Ends
<1> HIDE DEF Row
<1>5. CASE /\ r.status # "creating" /\ UNCHANGED order
           /\ holds' = After(settleOrCancel(r, "cancel"), r.status)
  <2> DEFINE n == settleOrCancel(r, "cancel")
             q == Row(n, r.status)
  <2>1. n \in NodeStates /\ (n = "settled" <=> r.node = "settled") /\ (n = r.node \/ n = "cancelled")
    BY <1>2 DEF settleOrCancel, NodeStates
  <2>2. /\ q \in HoldRow /\ q.status = r.status /\ q.node = n /\ q.disposing = r.disposing
        /\ q.purpose = r.purpose /\ q.party = r.party
    BY <1>2, <1>4, <2>1
  <2>3. holds' = [holds EXCEPT ![h] = q]
    BY <1>5
  <2> HIDE DEF n, q
  <2>4. Ordinary(r, q) /\ (Caught(q) => Caught(r))
    BY <1>3, <2>1, <2>2 DEF Ordinary, Truthful, LiveHold, Asked, Caught
  <2>5. /\ Whole(holds') /\ DOMAIN holds' = DOMAIN holds /\ holds'[h] = q
        /\ \A g \in DOMAIN holds \ {h} : holds'[g] = holds[g]
        /\ Kept(holds', holds')
    BY <2>2, <2>3, OneRow
  <2>6. /\ Rows(holds, holds')
        /\ \A g \in DOMAIN holds \ {h} : Caught(holds'[g]) => Caught(holds[g])
    BY <2>2, <2>3, <2>4, <2>5, ThenKept DEF r
  <2>7. \A g \in DOMAIN holds : Caught(holds'[g]) => Caught(holds[g])
    BY <2>4, <2>5, <2>6 DEF r
  <2>8. \A g \in DOMAIN holds : holds'[g].status = holds[g].status
                                /\ holds'[g].disposing = holds[g].disposing
    BY <2>2, <2>5 DEF r
  <2>9. EscrowIsKnown'
    BY <1>1, <1>5, <2>8 DEF IInv, HoldBook, EscrowIsKnown, OrderBook, EscrowIsThere
  <2>10. alerts' \subseteq Alert /\ pc' = "effects"
    BY <1>1, Typed DEF Others, InEffects
  <2>11. Others' /\ Progress' /\ pc' \notin {"poll", "closing"}
    BY <1>1, <2>5, <2>10, EffectsOthers
  <2> QED
    BY <1>1, <1>5, <2>5, <2>6, <2>7, <2>9, <2>11, RowsOnly
<1>6. CASE /\ r.status = "creating" /\ r.node = "absent"
           /\ createFailed(h, After("absent", "cancelled"))
  <2> DEFINE q == Row("absent", "cancelled")
  <2>1. /\ q \in HoldRow /\ q.status = "cancelled" /\ q.node = "absent" /\ q.disposing = r.disposing
        /\ q.purpose = r.purpose /\ q.party = r.party
    BY <1>4 DEF NodeStates, Statuses
  <2>2. createFailed(h, [holds EXCEPT ![h] = q])
    BY <1>6
  <2> HIDE DEF q
  <2>3. Ordinary(r, q)
    BY <1>6, <2>1 DEF Ordinary, Truthful, LiveHold, Asked
  <2> QED
    BY <1>1, <1>6, <2>1, <2>2, <2>3, Failed DEF r
<1>7. CASE /\ r.status = "creating" /\ r.node = "absent"
           /\ created(h, After("open", "open"))
  <2> DEFINE q == Row("open", "open")
  <2>1. /\ q \in HoldRow /\ q.status = "open" /\ q.node = "open" /\ q.disposing = r.disposing
        /\ q.purpose = r.purpose /\ q.party = r.party
    BY <1>4 DEF NodeStates, Statuses
  <2>2. created(h, [holds EXCEPT ![h] = q])
    BY <1>7
  <2> HIDE DEF q
  <2>3. Ordinary(r, q)
    BY <1>7, <2>1 DEF Ordinary, Truthful, LiveHold, Asked
  <2> QED
    BY <1>1, <1>7, <2>1, <2>2, <2>3, Made DEF r
<1>8. CASE r.status = "creating" /\ created(h, After(r.node, "open"))
  <2> DEFINE q == Row(r.node, "open")
  <2>1. /\ q \in HoldRow /\ q.status = "open" /\ q.node = r.node /\ q.disposing = r.disposing
        /\ q.purpose = r.purpose /\ q.party = r.party
    BY <1>2, <1>4 DEF Statuses
  <2>2. created(h, [holds EXCEPT ![h] = q])
    BY <1>8
  <2> HIDE DEF q
  <2>3. Ordinary(r, q)
    BY <1>8, <2>1 DEF Ordinary, Truthful, LiveHold, Asked
  <2> QED
    BY <1>1, <1>8, <2>1, <2>2, <2>3, Made DEF r
<1> QED
  BY <1>1, <1>5, <1>6, <1>7, <1>8

\* What settleOrCancel leaves at the node; only a settle of what is held settles.
LEMMA SettleOrCancel ==
  ASSUME NEW r \in HoldRow, NEW want
  PROVE  /\ settleOrCancel(r, want) \in NodeStates
         /\ settleOrCancel(r, want) \notin {"open", "accepted"}
         /\ settleOrCancel(r, want) \in {r.node, "settled", "cancelled"}
         /\ r.node \in {"absent", "settled", "cancelled"} => settleOrCancel(r, want) = r.node
         /\ settleOrCancel(r, want) = "settled" /\ r.node # "settled" =>
              want = "settle" /\ r.node = "accepted"
         /\ want = "settle" /\ r.node \in {"accepted", "settled"} => settleOrCancel(r, want) = "settled"
<1>1. r.node \in {"absent", "open", "accepted", "settled", "cancelled"}
  BY DEF HoldRow
<1> QED
  BY <1>1 DEF settleOrCancel, NodeStates

\* The safety settle at work on the order's escrow.
LEMMA EscrowIsTaken ==
  ASSUME IInv, UNCHANGED order, Others', pc' \notin {"poll", "closing"},
         NEW h \in DOMAIN holds, holds[h].disposing = "settle",
         NEW q \in HoldRow, holds' = [holds EXCEPT ![h] = q],
         q.purpose = holds[h].purpose, q.party = holds[h].party,
         q.node = settleOrCancel(holds[h], "settle"), Truthful(q),
         \/ q.disposing = "settle" /\ q.status = holds[h].status
         \/ q.disposing = "none" /\ q.status = FinalOf(q.node),
         EscrowIsKnown', alerts \subseteq alerts', "unexpected-settle" \notin alerts' \ alerts
  PROVE  IInv'
<1>1. h = order.escrow /\ order.state \in {"remitted", "paid", "sponsor_wins", "customer_wins"}
  BY DEF IInv, HoldBook, OnlyEscrowIsAsked
<1>2. h \in 1..MaxHolds /\ h # 0 /\ holds[h] \in HoldRow
  BY RowOf
<1>3. holds[h].purpose = "escrow"
  BY <1>1, <1>2 DEF IInv, OrderBook, EscrowIsThere
<1>4. /\ Whole(holds') /\ DOMAIN holds' = DOMAIN holds /\ holds'[h] = q
      /\ \A g \in DOMAIN holds \ {h} : holds'[g] = holds[g]
  BY OneRow
<1>5. TypeOK'
  BY <1>4, Typed DEF TypeOK, Others, Whole
<1>6. OrderBook'
  BY <1>4 DEF IInv, OrderBook, EscrowIsThere, CloseIsLegal, ReasonIsKept, NobodyYet, MovesTo
<1>7. /\ q.node \notin {"open", "accepted"}
      /\ holds[h].node \in {"absent", "settled", "cancelled"} => q.node = holds[h].node
  BY <1>2, SettleOrCancel
<1>8. q.disposing = "none" => q.status \in {"settled", "cancelled"} /\ (q.node = "settled" => q.status = "settled")
  BY DEF FinalOf
<1>9. order.state \in Terminal => q.node = holds[h].node
  <2> SUFFICES ASSUME order.state \in Terminal PROVE q.node = holds[h].node
    OBVIOUS
  <2>1. ~ LiveHold(holds[h]) /\ Truthful(holds[h])
    BY DEF IInv, HoldBook, EndedIsClosed, FinalIsTrue
  <2>2. holds[h].node \in {"absent", "settled", "cancelled"}
    BY <1>2, <2>1 DEF LiveHold, Truthful, HoldRow
  <2> QED
    BY <1>7, <2>2
<1>10. HoldBook'
  <2>1. FinalIsTrue'
    BY <1>4 DEF IInv, HoldBook, FinalIsTrue
  <2>2. OnlyEscrowIsAsked'
    BY <1>1, <1>4 DEF IInv, HoldBook, OnlyEscrowIsAsked
  <2>3. SettlesAreOurs'
    BY <1>4, <1>8 DEF IInv, HoldBook, SettlesAreOurs
  <2>4. EndedIsClosed'
    <3> SUFFICES ASSUME order.state \in Terminal, NEW g \in DOMAIN holds
                 PROVE  ~ LiveHold(holds'[g])
      BY <1>4 DEF EndedIsClosed
    <3>1. ~ LiveHold(holds[g]) /\ ~ LiveHold(holds[h])
      BY DEF IInv, HoldBook, EndedIsClosed
    <3> QED
      BY <1>4, <1>8, <3>1 DEF LiveHold
  <2> QED
    BY <2>1, <2>2, <2>3, <2>4 DEF HoldBook
<1>11. PayoutBacked'
  <2> SUFFICES ASSUME order.state \in {"paid", "sponsor_wins"}
               PROVE  order.escrow # 0 /\ holds'[order.escrow].node = "settled"
    BY DEF PayoutBacked
  <2>1. holds[h].node = "settled"
    BY <1>1 DEF IInv, Promises, PayoutBacked
  <2> QED
    BY <1>1, <1>2, <1>4, <1>7, <2>1
<1>12. NoFalseAlarm'
  BY DEF IInv, Promises, NoFalseAlarm
<1>13. EscrowTakenForCause'
  <2> SUFFICES ASSUME NEW g \in DOMAIN holds, holds'[g].purpose = "escrow",
                      holds'[g].node = "settled"
               PROVE  /\ g = order.escrow
                      /\ \/ order.state \in {"remitted", "paid", "sponsor_wins"}
                         \/ order.state = "invoiced" /\ order.pendingClose = "paid"
                         \/ order.state = "customer_wins" /\ "refund-manually" \in alerts'
    BY <1>4 DEF EscrowTakenForCause, Escrow
  <2>1. g # h => holds[g].purpose = "escrow" /\ holds[g].node = "settled"
    BY <1>4
  <2>2. g = h
    BY <2>1, <1>1 DEF IInv, Promises, EscrowTakenForCause, Escrow
  <2>3. CASE order.state # "customer_wins"
    BY <1>1, <2>2, <2>3
  <2>4. CASE order.state = "customer_wins"
    <3>1. holds[h].node = "settled"
      BY <1>4, <1>9, <2>2, <2>4, TerminalStates
    <3>2. "refund-manually" \in alerts
      BY <1>3, <2>4, <3>1 DEF IInv, Promises, EscrowTakenForCause, Escrow
    <3> QED
      BY <1>1, <2>2, <2>4, <3>2
  <2> QED
    BY <2>3, <2>4
<1>14. ForfeitOnlyByRule'
  <2>1. Reason' = Reason /\ ForfeitOnlyByRule
    BY DEF Reason, IInv, Promises, MoneyByRule
  <2> SUFFICES ASSUME NEW g \in DOMAIN holds, holds'[g].purpose # "escrow",
                      holds'[g].node = "settled"
               PROVE  /\ Reason' # "none"
                      /\ IF holds'[g].purpose = "customer"
                         THEN CLOSE_RULES[Reason'].customerDeposit = "forfeit"
                         ELSE /\ CLOSE_RULES[Reason'].sponsorDeposit = "forfeit"
                              /\ holds'[g].party = order'.sponsor
    BY <1>4 DEF ForfeitOnlyByRule, Escrow
  <2>2. g # h /\ holds'[g] = holds[g]
    BY <1>3, <1>4
  <2>3. /\ Reason # "none"
        /\ IF holds[g].purpose = "customer"
           THEN CLOSE_RULES[Reason].customerDeposit = "forfeit"
           ELSE /\ CLOSE_RULES[Reason].sponsorDeposit = "forfeit"
                /\ holds[g].party = order.sponsor
    BY <2>1, <2>2 DEF ForfeitOnlyByRule, Escrow
  <2> QED
    BY <2>1, <2>2, <2>3
<1>15. NoStrayMoney'
  <2>1. ~ Caught(q)
    BY <1>8 DEF Caught
  <2> SUFFICES ASSUME NEW g \in DOMAIN holds, Caught(holds'[g])
               PROVE  /\ order'.state \in OrderState \ Terminal
                      /\ holds'[g].purpose = "escrow" => g = order'.escrow
                      /\ holds'[g].purpose = "sponsor" => holds'[g].party = order'.sponsor
    BY <1>4 DEF NoStrayMoney, Caught, Escrow
  <2>2. holds'[g] = holds[g]
    BY <1>4, <2>1
  <2>3. /\ order.state \in OrderState \ Terminal
        /\ holds[g].purpose = "escrow" => g = order.escrow
        /\ holds[g].purpose = "sponsor" => holds[g].party = order.sponsor
    BY <2>2 DEF IInv, Promises, MoneyByRule, NoStrayMoney, Escrow, Caught
  <2> QED
    BY <2>2, <2>3
<1>16. Promises'
  BY <1>11, <1>12, <1>13, <1>14, <1>15 DEF Promises, MoneyByRule
<1> QED
  BY <1>5, <1>6, <1>10, <1>16, Elsewhere DEF IInv

\* A refund at work on any row.
LEMMA RefundIsMade ==
  ASSUME IInv, UNCHANGED order, Others', pc' \notin {"poll", "closing"},
         NEW h \in DOMAIN holds, holds[h].disposing = "cancel",
         NEW q \in HoldRow, holds' = [holds EXCEPT ![h] = q],
         q.purpose = holds[h].purpose, q.party = holds[h].party,
         q.node = settleOrCancel(holds[h], "cancel"),
         \/ q.disposing = "cancel" /\ q.status = holds[h].status
         \/ q.disposing = "none" /\ q.status = FinalOf(q.node),
         alerts \subseteq alerts', "unexpected-settle" \notin alerts' \ alerts
  PROVE  IInv'
<1> DEFINE r == holds[h]
<1>1. r \in HoldRow /\ Truthful(r)
  BY RowOf DEF IInv, HoldBook, FinalIsTrue
<1>2. order.state \in Late => h # order.escrow
  BY DEF IInv, HoldBook, EscrowIsKnown
<1>3. /\ q.node \in NodeStates /\ q.node \notin {"open", "accepted"}
      /\ q.node = "settled" => r.node = "settled"
      /\ r.node \in {"absent", "settled", "cancelled"} => q.node = r.node
  BY <1>1, SettleOrCancel
<1>4. q.node = "settled" <=> r.node = "settled"
  BY <1>3
<1> HIDE DEF r
<1>5. Truthful(q)
  <2>1. CASE q.status = r.status
    BY <1>1, <1>3, <2>1 DEF Truthful
  <2>2. CASE q.status = FinalOf(q.node)
    BY <1>3, <2>2 DEF Truthful, FinalOf, NodeStates
  <2> QED
    BY <2>1, <2>2 DEF r
<1>6. LiveHold(q) => q.status = r.status
  BY DEF LiveHold, FinalOf, r
<1>7. ~ Asked(q) /\ ~ Caught(q) /\ q.disposing # "settle"
  BY <1>3 DEF Asked, Caught, FinalOf, NodeStates
<1>8. Ordinary(r, q)
  BY <1>4, <1>5, <1>6, <1>7 DEF Ordinary, LiveHold, r
<1>9. /\ Whole(holds') /\ DOMAIN holds' = DOMAIN holds /\ holds'[h] = q
      /\ \A g \in DOMAIN holds \ {h} : holds'[g] = holds[g]
      /\ Kept(holds', holds')
  BY OneRow
<1>10. /\ Rows(holds, holds')
       /\ \A g \in DOMAIN holds \ {h} : Caught(holds'[g]) => Caught(holds[g])
       /\ \A g \in DOMAIN holds \ {h} : Same(holds[g], holds'[g])
  BY <1>8, <1>9, ThenKept DEF r
<1>11. \A g \in DOMAIN holds : Caught(holds'[g]) => Caught(holds[g])
  BY <1>7, <1>9, <1>10
<1>12. EscrowIsKnown'
  <2>1. order'.state \in Late => holds'[order.escrow].disposing # "cancel"
    <3> SUFFICES ASSUME order.state \in Late PROVE holds'[order.escrow].disposing # "cancel"
      OBVIOUS
    <3>1. order.escrow \in DOMAIN holds \ {h} /\ holds[order.escrow].disposing # "cancel"
      BY <1>2 DEF IInv, HoldBook, EscrowIsKnown, OrderBook, EscrowIsThere
    <3> QED
      BY <1>9, <3>1
  <2> QED
    BY <1>2, <1>10, <2>1, OthersKnown
<1> QED
  BY <1>9, <1>10, <1>11, <1>12, Elsewhere, RowsOnly

\* hold.dispose has run, its answer is lost.
LEMMA DisposeLost ==
  ASSUME IInv, NEW h \in DOMAIN holds, HoldDisposeLost(h) PROVE IInv'
<1> DEFINE r == holds[h]
           n == settleOrCancel(r, r.disposing)
           q == [r EXCEPT !.node = n]
<1>1. AnswerLost /\ r.disposing # "none" /\ holds' = [holds EXCEPT ![h].node = n]
  BY DEF HoldDisposeLost
<1>2. r \in HoldRow /\ r.disposing \in {"settle", "cancel"}
  BY <1>1, RowOf DEF HoldRow, Maybe
<1>3. Truthful(r)
  BY DEF IInv, HoldBook, FinalIsTrue
<1>4. n \in NodeStates /\ (r.node \in {"absent", "settled", "cancelled"} => n = r.node)
  BY <1>2, SettleOrCancel
<1> HIDE DEF n
<1>5. q \in HoldRow /\ q.purpose = r.purpose /\ q.party = r.party
      /\ q.status = r.status /\ q.node = n /\ q.disposing = r.disposing
  BY <1>2, <1>4, Row_Node
<1>6. holds' = [holds EXCEPT ![h] = q]
  BY <1>1
<1> HIDE DEF q
<1>7. DOMAIN holds' = DOMAIN holds
  BY <1>6
<1>8. Others' /\ Progress' /\ pc' \notin {"poll", "closing"} /\ UNCHANGED <<order, alerts>>
  BY <1>1, <1>7, LostOthers
<1>9. CASE r.disposing = "cancel"
  <2>1. q.node = settleOrCancel(holds[h], "cancel")
    BY <1>5, <1>9 DEF n
  <2> QED
    BY <1>5, <1>6, <1>8, <1>9, <2>1, RefundIsMade DEF r
<1>10. CASE r.disposing = "settle"
  <2>1. q.node = settleOrCancel(holds[h], "settle")
    BY <1>5, <1>10 DEF n
  <2>2. Truthful(q)
    BY <1>3, <1>4, <1>5 DEF Truthful
  <2>3. /\ holds'[h] = q
        /\ \A g \in DOMAIN holds \ {h} : holds'[g] = holds[g]
    BY <1>5, <1>6, OneRow
  <2>4. EscrowIsKnown'
    BY <1>5, <1>8, <2>3 DEF IInv, HoldBook, EscrowIsKnown, OrderBook, EscrowIsThere, r
  <2> QED
    BY <1>5, <1>6, <1>8, <1>10, <2>1, <2>2, <2>4, EscrowIsTaken DEF r
<1> QED
  BY <1>2, <1>9, <1>10

LEMMA Disposes ==
  ASSUME IInv, NEW h \in DOMAIN holds, HoldDispose(h) PROVE IInv'
<1> DEFINE r == holds[h]
           n == settleOrCancel(r, r.disposing)
           f == FinalOf(n)
           q == DisposedRow(r, f, n)
<1>1. /\ InEffects /\ r.disposing # "none" /\ holds' = [holds EXCEPT ![h] = q]
      /\ alerts' = IF SettleMissed(r, f) THEN alerts \cup {"settle-missed"} ELSE alerts
      /\ UNCHANGED <<order, pc>>
  BY DEF HoldDispose, DisposedRow
<1>2. r \in HoldRow /\ r.disposing \in {"settle", "cancel"}
  BY <1>1, RowOf DEF HoldRow, Maybe
<1>3. n \in NodeStates
  BY <1>2, SettleOrCancel
<1>4. f \in {"settled", "cancelled"} /\ f \in Statuses /\ (f = "settled" <=> n = "settled")
  BY DEF FinalOf, Statuses
<1>5. n \notin {"open", "accepted"}
  BY <1>2, SettleOrCancel
<1> HIDE DEF n, f
<1>6. /\ q \in HoldRow /\ q.status = f /\ q.node = n /\ q.disposing = "none"
      /\ q.purpose = r.purpose /\ q.party = r.party
  BY <1>2, <1>3, <1>4, Became_Ends
<1> HIDE DEF q
<1>7. /\ holds'[h] = q /\ DOMAIN holds' = DOMAIN holds
      /\ \A g \in DOMAIN holds \ {h} : holds'[g] = holds[g]
  BY <1>1, <1>6, OneRow
<1>8. alerts \subseteq alerts' /\ "unexpected-settle" \notin alerts' \ alerts /\ alerts' \subseteq Alert
  BY <1>1, Typed DEF Others, Alert
<1>9. Others' /\ pc' \notin {"poll", "closing"}
  BY <1>1, <1>7, <1>8, EffectsOthers DEF InEffects
<1>10. q.status = FinalOf(q.node)
  BY <1>6 DEF f
<1>11. CASE r.disposing = "cancel"
  <2>1. q.node = settleOrCancel(holds[h], "cancel")
    BY <1>6, <1>11 DEF n
  <2> QED
    BY <1>1, <1>6, <1>8, <1>9, <1>10, <1>11, <2>1, RefundIsMade DEF r
<1>12. CASE r.disposing = "settle"
  <2>1. q.node = settleOrCancel(holds[h], "settle")
    BY <1>6, <1>12 DEF n
  <2>2. Truthful(q)
    BY <1>3, <1>4, <1>5, <1>6 DEF Truthful, NodeStates
  <2>3. EscrowIsKnown'
    <3> SUFFICES ASSUME order.state \in Late
                 PROVE  /\ order.escrow # 0
                        /\ holds'[order.escrow].status \in {"accepted", "settled", "cancelled"}
                        /\ holds'[order.escrow].disposing # "cancel"
                        /\ holds'[order.escrow].status = "cancelled" => alerts' \cap Calls # {}
      BY <1>1 DEF EscrowIsKnown
    <3>1. h = order.escrow
      BY <1>12 DEF IInv, HoldBook, OnlyEscrowIsAsked, r
    <3>2. ASSUME f = "cancelled" PROVE alerts' \cap Calls # {}
      <4>1. CASE r.status = "cancelled"
        BY <1>8, <3>1, <4>1 DEF IInv, HoldBook, EscrowIsKnown, r
      <4>2. CASE r.status # "cancelled"
        BY <1>1, <1>12, <3>2, <4>2 DEF SettleMissed, Calls
      <4> QED
        BY <4>1, <4>2
    <3>3. order.escrow # 0
      BY DEF IInv, HoldBook, EscrowIsKnown
    <3> QED
      BY <1>4, <1>6, <1>7, <3>1, <3>2, <3>3
  <2> QED
    BY <1>1, <1>6, <1>8, <1>9, <1>10, <1>12, <2>1, <2>2, <2>3, EscrowIsTaken DEF r
<1> QED
  BY <1>2, <1>11, <1>12

-----------------------------------------------------------------------------
(* The poll.                                                                *)

Polls(h) == /\ pc = "poll" /\ h \in todo /\ todo' = todo \ {h}
            /\ UNCHANGED <<pc, time, seenLife, heightOk, remit>>

LEMMA PollWrites ==
  ASSUME IInv, NEW h \in DOMAIN holds, Polls(h),
         NEW q \in HoldRow, Ordinary(holds[h], q),
         NEW hs, hs = [holds EXCEPT ![h] = q], Kept(hs, holds'), DOMAIN holds' = DOMAIN hs,
         order' \in OrderRow, Move(order, order'), order'.escrow \in {0, order.escrow},
         ClaimIsReturned, EscrowIsKnown', Caught(holds'[h]) => Belongs(h)',
         alerts \subseteq alerts', alerts' \subseteq Alert, "unexpected-settle" \notin alerts' \ alerts
  PROVE  IInv'
<1>1. /\ Whole(holds') /\ DOMAIN holds' = DOMAIN holds /\ Rows(holds, holds')
      /\ \A g \in DOMAIN holds \ {h} : Same(holds[g], holds'[g])
      /\ \A g \in DOMAIN holds \ {h} : Caught(holds'[g]) => Caught(holds[g])
  BY ThenKept
<1>2. CatchesItsOwn
  BY <1>1 DEF CatchesItsOwn
<1>3. EscrowIsThere'
  BY <1>1 DEF IInv, OrderBook, EscrowIsThere, Rows, Ordinary
<1>4. pc = "poll" /\ pc' = "poll" /\ todo' = todo \ {h}
  BY DEF Polls
<1>5. Others'
  BY <1>1, <1>4, Typed DEF Others, time, Polls
<1>6. Progress'
  <2>1. \A g \in todo : g \in DOMAIN holds /\ holds[g].status \in {"open", "accepted"}
    BY <1>4, Typed DEF IInv, Progress, PollIsOfOpen, Others
  <2>2. \A g \in todo' : holds'[g].status = holds[g].status
    BY <1>1, <1>4, <2>1 DEF Same
  <2> QED
    BY <1>4, <2>1, <2>2 DEF Progress, CloseGoesOn, PollIsOfOpen
<1>7. Calm
  BY <1>1, <1>3, <1>4 DEF Calm
<1> QED
  BY <1>1, <1>2, <1>5, <1>6, <1>7, Steady

\* A row that became accepted or cancelled at the node, and the hook that follows.
LEMMA PollRow ==
  ASSUME IInv, NEW h \in DOMAIN holds, ~ PollDefers(h), holds[h].status \in {"open", "accepted"},
         NEW s \in {"accepted", "cancelled"}, holds[h].node = s, holds[h].status # s
  PROVE  /\ Became(holds[h], s) \in HoldRow /\ Ordinary(holds[h], Became(holds[h], s))
         /\ Became(holds[h], s).status = s /\ Became(holds[h], s).disposing = "none"
         /\ Became(holds[h], s).purpose = holds[h].purpose
         /\ Became(holds[h], s).party = holds[h].party
<1> DEFINE r == holds[h]
           q == Became(r, s)
<1>1. r \in HoldRow /\ s \in Statuses
  BY RowOf DEF Statuses
<1>2. /\ q \in HoldRow /\ q.status = s /\ q.purpose = r.purpose /\ q.party = r.party
      /\ q.node = r.node /\ q.disposing = r.disposing
  BY <1>1, Became_Row
<1>3. r.disposing = "none" /\ r.node = s /\ r.status \in {"open", "accepted"}
  BY DEF PollDefers
<1> HIDE DEF q, r
<1>4. Ordinary(r, q)
  BY <1>2, <1>3 DEF Ordinary, Truthful, LiveHold, Asked
<1> QED
  BY <1>2, <1>3, <1>4 DEF q, r

LEMMA PollAccepts ==
  ASSUME IInv, NEW h \in DOMAIN holds, Polls(h), ~ PollDefers(h),
         holds[h].status = "open", holds[h].node = "accepted", UNCHANGED alerts,
         NEW hs, hs = [holds EXCEPT ![h] = Became(holds[h], "accepted")], accepted(h, hs)
  PROVE  IInv'
<1> DEFINE q == Became(holds[h], "accepted")
<1>1. /\ q \in HoldRow /\ Ordinary(holds[h], q) /\ q.status = "accepted" /\ q.disposing = "none"
      /\ q.purpose = holds[h].purpose /\ q.party = holds[h].party
  BY PollRow
<1>2. hs = [holds EXCEPT ![h] = q]
  OBVIOUS
<1> HIDE DEF q
<1>3. /\ Whole(hs) /\ DOMAIN hs = DOMAIN holds /\ hs[h] = q
      /\ \A g \in DOMAIN holds \ {h} : hs[g] = holds[g]
      /\ Kept(hs, hs)
  BY <1>1, <1>2, OneRow
<1>4. order \in OrderRow /\ order.pendingClose = "none" /\ h \in 0..MaxHolds /\ h # 0
      /\ alerts \subseteq Alert
  BY Typed, RowOf DEF PollDefers, Others
<1>5. order.state \in Late => h # order.escrow
  BY DEF IInv, HoldBook, EscrowIsKnown
<1>6. order.state \notin Terminal
  BY DEF IInv, HoldBook, EndedIsClosed, LiveHold
<1>7. ASSUME UNCHANGED order, holds' = Disposed(hs, {h}, "cancel")
      PROVE  IInv'
  <2>0. Whole(hs)
    BY <1>3
  <2>1. /\ Kept(hs, holds') /\ DOMAIN holds' = DOMAIN hs
        /\ \A g \in DOMAIN hs \ {h} : holds'[g].disposing = hs[g].disposing
    BY <1>7, <2>0, Kept_Disposed, Zenon
  <2>2. ~ Caught(holds'[h])
    BY <1>3, <1>7 DEF Disposed, Caught
  <2>3. Stays(order, order') /\ ~ Undoes(order, order') /\ order'.escrow = order.escrow
    BY <1>7 DEF Stays, Rest, Undoes
  <2>4. ClaimIsReturned
    BY <2>3, NothingReturned
  <2>5. /\ Rows(holds, holds')
        /\ \A g \in DOMAIN holds \ {h} : Same(holds[g], holds'[g])
    BY <1>1, <1>2, <2>1, ThenKept
  <2>6. order'.state \in Late => holds'[order.escrow].disposing # "cancel"
    <3> SUFFICES ASSUME order.state \in Late PROVE holds'[order.escrow].disposing # "cancel"
      BY <1>7
    <3>1. order.escrow \in DOMAIN holds \ {h} /\ holds[order.escrow].disposing # "cancel"
      BY <1>5 DEF IInv, HoldBook, EscrowIsKnown, OrderBook, EscrowIsThere
    <3> QED
      BY <1>3, <2>1, <3>1
  <2>7. EscrowIsKnown'
    BY <1>5, <1>7, <2>5, <2>6, OthersKnown
  <2> QED
    BY <1>1, <1>2, <1>4, <1>7, <2>1, <2>2, <2>3, <2>4, <2>7, PollWrites DEF Move
<1>8. ASSUME holds' = hs, order' \in OrderRow, Move(order, order'), ~ Undoes(order, order'),
             order'.escrow = order.escrow, order'.state \in OrderState \ Terminal,
             holds[h].purpose = "escrow" => h = order.escrow,
             holds[h].purpose = "sponsor" => holds[h].party = order'.sponsor,
             \/ order'.state \in Late => order' = order /\ h # order.escrow
             \/ h = order.escrow
      PROVE  IInv'
  <2>1. Belongs(h)'
    BY <1>1, <1>3, <1>8 DEF Belongs
  <2>2. ClaimIsReturned
    BY <1>8, NothingReturned
  <2>3. Kept(hs, holds') /\ DOMAIN holds' = DOMAIN hs
    BY <1>3, <1>8
  <2>4. /\ Rows(holds, holds')
        /\ \A g \in DOMAIN holds \ {h} : Same(holds[g], holds'[g])
    BY <1>1, <1>2, <2>3, ThenKept
  <2>5. EscrowIsKnown'
    <3>1. CASE h = order.escrow
      BY <1>1, <1>3, <1>4, <1>8, <3>1 DEF EscrowIsKnown
    <3>2. CASE order'.state \in Late => order' = order /\ h # order.escrow
      <4>1. order'.state \in Late => holds'[order.escrow].disposing # "cancel"
        <5> SUFFICES ASSUME order'.state \in Late PROVE holds'[order.escrow].disposing # "cancel"
          OBVIOUS
        <5>1. order.escrow \in DOMAIN holds \ {h} /\ holds[order.escrow].disposing # "cancel"
          BY <3>2 DEF IInv, HoldBook, EscrowIsKnown, OrderBook, EscrowIsThere
        <5> QED
          BY <1>3, <1>8, <5>1
      <4> QED
        BY <2>4, <3>2, <4>1, OthersKnown
    <3> QED
      BY <1>8, <3>1, <3>2
  <2> QED
    BY <1>1, <1>2, <1>4, <1>8, <2>1, <2>2, <2>3, <2>5, PollWrites
<1>9. CASE q.purpose = "customer"
  <2>1. CASE order.state = "draft"
    <3>1. order' = [order EXCEPT !.state = "requested"] /\ holds' = hs
      BY <1>3, <1>9, <2>1 DEF accepted
    <3>2. order' \in OrderRow /\ order'.state = "requested" /\ Rest(order, order')
      BY <1>4, <3>1, Order_State DEF OrderStates, OrderState
    <3>3. Opens(order, order') /\ ~ Undoes(order, order') /\ order'.escrow = order.escrow
      BY <2>1, <3>2 DEF Opens, Early, Rest, Undoes
    <3>4. order'.state \in OrderState \ Terminal /\ order'.state \notin Late
      BY <3>2, TerminalStates DEF OrderState, Late
    <3> QED
      BY <1>1, <1>8, <1>9, <3>1, <3>2, <3>3, <3>4 DEF Move
  <2>2. CASE order.state # "draft"
    BY <1>3, <1>7, <1>9, <2>2 DEF accepted
  <2> QED
    BY <2>1, <2>2
<1>10. CASE q.purpose = "sponsor"
  <2> DEFINE due == /\ order.state = "claimed" /\ order.sponsor = q.party
                    /\ order.pendingClose = "none"
  <2>1. CASE due
    <3>1. order' = [order EXCEPT !.sponsorDeposit = h] /\ holds' = hs
      BY <1>3, <1>10, <2>1 DEF accepted
    <3>2. order' \in OrderRow /\ Stays(order, order')
      BY <1>4, <3>1, Order_Deposit
    <3>3. ~ Undoes(order, order') /\ order'.escrow = order.escrow /\ order'.state = "claimed"
          /\ order'.sponsor = q.party
      BY <2>1, <3>2 DEF Rest, Undoes, Stays
    <3>4. order'.state \in OrderState \ Terminal /\ order'.state \notin Late
      BY <3>3, TerminalStates DEF OrderState, Late
    <3> QED
      BY <1>1, <1>8, <1>10, <3>1, <3>2, <3>3, <3>4 DEF Move
  <2>2. CASE ~ due
    BY <1>3, <1>7, <1>10, <2>2 DEF accepted
  <2> QED
    BY <2>1, <2>2
<1>11. CASE q.purpose = "escrow"
  <2>1. CASE order.escrow # h
    BY <1>3, <1>7, <1>11, <2>1 DEF accepted
  <2>2. CASE order.escrow = h /\ order.state = "verified"
    <3>1. order' = [order EXCEPT !.state = "escrowed"] /\ holds' = hs
      BY <1>3, <1>4, <1>11, <2>2 DEF accepted
    <3>2. order' \in OrderRow /\ order'.state = "escrowed" /\ Rest(order, order')
      BY <1>4, <3>1, Order_State DEF OrderStates, OrderState
    <3>3. GoesOn(order, order') /\ ~ Undoes(order, order') /\ order'.escrow = order.escrow
      BY <1>4, <2>2, <3>2 DEF GoesOn, Rest, Undoes
    <3>4. order'.state \in OrderState \ Terminal
      BY <3>2, TerminalStates DEF OrderState
    <3> QED
      BY <1>1, <1>8, <1>11, <2>2, <3>1, <3>2, <3>3, <3>4 DEF Move
  <2>3. CASE order.escrow = h /\ order.state # "verified"
    <3>1. UNCHANGED order /\ holds' = hs
      BY <1>3, <1>11, <2>3 DEF accepted
    <3>2. Stays(order, order') /\ ~ Undoes(order, order') /\ order'.escrow = order.escrow
      BY <3>1 DEF Stays, Rest, Undoes
    <3>3. order.state \in OrderState \ Terminal
      BY <1>4, <1>6, <2>3 DEF IInv, OrderBook, NobodyYet, Early, OrderRow
    <3> QED
      BY <1>1, <1>4, <1>8, <1>11, <2>3, <3>1, <3>2, <3>3 DEF Move
  <2> QED
    BY <2>1, <2>2, <2>3
<1>12. q.purpose \in {"customer", "sponsor", "escrow"}
  BY <1>1 DEF HoldRow
<1> QED
  BY <1>9, <1>10, <1>11, <1>12

LEMMA PollCancels ==
  ASSUME IInv, NEW h \in DOMAIN holds, Polls(h), ~ PollDefers(h),
         holds[h].status \in {"open", "accepted"}, holds[h].node = "cancelled",
         NEW hs, hs = [holds EXCEPT ![h] = Became(holds[h], "cancelled")], nodeCancelled(h, hs)
  PROVE  IInv'
<1> DEFINE r == holds[h]
           q == Became(r, "cancelled")
<1>1. /\ q \in HoldRow /\ Ordinary(r, q) /\ q.status = "cancelled" /\ q.disposing = "none"
      /\ q.purpose = r.purpose /\ q.party = r.party
  BY PollRow
<1>2. hs = [holds EXCEPT ![h] = q]
  OBVIOUS
<1> HIDE DEF q
<1>3. /\ Whole(hs) /\ DOMAIN hs = DOMAIN holds /\ hs[h] = q
      /\ \A g \in DOMAIN holds \ {h} : hs[g] = holds[g]
      /\ Kept(hs, hs)
  BY <1>1, <1>2, OneRow
<1>4. order \in OrderRow /\ order.pendingClose = "none" /\ h \in 0..MaxHolds /\ h # 0
      /\ alerts \subseteq Alert /\ r \in HoldRow
  BY Typed, RowOf DEF PollDefers, Others
<1>5. /\ alerts \subseteq alerts' /\ alerts' \subseteq Alert
      /\ "unexpected-settle" \notin alerts' \ alerts
  BY <1>4 DEF nodeCancelled, Alert
\* The escrow of a paid trade is not lost unheard.
<1>6. ASSUME order.state \in Late, h = order.escrow PROVE "escrow-timed-out" \in alerts'
  <2>1. r.purpose = "escrow"
    BY <1>4, <1>6 DEF IInv, OrderBook, EscrowIsThere
  <2>2. r.status = "accepted"
    BY <1>6 DEF IInv, HoldBook, EscrowIsKnown
  <2>3. order.state # "verified"
    BY <1>6 DEF Late
  <2> QED
    BY <1>6, <2>1, <2>2, <2>3 DEF nodeCancelled
<1>7. ASSUME holds' = hs, order' \in OrderRow, Move(order, order'), ~ Undoes(order, order'),
             order'.escrow = order.escrow, order'.state \in Late => order'.state = order.state
      PROVE  IInv'
  <2>1. Kept(hs, holds') /\ DOMAIN holds' = DOMAIN hs
    BY <1>3, <1>7
  <2>2. ~ Caught(holds'[h])
    BY <1>1, <1>3, <1>7 DEF Caught
  <2>3. ClaimIsReturned
    BY <1>7, NothingReturned
  <2>4. EscrowIsKnown'
    <3> SUFFICES ASSUME order'.state \in Late
                 PROVE  /\ order.escrow # 0
                        /\ holds'[order.escrow].status \in {"accepted", "settled", "cancelled"}
                        /\ holds'[order.escrow].disposing # "cancel"
                        /\ holds'[order.escrow].status = "cancelled" => alerts' \cap Calls # {}
      BY <1>7 DEF EscrowIsKnown
    <3>1. /\ order.state \in Late /\ order.escrow # 0 /\ order.escrow \in DOMAIN holds
          /\ holds[order.escrow].status \in {"accepted", "settled", "cancelled"}
          /\ holds[order.escrow].disposing # "cancel"
          /\ holds[order.escrow].status = "cancelled" => alerts \cap Calls # {}
      BY <1>7 DEF IInv, HoldBook, EscrowIsKnown, OrderBook, EscrowIsThere
    <3>2. CASE h = order.escrow
      <4>1. alerts' \cap Calls # {}
        BY <1>6, <3>1, <3>2 DEF Calls
      <4> QED
        BY <1>1, <1>3, <1>7, <3>1, <3>2, <4>1
    <3>3. CASE h # order.escrow
      <4>1. alerts \cap Calls \subseteq alerts' \cap Calls
        BY <1>5
      <4>2. holds'[order.escrow] = holds[order.escrow]
        BY <1>3, <1>7, <3>1, <3>3
      <4> QED
        BY <3>1, <4>1, <4>2
    <3> QED
      BY <3>2, <3>3
  <2> QED
    BY <1>1, <1>2, <1>5, <1>7, <2>1, <2>2, <2>3, <2>4, PollWrites DEF r
<1>8. ASSUME holds' = hs, UNCHANGED order PROVE IInv'
  <2>1. Stays(order, order') /\ ~ Undoes(order, order') /\ order'.escrow = order.escrow
    BY <1>8 DEF Stays, Rest, Undoes
  <2> QED
    BY <1>4, <1>7, <1>8, <2>1 DEF Move
<1>9. ASSUME holds' = hs, NEW reason \in LnCloseReason, beginClose(reason) PROVE IInv'
  <2>1. order' \in OrderRow /\ Begins(order, order') /\ order'.escrow = order.escrow
        /\ order'.state = order.state
    BY <1>9, Closes
  <2>2. ~ Undoes(order, order')
    BY <2>1 DEF Undoes
  <2> QED
    BY <1>7, <1>9, <2>1, <2>2 DEF Move
<1>10. CASE /\ r.purpose = "customer" /\ holds' = hs
            /\ order' = IF order.state = "draft" THEN [order EXCEPT !.state = "none"] ELSE order
  <2>1. CASE order.state = "draft"
    <3>1. order' \in OrderRow /\ order'.state = "none" /\ Rest(order, order')
      BY <1>4, <1>10, <2>1, Order_State DEF OrderStates
    <3>2. Opens(order, order') /\ ~ Undoes(order, order') /\ order'.escrow = order.escrow
      BY <2>1, <3>1 DEF Opens, Early, Rest, Undoes
    <3> QED
      BY <1>7, <1>10, <3>1, <3>2 DEF Move, Late
  <2>2. CASE order.state # "draft"
    BY <1>8, <1>10, <2>2
  <2> QED
    BY <2>1, <2>2
<1>11. CASE /\ order.state = "claimed"
            /\ holds' = Reverted(hs, order) /\ order' = Unclaimed(order)
  <2>1. /\ order' \in OrderRow /\ Undoes(order, order') /\ order'.state = "requested"
        /\ order'.escrow = 0 /\ Kept(hs, holds') /\ DOMAIN holds' = DOMAIN hs
        /\ ClaimIsReturned
    BY <1>3, <1>4, <1>11, RevertsFrom
  <2>2. EscrowIsKnown'
    BY <2>1 DEF EscrowIsKnown, Late
  <2>3. ~ Caught(holds'[h])
    BY <1>1, <1>3, <2>1 DEF Kept, Same, Caught
  <2> QED
    BY <1>1, <1>2, <1>5, <2>1, <2>2, <2>3, PollWrites DEF Move, r
<1>12. CASE r.purpose = "escrow"
  <2>1. holds' = hs
    BY <1>12 DEF nodeCancelled
  <2>2. overdue # "none" => overdue \in LnCloseReason
    BY OverdueReason
  <2>3. "cancel:unpaid-escrow" \in LnCloseReason
    BY DEF LnCloseReason
  <2>4. CASE UNCHANGED order
    BY <1>8, <2>1, <2>4
  <2>5. CASE beginClose("cancel:unpaid-escrow")
    BY <1>9, <2>1, <2>3, <2>5
  <2>6. CASE overdue # "none" /\ beginClose(overdue)
    BY <1>9, <2>1, <2>2, <2>6
  <2> QED
    BY <1>12, <2>4, <2>5, <2>6 DEF nodeCancelled
<1>13. CASE r.purpose = "sponsor"
  BY <1>8, <1>11, <1>13 DEF nodeCancelled
<1>14. CASE r.purpose = "customer"
  BY <1>10, <1>14 DEF nodeCancelled
<1> QED
  BY <1>4, <1>12, <1>13, <1>14 DEF HoldRow

LEMMA PollGoesOn ==
  ASSUME IInv, NEW h \in DOMAIN holds, PollNext(h) PROVE IInv'
<1>1. Polls(h) /\ observe(h) /\ pc = "poll"
  BY DEF PollNext, Polls
<1>2. holds[h].status \in {"open", "accepted"} /\ holds[h] \in HoldRow
  BY <1>1, RowOf DEF Polls, IInv, Progress, PollIsOfOpen
<1>3. CASE UNCHANGED <<order, holds, alerts>>
  <2>1. Others'
    BY <1>1, <1>3, Typed DEF Others, time, Polls
  <2>2. Progress' /\ pc' # "closing"
    BY <1>1, <1>3 DEF IInv, Progress, CloseGoesOn, PollIsOfOpen, Polls
  <2> QED
    BY <1>3, <2>1, <2>2, NothingMoves
<1>4. CASE /\ ~ PollDefers(h) /\ holds[h].node = "accepted" /\ holds[h].status = "open"
           /\ accepted(h, [holds EXCEPT ![h] = Became(holds[h], "accepted")])
           /\ UNCHANGED alerts
  BY <1>1, <1>4, PollAccepts
<1>5. CASE ~ PollDefers(h) /\ holds[h].node = "settled"
  <2>1. FALSE
    BY <1>2, <1>5 DEF IInv, HoldBook, SettlesAreOurs, PollDefers
  <2> QED
    BY <2>1
<1>6. CASE /\ ~ PollDefers(h) /\ holds[h].node = "cancelled"
           /\ nodeCancelled(h, [holds EXCEPT ![h] = Became(holds[h], "cancelled")])
  BY <1>1, <1>2, <1>6, PollCancels
<1> QED
  BY <1>1, <1>3, <1>4, <1>5, <1>6 DEF observe

-----------------------------------------------------------------------------
(* The close.                                                               *)

LEMMA TheClose ==
  ASSUME IInv, pc = "closing"
  PROVE  /\ order.pendingClose \in LnCloseReason /\ order.pendingClose # "none"
         /\ Reason = order.pendingClose
         /\ order.state \in OrderState /\ order.state \notin Terminal
         /\ rule.terminal \in Terminal
         /\ rule.escrow \in {"settle", "cancel"}
         /\ rule.escrow = "settle" <=> rule.terminal \in {"paid", "sponsor_wins"}
         /\ rule.escrow = "settle" => rule.customerDeposit = "refund" /\ rule.sponsorDeposit = "refund"
         /\ rule.terminal = "paid" => order.state = "remitted" \/
                                      (order.state = "invoiced" /\ order.pendingClose = "paid")
         /\ rule.terminal = "sponsor_wins" => order.state = "remitted"
         /\ order.state = "remitted" => rule.terminal \in {"paid", "sponsor_wins", "customer_wins"}
         /\ order.state = "invoiced" /\ order.pendingClose = "paid" => rule.terminal = "paid"
<1>1. /\ order.pendingClose \in LnCloseReason /\ order.pendingClose # "none"
      /\ order.state \in OrderState /\ rule.terminal \in TRANSITIONS[order.state]
  BY Typed DEF IInv, OrderBook, CloseIsLegal, MovesTo, canTransition, rule, OrderRow, Maybe
<1>2. /\ rule.terminal \in Terminal /\ rule.escrow \in {"settle", "cancel"}
      /\ rule.escrow = "settle" <=> rule.terminal \in {"paid", "sponsor_wins"}
      /\ rule.escrow = "settle" => rule.customerDeposit = "refund" /\ rule.sponsorDeposit = "refund"
  BY <1>1, Rules DEF rule
<1>3. rule.terminal = TerminalOf(order.pendingClose)
  BY <1>1 DEF rule, CLOSE_RULES
<1>4. rule.terminal = "paid" <=> order.pendingClose = "paid"
  BY <1>1, <1>3 DEF TerminalOf, LnCloseReason
<1>5. /\ order.state \notin Terminal
      /\ rule.terminal = "paid" => order.state \in {"invoiced", "remitted"}
      /\ rule.terminal = "sponsor_wins" => order.state = "remitted"
      /\ order.state = "remitted" => rule.terminal \in {"paid", "sponsor_wins", "customer_wins"}
  BY <1>1, LegalCloses
<1> QED
  BY <1>1, <1>2, <1>4, <1>5 DEF Reason

LEMMA ClosingOthers ==
  ASSUME IInv, InClosing, DOMAIN holds' = DOMAIN holds, todo' \subseteq todo,
         pc' \in {"closing", "effects"}, alerts' \subseteq Alert
  PROVE  Others'
  BY Typed DEF InClosing, Others, time

\* The close is given up, and only where nothing has been settled yet.
LEMMA Abandons == IInv /\ CloseAbandoned => IInv'
<1> SUFFICES ASSUME IInv, CloseAbandoned PROVE IInv'
  OBVIOUS
<1>1. /\ InClosing /\ pc = "closing" /\ NotReceivable /\ UNCHANGED holds
      /\ order' = [order EXCEPT !.pendingClose = "none"]
      /\ alerts' = alerts \cup {"close-failed"} /\ pc' = "effects" /\ todo' = {}
  BY DEF CloseAbandoned, InClosing
<1>2. /\ order' \in OrderRow /\ order'.pendingClose = "none"
      /\ order'.state = order.state /\ order'.sponsor = order.sponsor
      /\ order'.closeReason = order.closeReason /\ order'.escrow = order.escrow
  BY <1>1, Typed, Order_Closing DEF Maybe
<1>3. /\ order.state \notin Terminal /\ Reason = order.pendingClose
      /\ rule.customerDeposit = "refund" /\ rule.sponsorDeposit = "refund"
  BY <1>1, TheClose DEF NotReceivable
<1>4. ASSUME NEW h \in DOMAIN holds PROVE holds[h].node # "settled"
  <2>1. CASE holds[h].purpose = "escrow"
    <3> SUFFICES ASSUME holds[h].node = "settled" PROVE FALSE
      OBVIOUS
    <3>1. h = order.escrow /\ h # 0
      BY <2>1, RowOf DEF IInv, Promises, EscrowTakenForCause, Escrow
    <3> QED
      BY <1>1, <3>1 DEF NotReceivable
  <2>2. CASE holds[h].purpose # "escrow"
    <3> SUFFICES ASSUME holds[h].node = "settled" PROVE FALSE
      OBVIOUS
    <3>1. IF holds[h].purpose = "customer" THEN CLOSE_RULES[Reason].customerDeposit = "forfeit"
          ELSE CLOSE_RULES[Reason].sponsorDeposit = "forfeit"
      BY <2>2 DEF IInv, Promises, MoneyByRule, ForfeitOnlyByRule, Escrow
    <3> QED
      BY <1>3, <3>1 DEF rule
  <2> QED
    BY <2>1, <2>2
<1>5. alerts' \subseteq Alert /\ todo' \subseteq todo
  BY <1>1, Typed DEF Others, Alert
<1>6. Others'
  BY <1>1, <1>5, ClosingOthers
<1>7. TypeOK'
  BY <1>1, <1>2, <1>6, Typed DEF TypeOK, Others, Whole
<1>8. OrderBook'
  BY <1>1, <1>2 DEF IInv, OrderBook, EscrowIsThere, CloseIsLegal, ReasonIsKept, NobodyYet
<1>9. HoldBook'
  <2>1. FinalIsTrue' /\ OnlyEscrowIsAsked' /\ SettlesAreOurs'
    BY <1>1, <1>2, <1>4 DEF IInv, HoldBook, FinalIsTrue, Truthful, OnlyEscrowIsAsked, SettlesAreOurs
  <2>2. EndedIsClosed'
    BY <1>2, <1>3 DEF EndedIsClosed
  <2>3. EscrowIsKnown'
    <3>1. alerts \cap Calls \subseteq alerts' \cap Calls
      BY <1>1
    <3> QED
      BY <1>1, <1>2, <3>1 DEF IInv, HoldBook, EscrowIsKnown
  <2> QED
    BY <2>1, <2>2, <2>3 DEF HoldBook
<1>10. Promises'
  <2>1. PayoutBacked'
    BY <1>2, <1>3, TerminalStates DEF PayoutBacked
  <2>2. NoFalseAlarm'
    BY <1>1 DEF IInv, Promises, NoFalseAlarm
  <2>3. EscrowTakenForCause' /\ ForfeitOnlyByRule'
    BY <1>1, <1>4 DEF EscrowTakenForCause, ForfeitOnlyByRule, Escrow
  <2>4. NoStrayMoney'
    BY <1>1, <1>2 DEF IInv, Promises, MoneyByRule, NoStrayMoney, Escrow
  <2> QED
    BY <2>1, <2>2, <2>3, <2>4 DEF Promises, MoneyByRule
<1> QED
  BY <1>1, <1>7, <1>8, <1>9, <1>10, Elsewhere DEF IInv

LEMMA CloseVisits ==
  ASSUME IInv, NEW h \in DOMAIN holds, CloseHold(h) PROVE IInv'
<1> DEFINE r == holds[h]
           n == settleOrCancel(r, wanted(h))
           q == [r EXCEPT !.node = n]
<1>1. /\ InClosing /\ pc = "closing" /\ pc' = "closing" /\ h \in todo /\ ~ NotReceivable
      /\ todo' = todo \ {h} /\ UNCHANGED <<order, alerts>>
      /\ holds' = [holds EXCEPT ![h].node = n]
  BY DEF CloseHold, InClosing
<1>2. r \in HoldRow /\ Truthful(r)
  BY RowOf DEF IInv, HoldBook, FinalIsTrue
<1>3. /\ n \in NodeStates /\ n \notin {"open", "accepted"}
      /\ r.node \in {"absent", "settled", "cancelled"} => n = r.node
      /\ n = "settled" /\ r.node # "settled" => wanted(h) = "settle"
      /\ wanted(h) = "settle" /\ r.node \in {"accepted", "settled"} => n = "settled"
  BY <1>2, SettleOrCancel
<1> HIDE DEF n
<1>4. q \in HoldRow /\ q.purpose = r.purpose /\ q.party = r.party
      /\ q.status = r.status /\ q.node = n /\ q.disposing = r.disposing
  BY <1>2, <1>3, Row_Node
<1>5. holds' = [holds EXCEPT ![h] = q]
  BY <1>1
<1> HIDE DEF q
<1>6. /\ Whole(holds') /\ DOMAIN holds' = DOMAIN holds /\ holds'[h] = q
      /\ \A g \in DOMAIN holds \ {h} : holds'[g] = holds[g]
  BY <1>4, <1>5, OneRow
<1> HIDE DEF r
<1>7. \A g \in DOMAIN holds :
        /\ holds'[g].purpose = holds[g].purpose /\ holds'[g].party = holds[g].party
        /\ holds'[g].status = holds[g].status /\ holds'[g].disposing = holds[g].disposing
  BY <1>4, <1>6 DEF r
<1>8. /\ order.pendingClose # "none" /\ Reason = order.pendingClose
      /\ order.state \notin Terminal
      /\ rule.escrow = "settle" => order.state \in {"remitted", "paid", "sponsor_wins"} \/
           (order.state = "invoiced" /\ order.pendingClose = "paid")
  BY <1>1, TheClose
<1>9. n = "settled" /\ r.node # "settled" =>
        \/ h = order.escrow /\ rule.escrow = "settle"
        \/ r.purpose = "customer" /\ rule.customerDeposit = "forfeit"
        \/ r.purpose = "sponsor" /\ r.party = order.sponsor /\ rule.sponsorDeposit = "forfeit"
  BY <1>3 DEF wanted, Judged, r
<1>10. h = order.escrow => r.purpose = "escrow"
  BY RowOf DEF IInv, OrderBook, EscrowIsThere, r
<1>11. Others'
  BY <1>1, <1>6, Typed, ClosingOthers DEF Others
<1>12. TypeOK'
  BY <1>1, <1>6, <1>11, Typed DEF TypeOK, Others, Whole
<1>13. OrderBook'
  BY <1>1, <1>6, <1>7 DEF IInv, OrderBook, EscrowIsThere, CloseIsLegal, ReasonIsKept, NobodyYet, MovesTo
<1>14. HoldBook'
  <2>1. Truthful(q)
    BY <1>2, <1>3, <1>4 DEF Truthful
  <2>2. FinalIsTrue'
    BY <1>6, <2>1 DEF IInv, HoldBook, FinalIsTrue
  <2>3. OnlyEscrowIsAsked' /\ SettlesAreOurs'
    BY <1>1, <1>6, <1>7, <1>8 DEF IInv, HoldBook, OnlyEscrowIsAsked, SettlesAreOurs
  <2>4. EndedIsClosed'
    BY <1>1, <1>8 DEF EndedIsClosed
  <2>5. EscrowIsKnown'
    BY <1>1, <1>7 DEF IInv, HoldBook, EscrowIsKnown, OrderBook, EscrowIsThere
  <2> QED
    BY <2>2, <2>3, <2>4, <2>5 DEF HoldBook
<1>15. Promises'
  <2>1. PayoutBacked' /\ NoFalseAlarm'
    BY <1>1, <1>8, TerminalStates DEF IInv, Promises, PayoutBacked, NoFalseAlarm
  <2>2. EscrowTakenForCause'
    <3> SUFFICES ASSUME NEW g \in DOMAIN holds, holds'[g].purpose = "escrow",
                        holds'[g].node = "settled"
                 PROVE  /\ g = order.escrow
                        /\ \/ order.state \in {"remitted", "paid", "sponsor_wins"}
                           \/ order.state = "invoiced" /\ order.pendingClose = "paid"
                           \/ order.state = "customer_wins" /\ "refund-manually" \in alerts
      BY <1>1, <1>6 DEF EscrowTakenForCause, Escrow
    <3>1. CASE holds[g].node = "settled"
      BY <1>7, <3>1 DEF IInv, Promises, EscrowTakenForCause, Escrow
    <3>2. CASE holds[g].node # "settled"
      <4>1. g = h /\ r.purpose = "escrow" /\ n = "settled" /\ r.node # "settled"
        BY <1>4, <1>6, <3>2 DEF r
      <4> QED
        BY <1>8, <1>9, <4>1
    <3> QED
      BY <3>1, <3>2
  <2>3. ForfeitOnlyByRule'
    <3>1. Reason' = Reason /\ ForfeitOnlyByRule
      BY <1>1 DEF Reason, IInv, Promises, MoneyByRule
    <3> SUFFICES ASSUME NEW g \in DOMAIN holds, holds'[g].purpose # "escrow",
                        holds'[g].node = "settled"
                 PROVE  /\ Reason' # "none"
                        /\ IF holds'[g].purpose = "customer"
                           THEN CLOSE_RULES[Reason'].customerDeposit = "forfeit"
                           ELSE /\ CLOSE_RULES[Reason'].sponsorDeposit = "forfeit"
                                /\ holds'[g].party = order'.sponsor
      BY <1>6 DEF ForfeitOnlyByRule, Escrow
    <3>2. CASE holds[g].node = "settled"
      <4>1. /\ Reason # "none"
            /\ IF holds[g].purpose = "customer"
               THEN CLOSE_RULES[Reason].customerDeposit = "forfeit"
               ELSE /\ CLOSE_RULES[Reason].sponsorDeposit = "forfeit"
                    /\ holds[g].party = order.sponsor
        BY <1>7, <3>1, <3>2 DEF ForfeitOnlyByRule, Escrow
      <4> QED
        BY <1>1, <1>7, <3>1, <4>1
    <3>3. CASE holds[g].node # "settled"
      <4>1. g = h /\ r.purpose # "escrow" /\ n = "settled" /\ r.node # "settled"
            /\ holds'[g].purpose = r.purpose /\ holds'[g].party = r.party
        BY <1>4, <1>6, <3>3 DEF r
      <4>2. \/ r.purpose = "customer" /\ rule.customerDeposit = "forfeit"
            \/ r.purpose = "sponsor" /\ r.party = order.sponsor /\ rule.sponsorDeposit = "forfeit"
        BY <1>9, <1>10, <4>1
      <4>3. rule = CLOSE_RULES[Reason']
        BY <1>8, <3>1 DEF rule
      <4> QED
        BY <1>1, <1>8, <3>1, <4>1, <4>2, <4>3
    <3> QED
      BY <3>2, <3>3
  <2>4. NoStrayMoney'
    BY <1>1, <1>6, <1>7 DEF IInv, Promises, MoneyByRule, NoStrayMoney, Escrow
  <2> QED
    BY <2>1, <2>2, <2>3, <2>4 DEF Promises, MoneyByRule
<1>16. Progress'
  <2>1. CloseSet' = CloseSet /\ rule' = rule
    BY <1>1, <1>6, <1>7 DEF CloseSet, LiveHold, rule
  <2>2. CloseSet \subseteq DOMAIN holds
    BY DEF CloseSet, IInv, OrderBook, EscrowIsThere
  <2>3. /\ \A g \in CloseSet \ todo : holds[g].node \notin {"open", "accepted"}
        /\ rule.escrow = "settle" /\ order.escrow # 0 /\ order.escrow \notin todo =>
             holds[order.escrow].node = "settled"
    BY <1>1 DEF IInv, Progress, CloseGoesOn
  <2>4. ASSUME NEW g \in CloseSet \ todo' PROVE holds'[g].node \notin {"open", "accepted"}
    <3>1. CASE g = h
      BY <1>3, <1>4, <1>6, <3>1
    <3>2. CASE g # h
      BY <1>1, <1>6, <2>2, <2>3, <3>2
    <3> QED
      BY <3>1, <3>2
  <2>5. ASSUME rule.escrow = "settle", order.escrow # 0, order.escrow \notin todo'
        PROVE  holds'[order.escrow].node = "settled"
    <3>1. order.escrow \in DOMAIN holds
      BY <2>5 DEF IInv, OrderBook, EscrowIsThere
    <3>2. CASE order.escrow = h
      <4>1. wanted(h) = "settle"
        BY <2>5, <3>2 DEF wanted
      <4>2. r.node \in {"accepted", "settled"}
        BY <1>1, <2>5, <3>2 DEF NotReceivable, r
      <4> QED
        BY <1>3, <1>4, <1>6, <3>2, <4>1, <4>2
    <3>3. CASE order.escrow # h
      BY <1>1, <1>6, <2>3, <2>5, <3>1, <3>3
    <3> QED
      BY <3>2, <3>3
  <2>6. CloseGoesOn'
    BY <1>1, <2>1, <2>4, <2>5 DEF CloseGoesOn
  <2> QED
    BY <1>1, <2>6 DEF Progress, PollIsOfOpen
<1> QED
  BY <1>12, <1>13, <1>14, <1>15, <1>16 DEF IInv

\* The close ends: the rows take the node's word, and the trade its terminal state.
LEMMA Finishes == IInv /\ CloseFinished => IInv'
<1> SUFFICES ASSUME IInv, CloseFinished PROVE IInv'
  OBVIOUS
<1> DEFINE final == IF order.escrow = 0 THEN "none" ELSE FinalOf(holds[order.escrow].node)
           gs == [h \in DOMAIN holds |-> IF h \in CloseSet
                    THEN Became(holds[h], FinalOf(holds[h].node)) ELSE holds[h]]
<1>1. /\ InClosing /\ pc = "closing" /\ todo = {} /\ ~ NotReceivable
      /\ order' = Closed(order) /\ holds' = gs
      /\ alerts' = IF RefundByHand(final) THEN alerts \cup {"refund-manually"} ELSE alerts
      /\ pc' = "effects" /\ todo' = todo
  BY DEF CloseFinished, InClosing
<1>2. /\ order' \in OrderRow /\ order'.state = rule.terminal
      /\ order'.closeReason = order.pendingClose /\ order'.pendingClose = "none"
      /\ order'.sponsor = order.sponsor /\ order'.escrow = order.escrow
  BY <1>1, Typed, TheClose, Order_Closed DEF rule
<1>3. /\ \A h \in CloseSet : holds[h].node \notin {"open", "accepted"}
      /\ rule.escrow = "settle" =>
           order.escrow # 0 /\ holds[order.escrow].node = "settled"
  BY <1>1 DEF IInv, Progress, CloseGoesOn, NotReceivable
<1>4. /\ alerts \subseteq alerts' /\ alerts' \subseteq alerts \cup {"refund-manually"}
      /\ RefundByHand(final) => "refund-manually" \in alerts'
  BY <1>1
<1> HIDE DEF final
<1>5. ASSUME NEW h \in DOMAIN holds
      PROVE  /\ gs[h] \in HoldRow /\ gs[h].status \in {"settled", "cancelled"} /\ Truthful(gs[h])
             /\ gs[h].purpose = holds[h].purpose /\ gs[h].party = holds[h].party
             /\ gs[h].node = holds[h].node /\ gs[h].disposing = holds[h].disposing
  <2> DEFINE r == holds[h]
  <2>1. r \in HoldRow /\ Truthful(r)
    BY RowOf DEF IInv, HoldBook, FinalIsTrue
  <2>2. CASE h \in CloseSet
    <3>1. gs[h] = Became(r, FinalOf(r.node))
      BY <2>2
    <3>2. FinalOf(r.node) \in {"settled", "cancelled"} /\ FinalOf(r.node) \in Statuses
      BY DEF FinalOf, Statuses
    <3>3. /\ FinalOf(r.node) = "settled" => r.node = "settled"
          /\ FinalOf(r.node) = "cancelled" => r.node \in {"absent", "cancelled"}
      BY <1>3, <2>1, <2>2 DEF FinalOf, HoldRow
    <3> HIDE DEF r, gs
    <3> QED
      BY <2>1, <3>1, <3>2, <3>3, Became_Row DEF Truthful, r
  <2>3. CASE h \notin CloseSet
    <3>1. gs[h] = r /\ ~ LiveHold(r)
      BY <2>3 DEF CloseSet
    <3> QED
      BY <2>1, <3>1 DEF LiveHold, HoldRow
  <2> QED
    BY <2>2, <2>3
<1>6. gs = [h \in DOMAIN holds |-> gs[h]]
  OBVIOUS
<1> HIDE DEF gs
<1>7. Whole(holds') /\ DOMAIN holds' = DOMAIN holds
  BY <1>1, <1>5, <1>6, Typed, InPlace DEF Whole
<1>8. \A h \in DOMAIN holds :
        /\ holds'[h].status \in {"settled", "cancelled"} /\ Truthful(holds'[h])
        /\ holds'[h].purpose = holds[h].purpose /\ holds'[h].party = holds[h].party
        /\ holds'[h].node = holds[h].node /\ holds'[h].disposing = holds[h].disposing
  BY <1>1, <1>5
<1>9. order.escrow # 0 => order.escrow \in DOMAIN holds /\ holds[order.escrow].purpose = "escrow"
  BY DEF IInv, OrderBook, EscrowIsThere
<1>10. TypeOK'
  <2>1. alerts' \subseteq Alert
    BY <1>4, Typed DEF Others, Alert
  <2> QED
    BY <1>1, <1>2, <1>7, <2>1, Typed, ClosingOthers DEF TypeOK, Others, Whole
<1>11. OrderBook'
  <2>1. order.pendingClose # "none" /\ rule.terminal \in Terminal
    BY <1>1, TheClose
  <2>2. EscrowIsThere'
    BY <1>2, <1>7, <1>8, <1>9 DEF EscrowIsThere
  <2>3. CloseIsLegal'
    BY <1>1, <1>2 DEF CloseIsLegal
  <2>4. ReasonIsKept'
    BY <1>2, <2>1 DEF ReasonIsKept, rule
  <2>5. NobodyYet'
    BY <1>2, <2>1, TerminalStates DEF NobodyYet, Early
  <2> QED
    BY <2>2, <2>3, <2>4, <2>5 DEF OrderBook
<1>12. HoldBook'
  <2>1. FinalIsTrue'
    BY <1>7, <1>8 DEF FinalIsTrue
  <2>2. OnlyEscrowIsAsked'
    <3> SUFFICES ASSUME NEW h \in DOMAIN holds, holds[h].disposing = "settle"
                 PROVE  /\ h = order.escrow
                        /\ order'.state \in {"remitted", "paid", "sponsor_wins", "customer_wins"}
      BY <1>2, <1>7, <1>8 DEF OnlyEscrowIsAsked
    <3>1. h = order.escrow
          /\ order.state \in {"remitted", "paid", "sponsor_wins", "customer_wins"}
      BY DEF IInv, HoldBook, OnlyEscrowIsAsked
    <3> QED
      BY <1>1, <1>2, <3>1, TheClose, TerminalStates
  <2>3. SettlesAreOurs'
    BY <1>7, <1>8 DEF SettlesAreOurs, Truthful
  <2>4. EndedIsClosed'
    BY <1>7, <1>8 DEF EndedIsClosed, LiveHold
  <2>5. EscrowIsKnown'
    BY <1>1, <1>2, TheClose, TerminalStates DEF EscrowIsKnown, Late
  <2> QED
    BY <2>1, <2>2, <2>3, <2>4, <2>5 DEF HoldBook
<1>13. Promises'
  <2>1. PayoutBacked'
    BY <1>1, <1>2, <1>3, <1>8, <1>9, TheClose DEF PayoutBacked
  <2>2. NoFalseAlarm'
    BY <1>4 DEF IInv, Promises, NoFalseAlarm
  <2>3. EscrowTakenForCause'
    <3> SUFFICES ASSUME NEW h \in DOMAIN holds, holds[h].purpose = "escrow",
                        holds[h].node = "settled"
                 PROVE  /\ h = order.escrow
                        /\ \/ rule.terminal \in {"paid", "sponsor_wins"}
                           \/ rule.terminal = "customer_wins" /\ "refund-manually" \in alerts'
      BY <1>2, <1>7, <1>8 DEF EscrowTakenForCause, Escrow
    <3>1. /\ h = order.escrow
          /\ \/ order.state = "remitted"
             \/ order.state = "invoiced" /\ order.pendingClose = "paid"
      BY <1>1, TheClose, TerminalStates DEF IInv, Promises, EscrowTakenForCause, Escrow
    <3>2. rule.terminal \in {"paid", "sponsor_wins", "customer_wins"}
      BY <1>1, <3>1, TheClose
    <3>3. ASSUME rule.terminal = "customer_wins" PROVE "refund-manually" \in alerts'
      <4>1. rule.escrow = "cancel"
        BY <1>1, <3>3, TheClose
      <4>2. final = "settled"
        BY <3>1, RowOf DEF final, FinalOf
      <4> QED
        BY <1>4, <4>1, <4>2 DEF RefundByHand
    <3> QED
      BY <3>1, <3>2, <3>3
  <2>4. ForfeitOnlyByRule'
    <3>1. Reason # "none" => Reason' = Reason
      BY <1>1, <1>2, TheClose DEF Reason
    <3>2. ForfeitOnlyByRule
      BY DEF IInv, Promises, MoneyByRule
    <3> QED
      BY <1>2, <1>7, <1>8, <3>1, <3>2 DEF ForfeitOnlyByRule, Escrow
  <2>5. NoStrayMoney'
    BY <1>7, <1>8 DEF NoStrayMoney
  <2> QED
    BY <2>1, <2>2, <2>3, <2>4, <2>5 DEF Promises, MoneyByRule
<1> QED
  BY <1>1, <1>10, <1>11, <1>12, <1>13, Elsewhere DEF IInv

-----------------------------------------------------------------------------
(* The invariant of the whole trade.                                        *)

LEMMA Starts == Init => IInv
<1> SUFFICES ASSUME Init PROVE IInv
  OBVIOUS
<1>1. /\ order.state = "none" /\ order.sponsor = "none" /\ order.pendingClose = "none"
      /\ order.closeReason = "none" /\ order.escrow = 0
  BY DEF Init
<1>2. holds = <<>> /\ DOMAIN holds = {} /\ Len(holds) = 0 /\ holds \in Seq(HoldRow)
  BY DEF Init
<1>3. pc = "dispatch" /\ alerts = {} /\ todo = {}
  BY DEF Init
<1>4. MaxHolds \in Nat /\ MaxCrashes \in Nat
  BY LnTradeAssumption
<1>5. order \in OrderRow
  <2> DEFINE o == [state |-> "none", sponsor |-> "none", designated |-> "none",
                   pendingClose |-> "none", closeReason |-> "none", escrow |-> 0,
                   sponsorDeposit |-> 0, accountSent |-> FALSE]
  <2>1. order = o
    BY DEF Init
  <2>2. o \in OrderRow
    BY <1>4 DEF OrderRow, Maybe
  <2> QED
    BY <2>1, <2>2
<1>6. TypeOK
  <2>1. holds \in Seq(HoldRow) /\ Len(holds) <= MaxHolds
    BY <1>2, <1>4
  <2>2. /\ pc = "dispatch" /\ todo = {} /\ remit = "none" /\ alerts = {}
        /\ phase = 0 /\ life = 4 /\ seenLife = 4 /\ crashes = 0
    BY DEF Init
  <2>3. /\ crashes \in 0..MaxCrashes /\ phase \in Phases /\ life \in Lives /\ seenLife \in Lives
    BY <1>4, <2>2 DEF Phases, Lives
  <2>4. invoiceDue \in BOOLEAN /\ heightOk \in BOOLEAN /\ warm \in BOOLEAN
    BY Zenon DEF Init
  <2>5. todo \subseteq DOMAIN holds /\ alerts \subseteq Alert
    BY <2>2
  <2> QED
    BY <1>5, <2>1, <2>2, <2>3, <2>4, <2>5 DEF TypeOK
<1>7. "none" \notin Terminal
  BY TerminalStates
<1>8. OrderBook
  BY <1>1, <1>3, <1>7 DEF OrderBook, EscrowIsThere, CloseIsLegal, ReasonIsKept, NobodyYet
<1>9. HoldBook
  BY <1>1, <1>2, <1>7 DEF HoldBook, FinalIsTrue, OnlyEscrowIsAsked, SettlesAreOurs, EndedIsClosed,
                          EscrowIsKnown, Late
<1>10. Progress
  BY <1>3 DEF Progress, CloseGoesOn, PollIsOfOpen
<1>11. Promises
  BY <1>1, <1>2, <1>3 DEF Promises, PayoutBacked, NoFalseAlarm, EscrowTakenForCause, MoneyByRule,
                          ForfeitOnlyByRule, NoStrayMoney
<1> QED
  BY <1>6, <1>8, <1>9, <1>10, <1>11 DEF IInv

LEMMA Steps == IInv /\ [Next]_vars => IInv'
<1> SUFFICES ASSUME IInv, [Next]_vars PROVE IInv'
  OBVIOUS
<1>1. CASE Requests
  BY <1>1, OrderRequest, DesignatedOrderRequest, Claim, SponsorInvoice, AccountInfo, RemitRequest,
     PaymentConfirm, CancelRequest, Zenon DEF Requests
<1>2. CASE Commands
  BY <1>2, AdminApprove, AdminRevertClaim, AdminRule, AdminForceClose DEF Commands
<1>3. CASE Watching
  BY <1>3, StartsTick, PollGoesOn, LookupFails, ClockIsStarted, ClockForClaims, ClockForVerified,
     ClockForExpiry, Zenon DEF Watching
<1>4. CASE Effects
  BY <1>4, Creates, CreateLost, Disposes, DisposeLost, CloseStarts, CloseVisits, Abandons, Finishes,
     Crashes, Zenon DEF Effects
<1>5. CASE Crash
  BY <1>5, Crashes
<1>6. CASE World
  BY <1>6, PayerHasPaid, NodeHasGivenUp, PayByHasPassed, PhaseHasPassed, TimePasses, Zenon DEF World
<1>7. CASE UNCHANGED vars
  BY <1>7 DEF vars, IInv, TypeOK, OrderBook, EscrowIsThere, CloseIsLegal, ReasonIsKept, NobodyYet,
              MovesTo, HoldBook, FinalIsTrue, OnlyEscrowIsAsked, SettlesAreOurs, EndedIsClosed,
              EscrowIsKnown, Progress, CloseGoesOn, PollIsOfOpen, CloseSet, rule, Promises,
              PayoutBacked, NoFalseAlarm, EscrowTakenForCause, Escrow, MoneyByRule,
              ForfeitOnlyByRule, Reason, NoStrayMoney
<1> QED
  BY <1>1, <1>2, <1>3, <1>4, <1>5, <1>6, <1>7 DEF Next

LEMMA Inductive == Spec => []IInv
  BY Starts, Steps, PTL DEF Spec

-----------------------------------------------------------------------------
(* What it says of the trade.                                               *)

\* The order's row, its hold invoices, the tick's position and the clocks stay in their
\* types (ln_orders, ln_invoices; store.ts).
THEOREM TypeCorrect == Spec => []TypeOK
<1>1. IInv => TypeOK
  BY DEF IInv
<1> QED
  BY <1>1, Inductive, PTL

\* The sponsor is paid only from an escrow that the node has settled, whatever fails at LND
\* and wherever the daemon dies (runClose, "not receivable"; finishClose).
THEOREM PaidIsReceived == Spec => []PayoutBacked
<1>1. IInv => PayoutBacked
  BY DEF IInv, Promises
<1> QED
  BY <1>1, Inductive, PTL

\* An escrow is settled only for its order's sponsor, or kept for a ruling; a customer who
\* wins after that gets it back by hand, and an operator has been told (I-002).
THEOREM EscrowIsForTheSponsor == Spec => []EscrowTakenForCause
<1>1. IInv => EscrowTakenForCause
  BY DEF IInv, Promises
<1> QED
  BY <1>1, Inductive, PTL

\* A deposit is kept only by the rule of the reason the trade is closed for, and no money is
\* held for a claim or a trade that is over (I-003; CLOSE_RULES, revertClaim, hooks.accepted).
THEOREM MoneyFollowsTheRule == Spec => []MoneyByRule
<1>1. IInv => MoneyByRule
  BY DEF IInv, Promises
<1> QED
  BY <1>1, Inductive, PTL

\* The daemon does not take its own settle for somebody else's (hooks.busy, disposing()).
THEOREM AlarmsAreTrue == Spec => []NoFalseAlarm
<1>1. IInv => NoFalseAlarm
  BY DEF IInv, Promises
<1> QED
  BY <1>1, Inductive, PTL

\* An escrow lost behind a sponsor who says he has paid has called an operator
\* (hooks.nodeCancelled, hooks.disposed, abandonClose).
THEOREM LossIsNoticed == Spec => []LossIsReported
<1>1. IInv => LossIsReported
  BY DEF IInv, HoldBook, EscrowIsKnown, Late, LossIsReported, Calls
<1> QED
  BY <1>1, Inductive, PTL

\* When a trade has ended nothing of it is alive at the node (finishClose writes the rows of
\* what the close has settled or cancelled, and no request opens an ended trade again).
THEOREM EndedIsEmpty == Spec => []NothingLeftHanging
<1>1. ASSUME IInv PROVE NothingLeftHanging
  <2> SUFFICES ASSUME order.state \in Terminal, NEW h \in DOMAIN holds
               PROVE  holds[h].node \notin {"open", "accepted"}
    BY DEF NothingLeftHanging, Ended
  <2>1. holds[h] \in HoldRow
    BY <1>1, RowOf
  <2>2. ~ LiveHold(holds[h]) /\ Truthful(holds[h])
    BY <1>1 DEF IInv, HoldBook, EndedIsClosed, FinalIsTrue
  <2>3. holds[h].status \in {"settled", "cancelled"}
    BY <2>1, <2>2 DEF LiveHold, HoldRow
  <2> QED
    BY <2>2, <2>3 DEF Truthful
<1> QED
  BY <1>1, Inductive, PTL

-----------------------------------------------------------------------------
(* The moves: no write of the order's row asks the table, but each is in it. *)

Legal == order.state \in OrderState /\ order'.state # order.state => MovesTo(order, order'.state)

LEMMA SoLegal ==
  ASSUME order \in OrderRow,
         \/ order'.state = order.state
         \/ order.state \in {"none", "draft"}
         \/ order.state = "claimed" /\ order'.state = "requested"
         \/ order.state = "claimed" /\ order'.state = "verified"
         \/ order.state = "verified" /\ order'.state = "escrowed"
         \/ order.state = "escrowed" /\ order'.state = "invoiced"
         \/ order.state = "invoiced" /\ order'.state = "remitted"
  PROVE  Legal
  BY Transitions DEF Legal, MovesTo, canTransition, OrderState

LEMMA WrittenState ==
  ASSUME order \in OrderRow, NEW s, order' = [order EXCEPT !.state = s]
  PROVE  order'.state = s
  BY DEF OrderRow

LEMMA LegalClose ==
  ASSUME order \in OrderRow, NEW r, beginClose(r) PROVE order'.state = order.state
  BY DEF beginClose, Closing, OrderRow

LEMMA LegalUndo ==
  ASSUME order \in OrderRow, order.state = "claimed", order' = Unclaimed(order) PROVE Legal
  BY Order_Unclaimed, SoLegal

LEMMA LegalRequests == IInv /\ (Requests \/ Commands) => Legal
<1> SUFFICES ASSUME IInv, Requests \/ Commands PROVE Legal
  OBVIOUS
<1>0. order \in OrderRow
  BY Typed
<1>1. CASE orderRequest \/ \E s \in Sponsors : designatedOrderRequest(s)
  BY <1>0, <1>1, SoLegal DEF orderRequest, designatedOrderRequest
<1>2. ASSUME NEW s \in Sponsors, claim(s) PROVE Legal
  BY <1>0, <1>2, Order_Claimed DEF claim, Legal
<1>3. CASE sponsorInvoice
  BY <1>0, <1>3, SoLegal, WrittenState DEF sponsorInvoice
<1>4. CASE accountInfo
  BY <1>0, <1>4, SoLegal, Order_Account DEF accountInfo, Stays
<1>5. CASE remitRequest
  BY <1>0, <1>5, SoLegal, WrittenState DEF remitRequest
<1>6. CASE cancelRequest
  BY <1>0, <1>6, SoLegal, LegalClose DEF cancelRequest
<1>7. CASE paymentConfirm \/ adminRule \/ adminForceClose
  BY <1>0, <1>7, SoLegal, LegalClose DEF paymentConfirm, adminRule, adminForceClose
<1>8. CASE adminApprove
  BY <1>0, <1>8, SoLegal DEF adminApprove, approve, OrderRow
<1>9. CASE adminRevertClaim
  BY <1>0, <1>9, LegalUndo DEF adminRevertClaim
<1> QED
  BY <1>1, <1>2, <1>3, <1>4, <1>5, <1>6, <1>7, <1>8, <1>9 DEF Requests, Commands

LEMMA LegalHooks ==
  ASSUME IInv, NEW h, NEW hs,
         \/ accepted(h, hs) \/ nodeCancelled(h, hs) \/ created(h, hs)
         \/ createFailed(h, hs) /\ hs[h].purpose \in {"customer", "sponsor", "escrow"}
  PROVE  Legal
<1>0. order \in OrderRow
  BY Typed
<1>1. CASE accepted(h, hs)
  <2>1. \/ order' = order
        \/ order.state = "draft"
        \/ order' = [order EXCEPT !.sponsorDeposit = h]
        \/ order.state = "verified" /\ order' = [order EXCEPT !.state = "escrowed"]
    BY <1>1 DEF accepted
  <2>2. order' = [order EXCEPT !.sponsorDeposit = h] => order'.state = order.state
    BY <1>0 DEF OrderRow
  <2> QED
    BY <1>0, <2>1, <2>2, SoLegal, WrittenState
<1>2. CASE nodeCancelled(h, hs)
  <2>1. \/ order' = order
        \/ order.state = "draft"
        \/ order.state = "claimed" /\ order' = Unclaimed(order)
        \/ \E r \in {"cancel:unpaid-escrow", overdue} : beginClose(r)
    BY <1>2 DEF nodeCancelled
  <2> QED
    BY <1>0, <2>1, SoLegal, LegalUndo, LegalClose
<1>3. CASE created(h, hs)
  <2>1. \/ order' = order
        \/ order.state = "claimed" /\ order' = [order EXCEPT !.state = "verified"]
    BY <1>3 DEF created, Wanted
  <2> QED
    BY <1>0, <2>1, SoLegal, WrittenState
<1>4. CASE createFailed(h, hs) /\ hs[h].purpose \in {"customer", "sponsor", "escrow"}
  <2>1. CASE hs[h].purpose = "customer"
    BY <1>0, <1>4, <2>1, SoLegal DEF createFailed
  <2>2. CASE hs[h].purpose = "sponsor"
    BY <1>0, <1>4, <2>2, SoLegal, LegalUndo DEF createFailed
  <2>3. CASE hs[h].purpose = "escrow"
    BY <1>0, <1>4, <2>3, SoLegal DEF createFailed, OrderRow
  <2> QED
    BY <1>4, <2>1, <2>2, <2>3
<1> QED
  BY <1>1, <1>2, <1>3, <1>4

LEMMA LegalWatching == IInv /\ Watching => Legal
<1> SUFFICES ASSUME IInv, Watching PROVE Legal
  OBVIOUS
<1>0. order \in OrderRow
  BY Typed
<1>1. CASE StartTick \/ PollLookupFails \/ ClockStarts
  BY <1>0, <1>1, SoLegal DEF StartTick, PollLookupFails, ClockStarts
<1>2. ASSUME NEW h \in DOMAIN holds, PollNext(h) PROVE Legal
  <2>1. \/ order' = order
        \/ \E hs \in {[holds EXCEPT ![h] = Became(holds[h], "accepted")],
                      [holds EXCEPT ![h] = Became(holds[h], "cancelled")]} :
             accepted(h, hs) \/ nodeCancelled(h, hs)
    BY <1>2 DEF PollNext, observe
  <2> QED
    BY <1>0, <2>1, SoLegal, LegalHooks
<1>3. CASE ClockClaims
  <2>1. CASE ClockDraft
    BY <1>0, <2>1, SoLegal DEF ClockDraft
  <2>2. CASE ClockClaimed
    <3>1. \/ order' = order
          \/ order.state = "claimed" /\ order' = Unclaimed(order)
          \/ order' = [order EXCEPT !.escrow = Len(holds')]
      BY <2>2 DEF ClockClaimed, approve
    <3>2. order' = [order EXCEPT !.escrow = Len(holds')] => order'.state = order.state
      BY <1>0 DEF OrderRow
    <3> QED
      BY <1>0, <3>1, <3>2, SoLegal, LegalUndo
  <2> QED
    BY <1>0, <1>3, <2>1, <2>2, SoLegal DEF ClockClaims
<1>4. CASE ClockVerified \/ ClockExpiry
  BY <1>0, <1>4, SoLegal, LegalClose DEF ClockVerified, ClockExpiry
<1> QED
  BY <1>1, <1>2, <1>3, <1>4 DEF Watching

LEMMA LegalEffects == IInv /\ Effects => Legal
<1> SUFFICES ASSUME IInv, Effects PROVE Legal
  OBVIOUS
<1>0. order \in OrderRow
  BY Typed
<1>1. ASSUME NEW h \in DOMAIN holds, HoldCreate(h) PROVE Legal
  <2> DEFINE r == holds[h]
             W(node, status) == [holds EXCEPT ![h] = CreatedRow(r, status, node)]
  <2>1. r \in HoldRow /\ r.node \in NodeStates /\ r.purpose \in {"customer", "sponsor", "escrow"}
    BY RowOf DEF HoldRow, NodeStates
  <2>2. \/ order' = order
        \/ createFailed(h, W("absent", "cancelled"))
        \/ created(h, W("open", "open"))
        \/ created(h, W(r.node, "open"))
    BY <1>1 DEF HoldCreate, CreatedRow
  <2>3. W("absent", "cancelled")[h] = CreatedRow(r, "cancelled", "absent")
    OBVIOUS
  <2>4. CreatedRow(r, "cancelled", "absent").purpose = r.purpose
    BY <2>1, Became_Ends DEF Statuses, NodeStates
  <2>5. W("absent", "cancelled")[h].purpose \in {"customer", "sponsor", "escrow"}
    BY <2>1, <2>3, <2>4
  <2> HIDE DEF W
  <2> QED
    BY <1>0, <2>2, <2>5, SoLegal, LegalHooks
<1>2. ASSUME NEW h \in DOMAIN holds,
             HoldCreateLost(h) \/ HoldDispose(h) \/ HoldDisposeLost(h) \/ CloseHold(h)
      PROVE  Legal
  BY <1>0, <1>2, SoLegal DEF HoldCreateLost, HoldDispose, HoldDisposeLost, CloseHold, AnswerLost
<1>3. CASE CloseStart \/ CloseInterrupted \/ EndTick
  BY <1>0, <1>3, SoLegal DEF CloseStart, CloseInterrupted, EndTick
<1>4. CASE CloseAbandoned
  BY <1>0, <1>4, SoLegal DEF CloseAbandoned, OrderRow
<1>5. CASE CloseFinished
  <2>1. pc = "closing" /\ order' = Closed(order)
    BY <1>5 DEF CloseFinished, InClosing
  <2>2. order'.state = rule.terminal
    BY <1>0, <2>1, TheClose, Order_Closed DEF rule
  <2>3. MovesTo(order, rule.terminal)
    BY <2>1, TheClose DEF IInv, OrderBook, CloseIsLegal, rule
  <2> QED
    BY <2>2, <2>3 DEF Legal
<1> QED
  BY <1>1, <1>2, <1>3, <1>4, <1>5 DEF Effects

\* The trade makes only moves of the state machine (TRANSITIONS), though no write of the row
\* asks for it but claim and beginClose, and a close that ends does not ask again
\* (updateOrder, finishClose): what is handled meanwhile leaves a closing trade where it is.
THEOREM MovesAreLegal == Spec => OnlyLegalMoves
<1>1. IInv /\ [Next]_vars => [Legal]_vars
  <2> SUFFICES ASSUME IInv, Next PROVE Legal
    OBVIOUS
  <2>1. CASE Crash \/ World
    <3>1. order' = order
      BY <2>1 DEF Crash, World, PayerPays, NodeGivesUp, PayByPasses, SponsorRemits, PhasePasses,
                  InvoiceWindowEnds, LifeDrops, WarmsUp, Clockwork, Outside
    <3> QED
      BY <3>1 DEF Legal
  <2> QED
    BY <2>1, LegalRequests, LegalWatching, LegalEffects DEF Next
<1>2. [Legal]_vars => [order.state \in OrderState /\ order'.state # order.state =>
                         MovesTo(order, order'.state)]_vars
  BY DEF Legal
<1> QED
  BY <1>1, <1>2, Inductive, PTL DEF Spec, OnlyLegalMoves

-----------------------------------------------------------------------------
(* The sponsor's KRW: with LND answering, the escrow behind a sponsor who    *)
(* may send it does not die.  The watcher sees each stretch of the HTLC's    *)
(* life (SeenInTime), asks for no KRW in the last ones (InvoicedInTime) and  *)
(* has settled before the last (SettledInTime).                              *)

ClockRuns == pc \in {"claims", "verified", "expiry"}
\* No close is on its way that gives the escrow back.
Taking == order.pendingClose # "none" => rule.escrow = "settle"
EscrowNode == holds[order.escrow].node

\* A row is polled only when its creation has been recorded.
Recorded(r) == r.status \in {"open", "accepted"} => ~ r.creating
RowsAreMade == \A h \in DOMAIN holds : Recorded(holds[h])
HeldWhileAlive == order.state \in Late /\ life > 0 /\ Taking => EscrowNode \in {"accepted", "settled"}
HeldForSponsor == order.state \in {"invoiced", "remitted"} /\ Taking =>
                    life > 0 \/ EscrowNode = "settled"
SeenInTime == heightOk = TRUE /\ seenLife <= life + 1
InvoicedInTime == order.state = "invoiced" /\ order.pendingClose = "none" /\ ~ ClockRuns =>
                    seenLife > ESCROW_END
SettledInTime ==
  order.state = "remitted" /\ order.pendingClose = "none" /\ ~ ClockRuns
    /\ seenLife <= SAFETY_SETTLE
  => holds[order.escrow].disposing = "settle" \/ EscrowNode = "settled"

InTime == RowsAreMade /\ HeldWhileAlive /\ HeldForSponsor /\ SeenInTime /\ InvoicedInTime
          /\ SettledInTime

\* What most steps have in common: the clocks stand, and the trade does not enter a late state.
ClocksStand == life' = life /\ seenLife' = seenLife /\ heightOk' = heightOk /\ (ClockRuns => ClockRuns')
SameTrade == order'.state \in Late =>
  /\ order'.state = order.state /\ order'.escrow = order.escrow
  /\ order'.pendingClose = order.pendingClose \/ order.pendingClose = "none"
EscrowKeeps(r, q) ==
  /\ r.node = "settled" => q.node = "settled"
  /\ r.node = "accepted" => q.node \in {"accepted", "settled"} \/ life = 0 \/ ~ Taking'
  /\ r.disposing = "settle" /\ r.node \in {"accepted", "settled"} =>
       q.disposing = "settle" \/ q.node = "settled"

LEMMA Slow ==
  ASSUME IInv, InTime, ClocksStand, SameTrade, RowsAreMade',
         order'.state \in Late => EscrowKeeps(holds[order.escrow], holds'[order.escrow])
  PROVE  InTime'
<1>1. SeenInTime'
  BY DEF InTime, SeenInTime, ClocksStand
<1>2. order'.state \in Late /\ Taking' => Taking
  BY DEF SameTrade, Taking, rule
<1>3. ~ ClockRuns' => ~ ClockRuns
  BY DEF ClocksStand
<1>4. order'.state \in Late /\ order'.pendingClose = "none" => order.pendingClose = "none"
  BY DEF SameTrade
<1>5. ASSUME order'.state \in Late
      PROVE  /\ order'.state = order.state /\ order'.escrow = order.escrow
             /\ EscrowNode = holds[order.escrow].node /\ EscrowNode' = holds'[order.escrow].node
             /\ EscrowKeeps(holds[order.escrow], holds'[order.escrow])
  BY <1>5 DEF SameTrade, EscrowNode
<1>6. life \in 0..4 /\ life' = life /\ seenLife' = seenLife
  BY Typed DEF Others, Lives, ClocksStand
<1>7. (life > 0) => life # 0
  BY <1>6
<1>8. HeldWhileAlive'
  BY <1>2, <1>5, <1>6, <1>7 DEF InTime, HeldWhileAlive, EscrowKeeps
<1>9. HeldForSponsor'
  BY <1>2, <1>5, <1>6 DEF InTime, HeldForSponsor, EscrowKeeps, Late
<1>10. InvoicedInTime'
  BY <1>3, <1>4, <1>5, <1>6 DEF InTime, InvoicedInTime, Late
<1>11. SettledInTime'
  <2>1. order.state = "remitted" /\ order.pendingClose = "none" =>
          EscrowNode \in {"accepted", "settled"}
    BY DEF InTime, HeldWhileAlive, HeldForSponsor, Taking, Late
  <2> QED
    BY <1>3, <1>4, <1>5, <1>6, <2>1 DEF InTime, SettledInTime, EscrowKeeps, Late
<1> QED
  BY <1>1, <1>8, <1>9, <1>10, <1>11 DEF InTime

\* Rows that are written without a word from the node or a wish withdrawn.
Light(r, q) == /\ Recorded(r) => Recorded(q)
               /\ q.node = r.node
               /\ r.disposing = "settle" => q.disposing = "settle"
Eased(hs, gs) == /\ DOMAIN hs \subseteq DOMAIN gs
                 /\ \A h \in DOMAIN hs : Light(hs[h], gs[h])
                 /\ \A h \in DOMAIN gs \ DOMAIN hs : Recorded(gs[h])

LEMMA Eased_Unchanged == ASSUME NEW hs PROVE Eased(hs, hs)
  BY DEF Eased, Light

LEMMA Eased_Disposed ==
  ASSUME NEW hs \in Seq(HoldRow), NEW H, NEW a \in {"settle", "cancel"}
  PROVE  Eased(hs, Disposed(hs, H, a)) /\ DOMAIN Disposed(hs, H, a) = DOMAIN hs
<1> DEFINE gs == Disposed(hs, H, a)
<1>1. DOMAIN gs = DOMAIN hs
  BY DEF Disposed
<1>2. ASSUME NEW h \in DOMAIN hs PROVE Light(hs[h], gs[h])
  <2>1. hs[h] \in HoldRow
    BY ElementOfSeq
  <2>2. gs[h] = IF h \in H /\ hs[h].disposing = "none"
                THEN [hs[h] EXCEPT !.disposing = a] ELSE hs[h]
    BY DEF Disposed
  <2> HIDE DEF gs
  <2>3. CASE h \in H /\ hs[h].disposing = "none"
    <3>1. gs[h] = [hs[h] EXCEPT !.disposing = a]
      BY <2>2, <2>3
    <3>2. /\ gs[h].status = hs[h].status /\ gs[h].node = hs[h].node
          /\ gs[h].creating = hs[h].creating
      BY <2>1, <3>1 DEF HoldRow
    <3> QED
      BY <2>3, <3>2 DEF Light, Recorded
  <2>4. CASE ~ (h \in H /\ hs[h].disposing = "none")
    BY <2>2, <2>4 DEF Light
  <2> QED
    BY <2>3, <2>4
<1> HIDE DEF gs
<1>3. Eased(hs, gs)
  BY <1>1, <1>2 DEF Eased
<1> QED
  BY <1>1, <1>3 DEF gs

LEMMA Eased_Planned ==
  ASSUME NEW hs \in Seq(HoldRow), NEW purpose, NEW party
  PROVE  Eased(hs, Planned(hs, purpose, party))
<1> DEFINE r == [purpose |-> purpose, party |-> party, status |-> "creating", node |-> "absent",
                 creating |-> TRUE, disposing |-> "none", due |-> FALSE, paid |-> FALSE]
           gs == Append(hs, r)
<1>1. Planned(hs, purpose, party) = gs /\ Recorded(r)
  BY DEF Planned, Recorded
<1> HIDE DEF r
<1>2. DOMAIN hs = 1..Len(hs) /\ Len(hs) \in Nat /\ DOMAIN gs = 1..(Len(hs) + 1)
      /\ \A h \in DOMAIN gs : gs[h] = IF h = Len(hs) + 1 THEN r ELSE hs[h]
  OBVIOUS
<1> HIDE DEF gs
<1>3. \A h \in DOMAIN hs : h \in DOMAIN gs /\ gs[h] = hs[h]
  BY <1>2
<1>4. \A h \in DOMAIN gs \ DOMAIN hs : gs[h] = r
  BY <1>2
<1>5. Eased(hs, gs)
  BY <1>1, <1>3, <1>4 DEF Eased, Light
<1> QED
  BY <1>1, <1>5

LEMMA Eased_Twice ==
  ASSUME NEW hs, NEW gs, NEW fs, Eased(hs, gs), Eased(gs, fs), DOMAIN gs = DOMAIN hs
  PROVE  Eased(hs, fs)
  BY DEF Eased, Light

\* The order's escrow, in the late states, is a row.
LEMMA LateEscrow ==
  ASSUME IInv, order.state \in Late
  PROVE  order.escrow # 0 /\ order.escrow \in DOMAIN holds
         /\ holds[order.escrow].status \in {"accepted", "settled", "cancelled"}
         /\ holds[order.escrow].disposing # "cancel"
  BY DEF IInv, HoldBook, EscrowIsKnown, OrderBook, EscrowIsThere

LEMMA SlowRows ==
  ASSUME IInv, InTime, ClocksStand, SameTrade, Eased(holds, holds')
  PROVE  InTime'
<1>1. RowsAreMade'
  BY DEF InTime, RowsAreMade, Eased, Light
<1>2. order'.state \in Late => order.state \in Late
  BY DEF SameTrade
<1>3. order'.state \in Late => EscrowKeeps(holds[order.escrow], holds'[order.escrow])
  BY <1>2, LateEscrow DEF Eased, Light, EscrowKeeps
<1> QED
  BY <1>1, <1>3, Slow

LEMMA SlowTrade ==
  ASSUME IInv, \/ order' = order \/ order'.state \notin Late
               \/ \E r : beginClose(r) \/ order' = [order EXCEPT !.accountSent = TRUE]
  PROVE  SameTrade
<1>1. order \in OrderRow
  BY Typed
<1>2. CASE order' = order \/ order'.state \notin Late
  BY <1>2 DEF SameTrade
<1>3. ASSUME NEW r, beginClose(r) PROVE SameTrade
  <2>1. order' = [order EXCEPT !.pendingClose = r] /\ order.pendingClose = "none"
    BY <1>3 DEF beginClose, Closing, MayClose
  <2>2. order'.state = order.state /\ order'.escrow = order.escrow
    BY <1>1, <2>1 DEF OrderRow
  <2> QED
    BY <2>1, <2>2 DEF SameTrade
<1>4. CASE order' = [order EXCEPT !.accountSent = TRUE]
  BY <1>1, <1>4 DEF OrderRow, SameTrade
<1> QED
  BY <1>2, <1>3, <1>4

LEMMA Eased_Reverted ==
  ASSUME NEW hs \in Seq(HoldRow), NEW o
  PROVE  Eased(hs, Reverted(hs, o)) /\ DOMAIN Reverted(hs, o) = DOMAIN hs
  BY Eased_Disposed DEF Reverted

LEMMA KrwRequests ==
  ASSUME IInv, InTime, Requests \/ Commands PROVE InTime'
<1>0. order \in OrderRow /\ holds \in Seq(HoldRow)
  BY Typed DEF Whole
<1> DEFINE Off == order'.state \notin Late
<1>1. ASSUME Handling, SameTrade, Eased(holds, holds') PROVE InTime'
  <2>1. ClocksStand
    BY <1>1 DEF Handling, ClocksStand, time, ClockRuns
  <2> QED
    BY <1>1, <2>1, SlowRows
<1>2. UNCHANGED holds => Eased(holds, holds')
  BY Eased_Unchanged
<1>3. Off => SameTrade
  BY DEF SameTrade
<1>4. ASSUME NEW draft, planCustomerDeposit(draft), draft \in OrderRow, draft.state \notin Late
      PROVE  Off /\ Eased(holds, holds')
  <2>1. /\ order' = draft \/ order' = [draft EXCEPT !.state = "none"]
        /\ UNCHANGED holds \/ holds' = Planned(holds, "customer", "customer")
    BY <1>4 DEF planCustomerDeposit
  <2>2. Off
    BY <1>4, <2>1 DEF OrderRow, Late
  <2> QED
    BY <1>0, <1>2, <2>1, <2>2, Eased_Planned
<1>5. CASE orderRequest
  <2>1. CASE "customer" \in Deposits
    <3> DEFINE draft == [order EXCEPT !.state = "draft"]
    <3>1. draft \in OrderRow /\ draft.state \notin Late
      BY <1>0, Order_State DEF OrderStates, Late
    <3>2. Handling /\ planCustomerDeposit(draft)
      BY <1>5, <2>1 DEF orderRequest
    <3> HIDE DEF draft
    <3> QED
      BY <1>1, <1>3, <1>4, <3>1, <3>2
  <2>2. CASE "customer" \notin Deposits
    <3>1. Handling /\ order' = [order EXCEPT !.state = "requested"] /\ UNCHANGED holds
      BY <1>5, <2>2 DEF orderRequest
    <3>2. Off
      BY <1>0, <3>1 DEF OrderRow, Late
    <3> QED
      BY <1>1, <1>2, <1>3, <3>1, <3>2
  <2> QED
    BY <2>1, <2>2
<1>6. ASSUME NEW s \in Sponsors, designatedOrderRequest(s) PROVE InTime'
  <2>1. order'.state = "requested"
    BY <1>0, <1>6, Order_Designated DEF designatedOrderRequest
  <2> QED
    BY <1>1, <1>2, <1>3, <1>6, <2>1 DEF designatedOrderRequest, Late
<1>7. ASSUME NEW s \in Sponsors, claim(s) PROVE InTime'
  <2>1. order'.state = "claimed"
    BY <1>0, <1>7, Order_Claimed DEF claim
  <2>2. UNCHANGED holds \/ holds' = Planned(holds, "sponsor", s)
    BY <1>7 DEF claim, planSponsorDeposit
  <2>3. Eased(holds, holds')
    BY <1>0, <1>2, <2>2, Eased_Planned
  <2> QED
    BY <1>1, <1>3, <1>7, <2>1, <2>3 DEF claim, Late
<1>8. CASE sponsorInvoice
  <2>1. /\ order.state = "escrowed" /\ order.pendingClose = "none" /\ seenLife >= 4
        /\ order' = [order EXCEPT !.state = "invoiced"] /\ UNCHANGED <<holds, pc, life, seenLife, heightOk>>
    BY <1>8 DEF sponsorInvoice, Handling, time, INVOICE_ESCROW_MIN
  <2>2. /\ order'.state = "invoiced" /\ order'.escrow = order.escrow
        /\ order'.pendingClose = "none"
    BY <1>0, <2>1 DEF OrderRow
  <2>3. life \in 0..4 /\ seenLife \in 0..4 /\ seenLife <= life + 1
    BY Typed DEF Others, Lives, InTime, SeenInTime
  <2>4. Taking /\ life > 0 /\ life' = life
    BY <2>1, <2>3 DEF Taking
  <2>5. EscrowNode \in {"accepted", "settled"} /\ EscrowNode' = EscrowNode
    BY <2>1, <2>2, <2>4 DEF InTime, HeldWhileAlive, Late, EscrowNode
  <2>6. RowsAreMade' /\ SeenInTime'
    BY <2>1 DEF InTime, RowsAreMade, SeenInTime
  <2>7. HeldWhileAlive' /\ HeldForSponsor'
    BY <2>4, <2>5 DEF HeldWhileAlive, HeldForSponsor
  <2>8. InvoicedInTime' /\ SettledInTime'
    BY <2>1, <2>2, <2>3 DEF InvoicedInTime, SettledInTime, ESCROW_END
  <2> QED
    BY <2>6, <2>7, <2>8 DEF InTime
<1>9. CASE accountInfo
  BY <1>1, <1>2, <1>9, SlowTrade DEF accountInfo
<1>10. CASE remitRequest
  <2>1. CASE UNCHANGED order
    BY <1>1, <1>2, <1>10, <2>1, SlowTrade DEF remitRequest
  <2>2. CASE order' # order
    <3>1. /\ order.state = "invoiced" /\ order.pendingClose = "none" /\ pc = "dispatch"
          /\ order' = [order EXCEPT !.state = "remitted"]
          /\ UNCHANGED <<holds, pc, life, seenLife, heightOk>>
      BY <1>10, <2>2 DEF remitRequest, Handling, time, closing
    <3>2. /\ order'.state = "remitted" /\ order'.escrow = order.escrow
          /\ order'.pendingClose = "none"
      BY <1>0, <3>1 DEF OrderRow
    <3>3. Taking /\ life' = life /\ EscrowNode' = EscrowNode
      BY <3>1, <3>2 DEF Taking, EscrowNode
    <3>4. seenLife > 2 /\ seenLife' = seenLife /\ seenLife \in 0..4
      BY <3>1, Typed DEF InTime, InvoicedInTime, ClockRuns, ESCROW_END, Others, Lives
    <3>5. RowsAreMade' /\ SeenInTime'
      BY <3>1 DEF InTime, RowsAreMade, SeenInTime
    <3>6. HeldWhileAlive' /\ HeldForSponsor'
      BY <3>1, <3>3 DEF InTime, HeldWhileAlive, HeldForSponsor, Late
    <3>7. InvoicedInTime' /\ SettledInTime'
      BY <3>2, <3>4 DEF InvoicedInTime, SettledInTime, SAFETY_SETTLE
    <3> QED
      BY <3>5, <3>6, <3>7 DEF InTime
  <2> QED
    BY <2>1, <2>2
<1>11. CASE cancelRequest
  <2>1. \/ order' = [order EXCEPT !.state = "none"] /\ \E H : holds' = Disposed(holds, H, "cancel")
        \/ (\E r : beginClose(r)) /\ UNCHANGED holds
    BY <1>11 DEF cancelRequest
  <2>2. order' = [order EXCEPT !.state = "none"] => Off
    BY <1>0 DEF OrderRow, Late
  <2>3. SameTrade
    BY <2>1, <2>2, <1>3, SlowTrade
  <2>4. Eased(holds, holds')
    BY <1>0, <1>2, <2>1, Eased_Disposed
  <2> QED
    BY <1>1, <1>11, <2>3, <2>4 DEF cancelRequest
<1>12. CASE paymentConfirm \/ adminRule \/ adminForceClose
  <2>1. Handling /\ UNCHANGED holds /\ \E r : beginClose(r)
    BY <1>12 DEF paymentConfirm, adminRule, adminForceClose
  <2> QED
    BY <1>1, <1>2, <2>1, SlowTrade
<1>13. CASE adminApprove
  <2>1. /\ Handling /\ order.state = "claimed" /\ holds' = Planned(holds, "escrow", "customer")
        /\ order' = [order EXCEPT !.escrow = Len(holds')]
    BY <1>13 DEF adminApprove, approve, approveBlocked
  <2>2. Off
    BY <1>0, <2>1 DEF OrderRow, Late
  <2> QED
    BY <1>0, <1>1, <1>3, <2>1, <2>2, Eased_Planned
<1>14. CASE adminRevertClaim
  <2>1. Handling /\ holds' = Reverted(holds, order) /\ order' = Unclaimed(order)
    BY <1>14 DEF adminRevertClaim
  <2>2. Off
    BY <1>0, <2>1, Order_Unclaimed DEF Late
  <2> QED
    BY <1>0, <1>1, <1>3, <2>1, <2>2, Eased_Reverted
<1> QED
  BY <1>5, <1>6, <1>7, <1>8, <1>9, <1>10, <1>11, <1>12, <1>13, <1>14 DEF Requests, Commands

\* A row that the poll has written, its effects as they were.
LEMMA Eased_Became ==
  ASSUME IInv, NEW h \in DOMAIN holds, NEW s \in Statuses,
         s = "accepted" => holds[h].status = "open", s # "open",
         NEW hs, hs = [holds EXCEPT ![h] = Became(holds[h], s)]
  PROVE  Eased(holds, hs) /\ DOMAIN hs = DOMAIN holds /\ hs \in Seq(HoldRow)
<1> DEFINE q == Became(holds[h], s)
<1>1. /\ q \in HoldRow /\ q.status = s /\ q.node = holds[h].node
      /\ q.disposing = holds[h].disposing /\ q.creating = holds[h].creating
  BY RowOf, Became_Row
<1>2. hs = [holds EXCEPT ![h] = q]
  OBVIOUS
<1> HIDE DEF q
<1>3. /\ Whole(hs) /\ DOMAIN hs = DOMAIN holds /\ hs[h] = q
      /\ \A g \in DOMAIN holds \ {h} : hs[g] = holds[g]
  BY <1>1, <1>2, OneRow
<1>4. Light(holds[h], q)
  BY <1>1 DEF Light, Recorded
<1>5. Eased(holds, hs)
  BY <1>3, <1>4 DEF Eased, Light
<1> QED
  BY <1>3, <1>5 DEF Whole

LEMMA KrwPolls ==
  ASSUME IInv, InTime, NEW h \in DOMAIN holds, PollNext(h) PROVE InTime'
<1> DEFINE Off == order'.state \notin Late
           Now(s) == [holds EXCEPT ![h] = Became(holds[h], s)]
<1>0. order \in OrderRow
  BY Typed
<1>1. ClocksStand /\ pc = "poll" /\ observe(h)
  BY DEF PollNext, ClocksStand, time, ClockRuns
<1>2. ASSUME SameTrade, Eased(holds, holds') PROVE InTime'
  BY <1>1, <1>2, SlowRows
<1>3. Off => SameTrade
  BY DEF SameTrade
<1>4. CASE UNCHANGED <<order, holds>>
  BY <1>2, <1>4, SlowTrade, Eased_Unchanged
<1>5. CASE /\ holds[h].node = "accepted" /\ holds[h].status = "open"
           /\ accepted(h, Now("accepted"))
  <2> DEFINE hs == Now("accepted")
  <2>1. Eased(holds, hs) /\ DOMAIN hs = DOMAIN holds /\ hs \in Seq(HoldRow)
    BY <1>5, Eased_Became DEF Statuses
  <2>2. hs[h] = Became(holds[h], "accepted")
    OBVIOUS
  <2>3. accepted(h, hs)
    BY <1>5
  <2> HIDE DEF hs
  <2>4. \/ holds' = hs /\ order' = [order EXCEPT !.state = "requested"]
        \/ holds' = Disposed(hs, {h}, "cancel") /\ UNCHANGED order
        \/ holds' = hs /\ order' = [order EXCEPT !.sponsorDeposit = h]
        \/ /\ holds' = hs /\ order.state = "verified" /\ order.pendingClose = "none"
           /\ order.escrow = h /\ order' = [order EXCEPT !.state = "escrowed"]
        \/ holds' = hs /\ UNCHANGED order
    BY <2>3 DEF accepted
  <2>5. Eased(holds, holds')
    BY <2>1, <2>4, Eased_Disposed, Eased_Twice
  <2>6. CASE UNCHANGED order
    BY <1>2, <2>5, <2>6, SlowTrade
  <2>7. CASE order' = [order EXCEPT !.state = "requested"]
    <3>1. Off
      BY <1>0, <2>7 DEF OrderRow, Late
    <3> QED
      BY <1>2, <1>3, <2>5, <3>1
  <2>8. CASE order' = [order EXCEPT !.sponsorDeposit = h]
    <3>1. SameTrade
      BY <1>0, <2>8 DEF OrderRow, SameTrade
    <3> QED
      BY <1>2, <2>5, <3>1
  <2>9. CASE /\ holds' = hs /\ order.escrow = h /\ order.pendingClose = "none"
             /\ order' = [order EXCEPT !.state = "escrowed"]
    <3>1. order'.state = "escrowed" /\ order'.escrow = h
      BY <1>0, <2>9 DEF OrderRow
    <3>2. EscrowNode' = "accepted"
      BY <1>5, <2>2, <2>9, <3>1, RowOf, Became_Row DEF EscrowNode, Statuses
    <3>3. RowsAreMade'
      BY <2>5 DEF InTime, RowsAreMade, Eased, Light
    <3>4. SeenInTime'
      BY <1>1 DEF InTime, SeenInTime, ClocksStand
    <3> QED
      BY <3>1, <3>2, <3>3, <3>4 DEF InTime, HeldWhileAlive, HeldForSponsor, InvoicedInTime, SettledInTime
  <2> QED
    BY <2>4, <2>6, <2>7, <2>8, <2>9
<1>6. CASE holds' = Now("settled") /\ UNCHANGED order
  <2>1. Eased(holds, holds')
    BY <1>6, Eased_Became DEF Statuses
  <2> QED
    BY <1>2, <1>6, <2>1, SlowTrade
<1>7. CASE nodeCancelled(h, Now("cancelled"))
  <2> DEFINE hs == Now("cancelled")
  <2>1. Eased(holds, hs) /\ DOMAIN hs = DOMAIN holds /\ hs \in Seq(HoldRow)
    BY Eased_Became DEF Statuses
  <2>2. nodeCancelled(h, hs)
    BY <1>7
  <2> HIDE DEF hs
  <2>3. /\ holds' = hs \/ holds' = Reverted(hs, order)
        /\ \/ order' = [order EXCEPT !.state = "none"]
           \/ UNCHANGED order
           \/ order' = Unclaimed(order)
           \/ \E r : beginClose(r)
    BY <2>2 DEF nodeCancelled
  <2>4. Eased(holds, holds')
    BY <2>1, <2>3, Eased_Reverted, Eased_Twice
  <2>5. order' = [order EXCEPT !.state = "none"] \/ order' = Unclaimed(order) => Off
    BY <1>0, Order_Unclaimed DEF OrderRow, Late
  <2> QED
    BY <1>2, <1>3, <2>3, <2>4, <2>5, SlowTrade
<1> QED
  BY <1>1, <1>4, <1>5, <1>6, <1>7 DEF observe

LEMMA KrwClock ==
  ASSUME IInv, InTime, Failing = {},
         \/ StartTick \/ PollLookupFails \/ ClockStarts \/ ClockClaims \/ ClockVerified \/ ClockExpiry
  PROVE  InTime'
<1> DEFINE Off == order'.state \notin Late
<1>0. order \in OrderRow /\ holds \in Seq(HoldRow)
  BY Typed DEF Whole
<1>1. CASE StartTick \/ PollLookupFails
  <2>1. UNCHANGED <<order, holds>> /\ ClocksStand
    BY <1>1 DEF StartTick, PollLookupFails, ClocksStand, time, ClockRuns
  <2> QED
    BY <2>1, SlowRows, SlowTrade, Eased_Unchanged
<1>2. CASE ClockStarts
  <2>1. /\ UNCHANGED <<order, holds, life>> /\ heightOk' = TRUE /\ seenLife' = life /\ pc' = "claims"
    BY <1>2 DEF ClockStarts, time
  <2>2. life \in 0..4
    BY Typed DEF Others, Lives
  <2>3. SeenInTime'
    BY <2>1, <2>2 DEF SeenInTime
  <2>4. InvoicedInTime' /\ SettledInTime'
    BY <2>1 DEF InvoicedInTime, SettledInTime, ClockRuns
  <2>5. RowsAreMade' /\ HeldWhileAlive' /\ HeldForSponsor'
    BY <2>1 DEF InTime, RowsAreMade, HeldWhileAlive, HeldForSponsor, Taking, rule, EscrowNode
  <2> QED
    BY <2>3, <2>4, <2>5 DEF InTime
<1>3. CASE ClockClaims
  <2>1. ClocksStand
    BY <1>3 DEF ClockClaims, Ticking, ClocksStand, time, ClockRuns
  <2>2. \/ UNCHANGED <<order, holds>>
        \/ Off /\ Eased(holds, holds')
    <3>1. CASE ClockDraft
      <4>1. order.state = "draft"
        BY <3>1 DEF ClockDraft
      <4>2. \/ UNCHANGED holds \/ holds' = Planned(holds, "customer", "customer")
            \/ \E H : holds' = Disposed(holds, H, "cancel")
        BY <3>1 DEF ClockDraft, planCustomerDeposit
      <4>3. order' = order \/ order' = [order EXCEPT !.state = "none"]
        BY <3>1 DEF ClockDraft, planCustomerDeposit
      <4>4. Off
        BY <1>0, <4>1, <4>3 DEF OrderRow, Late
      <4> QED
        BY <1>0, <4>2, <4>4, Eased_Unchanged, Eased_Planned, Eased_Disposed
    <3>2. CASE ClockClaimed
      <4>1. order.state = "claimed"
        BY <3>2 DEF ClockClaimed
      <4>2. \/ UNCHANGED holds \/ \E p, w : holds' = Planned(holds, p, w)
            \/ holds' = Reverted(holds, order)
        BY <3>2 DEF ClockClaimed, planSponsorDeposit, approve
      <4>3. order' = order \/ order' = Unclaimed(order) \/ order' = [order EXCEPT !.escrow = Len(holds')]
        BY <3>2 DEF ClockClaimed, approve
      <4>4. order' = order \/ order' = [order EXCEPT !.escrow = Len(holds')] => order'.state = "claimed"
        BY <1>0, <4>1 DEF OrderRow
      <4>5. Off
        BY <1>0, <4>3, <4>4, Order_Unclaimed DEF Late
      <4> QED
        BY <1>0, <4>2, <4>5, Eased_Unchanged, Eased_Planned, Eased_Reverted
    <3> QED
      BY <1>3, <3>1, <3>2 DEF ClockClaims
  <2> QED
    BY <2>1, <2>2, SlowRows, SlowTrade, Eased_Unchanged
<1>4. CASE ClockVerified
  <2>1. ClocksStand /\ UNCHANGED holds /\ (UNCHANGED order \/ \E r : beginClose(r))
    BY <1>4 DEF ClockVerified, Ticking, ClocksStand, time, ClockRuns
  <2> QED
    BY <2>1, SlowRows, SlowTrade, Eased_Unchanged
<1>5. CASE ClockExpiry
  <2>1. /\ pc = "expiry" /\ pc' = "effects" /\ life' = life /\ seenLife' = seenLife
        /\ heightOk' = heightOk
    BY <1>5 DEF ClockExpiry, Ticking, time
  <2>2. SameTrade /\ Eased(holds, holds')
    <3>1. \/ UNCHANGED order \/ \E r : beginClose(r)
      BY <1>5 DEF ClockExpiry
    <3>2. UNCHANGED holds \/ holds' = Disposed(holds, {order.escrow}, "settle")
      BY <1>5 DEF ClockExpiry
    <3> QED
      BY <1>0, <3>1, <3>2, SlowTrade, Eased_Unchanged, Eased_Disposed
  <2>3. RowsAreMade' /\ SeenInTime'
    BY <2>1, <2>2 DEF InTime, RowsAreMade, Eased, Light, SeenInTime
  <2>4. ASSUME order.state \in Late
        PROVE  order.escrow # 0 /\ order.escrow \in DOMAIN holds
               /\ holds[order.escrow].status \in {"accepted", "settled", "cancelled"}
               /\ holds[order.escrow].disposing \in {"none", "settle"}
               /\ Truthful(holds[order.escrow])
    BY <2>4, LateEscrow, RowOf DEF IInv, HoldBook, FinalIsTrue, HoldRow, Maybe
  <2>5. CASE Expires /\ beginClose(overdue) /\ UNCHANGED holds
    <3>1. /\ order.pendingClose = "none" /\ overdue # "none"
          /\ order' = [order EXCEPT !.pendingClose = overdue]
      BY <2>5 DEF Expires, beginClose, Closing
    <3>2. order'.state = order.state /\ order'.escrow = order.escrow /\ order'.pendingClose # "none"
      BY <1>0, <3>1 DEF OrderRow
    <3>3. Taking /\ EscrowNode' = EscrowNode
      BY <2>5, <3>1, <3>2 DEF Taking, EscrowNode
    <3>4. HeldWhileAlive' /\ HeldForSponsor'
      BY <2>1, <3>2, <3>3 DEF InTime, HeldWhileAlive, HeldForSponsor
    <3>5. InvoicedInTime' /\ SettledInTime'
      BY <3>2 DEF InvoicedInTime, SettledInTime
    <3> QED
      BY <2>3, <3>4, <3>5 DEF InTime
  <2>6. CASE /\ SafetySettleDue /\ UNCHANGED order
             /\ holds' = Disposed(holds, {order.escrow}, "settle")
    <3>1. order.state = "remitted" /\ order.state \in Late
      BY <2>6 DEF SafetySettleDue, Late
    <3>2. /\ holds'[order.escrow].node = holds[order.escrow].node
          /\ holds'[order.escrow].disposing = "settle"
      BY <1>0, <2>4, <2>6, <3>1, Disposed_Rows
    <3>3. HeldWhileAlive' /\ HeldForSponsor'
      BY <2>1, <2>6, <3>2 DEF InTime, HeldWhileAlive, HeldForSponsor, Taking, rule, EscrowNode
    <3>4. InvoicedInTime' /\ SettledInTime'
      BY <2>6, <3>1, <3>2 DEF InvoicedInTime, SettledInTime
    <3> QED
      BY <2>3, <3>3, <3>4 DEF InTime
  <2>7. CASE ~ Expires /\ ~ SafetySettleDue /\ UNCHANGED <<order, holds>>
    <3>1. HeldWhileAlive' /\ HeldForSponsor'
      BY <2>1, <2>7 DEF InTime, HeldWhileAlive, HeldForSponsor, Taking, rule, EscrowNode
    <3>2. heightOk = TRUE /\ life \in 0..4 /\ seenLife \in 0..4
      BY Typed DEF InTime, SeenInTime, Others, Lives
    <3>3. ASSUME order.state = "invoiced", order.pendingClose = "none" PROVE seenLife > 2
      <4>1. overdue # "none"
        BY <3>3 DEF overdue, expiryReasonFor
      <4>2. ~ escrowEnding(ESCROW_END)
        BY <2>7, <3>3, <4>1 DEF Expires
      <4> QED
        BY <2>4, <3>2, <3>3, <4>2 DEF escrowEnding, ESCROW_END, Late
    <3>4. ASSUME order.state = "remitted", order.pendingClose = "none", seenLife <= 1
          PROVE  EscrowNode = "settled"
      <4>1. escrowEnding(SAFETY_SETTLE) \/ holds[order.escrow].status = "accepted" =>
              holds[order.escrow].status # "accepted"
        BY <2>4, <2>7, <3>2, <3>4 DEF SafetySettleDue, escrowEnding, SAFETY_SETTLE, Late
      <4>2. EscrowNode \in {"accepted", "settled"}
        BY <3>2, <3>4 DEF InTime, HeldWhileAlive, HeldForSponsor, Taking, Late
      <4> QED
        BY <2>4, <3>4, <4>1, <4>2 DEF Truthful, EscrowNode, Late
    <3>5. InvoicedInTime' /\ SettledInTime'
      BY <2>1, <2>7, <3>3, <3>4 DEF InvoicedInTime, SettledInTime, ESCROW_END, SAFETY_SETTLE, EscrowNode
    <3> QED
      BY <2>3, <3>1, <3>5 DEF InTime
  <2> QED
    BY <1>5, <2>5, <2>6, <2>7 DEF ClockExpiry
<1> QED
  BY <1>1, <1>2, <1>3, <1>4, <1>5

\* One row is written, q, and others at most eased.
LEMMA KrwRow ==
  ASSUME IInv, InTime, ClocksStand, SameTrade, NEW h \in DOMAIN holds, NEW q \in HoldRow,
         NEW hs, hs = [holds EXCEPT ![h] = q], Eased(hs, holds'), DOMAIN holds' = DOMAIN hs,
         Recorded(q), order.state \in Late /\ h = order.escrow => EscrowKeeps(holds[h], q)
  PROVE  InTime'
<1>1. /\ DOMAIN hs = DOMAIN holds /\ hs[h] = q
      /\ \A g \in DOMAIN holds \ {h} : hs[g] = holds[g]
  BY OneRow
<1>2. \A g \in DOMAIN holds : Light(hs[g], holds'[g])
  BY <1>1 DEF Eased
<1>3. RowsAreMade'
  <2>1. ASSUME NEW g \in DOMAIN holds PROVE Recorded(hs[g])
    BY <1>1 DEF InTime, RowsAreMade
  <2> QED
    BY <1>1, <1>2, <2>1 DEF RowsAreMade, Light
<1>4. ASSUME order'.state \in Late
      PROVE  EscrowKeeps(holds[order.escrow], holds'[order.escrow])
  <2>1. order.state \in Late /\ order.escrow \in DOMAIN holds
    BY <1>4, LateEscrow DEF SameTrade
  <2>2. EscrowKeeps(holds[order.escrow], hs[order.escrow])
    BY <1>1, <2>1 DEF EscrowKeeps
  <2>3. Light(hs[order.escrow], holds'[order.escrow])
    BY <1>2, <2>1
  <2> QED
    BY <2>2, <2>3 DEF EscrowKeeps, Light
<1> QED
  BY <1>3, <1>4, Slow

LEMMA KrwCreates ==
  ASSUME IInv, InTime, NEW h \in DOMAIN holds, HoldCreate(h) PROVE InTime'
<1> DEFINE r == holds[h]
           Off == order'.state \notin Late
           q(node, status) == CreatedRow(r, status, node)
           W(node, status) == [holds EXCEPT ![h] = q(node, status)]
<1>0. order \in OrderRow /\ r \in HoldRow /\ r.status \in Statuses /\ r.node \in NodeStates
      /\ r.purpose \in {"customer", "sponsor", "escrow"}
  BY Typed, RowOf DEF HoldRow, Statuses, NodeStates
<1>1. ClocksStand /\ r.creating
  BY DEF HoldCreate, InEffects, ClocksStand, time, ClockRuns
<1>2. r.status \notin {"open", "accepted"}
  BY <1>1 DEF InTime, RowsAreMade, Recorded
<1>3. \/ /\ r.status # "creating"
         /\ holds' = W(settleOrCancel(r, "cancel"), r.status) /\ UNCHANGED order
      \/ r.status = "creating" /\ createFailed(h, W("absent", "cancelled"))
      \/ r.status = "creating" /\ created(h, W("open", "open"))
      \/ r.status = "creating" /\ created(h, W(r.node, "open"))
  BY DEF HoldCreate, CreatedRow
<1>4. ASSUME NEW node \in NodeStates, NEW status \in Statuses
      PROVE  /\ q(node, status) \in HoldRow /\ q(node, status).status = status
             /\ q(node, status).node = node /\ q(node, status).disposing = r.disposing
             /\ q(node, status).purpose = r.purpose
  BY <1>0, <1>4, Became_Ends
<1>5. ASSUME NEW node \in NodeStates, NEW status \in Statuses PROVE Recorded(q(node, status))
  <2> DEFINE b == Became(r, status)
  <2>1. b \in HoldRow
    BY <1>0, Became_Row
  <2>2. q(node, status) = [b EXCEPT !.node = node, !.creating = FALSE]
    BY DEF CreatedRow
  <2> HIDE DEF b, q
  <2>3. q(node, status).creating = FALSE
    BY <2>1, <2>2 DEF HoldRow
  <2> QED
    BY <2>3 DEF Recorded
<1>6. ASSUME NEW node \in NodeStates, NEW status \in Statuses
      PROVE  LET hs == W(node, status) IN
             /\ hs \in Seq(HoldRow) /\ DOMAIN hs = DOMAIN holds /\ hs[h] = q(node, status)
  BY <1>4, OneRow DEF Whole
<1>7. CASE /\ r.status # "creating" /\ UNCHANGED order
           /\ holds' = W(settleOrCancel(r, "cancel"), r.status)
  <2> DEFINE n == settleOrCancel(r, "cancel")
  <2>1. n \in NodeStates /\ (r.node \in {"absent", "settled", "cancelled"} => n = r.node)
    BY <1>0, SettleOrCancel
  <2>2. Truthful(r)
    BY DEF IInv, HoldBook, FinalIsTrue
  <2>3. r.node \in {"absent", "settled", "cancelled"}
    BY <1>0, <1>2, <1>7, <2>2 DEF Truthful, Statuses
  <2> HIDE DEF n, q, r
  <2>4. EscrowKeeps(r, q(n, r.status))
    BY <1>0, <1>4, <2>1, <2>3 DEF EscrowKeeps
  <2>5. SameTrade /\ Eased(holds', holds')
    BY <1>7, SlowTrade, Eased_Unchanged
  <2>6. q(n, r.status) \in HoldRow /\ Recorded(q(n, r.status))
    BY <1>0, <1>4, <1>5, <2>1
  <2>7. holds' = [holds EXCEPT ![h] = q(n, r.status)]
    BY <1>7 DEF n
  <2> QED
    BY <1>1, <2>4, <2>5, <2>6, <2>7, KrwRow DEF r
<1>8. ASSUME r.status = "creating", SameTrade, NEW node \in NodeStates, NEW status \in Statuses,
             \/ holds' = W(node, status) \/ holds' = Reverted(W(node, status), order)
             \/ holds' = Disposed(W(node, status), {h}, "cancel")
      PROVE  InTime'
  <2> DEFINE hs == W(node, status)
  <2>1. hs \in Seq(HoldRow) /\ DOMAIN hs = DOMAIN holds /\ hs = [holds EXCEPT ![h] = q(node, status)]
    BY <1>6
  <2>2. holds' = hs \/ holds' = Reverted(hs, order) \/ holds' = Disposed(hs, {h}, "cancel")
    BY <1>8
  <2>3. q(node, status) \in HoldRow /\ Recorded(q(node, status))
    BY <1>4, <1>5
  <2> HIDE DEF hs, q
  <2>4. Eased(hs, holds') /\ DOMAIN holds' = DOMAIN hs
    <3>1. Eased(hs, hs)
      BY Eased_Unchanged
    <3>2. Eased(hs, Reverted(hs, order)) /\ DOMAIN Reverted(hs, order) = DOMAIN hs
      BY <2>1, Eased_Reverted
    <3>3. Eased(hs, Disposed(hs, {h}, "cancel")) /\ DOMAIN Disposed(hs, {h}, "cancel") = DOMAIN hs
      BY <2>1, Eased_Disposed
    <3> QED
      BY <2>2, <3>1, <3>2, <3>3
  <2>5. order.state \in Late => h # order.escrow
    BY <1>8, LateEscrow
  <2> QED
    BY <1>1, <1>8, <2>1, <2>3, <2>4, <2>5, KrwRow
<1>9. CASE r.status = "creating" /\ createFailed(h, W("absent", "cancelled"))
  <2> DEFINE hs == W("absent", "cancelled")
  <2>1. hs[h].purpose \in {"customer", "sponsor", "escrow"}
    BY <1>0, <1>4, <1>6 DEF NodeStates, Statuses
  <2>2. createFailed(h, hs)
    BY <1>9
  <2> HIDE DEF hs
  <2>3. /\ holds' = hs \/ holds' = Reverted(hs, order)
        /\ \/ UNCHANGED order \/ order' = [order EXCEPT !.state = "none"]
           \/ order' = Unclaimed(order)
           \/ order.state = "claimed" /\ order' = [order EXCEPT !.escrow = 0]
    BY <2>1, <2>2 DEF createFailed
  <2>4. UNCHANGED order \/ Off
    BY <1>0, <2>3, Order_Unclaimed DEF OrderRow, Late
  <2>5. SameTrade
    BY <2>4, SlowTrade
  <2> QED
    BY <1>8, <1>9, <2>3, <2>5 DEF hs, NodeStates, Statuses
<1>10. ASSUME r.status = "creating", NEW node \in NodeStates, created(h, W(node, "open"))
       PROVE  InTime'
  <2> DEFINE hs == W(node, "open")
  <2>1. created(h, hs)
    BY <1>10
  <2> HIDE DEF hs
  <2>2. /\ holds' = hs \/ holds' = Disposed(hs, {h}, "cancel")
        /\ UNCHANGED order \/ order' = [order EXCEPT !.state = "verified"]
    BY <2>1 DEF created
  <2>3. UNCHANGED order \/ Off
    BY <1>0, <2>2 DEF OrderRow, Late
  <2>4. SameTrade
    BY <2>3, SlowTrade
  <2> QED
    BY <1>8, <1>10, <2>2, <2>4 DEF hs, Statuses
<1> QED
  BY <1>0, <1>3, <1>7, <1>9, <1>10 DEF NodeStates

\* One row is written and nothing else.
LEMMA KrwWrites ==
  ASSUME IInv, InTime, UNCHANGED order, ClocksStand, NEW h \in DOMAIN holds, NEW q \in HoldRow,
         holds' = [holds EXCEPT ![h] = q], Recorded(holds[h]) => Recorded(q),
         order.state \in Late /\ h = order.escrow => EscrowKeeps(holds[h], q)
  PROVE  InTime'
<1>1. SameTrade /\ Eased(holds', holds')
  BY SlowTrade, Eased_Unchanged
<1>2. Recorded(q)
  BY DEF InTime, RowsAreMade
<1> QED
  BY <1>1, <1>2, KrwRow

LEMMA KrwLost ==
  ASSUME IInv, InTime, NEW h \in DOMAIN holds, HoldCreateLost(h) \/ HoldDisposeLost(h)
  PROVE  InTime'
<1> DEFINE r == holds[h]
           q(n) == [r EXCEPT !.node = n]
<1>1. r \in HoldRow
  BY RowOf
<1>2. AnswerLost
  BY DEF HoldCreateLost, HoldDisposeLost
<1>3. ClocksStand /\ UNCHANGED order
  BY <1>2 DEF AnswerLost, Dies, InEffects, ClocksStand, ClockRuns, time
<1>4. ASSUME NEW n \in NodeStates
      PROVE  /\ q(n) \in HoldRow /\ q(n).node = n /\ q(n).disposing = r.disposing
             /\ Recorded(r) => Recorded(q(n))
  BY <1>1 DEF HoldRow, NodeStates, Recorded
<1>5. CASE HoldCreateLost(h)
  <2>1. r.status = "creating" /\ holds' = [holds EXCEPT ![h] = q("open")]
    BY <1>5 DEF HoldCreateLost
  <2>2. q("open") \in HoldRow /\ (Recorded(r) => Recorded(q("open")))
    BY <1>4 DEF NodeStates
  <2>3. order.state \in Late => h # order.escrow
    BY <2>1, LateEscrow
  <2> HIDE DEF q
  <2> QED
    BY <1>3, <2>1, <2>2, <2>3, KrwWrites
<1>6. CASE HoldDisposeLost(h)
  <2> DEFINE n == settleOrCancel(r, r.disposing)
  <2>1. r.disposing # "none" /\ holds' = [holds EXCEPT ![h] = q(n)]
    BY <1>6 DEF HoldDisposeLost
  <2>2. n \in NodeStates /\ (r.disposing = "settle" /\ r.node \in {"accepted", "settled"} => n = "settled")
    BY <1>1, SettleOrCancel
  <2>3. order.state \in Late /\ h = order.escrow => r.disposing = "settle"
    BY <1>1, <2>1, LateEscrow DEF HoldRow, Maybe
  <2>4. /\ q(n) \in HoldRow /\ q(n).node = n /\ q(n).disposing = r.disposing
        /\ Recorded(r) => Recorded(q(n))
    BY <1>4, <2>2
  <2> HIDE DEF n, q
  <2>5. order.state \in Late /\ h = order.escrow => EscrowKeeps(r, q(n))
    BY <2>2, <2>3, <2>4 DEF EscrowKeeps
  <2> QED
    BY <1>3, <2>1, <2>4, <2>5, KrwWrites
<1> QED
  BY <1>5, <1>6

LEMMA KrwDisposes ==
  ASSUME IInv, InTime, NEW h \in DOMAIN holds, HoldDispose(h) PROVE InTime'
<1> DEFINE r == holds[h]
           n == settleOrCancel(r, r.disposing)
           q == DisposedRow(r, FinalOf(n), n)
<1>1. /\ ClocksStand /\ UNCHANGED order /\ r.disposing # "none" /\ holds' = [holds EXCEPT ![h] = q]
  BY DEF HoldDispose, DisposedRow, InEffects, ClocksStand, ClockRuns, time
<1>2. r \in HoldRow /\ FinalOf(n) \in {"settled", "cancelled"} /\ FinalOf(n) \in Statuses
  BY RowOf DEF FinalOf, Statuses
<1>3. n \in NodeStates /\ (r.disposing = "settle" /\ r.node \in {"accepted", "settled"} => n = "settled")
      /\ (r.node = "settled" => n = "settled")
  BY <1>2, SettleOrCancel
<1>4. q \in HoldRow /\ q.status = FinalOf(n) /\ q.node = n
  BY <1>2, <1>3, Became_Ends
<1>5. order.state \in Late /\ h = order.escrow => r.disposing = "settle"
  BY <1>1, <1>2, LateEscrow DEF HoldRow, Maybe
<1> HIDE DEF q, n
<1>6. Recorded(q)
  BY <1>2, <1>4 DEF Recorded
<1>7. order.state \in Late /\ h = order.escrow => EscrowKeeps(r, q)
  BY <1>3, <1>4, <1>5 DEF EscrowKeeps
<1> QED
  BY <1>1, <1>4, <1>6, <1>7, KrwWrites

LEMMA KrwVisits ==
  ASSUME IInv, InTime, NEW h \in DOMAIN holds, CloseHold(h) PROVE InTime'
<1> DEFINE r == holds[h]
           n == settleOrCancel(r, wanted(h))
           q == [r EXCEPT !.node = n]
<1>1. /\ ClocksStand /\ UNCHANGED order /\ pc = "closing" /\ holds' = [holds EXCEPT ![h] = q]
  BY DEF CloseHold, InClosing, ClocksStand, ClockRuns, time
<1>2. r \in HoldRow
  BY RowOf
<1>3. n \in NodeStates /\ (r.node = "settled" => n = "settled")
      /\ (wanted(h) = "settle" /\ r.node = "accepted" => n = "settled")
  BY <1>2, SettleOrCancel
<1>4. q \in HoldRow /\ q.node = n /\ q.disposing = r.disposing /\ (Recorded(r) => Recorded(q))
  BY <1>2, <1>3 DEF HoldRow, NodeStates, Recorded
<1>5. h = order.escrow /\ rule.escrow = "settle" => wanted(h) = "settle"
  BY DEF wanted
<1>6. order.pendingClose # "none"
  BY <1>1, TheClose
<1>7. rule.escrow # "settle" => ~ Taking'
  BY <1>1, <1>6 DEF Taking, rule
<1> HIDE DEF q, n
<1>8. h = order.escrow => EscrowKeeps(r, q)
  BY <1>3, <1>4, <1>5, <1>7 DEF EscrowKeeps
<1> QED
  BY <1>1, <1>4, <1>8, KrwWrites

\* The world touches one row.
LEMMA KrwOutside ==
  ASSUME IInv, InTime, NEW h \in DOMAIN holds, PayerPays(h) \/ NodeGivesUp(h) \/ PayByPasses(h)
  PROVE  InTime'
<1> DEFINE r == holds[h]
<1>1. ClocksStand /\ UNCHANGED order
  BY DEF PayerPays, NodeGivesUp, PayByPasses, Clockwork, Outside, ClocksStand, ClockRuns, time
<1>2. r \in HoldRow
  BY RowOf
<1>3. CASE PayerPays(h)
  <2> DEFINE q == [r EXCEPT !.node = "accepted", !.paid = (r.purpose = "escrow")]
  <2>1. r.status = "open" /\ holds' = [holds EXCEPT ![h] = q]
    BY <1>3 DEF PayerPays
  <2>2. q \in HoldRow /\ (Recorded(r) => Recorded(q))
    <3> DEFINE b == (r.purpose = "escrow")
               s == [r EXCEPT !.node = "accepted"]
    <3>1. b \in BOOLEAN
      OBVIOUS
    <3> HIDE DEF b
    <3>2. s \in HoldRow /\ s.status = r.status /\ s.creating = r.creating
      BY <1>2 DEF HoldRow
    <3>3. q = [s EXCEPT !.paid = b]
      BY <1>2 DEF HoldRow, b
    <3> HIDE DEF s
    <3>4. [s EXCEPT !.paid = b] \in HoldRow /\ [s EXCEPT !.paid = b].status = s.status
          /\ [s EXCEPT !.paid = b].creating = s.creating
      BY <3>1, <3>2 DEF HoldRow
    <3> QED
      BY <3>2, <3>3, <3>4 DEF Recorded
  <2>3. order.state \in Late => h # order.escrow
    BY <2>1, LateEscrow
  <2> HIDE DEF q
  <2> QED
    BY <1>1, <2>1, <2>2, <2>3, KrwWrites
<1>4. CASE NodeGivesUp(h)
  <2> DEFINE q == [r EXCEPT !.node = "cancelled"]
  <2>1. (r.node = "open" \/ (r.node = "accepted" /\ life = 0)) /\ holds' = [holds EXCEPT ![h] = q]
    BY <1>4 DEF NodeGivesUp
  <2>2. q \in HoldRow /\ q.node = "cancelled" /\ q.disposing = r.disposing
        /\ (Recorded(r) => Recorded(q))
    BY <1>2 DEF HoldRow, Recorded
  <2> HIDE DEF q
  <2>3. r.node = "accepted" => life = 0
    BY <2>1
  <2>4. r.node # "settled"
    BY <2>1
  <2>5. r.disposing = "settle" => q.disposing = "settle"
    BY <2>2
  <2>6. EscrowKeeps(r, q)
    BY <2>3, <2>4, <2>5 DEF EscrowKeeps
  <2> QED
    BY <1>1, <2>1, <2>2, <2>6, KrwWrites
<1>5. CASE PayByPasses(h)
  <2> DEFINE q == [r EXCEPT !.due = TRUE]
  <2>1. holds' = [holds EXCEPT ![h] = q]
    BY <1>5 DEF PayByPasses
  <2>2. q \in HoldRow /\ q.node = r.node /\ q.disposing = r.disposing
        /\ (Recorded(r) => Recorded(q))
    BY <1>2 DEF HoldRow, Recorded
  <2> HIDE DEF q
  <2>3. EscrowKeeps(r, q)
    BY <2>2 DEF EscrowKeeps
  <2> QED
    BY <1>1, <2>1, <2>2, <2>3, KrwWrites
<1> QED
  BY <1>3, <1>4, <1>5

LEMMA KrwStands ==
  ASSUME IInv, InTime, UNCHANGED <<order, holds>>, ClocksStand PROVE InTime'
  BY SlowRows, SlowTrade, Eased_Unchanged

LEMMA KrwRests ==
  ASSUME IInv, InTime,
         \/ CloseStart \/ EndTick \/ CloseInterrupted \/ Crash
         \/ SponsorRemits \/ InvoiceWindowEnds \/ WarmsUp
  PROVE  InTime'
<1>1. UNCHANGED <<order, holds>> /\ ClocksStand
  BY DEF CloseStart, EndTick, CloseInterrupted, Crash, Dies, SponsorRemits, InvoiceWindowEnds,
         WarmsUp, InEffects, InClosing, Clockwork, Outside, ClocksStand, ClockRuns, time
<1> QED
  BY <1>1, KrwStands

LEMMA KrwPhase ==
  ASSUME IInv, InTime, PhasePasses PROVE InTime'
<1>1. UNCHANGED order /\ ClocksStand /\ DOMAIN holds' = DOMAIN holds
  BY DEF PhasePasses, Clockwork, Outside, ClocksStand, ClockRuns, time
<1>2. \A h \in DOMAIN holds : holds'[h] = holds[h] \/ holds'[h] = [holds[h] EXCEPT !.due = TRUE]
  BY DEF PhasePasses
<1>3. ASSUME NEW h \in DOMAIN holds PROVE Light(holds[h], holds'[h])
  <2>1. holds[h] \in HoldRow
    BY RowOf
  <2> QED
    BY <1>2, <2>1 DEF HoldRow, Light, Recorded
<1>4. Eased(holds, holds')
  BY <1>1, <1>3 DEF Eased
<1> QED
  BY <1>1, <1>4, SlowTrade, SlowRows

\* A close that takes the escrow finds it.
LEMMA KrwAbandons ==
  ASSUME IInv, InTime, CloseAbandoned PROVE FALSE
<1>1. pc = "closing" /\ NotReceivable /\ rule.escrow = "settle"
  BY DEF CloseAbandoned, InClosing, NotReceivable
<1>2. order.state \in {"invoiced", "remitted"} /\ order.state \in Late
  BY <1>1, TheClose DEF Late
<1>3. order.escrow # 0
  BY <1>2, LateEscrow
<1>4. EscrowNode \notin {"accepted", "settled"}
  BY <1>1, <1>3 DEF NotReceivable, EscrowNode
<1>5. Taking
  BY <1>1 DEF Taking
<1>6. life > 0 \/ EscrowNode = "settled"
  BY <1>2, <1>5 DEF InTime, HeldForSponsor
<1>7. life > 0 => EscrowNode \in {"accepted", "settled"}
  BY <1>2, <1>5 DEF InTime, HeldWhileAlive
<1> QED
  BY <1>4, <1>6, <1>7

LEMMA KrwFinishes ==
  ASSUME IInv, InTime, CloseFinished PROVE InTime'
<1>1. /\ pc = "closing" /\ ClocksStand /\ order' = Closed(order) /\ DOMAIN holds' = DOMAIN holds
      /\ \A h \in DOMAIN holds :
           holds'[h] = IF h \in CloseSet THEN Became(holds[h], FinalOf(holds[h].node)) ELSE holds[h]
  BY DEF CloseFinished, InClosing, ClocksStand, ClockRuns, time
<1>2. order'.state = rule.terminal
  BY <1>1, Typed DEF Closed, OrderRow
<1>3. order'.state \notin Late
  BY <1>1, <1>2, TheClose, TerminalStates DEF Late
<1>4. ASSUME NEW h \in DOMAIN holds PROVE Recorded(holds'[h])
  <2>1. CASE h \in CloseSet
    <3>1. FinalOf(holds[h].node) \in {"settled", "cancelled"} /\ FinalOf(holds[h].node) \in Statuses
      BY DEF FinalOf, Statuses
    <3>2. holds'[h].status = FinalOf(holds[h].node)
      BY <1>1, <2>1, <3>1, RowOf, Became_Row
    <3> QED
      BY <3>1, <3>2 DEF Recorded
  <2>2. CASE h \notin CloseSet
    BY <1>1, <2>2 DEF InTime, RowsAreMade
  <2> QED
    BY <2>1, <2>2
<1>5. RowsAreMade' /\ SameTrade
  BY <1>1, <1>3, <1>4 DEF RowsAreMade, SameTrade
<1> QED
  BY <1>1, <1>3, <1>5, Slow

LEMMA KrwDrops ==
  ASSUME IInv, InTime, Failing = {}, LifeDrops PROVE InTime'
<1>1. /\ UNCHANGED <<order, holds, pc, seenLife, heightOk>> /\ pc = "dispatch"
      /\ life' = life - 1 /\ seenLife = life /\ ~ EffectsPending
  BY DEF LifeDrops, Clockwork, Outside
<1>2. life \in 0..4 /\ seenLife \in 0..4 /\ life > 0
  BY Typed, LnTradeAssumption DEF Others, Lives, LifeDrops
<1>3. order.pendingClose = "none" /\ \A h \in DOMAIN holds : holds[h].disposing = "none"
  BY <1>1 DEF EffectsPending
<1>4. ~ ClockRuns /\ ~ ClockRuns' /\ EscrowNode' = EscrowNode /\ (Taking' <=> Taking)
  BY <1>1 DEF ClockRuns, EscrowNode, Taking, rule
<1>5. RowsAreMade' /\ HeldWhileAlive'
  BY <1>1, <1>2, <1>4 DEF InTime, RowsAreMade, HeldWhileAlive
<1>6. SeenInTime'
  BY <1>1, <1>2 DEF InTime, SeenInTime
<1>7. InvoicedInTime' /\ SettledInTime'
  BY <1>1, <1>4 DEF InTime, InvoicedInTime, SettledInTime
<1>8. HeldForSponsor'
  <2> SUFFICES ASSUME order.state \in {"invoiced", "remitted"}, ~ (life' > 0)
               PROVE  EscrowNode = "settled"
    BY <1>1, <1>4 DEF HeldForSponsor
  <2>1. seenLife = 1
    BY <1>1, <1>2
  <2>2. order.state = "remitted"
    BY <1>3, <1>4, <2>1 DEF InTime, InvoicedInTime, ESCROW_END
  <2>3. order.escrow \in DOMAIN holds
    BY <2>2, LateEscrow DEF Late
  <2> QED
    BY <1>3, <1>4, <2>1, <2>2, <2>3 DEF InTime, SettledInTime, SAFETY_SETTLE
<1> QED
  BY <1>5, <1>6, <1>7, <1>8 DEF InTime

LEMMA KrwStarts == Init => InTime
<1> SUFFICES ASSUME Init PROVE InTime
  OBVIOUS
<1>1. holds = <<>> /\ order.state = "none" /\ life = 4 /\ seenLife = 4 /\ heightOk = TRUE
  BY DEF Init
<1>2. DOMAIN holds = {}
  BY <1>1
<1> QED
  BY <1>1, <1>2 DEF InTime, RowsAreMade, HeldWhileAlive, HeldForSponsor, SeenInTime,
                    InvoicedInTime, SettledInTime, Late

LEMMA KrwSteps ==
  ASSUME Failing = {} PROVE IInv /\ InTime /\ [Next]_vars => InTime'
<1> SUFFICES ASSUME IInv, InTime, [Next]_vars PROVE InTime'
  OBVIOUS
<1>1. CASE UNCHANGED vars
  <2>1. UNCHANGED <<order, holds>> /\ ClocksStand
    BY <1>1 DEF vars, ClocksStand, ClockRuns
  <2> QED
    BY <2>1, KrwStands
<1>2. CASE Requests \/ Commands
  BY <1>2, KrwRequests
<1>3. CASE Watching
  BY <1>3, KrwPolls, KrwClock DEF Watching
<1>4. CASE Effects
  BY <1>4, KrwCreates, KrwLost, KrwDisposes, KrwVisits, KrwRests, KrwAbandons, KrwFinishes
     DEF Effects
<1>5. CASE Crash
  BY <1>5, KrwRests
<1>6. CASE World
  BY <1>6, KrwOutside, KrwPhase, KrwDrops, KrwRests DEF World
<1> QED
  BY <1>1, <1>2, <1>3, <1>4, <1>5, <1>6 DEF Next

\* The escrow follows the KRW.  It is taken only for a cause; and where LND answers (nothing is
\* Failing) and the daemon, crashing as it may, is up once in every stretch of the HTLC's life
\* (LifeDrops), it does not die behind a sponsor who has reported his remittance: the clock asks
\* for no KRW in the last ESCROW_END stretches, and settles it by itself in the last
\* (ln/watcher.ts, SAFETY_SETTLE_BLOCKS).  In an outage at LND the second half is false, and
\* what is left of it is LossIsNoticed.
THEOREM EscrowIsKept == ASSUME Failing = {} PROVE Spec => []EscrowFollowsKrw
<1>1. IInv /\ InTime => EscrowFollowsKrw
  <2> SUFFICES ASSUME IInv, InTime PROVE EscrowFollowsKrw
    OBVIOUS
  <2>1. EscrowTakenForCause
    BY DEF IInv, Promises
  <2>2. ASSUME order.state = "remitted", order.pendingClose # "customer_wins"
        PROVE  holds[order.escrow].node \in {"accepted", "settled"}
    <3>1. Taking
      <4> SUFFICES ASSUME order.pendingClose # "none" PROVE rule.escrow = "settle"
        BY DEF Taking
      <4>1. /\ order.pendingClose \in LnCloseReason /\ order.state \in OrderState
            /\ rule.terminal \in TRANSITIONS[order.state]
        BY Typed DEF IInv, OrderBook, CloseIsLegal, MovesTo, canTransition, rule, OrderRow, Maybe
      <4>2. rule.terminal = TerminalOf(order.pendingClose)
            /\ rule.terminal \in {"paid", "sponsor_wins", "customer_wins"}
        BY <2>2, <4>1, LegalCloses DEF rule, CLOSE_RULES
      <4>3. rule.terminal # "customer_wins"
        BY <2>2, <4>1, <4>2 DEF TerminalOf, LnCloseReason
      <4> QED
        BY <4>1, <4>2, <4>3, Rules DEF rule
    <3>2. order.state \in Late /\ EscrowNode = holds[order.escrow].node
      BY <2>2 DEF Late, EscrowNode
    <3> QED
      BY <2>2, <3>1, <3>2 DEF InTime, HeldForSponsor, HeldWhileAlive
  <2> QED
    BY <2>1, <2>2 DEF EscrowFollowsKrw, RemittedIsProtected
<1>2. Spec => [](IInv /\ InTime)
  <2>1. Init => IInv /\ InTime
    BY Starts, KrwStarts
  <2>2. IInv /\ InTime /\ [Next]_vars => (IInv /\ InTime)'
    BY Steps, KrwSteps
  <2> QED
    BY <2>1, <2>2, PTL DEF Spec
<1> QED
  BY <1>1, <1>2, PTL

-----------------------------------------------------------------------------
(* The customer's deposit: with LND answering, who has paid his escrow is    *)
(* not charged with not having paid it.  The clock judges rows the poll of   *)
(* the same tick has visited (VerifiedIsOpen); a payment that comes after    *)
(* the judgement is refused, since pay_by is over by then (DueInTime).       *)

UnpaidReasons == {"cancel:unpaid-escrow", "expired:unpaid-escrow"}
Young == {"none", "draft", "requested", "claimed"}
Waited == {"verified"} \cup Late
PollHasSeen == ClockRuns \/ (pc = "poll" /\ order.escrow \notin todo)

CreatingIsUnpaid == \A h \in DOMAIN holds :
  holds[h].status = "creating" => holds[h].node # "accepted" /\ holds[h].paid = FALSE
\* An escrow that can be paid, and is not given back, is the one the trade waits for.
Waits(r) == r.purpose = "escrow" /\ r.status \in {"open", "accepted"} /\ r.disposing = "none"
OpenIsTheOrders == \A h \in DOMAIN holds : Waits(holds[h]) =>
  h = order.escrow /\ order.state \in Waited
DueInTime == phase >= 2 => \A h \in DOMAIN holds :
  holds[h].purpose = "escrow" /\ holds[h].status \in {"creating", "open"} => holds[h].due = TRUE
LifeIsWhole == order.state \in Young => life = 4
\* The escrow of a verified trade: paid or not, the poll will see it before its HTLC dies.
VerifiedEscrow(r) == /\ r.status = "open" /\ r.disposing = "none"
                     /\ r.paid = TRUE <=> r.node = "accepted"
                     /\ r.node # "accepted" => life = 4
                     /\ r.node = "accepted" => life = 4 \/ (life = 3 /\ seenLife = 4)
                     /\ PollHasSeen => r.node # "accepted"
VerifiedIsOpen == order.state = "verified" /\ order.pendingClose = "none" =>
  order.escrow # 0 /\ VerifiedEscrow(holds[order.escrow])
\* It was not paid, and will not be.
Unpayable(r) == /\ r.paid = FALSE /\ r.status # "creating"
                /\ r.status # "open" \/ r.node # "open" \/ r.due = TRUE
UnpaidIsUnpaid ==
  /\ order.pendingClose \in UnpaidReasons =>
       order.state = "verified" /\ order.escrow # 0 /\ Unpayable(holds[order.escrow])
  /\ order.closeReason \in UnpaidReasons /\ order.escrow # 0 => holds[order.escrow].paid = FALSE

PaidInTime == CreatingIsUnpaid /\ OpenIsTheOrders /\ DueInTime /\ LifeIsWhole /\ VerifiedIsOpen
              /\ UnpaidIsUnpaid

\* What most steps have in common.
Stands == /\ UNCHANGED <<life, seenLife, phase>>
          /\ order'.state = "verified" /\ order'.pendingClose = "none" /\ PollHasSeen' => PollHasSeen
OrderSoft ==
  /\ order'.state \in Young => order.state \in Young
  /\ order.state \in Waited => order'.state \in Waited /\ order'.escrow = order.escrow
  /\ order'.state = "verified" /\ order'.pendingClose = "none" =>
       order.state = "verified" /\ order.pendingClose = "none"
  /\ order'.pendingClose \in UnpaidReasons =>
       order'.pendingClose = order.pendingClose /\ order'.state = order.state
  /\ order'.closeReason \in UnpaidReasons =>
       order'.closeReason = order.closeReason /\ order'.escrow = order.escrow
Firm(r, q) ==
  /\ q.purpose = r.purpose
  /\ q.status = "creating" =>
       r.status = "creating" /\ q.paid = r.paid /\ (q.node = "accepted" => r.node = "accepted")
  /\ Waits(q) => Waits(r)
  /\ q.status \in {"creating", "open"} =>
       r.status \in {"creating", "open"} /\ (r.due = TRUE => q.due = TRUE)
  /\ q.status = "open" =>
       r.status = "creating" \/ (r.status = "open" /\ (q.node = "open" => r.node = "open"))
NewRow(r) == /\ r.status = "creating" /\ r.node = "absent" /\ r.paid = FALSE
             /\ r.purpose = "escrow" => phase < 2
FirmRows(hs, gs) == /\ DOMAIN hs \subseteq DOMAIN gs
                    /\ \A h \in DOMAIN hs : Firm(hs[h], gs[h])
                    /\ \A h \in DOMAIN gs \ DOMAIN hs : NewRow(gs[h])
\* What is told of the order's escrow, where anything is.
EscrowTold(r, q) ==
  /\ \/ order'.pendingClose \in UnpaidReasons \/ order'.closeReason \in UnpaidReasons
     \/ order'.state = "verified" /\ order'.pendingClose = "none"
     => q.paid = r.paid
  /\ order'.state = "verified" /\ order'.pendingClose = "none" =>
       q.status = r.status /\ q.disposing = r.disposing
         /\ (q.node = "accepted" <=> r.node = "accepted")

LEMMA PaidBasics ==
  ASSUME IInv, PaidInTime, FirmRows(holds, holds'), UNCHANGED <<life, phase>>,
         order'.state \in Young => order.state \in Young,
         order.state \in Waited => order'.state \in Waited /\ order'.escrow = order.escrow
  PROVE  CreatingIsUnpaid' /\ OpenIsTheOrders' /\ DueInTime' /\ LifeIsWhole'
<1>1. life' = life /\ phase' = phase /\ phase \in 0..3
  BY Typed DEF Others, Phases
<1>2. \A h \in DOMAIN holds : Firm(holds[h], holds'[h])
  BY DEF FirmRows
<1>3. \A h \in DOMAIN holds' \ DOMAIN holds : NewRow(holds'[h])
  BY DEF FirmRows
<1>4. CreatingIsUnpaid'
  <2>1. ASSUME NEW h \in DOMAIN holds', holds'[h].status = "creating"
        PROVE  holds'[h].node # "accepted" /\ holds'[h].paid = FALSE
    BY <1>2, <1>3, <2>1 DEF PaidInTime, CreatingIsUnpaid, Firm, NewRow
  <2> QED
    BY <2>1 DEF CreatingIsUnpaid
<1>5. OpenIsTheOrders'
  <2>1. ASSUME NEW h \in DOMAIN holds', Waits(holds'[h])
        PROVE  h = order'.escrow /\ order'.state \in Waited
    <3>1. h \in DOMAIN holds
      BY <1>3, <2>1 DEF NewRow, Waits
    <3>2. Waits(holds[h])
      BY <1>2, <2>1, <3>1 DEF Firm
    <3> QED
      BY <3>1, <3>2 DEF PaidInTime, OpenIsTheOrders
  <2> QED
    BY <2>1 DEF OpenIsTheOrders
<1>6. DueInTime'
  <2>1. ASSUME phase >= 2, NEW h \in DOMAIN holds', holds'[h].purpose = "escrow",
               holds'[h].status \in {"creating", "open"}
        PROVE  holds'[h].due = TRUE
    <3>1. h \in DOMAIN holds
      BY <1>1, <1>3, <2>1 DEF NewRow
    <3>2. holds[h].due = TRUE
      BY <1>2, <2>1, <3>1 DEF Firm, PaidInTime, DueInTime
    <3> QED
      BY <1>2, <2>1, <3>1, <3>2 DEF Firm
  <2> QED
    BY <1>1, <2>1 DEF DueInTime
<1>7. LifeIsWhole'
  BY <1>1 DEF PaidInTime, LifeIsWhole
<1> QED
  BY <1>4, <1>5, <1>6, <1>7

LEMMA PaidSlow ==
  ASSUME IInv, PaidInTime, Stands, OrderSoft, FirmRows(holds, holds'),
         order.escrow # 0 => EscrowTold(holds[order.escrow], holds'[order.escrow])
  PROVE  PaidInTime'
<1>1. life' = life /\ seenLife' = seenLife /\ phase' = phase /\ phase \in 0..3
  BY Typed DEF Stands, Others, Phases
<1>2. \A h \in DOMAIN holds : Firm(holds[h], holds'[h])
  BY DEF FirmRows
<1>4. CreatingIsUnpaid' /\ OpenIsTheOrders' /\ DueInTime' /\ LifeIsWhole'
  BY PaidBasics DEF OrderSoft, Stands
<1>8. order.escrow # 0 => order.escrow \in DOMAIN holds
  BY DEF IInv, OrderBook, EscrowIsThere
<1>9. VerifiedIsOpen'
  <2> SUFFICES ASSUME order'.state = "verified", order'.pendingClose = "none"
               PROVE  order'.escrow # 0 /\ VerifiedEscrow(holds[order.escrow])' /\ order'.escrow = order.escrow
    BY DEF VerifiedIsOpen, VerifiedEscrow
  <2>1. order.state = "verified" /\ order.pendingClose = "none" /\ order'.escrow = order.escrow
    BY DEF OrderSoft, Waited
  <2>2. order.escrow # 0 /\ VerifiedEscrow(holds[order.escrow])
    BY <2>1 DEF PaidInTime, VerifiedIsOpen
  <2> DEFINE r == holds[order.escrow]
             q == holds'[order.escrow]
  <2>3. q.paid = r.paid /\ q.status = r.status /\ q.disposing = r.disposing
        /\ (q.node = "accepted" <=> r.node = "accepted")
    BY <2>2 DEF EscrowTold
  <2>4. PollHasSeen' => PollHasSeen
    BY DEF Stands
  <2>5. r' = q
    BY <2>1
  <2>6. /\ r.status = "open" /\ r.disposing = "none"
        /\ r.paid = TRUE <=> r.node = "accepted"
        /\ r.node # "accepted" => life = 4
        /\ r.node = "accepted" => life = 4 \/ (life = 3 /\ seenLife = 4)
        /\ PollHasSeen => r.node # "accepted"
    BY <2>2 DEF VerifiedEscrow
  <2>7. /\ q.status = "open" /\ q.disposing = "none"
        /\ q.paid = TRUE <=> q.node = "accepted"
    BY <2>3, <2>6
  <2>8. /\ q.node # "accepted" => life' = 4
        /\ q.node = "accepted" => life' = 4 \/ (life' = 3 /\ seenLife' = 4)
        /\ PollHasSeen' => q.node # "accepted"
    BY <1>1, <2>3, <2>4, <2>6
  <2>9. VerifiedEscrow(r)'
    BY <2>5, <2>7, <2>8 DEF VerifiedEscrow
  <2> QED
    BY <2>1, <2>2, <2>9
<1>10. UnpaidIsUnpaid'
  <2>1. ASSUME order'.pendingClose \in UnpaidReasons
        PROVE  order'.state = "verified" /\ order'.escrow # 0 /\ Unpayable(holds'[order'.escrow])
    <3>1. order.pendingClose \in UnpaidReasons /\ order'.state = order.state
      BY <2>1 DEF OrderSoft
    <3>2. order.state = "verified" /\ order.escrow # 0 /\ Unpayable(holds[order.escrow])
      BY <3>1 DEF PaidInTime, UnpaidIsUnpaid
    <3>3. order'.escrow = order.escrow
      BY <3>2 DEF OrderSoft, Waited
    <3>4. holds'[order.escrow].paid = holds[order.escrow].paid
      BY <2>1, <3>2 DEF EscrowTold
    <3> QED
      BY <1>2, <1>8, <3>1, <3>2, <3>3, <3>4 DEF Unpayable, Firm
  <2>2. ASSUME order'.closeReason \in UnpaidReasons, order'.escrow # 0
        PROVE  holds'[order'.escrow].paid = FALSE
    BY <2>2 DEF OrderSoft, PaidInTime, UnpaidIsUnpaid, EscrowTold
  <2> QED
    BY <2>1, <2>2 DEF UnpaidIsUnpaid
<1> QED
  BY <1>4, <1>9, <1>10 DEF PaidInTime

\* Rows of which nothing is written but a wish to give the money back, or that pay_by is over.
Mild(r, q) == /\ q.purpose = r.purpose /\ q.status = r.status /\ q.node = r.node /\ q.paid = r.paid
              /\ r.disposing # "none" => q.disposing # "none"
              /\ r.due = TRUE => q.due = TRUE
MildRows(hs, gs) == /\ DOMAIN hs \subseteq DOMAIN gs
                    /\ \A h \in DOMAIN hs : Mild(hs[h], gs[h])
                    /\ \A h \in DOMAIN gs \ DOMAIN hs : NewRow(gs[h])

LEMMA MildIsFirm == ASSUME NEW r, NEW q, Mild(r, q) PROVE Firm(r, q)
  BY DEF Mild, Firm, Waits

LEMMA FirmThenMild ==
  ASSUME NEW r, NEW q, NEW p, Firm(r, q), Mild(q, p) PROVE Firm(r, p)
<1>1. Waits(p) => Waits(q)
  BY DEF Mild, Waits
<1> QED
  BY <1>1 DEF Firm, Mild

LEMMA Mild_Unchanged == ASSUME NEW hs PROVE MildRows(hs, hs)
  BY DEF MildRows, Mild

LEMMA Mild_Disposed ==
  ASSUME NEW hs \in Seq(HoldRow), NEW H, NEW a \in {"settle", "cancel"}
  PROVE  MildRows(hs, Disposed(hs, H, a)) /\ DOMAIN Disposed(hs, H, a) = DOMAIN hs
<1> DEFINE gs == Disposed(hs, H, a)
<1>1. DOMAIN gs = DOMAIN hs
  BY DEF Disposed
<1>2. ASSUME NEW h \in DOMAIN hs PROVE Mild(hs[h], gs[h])
  <2>1. hs[h] \in HoldRow
    BY ElementOfSeq
  <2>2. gs[h] = IF h \in H /\ hs[h].disposing = "none"
                THEN [hs[h] EXCEPT !.disposing = a] ELSE hs[h]
    BY DEF Disposed
  <2> HIDE DEF gs
  <2>3. CASE h \in H /\ hs[h].disposing = "none"
    <3>1. gs[h] = [hs[h] EXCEPT !.disposing = a]
      BY <2>2, <2>3
    <3>2. /\ gs[h].status = hs[h].status /\ gs[h].node = hs[h].node /\ gs[h].due = hs[h].due
          /\ gs[h].purpose = hs[h].purpose /\ gs[h].paid = hs[h].paid
      BY <2>1, <3>1 DEF HoldRow
    <3> QED
      BY <2>3, <3>2 DEF Mild
  <2>4. CASE ~ (h \in H /\ hs[h].disposing = "none")
    BY <2>2, <2>4 DEF Mild
  <2> QED
    BY <2>3, <2>4
<1> HIDE DEF gs
<1>3. MildRows(hs, gs)
  BY <1>1, <1>2 DEF MildRows
<1> QED
  BY <1>1, <1>3 DEF gs

LEMMA Mild_Reverted ==
  ASSUME NEW hs \in Seq(HoldRow), NEW o
  PROVE  MildRows(hs, Reverted(hs, o)) /\ DOMAIN Reverted(hs, o) = DOMAIN hs
  BY Mild_Disposed DEF Reverted

LEMMA Mild_Planned ==
  ASSUME NEW hs \in Seq(HoldRow), NEW purpose, NEW party, purpose = "escrow" => phase < 2
  PROVE  MildRows(hs, Planned(hs, purpose, party))
<1> DEFINE r == [purpose |-> purpose, party |-> party, status |-> "creating", node |-> "absent",
                 creating |-> TRUE, disposing |-> "none", due |-> FALSE, paid |-> FALSE]
           gs == Append(hs, r)
<1>1. Planned(hs, purpose, party) = gs /\ NewRow(r)
  BY DEF Planned, NewRow
<1> HIDE DEF r
<1>2. DOMAIN hs = 1..Len(hs) /\ Len(hs) \in Nat /\ DOMAIN gs = 1..(Len(hs) + 1)
      /\ \A h \in DOMAIN gs : gs[h] = IF h = Len(hs) + 1 THEN r ELSE hs[h]
  OBVIOUS
<1> HIDE DEF gs
<1>3. \A h \in DOMAIN hs : h \in DOMAIN gs /\ gs[h] = hs[h]
  BY <1>2
<1>4. \A h \in DOMAIN gs \ DOMAIN hs : gs[h] = r
  BY <1>2
<1>5. MildRows(hs, gs)
  BY <1>1, <1>3, <1>4 DEF MildRows, Mild
<1> QED
  BY <1>1, <1>5

\* The order's moves.
Unclosed == order'.pendingClose = order.pendingClose /\ order'.closeReason = order.closeReason

LEMMA UnpaidCloses ==
  ASSUME IInv, PaidInTime
  PROVE  /\ order.pendingClose \in UnpaidReasons => order.state = "verified"
         /\ order.closeReason \in UnpaidReasons => order.state \in Terminal
<1>1. order.closeReason # "none" => order.closeReason \in LnCloseReason
  BY Typed DEF OrderRow, Maybe
<1>2. order.closeReason # "none" => order.state \in Terminal
  BY <1>1, Rules DEF IInv, OrderBook, ReasonIsKept
<1> QED
  BY <1>2 DEF PaidInTime, UnpaidIsUnpaid, UnpaidReasons

LEMMA Soft_Same == ASSUME UNCHANGED order PROVE OrderSoft
  BY DEF OrderSoft

LEMMA Soft_Young ==
  ASSUME IInv, PaidInTime, order.state \in Young, order'.state \in Young, Unclosed
  PROVE  OrderSoft
  BY UnpaidCloses, TerminalStates DEF OrderSoft, Young, Waited, Late, Unclosed

LEMMA Soft_Late ==
  ASSUME IInv, PaidInTime, order.state \in Waited, order'.state \in Late, Unclosed,
         order'.escrow = order.escrow, order.state = "verified" => order.pendingClose = "none"
  PROVE  OrderSoft
  BY UnpaidCloses, TerminalStates DEF OrderSoft, Young, Waited, Late, Unclosed, UnpaidReasons

LEMMA Soft_Closing ==
  ASSUME IInv, NEW r \in LnCloseReason, r \notin UnpaidReasons, beginClose(r)
  PROVE  OrderSoft
<1>1. order'.state = order.state /\ order'.escrow = order.escrow
      /\ order'.closeReason = order.closeReason /\ order'.pendingClose = r /\ r # "none"
  BY Closes, Rules, Typed, Order_Closing DEF Begins, beginClose, Closing, Maybe
<1> QED
  BY <1>1 DEF OrderSoft

LEMMA Soft_Account ==
  ASSUME IInv, order' = [order EXCEPT !.accountSent = TRUE] PROVE OrderSoft
<1>1. order'.state = order.state /\ Unclosed /\ order'.escrow = order.escrow
  BY Typed, Order_Account DEF Stays, Rest, Unclosed
<1> QED
  BY <1>1 DEF OrderSoft, Unclosed

\* The rows are mild, and a trade that waits for its escrow to be paid keeps them.
LEMMA PaidMild ==
  ASSUME IInv, PaidInTime, Stands, OrderSoft, MildRows(holds, holds'),
         order'.state = "verified" => UNCHANGED holds
  PROVE  PaidInTime'
<1>1. FirmRows(holds, holds')
  BY MildIsFirm DEF MildRows, FirmRows
<1>2. order.escrow # 0 => EscrowTold(holds[order.escrow], holds'[order.escrow])
  BY DEF EscrowTold, MildRows, Mild, IInv, OrderBook, EscrowIsThere
<1> QED
  BY <1>1, <1>2, PaidSlow

LEMMA PaidRequests ==
  ASSUME IInv, PaidInTime, Requests \/ Commands PROVE PaidInTime'
<1>0. order \in OrderRow /\ holds \in Seq(HoldRow)
  BY Typed DEF Whole
<1> DEFINE Off == order.state \in Young /\ order'.state \in Young /\ Unclosed
<1>1. ASSUME Handling, OrderSoft, MildRows(holds, holds'), order'.state = "verified" => UNCHANGED holds
      PROVE  PaidInTime'
  <2>2. pc = "dispatch" /\ pc' = "dispatch" /\ UNCHANGED <<life, seenLife, phase>>
    BY <1>1 DEF Handling, time
  <2>3. Stands
    BY <2>2 DEF Stands, PollHasSeen, ClockRuns
  <2> QED
    BY <1>1, <2>3, PaidMild
<1>2. UNCHANGED holds => MildRows(holds, holds')
  BY Mild_Unchanged
<1>3. Off => OrderSoft /\ order'.state # "verified"
  BY Soft_Young DEF Young
<1>4. ASSUME NEW draft, planCustomerDeposit(draft), draft \in OrderRow, draft.state = "draft",
             draft.pendingClose = order.pendingClose, draft.closeReason = order.closeReason,
             order.state \in Young
      PROVE  Off /\ MildRows(holds, holds')
  <2>1. /\ order' = draft \/ order' = [draft EXCEPT !.state = "none"]
        /\ UNCHANGED holds \/ holds' = Planned(holds, "customer", "customer")
    BY <1>4 DEF planCustomerDeposit
  <2> DEFINE gone == [draft EXCEPT !.state = "none"]
  <2>2. gone.state = "none" /\ Rest(draft, gone)
    BY <1>4, Order_State DEF OrderStates
  <2> HIDE DEF gone
  <2>3. order' = draft \/ order' = gone
    BY <2>1 DEF gone
  <2>4. Off
    BY <1>4, <2>2, <2>3 DEF Rest, Young, Unclosed
  <2> QED
    BY <1>0, <1>2, <2>1, <2>4, Mild_Planned
<1>5. CASE orderRequest
  <2>1. CASE "customer" \in Deposits
    <3> DEFINE draft == [order EXCEPT !.state = "draft"]
    <3>1. draft \in OrderRow /\ draft.state = "draft" /\ Rest(order, draft)
      BY <1>0, Order_State DEF OrderStates
    <3>2. Handling /\ planCustomerDeposit(draft) /\ order.state = "none"
      BY <1>5, <2>1 DEF orderRequest
    <3> HIDE DEF draft
    <3>3. Off /\ MildRows(holds, holds')
      BY <1>4, <3>1, <3>2 DEF Rest, Young
    <3> QED
      BY <1>1, <1>3, <3>2, <3>3
  <2>2. CASE "customer" \notin Deposits
    <3>1. /\ Handling /\ order' = [order EXCEPT !.state = "requested"] /\ UNCHANGED holds
          /\ order.state = "none"
      BY <1>5, <2>2 DEF orderRequest
    <3>2. Off
      BY <1>0, <3>1, Order_State DEF OrderStates, OrderState, Rest, Young, Unclosed
    <3> QED
      BY <1>1, <1>2, <1>3, <3>1, <3>2
  <2> QED
    BY <2>1, <2>2
<1>6. ASSUME NEW s \in Sponsors, designatedOrderRequest(s) PROVE PaidInTime'
  <2>1. Off
    BY <1>0, <1>6, Order_Designated DEF designatedOrderRequest, Rest, Young, Unclosed
  <2> QED
    BY <1>1, <1>2, <1>3, <1>6, <2>1 DEF designatedOrderRequest
<1>7. ASSUME NEW s \in Sponsors, claim(s) PROVE PaidInTime'
  <2>0. order.state = "requested"
    BY <1>7, Transitions, TerminalStates DEF claim, MovesTo, canTransition, OrderState
  <2>1. Off
    BY <1>0, <1>7, <2>0, Order_Claimed DEF claim, Young, Unclosed
  <2>2. UNCHANGED holds \/ holds' = Planned(holds, "sponsor", s)
    BY <1>7 DEF claim, planSponsorDeposit
  <2>3. MildRows(holds, holds')
    BY <1>0, <1>2, <2>2, Mild_Planned
  <2> QED
    BY <1>1, <1>3, <1>7, <2>1, <2>3 DEF claim
<1>8. CASE sponsorInvoice
  <2>1. Handling /\ order' = [order EXCEPT !.state = "invoiced"] /\ order.state = "escrowed" /\ UNCHANGED holds
    BY <1>8 DEF sponsorInvoice
  <2>2. order'.state = "invoiced" /\ Rest(order, order')
    BY <1>0, <2>1, Order_State DEF OrderStates, OrderState
  <2>3. OrderSoft
    BY <2>1, <2>2, Soft_Late DEF Rest, Waited, Late, Unclosed
  <2> QED
    BY <1>1, <1>2, <2>1, <2>3
<1>9. CASE accountInfo
  BY <1>1, <1>2, <1>9, Soft_Account DEF accountInfo
<1>10. CASE remitRequest
  <2>0. Handling /\ UNCHANGED holds
    BY <1>10 DEF remitRequest
  <2>1. CASE UNCHANGED order
    BY <1>1, <1>2, <2>0, <2>1, Soft_Same
  <2>2. CASE order' # order
    <3>1. order.state = "invoiced" /\ order' = [order EXCEPT !.state = "remitted"]
      BY <1>10, <2>2 DEF remitRequest
    <3>2. order'.state = "remitted" /\ Rest(order, order')
      BY <1>0, <3>1, Order_State DEF OrderStates, OrderState
    <3>3. OrderSoft
      BY <3>1, <3>2, Soft_Late DEF Rest, Waited, Late, Unclosed
    <3> QED
      BY <1>1, <1>2, <2>0, <3>3
  <2> QED
    BY <2>1, <2>2
<1>11. ASSUME Handling, NEW r \in LnCloseReason, r \notin UnpaidReasons, beginClose(r), UNCHANGED holds
       PROVE  PaidInTime'
  BY <1>1, <1>2, <1>11, Soft_Closing
<1>12. CASE cancelRequest
  <2>0. Handling
    BY <1>12 DEF cancelRequest
  <2>1. CASE /\ order.state = "draft" /\ order' = [order EXCEPT !.state = "none"]
             /\ holds' = Disposed(holds, {current("customer", "customer")}, "cancel")
    <3>1. Off
      BY <1>0, <2>1, Order_State DEF OrderStates, Rest, Young, Unclosed
    <3>2. MildRows(holds, holds')
      BY <1>0, <2>1, Mild_Disposed
    <3> QED
      BY <1>1, <1>3, <2>0, <3>1, <3>2
  <2>2. CASE (beginClose("cancel:customer") \/ beginClose("cancel:customer-after-claim")) /\ UNCHANGED holds
    BY <1>11, <2>0, <2>2 DEF LnCloseReason, UnpaidReasons
  <2> QED
    BY <1>12, <2>1, <2>2 DEF cancelRequest
<1>13. CASE paymentConfirm \/ adminRule \/ adminForceClose
  <2>1. /\ Handling /\ UNCHANGED holds
        /\ \E r \in {"paid", "sponsor_wins", "customer_wins", "admin_closed"} : beginClose(r)
    BY <1>13 DEF paymentConfirm, adminRule, adminForceClose
  <2> QED
    BY <1>11, <2>1 DEF LnCloseReason, UnpaidReasons
<1>14. CASE adminApprove
  <2>1. /\ Handling /\ order.state = "claimed" /\ holds' = Planned(holds, "escrow", "customer")
        /\ phase \in Phases /\ ~ (phase >= 2)
    BY <1>14, Typed DEF adminApprove, approve, approveBlocked, Others
  <2>2. order'.state = "claimed" /\ Unclosed
    BY <1>14, Approves DEF adminApprove, Rebinds, Unclosed
  <2>3. Off
    BY <2>1, <2>2 DEF Young
  <2>4. MildRows(holds, holds')
    BY <1>0, <2>1, Mild_Planned DEF Phases
  <2> QED
    BY <1>1, <1>3, <2>1, <2>3, <2>4
<1>15. CASE adminRevertClaim
  <2>1. Handling /\ holds' = Reverted(holds, order) /\ order' = Unclaimed(order) /\ order.state = "claimed"
    BY <1>15 DEF adminRevertClaim
  <2>2. Off
    BY <1>0, <2>1, Order_Unclaimed DEF Young, Unclosed
  <2> QED
    BY <1>0, <1>1, <1>3, <2>1, <2>2, Mild_Reverted
<1> QED
  BY <1>5, <1>6, <1>7, <1>8, <1>9, <1>10, <1>12, <1>13, <1>14, <1>15 DEF Requests, Commands

LEMMA PaidClock ==
  ASSUME IInv, InTime, PaidInTime, Failing = {},
         \/ StartTick \/ PollLookupFails \/ ClockStarts \/ ClockClaims \/ ClockVerified \/ ClockExpiry
  PROVE  PaidInTime'
<1>0. order \in OrderRow /\ holds \in Seq(HoldRow) /\ phase \in 0..3
  BY Typed DEF Whole, Others, Phases
<1>1. ASSUME UNCHANGED <<order, holds>>, Stands PROVE PaidInTime'
  BY <1>1, PaidMild, Soft_Same, Mild_Unchanged
<1>2. CASE StartTick
  <2>1. /\ UNCHANGED <<order, holds, life, seenLife, phase>> /\ pc' = "poll"
        /\ todo' = {h \in DOMAIN holds : holds[h].status \in {"open", "accepted"}}
    BY <1>2 DEF StartTick, time
  <2>2. CASE order.state = "verified" /\ order.pendingClose = "none"
    <3>1. order.escrow # 0 /\ VerifiedEscrow(holds[order.escrow]) /\ order.escrow \in DOMAIN holds
      BY <2>2 DEF PaidInTime, VerifiedIsOpen, IInv, OrderBook, EscrowIsThere
    <3>2. ~ PollHasSeen'
      BY <2>1, <3>1 DEF VerifiedEscrow, PollHasSeen, ClockRuns
    <3> QED
      BY <1>1, <2>1, <3>2 DEF Stands
  <2>3. CASE ~ (order.state = "verified" /\ order.pendingClose = "none")
    <3>1. VerifiedIsOpen'
      BY <2>1, <2>3 DEF VerifiedIsOpen
    <3>2. CreatingIsUnpaid' /\ OpenIsTheOrders' /\ DueInTime' /\ LifeIsWhole' /\ UnpaidIsUnpaid'
      BY <2>1 DEF PaidInTime, CreatingIsUnpaid, OpenIsTheOrders, DueInTime, LifeIsWhole, UnpaidIsUnpaid
    <3> QED
      BY <3>1, <3>2 DEF PaidInTime
  <2> QED
    BY <2>2, <2>3
<1>3. CASE PollLookupFails
  BY <1>3 DEF PollLookupFails
<1>4. CASE ClockStarts
  <2>1. /\ UNCHANGED <<order, holds, life, phase>> /\ pc = "poll" /\ todo = {} /\ seenLife' = life
    BY <1>4 DEF ClockStarts, PollIsOver, time
  <2>2. CreatingIsUnpaid' /\ OpenIsTheOrders' /\ DueInTime' /\ LifeIsWhole' /\ UnpaidIsUnpaid'
    BY <2>1 DEF PaidInTime, CreatingIsUnpaid, OpenIsTheOrders, DueInTime, LifeIsWhole, UnpaidIsUnpaid
  <2>3. PollHasSeen
    BY <2>1 DEF PollHasSeen
  <2>4. VerifiedIsOpen'
    BY <2>1, <2>3 DEF PaidInTime, VerifiedIsOpen, VerifiedEscrow
  <2> QED
    BY <2>2, <2>4 DEF PaidInTime
<1>5. ASSUME \E a, b : Ticking(a, b), ClockRuns PROVE Stands
  BY <1>5 DEF Ticking, Stands, time, PollHasSeen
<1>6. CASE ClockClaims
  <2>1. Stands
    BY <1>5, <1>6 DEF ClockClaims, Ticking, ClockRuns
  <2>2. CASE ClockDraft
    <3>1. order.state = "draft"
      BY <2>2 DEF ClockDraft
    <3>2. \/ UNCHANGED holds \/ holds' = Planned(holds, "customer", "customer")
          \/ \E H : holds' = Disposed(holds, H, "cancel")
      BY <2>2 DEF ClockDraft, planCustomerDeposit
    <3>3. order' = order \/ order' = [order EXCEPT !.state = "none"]
      BY <2>2 DEF ClockDraft, planCustomerDeposit
    <3> DEFINE gone == [order EXCEPT !.state = "none"]
    <3>7. gone.state = "none" /\ Rest(order, gone)
      BY <1>0, Order_State DEF OrderStates
    <3> HIDE DEF gone
    <3>8. order' = order \/ order' = gone
      BY <3>3 DEF gone
    <3>4. order'.state \in {"none", "draft"} /\ Unclosed
      BY <3>1, <3>7, <3>8 DEF Rest, Unclosed
    <3>5. MildRows(holds, holds')
      BY <1>0, <3>2, Mild_Unchanged, Mild_Planned, Mild_Disposed
    <3>6. OrderSoft /\ order'.state # "verified"
      BY <3>1, <3>4, Soft_Young DEF Young
    <3> QED
      BY <2>1, <3>5, <3>6, PaidMild
  <2>3. CASE ClockClaimed
    <3>1. order.state = "claimed"
      BY <2>3 DEF ClockClaimed
    <3>2. \/ UNCHANGED order /\ UNCHANGED holds
          \/ UNCHANGED order /\ holds' = Planned(holds, "sponsor", order.sponsor)
          \/ holds' = Reverted(holds, order) /\ order' = Unclaimed(order)
          \/ approve
      BY <2>3 DEF ClockClaimed, planSponsorDeposit
    <3>3. order'.state \in Young /\ Unclosed
      <4>1. CASE approve
        BY <4>1, Approves DEF Rebinds, Unclosed, Young
      <4>2. CASE order' = Unclaimed(order)
        BY <1>0, <4>2, Order_Unclaimed DEF Unclosed, Young
      <4>3. CASE UNCHANGED order
        BY <3>1, <4>3 DEF Unclosed, Young
      <4> QED
        BY <3>2, <4>1, <4>2, <4>3
    <3>4. MildRows(holds, holds')
      <4>1. CASE approve
        <5>1. holds' = Planned(holds, "escrow", "customer") /\ ~ (phase >= 2)
          BY <4>1 DEF approve, approveBlocked
        <5> QED
          BY <1>0, <5>1, Mild_Planned
      <4> QED
        BY <1>0, <3>2, <4>1, Mild_Unchanged, Mild_Planned, Mild_Reverted
    <3>5. OrderSoft /\ order'.state # "verified"
      BY <3>1, <3>3, Soft_Young DEF Young
    <3> QED
      BY <2>1, <3>4, <3>5, PaidMild
  <2> QED
    BY <1>1, <1>6, <2>1, <2>2, <2>3 DEF ClockClaims
<1>7. ASSUME Stands, ClockRuns, UNCHANGED holds, NEW r \in LnCloseReason, beginClose(r),
             r \in UnpaidReasons => /\ order.state = "verified"
                                    /\ order.escrow # 0 /\ holds[order.escrow].due = TRUE
      PROVE  PaidInTime'
  <2>1. CASE r \notin UnpaidReasons
    <3>1. OrderSoft
      BY <1>7, <2>1, Soft_Closing
    <3> QED
      BY <1>7, <3>1, PaidMild, Mild_Unchanged
  <2>2. CASE r \in UnpaidReasons
    <3>1. order'.state = order.state /\ order'.escrow = order.escrow
          /\ order'.closeReason = order.closeReason /\ order'.pendingClose = r /\ r # "none"
          /\ order.pendingClose = "none"
      BY <1>0, <1>7, Closes, Rules, Order_Closing DEF Begins, beginClose, Closing, MayClose, Maybe
    <3>2. VerifiedEscrow(holds[order.escrow]) /\ PollHasSeen
      BY <1>7, <2>2, <3>1 DEF PaidInTime, VerifiedIsOpen, PollHasSeen
    <3>3. holds[order.escrow].node # "accepted" /\ holds[order.escrow].status = "open"
          /\ holds[order.escrow].paid # TRUE
      BY <3>2 DEF VerifiedEscrow
    <3>4. holds[order.escrow].paid = FALSE
      <4>1. holds[order.escrow].paid \in BOOLEAN
        BY <1>7, <2>2, RowOf DEF HoldRow, IInv, OrderBook, EscrowIsThere
      <4> QED
        BY <3>3, <4>1
    <3>5. Unpayable(holds[order.escrow])
      BY <1>7, <2>2, <3>3, <3>4 DEF Unpayable
    <3>6. UnpaidIsUnpaid'
      BY <1>7, <2>2, <3>1, <3>5 DEF PaidInTime, UnpaidIsUnpaid
    <3>7. CreatingIsUnpaid' /\ OpenIsTheOrders' /\ DueInTime' /\ LifeIsWhole' /\ VerifiedIsOpen'
      BY <1>7, <3>1 DEF Stands, PaidInTime, CreatingIsUnpaid, OpenIsTheOrders, DueInTime, LifeIsWhole, VerifiedIsOpen
    <3> QED
      BY <3>6, <3>7 DEF PaidInTime
  <2> QED
    BY <2>1, <2>2
<1>8. CASE ClockVerified
  <2>1. Stands /\ ClockRuns /\ UNCHANGED holds
    BY <1>5, <1>8 DEF ClockVerified, Ticking, ClockRuns
  <2>2. CASE ClockUnpaidEscrow
    <3>1. beginClose("cancel:unpaid-escrow")
      BY <1>8, <2>2 DEF ClockVerified
    <3>2. order.state = "verified" /\ order.escrow # 0 /\ holds[order.escrow].due = TRUE
      <4>1. order.state = "verified" /\ order.escrow # 0 /\ holds[order.escrow].due
        BY <2>2 DEF ClockUnpaidEscrow
      <4>2. holds[order.escrow].due \in BOOLEAN
        BY <4>1, RowOf DEF HoldRow, IInv, OrderBook, EscrowIsThere
      <4> QED
        BY <4>1, <4>2, Zenon
    <3> QED
      BY <1>7, <2>1, <3>1, <3>2 DEF LnCloseReason
  <2>3. CASE ~ ClockUnpaidEscrow
    BY <1>1, <1>8, <2>1, <2>3 DEF ClockVerified
  <2> QED
    BY <2>2, <2>3
<1>9. CASE ClockExpiry
  <2>1. Stands /\ ClockRuns
    BY <1>5, <1>9 DEF ClockExpiry, Ticking, ClockRuns
  <2>2. CASE Expires /\ beginClose(overdue) /\ UNCHANGED holds
    <3>1. overdue \in LnCloseReason /\ order.pendingClose = "none"
      BY <2>2, OverdueReason DEF Expires
    <3>2. ASSUME overdue \in UnpaidReasons
          PROVE  order.state = "verified" /\ order.escrow # 0 /\ holds[order.escrow].due = TRUE
      <4>1. order.state = "verified"
        BY <2>2, <3>2 DEF Expires, overdue, expiryReasonFor, UnpaidReasons
      <4>2. order.escrow # 0 /\ holds[order.escrow].status = "open"
        BY <3>1, <4>1 DEF PaidInTime, VerifiedIsOpen, VerifiedEscrow
      <4>3. phase >= 2
        BY <2>2, <4>1, <4>2 DEF Expires, escrowEnding, pastCloseAt
      <4> QED
        BY <4>1, <4>2, <4>3 DEF PaidInTime, DueInTime, IInv, OrderBook, EscrowIsThere
    <3> QED
      BY <1>7, <2>1, <2>2, <3>1, <3>2
  <2>3. CASE /\ SafetySettleDue /\ UNCHANGED order
             /\ holds' = Disposed(holds, {order.escrow}, "settle")
    <3>1. order.state = "remitted"
      BY <2>3 DEF SafetySettleDue
    <3> QED
      BY <1>0, <2>1, <2>3, <3>1, PaidMild, Soft_Same, Mild_Disposed
  <2>4. CASE UNCHANGED <<order, holds>>
    BY <1>1, <2>1, <2>4
  <2> QED
    BY <1>9, <2>2, <2>3, <2>4 DEF ClockExpiry
<1> QED
  BY <1>2, <1>3, <1>4, <1>6, <1>8, <1>9

LEMMA Final_Firm ==
  ASSUME NEW r, NEW q, q.purpose = r.purpose, q.status \in {"settled", "cancelled"}
  PROVE  Firm(r, q)
  BY DEF Firm, Waits

\* One row is written, and the others at most given back.
LEMMA PaidRow ==
  ASSUME IInv, PaidInTime, Stands, OrderSoft, NEW h \in DOMAIN holds,
         DOMAIN holds' = DOMAIN holds, Firm(holds[h], holds'[h]),
         \A g \in DOMAIN holds \ {h} : Mild(holds[g], holds'[g]),
         order'.state = "verified" => \A g \in DOMAIN holds \ {h} : holds'[g] = holds[g],
         h = order.escrow => EscrowTold(holds[h], holds'[h])
  PROVE  PaidInTime'
<1>1. FirmRows(holds, holds')
  <2>1. \A g \in DOMAIN holds : Firm(holds[g], holds'[g])
    BY MildIsFirm
  <2> QED
    BY <2>1 DEF FirmRows
<1>2. order.escrow # 0 => EscrowTold(holds[order.escrow], holds'[order.escrow])
  <2>1. order.escrow # 0 => order.escrow \in DOMAIN holds
    BY DEF IInv, OrderBook, EscrowIsThere
  <2>2. ASSUME NEW g \in DOMAIN holds \ {h} PROVE EscrowTold(holds[g], holds'[g])
    BY <2>2 DEF EscrowTold, Mild
  <2> QED
    BY <2>1, <2>2
<1> QED
  BY <1>1, <1>2, PaidSlow

LEMMA PaidWrites ==
  ASSUME IInv, PaidInTime, Stands, OrderSoft, NEW h \in DOMAIN holds, NEW q \in HoldRow,
         holds' = [holds EXCEPT ![h] = q], Firm(holds[h], q),
         h = order.escrow => EscrowTold(holds[h], q)
  PROVE  PaidInTime'
<1>1. holds \in Seq(HoldRow)
  BY Typed DEF Whole
<1>2. /\ DOMAIN holds' = DOMAIN holds /\ holds'[h] = q
      /\ \A g \in DOMAIN holds \ {h} : holds'[g] = holds[g]
  BY <1>1, WriteRow
<1>3. \A g \in DOMAIN holds \ {h} : Mild(holds[g], holds'[g])
  BY <1>2 DEF Mild
<1> QED
  BY <1>2, <1>3, PaidRow

\* The same, and h or the claim's rows are given back.
LEMMA PaidThenMild ==
  ASSUME IInv, PaidInTime, Stands, OrderSoft, NEW h \in DOMAIN holds, NEW q \in HoldRow,
         NEW hs, hs = [holds EXCEPT ![h] = q], MildRows(hs, holds'), DOMAIN holds' = DOMAIN hs,
         Firm(holds[h], holds'[h]),
         order'.state = "verified" => \A g \in DOMAIN holds \ {h} : holds'[g] = hs[g],
         h = order.escrow => EscrowTold(holds[h], holds'[h])
  PROVE  PaidInTime'
<1>1. holds \in Seq(HoldRow)
  BY Typed DEF Whole
<1>2. /\ DOMAIN hs = DOMAIN holds /\ hs[h] = q
      /\ \A g \in DOMAIN holds \ {h} : hs[g] = holds[g]
  BY <1>1, WriteRow
<1>3. \A g \in DOMAIN holds \ {h} : Mild(holds[g], holds'[g])
  BY <1>2 DEF MildRows
<1> QED
  BY <1>2, <1>3, PaidRow

\* What was waited for and is not verified is not told of, but of what it is charged with.
LEMMA Told_Elsewhere ==
  ASSUME NEW r, NEW q, q.paid = r.paid, order'.state # "verified" \/ order'.pendingClose # "none"
  PROVE  EscrowTold(r, q)
  BY DEF EscrowTold

\* The escrow of a verified trade that is not closing is open, and nobody gives it back.
LEMMA TheWaitedFor ==
  ASSUME IInv, PaidInTime, order.state = "verified", order.pendingClose = "none"
  PROVE  /\ order.escrow # 0 /\ order.escrow \in DOMAIN holds
         /\ holds[order.escrow].purpose = "escrow"
         /\ holds[order.escrow].status = "open" /\ holds[order.escrow].disposing = "none"
         /\ holds[order.escrow].node = "accepted" => life # 0
  BY Typed DEF PaidInTime, VerifiedIsOpen, VerifiedEscrow, IInv, OrderBook, EscrowIsThere, Others, Lives

\* The node's copy moves on to an end of it.
LEMMA PaidAtNode ==
  ASSUME IInv, PaidInTime, Stands, UNCHANGED order, NEW h \in DOMAIN holds, NEW n \in NodeStates,
         holds' = [holds EXCEPT ![h] = [holds[h] EXCEPT !.node = n]],
         n # "accepted" \/ holds[h].node = "accepted",
         n # "open" \/ holds[h].status # "open",
         h = order.escrow /\ order.state = "verified" => order.pendingClose # "none"
           \/ (n # "accepted" /\ holds[h].node # "accepted")
  PROVE  PaidInTime'
<1> DEFINE r == holds[h]
           q == [r EXCEPT !.node = n]
<1>1. r \in HoldRow
  BY RowOf
<1>2. /\ q \in HoldRow /\ q.node = n /\ q.status = r.status /\ q.purpose = r.purpose
      /\ q.paid = r.paid /\ q.due = r.due /\ q.disposing = r.disposing
  BY <1>1 DEF HoldRow, NodeStates
<1>3. holds' = [holds EXCEPT ![h] = q]
  OBVIOUS
<1> HIDE DEF q
<1>4. Firm(r, q)
  BY <1>2 DEF Firm, Waits
<1>5. h = order.escrow => EscrowTold(r, q)
  BY <1>2 DEF EscrowTold
<1> QED
  BY <1>2, <1>3, <1>4, <1>5, Soft_Same, PaidWrites

LEMMA PaidLost ==
  ASSUME IInv, PaidInTime, NEW h \in DOMAIN holds, HoldCreateLost(h) \/ HoldDisposeLost(h)
  PROVE  PaidInTime'
<1>1. AnswerLost
  BY DEF HoldCreateLost, HoldDisposeLost
<1>2. Stands /\ UNCHANGED order
  BY <1>1 DEF AnswerLost, Dies, InEffects, Stands, PollHasSeen, ClockRuns, time
<1>3. CASE HoldCreateLost(h)
  <2>1. holds[h].status = "creating"
        /\ holds' = [holds EXCEPT ![h] = [holds[h] EXCEPT !.node = "open"]]
    BY <1>3 DEF HoldCreateLost
  <2>2. h = order.escrow /\ order.state = "verified" => order.pendingClose # "none"
    BY <2>1, TheWaitedFor
  <2> QED
    BY <1>2, <2>1, <2>2, PaidAtNode DEF NodeStates
<1>4. CASE HoldDisposeLost(h)
  <2> DEFINE n == settleOrCancel(holds[h], holds[h].disposing)
  <2>1. holds[h].disposing # "none"
        /\ holds' = [holds EXCEPT ![h] = [holds[h] EXCEPT !.node = n]]
    BY <1>4 DEF HoldDisposeLost
  <2>2. h = order.escrow /\ order.state = "verified" => order.pendingClose # "none"
    BY <2>1, TheWaitedFor
  <2>3. n \in NodeStates /\ n # "open" /\ n # "accepted"
    BY RowOf, SettleOrCancel
  <2> HIDE DEF n
  <2> QED
    BY <1>2, <2>1, <2>2, <2>3, PaidAtNode
<1> QED
  BY <1>3, <1>4

LEMMA PaidVisits ==
  ASSUME IInv, PaidInTime, NEW h \in DOMAIN holds, CloseHold(h) PROVE PaidInTime'
<1> DEFINE n == settleOrCancel(holds[h], wanted(h))
<1>1. /\ Stands /\ UNCHANGED order /\ pc = "closing"
      /\ holds' = [holds EXCEPT ![h] = [holds[h] EXCEPT !.node = n]]
  BY DEF CloseHold, InClosing, Stands, PollHasSeen, ClockRuns, time
<1>2. n \in NodeStates /\ n # "open" /\ n # "accepted"
  BY RowOf, SettleOrCancel
<1>3. order.pendingClose # "none"
  BY <1>1, TheClose
<1> HIDE DEF n
<1> QED
  BY <1>1, <1>2, <1>3, PaidAtNode

LEMMA PaidDisposes ==
  ASSUME IInv, PaidInTime, NEW h \in DOMAIN holds, HoldDispose(h) PROVE PaidInTime'
<1> DEFINE r == holds[h]
           n == settleOrCancel(r, r.disposing)
           q == DisposedRow(r, FinalOf(n), n)
<1>1. /\ Stands /\ UNCHANGED order /\ r.disposing # "none" /\ holds' = [holds EXCEPT ![h] = q]
  BY DEF HoldDispose, DisposedRow, InEffects, Stands, PollHasSeen, ClockRuns, time
<1>2. r \in HoldRow /\ FinalOf(n) \in {"settled", "cancelled"} /\ FinalOf(n) \in Statuses
  BY RowOf DEF FinalOf, Statuses
<1>3. n \in NodeStates
  BY <1>2, SettleOrCancel
<1>4. q \in HoldRow /\ q.status = FinalOf(n) /\ q.purpose = r.purpose
  BY <1>2, <1>3, Became_Ends
<1>5. q.paid = r.paid
  <2> DEFINE b == Became(r, FinalOf(n))
  <2>1. b \in HoldRow /\ b.paid = r.paid
    BY <1>2, Became_Row
  <2>2. q = [b EXCEPT !.node = n, !.disposing = "none"]
    BY DEF DisposedRow
  <2> HIDE DEF b, q
  <2> QED
    BY <2>1, <2>2 DEF HoldRow
<1> HIDE DEF q, n
<1>6. Firm(r, q)
  BY <1>2, <1>4, Final_Firm
<1>7. h = order.escrow => EscrowTold(r, q)
  BY <1>1, <1>5, TheWaitedFor, Told_Elsewhere
<1> QED
  BY <1>1, <1>4, <1>6, <1>7, Soft_Same, PaidWrites

LEMMA PaidRests ==
  ASSUME IInv, PaidInTime,
         \/ CloseStart \/ EndTick \/ CloseInterrupted \/ Crash
         \/ SponsorRemits \/ InvoiceWindowEnds \/ WarmsUp
  PROVE  PaidInTime'
<1>1. UNCHANGED <<order, holds>> /\ Stands
  BY DEF CloseStart, EndTick, CloseInterrupted, Crash, Dies, SponsorRemits, InvoiceWindowEnds,
         WarmsUp, InEffects, InClosing, Clockwork, Outside, Stands, PollHasSeen, ClockRuns, time
<1> QED
  BY <1>1, PaidMild, Soft_Same, Mild_Unchanged

LEMMA PaidOutside ==
  ASSUME IInv, PaidInTime, NEW h \in DOMAIN holds, NodeGivesUp(h) \/ PayByPasses(h)
  PROVE  PaidInTime'
<1> DEFINE r == holds[h]
<1>1. UNCHANGED order /\ Stands
  BY DEF NodeGivesUp, PayByPasses, Clockwork, Outside, Stands, PollHasSeen, ClockRuns, time
<1>2. CASE NodeGivesUp(h)
  <2>1. /\ r.node = "open" \/ (r.node = "accepted" /\ life = 0)
        /\ holds' = [holds EXCEPT ![h] = [holds[h] EXCEPT !.node = "cancelled"]]
    BY <1>2 DEF NodeGivesUp
  <2>2. h = order.escrow /\ order.state = "verified" => order.pendingClose # "none" \/ r.node # "accepted"
    BY <2>1, TheWaitedFor
  <2> QED
    BY <1>1, <2>1, <2>2, PaidAtNode DEF NodeStates
<1>3. CASE PayByPasses(h)
  <2> DEFINE q == [r EXCEPT !.due = TRUE]
  <2>1. holds' = [holds EXCEPT ![h] = q]
    BY <1>3 DEF PayByPasses
  <2>2. /\ q \in HoldRow /\ q.node = r.node /\ q.status = r.status /\ q.purpose = r.purpose
        /\ q.paid = r.paid /\ q.due = TRUE /\ q.disposing = r.disposing
    BY RowOf DEF HoldRow
  <2> HIDE DEF q
  <2>3. Firm(r, q) /\ EscrowTold(r, q)
    BY <2>2 DEF Firm, Waits, EscrowTold
  <2> QED
    BY <1>1, <2>1, <2>2, <2>3, Soft_Same, PaidWrites
<1> QED
  BY <1>2, <1>3

\* What the payer pays is not due; so it is not what anybody is charged with.
LEMMA PaidByPayer ==
  ASSUME IInv, PaidInTime, NEW h \in DOMAIN holds, PayerPays(h) PROVE PaidInTime'
<1> DEFINE r == holds[h]
           b == (r.purpose = "escrow")
           q == [r EXCEPT !.node = "accepted", !.paid = b]
<1>0. r \in HoldRow /\ b \in BOOLEAN
  BY RowOf
<1>1. /\ UNCHANGED order /\ Stands /\ ~ PollHasSeen' /\ UNCHANGED <<life, phase, seenLife>>
      /\ r.status = "open" /\ r.node = "open" /\ r.due # TRUE /\ holds' = [holds EXCEPT ![h] = q]
  BY DEF PayerPays, Outside, Stands, PollHasSeen, ClockRuns, time
<1>2. /\ q \in HoldRow /\ q.node = "accepted" /\ q.status = r.status /\ q.purpose = r.purpose
      /\ q.due = r.due /\ q.disposing = r.disposing /\ q.paid = b
  <2> DEFINE s == [r EXCEPT !.node = "accepted"]
  <2>1. /\ s \in HoldRow /\ s.node = "accepted" /\ s.status = r.status /\ s.purpose = r.purpose
        /\ s.due = r.due /\ s.disposing = r.disposing
    BY <1>0 DEF HoldRow
  <2> HIDE DEF b
  <2>2. q = [s EXCEPT !.paid = b]
    BY <1>0 DEF HoldRow
  <2> HIDE DEF s, q
  <2> QED
    BY <1>0, <2>1, <2>2 DEF HoldRow
<1> HIDE DEF q, b
<1>3. Firm(r, q)
  BY <1>1, <1>2 DEF Firm, Waits
<1>4. CASE h # order.escrow
  BY <1>1, <1>2, <1>3, <1>4, Soft_Same, PaidWrites
<1>5. CASE h = order.escrow
  <2>1. /\ DOMAIN holds' = DOMAIN holds /\ holds'[h] = q
        /\ \A g \in DOMAIN holds \ {h} : holds'[g] = holds[g]
    BY <1>1, <1>2, Typed, WriteRow DEF Whole
  <2>2. FirmRows(holds, holds')
    <3>1. \A g \in DOMAIN holds : Firm(holds[g], holds'[g])
      BY <1>3, <2>1, MildIsFirm DEF Mild
    <3> QED
      BY <2>1, <3>1 DEF FirmRows
  <2>3. CreatingIsUnpaid' /\ OpenIsTheOrders' /\ DueInTime' /\ LifeIsWhole'
    BY <1>1, <2>2, PaidBasics
  <2>4. b = TRUE
    <3>1. r.purpose = "escrow"
      BY <1>5, RowOf DEF IInv, OrderBook, EscrowIsThere
    <3> QED
      BY <3>1, Zenon DEF b
  <2>5. VerifiedIsOpen'
    <3> SUFFICES ASSUME order.state = "verified", order.pendingClose = "none"
                 PROVE  /\ order.escrow # 0 /\ ~ PollHasSeen'
                        /\ holds'[order.escrow].status = "open" /\ holds'[order.escrow].disposing = "none"
                        /\ holds'[order.escrow].paid = TRUE /\ holds'[order.escrow].node = "accepted"
                        /\ life' = 4
      BY <1>1 DEF VerifiedIsOpen, VerifiedEscrow
    <3>1. order.escrow # 0 /\ r.disposing = "none" /\ life = 4
      BY <1>1, <1>5 DEF PaidInTime, VerifiedIsOpen, VerifiedEscrow
    <3>2. holds'[order.escrow] = q
      BY <1>5, <2>1
    <3>3. q.status = "open" /\ q.disposing = "none" /\ q.paid = TRUE /\ q.node = "accepted"
      BY <1>1, <1>2, <2>4, <3>1
    <3> QED
      BY <1>1, <3>1, <3>2, <3>3
  <2>6. UnpaidIsUnpaid'
    <3>1. order.pendingClose \notin UnpaidReasons
      BY <1>1, <1>5 DEF PaidInTime, UnpaidIsUnpaid, Unpayable
    <3>2. order.state \notin Terminal
      BY <1>1 DEF IInv, HoldBook, EndedIsClosed, LiveHold
    <3>3. order.closeReason \notin UnpaidReasons
      BY <3>2, UnpaidCloses
    <3> QED
      BY <1>1, <3>1, <3>3 DEF UnpaidIsUnpaid
  <2> QED
    BY <2>3, <2>5, <2>6 DEF PaidInTime
<1> QED
  BY <1>4, <1>5

LEMMA PaidPollCancels ==
  ASSUME IInv, PaidInTime, NEW h \in DOMAIN holds, PollNext(h),
         ~ PollDefers(h), holds[h].node = "cancelled",
         nodeCancelled(h, [holds EXCEPT ![h] = Became(holds[h], "cancelled")])
  PROVE  PaidInTime'
<1> DEFINE r == holds[h]
           q == Became(r, "cancelled")
           hs == [holds EXCEPT ![h] = q]
<1>0. order \in OrderRow /\ holds \in Seq(HoldRow) /\ r \in HoldRow
  BY Typed, RowOf DEF Whole
<1>1. /\ q \in HoldRow /\ q.status = "cancelled" /\ q.purpose = r.purpose /\ q.paid = r.paid
      /\ q.node = r.node
  BY <1>0, Became_Row DEF Statuses
<1>2. order.pendingClose = "none"
  BY DEF PollDefers
<1>3. nodeCancelled(h, hs) /\ pc = "poll" /\ UNCHANGED <<life, seenLife, phase>>
  BY DEF PollNext, time
<1>4. hs \in Seq(HoldRow) /\ DOMAIN hs = DOMAIN holds /\ hs[h] = q
      /\ \A g \in DOMAIN holds \ {h} : hs[g] = holds[g]
  BY <1>0, <1>1, WriteRow
<1> HIDE DEF q
<1>5. hs = [holds EXCEPT ![h] = q]
  OBVIOUS
<1> HIDE DEF hs
<1>6. ASSUME OrderSoft, MildRows(hs, holds'), DOMAIN holds' = DOMAIN hs,
             order'.state = "verified" => holds' = hs,
             order'.state = "verified" /\ order'.pendingClose = "none" => h # order.escrow
      PROVE  PaidInTime'
  <2>1. Mild(q, holds'[h])
    BY <1>4, <1>6 DEF MildRows
  <2>2. holds'[h].purpose = r.purpose /\ holds'[h].status = "cancelled" /\ holds'[h].paid = r.paid
    BY <1>1, <2>1 DEF Mild
  <2>3. Firm(r, holds'[h])
    BY <2>2, Final_Firm
  <2>4. h = order.escrow => EscrowTold(r, holds'[h])
    BY <1>6, <2>2, Told_Elsewhere
  <2>5. Stands
    <3> SUFFICES ASSUME order'.state = "verified", order'.pendingClose = "none", PollHasSeen'
                 PROVE  PollHasSeen
      BY <1>3 DEF Stands
    <3>1. order.escrow # h /\ order'.escrow = order.escrow
      BY <1>6 DEF OrderSoft, Waited
    <3> QED
      BY <1>3, <3>1 DEF PollNext, PollHasSeen, ClockRuns
  <2> QED
    BY <1>1, <1>4, <1>5, <1>6, <2>3, <2>4, <2>5, PaidThenMild
<1>7. CASE r.purpose = "customer"
  <2>1. holds' = hs /\ (UNCHANGED order \/ (order.state = "draft" /\ order' = [order EXCEPT !.state = "none"]))
    BY <1>3, <1>7 DEF nodeCancelled
  <2>2. h # order.escrow
    BY <1>7, RowOf DEF IInv, OrderBook, EscrowIsThere
  <2>3. OrderSoft
    <3>1. CASE UNCHANGED order
      BY <3>1, Soft_Same
    <3>2. CASE order.state = "draft" /\ order' = [order EXCEPT !.state = "none"]
      BY <1>0, <3>2, Order_State, Soft_Young DEF OrderStates, Rest, Young, Unclosed
    <3> QED
      BY <2>1, <3>1, <3>2
  <2> QED
    BY <1>6, <2>1, <2>2, <2>3, Mild_Unchanged
<1>8. CASE r.purpose = "sponsor"
  <2>1. \/ holds' = hs /\ UNCHANGED order
        \/ holds' = Reverted(hs, order) /\ order' = Unclaimed(order) /\ order.state = "claimed"
    BY <1>3, <1>8 DEF nodeCancelled
  <2>2. h # order.escrow
    BY <1>8, RowOf DEF IInv, OrderBook, EscrowIsThere
  <2>3. CASE holds' = hs /\ UNCHANGED order
    BY <1>6, <2>2, <2>3, Mild_Unchanged, Soft_Same
  <2>4. CASE holds' = Reverted(hs, order) /\ order' = Unclaimed(order) /\ order.state = "claimed"
    <3>1. OrderSoft /\ order'.state = "requested"
      BY <1>0, <2>4, Order_Unclaimed, Soft_Young DEF Young, Unclosed
    <3> QED
      BY <1>4, <1>6, <2>4, <3>1, Mild_Reverted
  <2> QED
    BY <2>1, <2>3, <2>4
<1>9. CASE r.purpose = "escrow"
  <2>1. /\ holds' = hs
        /\ \/ order.escrow = h /\ order.state = "verified" /\ beginClose("cancel:unpaid-escrow")
           \/ /\ order.escrow = h /\ order.state # "verified" /\ overdue # "none" /\ beginClose(overdue)
           \/ ~ (order.escrow = h /\ order.state = "verified") /\ UNCHANGED order
    BY <1>3, <1>9 DEF nodeCancelled
  <2>2. CASE ~ (order.escrow = h /\ order.state = "verified") /\ UNCHANGED order
    BY <1>6, <2>1, <2>2, Mild_Unchanged, Soft_Same
  <2>3. CASE order.escrow = h /\ order.state # "verified" /\ overdue # "none" /\ beginClose(overdue)
    <3>1. overdue \in LnCloseReason /\ overdue \notin UnpaidReasons
      BY <2>3, OverdueReason DEF overdue, expiryReasonFor, UnpaidReasons
    <3>2. OrderSoft
      BY <2>3, <3>1, Soft_Closing
    <3>3. order'.state # "verified"
      BY <2>3, <3>1, Closes
    <3> QED
      BY <1>6, <2>1, <3>2, <3>3, Mild_Unchanged
  <2>4. CASE order.escrow = h /\ order.state = "verified" /\ beginClose("cancel:unpaid-escrow")
    <3>1. order'.state = order.state /\ order'.escrow = order.escrow
          /\ order'.closeReason = order.closeReason /\ order'.pendingClose = "cancel:unpaid-escrow"
      BY <1>0, <2>4, Order_Closing DEF beginClose, Closing, Maybe, LnCloseReason
    <3>2. Firm(r, q)
      BY <1>1, Final_Firm
    <3>3. FirmRows(holds, holds')
      <4>1. \A g \in DOMAIN holds : Firm(holds[g], holds'[g])
        BY <1>4, <2>1, <3>2, MildIsFirm DEF Mild
      <4> QED
        BY <1>4, <2>1, <4>1 DEF FirmRows
    <3>4. CreatingIsUnpaid' /\ OpenIsTheOrders' /\ DueInTime' /\ LifeIsWhole'
      BY <1>3, <3>1, <3>3, PaidBasics
    <3>5. VerifiedIsOpen'
      BY <3>1 DEF VerifiedIsOpen
    <3>6. r.paid # TRUE
      BY <1>2, <2>4 DEF PaidInTime, VerifiedIsOpen, VerifiedEscrow
    <3>7. q.paid = FALSE
      BY <1>0, <1>1, <3>6 DEF HoldRow
    <3>8. Unpayable(q)
      BY <1>1, <3>7 DEF Unpayable
    <3>9. UnpaidIsUnpaid'
      BY <1>4, <2>1, <2>4, <3>1, <3>7, <3>8, RowOf DEF UnpaidIsUnpaid
    <3> QED
      BY <3>4, <3>5, <3>9 DEF PaidInTime
  <2> QED
    BY <2>1, <2>2, <2>3, <2>4
<1> QED
  BY <1>0, <1>7, <1>8, <1>9 DEF HoldRow

LEMMA PaidPollAccepts ==
  ASSUME IInv, PaidInTime, NEW h \in DOMAIN holds, PollNext(h),
         holds[h].node = "accepted", holds[h].status = "open",
         accepted(h, [holds EXCEPT ![h] = Became(holds[h], "accepted")])
  PROVE  PaidInTime'
<1> DEFINE r == holds[h]
           q == Became(r, "accepted")
           hs == [holds EXCEPT ![h] = q]
<1>0. order \in OrderRow /\ holds \in Seq(HoldRow) /\ r \in HoldRow
  BY Typed, RowOf DEF Whole
<1>1. /\ q \in HoldRow /\ q.status = "accepted" /\ q.purpose = r.purpose /\ q.paid = r.paid
      /\ q.disposing = r.disposing
  BY <1>0, Became_Row DEF Statuses
<1>3. accepted(h, hs) /\ pc = "poll" /\ UNCHANGED <<life, seenLife, phase>>
  BY DEF PollNext, time
<1>4. hs \in Seq(HoldRow) /\ DOMAIN hs = DOMAIN holds /\ hs[h] = q
      /\ \A g \in DOMAIN holds \ {h} : hs[g] = holds[g]
  BY <1>0, <1>1, WriteRow
<1> HIDE DEF q
<1>5. hs = [holds EXCEPT ![h] = q]
  OBVIOUS
<1> HIDE DEF hs
<1>6. ASSUME OrderSoft, MildRows(hs, holds'), DOMAIN holds' = DOMAIN hs,
             \A g \in DOMAIN holds \ {h} : holds'[g] = hs[g],
             order'.state = "verified" /\ order'.pendingClose = "none" => h # order.escrow
      PROVE  PaidInTime'
  <2>1. Mild(q, holds'[h])
    BY <1>4, <1>6 DEF MildRows
  <2>2. holds'[h].purpose = r.purpose /\ holds'[h].status = "accepted" /\ holds'[h].paid = r.paid
        /\ (holds'[h].disposing = "none" => r.disposing = "none")
    BY <1>1, <2>1 DEF Mild
  <2>3. Firm(r, holds'[h])
    BY <2>2 DEF Firm, Waits
  <2>4. h = order.escrow => EscrowTold(r, holds'[h])
    BY <1>6, <2>2, Told_Elsewhere
  <2>5. Stands
    <3> SUFFICES ASSUME order'.state = "verified", order'.pendingClose = "none", PollHasSeen'
                 PROVE  PollHasSeen
      BY <1>3 DEF Stands
    <3>1. order.escrow # h /\ order'.escrow = order.escrow
      BY <1>6 DEF OrderSoft, Waited
    <3> QED
      BY <1>3, <3>1 DEF PollNext, PollHasSeen, ClockRuns
  <2> QED
    BY <1>1, <1>4, <1>5, <1>6, <2>3, <2>4, <2>5, PaidThenMild
<1>7. MildRows(hs, hs) /\ MildRows(hs, Disposed(hs, {h}, "cancel"))
      /\ DOMAIN Disposed(hs, {h}, "cancel") = DOMAIN hs
      /\ \A g \in DOMAIN holds \ {h} : Disposed(hs, {h}, "cancel")[g] = hs[g]
  <2>1. \A g \in DOMAIN holds \ {h} : Disposed(hs, {h}, "cancel")[g] = hs[g]
    BY <1>4 DEF Disposed
  <2> QED
    BY <1>4, <2>1, Mild_Unchanged, Mild_Disposed
<1>8. CASE r.purpose \in {"customer", "sponsor"}
  <2>1. /\ holds' = hs \/ holds' = Disposed(hs, {h}, "cancel")
        /\ \/ UNCHANGED order
           \/ order.state = "draft" /\ order' = [order EXCEPT !.state = "requested"]
           \/ order.state = "claimed" /\ order' = [order EXCEPT !.sponsorDeposit = h]
    BY <1>1, <1>3, <1>4, <1>8 DEF accepted
  <2>2. h # order.escrow
    BY <1>8, RowOf DEF IInv, OrderBook, EscrowIsThere
  <2>3. OrderSoft
    <3>1. CASE UNCHANGED order
      BY <3>1, Soft_Same
    <3>2. CASE order.state = "draft" /\ order' = [order EXCEPT !.state = "requested"]
      BY <1>0, <3>2, Order_State, Soft_Young DEF OrderStates, OrderState, Rest, Young, Unclosed
    <3>3. CASE order.state = "claimed" /\ order' = [order EXCEPT !.sponsorDeposit = h]
      <4>1. order'.state = order.state /\ Unclosed
        BY <1>0, <3>3 DEF OrderRow, Unclosed
      <4> QED
        BY <3>3, <4>1, Soft_Young DEF Young
    <3> QED
      BY <2>1, <3>1, <3>2, <3>3
  <2> QED
    BY <1>6, <1>7, <2>1, <2>2, <2>3
<1>9. CASE r.purpose = "escrow"
  <2>1. \/ order.escrow # h /\ holds' = Disposed(hs, {h}, "cancel") /\ UNCHANGED order
        \/ /\ order.escrow = h /\ holds' = hs
           /\ order.state = "verified" /\ order.pendingClose = "none"
           /\ order' = [order EXCEPT !.state = "escrowed"]
        \/ /\ order.escrow = h /\ holds' = hs /\ UNCHANGED order
           /\ ~ (order.state = "verified" /\ order.pendingClose = "none")
    BY <1>1, <1>3, <1>4, <1>9 DEF accepted
  <2>2. CASE order.escrow # h /\ holds' = Disposed(hs, {h}, "cancel") /\ UNCHANGED order
    BY <1>6, <1>7, <2>2, Soft_Same
  <2>3. CASE /\ order.escrow = h /\ holds' = hs /\ UNCHANGED order
             /\ ~ (order.state = "verified" /\ order.pendingClose = "none")
    BY <1>6, <1>7, <2>3, Soft_Same
  <2>4. CASE /\ holds' = hs /\ order.state = "verified" /\ order.pendingClose = "none"
             /\ order' = [order EXCEPT !.state = "escrowed"]
    <3>1. order'.state = "escrowed" /\ order'.escrow = order.escrow /\ Unclosed
      BY <1>0, <2>4 DEF OrderRow, Unclosed
    <3>2. OrderSoft
      BY <2>4, <3>1, Soft_Late DEF Waited, Late
    <3> QED
      BY <1>6, <1>7, <2>4, <3>1, <3>2
  <2> QED
    BY <2>1, <2>2, <2>3, <2>4
<1> QED
  BY <1>0, <1>8, <1>9 DEF HoldRow

LEMMA PaidPolls ==
  ASSUME IInv, PaidInTime, NEW h \in DOMAIN holds, PollNext(h) PROVE PaidInTime'
<1>1. observe(h) /\ pc = "poll" /\ pc' = "poll" /\ h \in todo /\ todo' = todo \ {h}
      /\ UNCHANGED <<life, seenLife, phase>>
  BY DEF PollNext, time
<1>2. holds[h].status \in {"open", "accepted"}
  BY <1>1 DEF IInv, Progress, PollIsOfOpen
<1>3. CASE (PollDefers(h) \/ holds[h].node = holds[h].status) /\ UNCHANGED <<order, holds>>
  <2>1. CASE Stands
    BY <1>3, <2>1, PaidMild, Soft_Same, Mild_Unchanged
  <2>2. CASE ~ Stands
    <3>1. order.state = "verified" /\ order.pendingClose = "none" /\ order.escrow = h
      BY <1>1, <1>3, <2>2 DEF Stands, PollHasSeen, ClockRuns
    <3>2. VerifiedEscrow(holds[h])
      BY <3>1 DEF PaidInTime, VerifiedIsOpen
    <3>3. holds[h].node # "accepted"
      BY <1>3, <3>1, <3>2 DEF PollDefers, VerifiedEscrow
    <3>4. VerifiedIsOpen'
      BY <1>1, <1>3, <3>1, <3>2, <3>3, RowOf DEF VerifiedIsOpen, VerifiedEscrow
    <3>5. CreatingIsUnpaid' /\ OpenIsTheOrders' /\ DueInTime' /\ LifeIsWhole' /\ UnpaidIsUnpaid'
      BY <1>1, <1>3 DEF PaidInTime, CreatingIsUnpaid, OpenIsTheOrders, DueInTime, LifeIsWhole, UnpaidIsUnpaid
    <3> QED
      BY <3>4, <3>5 DEF PaidInTime
  <2> QED
    BY <2>1, <2>2
\* Nobody but the daemon settles.
<1>4. CASE ~ PollDefers(h) /\ holds[h].node = "settled"
  BY <1>2, <1>4 DEF PollDefers, IInv, HoldBook, SettlesAreOurs
<1> QED
  BY <1>1, <1>3, <1>4, PaidPollAccepts, PaidPollCancels DEF observe

\* While a claim waits for its escrow to be made, nobody has asked to give that back.
ClaimIsKept == order.state = "claimed" /\ order.pendingClose = "none" /\ order.escrow # 0 =>
  holds[order.escrow].disposing = "none"

LEMMA PaidCreates ==
  ASSUME IInv, InTime, PaidInTime, ClaimIsKept, NEW h \in DOMAIN holds, HoldCreate(h) PROVE PaidInTime'
<1> DEFINE r == holds[h]
           q(node, status) == CreatedRow(r, status, node)
           W(node, status) == [holds EXCEPT ![h] = q(node, status)]
<1>0. order \in OrderRow /\ r \in HoldRow /\ r.status \in Statuses /\ r.node \in NodeStates
      /\ r.purpose \in {"customer", "sponsor", "escrow"} /\ holds \in Seq(HoldRow)
  BY Typed, RowOf DEF HoldRow, Statuses, NodeStates, Whole
<1>1. Stands /\ ~ PollHasSeen' /\ r.creating /\ UNCHANGED <<life, phase>>
  BY DEF HoldCreate, InEffects, Stands, PollHasSeen, time, ClockRuns
<1>2. r.status \notin {"open", "accepted"}
  BY <1>1 DEF InTime, RowsAreMade, Recorded
<1>3. \/ /\ r.status # "creating"
         /\ holds' = W(settleOrCancel(r, "cancel"), r.status) /\ UNCHANGED order
      \/ r.status = "creating" /\ createFailed(h, W("absent", "cancelled"))
      \/ r.status = "creating" /\ created(h, W("open", "open"))
      \/ r.status = "creating" /\ created(h, W(r.node, "open"))
  BY DEF HoldCreate, CreatedRow
<1>4. ASSUME NEW node \in NodeStates, NEW status \in Statuses
      PROVE  /\ q(node, status) \in HoldRow /\ q(node, status).status = status
             /\ q(node, status).node = node /\ q(node, status).disposing = r.disposing
             /\ q(node, status).purpose = r.purpose /\ q(node, status).paid = r.paid
             /\ status = "open" => q(node, status).due = r.due
  <2> DEFINE b == Became(r, status)
             s == [r EXCEPT !.status = status]
  <2>1. b \in HoldRow /\ b.paid = r.paid
    BY <1>0, Became_Row
  <2>2. q(node, status) = [b EXCEPT !.node = node, !.creating = FALSE]
    BY DEF CreatedRow
  <2>3. status = "open" => b.due = r.due
    <3> SUFFICES ASSUME status = "open" PROVE b.due = r.due
      OBVIOUS
    <3>1. s \in HoldRow /\ s.due = r.due
      BY <1>0 DEF HoldRow, Statuses
    <3>2. b = [s EXCEPT !.due = r.due /\ status \in {"creating", "open"}]
      BY <1>0 DEF Became, HoldRow
    <3> HIDE DEF s
    <3>3. b.due = (r.due /\ status \in {"creating", "open"})
      BY <3>1, <3>2 DEF HoldRow
    <3>4. r.due \in BOOLEAN /\ status \in {"creating", "open"}
      BY <1>0 DEF HoldRow
    <3> HIDE DEF b
    <3> QED
      BY <3>3, <3>4, Zenon
  <2> HIDE DEF b
  <2>4. q(node, status).paid = r.paid /\ (status = "open" => q(node, status).due = r.due)
    <3> DEFINE p == q(node, status)
    <3>1. p = [b EXCEPT !.node = node, !.creating = FALSE]
      BY <2>2
    <3> HIDE DEF p, q
    <3>2. p.paid = b.paid /\ p.due = b.due
      BY <2>1, <3>1 DEF HoldRow
    <3> QED
      BY <2>1, <2>3, <3>2 DEF p
  <2> QED
    BY <1>0, <1>4, <2>4, Became_Ends
<1>6. ASSUME NEW node \in NodeStates, NEW status \in Statuses
      PROVE  LET hs == W(node, status) IN
             /\ hs \in Seq(HoldRow) /\ DOMAIN hs = DOMAIN holds /\ hs[h] = q(node, status)
             /\ \A g \in DOMAIN holds \ {h} : hs[g] = holds[g]
  BY <1>0, <1>4, WriteRow
\* An escrow that is not made yet is not the verified trade's.
<1>7. h = order.escrow => order.state # "verified" \/ order.pendingClose # "none"
  BY <1>2, TheWaitedFor
<1>8. ASSUME OrderSoft, NEW node \in NodeStates, NEW status \in Statuses,
             MildRows(W(node, status), holds'), DOMAIN holds' = DOMAIN W(node, status),
             order'.state = "verified" => \A g \in DOMAIN holds \ {h} : holds'[g] = W(node, status)[g],
             Firm(r, holds'[h])
      PROVE  PaidInTime'
  <2> DEFINE hs == W(node, status)
  <2>1. hs = [holds EXCEPT ![h] = q(node, status)] /\ q(node, status) \in HoldRow /\ hs[h] = q(node, status)
    BY <1>4, <1>6
  <2>2. MildRows(hs, holds') /\ DOMAIN holds' = DOMAIN hs /\ h \in DOMAIN hs
        /\ (order'.state = "verified" => \A g \in DOMAIN holds \ {h} : holds'[g] = hs[g])
    BY <1>6, <1>8
  <2>3. q(node, status).paid = r.paid
    BY <1>4
  <2> HIDE DEF hs, q
  <2>4. holds'[h].paid = r.paid
    BY <2>1, <2>2, <2>3 DEF MildRows, Mild
  <2>5. h = order.escrow => order'.state # "verified" \/ order'.pendingClose # "none"
    BY <1>7, <1>8 DEF OrderSoft
  <2>6. h = order.escrow => EscrowTold(r, holds'[h])
    BY <2>4, <2>5, Told_Elsewhere
  <2> QED
    BY <1>1, <1>8, <2>1, <2>2, <2>6, PaidThenMild
<1>9. CASE /\ r.status # "creating" /\ UNCHANGED order
           /\ holds' = W(settleOrCancel(r, "cancel"), r.status)
  <2> DEFINE n == settleOrCancel(r, "cancel")
             hs == W(n, r.status)
  <2>1. n \in NodeStates
    BY <1>0, SettleOrCancel
  <2>2. hs[h].status = r.status /\ hs[h].purpose = r.purpose /\ r.status \in {"settled", "cancelled"}
    BY <1>0, <1>2, <1>4, <1>6, <1>9, <2>1 DEF Statuses
  <2>3. holds' = hs
    BY <1>9
  <2> HIDE DEF n, q
  <2>5. MildRows(W(n, r.status), holds') /\ DOMAIN holds' = DOMAIN W(n, r.status)
        /\ \A g \in DOMAIN holds \ {h} : holds'[g] = W(n, r.status)[g]
    BY <2>3, Mild_Unchanged
  <2>6. Firm(r, holds'[h])
    <3> HIDE DEF hs
    <3> QED
      BY <2>2, <2>3, Final_Firm
  <2> QED
    BY <1>0, <1>8, <1>9, <2>1, <2>5, <2>6, Soft_Same
<1>10. CASE r.status = "creating" /\ createFailed(h, W("absent", "cancelled"))
  <2> DEFINE hs == W("absent", "cancelled")
  <2>1. hs[h].purpose = r.purpose /\ hs[h].status = "cancelled" /\ hs \in Seq(HoldRow)
        /\ DOMAIN hs = DOMAIN holds
    BY <1>0, <1>4, <1>6 DEF NodeStates, Statuses
  <2>2. createFailed(h, hs)
    BY <1>10
  <2> HIDE DEF hs
  <2>3. \/ holds' = hs /\ UNCHANGED order
        \/ holds' = hs /\ order.state = "draft" /\ order' = [order EXCEPT !.state = "none"]
        \/ holds' = Reverted(hs, order) /\ order.state = "claimed" /\ order' = Unclaimed(order)
        \/ holds' = hs /\ order.state = "claimed" /\ order' = [order EXCEPT !.escrow = 0]
    BY <1>0, <2>1, <2>2 DEF createFailed
  <2>4. OrderSoft /\ (UNCHANGED order \/ order'.state \in Young)
    <3>1. CASE UNCHANGED order
      BY <3>1, Soft_Same
    <3>2. CASE order.state = "draft" /\ order' = [order EXCEPT !.state = "none"]
      BY <1>0, <3>2, Order_State, Soft_Young DEF OrderStates, Rest, Young, Unclosed
    <3>3. CASE order.state = "claimed" /\ order' = Unclaimed(order)
      BY <1>0, <3>3, Order_Unclaimed, Soft_Young DEF Young, Unclosed
    <3>4. CASE order.state = "claimed" /\ order' = [order EXCEPT !.escrow = 0]
      <4>1. order'.state = order.state /\ Unclosed
        BY <1>0, <3>4 DEF OrderRow, Unclosed
      <4> QED
        BY <3>4, <4>1, Soft_Young DEF Young
    <3> QED
      BY <2>3, <3>1, <3>2, <3>3, <3>4
  <2>5. MildRows(hs, holds') /\ DOMAIN holds' = DOMAIN hs
    BY <2>1, <2>3, Mild_Unchanged, Mild_Reverted
  <2>6. Firm(r, holds'[h])
    <3>1. holds'[h].status = "cancelled" /\ holds'[h].purpose = r.purpose
      BY <2>1, <2>5 DEF MildRows, Mild
    <3> QED
      BY <3>1, Final_Firm
  <2>7. order'.state = "verified" => holds' = hs
    <3>1. order.state = "claimed" /\ order' = Unclaimed(order) => order'.state = "requested"
      BY <1>0, Order_Unclaimed
    <3> QED
      BY <2>3, <3>1
  <2>8. hs = W("absent", "cancelled")
    BY DEF hs
  <2> HIDE DEF W
  <2> QED
    BY <1>8, <2>4, <2>5, <2>6, <2>7, <2>8 DEF NodeStates, Statuses
<1>11. ASSUME r.status = "creating", NEW node \in NodeStates, node # "accepted", created(h, W(node, "open"))
       PROVE  PaidInTime'
  <2> DEFINE hs == W(node, "open")
  <2>1. /\ hs[h].purpose = r.purpose /\ hs[h].status = "open" /\ hs[h].node = node
        /\ hs[h].disposing = r.disposing /\ hs[h].paid = r.paid /\ hs[h].due = r.due
        /\ hs \in Seq(HoldRow) /\ DOMAIN hs = DOMAIN holds
        /\ \A g \in DOMAIN holds \ {h} : hs[g] = holds[g]
    BY <1>4, <1>6 DEF Statuses
  <2>2. created(h, hs)
    BY <1>11
  <2>3. hs = W(node, "open") /\ "open" \in Statuses
    BY DEF Statuses
  <2> HIDE DEF hs
  <2>4. \/ holds' = Disposed(hs, {h}, "cancel") /\ UNCHANGED order
        \/ holds' = hs /\ UNCHANGED order /\ r.purpose # "escrow"
        \/ /\ holds' = hs /\ r.purpose = "escrow" /\ order' = [order EXCEPT !.state = "verified"]
           /\ order.state = "claimed" /\ order.escrow = h /\ order.pendingClose = "none"
    BY <1>0, <2>1, <2>2 DEF created, Wanted
  <2>5. CASE holds' = Disposed(hs, {h}, "cancel") /\ UNCHANGED order
    <3>1. MildRows(hs, holds') /\ DOMAIN holds' = DOMAIN hs
      BY <2>1, <2>5, Mild_Disposed
    <3>2. \A g \in DOMAIN holds \ {h} : holds'[g] = hs[g]
      BY <2>1, <2>5 DEF Disposed
    <3>3. holds'[h].disposing # "none" /\ holds'[h].status = "open" /\ holds'[h].purpose = r.purpose
      BY <2>1, <2>5, Disposed_Rows
    <3>4. r.due = TRUE => holds'[h].due = TRUE
      BY <2>1, <3>1 DEF MildRows, Mild
    <3>5. Firm(r, holds'[h])
      BY <1>11, <3>3, <3>4 DEF Firm, Waits
    <3> HIDE DEF W
    <3> QED
      BY <1>8, <2>3, <2>5, <3>1, <3>2, <3>5, Soft_Same
  <2>6. CASE holds' = hs /\ UNCHANGED order /\ r.purpose # "escrow"
    <3>1. Firm(r, holds'[h])
      BY <1>11, <2>1, <2>6 DEF Firm, Waits
    <3>2. MildRows(hs, holds')
      BY <2>6, Mild_Unchanged
    <3> HIDE DEF W
    <3> QED
      BY <1>8, <2>3, <2>6, <3>1, <3>2, Soft_Same
  <2>7. CASE /\ holds' = hs /\ r.purpose = "escrow" /\ order' = [order EXCEPT !.state = "verified"]
             /\ order.state = "claimed" /\ order.escrow = h /\ order.pendingClose = "none"
    <3>1. order'.state = "verified" /\ Unclosed /\ order'.escrow = h
      BY <1>0, <2>7 DEF OrderRow, Unclosed
    <3>2. r.paid = FALSE /\ r.disposing = "none" /\ life = 4 /\ h # 0
      BY <1>11, <2>7, RowOf DEF PaidInTime, CreatingIsUnpaid, LifeIsWhole, Young, ClaimIsKept
    <3>3. CreatingIsUnpaid'
      BY <2>1, <2>7 DEF PaidInTime, CreatingIsUnpaid
    <3>4. OpenIsTheOrders'
      <4>1. ASSUME NEW g \in DOMAIN holds \ {h} PROVE ~ Waits(holds[g])
        BY <2>7 DEF PaidInTime, OpenIsTheOrders, Waited, Late
      <4> QED
        BY <2>1, <2>7, <3>1, <4>1 DEF OpenIsTheOrders, Waited
    <3>5. DueInTime'
      BY <1>1, <1>11, <2>1, <2>7 DEF PaidInTime, DueInTime
    <3>6. LifeIsWhole'
      BY <3>1 DEF LifeIsWhole, Young
    <3>7. VerifiedIsOpen'
      <4>1. holds'[h].status = "open" /\ holds'[h].disposing = "none" /\ holds'[h].paid = FALSE
            /\ holds'[h].node # "accepted" /\ life' = 4 /\ ~ PollHasSeen'
        BY <1>1, <1>11, <2>1, <2>7, <3>2
      <4> QED
        BY <3>1, <3>2, <4>1 DEF VerifiedIsOpen, VerifiedEscrow
    <3>8. UnpaidIsUnpaid'
      <4>1. order.state \notin Terminal
        BY <2>7, TerminalStates
      <4>2. order.closeReason \notin UnpaidReasons
        BY <4>1, UnpaidCloses
      <4>3. order'.pendingClose \notin UnpaidReasons
        BY <2>7, <3>1 DEF Unclosed, UnpaidReasons
      <4> QED
        BY <3>1, <4>2, <4>3 DEF UnpaidIsUnpaid, Unclosed
    <3> QED
      BY <3>3, <3>4, <3>5, <3>6, <3>7, <3>8 DEF PaidInTime
  <2> QED
    BY <2>4, <2>5, <2>6, <2>7
<1>12. r.status = "creating" => r.node # "accepted"
  BY DEF PaidInTime, CreatingIsUnpaid
<1> QED
  BY <1>0, <1>3, <1>9, <1>10, <1>11, <1>12 DEF NodeStates

LEMMA PaidFinishes ==
  ASSUME IInv, PaidInTime, CloseFinished PROVE PaidInTime'
<1>1. /\ pc = "closing" /\ order' = Closed(order) /\ DOMAIN holds' = DOMAIN holds
      /\ \A h \in DOMAIN holds :
           holds'[h] = IF h \in CloseSet THEN Became(holds[h], FinalOf(holds[h].node)) ELSE holds[h]
  BY DEF CloseFinished, InClosing
<1>2. /\ order'.state \in Terminal /\ order'.pendingClose = "none"
      /\ order'.closeReason = order.pendingClose /\ order'.escrow = order.escrow
  BY <1>1, Typed, TheClose, Order_Closed DEF rule
<1>3. ASSUME NEW h \in DOMAIN holds
      PROVE  holds'[h].status \in {"settled", "cancelled"} /\ holds'[h].paid = holds[h].paid
  <2>1. holds[h] \in HoldRow
    BY RowOf
  <2>2. CASE h \in CloseSet
    <3>1. FinalOf(holds[h].node) \in {"settled", "cancelled"} /\ FinalOf(holds[h].node) \in Statuses
      BY DEF FinalOf, Statuses
    <3> QED
      BY <1>1, <2>1, <2>2, <3>1, Became_Row
  <2>3. CASE h \notin CloseSet
    BY <1>1, <2>1, <2>3 DEF CloseSet, LiveHold, HoldRow
  <2> QED
    BY <2>2, <2>3
<1>4. CreatingIsUnpaid' /\ OpenIsTheOrders' /\ DueInTime'
  BY <1>1, <1>3 DEF CreatingIsUnpaid, OpenIsTheOrders, DueInTime, Waits
<1>5. LifeIsWhole' /\ VerifiedIsOpen'
  BY <1>2, TerminalStates DEF LifeIsWhole, VerifiedIsOpen, Young
<1>6. UnpaidIsUnpaid'
  <2>1. order.escrow # 0 => order.escrow \in DOMAIN holds
    BY DEF IInv, OrderBook, EscrowIsThere
  <2>2. order'.pendingClose \notin UnpaidReasons
    BY <1>2 DEF UnpaidReasons
  <2>3. ASSUME order.pendingClose \in UnpaidReasons, order.escrow # 0
        PROVE  holds'[order.escrow].paid = FALSE
    BY <1>3, <2>1, <2>3 DEF PaidInTime, UnpaidIsUnpaid, Unpayable
  <2> QED
    BY <1>2, <2>2, <2>3 DEF UnpaidIsUnpaid
<1> QED
  BY <1>4, <1>5, <1>6 DEF PaidInTime

\* The deadline passes, and with it every escrow's pay_by.
LEMMA PaidPhase ==
  ASSUME IInv, PaidInTime, PhasePasses PROVE PaidInTime'
<1>1. /\ UNCHANGED <<order, life, seenLife, todo>> /\ phase' = phase + 1 /\ phase \in 0..3
      /\ DOMAIN holds' = DOMAIN holds /\ ~ PollHasSeen'
  BY Typed DEF PhasePasses, Clockwork, Outside, PollHasSeen, ClockRuns, Others, Phases
<1>2. ASSUME NEW h \in DOMAIN holds
      PROVE  /\ holds'[h].purpose = holds[h].purpose /\ holds'[h].status = holds[h].status
             /\ holds'[h].node = holds[h].node /\ holds'[h].disposing = holds[h].disposing
             /\ holds'[h].paid = holds[h].paid
             /\ holds[h].due = TRUE => holds'[h].due = TRUE
             /\ phase # 0 /\ holds[h].status \in {"creating", "open"} /\ holds[h].purpose = "escrow"
                  => holds'[h].due = TRUE
  <2> DEFINE r == holds[h]
             q == [r EXCEPT !.due = TRUE]
  <2>1. /\ q.purpose = r.purpose /\ q.status = r.status /\ q.node = r.node /\ q.paid = r.paid
        /\ q.disposing = r.disposing /\ q.due = TRUE
    BY RowOf DEF HoldRow
  <2>2. /\ holds'[h] = r \/ holds'[h] = q
        /\ phase # 0 /\ r.status \in {"creating", "open"} /\ r.purpose = "escrow" => holds'[h] = q
    BY DEF PhasePasses, Unpaid
  <2> HIDE DEF q
  <2> QED
    BY <2>1, <2>2
<1>3. order.escrow # 0 => order.escrow \in DOMAIN holds
  BY DEF IInv, OrderBook, EscrowIsThere
<1>4. CreatingIsUnpaid' /\ OpenIsTheOrders' /\ LifeIsWhole'
  BY <1>1, <1>2 DEF PaidInTime, CreatingIsUnpaid, OpenIsTheOrders, Waits, LifeIsWhole
<1>5. DueInTime'
  <2>1. phase' >= 2 => phase # 0
    BY <1>1
  <2>2. \A h \in DOMAIN holds : phase # 0 /\ holds[h].status \in {"creating", "open"}
                               /\ holds[h].purpose = "escrow" => holds'[h].due = TRUE
    BY <1>2
  <2> QED
    BY <1>1, <1>2, <2>1, <2>2 DEF DueInTime
<1>6. VerifiedIsOpen'
  BY <1>1, <1>2, <1>3 DEF PaidInTime, VerifiedIsOpen, VerifiedEscrow
<1>7. UnpaidIsUnpaid'
  BY <1>1, <1>2, <1>3 DEF PaidInTime, UnpaidIsUnpaid, Unpayable
<1> QED
  BY <1>4, <1>5, <1>6, <1>7 DEF PaidInTime

\* The HTLC of a verified trade loses one stretch before the poll sees it, and no more.
LEMMA PaidDrops ==
  ASSUME IInv, PaidInTime, Failing = {}, LifeDrops PROVE PaidInTime'
<1>1. /\ UNCHANGED <<order, holds, seenLife, phase>> /\ ~ PollHasSeen'
      /\ life' = life - 1 /\ seenLife = life /\ ~ EffectsPending
  BY DEF LifeDrops, Clockwork, Outside, PollHasSeen, ClockRuns
<1>2. PICK h \in DOMAIN holds : holds[h].purpose = "escrow" /\ holds[h].node = "accepted"
  BY DEF LifeDrops
<1>3. Waits(holds[h])
  <2>1. holds[h].disposing = "none"
    BY <1>1, RowOf DEF EffectsPending
  <2>2. Truthful(holds[h])
    BY DEF IInv, HoldBook, FinalIsTrue
  <2>3. holds[h].status # "creating"
    BY <1>2 DEF PaidInTime, CreatingIsUnpaid
  <2> QED
    BY <1>2, <2>1, <2>2, <2>3, RowOf DEF Waits, Truthful, HoldRow
<1>4. h = order.escrow /\ order.state \in Waited
  BY <1>3 DEF PaidInTime, OpenIsTheOrders
<1>5. CreatingIsUnpaid' /\ OpenIsTheOrders' /\ DueInTime' /\ UnpaidIsUnpaid'
  BY <1>1 DEF PaidInTime, CreatingIsUnpaid, OpenIsTheOrders, DueInTime, UnpaidIsUnpaid
<1>6. LifeIsWhole'
  BY <1>1, <1>4 DEF LifeIsWhole, Waited, Late, Young
<1>7. VerifiedIsOpen'
  <2> SUFFICES ASSUME order.state = "verified", order.pendingClose = "none"
               PROVE  order.escrow # 0 /\ VerifiedEscrow(holds[order.escrow])'
    BY <1>1 DEF VerifiedIsOpen, VerifiedEscrow
  <2>1. order.escrow # 0 /\ VerifiedEscrow(holds[order.escrow])
    BY DEF PaidInTime, VerifiedIsOpen
  <2>2. life = 4
    BY <1>1, <1>2, <1>4, <2>1 DEF VerifiedEscrow
  <2>3. life' = 3 /\ seenLife' = 4
    BY <1>1, <2>2
  <2> QED
    BY <1>1, <1>2, <1>4, <2>1, <2>3 DEF VerifiedEscrow
<1> QED
  BY <1>5, <1>6, <1>7 DEF PaidInTime

LEMMA ClaimElsewhere ==
  ASSUME order'.state # "claimed" \/ order'.pendingClose # "none" \/ order'.escrow = 0
  PROVE  ClaimIsKept'
  BY DEF ClaimIsKept

LEMMA ClaimStands ==
  ASSUME ClaimIsKept, order'.state = order.state,
         order'.pendingClose = order.pendingClose, order'.escrow = order.escrow,
         order.state = "claimed" /\ order.pendingClose = "none" /\ order.escrow # 0 =>
           holds'[order.escrow].disposing \in {"none", holds[order.escrow].disposing}
  PROVE  ClaimIsKept'
  BY DEF ClaimIsKept

LEMMA Planned_Same ==
  ASSUME NEW hs \in Seq(HoldRow), NEW purpose, NEW party
  PROVE  /\ \A h \in DOMAIN hs : Planned(hs, purpose, party)[h] = hs[h]
         /\ Planned(hs, purpose, party)[Len(Planned(hs, purpose, party))].disposing = "none"
<1> DEFINE r == [purpose |-> purpose, party |-> party, status |-> "creating", node |-> "absent",
                 creating |-> TRUE, disposing |-> "none", due |-> FALSE, paid |-> FALSE]
           gs == Append(hs, r)
<1>1. Planned(hs, purpose, party) = gs /\ r.disposing = "none"
  BY DEF Planned
<1> HIDE DEF r
<1>2. /\ DOMAIN hs = 1..Len(hs) /\ Len(hs) \in Nat /\ Len(gs) = Len(hs) + 1
      /\ \A h \in 1..(Len(hs) + 1) : gs[h] = IF h = Len(hs) + 1 THEN r ELSE hs[h]
  OBVIOUS
<1> HIDE DEF gs
<1>3. \A h \in DOMAIN hs : gs[h] = hs[h]
  BY <1>2
<1>4. gs[Len(gs)] = r
  BY <1>2
<1> QED
  BY <1>1, <1>3, <1>4

LEMMA ClaimApproved ==
  ASSUME IInv, approve PROVE ClaimIsKept'
<1>1. holds \in Seq(HoldRow) /\ order \in OrderRow
  BY Typed DEF Whole
<1>2. holds' = Planned(holds, "escrow", "customer") /\ order' = [order EXCEPT !.escrow = Len(holds')]
  BY DEF approve
<1>3. order'.escrow = Len(holds')
  BY <1>1, <1>2 DEF OrderRow
<1> QED
  BY <1>1, <1>2, <1>3, Planned_Same DEF ClaimIsKept

LEMMA ClaimRequests ==
  ASSUME IInv, ClaimIsKept, Requests \/ Commands PROVE ClaimIsKept'
<1>0. order \in OrderRow /\ holds \in Seq(HoldRow)
  BY Typed DEF Whole
<1>1. ASSUME NEW r \in LnCloseReason, beginClose(r) PROVE ClaimIsKept'
  <2>1. order'.pendingClose = r
    BY <1>0, <1>1, Order_Closing DEF beginClose, Closing, Maybe
  <2> QED
    BY <2>1, Rules, ClaimElsewhere
<1>2. ASSUME NEW s \in OrderStates \ {"claimed"}, order' = [order EXCEPT !.state = s]
      PROVE  ClaimIsKept'
  BY <1>0, <1>2, Order_State, ClaimElsewhere
<1>3. ASSUME NEW draft, planCustomerDeposit(draft), draft \in OrderRow, draft.state = "draft"
      PROVE  ClaimIsKept'
  <2>1. [draft EXCEPT !.state = "none"].state = "none"
    BY <1>3, Order_State DEF OrderStates
  <2> QED
    BY <1>3, <2>1, ClaimElsewhere DEF planCustomerDeposit
<1>4. CASE orderRequest
  <2> DEFINE draft == [order EXCEPT !.state = "draft"]
  <2>1. draft \in OrderRow /\ draft.state = "draft"
    BY <1>0, Order_State DEF OrderStates
  <2>2. planCustomerDeposit(draft) \/ order' = [order EXCEPT !.state = "requested"]
    BY <1>4 DEF orderRequest
  <2> HIDE DEF draft
  <2> QED
    BY <1>2, <1>3, <2>1, <2>2 DEF OrderStates, OrderState
<1>5. ASSUME NEW s \in Sponsors, designatedOrderRequest(s) PROVE ClaimIsKept'
  BY <1>0, <1>5, Order_Designated, ClaimElsewhere DEF designatedOrderRequest
<1>6. ASSUME NEW s \in Sponsors, claim(s) PROVE ClaimIsKept'
  <2>1. order.state = "requested"
    BY <1>6, Transitions, TerminalStates DEF claim, MovesTo, canTransition, OrderState
  <2>2. order.escrow = 0
    BY <2>1 DEF IInv, OrderBook, NobodyYet, Early
  <2> QED
    BY <1>0, <1>6, <2>2, Order_Claimed, ClaimElsewhere DEF claim
<1>7. CASE sponsorInvoice
  BY <1>2, <1>7 DEF sponsorInvoice, OrderStates, OrderState
<1>8. CASE accountInfo
  BY <1>0, <1>8, Order_Account, ClaimStands DEF accountInfo, Stays, Rest
<1>9. CASE remitRequest
  <2>1. UNCHANGED holds /\ (UNCHANGED order \/ order' = [order EXCEPT !.state = "remitted"])
    BY <1>9 DEF remitRequest
  <2> QED
    BY <1>2, <2>1, ClaimStands DEF OrderStates, OrderState
<1>10. CASE cancelRequest
  BY <1>1, <1>2, <1>10 DEF cancelRequest, LnCloseReason, OrderStates
<1>11. CASE paymentConfirm \/ adminRule \/ adminForceClose
  BY <1>1, <1>11 DEF paymentConfirm, adminRule, adminForceClose, LnCloseReason
<1>12. CASE adminApprove
  BY <1>12, ClaimApproved DEF adminApprove
<1>13. CASE adminRevertClaim
  BY <1>0, <1>13, Order_Unclaimed, ClaimElsewhere DEF adminRevertClaim
<1> QED
  BY <1>4, <1>5, <1>6, <1>7, <1>8, <1>9, <1>10, <1>11, <1>12, <1>13 DEF Requests, Commands

LEMMA ClaimWatched ==
  ASSUME IInv, ClaimIsKept,
         \/ StartTick \/ PollLookupFails \/ ClockStarts \/ ClockClaims \/ ClockVerified \/ ClockExpiry
  PROVE  ClaimIsKept'
<1>0. order \in OrderRow /\ holds \in Seq(HoldRow)
  BY Typed DEF Whole
<1>1. ASSUME NEW r \in LnCloseReason, beginClose(r) PROVE ClaimIsKept'
  <2>1. order'.pendingClose = r
    BY <1>0, <1>1, Order_Closing DEF beginClose, Closing, Maybe
  <2> QED
    BY <2>1, Rules, ClaimElsewhere
<1>2. CASE UNCHANGED <<order, holds>>
  BY <1>2, ClaimStands
<1>3. CASE ClockClaims
  <2>1. CASE ClockDraft
    <3>1. order.state = "draft" /\ (order' = order \/ order' = [order EXCEPT !.state = "none"])
      BY <2>1 DEF ClockDraft, planCustomerDeposit
    <3>2. [order EXCEPT !.state = "none"].state = "none"
      BY <1>0, Order_State DEF OrderStates
    <3> QED
      BY <3>1, <3>2, ClaimElsewhere
  <2>2. CASE ClockClaimed
    <3>1. \/ UNCHANGED <<order, holds>>
          \/ UNCHANGED order /\ holds' = Planned(holds, "sponsor", order.sponsor)
          \/ order' = Unclaimed(order)
          \/ approve
      BY <2>2 DEF ClockClaimed, planSponsorDeposit
    <3>2. CASE UNCHANGED order /\ holds' = Planned(holds, "sponsor", order.sponsor)
      <4>1. order.escrow # 0 => order.escrow \in DOMAIN holds
        BY DEF IInv, OrderBook, EscrowIsThere
      <4> QED
        BY <1>0, <3>2, <4>1, Planned_Same, ClaimStands
    <3> QED
      BY <1>0, <1>2, <3>1, <3>2, ClaimApproved, Order_Unclaimed, ClaimElsewhere
  <2> QED
    BY <1>2, <1>3, <2>1, <2>2 DEF ClockClaims
<1>4. CASE ClockVerified
  BY <1>1, <1>2, <1>4 DEF ClockVerified, LnCloseReason
<1>5. CASE ClockExpiry
  <2>1. CASE Expires /\ beginClose(overdue)
    BY <1>1, <2>1, OverdueReason DEF Expires
  <2>2. CASE SafetySettleDue /\ UNCHANGED order
    BY <2>2, ClaimElsewhere DEF SafetySettleDue
  <2> QED
    BY <1>2, <1>5, <2>1, <2>2 DEF ClockExpiry
<1> QED
  BY <1>2, <1>3, <1>4, <1>5 DEF StartTick, PollLookupFails, ClockStarts

\* A row is written, and given back only if it is not the order's escrow.
LEMMA ClaimRow ==
  ASSUME IInv, ClaimIsKept, order'.state = order.state,
         order'.pendingClose = order.pendingClose, order'.escrow = order.escrow,
         NEW h \in DOMAIN holds, NEW q \in HoldRow, q.disposing \in {"none", holds[h].disposing},
         NEW hs, hs = [holds EXCEPT ![h] = q],
         holds' = hs \/ (holds' = Disposed(hs, {h}, "cancel") /\
                         (h = order.escrow => order.state # "claimed" \/ order.pendingClose # "none"))
  PROVE  ClaimIsKept'
<1>1. holds \in Seq(HoldRow)
  BY Typed DEF Whole
<1>2. /\ hs \in Seq(HoldRow) /\ DOMAIN hs = DOMAIN holds /\ hs[h] = q
      /\ \A g \in DOMAIN holds \ {h} : hs[g] = holds[g]
  BY <1>1, WriteRow
<1>3. order.escrow # 0 => order.escrow \in DOMAIN holds
  BY DEF IInv, OrderBook, EscrowIsThere
<1>4. CASE holds' = hs
  BY <1>2, <1>3, <1>4, ClaimStands
<1>5. CASE /\ holds' = Disposed(hs, {h}, "cancel")
           /\ h = order.escrow => order.state # "claimed" \/ order.pendingClose # "none"
  <2>1. \A g \in DOMAIN holds \ {h} : holds'[g] = holds[g]
    BY <1>2, <1>5 DEF Disposed
  <2> QED
    BY <1>3, <1>5, <2>1, ClaimStands
<1> QED
  BY <1>4, <1>5

LEMMA ClaimPolls ==
  ASSUME IInv, ClaimIsKept, NEW h \in DOMAIN holds, PollNext(h) PROVE ClaimIsKept'
<1> DEFINE r == holds[h]
           q(s) == Became(r, s)
           Now(s) == [holds EXCEPT ![h] = q(s)]
<1>0. order \in OrderRow /\ r \in HoldRow
  BY Typed, RowOf
<1>1. observe(h)
  BY DEF PollNext
<1>2. ASSUME NEW s \in Statuses
      PROVE  q(s) \in HoldRow /\ q(s).disposing \in {"none", r.disposing} /\ q(s).purpose = r.purpose
             /\ Now(s) = [holds EXCEPT ![h] = q(s)] /\ Now(s)[h] = q(s)
  BY <1>0, Became_Row
<1>3. order.escrow = h => r.purpose = "escrow"
  BY RowOf DEF IInv, OrderBook, EscrowIsThere
<1>4. CASE UNCHANGED <<order, holds>>
  BY <1>4, ClaimStands
<1>5. CASE holds' = Now("settled") /\ UNCHANGED order
  <2>1. q("settled") \in HoldRow /\ q("settled").disposing \in {"none", r.disposing}
    BY <1>2 DEF Statuses
  <2> HIDE DEF q
  <2> QED
    BY <1>5, <2>1, ClaimRow
<1>6. CASE accepted(h, Now("accepted"))
  <2> DEFINE p == q("accepted")
             hs == Now("accepted")
  <2>1. p \in HoldRow /\ p.disposing \in {"none", r.disposing} /\ hs[h].purpose = r.purpose
        /\ hs = [holds EXCEPT ![h] = p]
    BY <1>2 DEF Statuses
  <2>2. accepted(h, hs)
    BY <1>6
  <2> HIDE DEF hs, p
  <2>3. \/ holds' = Disposed(hs, {h}, "cancel") /\ UNCHANGED order /\ h # order.escrow
        \/ holds' = hs /\ UNCHANGED order
        \/ holds' = hs /\ order' = [order EXCEPT !.sponsorDeposit = h]
        \/ order' = [order EXCEPT !.state = "requested"]
        \/ order' = [order EXCEPT !.state = "escrowed"]
    BY <1>3, <2>1, <2>2 DEF accepted
  <2>4. CASE UNCHANGED order /\ (holds' = hs \/ (holds' = Disposed(hs, {h}, "cancel") /\ h # order.escrow))
    BY <2>1, <2>4, ClaimRow
  <2>5. CASE holds' = hs /\ order' = [order EXCEPT !.sponsorDeposit = h]
    <3>1. order'.state = order.state /\ order'.escrow = order.escrow
          /\ order'.pendingClose = order.pendingClose
      BY <1>0, <2>5 DEF OrderRow
    <3> QED
      BY <2>1, <2>5, <3>1, ClaimRow
  <2>6. CASE order' = [order EXCEPT !.state = "requested"] \/ order' = [order EXCEPT !.state = "escrowed"]
    <3>1. order'.state # "claimed"
      BY <1>0, <2>6 DEF OrderRow
    <3> QED
      BY <3>1, ClaimElsewhere
  <2> QED
    BY <2>3, <2>4, <2>5, <2>6
<1>7. CASE nodeCancelled(h, Now("cancelled"))
  <2> DEFINE p == q("cancelled")
             hs == Now("cancelled")
  <2>1. p \in HoldRow /\ p.disposing \in {"none", r.disposing} /\ hs = [holds EXCEPT ![h] = p]
    BY <1>2 DEF Statuses
  <2>2. nodeCancelled(h, hs)
    BY <1>7
  <2> HIDE DEF hs, p
  <2>3. \/ holds' = hs /\ UNCHANGED order
        \/ order' = [order EXCEPT !.state = "none"]
        \/ order' = Unclaimed(order)
        \/ beginClose("cancel:unpaid-escrow")
        \/ overdue # "none" /\ beginClose(overdue)
    BY <2>2 DEF nodeCancelled
  <2>4. CASE holds' = hs /\ UNCHANGED order
    BY <2>1, <2>4, ClaimRow
  <2>5. CASE order' = [order EXCEPT !.state = "none"]
    <3>1. order'.state # "claimed"
      BY <1>0, <2>5 DEF OrderRow
    <3> QED
      BY <3>1, ClaimElsewhere
  <2>6. CASE order' = Unclaimed(order)
    BY <1>0, <2>6, Order_Unclaimed, ClaimElsewhere
  <2>7. ASSUME NEW c \in LnCloseReason, beginClose(c) PROVE ClaimIsKept'
    <3>1. order'.pendingClose = c
      BY <1>0, <2>7, Order_Closing DEF beginClose, Closing, Maybe
    <3> QED
      BY <3>1, Rules, ClaimElsewhere
  <2> QED
    BY <2>3, <2>4, <2>5, <2>6, <2>7, OverdueReason DEF LnCloseReason
<1> QED
  BY <1>1, <1>4, <1>5, <1>6, <1>7 DEF observe

LEMMA ClaimCreates ==
  ASSUME IInv, ClaimIsKept, NEW h \in DOMAIN holds, HoldCreate(h) PROVE ClaimIsKept'
<1> DEFINE r == holds[h]
           q(node, status) == CreatedRow(r, status, node)
           W(node, status) == [holds EXCEPT ![h] = q(node, status)]
<1>0. order \in OrderRow /\ r \in HoldRow /\ r.status \in Statuses /\ r.node \in NodeStates
      /\ r.purpose \in {"customer", "sponsor", "escrow"}
  BY Typed, RowOf DEF HoldRow, Statuses, NodeStates
<1>1. \/ holds' = W(settleOrCancel(r, "cancel"), r.status) /\ UNCHANGED order
      \/ createFailed(h, W("absent", "cancelled"))
      \/ created(h, W("open", "open"))
      \/ created(h, W(r.node, "open"))
  BY DEF HoldCreate, CreatedRow
<1>2. ASSUME NEW node \in NodeStates, NEW status \in Statuses
      PROVE  /\ q(node, status) \in HoldRow /\ q(node, status).disposing \in {"none", r.disposing}
             /\ W(node, status)[h].purpose = r.purpose
             /\ W(node, status) = [holds EXCEPT ![h] = q(node, status)]
  <2> DEFINE p == q(node, status)
  <2>1. p \in HoldRow /\ p.disposing = r.disposing /\ p.purpose = r.purpose
    BY <1>0, <1>2, Became_Ends
  <2>2. W(node, status) = [holds EXCEPT ![h] = p] /\ W(node, status)[h] = p
    OBVIOUS
  <2> HIDE DEF p, W
  <2>3. p \in HoldRow /\ p.disposing \in {"none", r.disposing} /\ W(node, status)[h].purpose = r.purpose
        /\ W(node, status) = [holds EXCEPT ![h] = p]
    BY <2>1, <2>2
  <2> QED
    BY <2>3 DEF p
<1>3. order.escrow = h => r.purpose = "escrow"
  BY RowOf DEF IInv, OrderBook, EscrowIsThere
<1>4. CASE holds' = W(settleOrCancel(r, "cancel"), r.status) /\ UNCHANGED order
  <2> DEFINE n == settleOrCancel(r, "cancel")
             p == q(n, r.status)
  <2>1. n \in NodeStates
    BY <1>0, SettleOrCancel
  <2>2. p \in HoldRow /\ p.disposing \in {"none", r.disposing} /\ holds' = [holds EXCEPT ![h] = p]
    BY <1>0, <1>2, <1>4, <2>1
  <2> HIDE DEF p
  <2> QED
    BY <1>4, <2>2, ClaimRow
<1>5. CASE createFailed(h, W("absent", "cancelled"))
  <2> DEFINE p == q("absent", "cancelled")
             hs == W("absent", "cancelled")
  <2>1. p \in HoldRow /\ p.disposing \in {"none", r.disposing} /\ hs[h].purpose = r.purpose
        /\ hs = [holds EXCEPT ![h] = p]
    BY <1>2 DEF Statuses, NodeStates
  <2>2. createFailed(h, hs)
    BY <1>5
  <2> HIDE DEF hs, p
  <2>3. \/ holds' = hs /\ UNCHANGED order
        \/ order' = [order EXCEPT !.state = "none"]
        \/ order' = Unclaimed(order)
        \/ order' = [order EXCEPT !.escrow = 0]
    BY <1>0, <2>1, <2>2 DEF createFailed
  <2>4. CASE holds' = hs /\ UNCHANGED order
    BY <2>1, <2>4, ClaimRow
  <2>5. CASE order' = [order EXCEPT !.state = "none"] \/ order' = [order EXCEPT !.escrow = 0]
    <3>1. order'.state # "claimed" \/ order'.escrow = 0
      BY <1>0, <2>5 DEF OrderRow
    <3> QED
      BY <3>1, ClaimElsewhere
  <2> QED
    BY <1>0, <2>3, <2>4, <2>5, Order_Unclaimed, ClaimElsewhere
<1>6. ASSUME NEW node \in NodeStates, created(h, W(node, "open")) PROVE ClaimIsKept'
  <2> DEFINE p == q(node, "open")
             hs == W(node, "open")
  <2>1. p \in HoldRow /\ p.disposing \in {"none", r.disposing} /\ hs[h].purpose = r.purpose
        /\ hs = [holds EXCEPT ![h] = p]
    BY <1>2 DEF Statuses
  <2>2. created(h, hs)
    BY <1>6
  <2> HIDE DEF hs, p
  <2>3. \/ holds' = hs /\ UNCHANGED order
        \/ order' = [order EXCEPT !.state = "verified"]
        \/ /\ holds' = Disposed(hs, {h}, "cancel") /\ UNCHANGED order
           /\ h = order.escrow => order.state # "claimed" \/ order.pendingClose # "none"
    BY <1>0, <1>3, <2>1, <2>2 DEF created, Wanted
  <2>4. order' = [order EXCEPT !.state = "verified"] => order'.state # "claimed"
    BY <1>0 DEF OrderRow
  <2> QED
    BY <2>1, <2>3, <2>4, ClaimRow, ClaimElsewhere
<1> QED
  BY <1>0, <1>1, <1>4, <1>5, <1>6 DEF NodeStates

LEMMA ClaimEffects ==
  ASSUME IInv, ClaimIsKept, NEW h \in DOMAIN holds,
         \/ HoldCreateLost(h) \/ HoldDispose(h) \/ HoldDisposeLost(h) \/ CloseHold(h)
         \/ PayerPays(h) \/ NodeGivesUp(h) \/ PayByPasses(h)
  PROVE  ClaimIsKept'
<1> DEFINE r == holds[h]
<1>0. r \in HoldRow /\ holds \in Seq(HoldRow)
  BY Typed, RowOf DEF Whole
<1>1. UNCHANGED order
  BY DEF HoldCreateLost, HoldDispose, HoldDisposeLost, CloseHold, PayerPays, NodeGivesUp,
         PayByPasses, AnswerLost, InClosing, Outside, Clockwork
<1>2. order.escrow # 0 => order.escrow \in DOMAIN holds
  BY DEF IInv, OrderBook, EscrowIsThere
<1>3. ASSUME NEW q, q.disposing = "none" \/ q.disposing = r.disposing, holds' = [holds EXCEPT ![h] = q]
      PROVE  ClaimIsKept'
  <2>1. \A g \in DOMAIN holds : holds'[g] = IF g = h THEN q ELSE holds[g]
    BY <1>0, <1>3
  <2> QED
    BY <1>1, <1>2, <1>3, <2>1, ClaimStands
<1>4. CASE HoldCreateLost(h) \/ HoldDisposeLost(h) \/ CloseHold(h) \/ NodeGivesUp(h)
  <2>1. PICK n : holds' = [holds EXCEPT ![h] = [r EXCEPT !.node = n]]
    BY <1>4 DEF HoldCreateLost, HoldDisposeLost, CloseHold, NodeGivesUp
  <2> DEFINE q == [r EXCEPT !.node = n]
  <2>2. q.disposing = r.disposing
    BY <1>0 DEF HoldRow
  <2>3. holds' = [holds EXCEPT ![h] = q]
    BY <2>1
  <2> HIDE DEF q
  <2> QED
    BY <1>3, <2>2, <2>3
<1>5. CASE PayByPasses(h)
  <2> DEFINE q == [r EXCEPT !.due = TRUE]
  <2>1. q.disposing = r.disposing /\ holds' = [holds EXCEPT ![h] = q]
    BY <1>0, <1>5 DEF HoldRow, PayByPasses
  <2> HIDE DEF q
  <2> QED
    BY <1>3, <2>1
<1>6. CASE PayerPays(h)
  <2> DEFINE s == [r EXCEPT !.node = "accepted"]
             q == [s EXCEPT !.paid = (r.purpose = "escrow")]
  <2>1. s.disposing = r.disposing /\ s \in HoldRow
    BY <1>0 DEF HoldRow
  <2>2. holds' = [holds EXCEPT ![h] = q]
    BY <1>0, <1>6 DEF PayerPays, HoldRow
  <2> HIDE DEF s
  <2>3. q.disposing = s.disposing
    BY <2>1 DEF HoldRow
  <2> HIDE DEF q
  <2> QED
    BY <1>3, <2>1, <2>2, <2>3
<1>7. CASE HoldDispose(h)
  <2> DEFINE n == settleOrCancel(r, r.disposing)
             q == DisposedRow(r, FinalOf(n), n)
  <2>1. FinalOf(n) \in Statuses /\ n \in NodeStates
    BY <1>0, SettleOrCancel DEF FinalOf, Statuses
  <2>2. q.disposing = "none"
    BY <1>0, <2>1, Became_Ends
  <2>3. holds' = [holds EXCEPT ![h] = q]
    BY <1>7 DEF HoldDispose, DisposedRow
  <2> HIDE DEF q
  <2> QED
    BY <1>3, <2>2, <2>3
<1> QED
  BY <1>4, <1>5, <1>6, <1>7

LEMMA ClaimRests ==
  ASSUME IInv, ClaimIsKept,
         \/ CloseStart \/ CloseAbandoned \/ CloseFinished \/ EndTick \/ CloseInterrupted \/ Crash
         \/ SponsorRemits \/ PhasePasses \/ InvoiceWindowEnds \/ LifeDrops \/ WarmsUp
  PROVE  ClaimIsKept'
<1>1. CASE UNCHANGED <<order, holds>>
  BY <1>1, ClaimStands
<1>2. CASE CloseAbandoned
  <2>1. pc = "closing" /\ rule.escrow = "settle" /\ order' = [order EXCEPT !.pendingClose = "none"]
    BY <1>2 DEF CloseAbandoned, InClosing, NotReceivable
  <2>2. order.state # "claimed"
    BY <2>1, TheClose
  <2>3. order'.state = order.state
    BY <2>1, Typed, Order_Closing DEF Maybe
  <2> QED
    BY <2>2, <2>3, ClaimElsewhere
<1>3. CASE CloseFinished
  <2>1. pc = "closing" /\ order' = Closed(order)
    BY <1>3 DEF CloseFinished, InClosing
  <2>2. order'.state \in Terminal
    BY <2>1, Typed, TheClose, Order_Closed DEF rule
  <2> QED
    BY <2>2, TerminalStates, ClaimElsewhere
<1>4. CASE PhasePasses
  <2>1. /\ UNCHANGED order /\ DOMAIN holds' = DOMAIN holds
        /\ \A h \in DOMAIN holds : holds'[h] = holds[h] \/ holds'[h] = [holds[h] EXCEPT !.due = TRUE]
    BY <1>4 DEF PhasePasses, Clockwork, Outside
  <2>2. \A h \in DOMAIN holds : [holds[h] EXCEPT !.due = TRUE].disposing = holds[h].disposing
    BY RowOf DEF HoldRow
  <2>3. order.escrow # 0 => order.escrow \in DOMAIN holds
    BY DEF IInv, OrderBook, EscrowIsThere
  <2> QED
    BY <2>1, <2>2, <2>3, ClaimStands
<1>5. CASE \/ CloseStart \/ EndTick \/ CloseInterrupted \/ Crash
           \/ SponsorRemits \/ InvoiceWindowEnds \/ LifeDrops \/ WarmsUp
  <2>1. UNCHANGED <<order, holds>>
    BY <1>5 DEF CloseStart, EndTick, CloseInterrupted, Crash, Dies, SponsorRemits, InvoiceWindowEnds,
         LifeDrops, WarmsUp, InEffects, InClosing, Clockwork, Outside
  <2> QED
    BY <1>1, <2>1
<1> QED
  BY <1>2, <1>3, <1>4, <1>5

LEMMA PaidStarts == Init => PaidInTime /\ ClaimIsKept
<1> SUFFICES ASSUME Init PROVE PaidInTime /\ ClaimIsKept
  OBVIOUS
<1>1. holds = <<>> /\ life = 4 /\ phase = 0 /\ order.state = "none" /\ order.escrow = 0
      /\ order.pendingClose = "none" /\ order.closeReason = "none"
  BY DEF Init
<1>2. DOMAIN holds = {}
  BY <1>1
<1> QED
  BY <1>1, <1>2 DEF PaidInTime, CreatingIsUnpaid, OpenIsTheOrders, DueInTime, LifeIsWhole,
                    VerifiedIsOpen, UnpaidIsUnpaid, UnpaidReasons, ClaimIsKept

LEMMA ClaimSteps == IInv /\ ClaimIsKept /\ [Next]_vars => ClaimIsKept'
<1> SUFFICES ASSUME IInv, ClaimIsKept, [Next]_vars PROVE ClaimIsKept'
  OBVIOUS
<1>1. CASE UNCHANGED vars
  BY <1>1, ClaimStands DEF vars
<1>2. CASE Requests \/ Commands
  BY <1>2, ClaimRequests
<1>3. CASE Watching
  BY <1>3, ClaimPolls, ClaimWatched DEF Watching
<1>4. CASE Effects
  BY <1>4, ClaimCreates, ClaimEffects, ClaimRests DEF Effects
<1>5. CASE Crash
  BY <1>5, ClaimRests
<1>6. CASE World
  BY <1>6, ClaimEffects, ClaimRests DEF World
<1> QED
  BY <1>1, <1>2, <1>3, <1>4, <1>5, <1>6 DEF Next

LEMMA PaidSteps ==
  ASSUME Failing = {} PROVE IInv /\ InTime /\ ClaimIsKept /\ PaidInTime /\ [Next]_vars => PaidInTime'
<1> SUFFICES ASSUME IInv, InTime, ClaimIsKept, PaidInTime, [Next]_vars PROVE PaidInTime'
  OBVIOUS
<1>1. CASE UNCHANGED vars
  <2>1. UNCHANGED <<order, holds>> /\ Stands
    BY <1>1 DEF vars, Stands, PollHasSeen, ClockRuns
  <2> QED
    BY <2>1, PaidMild, Soft_Same, Mild_Unchanged
<1>2. CASE Requests \/ Commands
  BY <1>2, PaidRequests
<1>3. CASE Watching
  BY <1>3, PaidPolls, PaidClock DEF Watching
<1>4. CASE Effects
  BY <1>4, PaidCreates, PaidLost, PaidDisposes, PaidVisits, PaidRests, PaidFinishes, KrwAbandons
     DEF Effects
<1>5. CASE Crash
  BY <1>5, PaidRests
<1>6. CASE World
  BY <1>6, PaidByPayer, PaidOutside, PaidPhase, PaidDrops, PaidRests DEF World
<1> QED
  BY <1>1, <1>2, <1>3, <1>4, <1>5, <1>6 DEF Next

\* Who has paid his escrow in time is not charged with not having paid it, where LND answers
\* (nothing is Failing) and the daemon, crashing as it may, looks before the HTLC dies: the clock
\* judges only what the poll of its own tick has visited (runtime.ts, "the invoices first"), and
\* a payment that comes after the judgement is refused, for pay_by is over by then.  In an outage
\* of the reads it is false: an escrow that could not be looked up is judged as unpaid.
THEOREM PayerIsNotCharged == ASSUME Failing = {} PROVE Spec => []NoForfeitAfterPaying
<1> DEFINE J == IInv /\ InTime /\ ClaimIsKept /\ PaidInTime
<1>1. J => NoForfeitAfterPaying
  <2> SUFFICES ASSUME PaidInTime, order.closeReason \in UnpaidReasons, order.escrow # 0
               PROVE  ~ holds[order.escrow].paid
    BY DEF NoForfeitAfterPaying, UnpaidReasons
  <2>1. holds[order.escrow].paid = FALSE
    BY DEF PaidInTime, UnpaidIsUnpaid
  <2> QED
    BY <2>1, Zenon
<1>2. Init => J
  BY Starts, KrwStarts, PaidStarts
<1>3. J /\ [Next]_vars => J'
  BY Steps, KrwSteps, ClaimSteps, PaidSteps
<1> HIDE DEF J
<1> QED
  BY <1>1, <1>2, <1>3, PTL DEF Spec
=============================================================================
