---------------------------- MODULE EscrowProofs -----------------------------
(***************************************************************************)
(* Who may spend what is in an escrow, and what the daemon spends of what  *)
(* was not meant to be there: OcEscrow, which is extended, proved for any  *)
(* amount, rates, addresses, keys of a claim and number of mistaken        *)
(* requests, and OcRescue, an instance, proved for any outputs, fees,      *)
(* attempts and reorganisations.  What makes NobodyTakesAlone inductive is *)
(* that no signature of the daemon exists before it has finished, that     *)
(* every paper the sponsor has is signed by himself alone, and that an old *)
(* version of the order (Older) says nothing that the order does not.      *)
(***************************************************************************)
EXTENDS OcEscrow, FiniteSetTheorems, TLAPS

CONSTANTS Right, Wrong, Fees, MaxTries, MaxReorgs, Wary, Patient, SameSecond

VARIABLES trade, coins, taken, reorgs, facts, strays, rescues, asks, newest, second, shown, cosigns,
          queue

Re == INSTANCE OcRescue


-----------------------------------------------------------------------------
(* Types. *)

Dests == [own : {"wallet", "orderkey", "sponsor", "elsewhere", "none"},
          kind : {"tr", "wsh", "wpkh", "sh", "pkh", "none"}]
Txs == [leaf : Leaves \cup {"none"}, coin : {"none", "funding", "stray", "elsewhere"}, dest : Dests, fee : Int]
Signatures == [key : {"C", "S", "A"}, tx : Txs]
Psbts == [tx : Txs, sigs : SUBSET Signatures]
Metas == [refund : Refunds, payout : Payouts \cup {NoAddress}, rate : Nat, presig : Psbts]
EarlyStates == {"listed", "bonded", "funded", "presigned", "remitted"}
OrderStates == EarlyStates \cup {"disputed", "refunding", "settling", "over"}
Kinds == {NoKind, "release", "sponsor_win", "customer_win"} \cup RefundKinds
FeeOrNone == Nat \cup {NoFee}
Orders == [state : OrderStates, kind : Kinds, sponsorKey : {"none", "S"}, coin : {"none", "funding"},
           releaseFee : FeeOrNone, settleFee : FeeOrNone, account : -1 .. Timelock]
Letters == [from : Parties, purpose : Purposes \cup {"presig"}, psbt : Psbts]
Records == [refund : Refunds \cup {NoAddress}, payout : Payouts \cup {NoAddress}, rate : Nat]

Typed ==
  /\ order \in Orders /\ meta \in Metas /\ view \in [Parties -> Orders]
  /\ box \in [Parties -> [Purposes -> Psbts]] /\ mail \subseteq Letters
  /\ sigs \subseteq Signatures /\ held \in [Parties -> SUBSET Signatures] /\ knows \in Records
  /\ outbox \in Txs /\ chain \in [confs : -1 .. Timelock, spent : Txs] /\ looked \in -1 .. Timelock
  /\ market \in [rate : Rates, moves : 0 .. MaxMoves] /\ mistakes \in 0 .. MaxMistakes
  /\ krw \in BOOLEAN /\ up \in BOOLEAN

-----------------------------------------------------------------------------
(* The inductive invariant. *)

\* What each state of the order has fixed.
Stages ==
  /\ order.sponsorKey \in ClaimKeys \cup {"none"}
  /\ order.state = "listed" => order.sponsorKey = "none" /\ sigs = {}
  /\ order.state # "listed" => order.sponsorKey = "S"
  /\ order.state \in {"listed", "bonded"} => order.coin = "none" /\ order.releaseFee = NoFee
  /\ order.state \in {"funded", "presigned", "remitted", "disputed"} =>
       order.coin = "funding" /\ order.releaseFee # NoFee
  /\ order.releaseFee # NoFee => order.releaseFee = releaseFeeFor
  /\ order.state \in EarlyStates => order.kind = NoKind
  /\ order.state = "disputed" => order.kind \in {NoKind, "sponsor_win", "customer_win"}
  /\ order.state = "refunding" => order.kind \in RefundKinds
  /\ order.kind = NoKind => order.settleFee = NoFee
  /\ order.state \in {"refunding", "disputed"} /\ order.kind # NoKind =>
       order.coin = "funding" /\ order.settleFee # NoFee
  /\ outbox # NoTx => order.state \in {"settling", "over"}
  /\ outbox = NoTx \/ outbox.leaf \in {"release", "customer-win", "sponsor-win"}

\* The terms, and what the devices remember of them.
Remembered ==
  /\ knows.refund \in {NoAddress, meta.refund} /\ knows.payout \in {NoAddress, meta.payout}
  /\ knows.payout # NoAddress => knows.rate = meta.rate
  /\ order.state # "listed" => meta.payout \in Payouts
  /\ order.state = "listed" => meta.payout = NoAddress
  /\ meta.rate \in ClaimRates \cup {0}

\* An older version of the order has nothing that the order has not.
Older(v) ==
  /\ v.state # "listed" => v.sponsorKey = "S" /\ order.state # "listed"
  /\ v.state = "listed" => v.sponsorKey = "none"
  /\ v.coin # "none" => order.coin # "none"
  /\ v.releaseFee # NoFee => v.releaseFee = order.releaseFee
  /\ v.settleFee # NoFee => v.settleFee = order.settleFee
  /\ v.account # Unseen => v.account = order.account
Versions == \A p \in Parties : Older(view[p])

\* Signatures that go about have been made, and the sponsor gets none of another.
Papers ==
  /\ \A p \in Parties : held[p] \subseteq sigs /\ \A q \in Purposes : box[p][q].sigs \subseteq sigs
  /\ \A m \in mail : m.psbt.sigs \subseteq sigs /\ (m.purpose = "presig" => \A s \in m.psbt.sigs : s.key = "S")
  /\ meta.presig.sigs \subseteq sigs /\ \A s \in meta.presig.sigs : s.key = "S"
  /\ \A s \in held["sponsor"] : s.key = "S"

\* Without mistakes only the decided requests come.
Boxes == mistakes = 0 => /\ \A q \in {"dispute-sponsor", "rescue"} : box["customer"][q] = NoPsbt
                         /\ \A q \in Purposes \ {"dispute-sponsor"} : box["sponsor"][q] = NoPsbt

Sends(m) == m.from = "customer" /\ m.purpose \in {"refund", "dispute-customer"}
Signed ==
  /\ SignsOnlyOwn
  /\ \A m \in mail : Sends(m) => m.psbt.tx.fee >= 0
  /\ \A s \in sigs : s.tx.fee >= 0 /\ s.tx.leaf \in Leaves
  /\ outbox = NoTx => \A s \in sigs : s.key # "A"

Ready == order.state \in {"presigned", "remitted", "disputed"} =>
           verifyPresignature(meta.presig, settlementParamsFor(order, meta, "release"), "S")

Looks == /\ looked <= chain.confs /\ order.account <= chain.confs
         /\ looked # Unseen /\ view["sponsor"].account # Unseen => looked >= view["sponsor"].account

IInv == Typed /\ Stages /\ Remembered /\ Versions /\ Papers /\ Boxes /\ Signed /\ Ready /\ Looks

-----------------------------------------------------------------------------
(* The operators. *)

LEMMA ThreeKeys ==
  /\ assertEscrowKeys("S") /\ ~assertEscrowKeys("C") /\ ~assertEscrowKeys("A")
<1>1. IsFiniteSet({"C"}) /\ Cardinality({"C"}) = 1
  BY FS_Singleton
<1>2. IsFiniteSet({"C"} \cup {"A"}) /\ Cardinality({"C"} \cup {"A"}) = 2
  BY <1>1, FS_AddElement
<1>3. Cardinality(({"C"} \cup {"A"}) \cup {"S"}) = 3
  BY <1>2, FS_AddElement
<1>4. ({"C"} \cup {"A"}) \cup {"S"} = {"C", "A", "S"} /\ {"C"} \cup {"A"} = {"C", "A", "C"} /\ {"C"} \cup {"A"} = {"C", "A", "A"}
  OBVIOUS
<1> QED
  BY <1>2, <1>3, <1>4 DEF assertEscrowKeys

LEMMA VsizeIsNat ==
  ASSUME NEW leaf, NEW dest
  PROVE  estimateSettlementVsize(leaf, dest) \in Nat
<1>1. SpkLen(dest.kind) \in Nat /\ ScriptLen(leaf) \in Nat /\ SigCount(leaf) \in Nat
  BY DEF SpkLen, ScriptLen, SigCount
<1> DEFINE n == 4 + 1 + 41 + 1 + (9 + SpkLen(dest.kind)) + 4
           w == 1 + SigCount(leaf) * 65 + (1 + ScriptLen(leaf)) + 98
<1>2. n \in Nat /\ w \in Nat
  BY <1>1
<1>3. estimateSettlementVsize(leaf, dest) = (4 * n + w + 2 + 3) \div 4
  BY DEF estimateSettlementVsize
<1> HIDE DEF n, w
<1> QED
  BY <1>2, <1>3

LEMMA FeeIsNat ==
  ASSUME NEW leaf, NEW dest, NEW rate \in Nat
  PROVE  settlementFeeSat(leaf, dest, rate) \in Nat
BY VsizeIsNat DEF settlementFeeSat

LEMMA FeeIsSane ==
  ASSUME NEW leaf, NEW dest, NEW rate \in Nat, NEW cap \in Nat, rate <= cap
  PROVE  settlementFeeSat(leaf, dest, rate) <= cap * estimateSettlementVsize(leaf, dest)
<1> DEFINE v == estimateSettlementVsize(leaf, dest)
<1>1. v \in Nat
  BY VsizeIsNat
<1> HIDE DEF v
<1>2. PICK more \in Nat : cap = rate + more
  BY Z3
<1>3. v * rate \in Nat /\ v * more \in Nat /\ (rate + more) * v = v * rate + v * more
  BY <1>1
<1> QED
  BY <1>2, <1>3 DEF settlementFeeSat, v

LEMMA ScriptsAreDests ==
  ASSUME EscrowAssumption, NEW a \in Addresses \cup {NoAddress}
  PROVE  outputScriptFor(a) \in Dests
BY DEF outputScriptFor, Addresses, NoAddress, Dests

LEMMA ParamsAreTxs ==
  ASSUME EscrowAssumption, NEW o \in Orders, NEW m \in Metas, NEW kind
  PROVE  /\ settlementParamsFor(o, m, kind) \in Txs
         /\ settlementParamsFor(o, m, kind).coin = o.coin
         /\ settlementParamsFor(o, m, kind).leaf \in {"release", "customer-win", "sponsor-win"}
<1>1. destinationFor(m, kind) \in Addresses \cup {NoAddress}
  BY DEF destinationFor, refundDestinationFor, derived, Metas, EscrowAssumption, Addresses
<1>2. outputScriptFor(destinationFor(m, kind)) \in Dests
  BY <1>1, ScriptsAreDests
<1>3. settlementLeafFor(kind) \in {"release", "customer-win", "sponsor-win"}
  BY DEF settlementLeafFor
<1>4. o.coin \in {"none", "funding"} /\ o.releaseFee \in Int /\ o.settleFee \in Int
  BY DEF Orders, FeeOrNone, NoFee
<1> QED
  BY <1>2, <1>3, <1>4 DEF settlementParamsFor, Txs, Leaves

LEMMA NoPsbtIsPsbt == NoPsbt \in Psbts /\ NoTx \in Txs /\ NoTx.leaf = "none" /\ NoPsbt.sigs = {}
BY DEF NoPsbt, Psbts, NoTx, Txs, outputScriptFor, NoAddress, Dests, NoFee

LEMMA Starts ==
  ASSUME EscrowAssumption, Init
  PROVE  IInv
<1>1. Typed
  <2>1. order \in Orders /\ view \in [Parties -> Orders]
    BY DEF Init, Orders, OrderStates, EarlyStates, Kinds, FeeOrNone, Unseen, EscrowAssumption
  <2>2. meta \in Metas /\ knows \in Records
    BY NoPsbtIsPsbt DEF Init, Metas, Records
  <2>3. box \in [Parties -> [Purposes -> Psbts]] /\ outbox \in Txs
    BY NoPsbtIsPsbt DEF Init
  <2>4. chain \in [confs : -1 .. Timelock, spent : Txs] /\ looked \in -1 .. Timelock
    BY NoPsbtIsPsbt DEF Init, Unseen, EscrowAssumption
  <2>5. market \in [rate : Rates, moves : 0 .. MaxMoves] /\ mistakes \in 0 .. MaxMistakes
    BY DEF Init, EscrowAssumption
  <2> QED
    BY <2>1, <2>2, <2>3, <2>4, <2>5 DEF Init, Typed
<1>2. Stages /\ Remembered
  BY DEF Init, Stages, Remembered, EarlyStates
<1>3. Versions /\ Looks
  BY DEF Init, Versions, Older, Looks, Unseen, Parties
<1>4. Papers /\ Signed
  BY NoPsbtIsPsbt DEF Init, Papers, Signed, SignsOnlyOwn, Parties
<1>5. Boxes
  BY DEF Init, Boxes, Parties, Purposes
<1>6. Ready
  BY DEF Init, Ready
<1> QED
  BY <1>1, <1>2, <1>3, <1>4, <1>5, <1>6 DEF IInv

-----------------------------------------------------------------------------
(* Steps that leave most of it alone. *)

OrderGrows ==
  /\ order.state # "listed" /\ order'.state # "listed" /\ order'.sponsorKey = order.sponsorKey
  /\ order.coin # "none" => order'.coin # "none"
  /\ order.releaseFee # NoFee => order'.releaseFee = order.releaseFee
  /\ order.settleFee # NoFee => order'.settleFee = order.settleFee
  /\ order.account # Unseen => order'.account = order.account

LEMMA OrderStays ==
  ASSUME order' = order
  PROVE  OrderGrows \/ order.state = "listed"
BY DEF OrderGrows

HersIsRight(s) ==
  s.key = "C" => CASE s.tx.leaf = "release" ->
                         /\ s.tx.dest = outputScriptFor(meta.payout) /\ s.tx.fee = order.releaseFee
                         /\ signSettlement(order.sponsorKey, s.tx) \in sigs
                   [] s.tx.leaf = "timelock" -> s.tx.dest.own = "wallet"
                   [] OTHER -> /\ s.tx.leaf = "customer-win" /\ s.tx.coin \in AtEscrow
                               /\ s.tx.dest \in {outputScriptFor(refundDestinationFor(meta)),
                                                  outputScriptFor(derived)}
                               /\ Sane(s.tx)
HisIsRight(s) ==
  s.key = "S" => /\ s.tx.leaf \in {"release", "sponsor-win"} /\ s.tx.coin = "funding"
                 /\ s.tx.dest = outputScriptFor(meta.payout)
                 /\ s.tx.fee = IF s.tx.leaf = "release"
                               THEN settlementFeeSat("release", s.tx.dest, meta.rate)
                               ELSE order.settleFee

SentIsRight(m) == Sends(m) => m.psbt.tx.coin = "funding" /\ m.psbt.tx.fee = order.settleFee

LEMMA OnlyOwn ==
  SignsOnlyOwn <=> /\ \A s \in sigs : HersIsRight(s) /\ HisIsRight(s)
                   /\ \A m \in mail : SentIsRight(m)
BY DEF SignsOnlyOwn, HersIsRight, HisIsRight, SentIsRight, Sends

LEMMA VersionsGrow ==
  ASSUME Versions, view' = view, OrderGrows \/ order' = order
  PROVE  Versions'
BY DEF Versions, Older, OrderGrows

LEMMA SignedGrow ==
  ASSUME EscrowAssumption, Typed, Signed, sigs' = sigs, mail' \subseteq mail, OrderGrows \/ order' = order,
         meta'.payout = meta.payout, meta'.refund = meta.refund, meta'.rate = meta.rate,
         outbox' = NoTx => outbox = NoTx
  PROVE  Signed'
<1>1. order'.sponsorKey = order.sponsorKey
  BY DEF OrderGrows
<1>2. ASSUME NEW s \in sigs, s.key = "S", s.tx.leaf = "release"
      PROVE  s.tx.fee # NoFee
  BY <1>2 DEF Signed, NoFee
<1>3. ASSUME NEW s \in sigs
      PROVE  HersIsRight(s)' /\ HisIsRight(s)'
  <2>1. HersIsRight(s) /\ HisIsRight(s) /\ s.tx.fee # NoFee
    BY OnlyOwn DEF Signed, NoFee
  <2>2. CASE order' = order
    BY <2>1, <2>2 DEF HersIsRight, HisIsRight, refundDestinationFor
  <2>3. CASE OrderGrows
    <3>1. s.key = "C" /\ s.tx.leaf = "release" => order'.releaseFee = order.releaseFee
      BY <2>1, <2>3 DEF HersIsRight, OrderGrows
    <3>3. s.key = "S" /\ s.tx.leaf = "sponsor-win" => order'.settleFee = order.settleFee
      BY <2>1, <2>3 DEF HisIsRight, OrderGrows
    <3>4. HersIsRight(s)'
      BY <1>1, <2>1, <3>1 DEF HersIsRight, refundDestinationFor
    <3>5. HisIsRight(s)'
      BY <2>1, <3>3 DEF HisIsRight
    <3> QED
      BY <3>4, <3>5
  <2> QED
    BY <2>2, <2>3
<1>4. ASSUME NEW m \in mail'
      PROVE  SentIsRight(m)' /\ (Sends(m) => m.psbt.tx.fee >= 0)
  <2>1. SentIsRight(m) /\ (Sends(m) => m.psbt.tx.fee >= 0)
    BY OnlyOwn DEF Signed
  <2>2. Sends(m) => order.settleFee # NoFee
    BY <2>1 DEF SentIsRight, NoFee
  <2>3. Sends(m) => order'.settleFee = order.settleFee
    BY <2>2 DEF OrderGrows
  <2> QED
    BY <2>1, <2>3 DEF SentIsRight, Sends
<1>5. SignsOnlyOwn'
  BY <1>3, <1>4 DEF SignsOnlyOwn, HersIsRight, HisIsRight, SentIsRight, Sends
<1> QED
  BY <1>4, <1>5 DEF Signed, Sends

\* A signature that is made is right.
LEMMA SignedMore ==
  ASSUME Signed, NEW sig, sigs' = sigs \cup {sig}, HersIsRight(sig)', HisIsRight(sig)',
         sig.tx.fee >= 0, sig.tx.leaf \in Leaves, sig.key = "A" => outbox' # NoTx, outbox' = NoTx => outbox = NoTx,
         order'.sponsorKey = order.sponsorKey, order'.releaseFee = order.releaseFee, order'.settleFee = order.settleFee,
         meta' = meta,
         \A m \in mail' : m \in mail \/ (SentIsRight(m) /\ (Sends(m) => m.psbt.tx.fee >= 0))
  PROVE  Signed'
<1>1. \A s \in sigs : HersIsRight(s)' /\ HisIsRight(s)'
  BY OnlyOwn DEF Signed, HersIsRight, HisIsRight, refundDestinationFor
<1>2. \A s \in sigs' : HersIsRight(s)' /\ HisIsRight(s)'
  BY <1>1
<1>3. \A m \in mail' : SentIsRight(m) /\ (Sends(m) => m.psbt.tx.fee >= 0)
  BY OnlyOwn DEF Signed
<1>4. \A m \in mail' : SentIsRight(m)' /\ (Sends(m) => m.psbt.tx.fee >= 0)
  BY <1>3 DEF SentIsRight, Sends
<1>5. SignsOnlyOwn'
  BY <1>2, <1>4 DEF SignsOnlyOwn, HersIsRight, HisIsRight, SentIsRight, Sends
<1> QED
  BY <1>4, <1>5 DEF Signed, Sends

LEMMA AskStep ==
  ASSUME IInv, NEW p \in Parties, NEW purpose \in Purposes, NEW psbt \in Psbts, Ask(p, purpose, psbt),
         psbt.sigs \subseteq sigs, p = "sponsor" => \A s \in psbt.sigs : s.key = "S",
         sigs' = sigs, mail' \subseteq mail, meta'.presig.sigs \subseteq sigs, \A s \in meta'.presig.sigs : s.key = "S"
  PROVE  /\ box' \in [Parties -> [Purposes -> Psbts]] /\ held' \in [Parties -> SUBSET Signatures]
         /\ Papers'
         /\ \A x \in Parties, q \in Purposes : box'[x][q] = IF x = p /\ q = purpose THEN psbt ELSE box[x][q]
<1>1. /\ box \in [Parties -> [Purposes -> Psbts]] /\ held \in [Parties -> SUBSET Signatures]
      /\ sigs \subseteq Signatures
      /\ box' = [box EXCEPT ![p][purpose] = psbt] /\ held' = [held EXCEPT ![p] = @ \cup psbt.sigs]
  BY DEF IInv, Typed, Ask
<1>2. box' \in [Parties -> [Purposes -> Psbts]]
      /\ \A x \in Parties, q \in Purposes : box'[x][q] = IF x = p /\ q = purpose THEN psbt ELSE box[x][q]
  BY <1>1
<1>3. held' \in [Parties -> SUBSET Signatures]
      /\ \A x \in Parties : held'[x] = IF x = p THEN held[x] \cup psbt.sigs ELSE held[x]
  BY <1>1 DEF Psbts
<1>4. Papers'
  <2>1. \A x \in Parties : held'[x] \subseteq sigs /\ \A q \in Purposes : box'[x][q].sigs \subseteq sigs
    BY <1>2, <1>3 DEF IInv, Papers
  <2>2. \A s \in held'["sponsor"] : s.key = "S"
    BY <1>3 DEF IInv, Papers, Parties
  <2> QED
    BY <2>1, <2>2 DEF IInv, Papers
<1> QED
  BY <1>2, <1>3, <1>4

LEMMA WorldStep ==
  ASSUME EscrowAssumption, IInv,
         PayIn \/ Block \/ buildRefundSweep \/ Market \/ Vanish \/ Look \/ Forget \/ Reenter \/ UNCHANGED vars
  PROVE  IInv'
<1>1. UNCHANGED <<order, meta, view, box, mail, sigs, held, outbox, mistakes>>
  BY DEF PayIn, Block, buildRefundSweep, Market, Vanish, Look, Forget, Reenter, vars
<1>2. chain' \in [confs : -1 .. Timelock, spent : Txs] /\ chain'.confs >= chain.confs
  <2> USE DEF IInv, Typed, EscrowAssumption
  <2>1. CASE chain' = chain
    BY <2>1
  <2>2. CASE PayIn
    BY <2>2 DEF PayIn, Unseen
  <2>3. CASE Block
    BY <2>3 DEF Block
  <2>4. CASE buildRefundSweep
    <3>1. chain.spent.dest \in Dests
      BY DEF Txs
    <3>2. [chain.spent.dest EXCEPT !.own = "wallet"] \in Dests
      BY <3>1 DEF Dests
    <3>3. [chain.spent EXCEPT !.dest.own = "wallet"] \in Txs
      BY <3>1, <3>2 DEF Txs
    <3>4. chain' = [chain EXCEPT !.spent = [chain.spent EXCEPT !.dest.own = "wallet"]]
      BY <2>4 DEF buildRefundSweep
    <3> QED
      BY <3>3, <3>4
  <2> QED
    BY <2>1, <2>2, <2>3, <2>4 DEF Market, Vanish, Look, Forget, Reenter, vars
<1>3. market' \in [rate : Rates, moves : 0 .. MaxMoves] /\ up' \in BOOLEAN /\ krw' \in BOOLEAN
  <2>1. market' = market \/ Market
    BY DEF PayIn, Block, buildRefundSweep, Vanish, Look, Forget, Reenter, vars
  <2>2. Market => market' \in [rate : Rates, moves : 0 .. MaxMoves]
    BY DEF Market, IInv, Typed, EscrowAssumption
  <2> QED
    BY <2>1, <2>2 DEF PayIn, Block, buildRefundSweep, Market, Vanish, Look, Forget, Reenter, vars, IInv, Typed
<1>4. /\ knows' \in Records /\ knows'.refund \in {NoAddress, knows.refund}
      /\ \/ knows'.payout = knows.payout /\ knows'.rate = knows.rate
         \/ knows'.payout = NoAddress
         \/ knows'.payout = meta.payout /\ knows'.rate = meta.rate
  <2>1. /\ knows \in Records /\ meta.payout \in Payouts \cup {NoAddress} /\ meta.rate \in Nat
        /\ knows = [refund |-> knows.refund, payout |-> knows.payout, rate |-> knows.rate]
    BY DEF IInv, Typed, Records, Metas
  <2>2. CASE Forget
    <3>1. \/ knows' = [refund |-> NoAddress, payout |-> knows.payout, rate |-> knows.rate]
          \/ knows' = [refund |-> knows.refund, payout |-> NoAddress, rate |-> 0]
      BY <2>1, <2>2 DEF Forget
    <3> QED
      BY <2>1, <3>1 DEF Records
  <2>3. CASE Reenter
    <3>1. knows' = [refund |-> knows.refund, payout |-> meta.payout, rate |-> meta.rate]
      BY <2>1, <2>3 DEF Reenter
    <3> QED
      BY <2>1, <3>1 DEF Records
  <2>4. CASE knows' = knows
    BY <2>1, <2>4
  <2> QED
    BY <2>2, <2>3, <2>4 DEF PayIn, Block, buildRefundSweep, Market, Vanish, Look, vars
<1>5. Remembered'
  BY <1>1, <1>4 DEF IInv, Remembered
<1>6. looked' \in -1 .. Timelock /\ Looks'
  <2>1. looked \in Int /\ chain.confs \in Int /\ chain'.confs \in Int /\ order.account \in Int
        /\ view["sponsor"].account \in Int /\ chain.confs \in -1 .. Timelock
    BY <1>2 DEF IInv, Typed, Orders, Parties
  <2>2. CASE looked' = looked
    BY <1>1, <1>2, <2>1, <2>2 DEF IInv, Typed, Looks
  <2>3. CASE Look
    BY <1>1, <1>2, <2>1, <2>3 DEF Look, IInv, Looks, Versions, Older, Parties
  <2> QED
    BY <2>2, <2>3 DEF PayIn, Block, buildRefundSweep, Market, Vanish, Forget, Reenter, vars
<1>7. Typed'
  BY <1>1, <1>2, <1>3, <1>4, <1>6 DEF IInv, Typed
<1>8. Stages' /\ Versions' /\ Papers' /\ Boxes' /\ Ready'
  BY <1>1 DEF IInv, Stages, releaseFeeFor, Versions, Older, Papers, Boxes, Ready
<1>9. Signed'
  BY <1>1, SignedGrow DEF IInv
<1> QED
  BY <1>5, <1>6, <1>7, <1>8, <1>9 DEF IInv

LEMMA OrderStep ==
  ASSUME EscrowAssumption, IInv, order' \in Orders, OrderGrows, Stages', Ready',
         UNCHANGED <<meta, view, box, mail, sigs, held, knows, outbox, looked, market, up, mistakes>>,
         chain' \in [confs : -1 .. Timelock, spent : Txs], chain'.confs = chain.confs, krw' \in BOOLEAN,
         order'.account \in {order.account, chain.confs}
  PROVE  IInv'
<1>1. Typed'
  BY DEF IInv, Typed
<1>2. Versions' /\ Signed'
  BY VersionsGrow, SignedGrow DEF IInv
<1>3. Papers' /\ Boxes'
  BY DEF IInv, Papers, Boxes
<1>4. Looks'
  BY DEF IInv, Typed, Looks, Orders
<1>5. Remembered'
  BY DEF IInv, Remembered, OrderGrows
<1> QED
  BY <1>1, <1>2, <1>3, <1>4, <1>5 DEF IInv

LEMMA FundStep ==
  ASSUME EscrowAssumption, IInv, Fund
  PROVE  IInv'
<1>1. releaseFeeFor \in Nat
  BY FeeIsNat DEF releaseFeeFor, IInv, Typed, Metas
<1>2. /\ order' = [order EXCEPT !.state = "funded", !.coin = "funding", !.releaseFee = releaseFeeFor]
      /\ order.state = "bonded" /\ order \in Orders
      /\ UNCHANGED <<meta, view, box, mail, sigs, held, knows, outbox, chain, looked, market, krw, up, mistakes>>
  BY DEF Fund, IInv, Typed
<1>3. order' = [state |-> "funded", kind |-> order.kind, sponsorKey |-> order.sponsorKey, coin |-> "funding",
                releaseFee |-> releaseFeeFor, settleFee |-> order.settleFee, account |-> order.account]
  BY <1>2 DEF Orders
<1>4. order' \in Orders
  BY <1>1, <1>2, <1>3 DEF Orders, OrderStates, EarlyStates, FeeOrNone
<1>5. OrderGrows
  BY <1>2, <1>3 DEF OrderGrows, IInv, Stages
<1>6. releaseFeeFor' = releaseFeeFor /\ releaseFeeFor # NoFee
  BY <1>1, <1>2 DEF releaseFeeFor, NoFee
<1>7. Stages' /\ Ready'
  BY <1>2, <1>3, <1>6 DEF IInv, Stages, EarlyStates, Ready
<1> QED
  BY <1>2, <1>3, <1>4, <1>5, <1>7, OrderStep DEF IInv, Typed

\* What moves the order on and touches no paper.
LEMMA TradeStep ==
  ASSUME EscrowAssumption, IInv, resolveAccountDispute \/ GiveAccount \/ Remit \/ Dispute \/ Confirm
  PROVE  IInv'
<1>1. order \in Orders /\ chain \in [confs : -1 .. Timelock, spent : Txs] /\ outbox \in Txs
  BY DEF IInv, Typed
<1>2. UNCHANGED <<meta, view, box, mail, sigs, held, knows, outbox, looked, market, up, mistakes>>
  BY DEF resolveAccountDispute, GiveAccount, Remit, Dispute, Confirm
<1>3. /\ chain' \in [confs : -1 .. Timelock, spent : Txs] /\ chain'.confs = chain.confs /\ krw' \in BOOLEAN
  BY <1>1 DEF resolveAccountDispute, GiveAccount, Remit, Dispute, Confirm, IInv, Typed
<1>4. /\ order' \in Orders /\ order.state # "listed"
      /\ order' = [state |-> order'.state, kind |-> order'.kind, sponsorKey |-> order.sponsorKey, coin |-> order.coin,
                   releaseFee |-> order.releaseFee, settleFee |-> order.settleFee, account |-> order'.account]
      /\ \/ /\ order.kind = "refund:account-disputed" /\ order.state \in {"refunding", "settling", "over"}
            /\ order'.kind = "refund:customer-late" /\ order'.state = order.state /\ order'.account = order.account
         \/ /\ order.state = "presigned" /\ order.account = Unseen /\ order'.account = chain.confs
            /\ order'.kind = order.kind /\ order'.state = order.state
         \/ /\ <<order.state, order'.state>> \in {<<"presigned", "remitted">>, <<"remitted", "disputed">>}
            /\ order'.kind = order.kind /\ order'.account = order.account
         \/ /\ outbox # NoTx /\ order'.state = "over" /\ order'.kind = order.kind /\ order'.account = order.account
  <2>1. CASE resolveAccountDispute
    <3>1. order' = [order EXCEPT !.kind = "refund:customer-late"]
      BY <2>1 DEF resolveAccountDispute
    <3> QED
      BY <1>1, <2>1, <3>1 DEF resolveAccountDispute, Orders, Kinds, RefundKinds
  <2>2. CASE GiveAccount
    <3>1. order' = [order EXCEPT !.account = chain.confs]
      BY <2>2 DEF GiveAccount
    <3> QED
      BY <1>1, <2>2, <3>1 DEF GiveAccount, Orders
  <2>3. CASE Remit
    <3>1. order' = [order EXCEPT !.state = "remitted"]
      BY <2>3 DEF Remit
    <3> QED
      BY <1>1, <2>3, <3>1 DEF Remit, Orders, OrderStates, EarlyStates
  <2>4. CASE Dispute
    <3>1. order' = [order EXCEPT !.state = "disputed"]
      BY <2>4 DEF Dispute
    <3> QED
      BY <1>1, <2>4, <3>1 DEF Dispute, Orders, OrderStates, EarlyStates
  <2>5. CASE Confirm
    <3>1. order' = [order EXCEPT !.state = "over"] /\ outbox # NoTx
      BY <2>5 DEF Confirm
    <3>2. order.state # "listed"
      BY <3>1 DEF IInv, Stages
    <3> QED
      BY <1>1, <3>1, <3>2 DEF Orders, OrderStates, EarlyStates
  <2> QED
    BY <2>1, <2>2, <2>3, <2>4, <2>5
<1>5. OrderGrows /\ order'.account \in {order.account, chain.confs}
  <2>1. order'.sponsorKey = order.sponsorKey /\ order'.coin = order.coin /\ order'.releaseFee = order.releaseFee
        /\ order'.settleFee = order.settleFee
    BY <1>4
  <2> QED
    BY <1>4, <2>1 DEF OrderGrows, IInv, Stages
<1>6. Stages'
  <2>1. order'.sponsorKey = order.sponsorKey /\ order'.coin = order.coin /\ order'.releaseFee = order.releaseFee
        /\ order'.settleFee = order.settleFee /\ releaseFeeFor' = releaseFeeFor
    BY <1>2, <1>4 DEF releaseFeeFor
  <2> QED
    BY <1>2, <1>4, <2>1 DEF IInv, Stages, EarlyStates, RefundKinds, NoKind
<1>7. Ready'
  <2>1. order'.state \in {"presigned", "remitted", "disputed"} => order.state \in {"presigned", "remitted", "disputed"}
    BY <1>4 DEF IInv, Stages
  <2>2. order'.coin = order.coin /\ order'.releaseFee = order.releaseFee /\ order'.settleFee = order.settleFee
    BY <1>4
  <2>3. settlementParamsFor(order', meta, "release") = settlementParamsFor(order, meta, "release")
    BY <2>2 DEF settlementParamsFor
  <2> QED
    BY <1>2, <2>1, <2>3 DEF IInv, Ready
<1> QED
  BY <1>2, <1>3, <1>4, <1>5, <1>6, <1>7, OrderStep

LEMMA SweepStep ==
  ASSUME EscrowAssumption, IInv, Sweep
  PROVE  IInv'
<1>0. PICK t, sig : t = buildTimelockSweep(market.rate) /\ sig = signSettlement("C", t)
  OBVIOUS
<1>1. /\ CanBuild(t) /\ sigs' = sigs \cup {sig} /\ held' = [held EXCEPT !["customer"] = @ \cup {sig}]
      /\ chain' = [chain EXCEPT !.spent = t] /\ order' = [order EXCEPT !.state = IF up THEN "over" ELSE @]
      /\ UNCHANGED <<meta, view, box, mail, knows, outbox, looked, market, krw, up, mistakes>>
      /\ view["customer"].sponsorKey # "none"
  BY <1>0 DEF Sweep, RecoveryShown
<1>2. /\ t.leaf = "timelock" /\ t.coin = "funding" /\ t.dest = [own |-> "wallet", kind |-> "tr"]
      /\ t \in Txs /\ t.fee >= 0
  <2>1. market.rate \in Nat
    BY DEF IInv, Typed, EscrowAssumption
  <2>2. settlementFeeSat("timelock", [own |-> "wallet", kind |-> "tr"], market.rate) \in Nat
    BY <2>1, FeeIsNat
  <2> QED
    BY <1>0, <2>2 DEF buildTimelockSweep, Txs, Leaves, Dests
<1>3. sig \in Signatures /\ sig.key = "C" /\ sig.tx = t
  BY <1>0, <1>2 DEF signSettlement, Signatures
<1>4. order.state # "listed"
  BY <1>1 DEF IInv, Versions, Older, Parties
<1>5. order \in Orders /\ order' \in Orders /\ order' = [order EXCEPT !.state = order'.state]
      /\ order'.state \in {order.state, "over"}
  BY <1>1 DEF IInv, Typed, Orders, OrderStates
<1>6. /\ order'.kind = order.kind /\ order'.sponsorKey = order.sponsorKey /\ order'.coin = order.coin
      /\ order'.releaseFee = order.releaseFee /\ order'.settleFee = order.settleFee /\ order'.account = order.account
  BY <1>5 DEF Orders
<1>7. Typed'
  <2>1. held' \in [Parties -> SUBSET Signatures] /\ sigs' \subseteq Signatures
    BY <1>1, <1>3 DEF IInv, Typed
  <2>2. chain' \in [confs : -1 .. Timelock, spent : Txs]
    BY <1>1, <1>2 DEF IInv, Typed
  <2> QED
    BY <1>1, <1>5, <2>1, <2>2 DEF IInv, Typed
<1>8. Stages' /\ Remembered'
  <2>1. order'.state # "listed" /\ releaseFeeFor' = releaseFeeFor
    BY <1>1, <1>4, <1>5 DEF releaseFeeFor
  <2>2. CASE order'.state = order.state
    BY <1>1, <1>6, <2>1, <2>2 DEF IInv, Stages, Remembered
  <2>3. CASE order'.state = "over"
    BY <1>1, <1>4, <1>6, <2>1, <2>3 DEF IInv, Stages, Remembered, EarlyStates
  <2> QED
    BY <1>5, <2>2, <2>3
<1>9. Versions' /\ Looks' /\ Boxes'
  <2>1. OrderGrows
    BY <1>4, <1>5, <1>6 DEF OrderGrows
  <2>2. chain'.confs = chain.confs
    BY <1>1 DEF IInv, Typed
  <2> QED
    BY <1>1, <1>6, <2>1, <2>2, VersionsGrow DEF IInv, Looks, Boxes
<1>10. Papers'
  <2>1. \A p \in Parties : held'[p] \subseteq held[p] \cup {sig}
    BY <1>1 DEF IInv, Typed, Parties
  <2>2. held'["sponsor"] = held["sponsor"]
    BY <1>1 DEF IInv, Typed, Parties
  <2> QED
    BY <1>1, <2>1, <2>2 DEF IInv, Papers
<1>11. Signed'
  <2>1. HersIsRight(sig)' /\ HisIsRight(sig)'
    BY <1>2, <1>3 DEF HersIsRight, HisIsRight
  <2> QED
    BY <1>1, <1>2, <1>3, <1>6, <2>1, SignedMore DEF IInv, Leaves
<1>12. Ready'
  <2>1. settlementParamsFor(order', meta, "release") = settlementParamsFor(order, meta, "release")
    BY <1>6 DEF settlementParamsFor
  <2> QED
    BY <1>1, <1>5, <2>1 DEF IInv, Ready
<1> QED
  BY <1>7, <1>8, <1>9, <1>10, <1>11, <1>12 DEF IInv

LEMMA SeeStep ==
  ASSUME EscrowAssumption, IInv, NEW p \in Parties, See(p)
  PROVE  IInv'
<1>1. /\ view' = [view EXCEPT ![p] = order] /\ looked' = IF p = "sponsor" THEN Unseen ELSE looked
      /\ UNCHANGED <<order, meta, box, mail, sigs, held, knows, outbox, chain, market, krw, up, mistakes>>
  BY DEF See
<1>2. Typed'
  BY <1>1 DEF IInv, Typed, Unseen, EscrowAssumption
<1>3. Older(order)
  BY DEF Older, IInv, Stages
<1>4. Versions'
  BY <1>1, <1>3 DEF IInv, Typed, Versions, Older
<1>5. Looks'
  BY <1>1 DEF IInv, Typed, Looks, Parties, Unseen, Orders
<1>6. Stages' /\ Remembered' /\ Papers' /\ Boxes' /\ Ready'
  BY <1>1 DEF IInv, Stages, releaseFeeFor, Remembered, Papers, Boxes, Ready
<1>7. Signed'
  BY <1>1, SignedGrow DEF IInv
<1> QED
  BY <1>2, <1>4, <1>5, <1>6, <1>7 DEF IInv

LEMMA RequestStep ==
  ASSUME EscrowAssumption, IInv, NEW o \in Orders, o.kind \in Kinds \ {NoKind, "release"},
         requestSettlementSignature(o), UNCHANGED <<sigs, mail, meta, mistakes>>
  PROVE  /\ box' \in [Parties -> [Purposes -> Psbts]] /\ held' \in [Parties -> SUBSET Signatures]
         /\ Papers' /\ Boxes'
<1>1. PICK p \in Parties, purpose \in Purposes, psbt \in Psbts :
         /\ Ask(p, purpose, psbt) /\ psbt.sigs = {} /\ psbt.tx = settlementParamsFor(o, meta, o.kind)
         /\ p = awaitingSignerFor(o.kind) /\ purpose = signPurposeFor(o.kind)
  <2>1. awaitingSignerFor(o.kind) \in Parties /\ signPurposeFor(o.kind) \in Purposes
    BY DEF awaitingSignerFor, signPurposeFor, Parties, Purposes
  <2>2. settlementParamsFor(o, meta, o.kind) \in Txs
    BY ParamsAreTxs DEF IInv, Typed
  <2>3. [tx |-> settlementParamsFor(o, meta, o.kind), sigs |-> {}] \in Psbts
    BY <2>2 DEF Psbts
  <2> QED
    BY <2>1, <2>3 DEF requestSettlementSignature
<1>2. /\ box' \in [Parties -> [Purposes -> Psbts]] /\ held' \in [Parties -> SUBSET Signatures] /\ Papers'
      /\ \A x \in Parties, q \in Purposes : box'[x][q] = IF x = p /\ q = purpose THEN psbt ELSE box[x][q]
  <2>1. meta'.presig.sigs \subseteq sigs /\ (\A s \in meta'.presig.sigs : s.key = "S")
    BY DEF IInv, Papers
  <2>2. psbt.sigs \subseteq sigs /\ (\A s \in psbt.sigs : s.key = "S")
    BY <1>1
  <2> QED
    BY <1>1, <2>1, <2>2, AskStep
<1>4. (p = "sponsor" <=> purpose = "dispute-sponsor") /\ purpose # "rescue"
  BY <1>1 DEF awaitingSignerFor, signPurposeFor
<1>5. Boxes'
  BY <1>2, <1>4 DEF IInv, Boxes, Parties, Purposes
<1> QED
  BY <1>2, <1>5

LEMMA ClaimStep ==
  ASSUME EscrowAssumption, IInv, NEW a \in Payouts, NEW rate \in ClaimRates, NEW key \in ClaimKeys,
         ocClaim(a, rate, key)
  PROVE  IInv'
<1>1. key = "S"
  BY ThreeKeys DEF ocClaim, EscrowAssumption
<1>2. /\ order.state = "listed" /\ order' = [order EXCEPT !.state = "bonded", !.sponsorKey = key]
      /\ meta' = [meta EXCEPT !.payout = a, !.rate = rate] /\ knows' = [knows EXCEPT !.payout = a, !.rate = rate]
      /\ UNCHANGED <<view, box, mail, sigs, held, outbox, chain, looked, market, krw, up, mistakes>>
      /\ order \in Orders /\ meta \in Metas /\ knows \in Records /\ rate \in Nat
  BY DEF ocClaim, IInv, Typed, EscrowAssumption
<1>3. order' = [state |-> "bonded", kind |-> order.kind, sponsorKey |-> "S", coin |-> order.coin,
                releaseFee |-> order.releaseFee, settleFee |-> order.settleFee, account |-> order.account]
  BY <1>1, <1>2 DEF Orders
<1>4. meta' = [refund |-> meta.refund, payout |-> a, rate |-> rate, presig |-> meta.presig]
  BY <1>2 DEF Metas
<1>5. knows' = [refund |-> knows.refund, payout |-> a, rate |-> rate]
  BY <1>2 DEF Records
<1>6. Typed'
  <2>1. order' \in Orders
    BY <1>2, <1>3 DEF Orders, OrderStates, EarlyStates
  <2>2. meta' \in Metas /\ knows' \in Records
    BY <1>2, <1>4, <1>5 DEF Metas, Records
  <2> QED
    BY <1>2, <2>1, <2>2 DEF IInv, Typed
<1>7. sigs = {} /\ order.coin = "none" /\ order.releaseFee = NoFee /\ order.kind = NoKind /\ outbox = NoTx
  BY <1>2 DEF IInv, Stages, EarlyStates
<1>8. Stages' /\ Remembered'
  <2>0. order.settleFee = NoFee
    BY <1>7 DEF IInv, Stages
  <2>1. /\ order'.state = "bonded" /\ order'.sponsorKey = "S" /\ order'.coin = "none" /\ order'.kind = NoKind
        /\ order'.releaseFee = NoFee /\ order'.settleFee = order.settleFee /\ order.settleFee = NoFee
    BY <1>3, <1>7, <2>0
  <2>2. Stages'
    BY <1>2, <1>7, <2>1 DEF Stages, EarlyStates
  <2>3. knows'.refund = knows.refund /\ knows'.payout = a /\ knows'.rate = rate
        /\ meta'.refund = meta.refund /\ meta'.payout = a /\ meta'.rate = rate
    BY <1>4, <1>5
  <2>4. Remembered'
    BY <2>1, <2>3 DEF IInv, Remembered
  <2> QED
    BY <2>2, <2>4
<1>9. Versions' /\ Looks'
  BY <1>2, <1>3, <1>7 DEF IInv, Versions, Older, Looks
<1>10. Papers' /\ Boxes'
  BY <1>2, <1>4, <1>7 DEF IInv, Papers, Boxes
<1>11. Signed'
  <2>1. order'.settleFee = order.settleFee
    BY <1>3
  <2>2. \A m \in mail : SentIsRight(m) /\ (Sends(m) => m.psbt.tx.fee >= 0)
    BY OnlyOwn DEF IInv, Signed
  <2>3. sigs' = {} /\ \A m \in mail' : SentIsRight(m)' /\ (Sends(m) => m.psbt.tx.fee >= 0)
    BY <1>2, <1>7, <2>1, <2>2 DEF SentIsRight, Sends
  <2>4. SignsOnlyOwn'
    BY <2>3 DEF SignsOnlyOwn, SentIsRight, Sends
  <2> QED
    BY <2>3, <2>4 DEF Signed, Sends
<1>12. Ready'
  BY <1>3 DEF Ready
<1> QED
  BY <1>6, <1>8, <1>9, <1>10, <1>11, <1>12 DEF IInv

LEMMA OrderFields ==
  ASSUME IInv
  PROVE  order = [state |-> order.state, kind |-> order.kind, sponsorKey |-> order.sponsorKey, coin |-> order.coin,
                  releaseFee |-> order.releaseFee, settleFee |-> order.settleFee, account |-> order.account]
<1>1. order \in Orders
  BY DEF IInv, Typed
<1> QED
  BY <1>1 DEF Orders

LEMMA DecideStep ==
  ASSUME EscrowAssumption, IInv, NEW kind \in RefundKinds \cup {"sponsor_win", "customer_win"}, decideSettlement(kind)
  PROVE  IInv'
<1>1. PICK fee \in Nat : \E o :
        /\ o = [state |-> IF kind \in RefundKinds THEN "refunding" ELSE order.state, kind |-> kind,
                sponsorKey |-> order.sponsorKey, coin |-> "funding", releaseFee |-> order.releaseFee,
                settleFee |-> fee, account |-> order.account]
        /\ order' = o
  <2> DEFINE coin == [order EXCEPT !.coin = "funding", !.kind = kind]
             tx == settlementParamsFor(coin, meta, kind)
             fee == settlementFeeSat(tx.leaf, tx.dest, settleRate(kind))
  <2>1. settleRate(kind) \in Nat
    BY DEF settleRate, IInv, Typed, Metas, EscrowAssumption
  <2>2. fee \in Nat
    BY <2>1, FeeIsNat
  <2>3. order' = [coin EXCEPT !.settleFee = fee, !.state = IF kind \in RefundKinds THEN "refunding" ELSE @]
    BY DEF decideSettlement
  <2>4. order \in Orders
    BY DEF IInv, Typed
  <2>5. coin = [state |-> order.state, kind |-> kind, sponsorKey |-> order.sponsorKey, coin |-> "funding",
                releaseFee |-> order.releaseFee, settleFee |-> order.settleFee, account |-> order.account]
    <3>1. [order EXCEPT !.coin = "funding"] = [state |-> order.state, kind |-> order.kind, sponsorKey |-> order.sponsorKey,
            coin |-> "funding", releaseFee |-> order.releaseFee, settleFee |-> order.settleFee, account |-> order.account]
      BY OrderFields
    <3>2. coin = [[order EXCEPT !.coin = "funding"] EXCEPT !.kind = kind]
      OBVIOUS
    <3> HIDE DEF coin
    <3> QED
      BY <3>1, <3>2
  <2> HIDE DEF coin, fee
  <2>6. order' = [state |-> IF kind \in RefundKinds THEN "refunding" ELSE order.state, kind |-> kind,
                  sponsorKey |-> order.sponsorKey, coin |-> "funding", releaseFee |-> order.releaseFee,
                  settleFee |-> fee, account |-> order.account]
    BY <2>3, <2>5
  <2> QED
    BY <2>2, <2>6
<1>0. PICK o :
        /\ o = [state |-> IF kind \in RefundKinds THEN "refunding" ELSE order.state, kind |-> kind,
                sponsorKey |-> order.sponsorKey, coin |-> "funding", releaseFee |-> order.releaseFee,
                settleFee |-> fee, account |-> order.account]
        /\ order' = o
  BY <1>1
<1>2. /\ order.kind = NoKind /\ requestSettlementSignature(o)
      /\ UNCHANGED <<meta, view, mail, sigs, knows, outbox, chain, looked, market, krw, up, mistakes>>
      /\ \/ kind \in RefundKinds /\ order.state \in {"bonded", "funded", "presigned"}
         \/ kind \notin RefundKinds /\ order.state = "disputed"
  BY <1>0 DEF decideSettlement
<1>3. o \in Orders
  BY <1>0 DEF IInv, Typed, Orders, OrderStates, Kinds, FeeOrNone
<1>4. o.kind = kind /\ kind \in Kinds \ {NoKind, "release"}
  BY <1>0 DEF Kinds, RefundKinds, NoKind
<1>5. /\ box' \in [Parties -> [Purposes -> Psbts]] /\ held' \in [Parties -> SUBSET Signatures]
      /\ Papers' /\ Boxes'
  BY <1>2, <1>3, <1>4, RequestStep
<1>6. Typed'
  BY <1>0, <1>2, <1>3, <1>5 DEF IInv, Typed
<1>7. OrderGrows
  BY <1>0, <1>2 DEF OrderGrows, IInv, Stages, RefundKinds
<1>8. Versions' /\ Signed'
  BY <1>2, <1>7, VersionsGrow, SignedGrow DEF IInv
<1>9. Stages'
  <2>1. fee # NoFee
    BY <1>0 DEF NoFee
  <2>2. CASE kind \in RefundKinds
    BY <1>0, <1>2, <2>1, <2>2 DEF IInv, Stages, releaseFeeFor, EarlyStates, NoKind, RefundKinds
  <2>3. CASE kind \notin RefundKinds
    BY <1>0, <1>2, <2>1, <2>3 DEF IInv, Stages, releaseFeeFor, EarlyStates, NoKind, RefundKinds
  <2> QED
    BY <2>2, <2>3
<1>00. Remembered' /\ Looks'
  BY <1>0, <1>2 DEF IInv, Remembered, Looks
<1>01. Ready'
  <2> SUFFICES ASSUME kind \notin RefundKinds
               PROVE  Ready'
    BY <1>0 DEF Ready
  <2>1. order.coin = "funding" /\ order.state = "disputed"
    BY <1>2 DEF IInv, Stages
  <2>2. settlementParamsFor(o, meta, "release") = settlementParamsFor(order, meta, "release")
    BY <1>0, <2>1 DEF settlementParamsFor
  <2> QED
    BY <1>0, <1>2, <2>1, <2>2 DEF IInv, Ready
<1> QED
  BY <1>5, <1>6, <1>8, <1>9, <1>00, <1>01 DEF IInv

\* A paper that is asked for again, or that is not as decided.
LEMMA PaperStep ==
  ASSUME EscrowAssumption, IInv, NEW p \in Parties, NEW purpose \in Purposes, NEW psbt \in Psbts, Ask(p, purpose, psbt),
         psbt.sigs \subseteq meta.presig.sigs,
         mistakes' = 0 => mistakes = 0 /\ p = "customer" /\ purpose \notin {"dispute-sponsor", "rescue"},
         mistakes' \in 0 .. MaxMistakes,
         UNCHANGED <<order, meta, view, mail, sigs, knows, outbox, chain, looked, market, krw, up>>
  PROVE  IInv'
<1>1. /\ box' \in [Parties -> [Purposes -> Psbts]] /\ held' \in [Parties -> SUBSET Signatures] /\ Papers'
      /\ \A x \in Parties, q \in Purposes : box'[x][q] = IF x = p /\ q = purpose THEN psbt ELSE box[x][q]
  <2>1. meta'.presig.sigs \subseteq sigs /\ (\A s \in meta'.presig.sigs : s.key = "S")
    BY DEF IInv, Papers
  <2>2. psbt.sigs \subseteq sigs /\ (\A s \in psbt.sigs : s.key = "S")
    BY DEF IInv, Papers
  <2> QED
    BY <2>1, <2>2, AskStep
<1>2. Typed'
  BY <1>1 DEF IInv, Typed
<1>3. Boxes'
  BY <1>1 DEF IInv, Boxes, Parties, Purposes
<1>4. Stages' /\ Remembered' /\ Versions' /\ Ready' /\ Looks'
  BY DEF IInv, Stages, releaseFeeFor, Remembered, Versions, Older, Ready, Looks
<1>5. Signed'
  BY SignedGrow DEF IInv
<1> QED
  BY <1>1, <1>2, <1>3, <1>4, <1>5 DEF IInv

LEMMA ResendStep ==
  ASSUME EscrowAssumption, IInv, Resend
  PROVE  IInv'
<1>1. UNCHANGED <<order, meta, view, mail, sigs, knows, outbox, chain, looked, market, krw, up, mistakes>>
      /\ order \in Orders /\ meta \in Metas
  BY DEF Resend, IInv, Typed
<1>2. CASE order.kind # NoKind
  <2>1. requestSettlementSignature(order) /\ order.kind \in Kinds \ {NoKind, "release"}
    BY <1>1, <1>2 DEF Resend, IInv, Stages, EarlyStates, Orders, OrderStates, RefundKinds, Kinds
  <2>2. /\ box' \in [Parties -> [Purposes -> Psbts]] /\ held' \in [Parties -> SUBSET Signatures]
        /\ Papers' /\ Boxes'
    BY <1>1, <2>1, RequestStep
  <2>3. Typed'
    BY <1>1, <2>2 DEF IInv, Typed
  <2>4. Stages' /\ Remembered' /\ Versions' /\ Ready' /\ Looks'
    BY <1>1 DEF IInv, Stages, releaseFeeFor, Remembered, Versions, Older, Ready, Looks
  <2>5. Signed'
    BY <1>1, SignedGrow DEF IInv
  <2> QED
    BY <2>2, <2>3, <2>4, <2>5 DEF IInv
<1>3. CASE order.kind = NoKind
  <2>1. Ask("customer", "release", meta.presig)
    BY <1>3 DEF Resend
  <2>2. meta.presig \in Psbts /\ "customer" \in Parties /\ "release" \in Purposes /\ mistakes \in 0 .. MaxMistakes
    BY <1>1 DEF Metas, Parties, Purposes, IInv, Typed
  <2> QED
    BY <1>1, <2>1, <2>2, PaperStep
<1> QED
  BY <1>2, <1>3

LEMMA MistakesAreTxs ==
  ASSUME EscrowAssumption, NEW u \in Txs, NEW t \in Mistakes(u)
  PROVE  t \in Txs
<1>1. u = [leaf |-> u.leaf, coin |-> u.coin, dest |-> u.dest, fee |-> u.fee]
      /\ u.dest = [own |-> u.dest.own, kind |-> u.dest.kind] /\ u.dest \in Dests /\ u.fee \in Int
  BY DEF Txs, Dests
<1>2. \/ \E l \in Leaves : t = [u EXCEPT !.leaf = l]
      \/ \E c \in {"stray", "elsewhere"} : t = [u EXCEPT !.coin = c]
      \/ \E a \in {"wallet", "sponsor", "elsewhere"} : t = [u EXCEPT !.dest.own = a]
      \/ t = [u EXCEPT !.dest = outputScriptFor(derived)]
      \/ \E f \in {u.fee + 1, Amount - 546} : t = [u EXCEPT !.fee = f]
  BY DEF Mistakes
<1>3. \A d \in Dests : [u EXCEPT !.dest = d] \in Txs
  BY DEF Txs
<1>4. CASE \E l \in Leaves : t = [u EXCEPT !.leaf = l]
  BY <1>4 DEF Txs
<1>5. CASE \E c \in {"stray", "elsewhere"} : t = [u EXCEPT !.coin = c]
  BY <1>5 DEF Txs
<1>6. CASE \E a \in {"wallet", "sponsor", "elsewhere"} : t = [u EXCEPT !.dest.own = a]
  <2>1. PICK a \in {"wallet", "sponsor", "elsewhere"} : t = [u EXCEPT !.dest.own = a]
    BY <1>6
  <2>2. [u.dest EXCEPT !.own = a] = [own |-> a, kind |-> u.dest.kind]
    BY <1>1
  <2>3. [u.dest EXCEPT !.own = a] \in Dests
    BY <1>1, <2>2 DEF Dests
  <2>4. t = [u EXCEPT !.dest = [u.dest EXCEPT !.own = a]]
    BY <1>1, <2>1
  <2> QED
    BY <1>3, <2>3, <2>4
<1>7. CASE t = [u EXCEPT !.dest = outputScriptFor(derived)]
  <2>1. outputScriptFor(derived) \in Dests
    BY DEF outputScriptFor, derived, Dests
  <2> QED
    BY <1>3, <1>7, <2>1
<1>8. CASE \E f \in {u.fee + 1, Amount - 546} : t = [u EXCEPT !.fee = f]
  <2>1. u.fee + 1 \in Int /\ Amount - 546 \in Int
    BY <1>1 DEF EscrowAssumption
  <2> QED
    BY <1>8, <2>1 DEF Txs
<1> QED
  BY <1>2, <1>4, <1>5, <1>6, <1>7, <1>8

LEMMA RescueIsTx ==
  ASSUME EscrowAssumption, IInv, NEW coin \in AtEscrow
  PROVE  RescueOf(coin) \in Txs
<1>1. PICK dest : dest = outputScriptFor(refundDestinationFor(meta))
  OBVIOUS
<1>2. refundDestinationFor(meta) \in Addresses \cup {NoAddress}
  BY DEF refundDestinationFor, derived, IInv, Typed, Metas, EscrowAssumption, Addresses
<1>3. dest \in Dests
  BY <1>1, <1>2, ScriptsAreDests
<1>4. market.rate \in Nat
  BY DEF IInv, Typed, EscrowAssumption
<1>5. settlementFeeSat("customer-win", dest, market.rate) \in Int
  BY <1>4, FeeIsNat
<1>6. RescueOf(coin) = [leaf |-> "customer-win", coin |-> coin, dest |-> dest,
                        fee |-> settlementFeeSat("customer-win", dest, market.rate)]
  BY <1>1 DEF RescueOf
<1> QED
  BY <1>3, <1>5, <1>6 DEF Txs, Leaves, AtEscrow

LEMMA MistakenStep ==
  ASSUME EscrowAssumption, IInv, Mistaken
  PROVE  IInv'
<1>1. PICK p \in Parties, purpose \in Purposes, signed \in BOOLEAN :
         \E t \in Unasked(purpose) :
            Ask(p, purpose, [tx |-> t, sigs |-> IF signed THEN meta.presig.sigs ELSE {}])
  BY DEF Mistaken
<1>2. PICK t \in Unasked(purpose) :
            Ask(p, purpose, [tx |-> t, sigs |-> IF signed THEN meta.presig.sigs ELSE {}])
  BY <1>1
<1>3. meta \in Metas /\ order \in Orders
  BY DEF IInv, Typed
<1>4. t \in Txs
  <2>1. CASE purpose = "rescue"
    <3>1. PICK c \in AtEscrow : t \in {RescueOf(c)} \cup Mistakes(RescueOf(c))
      BY <2>1 DEF Unasked
    <3>2. RescueOf(c) \in Txs
      BY RescueIsTx
    <3> QED
      BY <3>1, <3>2, MistakesAreTxs
  <2>2. CASE purpose # "rescue"
    <3>1. t \in Mistakes(settlementParamsFor(order, meta, KindFor(purpose)))
      BY <2>2 DEF Unasked
    <3>2. settlementParamsFor(order, meta, KindFor(purpose)) \in Txs
      BY <1>3, ParamsAreTxs
    <3> QED
      BY <3>1, <3>2, MistakesAreTxs
  <2> QED
    BY <2>1, <2>2
<1>5. PICK psbt : psbt = [tx |-> t, sigs |-> IF signed THEN meta.presig.sigs ELSE {}]
  OBVIOUS
<1>6. psbt \in Psbts /\ psbt.sigs \subseteq meta.presig.sigs /\ Ask(p, purpose, psbt)
  BY <1>2, <1>3, <1>4, <1>5 DEF Psbts, Metas
<1>7. mistakes' = mistakes + 1 /\ mistakes \in Nat /\ MaxMistakes \in Nat /\ mistakes' \in 0 .. MaxMistakes
  BY DEF Mistaken, IInv, Typed, EscrowAssumption
<1>8. UNCHANGED <<order, meta, view, mail, sigs, knows, outbox, chain, looked, market, krw, up>>
  BY DEF Mistaken
<1> QED
  BY <1>6, <1>7, <1>8, PaperStep

\* A signature is made, and sent with others that there are.
LEMMA SendStep ==
  ASSUME EscrowAssumption, IInv, NEW p \in Parties, NEW purpose \in Purposes \cup {"presig"}, NEW t \in Txs,
         NEW more \in SUBSET sigs, Send(p, purpose, t, more), KeyOf(p, view[p]) = IF p = "customer" THEN "C" ELSE "S",
         NEW sig, sig = signSettlement(KeyOf(p, view[p]), t), t.fee >= 0, t.leaf \in Leaves,
         order.state # "listed", HersIsRight(sig)', HisIsRight(sig)', purpose = "presig" => p = "sponsor" /\ more = {},
         p = "customer" /\ purpose \in {"refund", "dispute-customer"} => t.coin = "funding" /\ t.fee = order.settleFee,
         UNCHANGED <<order, meta, view, box, knows, outbox, chain, looked, market, krw, up, mistakes>>
  PROVE  IInv'
<1>1. /\ sigs' = sigs \cup {sig} /\ held' = [held EXCEPT ![p] = @ \cup {sig}]
      /\ mail' = mail \cup {[from |-> p, purpose |-> purpose, psbt |-> [tx |-> t, sigs |-> {sig} \cup more]]}
      /\ sigs \subseteq Signatures /\ held \in [Parties -> SUBSET Signatures] /\ mail \subseteq Letters
  BY DEF Send, IInv, Typed
<1>2. sig \in Signatures /\ sig.tx = t /\ sig.key = IF p = "customer" THEN "C" ELSE "S"
  BY DEF signSettlement, Signatures
<1>3. PICK psbt : psbt = [tx |-> t, sigs |-> {sig} \cup more]
  OBVIOUS
<1>4. psbt \in Psbts /\ psbt.sigs = {sig} \cup more
  BY <1>1, <1>2, <1>3 DEF Psbts
<1>5. PICK letter : letter = [from |-> p, purpose |-> purpose, psbt |-> psbt]
  OBVIOUS
<1>6. letter \in Letters /\ mail' = mail \cup {letter} /\ letter.purpose = purpose /\ letter.psbt = psbt
  BY <1>1, <1>3, <1>4, <1>5 DEF Letters
<1>7. Typed'
  BY <1>1, <1>2, <1>6 DEF IInv, Typed
<1>8. Papers'
  <2>1. \A x \in Parties : held'[x] \subseteq sigs' /\ \A q \in Purposes : box'[x][q].sigs \subseteq sigs'
    BY <1>1 DEF IInv, Papers
  <2>2. \A s \in held'["sponsor"] : s.key = "S"
    BY <1>1, <1>2 DEF IInv, Papers, Parties
  <2>3. \A m \in mail' : m.psbt.sigs \subseteq sigs' /\ (m.purpose = "presig" => \A s \in m.psbt.sigs : s.key = "S")
    <3>1. letter.psbt.sigs \subseteq sigs' /\ (letter.purpose = "presig" => \A s \in letter.psbt.sigs : s.key = "S")
      BY <1>1, <1>2, <1>4, <1>6
    <3> QED
      BY <1>1, <1>6, <3>1 DEF IInv, Papers
  <2>4. meta'.presig.sigs \subseteq sigs' /\ \A s \in meta'.presig.sigs : s.key = "S"
    BY <1>1 DEF IInv, Papers
  <2> QED
    BY <2>1, <2>2, <2>3, <2>4 DEF Papers
<1>9. Signed'
  <2>1. letter.psbt.tx = t /\ letter.from = p
    BY <1>3, <1>5
  <2>2. SentIsRight(letter) /\ (Sends(letter) => letter.psbt.tx.fee >= 0)
    BY <1>6, <2>1 DEF SentIsRight, Sends
  <2>3. \A m \in mail' : m \in mail \/ (SentIsRight(m) /\ (Sends(m) => m.psbt.tx.fee >= 0))
    BY <1>6, <2>2
  <2> QED
    BY <1>1, <1>2, <2>3, SignedMore DEF IInv
<1>10. Stages' /\ Remembered' /\ Versions' /\ Boxes' /\ Ready' /\ Looks'
  BY DEF IInv, Stages, releaseFeeFor, Remembered, Versions, Older, Boxes, Ready, Looks
<1> QED
  BY <1>7, <1>8, <1>9, <1>10 DEF IInv

LEMMA PresignStep ==
  ASSUME EscrowAssumption, IInv, buildPresignature
  PROVE  IInv'
<1>1. PICK o : o = view["sponsor"]
  OBVIOUS
<1>2. PICK t : t = [leaf |-> "release", coin |-> o.coin, dest |-> outputScriptFor(knows.payout), fee |-> o.releaseFee]
  OBVIOUS
<1>3. /\ knows.payout # NoAddress /\ o.state = "funded" /\ o.coin # "none" /\ o.releaseFee # NoFee
      /\ o.releaseFee = settlementFeeSat("release", outputScriptFor(knows.payout), knows.rate)
      /\ CanBuild(t) /\ Send("sponsor", "presig", t, {})
      /\ UNCHANGED <<order, meta, view, box, knows, outbox, chain, looked, market, krw, up, mistakes>>
  BY <1>1, <1>2 DEF buildPresignature
<1>4. o \in Orders /\ Older(o) /\ knows \in Records /\ meta \in Metas /\ order \in Orders
  BY <1>1 DEF IInv, Typed, Versions, Parties
<1>5. o.coin = "funding" /\ o.sponsorKey = "S" /\ o.releaseFee = order.releaseFee /\ order.state # "listed"
  BY <1>3, <1>4 DEF Older, Orders
<1>6. knows.payout = meta.payout /\ knows.rate = meta.rate
  BY <1>3 DEF IInv, Remembered
<1>7. t \in Txs /\ t.fee >= 0 /\ t.leaf = "release" /\ t.coin = "funding" /\ t.dest = outputScriptFor(meta.payout)
      /\ t.fee = settlementFeeSat("release", t.dest, meta.rate)
  <2>1. knows.payout \in Addresses \cup {NoAddress}
    BY <1>4 DEF Records, EscrowAssumption
  <2>2. outputScriptFor(knows.payout) \in Dests
    BY <2>1, ScriptsAreDests
  <2>3. o.releaseFee \in Nat
    BY <1>3, <1>4 DEF Orders, FeeOrNone
  <2> QED
    BY <1>2, <1>3, <1>5, <1>6, <2>2, <2>3 DEF Txs, Leaves
<1>8. PICK sig : sig = signSettlement("S", t)
  OBVIOUS
<1>9. sig.key = "S" /\ sig.tx = t
  BY <1>8 DEF signSettlement
<1>10. HersIsRight(sig)' /\ HisIsRight(sig)'
  BY <1>3, <1>7, <1>9 DEF HersIsRight, HisIsRight
<1>11. KeyOf("sponsor", view["sponsor"]) = "S"
  BY <1>1, <1>5 DEF KeyOf
<1>12. "sponsor" \in Parties /\ "presig" \in Purposes \cup {"presig"} /\ t.leaf \in Leaves
  BY <1>7 DEF Parties, Leaves
<1> QED
  BY <1>1, <1>3, <1>5, <1>7, <1>8, <1>10, <1>11, <1>12, SendStep

\* What comes back to the customer goes where she asked for it, or to her key of the order.
LEMMA BackIsHers ==
  ASSUME IInv, NEW refund \in Compared, NEW t, t.dest = [own |-> t.dest.own, kind |-> t.dest.kind],
         refundDestination(refund, outputAddressOf(t))
  PROVE  t.dest \in {outputScriptFor(refundDestinationFor(meta)), outputScriptFor(derived)}
<1>1. CASE outputAddressOf(t) = derived
  BY <1>1 DEF outputAddressOf, outputScriptFor, derived
<1>2. CASE refund # NoAddress /\ outputAddressOf(t) = refund
  <2>1. refund = meta.refund
    BY <1>2 DEF Compared, IInv, Remembered
  <2> QED
    BY <1>2, <2>1 DEF outputAddressOf, outputScriptFor, refundDestinationFor
<1> QED
  BY <1>1, <1>2 DEF refundDestination

LEMMA SignStep ==
  ASSUME EscrowAssumption, IInv, NEW p \in Parties, NEW purpose \in Purposes, sign(p, purpose)
  PROVE  IInv'
<1>1. PICK o, psbt : o = view[p] /\ psbt = box[p][purpose]
  OBVIOUS
<1>2. PICK refund \in Compared : checkSignRequest(p, o, purpose, psbt, refund)
  BY <1>1 DEF sign
<1>3. PICK t : t = Rebuilt(o, purpose, psbt)
  OBVIOUS
<1>4. /\ checkEscrowAddress(p, o) /\ Fits(p, o, purpose) /\ PaysRight(purpose, psbt, refund)
      /\ (IF purpose = "rescue" THEN t.coin \in AtEscrow ELSE o.coin # "none") /\ Sane(t)
      /\ CanBuild(t) /\ psbt.tx = t /\ (purpose = "release" => verifyPresignature(psbt, t, o.sponsorKey))
  BY <1>2, <1>3 DEF checkSignRequest
<1>5. /\ canActOnSignRequest(o, purpose) /\ KeyOf(p, o) \in leafSigners(t.leaf, o.sponsorKey)
      /\ Send(p, purpose, t, IF purpose = "release" THEN {signSettlement(o.sponsorKey, t)} ELSE {})
      /\ UNCHANGED <<order, meta, view, box, knows, outbox, chain, looked, market, krw, up, mistakes>>
  BY <1>1, <1>3 DEF sign
<1>6. /\ o \in Orders /\ Older(o) /\ psbt \in Psbts /\ knows \in Records /\ meta \in Metas /\ psbt.sigs \subseteq sigs
  BY <1>1 DEF IInv, Typed, Versions, Papers
<1>7. /\ (purpose # "rescue" => o.coin = "funding") /\ o.sponsorKey = "S" /\ KeyOf(p, o) = (IF p = "customer" THEN "C" ELSE "S")
      /\ order.state # "listed"
  BY <1>4, <1>6 DEF Orders, Older, checkEscrowAddress
<1>8. /\ t \in Txs /\ t.fee >= 0 /\ t.leaf \in Leaves /\ t.coin \in AtEscrow
      /\ (purpose # "rescue" => t.coin = "funding")
  <2>1. t \in Txs
    BY <1>4, <1>6 DEF Psbts
  <2>2. t.fee >= 0
    BY <1>4 DEF CanBuild
  <2>3. t.leaf \in {"release", "sponsor-win", "customer-win"} /\ (purpose # "rescue" => t.coin = "funding")
    BY <1>3, <1>7 DEF Rebuilt
  <2>4. t.coin \in AtEscrow
    BY <1>4, <2>3 DEF AtEscrow
  <2> QED
    BY <2>1, <2>2, <2>3, <2>4 DEF Leaves
<1>9. PICK sig, more : sig = signSettlement(KeyOf(p, o), t)
                       /\ more = IF purpose = "release" THEN {signSettlement(o.sponsorKey, t)} ELSE {}
  OBVIOUS
<1>10. sig.key = (IF p = "customer" THEN "C" ELSE "S") /\ sig.tx = t
  BY <1>7, <1>9 DEF signSettlement
<1>11. more \subseteq sigs
  BY <1>4, <1>6, <1>9 DEF verifyPresignature
<1>12. CASE purpose = "release"
  <2>1. p = "customer" /\ t.leaf = "release" /\ t.fee = order.releaseFee
    BY <1>3, <1>4, <1>6, <1>12 DEF Fits, Rebuilt, Older
  <2>2. signSettlement("S", t) \in sigs
    BY <1>4, <1>6, <1>7, <1>12 DEF verifyPresignature
  <2>3. t.dest = outputScriptFor(meta.payout)
    <3>1. HisIsRight(signSettlement("S", t))
      BY <2>2, OnlyOwn DEF IInv, Signed
    <3> QED
      BY <3>1 DEF HisIsRight, signSettlement
  <2>4. signSettlement("S", t) \in sigs' /\ order.sponsorKey = "S"
    BY <1>5, <2>2, <1>4, <1>6 DEF Send, IInv, Stages, Older, checkEscrowAddress
  <2>5. HersIsRight(sig)' /\ HisIsRight(sig)'
    BY <1>5, <1>10, <2>1, <2>3, <2>4 DEF HersIsRight, HisIsRight
  <2> QED
    BY <1>1, <1>5, <1>7, <1>8, <1>9, <1>11, <1>12, <2>5, SendStep
<1>13. CASE purpose = "dispute-sponsor"
  <2>1. p = "sponsor" /\ t.leaf = "sponsor-win" /\ t.fee = order.settleFee
    BY <1>3, <1>4, <1>6, <1>13 DEF Fits, Rebuilt, Older
  <2>2. knows.payout = meta.payout /\ outputAddressOf(t) = knows.payout
    BY <1>4, <1>13 DEF PaysRight, IInv, Remembered
  <2>3. t.dest = outputScriptFor(meta.payout)
    <3>1. t.dest = [own |-> t.dest.own, kind |-> t.dest.kind]
      BY <1>8 DEF Txs, Dests
    <3> QED
      BY <2>2, <3>1 DEF outputAddressOf, outputScriptFor
  <2>4. HersIsRight(sig)' /\ HisIsRight(sig)'
    BY <1>5, <1>8, <1>10, <1>13, <2>1, <2>3 DEF HersIsRight, HisIsRight
  <2> QED
    BY <1>1, <1>5, <1>7, <1>8, <1>9, <1>11, <1>13, <2>4, SendStep
<1>14. CASE purpose \in {"refund", "dispute-customer"}
  <2>0. purpose = "refund" \/ purpose = "dispute-customer"
    BY <1>14
  <2>1. p = "customer" /\ t.leaf = "customer-win" /\ t.fee = order.settleFee
    <3>1. p = "customer" /\ o.settleFee # NoFee
      BY <1>4, <2>0 DEF Fits
    <3>2. t.leaf = "customer-win" /\ t.fee = o.settleFee
      BY <1>3, <2>0 DEF Rebuilt
    <3> QED
      BY <1>6, <3>1, <3>2 DEF Older
  <2>2. refundDestination(refund, outputAddressOf(t))
    BY <1>4, <1>14 DEF PaysRight
  <2>3. t.dest = [own |-> t.dest.own, kind |-> t.dest.kind]
    BY <1>8 DEF Txs, Dests
  <2>4. t.dest \in {outputScriptFor(refundDestinationFor(meta)), outputScriptFor(derived)}
    BY <2>2, <2>3, BackIsHers
  <2>5. HersIsRight(sig)' /\ HisIsRight(sig)'
    BY <1>4, <1>5, <1>8, <1>10, <2>1, <2>4 DEF HersIsRight, HisIsRight, refundDestinationFor
  <2> QED
    BY <1>1, <1>5, <1>7, <1>8, <1>9, <1>11, <1>14, <2>0, <2>1, <2>5, SendStep
<1>15. CASE purpose = "rescue"
  <2>1. t.leaf = "customer-win"
    BY <1>3, <1>15 DEF Rebuilt
  <2>2. p = "customer"
    BY <1>5, <1>7, <2>1 DEF leafSigners, Parties
  <2>3. refundDestination(refund, outputAddressOf(t))
    BY <1>4, <1>15 DEF PaysRight
  <2>4. t.dest = [own |-> t.dest.own, kind |-> t.dest.kind]
    BY <1>8 DEF Txs, Dests
  <2>5. t.dest \in {outputScriptFor(refundDestinationFor(meta)), outputScriptFor(derived)}
    BY <2>3, <2>4, BackIsHers
  <2>6. HersIsRight(sig)' /\ HisIsRight(sig)'
    BY <1>4, <1>5, <1>8, <1>10, <2>1, <2>2, <2>5 DEF HersIsRight, HisIsRight, refundDestinationFor
  <2> QED
    BY <1>1, <1>5, <1>7, <1>8, <1>9, <1>11, <1>15, <2>6, SendStep
<1> QED
  BY <1>12, <1>13, <1>14, <1>15 DEF Purposes

LEMMA PresigStep ==
  ASSUME EscrowAssumption, IInv, NEW msg \in mail, ocPresig(msg)
  PROVE  IInv'
<1>1. PICK t : t = settlementParamsFor(order, meta, "release")
  OBVIOUS
<1>2. /\ msg.purpose = "presig" /\ mail' = mail \ {msg}
      /\ UNCHANGED <<view, sigs, knows, outbox, chain, looked, market, krw, up, mistakes>>
      /\ msg.psbt \in Psbts /\ msg.psbt.sigs \subseteq sigs /\ (\A s \in msg.psbt.sigs : s.key = "S")
      /\ meta \in Metas /\ order \in Orders
  BY DEF ocPresig, IInv, Typed, Letters, Papers
<1>3. CASE UNCHANGED <<order, meta, box, held>>
  <2>1. Typed' /\ Papers'
    BY <1>2, <1>3 DEF IInv, Typed, Papers
  <2>2. Stages' /\ Remembered' /\ Versions' /\ Boxes' /\ Ready' /\ Looks'
    BY <1>2, <1>3 DEF IInv, Stages, releaseFeeFor, Remembered, Versions, Older, Boxes, Ready, Looks
  <2>3. Signed'
    BY <1>2, <1>3, SignedGrow DEF IInv
  <2> QED
    BY <2>1, <2>2, <2>3 DEF IInv
<1>4. CASE /\ order.state = "funded" /\ order.kind = NoKind /\ verifyPresignature(msg.psbt, t, order.sponsorKey)
           /\ order' = [order EXCEPT !.state = "presigned"] /\ meta' = [meta EXCEPT !.presig = msg.psbt]
           /\ Ask("customer", "release", msg.psbt)
  <2>1. order' = [state |-> "presigned", kind |-> order.kind, sponsorKey |-> order.sponsorKey, coin |-> order.coin,
                  releaseFee |-> order.releaseFee, settleFee |-> order.settleFee, account |-> order.account]
    BY <1>4, OrderFields
  <2>2. meta' = [refund |-> meta.refund, payout |-> meta.payout, rate |-> meta.rate, presig |-> msg.psbt]
    BY <1>2, <1>4 DEF Metas
  <2>3. order' \in Orders /\ meta' \in Metas
    BY <1>2, <2>1, <2>2 DEF Orders, OrderStates, EarlyStates, Metas
  <2>4. /\ box' \in [Parties -> [Purposes -> Psbts]] /\ held' \in [Parties -> SUBSET Signatures] /\ Papers'
        /\ \A x \in Parties, q \in Purposes :
             box'[x][q] = IF x = "customer" /\ q = "release" THEN msg.psbt ELSE box[x][q]
    <3>1. "customer" \in Parties /\ "release" \in Purposes /\ mail' \subseteq mail /\ meta'.presig = msg.psbt
      BY <1>2, <2>2 DEF Parties, Purposes
    <3> QED
      BY <1>2, <1>4, <3>1, AskStep
  <2>5. Typed'
    BY <1>2, <2>3, <2>4 DEF IInv, Typed
  <2>6. /\ order'.state = "presigned" /\ order'.kind = NoKind /\ order'.sponsorKey = order.sponsorKey
        /\ order'.coin = order.coin /\ order'.releaseFee = order.releaseFee /\ order'.settleFee = order.settleFee
        /\ order'.account = order.account /\ order.state = "funded"
        /\ meta'.refund = meta.refund /\ meta'.payout = meta.payout /\ meta'.rate = meta.rate
        /\ meta'.presig = msg.psbt
    BY <1>4, <2>1, <2>2
  <2>7. OrderGrows
    BY <2>6 DEF OrderGrows
  <2>8. Versions' /\ Signed'
    BY <1>2, <2>6, <2>7, VersionsGrow, SignedGrow DEF IInv
  <2>9. Boxes'
    <3>2. (\A q \in {"dispute-sponsor", "rescue"} : box'["customer"][q] = box["customer"][q])
          /\ \A q \in Purposes : box'["sponsor"][q] = box["sponsor"][q]
      BY <2>4 DEF Purposes, Parties
    <3> QED
      BY <1>2, <3>2 DEF IInv, Boxes
  <2>10. Ready'
    <3>1. settlementParamsFor(order', meta', "release") = t
      BY <1>1, <2>6 DEF settlementParamsFor, destinationFor
    <3>2. order.sponsorKey = "S"
      BY <2>6 DEF IInv, Stages
    <3> QED
      BY <1>4, <2>6, <3>1, <3>2 DEF Ready
  <2>11. Stages'
    <3>1. releaseFeeFor' = releaseFeeFor
      BY <2>6 DEF releaseFeeFor
    <3> QED
      BY <1>2, <2>6, <3>1 DEF IInv, Stages, EarlyStates
  <2>12. Remembered' /\ Looks'
    BY <1>2, <2>6 DEF IInv, Remembered, Looks
  <2> QED
    BY <2>4, <2>5, <2>8, <2>9, <2>10, <2>11, <2>12 DEF IInv
<1> QED
  BY <1>1, <1>3, <1>4 DEF ocPresig

LEMMA CosignStep ==
  ASSUME EscrowAssumption, IInv, NEW msg \in mail, ocCosign(msg)
  PROVE  IInv'
<1>1. PICK kind : kind = IF msg.purpose = "release" THEN "release" ELSE order.kind
  OBVIOUS
<1>2. PICK t : t = settlementParamsFor(order, meta, kind)
  OBVIOUS
<1>3. /\ mail' = mail \ {msg} /\ UNCHANGED <<meta, view, box, held, knows, chain, looked, market, krw, up, mistakes>>
      /\ meta \in Metas /\ order \in Orders /\ msg \in Letters /\ msg.purpose \in Purposes
  BY DEF ocCosign, IInv, Typed, Letters
<1>4. CASE UNCHANGED <<order, outbox, sigs>>
  <2>1. Typed' /\ Papers'
    BY <1>3, <1>4 DEF IInv, Typed, Papers
  <2>2. Stages' /\ Remembered' /\ Versions' /\ Boxes' /\ Ready' /\ Looks'
    BY <1>3, <1>4 DEF IInv, Stages, releaseFeeFor, Remembered, Versions, Older, Boxes, Ready, Looks
  <2>3. Signed'
    BY <1>3, <1>4, SignedGrow DEF IInv
  <2> QED
    BY <2>1, <2>2, <2>3 DEF IInv
<1>5. CASE /\ canActOnSignRequest(order, msg.purpose) /\ kind # NoKind /\ signPurposeFor(kind) = msg.purpose
           /\ verifyPresignature(msg.psbt, t, KeyOf(msg.from, order))
           /\ order' = [order EXCEPT !.state = "settling", !.kind = kind] /\ outbox' = t
           /\ sigs' = IF kind = "release" THEN sigs ELSE sigs \cup {signSettlement("A", t)}
  <2>1. order' = [state |-> "settling", kind |-> kind, sponsorKey |-> order.sponsorKey, coin |-> order.coin,
                  releaseFee |-> order.releaseFee, settleFee |-> order.settleFee, account |-> order.account]
    BY <1>5, OrderFields
  <2>2. /\ order'.state = "settling" /\ order'.kind = kind /\ order'.sponsorKey = order.sponsorKey
        /\ order'.coin = order.coin /\ order'.releaseFee = order.releaseFee /\ order'.settleFee = order.settleFee
        /\ order'.account = order.account
    BY <2>1
  <2>3. order.state \in {"remitted", "disputed", "refunding"}
    <3>1. msg.purpose # "rescue"
      BY <1>5 DEF signPurposeFor
    <3> QED
      BY <1>3, <1>5, <3>1 DEF canActOnSignRequest, Purposes
  <2>4. t \in Txs /\ t.leaf \in {"release", "customer-win", "sponsor-win"} /\ t.fee >= 0
    BY <1>2, <1>3, <1>5, ParamsAreTxs DEF verifyPresignature, CanBuild
  <2>5. PICK sig : sig = signSettlement("A", t)
    OBVIOUS
  <2>6. sig \in Signatures /\ sig.key = "A" /\ sig.tx = t
    BY <2>4, <2>5 DEF signSettlement, Signatures
  <2>7. order' \in Orders
    <3>1. kind \in Kinds
      BY <1>1, <1>3 DEF Orders, Kinds
    <3> QED
      BY <1>3, <2>1, <3>1 DEF Orders, OrderStates
  <2>8. Typed'
    BY <1>3, <1>5, <2>4, <2>5, <2>6, <2>7 DEF IInv, Typed
  <2>9. OrderGrows
    BY <2>2, <2>3 DEF OrderGrows
  <2>10. Papers'
    BY <1>3, <1>5 DEF IInv, Papers
  <2>11. outbox' # NoTx
    BY <1>5, <2>4, NoPsbtIsPsbt
  <2>12. Stages'
    <3>1. releaseFeeFor' = releaseFeeFor
      BY <1>3 DEF releaseFeeFor
    <3>2. order.state # "listed" /\ order.sponsorKey = "S" /\ order.sponsorKey \in ClaimKeys \cup {"none"}
      BY <2>3 DEF IInv, Stages
    <3>3. order.releaseFee # NoFee => order.releaseFee = releaseFeeFor
      BY DEF IInv, Stages
    <3> QED
      BY <1>5, <2>2, <2>4, <2>11, <3>1, <3>2, <3>3 DEF Stages, EarlyStates
  <2>13. Versions' /\ Boxes' /\ Looks' /\ Remembered' /\ Ready'
    <3>1. Versions'
      BY <1>3, <2>9, VersionsGrow DEF IInv
    <3>2. Boxes' /\ Looks' /\ Remembered'
      BY <1>3, <2>2, <2>3 DEF IInv, Boxes, Looks, Remembered
    <3>3. Ready'
      BY <2>2 DEF Ready
    <3> QED
      BY <3>1, <3>2, <3>3
  <2>14. Signed'
    <3>1. CASE kind = "release"
      BY <1>3, <1>5, <2>9, <2>11, <3>1, SignedGrow DEF IInv
    <3>2. CASE kind # "release"
      <4>1. HersIsRight(sig)' /\ HisIsRight(sig)'
        BY <2>6 DEF HersIsRight, HisIsRight
      <4>2. sigs' = sigs \cup {sig} /\ t.leaf \in Leaves
        BY <1>5, <2>4, <2>5, <3>2 DEF Leaves
      <4> QED
        BY <1>3, <2>2, <2>4, <2>6, <2>11, <4>1, <4>2, SignedMore DEF IInv
    <3> QED
      BY <3>1, <3>2
  <2> QED
    BY <2>8, <2>10, <2>12, <2>13, <2>14 DEF IInv
<1> QED
  BY <1>1, <1>2, <1>4, <1>5 DEF ocCosign

LEMMA Inductive ==
  ASSUME EscrowAssumption, IInv, [Next]_vars
  PROVE  IInv'
<1>1. CASE \E a \in Payouts, rate \in ClaimRates, key \in ClaimKeys : ocClaim(a, rate, key)
  BY <1>1, ClaimStep
<1>2. CASE Fund \/ Resend \/ Mistaken \/ buildPresignature \/ Sweep
  BY <1>2, FundStep, ResendStep, MistakenStep, PresignStep, SweepStep
<1>3. CASE Decides
  BY <1>3, DecideStep DEF Decides
<1>4. CASE \E p \in Parties : See(p)
  BY <1>4, SeeStep
<1>5. CASE Signs
  BY <1>5, SignStep DEF Signs
<1>6. CASE Hears
  BY <1>6, PresigStep, CosignStep DEF Hears
<1>7. CASE resolveAccountDispute \/ GiveAccount \/ Remit \/ Dispute \/ Confirm
  BY <1>7, TradeStep
<1>8. CASE PayIn \/ Block \/ buildRefundSweep \/ Market \/ Vanish \/ Look \/ Forget \/ Reenter \/ UNCHANGED vars
  BY <1>8, WorldStep
<1> QED
  BY <1>1, <1>2, <1>3, <1>4, <1>5, <1>6, <1>7, <1>8 DEF Next

\* Everything keeps its type, and whatever a device was sent or has forgotten, a signature of the
\* customer pays the sponsor what was agreed, over his own signature, or pays herself from her
\* escrow below the cap on feerates, one of the sponsor pays him, and what she sends back on a
\* decision takes the funding at the decided fee (verify.ts, actions.ts).
THEOREM EscrowIsSound ==
  ASSUME EscrowAssumption
  PROVE  Spec => [](TypeOK /\ SignsOnlyOwn)
<1>1. Init => IInv
  BY Starts
<1>2. IInv /\ [Next]_vars => IInv'
  BY Inductive
<1>3. IInv => TypeOK
  <2> SUFFICES ASSUME IInv PROVE TypeOK
    OBVIOUS
  <2>1. /\ order.state \in OrderStates /\ order.kind \in Kinds /\ order.coin \in {"none", "funding"}
        /\ order.releaseFee \in FeeOrNone /\ order.settleFee \in FeeOrNone /\ order.account \in -1 .. Timelock
        /\ order.sponsorKey \in ClaimKeys \cup {"none"}
    BY DEF IInv, Typed, Orders, Stages
  <2>2. order.releaseFee >= NoFee /\ order.settleFee >= NoFee
    BY <2>1 DEF FeeOrNone, NoFee
  <2>3. /\ meta.refund \in Refunds /\ meta.payout \in Payouts \cup {NoAddress}
        /\ DOMAIN box = Parties /\ \A p \in Parties : DOMAIN box[p] = Purposes
    BY DEF IInv, Typed, Metas
  <2>4. /\ \A s \in sigs : s.key \in {"C", "S", "A"} /\ s.tx.leaf \in Leaves
        /\ \A p \in Parties : held[p] \subseteq sigs
    BY DEF IInv, Typed, Signatures, Signed, Papers
  <2>5. /\ chain.confs \in -1 .. Timelock /\ looked \in -1 .. Timelock
        /\ market.rate \in Rates /\ market.moves \in 0 .. MaxMoves /\ mistakes \in 0 .. MaxMistakes
        /\ krw \in BOOLEAN /\ up \in BOOLEAN
    BY DEF IInv, Typed
  <2>6. /\ mistakes = 0 => /\ \A q \in {"dispute-sponsor", "rescue"} : box["customer"][q] = NoPsbt
                         /\ \A q \in Purposes \ {"dispute-sponsor"} : box["sponsor"][q] = NoPsbt
        /\ outbox = NoTx \/ outbox.leaf \in {"release", "customer-win", "sponsor-win"}
    BY DEF IInv, Boxes, Stages
  <2> QED
    BY <2>1, <2>2, <2>3, <2>4, <2>5, <2>6 DEF TypeOK, OrderStates, EarlyStates, Kinds
<1>4. IInv => SignsOnlyOwn
  BY DEF IInv, Signed
<1> QED
  BY <1>1, <1>2, <1>3, <1>4, PTL DEF Spec

\* For any terms under which a sponsor is not paid to the customer: before the daemon has finished
\* a settlement nobody can finish one for himself (tx.ts 26-30, keys.ts, flow.ts).
THEOREM NobodyTakesTheEscrowAlone ==
  ASSUME EscrowAssumption, PayoutsAreNotHers
  PROVE  Spec => []NobodyTakesAlone
<1>1. Init => IInv
  BY Starts
<1>2. IInv /\ [Next]_vars => IInv'
  BY Inductive
<1>3. IInv => NobodyTakesAlone
  <2> SUFFICES ASSUME IInv, order.sponsorKey # "none", outbox = NoTx, NEW p \in Parties, TakesAlone(p)
               PROVE  FALSE
    BY DEF NobodyTakesAlone
  <2>1. order.sponsorKey = "S" /\ order.state # "listed" /\ meta.payout \in Payouts
    BY DEF IInv, Typed, Orders, Stages, Remembered
  <2>2. PICK leaf \in Leaves \ {"timelock"} :
           /\ KeyOf(p, order) \in leafSigners(leaf, order.sponsorKey)
           /\ \/ Foreign(p, leaf) = {}
              \/ \E s \in held[p] :
                    /\ s.tx.leaf = leaf /\ s.tx.coin = "funding" /\ s.tx.dest.own \in Mine(p)
                    /\ \A k \in Foreign(p, leaf) : signSettlement(k, s.tx) \in held[p]
    BY DEF TakesAlone
  <2>3. KeyOf(p, order) = IF p = "customer" THEN "C" ELSE "S"
    BY <2>1 DEF KeyOf
  <2>4. leaf \in {"release", "customer-win", "sponsor-win"}
    BY DEF Leaves
  <2>5. leafSigners(leaf, order.sponsorKey) = CASE leaf = "release" -> {"C", "S"}
                                               [] leaf = "customer-win" -> {"A", "C"}
                                               [] leaf = "sponsor-win" -> {"A", "S"}
    BY <2>1, <2>4 DEF leafSigners
  <2>6. Foreign(p, leaf) # {} /\ (leaf # "release" => "A" \in Foreign(p, leaf))
    BY <2>3, <2>4, <2>5 DEF Foreign
  <2>7. PICK s \in held[p] :
           /\ s.tx.leaf = leaf /\ s.tx.coin = "funding" /\ s.tx.dest.own \in Mine(p)
           /\ \A k \in Foreign(p, leaf) : signSettlement(k, s.tx) \in held[p]
    BY <2>2, <2>6
  <2>8. held[p] \subseteq sigs /\ (\A x \in sigs : x.key # "A") /\ \A x \in held["sponsor"] : x.key = "S"
    BY DEF IInv, Papers, Signed
  <2>9. leaf = "release"
    <3>1. ASSUME leaf # "release" PROVE FALSE
      <4>1. signSettlement("A", s.tx) \in sigs
        BY <2>6, <2>7, <2>8, <3>1
      <4> QED
        BY <2>8, <4>1 DEF signSettlement
    <3> QED
      BY <3>1
  <2>10. CASE p = "sponsor"
    <3>1. "C" \in Foreign(p, leaf)
      BY <2>3, <2>5, <2>9, <2>10 DEF Foreign
    <3>2. signSettlement("C", s.tx) \in held["sponsor"]
      BY <2>7, <2>10, <3>1
    <3> QED
      BY <2>8, <3>2 DEF signSettlement
  <2>11. CASE p = "customer"
    <3>1. "S" \in Foreign(p, leaf)
      BY <2>3, <2>5, <2>9, <2>11 DEF Foreign
    <3>2. signSettlement("S", s.tx) \in sigs
      BY <2>7, <2>8, <3>1
    <3>3. HisIsRight(signSettlement("S", s.tx))
      BY <3>2, OnlyOwn DEF IInv, Signed
    <3>4. s.tx.dest = outputScriptFor(meta.payout)
      BY <3>3 DEF HisIsRight, signSettlement
    <3>5. meta.payout.own \in {"wallet", "orderkey"}
      BY <2>7, <2>11, <3>4 DEF outputScriptFor, Mine
    <3> QED
      BY <2>1, <3>5 DEF PayoutsAreNotHers
  <2> QED
    BY <2>10, <2>11 DEF Parties
<1> QED
  BY <1>1, <1>2, <1>3, PTL DEF Spec

\* For any terms whose feerate is below the cap of the apps: once KRW was sent the stored
\* presignature fits the release, and the customer's app accepts it (handlers.ts, verify.ts).
THEOREM ReleaseIsReady ==
  ASSUME EscrowAssumption, ClaimRatesAreSane
  PROVE  Spec => []ReleaseStaysReady
<1>1. Init => IInv
  BY Starts
<1>2. IInv /\ [Next]_vars => IInv'
  BY Inductive
<1>3. IInv => ReleaseStaysReady
  <2> SUFFICES ASSUME IInv, order.state \in {"remitted", "disputed"}
               PROVE  /\ verifyPresignature(meta.presig, settlementParamsFor(order, meta, "release"), order.sponsorKey)
                      /\ checkSignRequest("customer", order, "release", meta.presig, NoAddress)
    BY DEF ReleaseStaysReady
  <2>1. PICK t : t = settlementParamsFor(order, meta, "release")
    OBVIOUS
  <2>2. order.sponsorKey = "S" /\ order.coin = "funding" /\ order.releaseFee # NoFee /\ order.releaseFee = releaseFeeFor
    BY DEF IInv, Stages
  <2>3. verifyPresignature(meta.presig, t, "S")
    BY <2>1 DEF IInv, Ready
  <2>4. meta.presig.tx = t /\ CanBuild(t)
    BY <2>3 DEF verifyPresignature
  <2>5. t.leaf = "release" /\ t.dest = outputScriptFor(meta.payout) /\ t.fee = order.releaseFee
        /\ t = [leaf |-> "release", coin |-> order.coin, dest |-> t.dest, fee |-> order.releaseFee]
    BY <2>1 DEF settlementParamsFor, settlementLeafFor, destinationFor
  <2>6. Rebuilt(order, "release", meta.presig) = t
    BY <2>4, <2>5 DEF Rebuilt
  <2>7. meta.presig # NoPsbt
    BY <2>4, <2>5, NoPsbtIsPsbt DEF NoPsbt
  <2>8. checkEscrowAddress("customer", order) /\ Fits("customer", order, "release")
        /\ PaysRight("release", meta.presig, NoAddress)
    BY <2>2, ThreeKeys DEF checkEscrowAddress, KeyOf, Fits, PaysRight
  <2>9. Sane(t)
    <3>1. MaxSane \in Nat /\ meta.rate \in Nat /\ meta.rate <= MaxSane
      BY DEF IInv, Typed, Metas, Remembered, ClaimRatesAreSane, EscrowAssumption
    <3>2. t.fee = settlementFeeSat("release", t.dest, meta.rate)
      BY <2>2, <2>5 DEF releaseFeeFor
    <3>3. t.fee <= MaxSane * estimateSettlementVsize("release", t.dest)
      BY <3>1, <3>2, FeeIsSane
    <3> QED
      BY <2>5, <3>3 DEF Sane
  <2>10. checkSignRequest("customer", order, "release", meta.presig, NoAddress)
    BY <2>2, <2>3, <2>4, <2>6, <2>7, <2>8, <2>9 DEF checkSignRequest
  <2> QED
    BY <2>1, <2>2, <2>3, <2>10
<1> QED
  BY <1>1, <1>2, <1>3, PTL DEF Spec

\* One settlement is finished and stays the one, and KRW leaves only while the timelock is far
\* (canActOnSignRequest; RemitPanel.tsx, timelockStatus).
THEOREM FinishedAndRemitted ==
  ASSUME EscrowAssumption
  PROVE  Spec => [][FinishedOnce /\ RemitKeepsDistance]_vars
<1>1. Init => IInv
  BY Starts
<1>2. IInv /\ [Next]_vars => IInv'
  BY Inductive
<1>3. IInv /\ [Next]_vars => [FinishedOnce /\ RemitKeepsDistance]_vars
  <2> SUFFICES ASSUME IInv, [Next]_vars
               PROVE  FinishedOnce /\ RemitKeepsDistance
    OBVIOUS
  <2>1. ASSUME NEW msg \in mail, ocCosign(msg), outbox # NoTx
        PROVE  outbox' = outbox
    <3>1. order.state \in {"settling", "over"}
      BY <2>1 DEF IInv, Stages
    <3>2. msg.purpose \in Purposes
      BY <2>1 DEF ocCosign, IInv, Typed, Letters
    <3>3. msg.purpose = "rescue" \/ ~canActOnSignRequest(order, msg.purpose)
      BY <3>1, <3>2 DEF canActOnSignRequest, Purposes
    <3>4. \A kind : signPurposeFor(kind) # "rescue"
      BY DEF signPurposeFor
    <3> QED
      BY <2>1, <3>3, <3>4 DEF ocCosign
  <2>2. outbox' = outbox \/ \E msg \in mail : ocCosign(msg)
    BY DEF Next, ocClaim, PayIn, Fund, Decides, decideSettlement, resolveAccountDispute, Resend, See, buildPresignature,
           Forget, Reenter, Signs, sign, Mistaken, GiveAccount, Look, Remit, Dispute, Hears, ocPresig,
           Block, Confirm, Sweep, buildRefundSweep, Market, Vanish, vars
  <2>3. krw' = krw \/ Remit
    BY DEF Next, ocClaim, PayIn, Fund, Decides, decideSettlement, resolveAccountDispute, Resend, See, buildPresignature,
           Forget, Reenter, Signs, sign, Mistaken, GiveAccount, Look, Dispute, Hears, ocPresig, ocCosign,
           Block, Confirm, Sweep, buildRefundSweep, Market, Vanish, vars
  <2>4. ASSUME Remit PROVE Timelock - chain.confs >= Distance - KrwBlocks
    <3>1. /\ looked # Unseen /\ Timelock - looked >= Distance /\ view["sponsor"].account # Unseen
          /\ chain.confs - view["sponsor"].account <= KrwBlocks
      BY <2>4 DEF Remit, timelockStatus
    <3>2. looked >= view["sponsor"].account
      BY <3>1 DEF IInv, Looks
    <3>3. looked \in Int /\ view["sponsor"].account \in Int /\ chain.confs \in Int
      BY DEF IInv, Typed, Orders, Parties
    <3> QED
      BY <3>1, <3>2, <3>3 DEF EscrowAssumption
  <2> QED
    BY <2>1, <2>2, <2>3, <2>4 DEF FinishedOnce, RemitKeepsDistance
<1> QED
  BY <1>1, <1>2, <1>3, PTL DEF Spec

-----------------------------------------------------------------------------
(* What was decided can be signed. *)

SettlementOf(o, m) == settlementParamsFor(o, m, o.kind)
Signable(t) == CanBuild(t) /\ t.fee <= MaxSane * estimateSettlementVsize(t.leaf, t.dest)
Pending(o) == o.state \in {"refunding", "disputed"} /\ o.kind # NoKind
Decided == Pending(order) => Signable(SettlementOf(order, meta))

LEMMA DecisionIsSignable ==
  ASSUME EscrowAssumption, RatesAreSane, IInv, NEW kind \in RefundKinds \cup {"sponsor_win", "customer_win"},
         decideSettlement(kind)
  PROVE  Decided'
<1> DEFINE coin == [order EXCEPT !.coin = "funding", !.kind = kind]
           tx == settlementParamsFor(coin, meta, kind)
           fee == settlementFeeSat(tx.leaf, tx.dest, settleRate(kind))
<1>1. settleRate(kind) \in Nat /\ settleRate(kind) <= MaxSane /\ MaxSane \in Nat
  BY DEF settleRate, IInv, Typed, Metas, EscrowAssumption, Remembered, RatesAreSane, ClaimRatesAreSane
<1>2. fee \in Nat
  BY <1>1, FeeIsNat
<1>3. /\ CanBuild([tx EXCEPT !.fee = fee]) /\ meta' = meta
      /\ order' = [coin EXCEPT !.settleFee = fee, !.state = IF kind \in RefundKinds THEN "refunding" ELSE @]
  BY DEF decideSettlement
<1>4. tx = [leaf |-> settlementLeafFor(kind), coin |-> coin.coin,
            dest |-> outputScriptFor(destinationFor(meta, kind)), fee |-> coin.settleFee]
  BY DEF settlementParamsFor, RefundKinds
<1>5. [tx EXCEPT !.fee = fee] = [leaf |-> tx.leaf, coin |-> coin.coin, dest |-> tx.dest, fee |-> fee]
  BY <1>4
<1>6. order'.kind = kind /\ order'.settleFee = fee /\ order'.coin = coin.coin
  <2>1. coin = [state |-> order.state, kind |-> kind, sponsorKey |-> order.sponsorKey, coin |-> "funding",
                releaseFee |-> order.releaseFee, settleFee |-> order.settleFee, account |-> order.account]
    <3>1. [order EXCEPT !.coin = "funding"] = [state |-> order.state, kind |-> order.kind,
            sponsorKey |-> order.sponsorKey, coin |-> "funding", releaseFee |-> order.releaseFee,
            settleFee |-> order.settleFee, account |-> order.account]
      BY OrderFields
    <3>2. coin = [[order EXCEPT !.coin = "funding"] EXCEPT !.kind = kind]
      OBVIOUS
    <3> HIDE DEF coin
    <3> QED
      BY <3>1, <3>2
  <2> HIDE DEF coin, fee
  <2> QED
    BY <1>3, <2>1
<1> HIDE DEF coin, fee
<1>7. settlementParamsFor(order', meta', kind) = [tx EXCEPT !.fee = fee]
  BY <1>3, <1>4, <1>5, <1>6 DEF settlementParamsFor, RefundKinds
<1>8. fee <= MaxSane * estimateSettlementVsize(tx.leaf, tx.dest)
  BY <1>1, FeeIsSane DEF fee
<1>9. PICK t : t = [tx EXCEPT !.fee = fee]
  OBVIOUS
<1>10. Signable(t)
  BY <1>3, <1>5, <1>8, <1>9 DEF Signable
<1>11. SettlementOf(order', meta') = t
  BY <1>6, <1>7, <1>9 DEF SettlementOf
<1> QED
  BY <1>10, <1>11 DEF Decided

LEMMA DecidedStays ==
  ASSUME EscrowAssumption, RatesAreSane, IInv, Decided, [Next]_vars
  PROVE  Decided'
<1>1. CASE Decides
  BY <1>1, DecisionIsSignable DEF Decides
<1>2. CASE order' = order /\ meta' = meta
  BY <1>2 DEF Decided
<1>3. CASE resolveAccountDispute
  <2>1. /\ order' = [order EXCEPT !.kind = "refund:customer-late"] /\ order.kind = "refund:account-disputed" /\ meta' = meta
    BY <1>3 DEF resolveAccountDispute
  <2>2. /\ order'.kind = "refund:customer-late" /\ order'.state = order.state /\ order'.coin = order.coin
        /\ order'.settleFee = order.settleFee
    BY <2>1, OrderFields
  <2>3. SettlementOf(order', meta') = SettlementOf(order, meta)
    BY <2>1, <2>2 DEF SettlementOf, settlementParamsFor, settlementLeafFor, destinationFor, refundDestinationFor
  <2> QED
    BY <2>1, <2>2, <2>3 DEF Decided, Pending, NoKind
<1>4. CASE Dispute
  <2>1. order' = [order EXCEPT !.state = "disputed"] /\ order.kind = NoKind
    BY <1>4 DEF Dispute, IInv, Stages, EarlyStates
  <2>2. order'.kind = NoKind
    BY <2>1, OrderFields
  <2> QED
    BY <2>2 DEF Decided, Pending
<1>5. CASE GiveAccount \/ Remit
  <2>1. order'.state \in {"presigned", "remitted"}
    BY <1>5, OrderFields DEF GiveAccount, Remit
  <2> QED
    BY <2>1 DEF Decided, Pending
<1>6. CASE Fund
  <2>1. order' = [order EXCEPT !.state = "funded", !.coin = "funding", !.releaseFee = releaseFeeFor] /\ order \in Orders
    BY <1>6 DEF Fund, IInv, Typed
  <2>2. order'.state = "funded"
    BY <2>1 DEF Orders
  <2> QED
    BY <2>2 DEF Decided, Pending
<1>7. CASE \E a \in Payouts, rate \in ClaimRates, key \in ClaimKeys : ocClaim(a, rate, key)
  <2>1. \E key : order' = [order EXCEPT !.state = "bonded", !.sponsorKey = key]
    BY <1>7 DEF ocClaim
  <2>2. order'.state = "bonded"
    BY <2>1, OrderFields
  <2> QED
    BY <2>2 DEF Decided, Pending
<1>8. CASE Hears
  <2>1. PICK msg \in mail : ocPresig(msg) \/ ocCosign(msg)
    BY <1>8 DEF Hears
  <2>2. \/ order' = order /\ meta' = meta
        \/ order' = [order EXCEPT !.state = "presigned"]
        \/ \E kind : order' = [order EXCEPT !.state = "settling", !.kind = kind]
    BY <2>1 DEF ocPresig, ocCosign
  <2>3. (order' = order /\ meta' = meta) \/ order'.state \in {"presigned", "settling"}
    BY <2>2, OrderFields
  <2> QED
    BY <1>2, <2>3 DEF Decided, Pending
<1>9. CASE Confirm \/ Sweep
  <2>1. order' = order \/ order' = [order EXCEPT !.state = "over"]
    BY <1>9, OrderFields DEF Confirm, Sweep
  <2>2. (order' = order \/ order'.state = "over") /\ meta' = meta
    BY <1>9, <2>1, OrderFields DEF Confirm, Sweep
  <2> QED
    BY <1>2, <2>2 DEF Decided, Pending
<1>10. (order' = order /\ meta' = meta) \/ Decides \/ resolveAccountDispute \/ Dispute \/ GiveAccount \/ Remit \/ Fund
       \/ (\E a \in Payouts, rate \in ClaimRates, key \in ClaimKeys : ocClaim(a, rate, key)) \/ Hears \/ Confirm \/ Sweep
  BY DEF Next, PayIn, Resend, See, buildPresignature, Forget, Reenter, Signs, sign, Mistaken, Look,
         Block, buildRefundSweep, Market, Vanish, vars
<1> QED
  BY <1>1, <1>2, <1>3, <1>4, <1>5, <1>6, <1>7, <1>8, <1>9, <1>10

\* With addresses in small letters and a market below the cap, what was decided can be signed by
\* the party it is asked of, whatever the market did and whatever that device has forgotten
\* (verify.ts, refundDestination; flow.ts, decideSettlement).
THEOREM DecisionsCanBeSigned ==
  ASSUME EscrowAssumption, AddressesArePlain, RatesAreSane
  PROVE  Spec => []DecidedIsSignable
<1>1. Init => IInv /\ Decided
  <2>1. Init => IInv
    BY Starts
  <2>2. Init => Decided
    BY DEF Init, Decided, Pending
  <2> QED
    BY <2>1, <2>2
<1>2. IInv /\ Decided /\ [Next]_vars => IInv' /\ Decided'
  BY Inductive, DecidedStays
<1>3. IInv /\ Decided => DecidedIsSignable
  <2> SUFFICES ASSUME IInv, Decided, order.state \in {"refunding", "disputed"}, order.kind # NoKind, knows.payout = meta.payout
               PROVE  checkSignRequest(awaitingSignerFor(order.kind), order, signPurposeFor(order.kind), Genuine, meta.refund)
                      /\ meta.refund \in Compared
    BY DEF DecidedIsSignable
  <2>1. PICK t, p, purpose : t = SettlementOf(order, meta) /\ p = awaitingSignerFor(order.kind)
                             /\ purpose = signPurposeFor(order.kind)
    OBVIOUS
  <2>2. /\ order.sponsorKey = "S" /\ order.coin = "funding" /\ order.settleFee # NoFee
        /\ order.kind \in {"sponsor_win", "customer_win"} \cup RefundKinds
        /\ (order.state = "refunding" => order.kind \in RefundKinds)
        /\ (order.state = "disputed" => order.kind \in {"sponsor_win", "customer_win"})
        /\ meta.payout \in Payouts /\ meta.refund \in Refunds
    BY DEF IInv, Typed, Metas, Stages, Remembered
  <2>3. Signable(t)
    BY <2>1 DEF Decided, Pending
  <2>4. t = [leaf |-> settlementLeafFor(order.kind), coin |-> order.coin,
             dest |-> outputScriptFor(destinationFor(meta, order.kind)), fee |-> order.settleFee]
    BY <2>1, <2>2 DEF SettlementOf, settlementParamsFor, RefundKinds
  <2>5. Genuine = [tx |-> t, sigs |-> {}] /\ Genuine.tx = t
    BY <2>1 DEF Genuine, SettlementOf
  <2>6. t.leaf # "none"
    BY <2>4 DEF settlementLeafFor
  <2>7. Genuine # NoPsbt
    BY <2>5, <2>6, NoPsbtIsPsbt DEF NoPsbt
  <2>8. Rebuilt(order, purpose, Genuine) = t /\ purpose \notin {"release", "rescue"}
    <3>1. purpose \in {"dispute-sponsor", "dispute-customer", "refund"}
          /\ (purpose = "dispute-sponsor" <=> order.kind = "sponsor_win")
      BY <2>1, <2>2 DEF signPurposeFor, RefundKinds
    <3>2. settlementLeafFor(order.kind) = IF order.kind = "sponsor_win" THEN "sponsor-win" ELSE "customer-win"
      BY <2>2 DEF settlementLeafFor, RefundKinds
    <3>3. t.dest = outputScriptFor(destinationFor(meta, order.kind))
      BY <2>4
    <3>4. Rebuilt(order, purpose, Genuine)
             = [leaf |-> IF purpose = "dispute-sponsor" THEN "sponsor-win" ELSE "customer-win",
                coin |-> order.coin, dest |-> t.dest, fee |-> order.settleFee]
      BY <2>5, <3>1 DEF Rebuilt
    <3> QED
      BY <2>4, <3>1, <3>2, <3>3, <3>4
  <2>9. checkEscrowAddress(p, order)
    BY <2>1, <2>2, ThreeKeys DEF checkEscrowAddress, KeyOf, awaitingSignerFor
  <2>10. Fits(p, order, purpose)
    <3>1. CASE order.kind = "sponsor_win"
      BY <2>1, <2>2, <3>1 DEF Fits, awaitingSignerFor, signPurposeFor
    <3>2. CASE order.kind = "customer_win"
      BY <2>1, <2>2, <3>2 DEF Fits, awaitingSignerFor, signPurposeFor
    <3>3. CASE order.kind \in RefundKinds
      <4>1. order.state = "refunding" /\ purpose = "refund" /\ p = "customer"
        BY <2>1, <2>2, <3>3 DEF awaitingSignerFor, signPurposeFor, RefundKinds
      <4> QED
        BY <2>2, <4>1 DEF Fits
    <3> QED
      BY <2>2, <3>1, <3>2, <3>3
  <2>11. PaysRight(purpose, Genuine, meta.refund)
    <3>1. CASE order.kind = "sponsor_win"
      <4>1. purpose = "dispute-sponsor" /\ t.dest = outputScriptFor(meta.payout)
        BY <2>1, <2>4, <3>1 DEF signPurposeFor, destinationFor
      <4>2. meta.payout \in Addresses /\ meta.payout # NoAddress
        BY <2>2 DEF EscrowAssumption, Addresses, NoAddress
      <4>3. meta.payout.written = "small"
        BY <2>2, <4>2 DEF AddressesArePlain
      <4>4. outputAddressOf(t) = meta.payout
        BY <4>1, <4>2, <4>3 DEF outputAddressOf, outputScriptFor, Addresses
      <4> QED
        BY <2>5, <4>1, <4>2, <4>4 DEF PaysRight
    <3>2. CASE order.kind # "sponsor_win"
      <4>1. purpose \in {"refund", "dispute-customer"} /\ t.dest = outputScriptFor(refundDestinationFor(meta))
        BY <2>1, <2>2, <2>4, <3>2 DEF signPurposeFor, destinationFor, RefundKinds
      <4>2. CASE meta.refund = NoAddress
        BY <2>5, <4>1, <4>2 DEF PaysRight, refundDestination, refundDestinationFor, outputAddressOf, outputScriptFor, derived
      <4>3. CASE meta.refund # NoAddress
        <5>1. meta.refund \in Addresses /\ meta.refund.written = "small"
          BY <2>2, <4>3 DEF EscrowAssumption, AddressesArePlain
        <5>2. outputAddressOf(t) = meta.refund
          BY <4>1, <4>3, <5>1 DEF outputAddressOf, outputScriptFor, Addresses, refundDestinationFor
        <5> QED
          BY <2>5, <4>1, <4>3, <5>2 DEF PaysRight, refundDestination
      <4> QED
        BY <4>2, <4>3
    <3> QED
      BY <3>1, <3>2
  <2>12. checkSignRequest(p, order, purpose, Genuine, meta.refund)
    BY <2>2, <2>3, <2>5, <2>7, <2>8, <2>9, <2>10, <2>11 DEF checkSignRequest, Sane, Signable
  <2>13. meta.refund \in Compared
    BY DEF Compared, IInv, Remembered
  <2> QED
    BY <2>1, <2>12, <2>13
<1> QED
  BY <1>1, <1>2, <1>3, PTL DEF Spec

-----------------------------------------------------------------------------
(* OcRescue. *)

\* An output a rescue took is gone for good, and the trade rests on a right one.
TakenIsGone == \A c \in Re!Coins : taken[c] # Re!NoFee => coins[c] = "rescued"
PinnedIsRight == /\ trade.state \in {"funded", "remitted"} => trade.pinned \in Right \ Wrong
                 /\ trade.state = "bonded" => trade.pinned = Re!Nowhere

\* A careful operator has asked for a right output only when the trade was over.
AskedIsStray == \A c \in Re!Coins : rescues[c].fee # Re!NoFee => c \in Wrong \/ trade.state = "over"
BookedIsAsked == \A c \in Re!Coins : rescues[c].raw # Re!NoFee => rescues[c].fee # Re!NoFee

\* With a patient operator a broadcast is of the transaction on record, and what took the
\* output is on record as sent.
OneAtATime == /\ \A e \in queue : rescues[e.coin].raw = e.fee
              /\ \A c \in Re!Coins : taken[c] # Re!NoFee \/ rescues[c].sent # Re!NoFee
                                    => rescues[c].sent = taken[c] /\ rescues[c].raw = taken[c]

Rescued == /\ Re!TypeOK /\ TakenIsGone /\ PinnedIsRight
           /\ Re!SentHasLeft /\ Re!FinishedIsAsked
           /\ Wary => AskedIsStray
           /\ Patient => OneAtATime
           /\ ~SameSecond => Re!EachIsAskedFor

\* The output that is judged the funding is one with the agreed amount.
LEMMA OneRight ==
  ASSUME NEW found \in SUBSET Re!Coins, Re!judgeFunding(found) = "funded", NEW c \in found
  PROVE  c \in Right \ Wrong
BY DEF Re!judgeFunding, Re!Coins

LEMMA RescueStarts ==
  ASSUME Re!RescueAssumption, Re!Init
  PROVE  Rescued
<1>1. Re!TypeOK
  <2>1. Re!NoFee \in Fees \cup {Re!NoFee} /\ 0 \in 0..MaxReorgs
    BY DEF Re!RescueAssumption
  <2> QED
    BY <2>1 DEF Re!Init, Re!TypeOK, Re!NoRescue, Re!NoFacts, Re!States
<1>2. TakenIsGone /\ PinnedIsRight /\ Re!SentHasLeft /\ Re!FinishedIsAsked /\ AskedIsStray /\ OneAtATime /\ Re!EachIsAskedFor
  BY DEF Re!Init, Re!NoRescue, Re!NoFee, TakenIsGone, PinnedIsRight, Re!SentHasLeft, Re!FinishedIsAsked, AskedIsStray,
         OneAtATime, Re!EachIsAskedFor
<1> QED
  BY <1>1, <1>2 DEF Rescued

\* What the Re!chain does of itself takes nothing for a rescue.
LEMMA ChainMoves ==
  ASSUME Re!RescueAssumption, Rescued, NEW c \in Re!Coins, Re!Pay(c) \/ Re!Mine(c) \/ Re!Reorg(c)
  PROVE  Rescued'
<1>1. PICK to \in {"mempool", "confirmed"} : /\ coins[c] \in {"away", "mempool", "confirmed"}
                                            /\ coins' = [coins EXCEPT ![c] = to]
                                            /\ UNCHANGED <<trade, taken, facts, Re!ledger, Re!mail>>
  BY DEF Re!Pay, Re!Mine, Re!Reorg, Re!Move
<1>2. reorgs' = reorgs \/ (reorgs < MaxReorgs /\ reorgs' = reorgs + 1)
  BY DEF Re!Pay, Re!Mine, Re!Reorg
<1>3. reorgs' \in 0..MaxReorgs
  BY <1>2 DEF Rescued, Re!TypeOK, Re!RescueAssumption
<1>4. \A x \in Re!Coins : coins[x] = "rescued" => coins'[x] = "rescued"
  BY <1>1 DEF Rescued, Re!TypeOK
<1>5. Re!TypeOK'
  BY <1>1, <1>3 DEF Rescued, Re!TypeOK, Re!ledger, Re!mail
<1>6. TakenIsGone' /\ Re!SentHasLeft'
  BY <1>1, <1>4 DEF Rescued, TakenIsGone, Re!SentHasLeft, Re!ledger
<1> QED
  BY <1>1, <1>5, <1>6 DEF Rescued, PinnedIsRight, Re!FinishedIsAsked, AskedIsStray, OneAtATime, Re!EachIsAskedFor,
                          Re!ledger, Re!mail

LEMMA TradeMoves ==
  ASSUME Re!RescueAssumption, Rescued, Re!Remit \/ Re!Gather \/ Re!Settle
  PROVE  Rescued'
<1>1. CASE Re!Remit \/ Re!Gather
  <2>1. /\ UNCHANGED <<Re!chain, Re!ledger, Re!mail>>
        /\ trade' = trade \/ (trade.state = "funded" /\ trade' = [state |-> "remitted", pinned |-> trade.pinned])
    BY <1>1 DEF Re!Remit, Re!Becomes, Re!Gather
  <2>2. trade' \in [state : Re!States, pinned : Re!Coins \cup {Re!Nowhere}]
    BY <2>1 DEF Rescued, Re!TypeOK, Re!States
  <2>3. facts' \in [known : BOOLEAN, found : SUBSET Re!Coins, spent : BOOLEAN]
    <3>1. CASE Re!Remit
      BY <3>1 DEF Re!Remit, Re!Becomes, Re!NoFacts
    <3>2. CASE Re!Gather
      <4>1. Re!Unspent \in SUBSET Re!Coins
        BY DEF Re!Unspent
      <4>2. (trade.pinned # Re!Nowhere /\ coins[trade.pinned] = "rescued") \in BOOLEAN
        OBVIOUS
      <4> HIDE DEF Re!Unspent
      <4> QED
        BY <3>2, <4>1, <4>2 DEF Re!Gather
    <3> QED
      BY <1>1, <3>1, <3>2
  <2>4. Re!TypeOK'
    BY <2>1, <2>2, <2>3 DEF Rescued, Re!TypeOK, Re!chain, Re!ledger, Re!mail
  <2>5. PinnedIsRight' /\ (AskedIsStray => AskedIsStray')
    BY <2>1 DEF Rescued, PinnedIsRight, AskedIsStray, Re!ledger
  <2> QED
    BY <2>1, <2>4, <2>5 DEF Rescued, TakenIsGone, Re!SentHasLeft, Re!FinishedIsAsked, OneAtATime, Re!EachIsAskedFor,
                            Re!chain, Re!ledger, Re!mail
<1>2. CASE Re!Settle
  <2>1. /\ UNCHANGED <<taken, reorgs, Re!ledger, Re!mail>> /\ coins' = [coins EXCEPT ![trade.pinned] = "settled"]
        /\ trade' = [state |-> "over", pinned |-> trade.pinned] /\ facts' = Re!NoFacts
        /\ trade.state \in {"funded", "remitted"} /\ coins[trade.pinned] = "confirmed"
    BY <1>2 DEF Re!Settle, Re!Becomes
  <2>2. trade.pinned \in Re!Coins
    BY <2>1 DEF Rescued, PinnedIsRight, Re!Coins
  <2>3. Re!TypeOK'
    BY <2>1, <2>2 DEF Rescued, Re!TypeOK, Re!ledger, Re!mail, Re!NoFacts, Re!States
  <2>4. \A x \in Re!Coins : coins[x] = "rescued" => coins'[x] = "rescued"
    BY <2>1, <2>2 DEF Rescued, Re!TypeOK
  <2>5. TakenIsGone' /\ Re!SentHasLeft' /\ PinnedIsRight' /\ AskedIsStray'
    BY <2>1, <2>4 DEF Rescued, TakenIsGone, Re!SentHasLeft, PinnedIsRight, AskedIsStray, Re!ledger
  <2> QED
    BY <2>1, <2>3, <2>5 DEF Rescued, Re!FinishedIsAsked, OneAtATime, Re!EachIsAskedFor, Re!ledger, Re!mail
<1> QED
  BY <1>1, <1>2

LEMMA Applies ==
  ASSUME Re!RescueAssumption, Rescued, Re!Apply
  PROVE  Rescued'
<1>1. UNCHANGED <<Re!chain, rescues, queue, Re!mail>> /\ facts' = Re!NoFacts
  BY DEF Re!Apply, Re!ApplyBonded, Re!ApplyPinned, Re!ApplyOver, Re!Becomes
<1>2. facts.found \subseteq Re!Coins /\ strays \subseteq Re!Coins
  BY DEF Rescued, Re!TypeOK
<1>3. /\ strays' \subseteq Re!Coins
      /\ \/ trade' = trade
         \/ /\ trade.state # "over"
            /\ \/ \E c \in facts.found : Re!judgeFunding(facts.found) = "funded"
                                          /\ trade' = [state |-> "funded", pinned |-> c]
               \/ trade' = [state |-> "over", pinned |-> Re!Nowhere]
               \/ trade' = [state |-> "bonded", pinned |-> Re!Nowhere]
  BY <1>2 DEF Re!Apply, Re!ApplyBonded, Re!ApplyPinned, Re!ApplyOver, Re!Becomes
<1>4. trade' \in [state : Re!States, pinned : Re!Coins \cup {Re!Nowhere}]
  BY <1>2, <1>3 DEF Rescued, Re!TypeOK, Re!States
<1>5. Re!TypeOK'
  BY <1>1, <1>3, <1>4 DEF Rescued, Re!TypeOK, Re!chain, Re!mail, Re!NoFacts
<1>6. PinnedIsRight'
  <2>1. CASE trade' = trade
    BY <2>1 DEF Rescued, PinnedIsRight
  <2>2. ASSUME NEW c \in facts.found, Re!judgeFunding(facts.found) = "funded", trade' = [state |-> "funded", pinned |-> c]
        PROVE  PinnedIsRight'
    <3>1. c \in Right \ Wrong
      BY <1>2, <2>2, OneRight
    <3> QED
      BY <2>2, <3>1 DEF PinnedIsRight
  <2>3. CASE trade' \in {[state |-> "over", pinned |-> Re!Nowhere], [state |-> "bonded", pinned |-> Re!Nowhere]}
    BY <2>3 DEF PinnedIsRight
  <2> QED
    BY <1>3, <2>1, <2>2, <2>3
<1>7. AskedIsStray => AskedIsStray'
  BY <1>1, <1>3 DEF AskedIsStray
<1> QED
  BY <1>1, <1>5, <1>6, <1>7 DEF Rescued, TakenIsGone, Re!SentHasLeft, Re!FinishedIsAsked, OneAtATime, Re!EachIsAskedFor,
                                Re!chain, Re!mail

LEMMA Asks ==
  ASSUME Re!RescueAssumption, Rescued, NEW c \in Re!Coins, Re!oc_rescue(c)
  PROVE  Rescued'
<1>1. PICK fee \in Fees : Re!requestRescue(c, fee)
  BY DEF Re!oc_rescue
<1> DEFINE record == [fee |-> fee, raw |-> Re!NoFee, sent |-> Re!NoFee]
<1>2. /\ UNCHANGED <<trade, Re!chain, facts, strays, queue, shown, cosigns>>
      /\ rescues' = [rescues EXCEPT ![c] = record] /\ second' = TRUE
      /\ rescues[c].sent = Re!NoFee /\ (Wary => c \in Wrong \/ trade.state = "over")
      /\ Patient => Re!Idle(c)
  BY <1>1 DEF Re!oc_rescue, Re!requestRescue, Re!NoRescue
<1>3. /\ asks' \subseteq asks \cup {[coin |-> c, fee |-> fee]} /\ asks \subseteq asks'
      /\ newest' = newest \/ newest' = [newest EXCEPT ![c] = fee]
      /\ ~SameSecond => [coin |-> c, fee |-> fee] \in asks'
  BY <1>1 DEF Re!requestRescue, Re!oc_rescue
<1>4. [coin |-> c, fee |-> fee] \in Re!Message /\ fee # Re!NoFee
  BY DEF Re!Message, Re!RescueAssumption, Re!NoFee
<1>5. Re!TypeOK'
  BY <1>2, <1>3, <1>4 DEF Rescued, Re!TypeOK, Re!chain
<1>6. /\ \A x \in Re!Coins \ {c} : rescues'[x] = rescues[x]
      /\ rescues'[c].fee = fee /\ rescues'[c].raw = Re!NoFee /\ rescues'[c].sent = Re!NoFee
  BY <1>2 DEF Rescued, Re!TypeOK
<1>7. Re!SentHasLeft' /\ Re!FinishedIsAsked' /\ (~SameSecond => Re!EachIsAskedFor')
  BY <1>2, <1>3, <1>6 DEF Rescued, Re!SentHasLeft, Re!FinishedIsAsked, Re!EachIsAskedFor, Re!chain
<1>8. Wary => AskedIsStray'
  BY <1>2, <1>6 DEF Rescued, AskedIsStray
<1>9. ASSUME Patient PROVE OneAtATime'
  <2>1. (\A e \in queue : e.coin # c) /\ taken[c] = Re!NoFee
    BY <1>2, <1>9 DEF Re!Idle, Rescued, OneAtATime
  <2>2. \A e \in queue : e.coin \in Re!Coins
    BY DEF Rescued, Re!TypeOK
  <2> QED
    BY <1>2, <1>6, <1>9, <2>1, <2>2 DEF Rescued, OneAtATime, Re!chain
<1> QED
  BY <1>2, <1>5, <1>7, <1>8, <1>9 DEF Rescued, TakenIsGone, PinnedIsRight, Re!chain

LEMMA MailMoves ==
  ASSUME Re!RescueAssumption, Rescued,
         Re!NextSecond \/ (\E m \in asks : Re!putSignRequest(m)) \/ (\E c \in Re!Coins : Re!sign(c)) \/ UNCHANGED Re!vars
  PROVE  Rescued'
<1>1. UNCHANGED <<trade, Re!chain, facts, Re!ledger, asks, newest>>
  BY DEF Re!NextSecond, Re!putSignRequest, Re!sign, Re!vars, Re!mail
<1>2. Re!TypeOK'
  <2>1. CASE Re!NextSecond \/ UNCHANGED Re!vars
    BY <1>1, <2>1 DEF Re!NextSecond, Re!vars, Re!mail, Rescued, Re!TypeOK, Re!chain, Re!ledger
  <2>2. ASSUME NEW m \in asks, Re!putSignRequest(m) PROVE Re!TypeOK'
    <3>1. m.coin \in Re!Coins /\ m.fee \in Fees
      BY DEF Rescued, Re!TypeOK, Re!Message
    <3> QED
      BY <1>1, <2>2, <3>1 DEF Re!putSignRequest, Rescued, Re!TypeOK, Re!chain, Re!ledger
  <2>3. ASSUME NEW c \in Re!Coins, Re!sign(c) PROVE Re!TypeOK'
    <3>1. [coin |-> c, fee |-> shown[c]] \in Re!Message
      BY <2>3 DEF Re!sign, Rescued, Re!TypeOK, Re!Message
    <3> QED
      BY <1>1, <2>3, <3>1 DEF Re!sign, Rescued, Re!TypeOK, Re!chain, Re!ledger
  <2> QED
    BY <2>1, <2>2, <2>3
<1> QED
  BY <1>1, <1>2 DEF Rescued, TakenIsGone, PinnedIsRight, Re!SentHasLeft, Re!FinishedIsAsked, AskedIsStray, OneAtATime,
                    Re!EachIsAskedFor, Re!chain, Re!ledger

LEMMA Cosigns ==
  ASSUME Re!RescueAssumption, Rescued, NEW m \in cosigns, Re!ocRescueCosign(m)
  PROVE  Rescued'
<1>1. UNCHANGED <<trade, Re!chain, facts, strays, asks, newest, second, shown>> /\ cosigns' \subseteq cosigns
  BY DEF Re!ocRescueCosign
<1>2. m.coin \in Re!Coins /\ m.fee \in Fees /\ m.fee # Re!NoFee
  BY DEF Rescued, Re!TypeOK, Re!Message, Re!RescueAssumption, Re!NoFee
<1>3. CASE ~Re!Finishes(m)
  <2>1. UNCHANGED <<rescues, queue>>
    BY <1>3 DEF Re!ocRescueCosign
  <2>2. Re!TypeOK'
    BY <1>1, <2>1 DEF Rescued, Re!TypeOK, Re!chain
  <2> QED
    BY <1>1, <2>1, <2>2 DEF Rescued, TakenIsGone, PinnedIsRight, Re!SentHasLeft, Re!FinishedIsAsked, AskedIsStray, OneAtATime,
                            Re!EachIsAskedFor, Re!chain
<1>4. CASE Re!Finishes(m)
  <2> DEFINE row == [coin |-> m.coin, fee |-> m.fee, tries |-> 0]
  <2>1. /\ rescues' = [rescues EXCEPT ![m.coin].raw = m.fee]
        /\ queue' \subseteq queue \cup {row} /\ queue \subseteq queue'
        /\ rescues[m.coin].fee = m.fee /\ rescues[m.coin].raw = Re!NoFee /\ rescues[m.coin].sent = Re!NoFee
    BY <1>4 DEF Re!ocRescueCosign, Re!Finishes
  <2>2. /\ \A x \in Re!Coins \ {m.coin} : rescues'[x] = rescues[x]
        /\ rescues'[m.coin] = [rescues[m.coin] EXCEPT !.raw = m.fee]
    BY <1>2, <2>1 DEF Rescued, Re!TypeOK
  <2>3. rescues'[m.coin].fee = m.fee /\ rescues'[m.coin].raw = m.fee /\ rescues'[m.coin].sent = Re!NoFee
    BY <1>2, <2>1, <2>2 DEF Rescued, Re!TypeOK
  <2>4. row \in [coin : Re!Coins, fee : Fees, tries : 0 .. MaxTries - 1]
    BY <1>2 DEF Re!RescueAssumption
  <2>5. rescues' \in [Re!Coins -> [fee : Fees \cup {Re!NoFee}, raw : Fees \cup {Re!NoFee}, sent : Fees \cup {Re!NoFee}]]
    <3> DEFINE R == [fee : Fees \cup {Re!NoFee}, raw : Fees \cup {Re!NoFee}, sent : Fees \cup {Re!NoFee}]
               q == [rescues[m.coin] EXCEPT !.raw = m.fee]
    <3>1. rescues \in [Re!Coins -> R]
      BY DEF Rescued, Re!TypeOK
    <3>2. rescues[m.coin] \in R
      BY <1>2, <3>1
    <3>3. q \in R
      BY <1>2, <3>2
    <3>4. rescues' = [rescues EXCEPT ![m.coin] = q]
      BY <2>1
    <3> HIDE DEF R, q
    <3>5. rescues' \in [Re!Coins -> R]
      BY ONLY <3>1, <3>3, <3>4
    <3> QED
      BY <3>5 DEF R
  <2>6. Re!TypeOK'
    BY <1>1, <2>1, <2>4, <2>5 DEF Rescued, Re!TypeOK, Re!chain
  <2>7. Re!SentHasLeft' /\ Re!FinishedIsAsked' /\ (Re!EachIsAskedFor => Re!EachIsAskedFor') /\ (AskedIsStray => AskedIsStray')
    BY <1>1, <2>1, <2>2, <2>3 DEF Rescued, Re!SentHasLeft, Re!FinishedIsAsked, Re!EachIsAskedFor, AskedIsStray, Re!chain
  <2>8. ASSUME Patient PROVE OneAtATime'
    <3>1. \A e \in queue : e.coin \in Re!Coins /\ e.fee # Re!NoFee
      BY DEF Rescued, Re!TypeOK, Re!RescueAssumption, Re!NoFee
    <3>2. taken[m.coin] = Re!NoFee /\ \A e \in queue : e.coin # m.coin
      BY <1>2, <2>1, <2>8, <3>1 DEF Rescued, OneAtATime
    <3>3. \A e \in queue' : rescues'[e.coin].raw = e.fee
      BY <2>1, <2>2, <2>3, <2>8, <3>1, <3>2 DEF Rescued, OneAtATime
    <3>4. \A c \in Re!Coins : taken[c] # Re!NoFee \/ rescues'[c].sent # Re!NoFee
                             => rescues'[c].sent = taken[c] /\ rescues'[c].raw = taken[c]
      BY <2>2, <2>3, <2>8, <3>2 DEF Rescued, OneAtATime
    <3> QED
      BY <1>1, <3>3, <3>4 DEF OneAtATime, Re!chain
  <2> QED
    BY <1>1, <2>6, <2>7, <2>8 DEF Rescued, TakenIsGone, PinnedIsRight, Re!chain
<1> QED
  BY <1>3, <1>4

LEMMA Broadcasts ==
  ASSUME Re!RescueAssumption, Rescued, NEW e \in queue, Re!Accepted(e)
  PROVE  Rescued'
<1> DEFINE c == e.coin
           raw == rescues[c].raw
<1>1. c \in Re!Coins /\ e.fee \in Fees /\ e.fee # Re!NoFee
  BY DEF Rescued, Re!TypeOK, Re!RescueAssumption, Re!NoFee
<1>2. /\ UNCHANGED <<trade, reorgs, facts, strays, Re!mail>> /\ queue' = queue \ {e}
      /\ rescues' = [rescues EXCEPT ![c].sent = e.fee] /\ raw # Re!NoFee
      /\ \/ coins' = [coins EXCEPT ![c] = "rescued"] /\ taken' = [taken EXCEPT ![c] = raw]
         \/ taken[c] = raw /\ UNCHANGED <<coins, taken>>
  BY DEF Re!Accepted, Re!Done
<1>3. raw \in Fees
  BY <1>1, <1>2 DEF Rescued, Re!TypeOK
<1>4. /\ coins' \in [Re!Coins -> {"away", "mempool", "confirmed", "rescued", "settled"}]
      /\ taken' \in [Re!Coins -> Fees \cup {Re!NoFee}]
      /\ coins'[c] = "rescued" /\ taken'[c] = raw
      /\ \A x \in Re!Coins \ {c} : coins'[x] = coins[x] /\ taken'[x] = taken[x]
  BY <1>1, <1>2, <1>3 DEF Rescued, Re!TypeOK, TakenIsGone
<1>5. /\ rescues' \in [Re!Coins -> [fee : Fees \cup {Re!NoFee}, raw : Fees \cup {Re!NoFee}, sent : Fees \cup {Re!NoFee}]]
      /\ \A x \in Re!Coins \ {c} : rescues'[x] = rescues[x]
      /\ rescues'[c] = [rescues[c] EXCEPT !.sent = e.fee]
  <2> DEFINE R == [fee : Fees \cup {Re!NoFee}, raw : Fees \cup {Re!NoFee}, sent : Fees \cup {Re!NoFee}]
             q == [rescues[c] EXCEPT !.sent = e.fee]
  <2>1. rescues \in [Re!Coins -> R]
    BY DEF Rescued, Re!TypeOK
  <2>2. rescues[c] \in R
    BY <1>1, <2>1
  <2>3. q \in R
    BY <1>1, <2>2
  <2>4. rescues' = [rescues EXCEPT ![c] = q]
    BY <1>2
  <2>5. c \in Re!Coins
    BY <1>1
  <2> HIDE DEF R, q, c
  <2>6. rescues' \in [Re!Coins -> R] /\ (\A x \in Re!Coins \ {c} : rescues'[x] = rescues[x]) /\ rescues'[c] = q
    BY ONLY <2>1, <2>3, <2>4, <2>5
  <2> QED
    BY <2>6 DEF R, q
<1>6. rescues'[c].fee = rescues[c].fee /\ rescues'[c].raw = raw /\ rescues'[c].sent = e.fee
  BY <1>1, <1>5 DEF Rescued, Re!TypeOK
<1>7. Re!TypeOK'
  BY <1>2, <1>4, <1>5 DEF Rescued, Re!TypeOK, Re!mail
<1> HIDE DEF raw, c
<1>8. TakenIsGone' /\ Re!SentHasLeft' /\ Re!FinishedIsAsked' /\ (AskedIsStray => AskedIsStray')
  BY <1>1, <1>2, <1>4, <1>5, <1>6 DEF Rescued, TakenIsGone, Re!SentHasLeft, Re!FinishedIsAsked, AskedIsStray
<1>9. Re!EachIsAskedFor => Re!EachIsAskedFor'
  BY <1>1, <1>2, <1>5, <1>6 DEF Re!EachIsAskedFor, Re!mail
<1>10. ASSUME Patient PROVE OneAtATime'
  <2>1. \A x \in queue : x.coin \in Re!Coins
    BY DEF Rescued, Re!TypeOK
  <2>2. raw = e.fee
    BY <1>10 DEF Rescued, OneAtATime, raw, c
  <2>3. \A x \in queue' : rescues'[x.coin].raw = x.fee
    <3>1. \A x \in Re!Coins : rescues'[x].raw = rescues[x].raw
      BY <1>1, <1>5, <1>6 DEF raw
    <3> QED
      BY <1>2, <1>10, <2>1, <3>1 DEF Rescued, OneAtATime
  <2> QED
    BY <1>1, <1>4, <1>5, <1>6, <1>10, <2>2, <2>3 DEF Rescued, OneAtATime
<1> QED
  BY <1>2, <1>7, <1>8, <1>9, <1>10 DEF Rescued, PinnedIsRight

LEMMA Refuses ==
  ASSUME Re!RescueAssumption, Rescued, NEW e \in queue, Re!Refused(e)
  PROVE  Rescued'
<1>1. UNCHANGED <<trade, Re!chain, facts, strays, Re!mail, rescues>>
  BY DEF Re!Refused, Re!GivenUp
<1>2. /\ queue' \subseteq [coin : Re!Coins, fee : Fees, tries : 0 .. MaxTries - 1]
      /\ \A x \in queue' : \E y \in queue : y.coin = x.coin /\ y.fee = x.fee
  <2>1. CASE Re!GivesUp(e)
    BY <2>1 DEF Re!Refused, Rescued, Re!TypeOK
  <2>2. CASE ~Re!GivesUp(e)
    <3> DEFINE again == [e EXCEPT !.tries = @ + 1]
    <3>1. e \in [coin : Re!Coins, fee : Fees, tries : 0 .. MaxTries - 1] /\ e.tries + 1 < MaxTries
      BY <2>2 DEF Re!GivesUp, Rescued, Re!TypeOK, Re!RescueAssumption
    <3>2. e.tries + 1 \in 0 .. MaxTries - 1
      BY <3>1 DEF Re!RescueAssumption
    <3>3. again \in [coin : Re!Coins, fee : Fees, tries : 0 .. MaxTries - 1] /\ again.coin = e.coin /\ again.fee = e.fee
      BY <3>1, <3>2
    <3>4. queue' = (queue \ {e}) \cup {again}
      BY <2>2 DEF Re!Refused
    <3> HIDE DEF again
    <3> QED
      BY <3>3, <3>4 DEF Rescued, Re!TypeOK
  <2> QED
    BY <2>1, <2>2
<1>3. Re!TypeOK'
  BY <1>1, <1>2 DEF Rescued, Re!TypeOK, Re!chain, Re!mail
<1>4. OneAtATime => OneAtATime'
  BY <1>1, <1>2 DEF OneAtATime, Re!chain
<1> QED
  BY <1>1, <1>3, <1>4 DEF Rescued, TakenIsGone, PinnedIsRight, Re!SentHasLeft, Re!FinishedIsAsked, AskedIsStray,
                          Re!EachIsAskedFor, Re!chain, Re!mail

LEMMA Rescues ==
  ASSUME Re!RescueAssumption, Rescued, [Re!Next]_(Re!vars)
  PROVE  Rescued'
<1>1. CASE \E c \in Re!Coins : Re!Pay(c) \/ Re!Mine(c) \/ Re!Reorg(c)
  BY <1>1, ChainMoves
<1>2. CASE \E c \in Re!Coins : Re!oc_rescue(c)
  BY <1>2, Asks
<1>3. CASE Re!Remit \/ Re!Settle \/ Re!Gather
  BY <1>3, TradeMoves
<1>4. CASE Re!Apply
  BY <1>4, Applies
<1>5. CASE Re!NextSecond \/ (\E m \in asks : Re!putSignRequest(m)) \/ (\E c \in Re!Coins : Re!sign(c)) \/ UNCHANGED Re!vars
  BY <1>5, MailMoves
<1>6. CASE \E m \in cosigns : Re!ocRescueCosign(m)
  BY <1>6, Cosigns
<1>7. CASE \E e \in queue : Re!Accepted(e)
  BY <1>7, Broadcasts
<1>8. CASE \E e \in queue : Re!Refused(e)
  BY <1>8, Refuses
<1> QED
  BY <1>1, <1>2, <1>3, <1>4, <1>5, <1>6, <1>7, <1>8 DEF Re!Next

LEMMA AlwaysRescued ==
  ASSUME Re!RescueAssumption
  PROVE  Re!Spec => []Rescued
<1>1. Re!Init => Rescued
  BY RescueStarts
<1>2. Rescued /\ [Re!Next]_(Re!vars) => Rescued'
  BY Rescues
<1> QED
  BY <1>1, <1>2, PTL DEF Re!Spec

\* A rescue on record as sent has left, and for the fee its customer signed for at the latest
\* request that was finished (store.ts, handlers.ts Re!ocRescueCosign, effects.ts).
THEOREM RescuesAreTrue ==
  ASSUME Re!RescueAssumption
  PROVE  Re!Spec => [](Re!TypeOK /\ Re!SentHasLeft /\ Re!FinishedIsAsked)
<1>1. Rescued => Re!TypeOK /\ Re!SentHasLeft /\ Re!FinishedIsAsked
  BY DEF Rescued
<1> QED
  BY <1>1, AlwaysRescued, PTL

\* With an operator who asks again only when nothing is under way the record names what took the
\* output; with no two requests in one second each rescue has been asked of the customer.
THEOREM PatienceKeepsTheRecord ==
  ASSUME Re!RescueAssumption
  PROVE  /\ Patient => (Re!Spec => []Re!SentIsTheOne)
         /\ ~SameSecond => (Re!Spec => []Re!EachIsAskedFor)
<1>1. ASSUME Patient PROVE Re!Spec => []Re!SentIsTheOne
  <2>1. Rescued => Re!SentIsTheOne
    BY <1>1 DEF Rescued, OneAtATime, Re!SentIsTheOne
  <2> QED
    BY <2>1, AlwaysRescued, PTL
<1>2. ASSUME ~SameSecond PROVE Re!Spec => []Re!EachIsAskedFor
  <2>1. Rescued => Re!EachIsAskedFor
    BY <1>2 DEF Rescued
  <2> QED
    BY <2>1, AlwaysRescued, PTL
<1> QED
  BY <1>1, <1>2

\* With a careful operator no rescue takes the funding of a trade that lives, through every
\* reorganisation and however old the facts the watcher applies (flow.ts Re!requestRescue).
THEOREM EscrowIsNotRescued ==
  ASSUME Re!RescueAssumption, Wary
  PROVE  Re!Spec => [][Re!LiveEscrowIsKept]_(Re!vars)
<1>1. Rescued /\ [Re!Next]_(Re!vars) => [Re!LiveEscrowIsKept]_(Re!vars)
  <2> SUFFICES ASSUME Rescued, Re!Next, NEW c \in Re!Coins, coins'[c] = "rescued", coins[c] # "rescued",
                      Re!isPinnedOfLiveTrade(c)
               PROVE  FALSE
    BY DEF Re!LiveEscrowIsKept
  <2>1. trade.pinned = c /\ trade.state # "over"
    BY DEF Re!isPinnedOfLiveTrade
  <2>2. PICK e \in queue : Re!Accepted(e) /\ e.coin = c
    <3>1. coins' # coins
      OBVIOUS
    <3>2. ~Re!Settle
      <4>1. Re!Settle => coins' = [coins EXCEPT ![c] = "settled"]
        BY <2>1 DEF Re!Settle
      <4> QED
        BY <4>1 DEF Rescued, Re!TypeOK
    <3>3. \A x \in Re!Coins : ~Re!Pay(x) /\ ~Re!Mine(x) /\ ~Re!Reorg(x)
      BY DEF Re!Pay, Re!Mine, Re!Reorg, Re!Move, Rescued, Re!TypeOK
    <3>4. PICK e \in queue : Re!Accepted(e)
      BY <3>1, <3>2, <3>3 DEF Re!Next, Re!oc_rescue, Re!requestRescue, Re!sign, Re!Remit, Re!Gather, Re!Apply, Re!NextSecond, Re!putSignRequest,
                              Re!ocRescueCosign, Re!Refused, Re!chain
    <3>5. e.coin \in Re!Coins
      BY DEF Rescued, Re!TypeOK
    <3>6. e.coin = c
      BY <3>1, <3>4, <3>5 DEF Re!Accepted, Rescued, Re!TypeOK
    <3> QED
      BY <3>4, <3>6
  <2>3. rescues[c].raw # Re!NoFee
    BY <2>2 DEF Re!Accepted
  <2>4. rescues[c].fee # Re!NoFee
    BY <2>3 DEF Rescued, Re!FinishedIsAsked
  <2>5. c \in Wrong
    BY <2>1, <2>4 DEF Rescued, AskedIsStray
  <2>6. trade.state \in {"funded", "remitted"}
    BY <2>1, <2>5 DEF Rescued, Re!TypeOK, Re!States, PinnedIsRight, Re!RescueAssumption
  <2> QED
    BY <2>1, <2>5, <2>6 DEF Rescued, PinnedIsRight
<1> QED
  BY <1>1, AlwaysRescued, PTL DEF Re!Spec
=============================================================================
