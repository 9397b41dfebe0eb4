------------------------------ MODULE ChatCall ------------------------------
(* The two conversations of a trade: the parties' own, which nobody else can  *)
(* read, and each party's with the operator, who comes when called            *)
(* (daemon/src/admin/chat.ts, peer-chat.ts; shared/src/peer-chat.ts; the chat *)
(* of the user app; the admin app's three windows). A call hands over the key *)
(* of the parties' conversation. The daemon rings with quiet windows.         *)
EXTENDS Integers, FiniteSets, Sequences

CONSTANTS
    Customer, Sponsors, NoOne,
    CHAT_DM_QUIET_SEC, PEER_PUSH_QUIET_SEC,   \* the daemon's quiet windows
    MaxTime,          \* bound: the clock
    MaxEvents,        \* bound: events the parties send
    MaxReplacements   \* bound: claims that are taken back

ChatCallAssumption ==
    /\ Customer \notin Sponsors /\ NoOne \notin Sponsors \cup {Customer}
    /\ {CHAT_DM_QUIET_SEC, PEER_PUSH_QUIET_SEC} \subseteq Nat \ {0}
    /\ {MaxTime, MaxEvents, MaxReplacements} \subseteq Nat

Parties == {Customer} \cup Sponsors
Never == 0 - CHAT_DM_QUIET_SEC - PEER_PUSH_QUIET_SEC

VARIABLES
    now,
    sponsor,      \* the order's sponsor, or NoOne
    replaced,     \* claims taken back so far
    sent,         \* what the parties have sent, oldest first by number
    handled,      \* numbers of the events the daemon has handled
    dmAt,         \* kv chat.dm: when the operators were last rung
    disclosed,    \* kv chat.disclosed: the other party has been told
    peerLast,     \* kv peer.last: when the daemon last got a message between the parties
    copies,       \* numbers of the events that were copied to the operators
    called,       \* parties the daemon has told of a call
    seen,         \* those whose app has it
    written,      \* parties the operator has written to
    dms,          \* history: when the operators were rung
    waits,        \* history: when a message to the operators was handled
    first         \* history: whether the first message of each pair rang

kv == <<dmAt, disclosed, peerLast>>
history == <<dms, waits, first>>
vars == <<now, sponsor, replaced, sent, handled, kv, copies, called, seen, written, history>>

Init ==
    /\ now = 0 /\ sponsor = NoOne /\ replaced = 0 /\ sent = <<>> /\ handled = {}
    /\ dmAt = Never /\ disclosed = FALSE /\ peerLast = Never
    /\ copies = {} /\ called = {} /\ seen = {} /\ written = {}
    /\ dms = {} /\ waits = {} /\ first = [s \in Sponsors |-> "none"]

\* directory.lookup, roleIn: the order's two parties as of now.
Roles == {Customer, sponsor} \ {NoOne}
Other(p) == IF p = Customer THEN sponsor ELSE Customer

(* The app of a party *)

\* derivePeerChatKey: both compute it from the two keys and the order; there is none
\* without a counterparty.
peerKey(p) == sponsor

Own(p) == {n \in DOMAIN sent : sent[n].from = p /\ sent[n].kind # "peer"}
operatorMessages(p) == Own(p) # {} \/ p \in written
\* Who has handed the key over, as the screen has it: me, the peer, or nobody.
disclosedBy(p) ==
    IF \E n \in Own(p) : sent[n].kind = "call" /\ sent[n].key # NoOne THEN "me"
    ELSE IF p \in seen THEN "peer" ELSE "nobody"
canDisclose(p) == Other(p) # NoOne /\ disclosedBy(p) = "nobody"
showCall(p) == disclosedBy(p) = "nobody" /\ (~operatorMessages(p) \/ canDisclose(p))

Send(kind, p, key) ==
    /\ p \in Roles /\ Len(sent) < MaxEvents
    /\ sent' = Append(sent, [kind |-> kind, from |-> p, key |-> key])
    /\ UNCHANGED <<now, sponsor, replaced, handled, kv, copies, called, seen, written, history>>

sendPeer(p) == Other(p) # NoOne /\ Send("peer", p, peerKey(p))
sendOperator(p) == operatorMessages(p) /\ Send("text", p, NoOne)
call(p) == showCall(p) /\ Send("call", p, peerKey(p))

\* The subscription delivers the daemon's signal.
Signal(p) ==
    /\ p \in called \ seen
    /\ seen' = seen \cup {p}
    /\ UNCHANGED <<now, sponsor, replaced, sent, handled, kv, copies, called, written, history>>

(* The daemon *)

\* A message to the operator rings unless one rang a short while ago.
dmOperators ==
    IF now - dmAt < CHAT_DM_QUIET_SEC
    THEN UNCHANGED <<dmAt, dms>>
    ELSE dmAt' = now /\ dms' = dms \cup {now}

\* A call always rings, and begins the quiet window.
callOperators == dmAt' = now /\ dms' = dms \cup {now}

\* The first key that is handed over in the order: the other party is told.
tellCounterparty(p, key) ==
    IF key # NoOne /\ Other(p) # NoOne /\ ~disclosed
    THEN disclosed' = TRUE /\ called' = called \cup {Other(p)}
    ELSE UNCHANGED <<disclosed, called>>

\* Every operator gets a copy it can read.
forwardToOperators(n) == copies' = copies \cup {n}

chatForwarder(n) ==
    LET e == sent[n] IN
    /\ e.kind \in {"text", "call"}
    /\ IF e.from \notin Roles
       THEN UNCHANGED <<dmAt, disclosed, copies, called, dms, waits>>
       ELSE /\ forwardToOperators(n)
            /\ waits' = waits \cup {now}
            /\ IF e.kind = "call"
               THEN callOperators /\ tellCounterparty(e.from, e.key)
               ELSE dmOperators /\ UNCHANGED <<disclosed, called>>
    /\ UNCHANGED <<peerLast, first>>

\* The other party is pushed when the conversation was quiet for a while.
rings == now - peerLast >= PEER_PUSH_QUIET_SEC
peerPinger(n) ==
    LET e == sent[n] IN
    /\ e.kind = "peer"
    /\ IF e.from \notin Roles \/ Other(e.from) = NoOne
       THEN UNCHANGED <<peerLast, first>>
       ELSE /\ peerLast' = now
            /\ first' = [first EXCEPT ![sponsor] = IF @ # "none" THEN @
                                                   ELSE IF rings THEN "rang" ELSE "silent"]
    /\ UNCHANGED <<dmAt, disclosed, copies, called, dms, waits>>

\* The inbox hands the daemon an event, in whatever order they reached it.
Handle ==
    \E n \in DOMAIN sent \ handled :
        /\ handled' = handled \cup {n}
        /\ chatForwarder(n) \/ peerPinger(n)
        /\ UNCHANGED <<now, sponsor, replaced, sent, seen, written>>

\* A message in the daemon's name to one of the parties.
sendAsApp(p) == written' = written \cup {p}
\* The operator writes to a party: chat.send.
chatSend(p) ==
    /\ p \in Roles \ written
    /\ sendAsApp(p)
    /\ UNCHANGED <<now, sponsor, replaced, sent, handled, kv, copies, called, seen, history>>

(* The order: a claim is confirmed, or taken back by the operator.              *)
Claim(s) ==
    /\ sponsor = NoOne
    /\ sponsor' = s
    /\ UNCHANGED <<now, replaced, sent, handled, kv, copies, called, seen, written, history>>

revertClaim ==
    /\ sponsor # NoOne /\ replaced < MaxReplacements
    /\ sponsor' = NoOne /\ replaced' = replaced + 1
    /\ UNCHANGED <<now, sent, handled, kv, copies, called, seen, written, history>>

Elapse ==
    /\ now < MaxTime
    /\ now' = now + 1
    /\ UNCHANGED <<sponsor, replaced, sent, handled, kv, copies, called, seen, written, history>>

Next ==
    \/ \E p \in Parties : sendPeer(p) \/ sendOperator(p) \/ call(p) \/ Signal(p) \/ chatSend(p)
    \/ Handle \/ \E s \in Sponsors : Claim(s)
    \/ revertClaim \/ Elapse

Spec == Init /\ [][Next]_vars

\* The daemon handles its inbox; the relays deliver what it sends.
FairSpec == Spec /\ WF_vars(Handle) /\ \A p \in Parties : WF_vars(Signal(p))

(* The operator's third window *)

\* findDisclosure: the first call of a present party that came with a key.
Disclosures == {n \in copies : sent[n].kind = "call" /\ sent[n].key # NoOne /\ sent[n].from \in Roles}
disclosure ==
    IF Disclosures = {} THEN NoOne
    ELSE sent[CHOOSE n \in Disclosures : \A m \in Disclosures : n <= m].key
\* Of the present parties, and readable with the key.
openPeerMessage(n, key) == sent[n].kind = "peer" /\ sent[n].from \in Roles /\ sent[n].key = key
\* subscribePeerTranscript: the originals, as the relays have them.
Transcript ==
    {n \in DOMAIN sent : sponsor # NoOne /\ disclosure # NoOne /\ openPeerMessage(n, disclosure)}

TypeOK ==
    /\ now \in 0 .. MaxTime /\ sponsor \in Sponsors \cup {NoOne} /\ replaced \in 0 .. MaxReplacements
    /\ \A n \in DOMAIN sent : sent[n] \in [kind : {"peer", "text", "call"}, from : Parties, key : Sponsors \cup {NoOne}]
    /\ copies \subseteq handled /\ handled \subseteq DOMAIN sent
    /\ dmAt \in {Never} \cup 0 .. now /\ peerLast \in {Never} \cup 0 .. now /\ disclosed \in BOOLEAN
    /\ seen \subseteq called /\ called \subseteq Parties /\ written \subseteq Parties
    /\ dms \subseteq 0 .. now /\ waits \subseteq 0 .. now
    /\ first \in [Sponsors -> {"none", "rang", "silent"}]
    /\ disclosed <=> called # {}

\* What the operator reads was written between two people one of whom called
\* (PLAN-PEER-CHAT 4.2: the key opens this one conversation).
PrivateUntilCalled ==
    \A n \in Transcript : \E m \in copies :
        /\ sent[m].kind = "call" /\ sent[m].from \in {Customer, sponsor}
        /\ {sent[n].from, sent[m].from} \subseteq {Customer, sent[n].key}
        /\ sent[m].key = sent[n].key

\* Nobody who wrote to the operator, or called, waits unrung: the operators' phones
\* rang then or a quiet window before it at most (chat.ts 35-39).
NobodyWaitsUnrung == \A t \in waits : \E d \in dms : d <= t /\ t - d < CHAT_DM_QUIET_SEC

\* A party is never cut off: it can write to the operator, or call, or the operator
\* reads the conversation it is in (TradeChat.tsx 146-150).
HasAWay ==
    sponsor # NoOne => \A p \in Roles : operatorMessages(p) \/ showCall(p) \/ disclosure = sponsor

\* A call that came with the key of the present conversation opens it
\* (DisputeChat.tsx 12-14).
DisclosureOpens ==
    sponsor # NoOne /\ (\E n \in Disclosures : sent[n].key = sponsor) => disclosure = sponsor

\* The first message of two people's conversation rings (peer-chat.ts 10).
FirstRings == \A s \in Sponsors : first[s] # "silent"

\* Once the operator can read what two people say, the screens of both come to say so
\* (chat.ts 14), as long as they are the two.
Called == sponsor # NoOne /\ disclosure = sponsor
Tells(p) == p \notin Roles \/ disclosedBy(p) # "nobody"
BothAreTold ==
    \A p \in Parties : Called ~> Tells(p)
=============================================================================
