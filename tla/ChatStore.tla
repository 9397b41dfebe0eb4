----------------------------- MODULE ChatStore -----------------------------
(* The messages of one trade on a user's device (shared/src/chat-send.ts,     *)
(* chat-store.ts, the chat screen of the user app): shown before they are     *)
(* published, kept in IndexedDB, dropped from memory when the screen is left, *)
(* loaded again on the way back, sent anew when they failed.                  *)
EXTENDS Integers, FiniteSets

CONSTANTS
    Texts,        \* what this user writes
    Theirs,       \* messages of the other side
    MaxTries,     \* bound: times one text is signed
    MaxEnters,    \* bound: times the screen is opened
    MaxReloads,   \* bound: times the tab is closed or reloaded
    AcksLost,     \* a relay may store an event whose acknowledgement is lost
    SlowLoads     \* a load of IndexedDB may outlast a failed publication and the press of a button

ChatStoreAssumption ==
    /\ Texts \cap Theirs = {} /\ {AcksLost, SlowLoads} \subseteq BOOLEAN
    /\ MaxTries \in Nat \ {0} /\ {MaxEnters, MaxReloads} \subseteq Nat

Ids == Texts \X (1 .. MaxTries) \cup Theirs \X {1}
\* "none": no entry; "received": an entry without a status.
Status == {"none", "pending", "sent", "failed", "received"}

VARIABLES
    open,         \* the trade's screen is open, its subscriptions with it
    chats,        \* the store's entry of each message
    idb,          \* what IndexedDB has of it
    asked,        \* loads that have not read IndexedDB yet
    reads,        \* what loads have read and not merged yet
    flying,       \* events being published
    relay,        \* events some relay has
    retrying,     \* failed messages taken out to be signed anew
    tries,        \* times each text was signed
    enters, reloads

store == <<chats, idb>>
loads == <<asked, reads>>
net == <<flying, relay>>
sends == <<retrying, tries>>
vars == <<open, store, loads, net, sends, enters, reloads>>

Empty == [i \in Ids |-> "none"]

Init ==
    /\ open = FALSE /\ chats = Empty /\ idb = Empty /\ asked = 0 /\ reads = {}
    /\ flying = {} /\ relay = {} /\ retrying = {} /\ tries = [t \in Texts |-> 0]
    /\ enters = 0 /\ reloads = 0

\* No load is on its way.
Quiet == asked = 0 /\ reads = {}

\* Whether the store has anything of the trade: setMessageStatus and removeMessage
\* do nothing for a message it does not have.
Has(i) == chats[i] # "none"

addMessage(i, s) ==
    IF Has(i) THEN UNCHANGED store
    ELSE chats' = [chats EXCEPT ![i] = s] /\ idb' = [idb EXCEPT ![i] = s]

setMessageStatus(i, s) ==
    IF ~Has(i) THEN UNCHANGED store
    ELSE chats' = [chats EXCEPT ![i] = s] /\ idb' = [idb EXCEPT ![i] = s]

removeMessage(i) ==
    IF ~Has(i) THEN UNCHANGED store
    ELSE chats' = [chats EXCEPT ![i] = "none"] /\ idb' = [idb EXCEPT ![i] = "none"]

\* loadFromIdb: what the store has stays; a pending of IndexedDB has failed.
merged(read) ==
    [i \in Ids |-> IF Has(i) THEN chats[i] ELSE IF read[i] = "pending" THEN "failed" ELSE read[i]]

(* The screen: its effect loads and subscribes; its cleanup closes the          *)
(* subscriptions and clears the memory, but stops no load that is on its way.   *)
Enter ==
    /\ ~open /\ enters < MaxEnters
    /\ open' = TRUE /\ asked' = asked + 1 /\ enters' = enters + 1
    /\ UNCHANGED <<store, reads, net, sends, reloads>>

Read ==
    /\ asked > 0
    /\ asked' = asked - 1 /\ reads' = reads \cup {idb}
    /\ UNCHANGED <<open, store, net, sends, enters, reloads>>

loadFromIdb ==
    \E read \in reads :
        /\ reads' = reads \ {read}
        /\ chats' = merged(read)
        /\ UNCHANGED <<open, idb, asked, net, sends, enters, reloads>>

clearMessages == chats' = Empty

Leave ==
    /\ open
    /\ open' = FALSE /\ clearMessages
    /\ UNCHANGED <<idb, loads, net, sends, enters, reloads>>

\* The tab goes: memory, loads and publications with it.
Reload ==
    /\ reloads < MaxReloads
    /\ reloads' = reloads + 1 /\ open' = FALSE /\ chats' = Empty
    /\ asked' = 0 /\ reads' = {} /\ flying' = {} /\ retrying' = {}
    /\ UNCHANGED <<idb, relay, tries, enters>>

\* A text is signed and shown; its publication begins.
Signed(t) ==
    LET i == <<t, tries[t] + 1>>
    IN  /\ tries' = [tries EXCEPT ![t] = @ + 1]
        /\ addMessage(i, "pending")
        /\ flying' = flying \cup {i}

sendChatMessage(t) ==
    /\ Signed(t)
    /\ UNCHANGED <<open, loads, relay, retrying, enters, reloads>>

\* The send button: the field is emptied once the message is shown.
handleSend(t) == open /\ tries[t] = 0 /\ sendChatMessage(t)

\* The failed entry is taken out, and the signature of its successor awaited.
retryChatMessage(i) ==
    /\ removeMessage(i)
    /\ retrying' = retrying \cup {i}
    /\ UNCHANGED <<open, loads, net, tries, enters, reloads>>

\* The button beside a failed message.
handleRetry(i) ==
    /\ open /\ i[1] \in Texts /\ chats[i] = "failed" /\ tries[i[1]] < MaxTries
    /\ SlowLoads \/ Quiet
    /\ retryChatMessage(i)

RetrySigned(i) ==
    /\ i \in retrying /\ tries[i[1]] < MaxTries
    /\ Signed(i[1])
    /\ retrying' = retrying \ {i}
    /\ UNCHANGED <<open, loads, relay, enters, reloads>>

RetryNotSigned(i) ==
    /\ i \in retrying
    /\ addMessage(i, "failed")
    /\ retrying' = retrying \ {i}
    /\ UNCHANGED <<open, loads, net, tries, enters, reloads>>

RelayTakes(i) ==
    /\ i \in flying \ relay
    /\ relay' = relay \cup {i}
    /\ UNCHANGED <<open, store, loads, flying, sends, enters, reloads>>

\* Mutant: the publication's outcome is not looked at.
Outcome_sent(i) == "sent"
\* The publication's promise: at least one relay has acknowledged, or none has.
Outcome(i) == IF i \in relay THEN "sent" ELSE "failed"
Published(i) ==
    /\ i \in flying
    /\ flying' = flying \ {i}
    /\ setMessageStatus(i, Outcome(i))
    /\ UNCHANGED <<open, loads, relay, sends, enters, reloads>>

AckLost(i) ==
    /\ AcksLost /\ i \in flying \cap relay
    /\ flying' = flying \ {i}
    /\ setMessageStatus(i, "failed")
    /\ UNCHANGED <<open, loads, relay, sends, enters, reloads>>

\* A subscription delivers: the other side's messages, and one's own.
Echo(i) ==
    /\ open /\ i \in relay
    /\ addMessage(i, "received")
    /\ UNCHANGED <<open, loads, net, sends, enters, reloads>>

\* The other side writes.
TheyWrite(m) ==
    /\ <<m, 1>> \notin relay
    /\ relay' = relay \cup {<<m, 1>>}
    /\ UNCHANGED <<open, store, loads, flying, sends, enters, reloads>>

Next ==
    \/ Enter \/ Read \/ loadFromIdb \/ Leave \/ Reload
    \/ \E t \in Texts : handleSend(t)
    \/ \E i \in Ids : handleRetry(i) \/ RetrySigned(i) \/ RetryNotSigned(i) \/ RelayTakes(i)
                      \/ Published(i) \/ AckLost(i) \/ Echo(i)
    \/ \E m \in Theirs : TheyWrite(m)

Spec == Init /\ [][Next]_vars

\* A publication ends (allSettled over relays that answer or time out) and a load
\* of IndexedDB does; a subscription delivers what its relays have.
FairSpec ==
    /\ Spec
    /\ WF_vars(Read) /\ WF_vars(loadFromIdb)
    /\ \A i \in Ids : WF_vars(Published(i)) /\ WF_vars(Echo(i) /\ ~Has(i))

TypeOK ==
    /\ open \in BOOLEAN /\ chats \in [Ids -> Status] /\ idb \in [Ids -> Status]
    /\ asked \in 0 .. MaxEnters /\ reads \subseteq [Ids -> Status]
    /\ flying \subseteq Ids /\ relay \subseteq Ids /\ retrying \subseteq Ids
    /\ tries \in [Texts -> 0 .. MaxTries] /\ enters \in 0 .. MaxEnters /\ reloads \in 0 .. MaxReloads
    /\ \A i \in flying : i[1] \in Texts /\ i[2] <= tries[i[1]]

\* A message that says "sent" has been taken by a relay: the reason the store has a
\* status at all (chat-send.ts 6-10).
SentIsThere == \A i \in Ids : "sent" \in {chats[i], idb[i]} => i \in relay

\* What was written is never simply gone: it is with a relay, in IndexedDB, being
\* published or being signed anew (chat-send.ts 73).
NoneForgotten ==
    \A t \in Texts : tries[t] > 0 =>
        \E k \in 1 .. MaxTries : <<t, k>> \in relay \cup flying \cup retrying \/ idb[<<t, k>>] # "none"

\* With the load done the open screen has everything the device has, whatever was
\* written, failed or came in while it was loading.
ScreenIsWhole == open /\ Quiet => \A i \in Ids : idb[i] # "none" => Has(i)

\* A message that failed and was signed anew does not come back beside its successor
\* (chat-send.ts 63-64: the old entry is removed so that it stays no duplicate) - unless
\* it, or one that it was made from, had been received after all.
RetriedIsGone ==
    \A t \in Texts, k, n \in 1 .. MaxTries :
        k < n /\ Has(<<t, k>>) /\ Has(<<t, n>>) => \E j \in 1 .. k : <<t, j>> \in relay

\* A message that is shown as failed, its publication over, was not received
\* (chat-send.ts 20: the screen does not lie about the status).
FailedIsUnsent ==
    open /\ Quiet => \A i \in Ids \ flying : chats[i] = "failed" => i \notin relay

\* Nothing is shown as being sent for ever, not after a reload either.
Pending(i) == chats[i] = "pending"
PendingEnds == \A i \in Ids : Pending(i) ~> ~Pending(i)

\* On a screen that stays open, what the other side wrote comes up.
OnScreen(i) == ~open \/ Has(i)
TheirsAreShown == \A m \in Theirs : (<<m, 1>> \in relay) ~> OnScreen(<<m, 1>>)
=============================================================================
