------------------------------ MODULE Ingress ------------------------------
(* How requests get into the daemon's inbox (daemon/src/nostr/ingress.ts):    *)
(* every few minutes the subscription is closed and opened again with a since *)
(* that lies a lookback before the newest request received.  Relays come and  *)
(* go, a subscription dies without a word, a request may sit at one relay     *)
(* only, and clocks of clients are off.  Time is in units of the lookback's   *)
(* order (hours); what happens within a tick is Dispatch's.                   *)
EXTENDS Integers, FiniteSets

CONSTANTS
    Requests,      \* well-formed events addressed to APP
    Relays,
    Epoch,         \* nothing created before the first boot is taken
    Lookback,      \* how far a new subscription goes back behind the cursor (6 h)
    Skew,          \* how far ahead of the clock the cursor may be moved (5 min)
    Resubscribe,   \* how long a subscription is kept (5 min)
    MaxAway,       \* assumption: longest time a relay goes without serving us
    MaxTime,       \* bound: the clock
    Far            \* a creation time far in the future

IngressAssumption ==
    /\ {Epoch, Lookback, Skew, Resubscribe, MaxAway, MaxTime, Far} \subseteq Nat
    /\ Resubscribe > 0 /\ MaxTime + Skew < Far

\* A request that reaches a relay within this time after it was made is safe.
Grace == Lookback - Skew - MaxAway
Unsent == -1

VARIABLES
    now,
    created,       \* created_at of each request
    at,            \* the requests each relay holds
    prompt,        \* the requests that got to some relay within Grace
    up,            \* the daemon runs
    cursor,        \* kv ingress.cursor: the newest created_at taken
    from,          \* the since of the subscription
    sub,           \* relays whose subscription is alive
    inbox,         \* the requests received
    age,           \* of the subscription
    away           \* for how long each relay has not served us

vars == <<now, created, at, prompt, up, cursor, from, sub, inbox, age, away>>

\* Mutant: the new subscription starts at the cursor.
since_cursor == IF cursor > Epoch THEN cursor ELSE Epoch

since == LET back == cursor - Lookback IN IF back > Epoch THEN back ELSE Epoch

Init ==
    /\ now = Epoch /\ cursor = Epoch /\ from = Epoch
    /\ created = [e \in Requests |-> Unsent]
    /\ at = [r \in Relays |-> {}] /\ away = [r \in Relays |-> 0]
    /\ prompt = {} /\ inbox = {} /\ sub = {} /\ up = FALSE /\ age = 0

\* A client makes a request; his clock may be wrong, even by far.
Make(e, t) ==
    /\ created[e] = Unsent
    /\ created' = [created EXCEPT ![e] = t]
    /\ UNCHANGED <<now, at, prompt, up, cursor, from, sub, inbox, age, away>>

\* It gets to a relay, now or later.
Arrive(e, r) ==
    /\ created[e] # Unsent /\ e \notin at[r]
    /\ at' = [at EXCEPT ![r] = @ \cup {e}]
    /\ prompt' = IF now - created[e] <= Grace /\ created[e] >= Epoch
                 THEN prompt \cup {e} ELSE prompt
    /\ UNCHANGED <<now, created, up, cursor, from, sub, inbox, age, away>>

\* What the subscription still has to bring from a relay.
Coming(r) == {e \in at[r] \ inbox : created[e] >= from}

\* A stored answer to the subscription or a live event.  What is in the inbox
\* already is ignored; a time in the far future does not move the cursor.
accept(e, r) ==
    /\ up /\ r \in sub /\ e \in Coming(r)
    /\ created[e] >= Epoch
    /\ inbox' = inbox \cup {e}
    /\ cursor' = IF created[e] <= now + Skew /\ created[e] > cursor THEN created[e] ELSE cursor
    /\ UNCHANGED <<now, created, at, prompt, up, from, sub, age, away>>

\* The timer opens the subscription anew, at the relays that can be reached.
reopen(reachable) ==
    /\ up
    /\ from' = since
    /\ sub' = reachable
    /\ age' = 0
    /\ UNCHANGED <<now, created, at, prompt, up, cursor, inbox, away>>

start(reachable) ==
    /\ ~up /\ up' = TRUE
    /\ from' = since /\ sub' = reachable /\ age' = 0
    /\ UNCHANGED <<now, created, at, prompt, cursor, inbox, away>>

\* The process ends, in the middle of what a subscription brings.
Down ==
    /\ up /\ up' = FALSE /\ sub' = {}
    /\ UNCHANGED <<now, created, at, prompt, cursor, from, inbox, age, away>>

\* The subscription at a relay dies and nobody is told.
SilentDeath(r) ==
    /\ r \in sub /\ sub' = sub \ {r}
    /\ UNCHANGED <<now, created, at, prompt, up, cursor, from, inbox, age, away>>

Served(r) == r \in sub /\ Coming(r) = {}

\* Time goes by.  The timer is punctual, and no relay stays away beyond MaxAway.
Elapse ==
    /\ now < MaxTime
    /\ up => age < Resubscribe
    /\ \A r \in Relays : Served(r) \/ away[r] < MaxAway
    /\ now' = now + 1 /\ age' = IF up THEN age + 1 ELSE age
    /\ away' = [r \in Relays |-> IF Served(r) THEN 0 ELSE away[r] + 1]
    /\ UNCHANGED <<created, at, prompt, up, cursor, from, sub, inbox>>

CreationTimes == (now - 1)..(now + Skew) \cup {Far}

Next ==
    \/ \E e \in Requests : \E t \in CreationTimes : Make(e, t)
    \/ \E e \in Requests, r \in Relays : Arrive(e, r) \/ accept(e, r)
    \/ \E reachable \in SUBSET Relays : reopen(reachable) \/ start(reachable)
    \/ Down \/ \E r \in Relays : SilentDeath(r)
    \/ Elapse

Spec == Init /\ [][Next]_vars

\* The daemon is started again, the timer opens the subscription with every
\* relay reached now and then, and a live subscription brings what it has.
Fairness ==
    /\ SF_vars(start(Relays)) /\ SF_vars(reopen(Relays))
    /\ \A e \in Requests, r \in Relays : SF_vars(accept(e, r))
FairSpec == Spec /\ Fairness

-----------------------------------------------------------------------------

TypeOK ==
    /\ now \in Epoch..MaxTime /\ cursor \in Epoch..(MaxTime + Skew) /\ from \in Epoch..cursor
    /\ created \in [Requests -> {Unsent} \cup (Epoch - 1)..(MaxTime + Skew) \cup {Far}]
    /\ at \in [Relays -> SUBSET Requests] /\ away \in [Relays -> 0..MaxAway]
    /\ prompt \subseteq Requests /\ inbox \subseteq {e \in Requests : created[e] >= Epoch}
    /\ sub \subseteq Relays /\ (sub # {} => up) /\ up \in BOOLEAN /\ age \in 0..Resubscribe

\* A request that got to a relay in time is never out of reach: either it has
\* been received, or the next subscription still asks for it (ingress.ts since,
\* the cursor of accept).  A far future time, a silent death, a relay that was
\* away and a restart in the middle of an answer do not change that.
StaysInReach == \A e \in prompt : e \in inbox \/ created[e] >= since

\* And so it is received in the end (ingress.ts: the periodic re-subscription).
InTimeIsReceived == \A e \in Requests : e \in prompt ~> e \in inbox
=============================================================================
