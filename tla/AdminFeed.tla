----------------------------- MODULE AdminFeed -----------------------------
(* What an operator's screen shows of an order (admin/src/daemon/feed.ts,     *)
(* stores.ts): events of relays that missed one or keep them too long, opened *)
(* by a remote signer that takes its time, filtered by the epoch of the       *)
(* daemon's database, kept in stores that are pruned when retention ends.     *)
EXTENDS Integers, FiniteSets

CONSTANTS
    Relays,
    Hoarders,     \* relays that keep events past their expiration
    LN_ACTIVE_RETENTION, LN_TERMINAL_RETENTION,
    MaxVersion,   \* bound: publications of the order
    MaxTime,      \* bound: the clock
    MaxNewDbs,    \* bound: databases begun anew
    MaxLogouts    \* bound

AdminFeedAssumption ==
    /\ Hoarders \subseteq Relays
    /\ {LN_ACTIVE_RETENTION, LN_TERMINAL_RETENTION, MaxVersion, MaxTime, MaxNewDbs, MaxLogouts} \subseteq Nat
    /\ MaxTime # 0

VARIABLES
    now,
    designated,   \* whether the order is a designated trade: its events are sealed
    last,         \* the daemon's last event of the order
    relay,        \* what each relay holds of it
    states,       \* the state events published, one per database
    daemonState,  \* the newest state the screen knows
    decrypting,   \* state events at the remote signer
    opening,      \* snapshots at the remote signer
    opened,       \* openedDesignated: the newest created_at asked for
    shown,        \* lnOrders: the event shown, or Nothing
    endSeen,      \* the end of the order has reached the store
    newDbs, logouts

world == <<now, designated, last, relay, states, newDbs>>
stores == <<daemonState, shown, endSeen>>
signer == <<decrypting, opening, opened>>
vars == <<world, stores, signer, logouts>>

Nothing == [v |-> 0, at |-> 0, until |-> 0, ended |-> FALSE]
NoState == [at |-> -1, epoch |-> -1]

Init ==
    /\ now = 1 /\ designated \in BOOLEAN
    /\ last = Nothing /\ relay = [r \in Relays |-> Nothing]
    /\ states = {[at |-> 1, epoch |-> 1]}
    /\ daemonState = NoState /\ decrypting = {} /\ opening = {} /\ opened = -1
    /\ shown = Nothing /\ endSeen = FALSE /\ newDbs = 0 /\ logouts = 0

lnRetention(ended) == now + (IF ended THEN LN_TERMINAL_RETENTION ELSE LN_ACTIVE_RETENTION)

\* The order is published, at later seconds each time; some relay takes it.
Publish ==
    /\ newDbs = 0 /\ last.v < MaxVersion /\ ~last.ended /\ now > last.at
    /\ \E ended \in BOOLEAN, takers \in (SUBSET Relays) \ {{}} :
        LET e == [v |-> last.v + 1, at |-> now, until |-> lnRetention(ended), ended |-> ended]
        IN  last' = e /\ relay' = [r \in Relays |-> IF r \in takers THEN e ELSE relay[r]]
    /\ UNCHANGED <<now, designated, states, newDbs, stores, signer, logouts>>

\* The daemon starts on a new database; what the old one published stays on relays.
NewDb ==
    /\ newDbs < MaxNewDbs /\ now > last.at
    /\ newDbs' = newDbs + 1
    /\ \A s \in states : s.at < now
    /\ states' = states \cup {[at |-> now, epoch |-> now]}
    /\ last' = Nothing
    /\ UNCHANGED <<now, designated, relay, stores, signer, logouts>>

Elapse ==
    /\ now < MaxTime
    /\ now' = now + 1
    /\ UNCHANGED <<designated, last, relay, states, newDbs, stores, signer, logouts>>

lnOrderAlive(e, epoch) == epoch # -1 /\ e.at >= epoch /\ e.until > now

\* The newer event; if it has expired, the older one goes as well.
upsertOrder(e, alive) ==
    shown' = IF shown.at >= e.at THEN shown ELSE IF alive THEN e ELSE Nothing

\* With each state the cache is tidied.
pruneStores(epoch) == shown' = IF lnOrderAlive(shown, epoch) THEN shown ELSE Nothing

\* A state event arrives and is sent to the signer, if it is newer.
onStateEvent(s) ==
    /\ s \in states \ decrypting /\ daemonState.at < s.at
    /\ decrypting' = decrypting \cup {s}
    /\ UNCHANGED <<world, stores, opening, opened, logouts>>

newerState(s) == daemonState.at < s.at
StateDecrypted(s) ==
    /\ s \in decrypting
    /\ decrypting' = decrypting \ {s}
    /\ IF newerState(s)
       THEN daemonState' = s /\ pruneStores(s.epoch)
       ELSE UNCHANGED <<daemonState, shown>>
    /\ UNCHANGED <<world, endSeen, opening, opened, logouts>>

\* A heartbeat's state comes in: the same database, the cache is tidied again.
Heartbeat ==
    /\ daemonState # NoState
    /\ pruneStores(daemonState.epoch)
    /\ UNCHANGED <<world, daemonState, endSeen, signer, logouts>>

\* What a relay hands over to a subscription since the epoch.
Served(r) ==
    IF relay[r].until > now \/ r \in Hoarders THEN {relay[r]} \ {Nothing} ELSE {}
onOrderEvent(e) ==
    IF daemonState.epoch = -1 \/ e.at < daemonState.epoch THEN UNCHANGED <<shown, endSeen>>
    ELSE /\ upsertOrder(e, lnOrderAlive(e, daemonState.epoch))
         /\ endSeen' = (endSeen \/ e.ended)

Receive(r) ==
    /\ ~designated /\ daemonState.epoch # -1
    /\ \E e \in Served(r) : e.at >= daemonState.epoch /\ onOrderEvent(e)
    /\ UNCHANGED <<world, daemonState, signer, logouts>>

\* A snapshot is sent to the signer unless it has expired, is known or was asked for.
onDesignatedEvent(r) ==
    /\ designated /\ daemonState.epoch # -1
    /\ \E e \in Served(r) :
        /\ e.at >= daemonState.epoch /\ e.until > now
        /\ shown.at < e.at /\ opened < e.at
        /\ opening' = opening \cup {e} /\ opened' = e.at
    /\ UNCHANGED <<world, stores, decrypting, logouts>>
Opened(e) ==
    /\ e \in opening
    /\ opening' = opening \ {e}
    /\ onOrderEvent(e)
    /\ UNCHANGED <<world, daemonState, decrypting, opened, logouts>>
NotOpened(e) ==
    /\ e \in opening
    /\ opening' = opening \ {e} /\ opened' = -1
    /\ UNCHANGED <<world, stores, decrypting, logouts>>

\* Out and in again without a reload: the stores are cleared.
Logout ==
    /\ logouts < MaxLogouts
    /\ logouts' = logouts + 1
    /\ daemonState' = NoState /\ shown' = Nothing
    /\ UNCHANGED <<world, endSeen, signer>>

Next ==
    \/ Publish \/ NewDb \/ Elapse \/ Logout \/ Heartbeat
    \/ \E s \in states : onStateEvent(s) \/ StateDecrypted(s)
    \/ \E r \in Relays : Receive(r) \/ onDesignatedEvent(r)
    \/ \E e \in opening : Opened(e) \/ NotOpened(e)

Spec == Init /\ [][Next]_vars
\* Subscriptions are opened again and again; the signer answers, and not always
\* with a refusal.
FairSpec ==
    /\ Spec
    /\ WF_vars(\E s \in states : onStateEvent(s)) /\ WF_vars(\E s \in states : StateDecrypted(s))
    /\ \A r \in Relays : WF_vars(Receive(r)) /\ WF_vars(onDesignatedEvent(r))
    /\ SF_vars(\E e \in opening : e.at = last.at /\ Opened(e)) /\ WF_vars(\E e \in opening : Opened(e))

-----------------------------------------------------------------------------

TypeOK ==
    /\ now \in 1..MaxTime /\ designated \in BOOLEAN
    /\ daemonState \in states \cup {NoState} /\ decrypting \subseteq states
    /\ \A r \in Relays : relay[r].v <= MaxVersion /\ relay[r].at <= now
    /\ shown = Nothing \/ \E r \in Relays : shown.at <= relay[r].at
    /\ \A e \in opening : e.at <= now
    /\ opened \in -1..now /\ endSeen \in BOOLEAN

\* The state shown never goes back to an earlier one, although states are opened
\* one beside the other (onStateEvent), and neither does the order (upsertOrder).
NeverBack ==
    /\ daemonState' # NoState => daemonState'.at >= daemonState.at
    /\ shown' # Nothing => shown'.at >= shown.at

\* With a daemon on a new database, no order of the old one is shown, whatever
\* relays still hold and the signer still has in hand, and none at all while the
\* epoch is not known (feed.ts, daemonEpoch).
OldDbHidden == shown # Nothing => daemonState # NoState /\ shown.at >= daemonState.epoch

\* The last event of an order is what the screen shows in the end, while some
\* relay may still serve it.
Lasts(v) == last.v = v /\ last.until > MaxTime
NewestShown ==
    \A v \in 1..MaxVersion : Lasts(v) ~> (shown = last \/ ~Lasts(v))

\* stores.ts: an order that has ended does not come back as it was in progress.
EndedStaysEnded == endSeen => shown = Nothing \/ shown.ended

\* stores.ts: what is cleared is filled again from the relays.
Refilled == <>[](last.until > MaxTime) => <>[](shown = last)
=============================================================================
