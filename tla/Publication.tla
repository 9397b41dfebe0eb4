---------------------------- MODULE Publication ----------------------------
(* How an order gets from the daemon's table to the screens: the publication *)
(* effects (ln/effects.ts, onchain/effects.ts), one event for all or, in a   *)
(* designated trade, one sealed snapshot per recipient (orders/publish.ts),  *)
(* relays that keep the newest event of an address, some of which miss one,  *)
(* and the stores of the user app that fold what they hear                   *)
(* (sponsor/order-store.ts, onchain/store.ts, idb.ts, buyer/order-store.ts). *)
EXTENDS Integers, FiniteSets

CONSTANTS
    Relays,
    Operators,     \* keys that may be on the operators' list
    Designated,    \* whether the order is a designated trade
    Unsealable,    \* recipients for whom no snapshot can be sealed
    Reader,        \* the recipient whose app is modelled
    MaxVersion,    \* bound: changes of the order
    MaxTime,       \* bound: the clock, in seconds
    MaxRestarts,   \* bound: restarts of the daemon
    Backoff,       \* seconds the queue waits after a failed run
    RestartTakes   \* assumption: seconds a restart takes at least

Parties == {"customer", "sponsor"}
PublicationAssumption ==
    /\ Designated \in BOOLEAN /\ Unsealable \subseteq Parties \cup Operators
    /\ Reader \in (Parties \cup Operators) \ Unsealable
    /\ {MaxVersion, MaxTime, Backoff, RestartTakes} \subseteq Nat \ {0} /\ MaxRestarts \in Nat

\* An order changes fewer times than a pause has seconds, be it the queue's or a restart: what is
\* published is dated a second later each time (ln/effects.ts), and may be ahead of the clock.
PausesAreLong == MaxVersion <= Backoff /\ MaxVersion <= RestartTakes

VARIABLES
    now,
    version,       \* ln_orders.version / oc_orders.version
    lapsed,        \* the retention is over, nothing closed the order yet
    published_at,
    waiting,       \* a publication effect waits in the queue
    next_at,       \* when it is due
    run,           \* the publication under way, by address, or NoRun
    took,          \* the addresses of this run some relay has accepted
    operators,     \* the operators' list the daemon runs with
    known,         \* the list noted in kv at the last boot
    alerted,       \* recipients an operator was told about
    relay,         \* the event each relay holds at each address
    newest,        \* the newest version each relay has accepted at each address
    book,          \* sponsor/order-store.ts
    archive,       \* idb.ts
    chain,         \* onchain/store.ts
    mine,          \* buyer/order-store.ts
    restarts

daemon == <<version, lapsed, published_at, waiting, next_at, operators, known, alerted>>
running == <<run, took>>
network == <<relay, newest>>
screens == <<book, archive, chain, mine>>
vars == <<now, daemon, running, network, screens, restarts>>

\* The event of an order: the version it was built from and its created_at.
lnOrderTags(v, at) == [v |-> v, at |-> at]
Nothing == lnOrderTags(0, 0)
NoRun == [v |-> 0, at |-> -1]

\* The addresses an order has: its own, or one per recipient.
Address == Parties \cup Operators \cup {"public"}
Sealed == (Parties \cup operators) \ Unsealable
orderEvents == IF Designated THEN Sealed ELSE {"public"}
Read == IF Designated THEN Reader ELSE "public"

Init ==
    /\ now = 1 /\ version = 1 /\ lapsed = FALSE /\ published_at = 0 /\ waiting = TRUE /\ next_at = 1
    /\ run = NoRun /\ took = {}
    /\ operators \in SUBSET Operators /\ known = operators /\ alerted = {}
    /\ relay = [r \in Relays |-> [a \in Address |-> Nothing]]
    /\ newest = [r \in Relays |-> [a \in Address |-> 0]]
    /\ book = Nothing /\ archive = Nothing /\ chain = Nothing /\ mine = Nothing
    /\ restarts = 0

\* updateOrder: a new version, and one waiting publication however many there are.
Update ==
    /\ version < MaxVersion /\ run = NoRun
    /\ version' = version + 1
    /\ waiting' = TRUE
    /\ next_at' = IF waiting THEN next_at ELSE now
    /\ lapsed' = FALSE
    /\ UNCHANGED <<now, published_at, operators, known, alerted, running, network, screens, restarts>>

\* A request nobody took outlives its deadline; the watcher will close it.
Lapse ==
    /\ ~lapsed /\ run = NoRun /\ version < MaxVersion
    /\ lapsed' = TRUE
    /\ UNCHANGED <<now, version, published_at, waiting, next_at, operators, known, alerted,
                   running, network, screens, restarts>>

\* The executor reads the order and signs, with a time after the last one.
createdAt == IF now > published_at THEN now ELSE published_at + 1
Run ==
    /\ waiting /\ run = NoRun /\ next_at <= now
    /\ IF lapsed THEN waiting' = FALSE /\ UNCHANGED <<run, took>>
       ELSE run' = lnOrderTags(version, createdAt) /\ took' = {} /\ UNCHANGED waiting
    /\ UNCHANGED <<now, version, lapsed, published_at, next_at, operators, known, alerted,
                   network, screens, restarts>>

\* A relay keeps the newer of two events at an address; of two of the same
\* second, either.
Keep(old, new) ==
    {IF new.at > old.at THEN new ELSE old} \cup (IF new.at = old.at THEN {new} ELSE {})

Accept(r, a) ==
    /\ run # NoRun /\ a \in orderEvents
    /\ \E kept \in Keep(relay[r][a], run) : relay' = [relay EXCEPT ![r][a] = kept]
    /\ newest' = [newest EXCEPT ![r][a] = IF run.v > @ THEN run.v ELSE @]
    /\ took' = took \cup {a}
    /\ UNCHANGED <<now, daemon, run, screens, restarts>>

\* One relay is enough for each event; onDone notes the time and reports the
\* recipients that were left out.
Done ==
    /\ run # NoRun /\ took = orderEvents
    /\ published_at' = run.at
    /\ waiting' = FALSE
    /\ alerted' = IF Designated THEN alerted \cup ((Parties \cup operators) \cap Unsealable) ELSE alerted
    /\ run' = NoRun /\ took' = {}
    /\ UNCHANGED <<now, version, lapsed, next_at, operators, known, network, screens, restarts>>

\* Some recipient's event was accepted nowhere: later everything is published again.
Retry ==
    /\ run # NoRun /\ took # orderEvents /\ now + Backoff <= MaxTime
    /\ next_at' = now + Backoff
    /\ run' = NoRun /\ took' = {}
    /\ UNCHANGED <<now, version, lapsed, published_at, waiting, operators, known, alerted,
                   network, screens, restarts>>

\* The daemon dies, perhaps after a relay has accepted what it did not note, and
\* comes back, perhaps with another list of operators, who then get the snapshots.
Restart(ops) ==
    /\ restarts < MaxRestarts /\ now + RestartTakes <= MaxTime
    /\ restarts' = restarts + 1
    /\ now' = now + RestartTakes
    /\ run' = NoRun /\ took' = {}
    /\ operators' = ops /\ known' = ops
    /\ waiting' = IF Designated /\ ops # known THEN TRUE ELSE waiting
    /\ next_at' = IF waiting THEN next_at ELSE now'
    /\ UNCHANGED <<version, lapsed, published_at, alerted, network, screens>>

Elapse ==
    /\ now < MaxTime
    /\ now' = now + 1
    /\ UNCHANGED <<daemon, running, network, screens, restarts>>

\* Mutant: whatever arrives is taken.
upsertOrder_any(old, e) == e
upsertOrder(old, e) == IF old.at >= e.at THEN old ELSE e
idbUpsertOrder(old, e) == IF old.at >= e.at THEN old ELSE e
upsertOnchainOrder(old, e) == IF old.at > e.at THEN old ELSE e
\* The customer's own list takes whatever arrives.
applyAdminUpdate(old, e) == e

\* The reader's app hears what a relay holds: on opening its subscription, on
\* opening it anew, or live.
Hear(r) ==
    /\ relay[r][Read] # Nothing
    /\ LET e == relay[r][Read]
       IN  /\ book' = upsertOrder(book, e)
           /\ archive' = idbUpsertOrder(archive, e)
           /\ chain' = upsertOnchainOrder(chain, e)
           /\ mine' = applyAdminUpdate(mine, e)
    /\ UNCHANGED <<now, daemon, running, network, restarts>>

Next ==
    \/ Update \/ Lapse \/ Run \/ Done \/ Retry \/ Elapse
    \/ \E r \in Relays, a \in Address : Accept(r, a)
    \/ \E ops \in SUBSET Operators : Restart(ops)
    \/ \E r \in Relays : Hear(r)

Spec == Init /\ [][Next]_vars
\* The queue runs what waits and some relay takes each event in the end; the
\* watcher closes what lapsed; the app hears each relay again when it reopens
\* its subscriptions.
FairSpec ==
    /\ Spec /\ WF_vars(Elapse) /\ WF_vars(Run) /\ WF_vars(Done) /\ WF_vars(Update /\ lapsed)
    /\ \A a \in Address : WF_vars(\E r \in Relays : Accept(r, a))
    /\ \A r \in Relays : WF_vars(Hear(r))

-----------------------------------------------------------------------------

TypeOK ==
    /\ now \in 1..MaxTime /\ version \in 1..MaxVersion /\ {lapsed, waiting} \subseteq BOOLEAN
    /\ published_at \in 0..(MaxTime + MaxVersion) /\ next_at \in 1..(MaxTime + Backoff)
    /\ run = NoRun \/ (run.v = version /\ waiting /\ run.at > published_at)
    /\ took \subseteq orderEvents /\ known = operators
    /\ \A r \in Relays, a \in Address : relay[r][a].v \in 0..newest[r][a] /\ newest[r][a] \in 0..version
    /\ {book.v, archive.v, chain.v, mine.v} \subseteq 0..version

\* No relay falls back: whatever crashed, was retried or fell into one second, an
\* event built later is the one that stays at its address (ln/effects.ts, "monotone").
NewestStays == \A r \in Relays, a \in Address : relay[r][a].v = newest[r][a]

\* When nothing waits to be published, every recipient who can be reached finds
\* the order as it is at some relay, and for the others an operator was told
\* (orders/publish.ts; the operators' list of orders/designated.ts).
NothingWaitingMeansPublished ==
    ~waiting /\ ~lapsed =>
        /\ \A a \in orderEvents : \E r \in Relays : relay[r][a].v = version
        /\ Designated => (Parties \cup operators) \cap Unsealable \subseteq alerted

\* The screens that compare times never show an earlier order again (sponsor/
\* order-store.ts, idb.ts and onchain/store.ts).
NeverBack == book'.v >= book.v /\ archive'.v >= archive.v /\ chain'.v >= chain.v

\* What happened last is shown in the end.
Shown(v) == lapsed \/ version > v \/ (book.v >= v /\ archive.v >= v /\ chain.v >= v)
LatestGetsThrough == \A v \in 1..MaxVersion : (version = v) ~> Shown(v)

\* A later publication covers the earlier one (orders/publish.ts:51): the
\* customer's own list does not go back either.
CustomerNeverBack == [][mine'.v >= mine.v]_vars
=============================================================================
