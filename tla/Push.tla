-------------------------------- MODULE Push --------------------------------
(* Web push, from the button in the browser to the notice on the screen: one account's    *)
(* browsers (customer/src/push, components/NotifySetup.tsx, public/sw.js), the daemon's   *)
(* table of subscriptions and its sender (daemon/src/push/send.ts), the push service and  *)
(* the key that signs (VAPID), which the operator may change.  A subscription is bound    *)
(* for ever to the key it was made with.                                                  *)
EXTENDS Integers, Sequences, FiniteSets

CONSTANTS
    Devices,     \* the account's browsers
    MaxKey,      \* how many keys the operator ever uses
    MaxEp,       \* how many subscriptions are ever made
    Versions,    \* transitions of the order that are the account's turn
    Chats,       \* messages in the order's chat
    MaxFaults,   \* posts to the push service that fail
    MaxCrashes,  \* restarts of the daemon in the middle of a send
    Breaks,      \* steps in a browser that fail or are cut off by closing the page
    Disables     \* how often notices are switched off

PushAssumption ==
    /\ MaxKey \in Nat \ {0}
    /\ {MaxEp, Versions, Chats, MaxFaults, MaxCrashes, Breaks, Disables} \subseteq Nat

None == 0
Eps == 1..MaxEp
NoSub == [ep |-> None, key |-> None]
Pushes == ({"order"} \X (1..Versions)) \cup ({"chat"} \X (1..Chats)) \cup ({"welcome"} \X Eps)
maxAttempts == 3

VARIABLES
    key,       \* the key pair the daemon signs with
    built,     \* VAPID_PUBLIC_KEY of the page that is open; None: no page
    sub,       \* pushManager's subscription
    mig,       \* migratePushSubscriptionIfKeyChanged: "idle" or where it waits
    migEp,     \* the subscription it is about to publish
    lost,      \* a migration went wrong and nothing has made up for it
    pan,       \* NotifySetup's state, or where its handler waits
    panEp,     \* the subscription the handler is about to publish
    wire,      \* registrations on their way to the daemon
    made,      \* the subscriptions there have been
    rows,      \* push_subs: "none", "live" or "dead"
    status,    \* the effects: "none", "queued", "waiting", "done", "failed"
    attempts,  \* attempts
    queue,     \* the effects that are due, in the order in which they run
    run,       \* the effect that runs: what it posts to, what it met
    answered,  \* how often the push service took a push for a subscription
    visible,   \* the notices on each screen
    newest,    \* the newest turn ever shown on each screen
    left       \* what is left of the bounds
browser == <<built, sub, mig, migEp, lost, pan, panEp, made>>
daemon == <<rows, status, attempts, queue, run>>
screens == <<answered, visible, newest>>
vars == <<key, browser, wire, daemon, screens, left>>

Idle == [push |-> <<"none", 0>>, to |-> {}, total |-> 0, dead |-> {}, ok |-> 0, errs |-> 0]

Init ==
    /\ key = 1
    /\ built = [d \in Devices |-> None] /\ sub = [d \in Devices |-> NoSub]
    /\ mig = [d \in Devices |-> "idle"] /\ migEp = [d \in Devices |-> None]
    /\ lost = [d \in Devices |-> FALSE]
    /\ pan = [d \in Devices |-> "closed"] /\ panEp = [d \in Devices |-> None]
    /\ wire = {} /\ made = 0
    /\ rows = [e \in Eps |-> "none"]
    /\ status = [p \in Pushes |-> "none"] /\ attempts = [p \in Pushes |-> 0]
    /\ queue = <<>> /\ run = Idle
    /\ answered = [p \in Pushes |-> [e \in Eps |-> 0]]
    /\ visible = [d \in Devices |-> {}] /\ newest = [d \in Devices |-> 0]
    /\ left = [faults |-> MaxFaults, crashes |-> MaxCrashes, breaks |-> Breaks, disables |-> Disables]

Spend(what) == left[what] > 0 /\ left' = [left EXCEPT ![what] = @ - 1]

(* ------------------------------- the browser ------------------------------- *)
usesCurrentKey(d) == sub[d].key = built[d]
Working(d) == pan[d] \in {"unsubscribe", "subscribe", "publish"}

\* The page is opened, or opened again: what it knew is gone, what the browser keeps is not.
\* An old subscription is noticed here and nowhere else.
Boot(d) ==
    /\ mig[d] = "idle" /\ ~Working(d)
    /\ built[d] # key
    /\ built' = [built EXCEPT ![d] = key]
    /\ mig' = [mig EXCEPT ![d] = IF sub[d] = NoSub \/ sub[d].key = key THEN "idle" ELSE "unsubscribe"]
    /\ pan' = [pan EXCEPT ![d] = "closed"]
    /\ UNCHANGED <<key, sub, migEp, lost, panEp, made, wire, daemon, screens, left>>

\* The page is closed, perhaps in the middle of something.
ClosePage(d) ==
    /\ built[d] # None
    /\ IF mig[d] = "idle" /\ ~Working(d) THEN UNCHANGED left ELSE Spend("breaks")
    /\ built' = [built EXCEPT ![d] = None]
    /\ lost' = [lost EXCEPT ![d] = @ \/ mig[d] \in {"subscribe", "publish"}]
    /\ mig' = [mig EXCEPT ![d] = "idle"] /\ migEp' = [migEp EXCEPT ![d] = None]
    /\ pan' = [pan EXCEPT ![d] = "closed"] /\ panEp' = [panEp EXCEPT ![d] = None]
    /\ UNCHANGED <<key, sub, made, wire, daemon, screens>>

\* pushManager.subscribe: one that is there and has this key is given again.
Subscribed(d) ==
    IF sub[d] # NoSub
    THEN usesCurrentKey(d) /\ UNCHANGED <<sub, made>>
    ELSE /\ made < MaxEp
         /\ made' = made + 1
         /\ sub' = [sub EXCEPT ![d] = [ep |-> made + 1, key |-> built[d]]]

MigUnsubscribes(d) ==
    /\ mig[d] = "unsubscribe"
    /\ sub' = [sub EXCEPT ![d] = IF usesCurrentKey(d) THEN @ ELSE NoSub]
    /\ mig' = [mig EXCEPT ![d] = "subscribe"]
    /\ UNCHANGED <<key, built, migEp, lost, pan, panEp, made, wire, daemon, screens, left>>

MigSubscribes(d) ==
    /\ mig[d] = "subscribe"
    /\ Subscribed(d)
    /\ migEp' = [migEp EXCEPT ![d] = sub'[d].ep]
    /\ mig' = [mig EXCEPT ![d] = "publish"]
    /\ UNCHANGED <<key, built, lost, pan, panEp, wire, daemon, screens, left>>

\* What publish answers is not looked at.
MigPublishes(d) ==
    /\ mig[d] = "publish"
    /\ wire' = wire \cup {migEp[d]}
    /\ mig' = [mig EXCEPT ![d] = "idle"] /\ migEp' = [migEp EXCEPT ![d] = None]
    /\ UNCHANGED <<key, built, sub, lost, pan, panEp, made, daemon, screens, left>>

\* The push service, or every relay, cannot be reached.
MigFails(d) ==
    /\ mig[d] \in {"subscribe", "publish"}
    /\ Spend("breaks")
    /\ lost' = [lost EXCEPT ![d] = TRUE]
    /\ mig' = [mig EXCEPT ![d] = "idle"] /\ migEp' = [migEp EXCEPT ![d] = None]
    /\ UNCHANGED <<key, built, sub, pan, panEp, made, wire, daemon, screens>>

\* The window of settings: what getExistingSubscription says.
OpenSetup(d) ==
    /\ built[d] # None /\ pan[d] = "closed"
    /\ pan' = [pan EXCEPT ![d] = IF sub[d] # NoSub /\ usesCurrentKey(d) THEN "on" ELSE "off"]
    /\ UNCHANGED <<key, built, sub, mig, migEp, lost, panEp, made, wire, daemon, screens, left>>

CloseSetup(d) ==
    /\ pan[d] \in {"on", "off", "error"}
    /\ pan' = [pan EXCEPT ![d] = "closed"]
    /\ UNCHANGED <<key, built, sub, mig, migEp, lost, panEp, made, wire, daemon, screens, left>>

\* handleEnable, and subscribeToPush up to its first change: one that is there and is
\* current is used as it is.
Enable(d) ==
    /\ pan[d] \in {"off", "error"}
    /\ IF sub[d] # NoSub /\ usesCurrentKey(d)
       THEN pan' = [pan EXCEPT ![d] = "publish"] /\ panEp' = [panEp EXCEPT ![d] = sub[d].ep]
       ELSE /\ pan' = [pan EXCEPT ![d] = IF sub[d] = NoSub THEN "subscribe" ELSE "unsubscribe"]
            /\ UNCHANGED panEp
    /\ UNCHANGED <<key, built, sub, mig, migEp, lost, made, wire, daemon, screens, left>>

EnableUnsubscribes(d) ==
    /\ pan[d] = "unsubscribe"
    /\ sub' = [sub EXCEPT ![d] = IF usesCurrentKey(d) THEN @ ELSE NoSub]
    /\ pan' = [pan EXCEPT ![d] = "subscribe"]
    /\ UNCHANGED <<key, built, mig, migEp, lost, panEp, made, wire, daemon, screens, left>>

EnableSubscribes(d) ==
    /\ pan[d] = "subscribe"
    /\ Subscribed(d)
    /\ panEp' = [panEp EXCEPT ![d] = sub'[d].ep]
    /\ pan' = [pan EXCEPT ![d] = "publish"]
    /\ UNCHANGED <<key, built, mig, migEp, lost, wire, daemon, screens, left>>

EnablePublishes(d) ==
    /\ pan[d] = "publish"
    /\ wire' = wire \cup {panEp[d]}
    /\ pan' = [pan EXCEPT ![d] = "on"] /\ panEp' = [panEp EXCEPT ![d] = None]
    /\ lost' = [lost EXCEPT ![d] = FALSE]
    /\ UNCHANGED <<key, built, sub, mig, migEp, made, daemon, screens, left>>

EnableFails(d) ==
    /\ pan[d] \in {"subscribe", "publish"}
    /\ Spend("breaks")
    /\ pan' = [pan EXCEPT ![d] = "error"] /\ panEp' = [panEp EXCEPT ![d] = None]
    /\ UNCHANGED <<key, built, sub, mig, migEp, lost, made, wire, daemon, screens>>

\* handleDisable: the browser's subscription only; the daemon finds out by a 410.
Disable(d) ==
    /\ pan[d] = "on" /\ Spend("disables")
    /\ pan' = [pan EXCEPT ![d] = "off"]
    /\ sub' = [sub EXCEPT ![d] = NoSub]
    /\ lost' = [lost EXCEPT ![d] = FALSE]
    /\ UNCHANGED <<key, built, mig, migEp, panEp, made, wire, daemon, screens>>

(* -------------------------------- the daemon -------------------------------- *)
\* The operator changes the key: the daemon's setting and the app's constant.
ChangeKey ==
    /\ key < MaxKey /\ run = Idle
    /\ key' = key + 1
    /\ UNCHANGED <<browser, wire, daemon, screens, left>>

Enqueue(p) ==
    /\ status' = [status EXCEPT ![p] = "queued"]
    /\ attempts' = [attempts EXCEPT ![p] = 0]
    /\ queue' = Append(queue, p)

saveSubscription(e) == rows' = [rows EXCEPT ![e] = "live"]

\* A registration: a device that is new, or was given up, gets a welcome of its own.
\* Requests are judged between two rounds of effects.
pushSubscription(e) ==
    /\ e \in wire /\ run = Idle
    /\ wire' = wire \ {e}
    /\ saveSubscription(e)
    /\ IF rows[e] = "live" THEN UNCHANGED <<status, attempts, queue>> ELSE Enqueue(<<"welcome", e>>)
    /\ UNCHANGED <<key, browser, run, screens, left>>

\* A notice: once per key in notices, which here is the push itself.  Turns come in order.
deliver(p) ==
    /\ status[p] = "none" /\ p[1] # "welcome" /\ run = Idle
    /\ \A q \in Pushes : q[1] = p[1] /\ q[2] < p[2] => status[q] # "none"
    /\ Enqueue(p)
    /\ UNCHANGED <<key, browser, wire, rows, run, screens, left>>

\* Backoff is over.
Due(p) ==
    /\ status[p] = "waiting"
    /\ status' = [status EXCEPT ![p] = "queued"]
    /\ queue' = Append(queue, p)
    /\ UNCHANGED <<key, browser, wire, rows, attempts, run, screens, left>>

Live == {e \in Eps : rows[e] = "live"}
Addressees(p) == IF p[1] = "welcome" THEN Live \cap {p[2]} ELSE Live

Start ==
    /\ run = Idle /\ queue # <<>>
    /\ LET p == Head(queue) IN
       run' = [push |-> p, to |-> Addressees(p), total |-> Cardinality(Addressees(p)),
               dead |-> {}, ok |-> 0, errs |-> 0]
    /\ UNCHANGED <<key, browser, wire, rows, status, attempts, queue, screens, left>>

Holder(e) == {d \in Devices : sub[d].ep = e}

\* asPush and what overrides its tag: the order's own, the chat's, the welcome's.
Tag(p) == p[1]

\* sw.js: a notice takes the place of the one with its tag.
Show(d, p) ==
    /\ visible' = [visible EXCEPT ![d] = {q \in @ : Tag(q) # Tag(p)} \cup {p}]
    /\ newest' = [newest EXCEPT ![d] = IF p[1] = "order" /\ p[2] > @ THEN p[2] ELSE @]

Rings(e, p) == \E d \in Holder(e) : Show(d, p)

\* The daemon's signature is by the key that the subscription was made with.
VapidFits(e) == \A d \in Holder(e) : sub[d].key = key

\* What the push service says of subscription e.
Answer(e) ==
    CASE Holder(e) = {} -> "gone"
      [] ~VapidFits(e) -> "refused"
      [] OTHER -> "taken"

\* Mutant: every refusal is taken for the end of the subscription.
Verdict_harsh(r, e) ==
    CASE Answer(e) = "taken" -> [r EXCEPT !.to = @ \ {e}, !.ok = @ + 1]
      [] OTHER -> [r EXCEPT !.to = @ \ {e}, !.dead = @ \cup {e}]

\* 404 and 410 end a subscription; any other refusal is logged.
Verdict(r, e) ==
    CASE Answer(e) = "taken" -> [r EXCEPT !.to = @ \ {e}, !.ok = @ + 1]
      [] Answer(e) = "gone" -> [r EXCEPT !.to = @ \ {e}, !.dead = @ \cup {e}]
      [] Answer(e) = "refused" -> [r EXCEPT !.to = @ \ {e}]

Post ==
    /\ run.to # {}
    /\ LET e == CHOOSE f \in run.to : \A g \in run.to : f <= g IN
       /\ run' = Verdict(run, e)
       /\ IF Answer(e) = "taken"
          THEN /\ answered' = [answered EXCEPT ![run.push][e] = @ + 1]
               /\ Rings(e, run.push)
          ELSE UNCHANGED screens
    /\ UNCHANGED <<key, browser, wire, rows, status, attempts, queue, left>>

\* No answer: the push may have been taken all the same.
PostFails(taken) ==
    /\ run.to # {} /\ Spend("faults")
    /\ LET e == CHOOSE f \in run.to : \A g \in run.to : f <= g IN
       /\ run' = [run EXCEPT !.to = @ \ {e}, !.errs = @ + 1]
       /\ IF taken /\ Answer(e) = "taken"
          THEN Rings(e, run.push) /\ UNCHANGED answered
          ELSE ~taken /\ UNCHANGED screens
    /\ UNCHANGED <<key, browser, wire, rows, status, attempts, queue>>

TryAgain(r) == r.total > 0 /\ r.errs = r.total

Again(p) == IF attempts[p] + 1 >= maxAttempts THEN "failed" ELSE "waiting"

\* The executor returns, and what it says is written in one transaction.
Finish ==
    /\ run # Idle /\ run.to = {}
    /\ LET p == run.push IN
       IF TryAgain(run)
       THEN /\ status' = [status EXCEPT ![p] = Again(p)]
            /\ attempts' = [attempts EXCEPT ![p] = @ + 1]
            /\ UNCHANGED rows
       ELSE /\ status' = [status EXCEPT ![p] = "done"]
            /\ rows' = [e \in Eps |-> IF e \in run.dead THEN "dead" ELSE rows[e]]
            /\ UNCHANGED attempts
    /\ queue' = Tail(queue)
    /\ run' = Idle
    /\ UNCHANGED <<key, browser, wire, screens, left>>

\* The daemon restarts in the middle: the effect is as it was before it ran.
Crash ==
    /\ run # Idle /\ Spend("crashes")
    /\ run' = Idle
    /\ UNCHANGED <<key, browser, wire, rows, status, attempts, queue, screens>>

AtBrowser(d) ==
    \/ Boot(d) \/ ClosePage(d) \/ OpenSetup(d) \/ CloseSetup(d) \/ Enable(d) \/ Disable(d)
    \/ MigUnsubscribes(d) \/ MigSubscribes(d) \/ MigPublishes(d) \/ MigFails(d)
    \/ EnableUnsubscribes(d) \/ EnableSubscribes(d) \/ EnablePublishes(d) \/ EnableFails(d)

Next ==
    \/ \E d \in Devices : AtBrowser(d)
    \/ ChangeKey \/ Start \/ Post \/ Finish \/ Crash
    \/ \E e \in Eps : pushSubscription(e)
    \/ \E p \in Pushes : deliver(p) \/ Due(p)
    \/ \E taken \in BOOLEAN : PostFails(taken)

\* Handlers go on by themselves, relays deliver, the queue runs.
Fairness ==
    /\ \A d \in Devices :
        /\ WF_vars(MigUnsubscribes(d)) /\ WF_vars(MigSubscribes(d)) /\ WF_vars(MigPublishes(d))
        /\ WF_vars(EnableUnsubscribes(d)) /\ WF_vars(EnableSubscribes(d)) /\ WF_vars(EnablePublishes(d))
    /\ \A e \in Eps : WF_vars(pushSubscription(e))
    /\ \A p \in Pushes : WF_vars(Due(p))
    /\ WF_vars(Start) /\ WF_vars(Post) /\ WF_vars(Finish)

Spec == Init /\ [][Next]_vars
FairSpec == Spec /\ Fairness

(* -------------------------------- properties -------------------------------- *)
\* Every variable holds what the code can put there.
TypeOK ==
    /\ key \in 1..MaxKey /\ built \in [Devices -> 0..MaxKey]
    /\ sub \in [Devices -> [ep : 0..MaxEp, key : 0..MaxKey]]
    /\ mig \in [Devices -> {"idle", "unsubscribe", "subscribe", "publish"}]
    /\ migEp \in [Devices -> 0..MaxEp] /\ lost \in [Devices -> BOOLEAN]
    /\ pan \in [Devices -> {"closed", "off", "on", "error", "unsubscribe", "subscribe", "publish"}]
    /\ panEp \in [Devices -> 0..MaxEp]
    /\ wire \subseteq Eps /\ made \in 0..MaxEp
    /\ rows \in [Eps -> {"none", "live", "dead"}]
    /\ status \in [Pushes -> {"none", "queued", "waiting", "done", "failed"}]
    /\ attempts \in [Pushes -> Nat] /\ queue \in Seq(Pushes)
    /\ run.dead \cap run.to = {} /\ run.ok + run.errs <= run.total
    /\ \A d \in Devices : visible[d] \subseteq Pushes

\* A push that can ring somewhere is queued once.  (A device that was given up and registers
\* anew may have two welcomes waiting; no browser holds such a subscription any more.)
MayRing(p) == p[1] # "welcome" \/ Holder(p[2]) # {}
QueuedOnce == \A i, j \in DOMAIN queue : queue[i] = queue[j] /\ MayRing(queue[i]) => i = j

\* A subscription that a browser still holds is never given up: a refusal for the sake of
\* the key, or a post that fails, is not the end of a device (send.ts: 404 and 410 only).
NoLiveDeviceGivenUp == \A d \in Devices : sub[d] # NoSub => rows[sub[d].ep] # "dead"

\* The push service answers "taken" at most once for a push and a device, but for
\* restarts: a device that was reached is not sent to again because another was not.
ReachedOnce ==
    \A p \in Pushes, e \in Eps : answered[p][e] <= 1 + (MaxCrashes - left.crashes)

\* A screen that was ever told "your turn" still says so: the chat's notices do not wipe
\* it away.
TurnStaysVisible ==
    \A d \in Devices : newest[d] > 0 => \E q \in visible[d] : q[1] = "order"

Known(e) == e \in wire \/ rows[e] = "live"

\* When the window says "on", the daemon was told of this subscription, or a migration is
\* about to tell it (NotifySetup.tsx: "on" is what the browser has).
OnIsKnown ==
    \A d \in Devices :
        pan[d] = "on" /\ built[d] = key /\ sub[d] # NoSub
            => Known(sub[d].ep) \/ mig[d] # "idle"

\* A browser whose migration went wrong tries again when the page is opened next
\* (subscribe.ts: "it is tried again at the next boot").
NextBootTriesAgain == [][\A d \in Devices : lost[d] /\ Boot(d) => mig'[d] # "idle"]_vars

\* A send that ended without reaching anyone ended because nobody can be reached, not
\* because of the network (send.ts: all failed, again; one was reached, done).
NobodyReachedIsTriedAgain ==
    [][Finish /\ run.ok = 0 /\ run.errs > 0 /\ attempts[run.push] + 1 < maxAttempts
        => status'[run.push] = "waiting"]_vars

\* Of the order's notices the screen shows the newest (sw.js: it is replaced by the latest).
LatestIsShown ==
    \A d \in Devices : \A q \in visible[d] : q[1] = "order" => q[2] = newest[d]

\* A migration that is not disturbed ends with a subscription that the daemon sends to.
Moves(d, k) == mig[d] # "idle" /\ built[d] = k
Moved(d, k) == sub[d].key >= k /\ rows[sub[d].ep] = "live"
MigrationArrives == \A d \in Devices, k \in 1..MaxKey : Moves(d, k) ~> Moved(d, k)

Rang(d, p) == \E e \in Eps : sub[d].ep = e /\ answered[p][e] > 0

\* One device, fewer failures than attempts: what is queued for it rings there, and so does
\* the welcome that tells its user that notices work.
Meant(d, p) ==
    /\ status[p] = "queued" /\ sub[d] # NoSub /\ rows[sub[d].ep] = "live"
    /\ p \notin ({"welcome"} \X (Eps \ {sub[d].ep}))
Noticed(d, p) == Rang(d, p) \/ p \in visible[d] \/ sub[d] = NoSub
OneDeviceIsRung == \A d \in Devices, p \in Pushes : Meant(d, p) ~> Noticed(d, p)
=============================================================================
