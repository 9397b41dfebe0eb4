----------------------------- MODULE Dispatch ------------------------------
(* From the inbox to the handlers: the timer that drives the tick            *)
(* (daemon/src/runtime.ts), the hold time and the order by created_at        *)
(* (dispatch.ts), a handler's transaction and what becomes of it when the    *)
(* handler throws or the process dies.  Time is relative, in units of which  *)
(* the hold time has a few.                                                  *)
EXTENDS Integers, FiniteSets

CONSTANTS
    Requests,      \* requests that may come in; their order is that of created_at
    Throwing,      \* those whose handler throws
    Unrouted,      \* those no handler takes
    Hold,          \* holdMs (1.5 s)
    TickEvery,     \* tickMs (15 s)
    Batch,         \* rows one runPending takes (200)
    FeesTake,      \* whether the tick first asks for fee rates over the network
    MaxRestarts    \* bound: stops and crashes

DispatchAssumption ==
    /\ Requests \subseteq Nat /\ Throwing \cup Unrouted \subseteq Requests
    /\ Hold \in Nat \ {0} /\ TickEvery \in Nat \ {0} /\ Batch \in Nat \ {0}
    /\ FeesTake \in BOOLEAN /\ MaxRestarts \in Nat

NotSet == -1

VARIABLES
    inbox,         \* requests received, with how long ago (up to Hold)
    outcome,       \* how each was closed
    applied,       \* how often a handler's writes were committed
    closeAfter,    \* <<a, b>>: b was received within Hold after a
    swapped,       \* <<a, b>> of closeAfter that were judged against created_at
    stage,         \* where the tick is: no tick, fees, judge, the rest of it
    rows,          \* the requests runPending has selected and not judged yet
    thrown,        \* the request whose handler has thrown and is not closed yet
    timer,         \* time to the next tick, NotSet without a timer
    stopped,
    restarts

vars == <<inbox, outcome, applied, closeAfter, swapped, stage, rows, thrown, timer, stopped, restarts>>

Received == DOMAIN inbox
Open == {e \in Received : outcome[e] = "none"}
nobody == -1
\* Requests are judged without an await, and so is what comes before them unless
\* the tick asks for fee rates first; nothing else runs and no time passes.
Yields == stage \in {"no", "rest"} \/ (stage = "fees" /\ FeesTake)

Init ==
    /\ inbox = [e \in {} |-> 0] /\ closeAfter = {} /\ swapped = {}
    /\ outcome = [e \in Requests |-> "none"] /\ applied = [e \in Requests |-> 0]
    /\ stage = "no" /\ rows = {} /\ thrown = nobody
    /\ timer = NotSet /\ stopped = TRUE /\ restarts = 0

\* setTimeout replaces the timer there is.
schedule(delay) == timer' = delay

start ==
    /\ stopped /\ stage = "no"
    /\ stopped' = FALSE
    /\ schedule(0)
    /\ UNCHANGED <<inbox, outcome, applied, closeAfter, swapped, stage, rows, thrown, restarts>>

\* Ingress has inserted a request, in a tick or between ticks, and pokes.
Receive(e) ==
    /\ ~stopped /\ Yields /\ e \notin Received
    /\ inbox' = [x \in Received \cup {e} |-> IF x = e THEN 0 ELSE inbox[x]]
    /\ closeAfter' = closeAfter \cup {<<a, e>> : a \in {x \in Received : inbox[x] < Hold}}
    /\ schedule(Hold)
    /\ UNCHANGED <<outcome, applied, swapped, stage, rows, thrown, stopped, restarts>>

\* The timer fires.  During a tick, tick() returns at once and the timer is set anew.
Fire ==
    /\ timer = 0 /\ Yields
    /\ IF stage = "no"
       THEN stage' = "fees" /\ timer' = NotSet
       ELSE schedule(TickEvery) /\ UNCHANGED stage
    /\ UNCHANGED <<inbox, outcome, applied, closeAfter, swapped, rows, thrown, stopped, restarts>>

\* What ORDER BY created_at with LIMIT n leaves of a set of requests.
Earliest(es, n) == {e \in es : Cardinality({x \in es : x < e}) < n}

\* Selected: what has been held long enough, by created_at.
runPending ==
    /\ stage = "fees"
    /\ rows' = Earliest({e \in Open : inbox[e] >= Hold}, Batch)
    /\ stage' = "judge"
    /\ UNCHANGED <<inbox, outcome, applied, closeAfter, swapped, thrown, timer, stopped, restarts>>

\* The requests that were judged before e although they were made after it.
Overtakers(e) == {<<a, e>> : a \in {x \in Received : x > e /\ outcome[x] # "none"}}

\* One request: no route, or its handler and the mark in one transaction.
process ==
    /\ stage = "judge" /\ thrown = nobody
    /\ \E e \in Earliest(rows, 1) :
         /\ rows' = rows \ {e}
         /\ swapped' = swapped \cup (Overtakers(e) \cap closeAfter)
         /\ IF e \in Throwing \ Unrouted
            THEN thrown' = e /\ UNCHANGED <<outcome, applied>>
            ELSE /\ outcome' = [outcome EXCEPT ![e] = IF e \in Unrouted THEN "ignored" ELSE "ok"]
                 /\ applied' = IF e \in Unrouted THEN applied ELSE [applied EXCEPT ![e] = @ + 1]
                 /\ UNCHANGED thrown
    /\ UNCHANGED <<inbox, closeAfter, stage, timer, stopped, restarts>>

\* The transaction was rolled back; the request is closed in one of its own.
closeAsError ==
    /\ thrown # nobody
    /\ outcome' = [outcome EXCEPT ![thrown] = "error"]
    /\ thrown' = nobody
    /\ UNCHANGED <<inbox, applied, closeAfter, swapped, stage, rows, timer, stopped, restarts>>

Judged ==
    /\ stage = "judge" /\ rows = {} /\ thrown = nobody
    /\ stage' = "rest"
    /\ UNCHANGED <<inbox, outcome, applied, closeAfter, swapped, rows, thrown, timer, stopped, restarts>>

\* The tick's end sets a timer unless one has been set meanwhile.
EndTick ==
    /\ stage = "rest"
    /\ stage' = "no"
    /\ IF ~stopped /\ timer = NotSet THEN schedule(TickEvery) ELSE UNCHANGED timer
    /\ UNCHANGED <<inbox, outcome, applied, closeAfter, swapped, rows, thrown, stopped, restarts>>

\* A stop lets the tick that is under way come to its end.
stop ==
    /\ ~stopped /\ restarts < MaxRestarts
    /\ restarts' = restarts + 1
    /\ stopped' = TRUE /\ timer' = NotSet
    /\ UNCHANGED <<inbox, outcome, applied, closeAfter, swapped, stage, rows, thrown>>

Crash ==
    /\ stage # "no" /\ restarts < MaxRestarts
    /\ restarts' = restarts + 1
    /\ stopped' = TRUE /\ timer' = NotSet /\ stage' = "no" /\ rows' = {} /\ thrown' = nobody
    /\ UNCHANGED <<inbox, outcome, applied, closeAfter, swapped>>

\* A timer that is due fires before time goes on.
Elapse ==
    /\ timer # 0 /\ Yields
    /\ timer > 0 \/ \E e \in Received : inbox[e] < Hold
    /\ timer' = IF timer > 0 THEN timer - 1 ELSE timer
    /\ inbox' = [e \in Received |-> IF inbox[e] < Hold THEN inbox[e] + 1 ELSE Hold]
    /\ UNCHANGED <<outcome, applied, closeAfter, swapped, stage, rows, thrown, stopped, restarts>>

Tick == runPending \/ process \/ closeAsError \/ Judged \/ EndTick

Next ==
    \/ start \/ stop \/ Crash \/ Fire \/ Tick \/ Elapse
    \/ \E e \in Requests : Receive(e)

Spec == Init /\ [][Next]_vars
\* Timers fire, calls return, and a daemon that stopped is started again.
FairSpec == Spec /\ WF_vars(Tick) /\ WF_vars(Fire) /\ WF_vars(Elapse) /\ WF_vars(start)

-----------------------------------------------------------------------------

TypeOK ==
    /\ Received \subseteq Requests /\ \A e \in Received : inbox[e] \in 0..Hold
    /\ outcome \in [Requests -> {"none", "ok", "ignored", "error"}] /\ applied \in [Requests -> 0..1]
    /\ \A e \in Requests : outcome[e] # "none" => e \in Received
    /\ rows \subseteq Open /\ thrown \in Open \cup {nobody}
    /\ stage \in {"no", "fees", "judge", "rest"}
    /\ timer \in {NotSet} \cup 0..(IF Hold > TickEvery THEN Hold ELSE TickEvery)

\* A handler's writes are there exactly if its request is closed as ok, once,
\* whatever throws and wherever the process dies (dispatch.ts process).
ExactlyIfOk == \A e \in Requests : applied[e] = IF outcome[e] = "ok" THEN 1 ELSE 0

\* While it is not stopped the daemon is in a tick or will start one: no
\* meeting of poke, the running tick and the timer puts it to sleep
\* (runtime.ts schedule, poke and the finally of tick).
NeverAsleep == ~stopped /\ stage = "no" => timer # NotSet

\* Requests that come in within the hold time of each other are judged in the
\* order in which they were made (dispatch.ts:4).
JudgedInOrder == swapped = {}

\* Whatever was received is closed in the end, and the tick keeps coming.
Closed(e) == outcome[e] # "none"
EveryRequestIsClosed == \A e \in Requests : e \in Received ~> Closed(e)
KeepsTicking == []<>(stage = "judge")

\* "A new event brings the tick forward" (runtime.ts:8, :203): it never puts it off.
PokeBringsForward ==
    [][\A e \in Requests : e \notin Received /\ e \in Received' /\ timer # NotSet
           => timer' <= timer]_vars
=============================================================================
