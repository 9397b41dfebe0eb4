---------------------------- MODULE EffectQueue ----------------------------
(* The queue of external effects (daemon/src/effects.ts), the serial tick    *)
(* that drives it (runtime.ts), the alarm for effects that keep failing      *)
(* (admin/stuck.ts) and the coalesced publication of orders that rides on    *)
(* it.  A handler's transaction bumps an order's version and enqueues a      *)
(* projection under a dedup key; the executor reads the version when it      *)
(* runs, and onDone writes down what was sent.                               *)
EXTENDS Integers, FiniteSets, Sequences, SequencesExt

CONSTANTS
    Orders,        \* orders with a projection to publish
    Kinds,         \* kinds of effect; "publish" and "money" among them
    Limit,         \* [Kinds -> Nat]: maxAttempts, 0 when there is none
    Watched,       \* kinds named ln.*, oc.* or hold.*
    MaxEffects,    \* bound: rows the table may get
    MaxVersion,    \* bound: changes of an order
    MaxDelay,      \* the cap of the backoff, in units of its base
    BatchLimit,    \* rows one runDue takes (50)
    StuckAttempts, \* failures after which an operator is called (6)
    MaxCrashes     \* bound: restarts of the process

QueueAssumption ==
    /\ IsFiniteSet(Kinds) /\ {"publish", "money"} \subseteq Kinds /\ Watched \subseteq Kinds
    /\ Limit \in [Kinds -> Nat] /\ Limit["publish"] = 0
    /\ {MaxEffects, MaxVersion, MaxDelay, BatchLimit, StuckAttempts} \subseteq Nat \ {0}
    /\ MaxCrashes \in Nat /\ \A k \in Kinds : Limit[k] <= StuckAttempts + 2

Ids == 1..MaxEffects
None == 0
\* Attempts are counted up to the point where nothing depends on them further.
MaxAttempts == StuckAttempts + 1

ASSUME QueueAssumed == QueueAssumption

VARIABLES
    effects,       \* the table, by id in order of insertion; wait is the time to next_at
    before,        \* ORDER BY next_at, id: of two effects that are due, which comes first
    version,       \* version of each order
    sent,          \* the version onDone noted as published
    alarmed,       \* effects an alert was raised for
    follow,        \* how often onDone's transition was committed, by effect
    acted,         \* effects the outside world carried out
    stage,         \* where the tick is
    batch,         \* the effects runDue has selected and not run yet
    running,       \* the effect whose run is awaited
    seen,          \* the version that run has read
    crashes

table == <<effects, before, version, sent, alarmed, follow, acted>>
tick == <<stage, batch, running, seen>>
vars == <<table, tick, crashes>>

Pending(i) == i \in DOMAIN effects /\ effects[i].status = "pending"
PendingIds == {i \in DOMAIN effects : effects[i].status = "pending"}
DueIn(tab) == {i \in DOMAIN tab : tab[i].status = "pending" /\ tab[i].wait = 0}
Due == DueIn(effects)

\* The backoff doubles from its base and stops at the cap.
backoffMs(attempts) ==
    LET d == 2 ^ (IF attempts > 1 THEN attempts - 1 ELSE 0)
    IN  IF d \in 1..MaxDelay THEN d ELSE MaxDelay

Waits(tab, kind, o) ==
    \E i \in DOMAIN tab : tab[i].status = "pending" /\ tab[i].kind = kind /\ tab[i].order = o
Row(kind, o) ==
    [kind |-> kind, order |-> o, status |-> "pending", attempts |-> 0, wait |-> 0]
\* Rows for these kinds, one after the other.
Insert(tab, kinds, o) == tab \o [n \in DOMAIN SetToSeq(kinds) |-> Row(SetToSeq(kinds)[n], o)]

\* Mutant: the dedup key is unique among all rows, finished ones included.
Enqueue_onceEver(tab, kinds, o) ==
    Insert(tab, {k \in kinds : ~ \E i \in DOMAIN tab : tab[i].kind = k /\ tab[i].order = o}, o)

\* Mutant: no dedup key.
Enqueue_always(tab, kinds, o) == Insert(tab, kinds, o)

\* INSERT OR IGNORE: a waiting effect with the same dedup key swallows the new one.
Enqueue(tab, kinds, o) == Insert(tab, {k \in kinds : ~Waits(tab, k, o)}, o)

\* The order of the due effects after the table has become tab: those that came due
\* now line up behind those that were due before.
Requeue(tab) ==
    {p \in DueIn(tab) \X DueIn(tab) :
        CASE p[1] \in Due /\ p[2] \in Due       -> p \in before
          [] p[1] \notin Due /\ p[2] \notin Due -> p[1] < p[2]
          [] OTHER                              -> p[1] \in Due}

Write(tab) == effects' = tab /\ before' = Requeue(tab)

Init ==
    /\ effects = <<>> /\ before = {} /\ alarmed = {} /\ acted = {}
    /\ version = [o \in Orders |-> 0] /\ sent = [o \in Orders |-> 0]
    /\ follow = [i \in Ids |-> 0]
    /\ stage = "idle" /\ batch = {} /\ running = None /\ seen = 0
    /\ crashes = 0

BeginTick ==
    /\ stage = "idle"
    /\ stage' = "judge"
    /\ UNCHANGED <<table, batch, running, seen, crashes>>

\* The dispatcher or a watcher changes an order: its new version and the
\* intents are one transaction.  Some changes also ask for an effect that
\* moves money or may be given up.
Judge(o, kinds) ==
    /\ stage = "judge"
    /\ version[o] < MaxVersion
    /\ Len(effects) + 1 + Cardinality(kinds) <= MaxEffects
    /\ version' = [version EXCEPT ![o] = @ + 1]
    /\ Write(Enqueue(effects, {"publish"} \cup kinds, o))
    /\ UNCHANGED <<sent, alarmed, follow, acted, tick, crashes>>

\* The operator's "try again" brings a waiting effect forward.
expedite(i) ==
    /\ stage = "judge"
    /\ Pending(i) /\ effects[i].wait > 0
    /\ Write([effects EXCEPT ![i].wait = 0])
    /\ UNCHANGED <<version, sent, alarmed, follow, acted, tick, crashes>>

\* Mutant: an operator is called one failure too late.
Stuck_late == {i \in PendingIds : effects[i].kind \in Watched /\ effects[i].attempts > StuckAttempts}

Stuck == {i \in PendingIds : effects[i].kind \in Watched /\ effects[i].attempts >= StuckAttempts}

raiseStuckEffects ==
    /\ stage = "judge"
    /\ alarmed' = alarmed \cup Stuck
    /\ stage' = "stuck"
    /\ UNCHANGED <<effects, before, version, sent, follow, acted, batch, running, seen, crashes>>

\* The batch is selected once: what comes due later waits for the next tick.
runDue ==
    /\ stage = "stuck"
    /\ batch' = {i \in Due : Cardinality({j \in Due : <<j, i>> \in before}) < BatchLimit}
    /\ stage' = "run"
    /\ UNCHANGED <<table, running, seen, crashes>>

runOne ==
    /\ stage = "run" /\ running = None
    /\ \E i \in batch :
          /\ \A j \in batch : <<j, i>> \notin before
          /\ running' = i
          /\ batch' = batch \ {i}
          /\ seen' = version[effects[i].order]
    /\ UNCHANGED <<table, stage, crashes>>

\* The outside world does what is asked; its answer may still be lost.
Act ==
    /\ running # None
    /\ acted' = acted \cup {running}
    /\ UNCHANGED <<effects, before, version, sent, alarmed, follow, tick, crashes>>

Retried(i) ==
    LET n == IF effects[i].attempts < MaxAttempts THEN effects[i].attempts + 1 ELSE MaxAttempts
    IN  [effects EXCEPT ![i] = [@ EXCEPT !.attempts = n, !.wait = backoffMs(n)]]

Exhausted(i) ==
    LET k == effects[i].kind IN Limit[k] > 0 /\ effects[i].attempts + 1 >= Limit[k]

\* Nothing reads the attempts and the due time of a finished row again.
finish(i, status) ==
    [effects EXCEPT ![i] = [@ EXCEPT !.status = status, !.attempts = 0, !.wait = 0]]

Return == running' = None /\ seen' = 0 /\ UNCHANGED <<stage, batch>>

\* Success: the row is closed first, then onDone writes its transition in the
\* same transaction.  A publication notes what it sent; a payment changes the
\* order, which asks for a new publication.
AnswerDone ==
    /\ running # None /\ running \in acted
    /\ LET i == running
           o == effects[i].order
           closed == finish(i, "done")
       IN  /\ follow' = [follow EXCEPT ![i] = @ + 1]
           /\ \/ /\ effects[i].kind # "money"
                 /\ Write(closed)
                 /\ sent' = IF effects[i].kind = "publish" THEN [sent EXCEPT ![o] = seen] ELSE sent
                 /\ UNCHANGED version
              \/ /\ effects[i].kind = "money"
                 /\ Len(effects) < MaxEffects
                 /\ version' = [version EXCEPT ![o] = @ + 1]
                 /\ Write(Enqueue(closed, {"publish"}, o))
                 /\ UNCHANGED sent
    /\ Return
    /\ UNCHANGED <<alarmed, acted, crashes>>

\* Mutant: what onDone wrote stays when it throws.
Retry_halfDone ==
    /\ running # None
    /\ ~Exhausted(running)
    /\ Write(Retried(running))
    /\ follow' = [follow EXCEPT ![running] = 1]
    /\ Return
    /\ UNCHANGED <<version, sent, alarmed, acted, crashes>>

\* A failure, a lost answer, or an onDone that throws and takes the record of
\* the success back with it.
Retry ==
    /\ running # None
    /\ ~Exhausted(running)
    /\ Write(Retried(running))
    /\ Return
    /\ UNCHANGED <<version, sent, alarmed, follow, acted, crashes>>

\* The executor gives up by itself, or its attempts are used up.
Kill ==
    /\ running # None
    /\ effects[running].kind # "publish"
    /\ Write(finish(running, "dead"))
    /\ Return
    /\ UNCHANGED <<version, sent, alarmed, follow, acted, crashes>>

EndTick ==
    /\ stage = "run" /\ running = None /\ batch = {}
    /\ stage' = "idle"
    /\ UNCHANGED <<table, batch, running, seen, crashes>>

Nearer ==
    [i \in DOMAIN effects |->
        IF effects[i].wait > 0 THEN [effects[i] EXCEPT !.wait = @ - 1] ELSE effects[i]]

\* Time goes by, during a tick as well as between ticks.
Pass ==
    /\ \E i \in PendingIds : effects[i].wait > 0
    /\ Write(Nearer)
    /\ UNCHANGED <<version, sent, alarmed, follow, acted, tick, crashes>>

\* The process dies and starts again: what is not in the table is gone.
Crash ==
    /\ crashes < MaxCrashes /\ stage # "idle"
    /\ crashes' = crashes + 1
    /\ stage' = "idle" /\ batch' = {} /\ running' = None /\ seen' = 0
    /\ UNCHANGED table

Loop == BeginTick \/ raiseStuckEffects \/ runDue \/ runOne \/ EndTick
Outcome == Act \/ AnswerDone \/ Retry \/ Kill

Next ==
    \/ Loop \/ Outcome \/ Pass \/ Crash
    \/ \E o \in Orders, ks \in SUBSET (Kinds \ {"publish"}) : Judge(o, ks)
    \/ \E i \in Ids : expedite(i)

\* The timer always starts another tick, and every call returns in the end,
\* with an answer or a timeout.
Fairness == WF_vars(Loop) /\ WF_vars(Outcome) /\ WF_vars(Pass)
\* The outside world does not refuse one effect for ever.
WorldAnswers ==
    \A i \in Ids : SF_vars(AnswerDone /\ running = i) /\ SF_vars(Act /\ running = i)

Spec == Init /\ [][Next]_vars
FairSpec == Spec /\ Fairness
AnsweringSpec == FairSpec /\ WorldAnswers

-----------------------------------------------------------------------------

Effect == [kind : Kinds, order : Orders, status : {"pending", "done", "dead"},
           attempts : 0..MaxAttempts, wait : 0..MaxDelay]

\* The rows, and the dedup index: one effect waits per kind and order (the partial
\* unique index of migrations.ts).
IsTable(tab) ==
    /\ tab \in Seq(Effect) /\ Len(tab) <= MaxEffects
    /\ \A i, j \in DOMAIN tab :
           tab[i].status = "pending" /\ tab[j].status = "pending"
               /\ tab[i].kind = tab[j].kind /\ tab[i].order = tab[j].order => i = j

IsOrder(r, S) ==
    /\ r \subseteq S \X S
    /\ \A i, j \in S : i # j => (<<i, j>> \in r \/ <<j, i>> \in r)
    /\ \A i, j \in S : ~ (<<i, j>> \in r /\ <<j, i>> \in r)
    /\ \A i, j, k \in S : <<i, j>> \in r /\ <<j, k>> \in r => <<i, k>> \in r

\* The shape of the table and of the tick: what the tick holds waits and is due, and
\* outside of runDue it holds nothing; ORDER BY next_at, id is a strict order of what is
\* due, and one effect waits per dedup key (effects.ts, migrations.ts, runtime.ts).
TypeOK ==
    /\ IsTable(effects) /\ IsOrder(before, Due)
    /\ version \in [Orders -> Nat]
    /\ sent \in [Orders -> Nat]
    /\ alarmed \subseteq DOMAIN effects /\ acted \subseteq DOMAIN effects
    /\ follow \in [Ids -> Nat]
    /\ stage \in {"idle", "judge", "stuck", "run"} /\ crashes \in 0..MaxCrashes
    /\ running # None => stage = "run" /\ running \in Due \ batch
    /\ batch \subseteq Due /\ (batch # {} => stage = "run")
    /\ seen \in Nat

\* Coalescing loses nothing: as long as the last change of an order has not been
\* noted as sent, an effect waits that will send it (effects.ts enqueue, ln/store.ts
\* updateOrder).  It needs that no change is made while a run is under way.
NoChangeUnsent ==
    \A o \in Orders : sent[o] < version[o] =>
        \E i \in PendingIds : effects[i].kind = "publish" /\ effects[i].order = o

\* A watched effect is not tried once more after StuckAttempts failures before
\* an operator has been called (stuck.ts, the order of the stages in runtime.ts).
NobodyFailsUnheard ==
    running # None /\ effects[running].kind \in Watched
        /\ effects[running].attempts >= StuckAttempts => running \in alarmed

Promise == INSTANCE EffectPromise WITH
    owed <- PendingIds,
    acted <- acted,
    done <- {i \in DOMAIN effects : effects[i].status = "done"},
    dead <- {i \in DOMAIN effects : effects[i].status = "dead"},
    follow <- follow

\* The queue keeps its promise through crashes, lost answers and throwing
\* handlers: done only after it was carried out, its transition made once.
KeepsPromise == Promise!Spec

\* No effect starves: whatever else keeps failing, a waiting effect is run again
\* (effects.ts runDue: the limit, the order by next_at and the backoff).
Runs(i) == running = i \/ ~Pending(i)
EveryEffectRuns == \A i \in Ids : Pending(i) ~> Runs(i)

\* What changed is sent in the end, if the relays answer now and then.
ChangesGetOut ==
    \A o \in Orders : \A v \in 1..MaxVersion : version[o] = v ~> sent[o] >= v
=============================================================================
