# PairBuy (lnpay): TLA+ models and proofs

PairBuy pairs somebody who wants to pay or sell with bitcoin (the *customer*) with somebody who sends
Korean won for it (the *sponsor*). One daemon is the escrow agent. It talks to LND (hold invoices,
payouts), to a chain index (on-chain track) and to the apps over nostr relays. This directory holds TLA+
models of the daemon, of the apps' and the userscript's own decisions, TLC runs that check them on small
instances, and TLAPS proofs. Paths are relative to the repository; `PROJECT.json` maps every definition to
the lines it stands for, lists the hazards with the properties that look at them, and for each property a
mutant of the code that breaks it.

## 1. Inventory

### Components, their state and operations

| Component | State | Operations | What makes it correct |
|---|---|---|---|
| Runtime (`daemon/src/runtime.ts`) | `ticking`, the timer | `tick`: requests, poll of invoices, clock, effects, in this order; `poke`, `stop` | what was paid is seen before it is judged missing; a tick that throws does not stop the next |
| Ingress (`nostr/ingress.ts`) | the cursor in `meta`, one subscription | `accept`, `since`, `reopen` | an event sent while the daemon was away is within reach of the next subscription |
| Dispatcher (`dispatch.ts`) | table `inbox` | `runPending` | judged once, in the order of creation, and applied exactly if the outcome is `ok` |
| Effect queue (`effects.ts`) | table `effects` | `enqueue` (with dedup), `runDue`, `runOne`, `retry`, `kill`, `expedite` | an intent commits with its cause and runs until it is recorded; the operator hears of what is stuck |
| Hold invoices (`hold/index.ts`) | table `ln_invoices`; the invoices at LND | `plan`, `dispose`, executors, `poll`, `observe`, `recordDisposal` | the row never says what the node did not do; nothing is kept unasked; nothing is left alive |
| Lightning tables (`shared/src/ln`) | none | `canTransition`, `CLOSE_RULES`, `expiryReasonFor` | the reason for closing alone decides about the money |
| Lightning trade (`daemon/src/ln`) | tables `ln_drafts`, `ln_orders`, `ln.height` | requests, commands, hooks, the clock, `beginClose`, close executor, `finishClose`, `abandonClose` | invariants I-001 to I-011 of `docs/LN-TRACK.md` |
| Windows of a Lightning trade (`ln/timing.ts`, `flow.ts`) | deadlines, `pay_by`, CLTVs | every stamp and every comparison | the deposits and the escrow outlast what they have to cover |
| Lightning payout (`ln/effects.ts`) | `sponsor_invoice`, `disbursed`, `payout_error`; the payments at LND | executor, re-submission, `ln.retry-payout`, `ln.manual-payout`, `ln.mark-disbursed` | paid once, never forgotten, and the operator's stop is a promise |
| Operator's channel (`admin/commands.ts`, `orders/directory.ts`, `admin/src/daemon/client.ts`) | results, versions, the screen's commands | signed commands with a time to live and a version check (DM-006) | a command acts on what the operator saw, or not at all |
| Operator's feed (`admin/state.ts`, `admin/src/daemon`) | published state, stores | publish, decrypt, prune, upsert | the screen never goes back and shows no order of a database that is gone |
| Publication (`orders/publish.ts`, `nostr/publisher.ts`, the app's stores) | `published_at`, versions; the readers' stores | `dirty`, the publishing effect, `apply...` | readers converge on the last version |
| On-chain tables (`shared/src/onchain`) | none | `ONCHAIN_TRANSITIONS`, `OUTCOME_RULES`, `canActOnSignRequest` | the outcome alone decides about the bonds |
| On-chain trade (`daemon/src/onchain`) | table `oc_orders` with outbox, strays and rescues; `oc_candidates`; bonds at LND; the chain | requests, commands, bond hooks, `decideOnchainAction`, `decideSettlement`, `observeSpend`, broadcast, rescue | invariants O-001 to O-017 of `docs/ONCHAIN-TRACK.md` |
| Escrow's transactions (`shared/src/onchain/policy.ts`, `tx.ts`, `customer/src/onchain/verify.ts`) | signatures | build, check, sign, finish, time out | nobody takes the escrow alone; a device signs only its own |
| Windows of an on-chain trade (`shared/src/onchain/timing.ts`) | deadlines, bonds in blocks | stamps and judgements | a bond outlasts its ruling; who acts in time is not late |
| Price feed (`shared/src/price.ts`) | a connection per exchange | open, tick, ping, silence, retry | money is moved at a price near an honest one, or not |
| Order cards (`customer/src/ln`, `customer/src/onchain`, `shared/src/order-progress.ts`) | stores of order events and notices | views, buttons, forms | what is offered is accepted, and somebody can always move |
| Deposit notices (`ln/messages.ts`, `deposit-store.ts`) | notices by time | announce, accept, dispose | the card shows the present invoice |
| Chat (`chat-store.ts`, `chat-send.ts`, `admin/chat.ts`, `peer-chat.ts`) | a tab's messages and its IndexedDB; quiet windows | send, retry, load; call, ring, disclose | nothing disappears silently; who waits is rung |
| Push (`push/send.ts`, `customer/src/push`) | subscriptions, `push.*` state | subscribe, migrate, send, give up | no live device is given up; once per event |
| Userscript (`customer/userscript`, `buyer/`) | the shop's orders, listings | detect, list, attach, report | the account goes out once, and not before the invoice |
| Database, boot, secrets, backup, screens, relay pool, login | | | not modelled, see section 7 |

### How they interact

Users and the operator publish requests; ingress stores them; a tick hands them to handlers. A handler is
one SQLite transaction without network access: it changes rows and enqueues *effects*. Effects call LND, the
chain, a relay or a push service and record what came of it in another transaction (`onDone`), which may move
the trade on. Hold invoices call back into their track (`hooks`: created, createFailed, accepted, nodeCancelled,
disposed, busy). The clock reads rows the poll has written. All of this is one thread; what moves in between is
the outside: payers, LND's timers, blocks, people, relays, and the death of the process. The apps fold the events
the daemon publishes into stores of their own, in any order of arrival, and offer what those stores allow.

### What is hard here

1. **Crash or lost answer between a call and its record.** Every effect runs at least once.
2. **Rows are views of the node.** Between a lookup and the use of what it said, the node moves on.
3. **A trade has many invoices**, some of them from claims that were undone; hooks match them by person and
   purpose, and a disposal of one may still wait in its backoff while the next claim is made.
4. **Three clocks**: the deadline, invoices' `pay_by`, and blocks. The escrow's HTLC dies by blocks.
5. **A close takes several node calls**, and takes ticks in an outage; requests go on meanwhile.
6. **A payment that timed out may still succeed**, while sponsor and operator want to act.
7. **The chain takes things back.** A reorg undoes a funding, the mempool forgets a settlement; and an output
   that we spent ourselves is missing from the address just like one that never was.
8. **Others can spend the escrow**: the customer completes a release he holds, or sweeps it after eight weeks, while
   the daemon decides on something else.
9. **Relays answer out of order, twice, or with what has been replaced**, and a store that does not compare
   times goes back; what a card offers is judged later by a daemon that has moved on.
10. **Coalescing**: one pending effect stands for many changes, and one that is running reads a version and
   records another.

Every hazard with its line and the properties that look at it is in `PROJECT.json`.

## 2. Modules

```
HoldPromise <--- HoldInvoice <--- HoldInvoiceProofs      { LnPayout, LnCards } <--- LnPayoutProofs
EffectPromise <- EffectQueue <--- EffectQueueProofs

LnOutcomes <- LnFlow <- { LnRequests, LnWatcher, LnEffects } <- LnTrade <- LnTradeProofs
OcOutcomes <- OcFlow <- OcRequests <- OcWatcher <- OcTrade <- OcTradeProofs

{ Ingress, Dispatch, AdminChannel, AdminFeed, Publication,
  ChatStore, ChatCall, DepositNotices, Push, Coupang } <- PartsProofs
{ LnWindows, OcWindows, PriceFeed } <- WindowsProofs      { OcEscrow, OcRescue } <- EscrowProofs

MCDaemon : Ingress, Dispatch, Publication, AdminChannel, AdminFeed, PriceFeed,
           LnWindows, OcWindows, OcRescue, OcEscrow
MCApps   : DepositNotices, LnCards, OcCards, ChatStore, ChatCall, Push, Coupang
MCLive   : the liveness of each part
```

**HoldPromise** says what a hold invoice promises: a payer's money is caught only while the book counts on it,
is kept or returned, once, kept only after somebody asked, and the book follows. **HoldInvoice** is the code:
every executor is a lookup, an act and a record, with the single thread in `exec`, and payer, node timers,
refusals, lost answers and crashes in between. It implements HoldPromise (`KeepsPromise`): fate is the node's state,
book is the row.

**EffectPromise** says what the rest of the daemon relies on: an effect is carried out only while it is owed, is recorded as done
only after the outside world did it, and the transition that presumes its success is made with that record, once. **EffectQueue** is the table with its dedup index,
the batch of a tick, `runOne` in its two halves (before and after the await), the backoff, `kill`, `expedite`, the
stuck alarm, publication's coalescing, and crashes. It implements EffectPromise.

**LnPayout** has the payout effect, await by await, with the requests and commands that touch it. They may come
between any two awaits. Today's tick does not overlap them; the executor says in a comment
(`ln/effects.ts` 155-157) that it does not lean on that, and the model holds it to that.

**LnOutcomes** holds the pure tables. **LnFlow** has the trade's state and the pieces of `flow.ts`, **LnRequests**
the request handlers and commands, **LnWatcher** poll and clock, **LnEffects** `hold.create`, `hold.dispose` and
`ln.close`. **LnTrade** puts them in the order of the tick and adds the outside. `pc` walks
dispatch, poll, claims, verified, expiry, effects (and closing, inside it). The clock is one transaction in the
code and three actions here, with nothing enabled in between but the next one; a crash is possible only where
a transaction ends. In LnTrade one run of `hold.create` or `hold.dispose` is one step that may lose its answer:
HoldInvoice has the inside of it, and its proof is what allows the coarser step.

**OcOutcomes** holds the on-chain tables. **OcFlow** has the row, the bonds, the outputs at the escrow's address and the
pieces of `flow.ts`, `bonds.ts` and `store.ts`; **OcRequests** the handlers and the operator's commands; **OcWatcher** what
the watcher asks, decides and executes, the bonds' hooks and the broadcast; **OcTrade** adds blocks, reorgs, people,
the Lightning node and restarts. The tick's order is not kept here: requests, watcher, hooks and effects come
in any order, which allows more than the code does. A move that `updateOc` would refuse by throwing is an
action that is not enabled, since its transaction is rolled back.

The other modules have one component each:

| Module | What moves in it |
|---|---|
| Ingress | requests, relays that are away, the cursor that only a prompt event may move, the look-back, the subscription renewed |
| Dispatch | the inbox, the hold time, a batch per tick, handlers that throw, `poke` and the timer, restarts, the wait for fees |
| Publication | versions, the one publishing effect, relays that accept or not, events dated so that the newest wins, five readers |
| AdminChannel | a press, its publication to relays, the daemon's judgement, the reply, and the status the device shows |
| AdminFeed | the daemon's snapshots, relays that keep what has expired, decryption in any order, pruning, logout, a new database |
| PriceFeed | sockets, pings, silence, retries and the median |
| LnWindows, OcWindows | a clock and a chain at speeds of their own, every deadline from its stamp to its judgement |
| OcRescue | stray outputs: listed, asked for, signed, broadcast, seen |
| OcEscrow | who has signed which spend of the escrow, at which fee, with which checks, on which request (a rescue nobody asked for included), and the timelock |
| DepositNotices, LnCards, OcCards | the daemon's order and the card's stores side by side; every button and what becomes of its request |
| ChatStore, ChatCall | a tab with its memory and IndexedDB; the call for the operator, quiet windows, the key handed over |
| Push | subscriptions, the VAPID key and its migration, posts and their verdicts, what the service worker shows |
| Coupang | the shop's page, the userscript, the seller's app and the daemon's order |

**The union modules.** A run of its own for every part would ask the same kind of question many times. MCDaemon, MCApps and MCLive
therefore put instances of several modules next to each other: the first state chooses the part, each step is one
of that part, and the cells `v1`, `v2`, ... are the variables of the part that was chosen; the cells it does not
need stay empty. The state spaces of the parts are disjoint, so the check is exactly the sum of the checks of the
parts. A property of a union is a conjunction with one line per part, each named for its module's property.

How state corresponds:

| Lightning (Ln modules) | Code |
|---|---|
| `order` | the row of `ln_drafts` (state "draft") or `ln_orders`; "none" is no row; `escrow` and `sponsorDeposit` are the hash columns |
| `holds[h].status`, `.creating`, `.disposing` | `ln_invoices.status`; pending `hold.create`; pending `hold.dispose` and its action |
| `holds[h].node` | what `lookupInvoice` answers; "absent" is null |
| `holds[h].due` | `pay_by` (with `PAY_BY_SKEW_SEC`) has passed while the row waited |
| `phase` | 0 claims are taken, 1 less than `MIN_CLAIM_LEAD_SEC` is left, 2 past the deadline, 3 past the grace |
| `life` | blocks the escrow's HTLC has left, in the classes the code distinguishes (`timing.ts` 72-87) |
| `pendingClose`, `closeReason` | the columns; a pending `ln.close` is `pendingClose # "none"` |
| `alerts`, `remit`, `paid`, `settleAsked`, `alarm`, `operatorPaid` | history of the alerts raised and of what the outside did |

| On chain (Oc modules) | Code |
|---|---|
| `order` | the row of `oc_orders`: `pinned` is `fundingOutpoint`, `kind` `settlementKind`, `tx` `settlementTxid` |
| `meta` | its `meta`: the presignature (by the funding it was made for), outbox, strays, rescues |
| `bonds[p]` | the hold invoice of a party's bond with its candidate and its pending `hold.dispose`: one per party |
| `coins[u]` | an output at the address: depth, value, who spends it, and whether that is final |
| `due`, `warm` | has the present stage's deadline passed; is `CATCHUP_WARMUP_SEC` over |
| `mail` | requests made before their deadline (`requestAt`) that have not been handled |
| `copies` | fundings whose release the customer holds with the sponsor's signature |
| `verdict`, `alerts` | history: the outcome that first judged the bonds; two of the alerts |

The other modules name their variables after the columns, maps and refs they stand for, each with a comment.

Definitions called `..._something` next to one of the same name are faults: the definition as a plausible bug would have it. No specification uses
them; each shows that a property notices when the definition is replaced by it.

## 3. Runs

| Run | Instance | Shows |
|---|---|---|
| `HoldInvoice` | 2 invoices; any number of crashes | `RecordTruthful`, `NoOrphanAtNode`, `NoFalseAlarm`; implements HoldPromise (`KeepsPromise`) |
| `LnPayout` | 3 invoices | `PaidOnce`, `ManualMeansStopped`, `NeverForgotten`, `StopIsNotLost`; `PayoutEnds` |
| `LnTrade` | 2 sponsors, 3 holds, 1 crash, both deposits, blocks down to 0 | `NoForfeitAfterPaying`, `NothingLeftHanging`, `EscrowFollowsKrw` |
| `LnTradeReclaim` | 2 sponsors, 3 holds, effects that fail for ticks, sponsor deposits | `MoneyByRule` |
| `LnTradeOutage` | 1 sponsor, 1 hold, 1 crash, everything at LND may fail, blocks to 0 | `PayoutBacked`, `NoFalseAlarm`, `LossIsReported` |
| `LnTradeUnseen` | lookups may fail | violated: `NoForfeitAfterPaying`, see section 6 |
| `OcTrade` | 1 sponsor, 2 outputs, 1 reorg, no mishaps | `KrwProtectsEscrow`, `ReleaseIsReady` |
| `OcTradeRough` | 2 sponsors, 1 output, 1 reorg, 1 restart; bonds lapse, spends are evicted or refused, sweeps, releases by hand | `LedgerFollowsChain`, `BondsGoWhereTheyShould`, `ClockIsFair` |
| `EffectQueue` | 1 order, 4 effects, 2 versions, delays to 2, batches of 2, 1 crash | `NoChangeUnsent`, `NobodyFailsUnheard`; implements EffectPromise |
| `Daemon` | 16 parts of 10 modules, see MCDaemon | requests are judged once and in order; changes are seen; the windows are long enough; money is safe; nothing is undone |
| `Apps` | 15 parts of 7 modules, see MCApps | the cards tell the truth; chat; devices; the shop's accounts; nothing is missed |
| `Live` | 20 parts, see MCLive | what each part has begun ends (`EverythingEnds`) |

Each run whose module has a specification of its own also checks `TypeOK`; in the unions it is a line of the part.

**Bounds, and why they are enough.** Hold invoices meet each other only through the single thread: two show every interleaving,
and the proofs cover any number. Three invoices let the sponsor replace a replaced invoice. A trade has three kinds of
money; three holds allow deposit, escrow and a second attempt of one of them, and `LnTradeReclaim` spends all
three on repeated claims. `MaxCrashes` bounds the crashes of a trade: one crash may fall at any point, and what it can leave
behind at the node is left behind by a lost answer too. `MinLife` keeps blocks out of runs that ask about something else.
`Failing` names what may fail for longer than a tick: *reads* of poll and clock, *effects*, and *answers* of
calls that worked. Where it is empty, effects are done by the end of the tick.

On chain, two outputs make every shape `judgeFunding` tells apart (none, one, one of the wrong value, too many), and let
a second one replace the first after a reorg. One reorg may come at any depth and any stage; a second one repeats it on a trade that has
been taken back to bonded, a state the first already reaches. Two sponsors give a winner and a loser of the claim. `Mishaps` names what may
happen outside a trade's usual course; together they make the second output too much, so they are run with one.

In the queue four effects let one coalesce, one be stuck and one be made by another's success; a delay of 2 tells "now", "next" and "later" apart.

In the union modules every part has the smallest sets in which its question arises: two relays (one that lags), three versions (one that is
skipped), three requests of which one throws, two devices' worth of subscriptions, two sponsors where a claim is replaced. Clocks count in the
units of their windows, kept in the order and, for the windows modules, in the ratios of the code: in LnWindows and OcWindows the unit is one block's time, and `AreWindows` states the inequalities the code's tests state. Bounds named
`Max...` cap counters (time, versions, events, restarts, reloads, faults, reorgs) and end a behaviour rather than change it. Where one part of MCApps
had more states than its question needs, `Bounds` there follows it only so far, and says how far.

**Deadlock** is checked except in `LnPayout` and the on-chain runs: with the sponsor paid and every payment resolved, or with the order
ended and every output where it stays, nothing is left to do. In the unions a part whose work may be over may stand still; dispatch,
restart and price, which never are, may not.

**Symmetry** is used where a configuration names it, over the sponsors of MCLnTrade and over two relays, presses, exchanges or devices of the unions, in runs without liveness properties; none of them is ever chosen by name.

## 4. Fairness

Fairness is stated where the code retries by itself, and nobody outside has to act.

* Hold invoices: the queue retries for ever (executors of hold effects have no
  `maxAttempts`, the backoff stops growing at 10 minutes), and LND answers in the end, so lookup, act and record are
  strongly fair. No payer has to pay and no timer to fire.
* `LnPayout`, `FairSpec`: the same for the executor's steps; a payment does not stay in flight for ever, since its HTLCs time out.
  Sponsor and operator need not do anything; that is why a payment that expired may wait for ever and
  the liveness properties speak of payments that succeeded and of a stop that was asked for.
* `LnTrade`, `FairSpec`: the timer re-arms after any tick (`runtime.ts` 203-212), so poll, clock and the end of a tick are weakly fair;
  effects are strongly fair, as above; the warm-up ends unless the daemon crashes for ever, which `MaxCrashes` excludes. Nobody outside has to act,
  and time itself need not pass: `TradeEnds` starts from the time having passed.
* `Live`: the unions' fairness is the disjunction, part by part, of the weakly and strongly fair actions of that part; MCLive lists them
  with their reasons. Time passes, timers fire, a relay or a push service that was away comes back, and a subscription is renewed.
  For the cards one more assumption is made, in that part alone: people do what their card offers, which is what "somebody can always move" is worth.

## 5. Proofs

The proof modules prove for every value of the constants what the runs check on small ones.

**Hold invoices** (`HoldInvoiceProofs`). The safety properties are not inductive: that a recorded "cancelled" is true of the node depends
on what the running effect had looked up, and whether that is still true. `IInv` is `TypeOK` and, for each
invoice, `Sound`: only a published invoice can be paid (`PaidIsPublished`), an unplanned one is untouched, the
book is true of the node (`BookIsTrue`), a settle is ours (`SettleIsOurs`); and of the thread, `Thread`: the node
has moved since the lookup only as nodes move (`LookIsFresh`), a running effect has its cause in the queue, and its result
is what the node shows (`ResultIsTrue`). One lemma per action, then `InductiveInvariant`, `TypeCorrect`,
`RecordsAreTruthful`, `NothingKeptUnasked`, `CancelledIsDead`, `AlarmIsHonest`, `FinalStays`. `ImplementsPromise`
proves the refinement: each step of HoldInvoice is, under `fate`, `book` and `asked`, a step of HoldPromise or a stutter.

**Payout** (`LnPayoutProofs`). `PaidOnce` hangs on a chain: the sponsor's invoice is replaced only when `payout_error` says expired; that is
written only for an invoice that had been tracked as neither paid nor in flight, and was past its expiry,
when LND refuses it for good; a replaced invoice therefore has nothing out and never will. `IInv`
has this as `Books` (only the current invoice's payment is out; stopped is stopped; expired has lapsed) and `Thread`
(a run works on the current invoice or on one that has lapsed; it looked before it pays; what it found still holds).
Proved from it: `SponsorPaidOnce`, `ManualIsSafe`, `DisbursedIsTrue`, `SponsorIsRemembered`, `StopNeverUndone`.

**Effect queue** (`EffectQueueProofs`), in three layers. (1) The table: rows keep their kind and order, the dedup index holds of the
pending ones, and `before`, the order in which rows are due, is an order of exactly those; lemmas say what `enqueue`, `Requeue` and
`Nearer` (expedite) do to it. (2) The tick: what `batch` and `running` hold is due and waits, because a batch is taken once and `runOne` checks each
row again; this is `TypeOK`'s part about the tick. (3) The promises. `NoChangeUnsent` needs to know what a publication in hand will send: the order's last version, for no change is made
during a run (`SendsTheLast`). `NobodyFailsUnheard` needs `StuckAreHeard`: between the alarm and the end of the tick nothing that is about to be tried is
stuck and unheard. `MadeOnce`: the transition that presumes an effect's success has been made exactly if the success is recorded. From them
`TypeCorrect`, `ChangeKeepsAnEffect`, `OperatorHearsFirst`, `TransitionOnce`, and `QueueKeepsPromise`: each step of the queue is, with `owed` the pending rows
and `done` and `dead` the rows so marked, a step of EffectPromise or a stutter.

**Lightning trade** (`LnTradeProofs`), for any sponsors, hold invoices and crashes and whatever fails at LND. None of the properties is inductive alone: that
the sponsor is paid only from a settled escrow depends on what the close has done so far, this on what the close found when it began, and this on no handler
having moved the trade since. `IInv` has, besides `TypeOK`, four layers.
`OrderBook`: the order's own row; above all `CloseIsLegal`, that a close which asked the table when it began still fits the trade, since it ends ticks later without asking again.
`HoldBook`: rows against the node: a final row is true of it (`FinalIsTrue`), outside a close only the safety settle asks for a settle (`OnlyEscrowIsAsked`), what the node has
settled and the row does not show yet has a disposal or a close behind it (`SettlesAreOurs`), and a lost escrow has called a person (`EscrowIsKnown`).
`Progress`: what a running close has behind it is dead at the node and an escrow it takes is settled (`CloseGoesOn`); the poll's rows are open or accepted.
`Promises`: the properties themselves. Most actions are calm: a legal move of the order and rows that change without touching a settled one; one lemma, `Steady`, does them all. Five are
not, and have proofs of their own: `SafetySettles`, `EscrowIsTaken`, `Abandons`, `CloseVisits`, `Finishes`. Proved from `IInv`: `TypeCorrect`, `PaidIsReceived`, `EscrowIsForTheSponsor`,
`MoneyFollowsTheRule`, `AlarmsAreTrue`, `LossIsNoticed`, `EndedIsEmpty`; and `MovesAreLegal`, an action property that no run checks: the table is kept by handlers and hooks that never ask it.

That the escrow does not die behind a sponsor who has reported his remittance (`EscrowIsKept`) needs a second invariant, `InTime`, about the clock and the blocks: the watcher has seen the
stretch of the HTLC's life but for the present one (`SeenInTime`), between ticks no KRW is asked for in the last stretches (`InvoicedInTime`), and in the last but one the escrow is settled or being
settled (`SettledInTime`). It assumes `Failing = {}`, as the property does: in an outage it is false, and `LossIsNoticed` says what is left.

That nobody is charged with not having paid the escrow he paid (`PayerIsNotCharged`) needs a third, `PaidInTime`, about `pay_by`, the poll and the clock: the escrow of a verified trade is open,
nobody gives it back, and once the poll of this tick has visited it, it has not been accepted at the node (`VerifiedIsOpen`, which a claim's escrow enters undisturbed, `ClaimIsKept`); past the
deadline every escrow that is not paid is due (`DueInTime`), so that a payment after the judgement is refused; and who is charged has not paid and cannot any more (`UnpaidIsUnpaid`). That the
HTLC is not lost between payment and poll takes two facts more, that only the order's own escrow can be held (`OpenIsTheOrders`) and that its life is whole until then (`LifeIsWhole`).
Again with `Failing = {}`; with reads that fail it is false, which run `LnTradeUnseen` shows.

**On-chain trade** (`OcTradeProofs`), for any sponsors, outputs at the address, reorganisations and restarts. `IInv` is `TypeOK` and four books.
`OrderBook`: what each stage has fixed: kind, pinned funding, sponsor, the verdict (`VerdictFits`: only the decided kind has judged the bonds, a release apart), an outbox that is empty until
the settlement begins (`OutboxFits`), and `ReleaseIsReady`. `ChainBook`: a final spend stays (`FinalIsDeep`), hence `LedgerFollowsChain`.
`BondBook`: bonds against the verdict. That only and all of the loser's bond is taken follows from its being there when he is judged first (`TradeIsSecured`) and from no later judgement saying
anything else (`Agrees`); that none is left behind, from nobody but the parties' bonds being held (`NoOtherIsHeld`) and from every end but the two that leave bonds alone judging both.
`DueIsHeard`: a daemon that judges by the clock has handled what was sent in time. `Judges`, `MovesUnjudged` and `CoinSteps` do most of the actions, and `Decides` says which state
and which answers of the chain each of the watcher's decisions comes from. Proved from it, whatever `Mishaps` has: `TypeCorrect`, `ReleaseIsAlwaysReady`, `LedgerIsTrue`, `BondsAreJust` and the action
property `NobodyIsLateUnheard`.

That the customer does not get KRW and escrow (`KrwIsProtected`) needs a second invariant, `KrwInv`, about what may spend the pinned output with a signature of the daemon: the transaction in the outbox
and no other (`OursIsKept`), which is a refund after a remittance only by a ruling (`RuledForCustomer`), or a rescue; and a rescue is of an output of the wrong value, or of one that is not pinned
in a trade that is over (`RescueIsOfStrays`), while the pinned one has the right value and is on no list of strays (`PinnedIsExact`, `NotAStray`). The theorem assumes two mishaps away; with either
TLC has a counterexample. With *rescue-live* an output that was one of two right ones, and is rescued, becomes the funding after a reorg: the finding about OcRescue in section 6.
With *sweep-evicted* the ledger books, at sight, a sweep
that comes over the timelock after a remittance; the mempool forgets it, the ended order's output is listed as a stray, and a rescue of it is asked for and signed. All other mishaps may happen.

**Dispatcher** (`PartsProofs`), for any requests, handlers, hold time, tick, batch and restarts. `IInv` is `TypeOK`, what is under way only while a tick judges (`Thread`), and the two properties of every
run of the part: `AppliedExactlyIfOk` and `DaemonIsAwake`. That requests are judged in order (`HoldMakesOrder`) needs `InOrder`: the timer is never due before the last request has been held long enough
(`Punctual`), so that a tick finds every request ripe (`Ripe`) and its batch is the first of *all* that are open (`RowsAreFirst`; the lemma `BatchIsClosedBelow` says that with a request a batch holds
every earlier one), and what is closed is older than anything that still comes in (`EarlierIsClosed`). The theorem assumes `FeesTake = FALSE` and `MaxRestarts = 0`. With fees to wait for it is false, which is the
finding of section 6; and a daemon that was stopped starts with a tick at once, between two requests it had only just received.

**Ingress** (`PartsProofs` too, as an instance). `RequestsStayInReach` holds for every lookback, period, error of the clocks and time `MaxAway` a relay may go without serving us. Its invariant: the cursor is at most `Skew` ahead of
the clock and an open subscription asks for no less than a new one (`CursorIsNear`); and a request that was in time and is not received waits at a relay that has been away for as long as it is older than `Grace` (`WaitsAt`). That
it was away follows from the property itself: what waits is asked for, so a relay that serves has nothing waiting. `Grace` is all the code gives: lookback less `Skew` and `MaxAway`.

**Commands, the operator's screen, publication, prices** (`PartsProofs`, as the instances `Cmd`, `Feed` and `Pub`; prices in `WindowsProofs`, as `Pr`).
*AdminChannel*, for any commands, devices and errors of their clocks: `RulingsAreSingle` rests on the version a press has seen, which `checkTarget` compares and every executed ruling moves on: the executed ones have seen versions that are all
different and all behind the order's (`Rulings`); and on what is under way of a press belonging to it (`Pushed`, `CmdWaits`, `Verdicts`). The bound `MaxVersion` leaves room for every press, so that no ruling is kept from a second execution by the bound.
*AdminFeed*, for any relays, retentions and new databases: what the signer has in hand, the newest state and what is shown were published (`Published`), from which `OldDbHidden` is inductive.
*Publication*, for any relays, recipients, lists and restarts. `Base` has the types, the date of what runs and the bound on how far it is ahead of the clock: by less than the order has changed. `PubInOrder` compares all events there are, at relays and on screens: later ones have later
versions (`Monotone`); whatever is not noted as published is behind the clock or behind the time its retry is due (`Past`), which makes the next one later than all of them (`Latest`). That is where a crash after a relay's yes could do harm: what it left behind is not in `published_at`, and only the pause keeps the next
event from being older. `LateEventsWin` states just this: it holds as long as what is published is dated less than a pause ahead of the clock (`Steady`). An event is dated now, or a second after the last one, so what puts it ahead are publications that follow each other within a second; with a pause of 5 s at first (`effects.ts` 46)
it takes five of them in a row, each with its answers from the relays. The code does not rule that out. `PausesKeepSteady` is about the instances TLC is given (`PausesAreLong`): they are too short to leave the condition.
*PriceFeed*, for any exchanges: lemmas about ranks (`NthIsThere`, by the least rank that is reached, and `RankIsNear`: with one wrong quote at most, a rank that is neither the first nor the last is held from both sides by honest ones), and `Honest`, that an honest quote is off by no more than its age. From them `PriceIsNear`;
`FeedIsKept` is about sockets and timers alone (`Sockets`).

**Chat and the notices of a deposit** (`PartsProofs`, as the instances `Chat`, `Call` and `Dep`).
*ChatStore*, for any texts, tries, openings and reloads: `ChatBase` says that what was not signed yet is nowhere (`Unseen`), what was read as sent is with a relay (`SentReads`), and a load is still to come or everything in IndexedDB is on the screen or read (`Loaded`); from it `ScreenIsTrue`, whatever else happens.
That a retried message leaves one copy (`RetryLeavesOne`) needs that no load is on its way when the button is pressed (`SlowLoads = FALSE`: with one, the finding of section 6), and then `Anew`: a signature that was replaced before any relay had it is neither shown nor kept. It also says what the code gives with three tries and more: a message that shows twice was received, under the earlier signature or under one *it* was made from.
`TextsAreKept` assumes besides that the tab is not closed while a retry waits for the signer, which loses the text in the code as well.
*ChatCall*, for any sponsors, quiet times and messages: `CallInv` ties the quiet window of the operators to the time they were rung (`Rung`) and a key to the conversation it is of (`Keyed`). `CallsRing` and `CallOpensOne` hold however often claims are taken back; `PartyHasAWay` holds while none is (`OneSponsor`), since a call is made to the sponsor who was there.
*DepositNotices*, for any number of claims and reloads and any order in which relays hand notices over: `Ordered` says how the notices of successive claims are dated, `Books` what each says of the invoice's row, `Viewed` what the store has kept: the latest invoice heard of, and no status older than one it heard. `StoreFollowsClaims` assumes `Orderly`, that notices are dated a second apart and an invoice waits until the earlier claims' are done; the code sees to neither, and without it the offer may be lost (section 6).
What holds without it is `StoreShowsNewest`: an invoice is announced once (`AskedOnce`), by the claim in force (`PlannedIsLast`), so in the order of the claims (`InTurn`), and the store never takes one that is dated earlier than what it shows.

**The cards of a Lightning trade** (`LnPayoutProofs`, as the instance `Card`, in which the order is called `trade`), for any sponsors, claims, invoices and reloads. What an app shows and what lies on the relays may be of any age, so the daemon's records
(`Course`) are compared only with what can no longer be undone: an order an app has seen past its escrow is past it and has the sponsor it had, one seen with an invoice has one (`Views`); the account exists only with an invoice, a submitted invoice is of the order's sponsor and, short of the last, not the registered one
(`Papers`); `Bounded` keeps the bound on claims from being what stops a trade. This proves `CardsAreTyped`, `AccountComesLater`, `NoButtonIsForNothing`, `TurnsAreReal`, `TradesGoOn` (where there is anybody to claim). The other two are about the form for an invoice: steps are sorted by what they do to the payout,
its notices and the form (`OwnShape`, `HandleShape`, `AppShape`), and `Explained` and `Reopened` say that when all that is under way has arrived the latest notice is on the screen. Both assume `Patient`, that a relay's acknowledgement comes before the daemon's answer, for an acknowledgement clears the error; `FormIsOpenAgain` in addition
`InOrder`, for a warning that comes last closes the form, and `Payable`, that the payout waits for an invoice that is not the registered one. TLC finds the counterexamples without them (section 6).

**Push** (`PartsProofs`, as the instance `Ring`), for any browsers, keys, subscriptions, pushes, faults, restarts and steps in a browser that fail or are cut off. That a push is taken once for a device (`DevicesAreReachedOnce`) is not inductive: an effect that waits to run again must not have reached anybody, but for restarts (`NotYet`), and
for that it must be in the queue once and be noted there as due (`OnceQueued`, `QueuedIsQueued`). The proof shows where this does not hold: a subscription that was given up and is registered anew gets a second welcome while the first may still be queued. No browser holds such a subscription any more (`DeadIsUnheld`: what is given up was gone at the push service, and subscriptions
are made once, `Fresh`), so neither welcome can ring; the property `QueuedOnce` says it of what can. `LiveDevicesAreKept` is `DeadIsUnheld` for what a browser holds; `TurnIsSeen` is inductive by itself. `OnIsTold` assumes `Breaks = 0`, that no step in a browser fails: then whatever a browser holds is known, or the migration or the settings are about to publish it (`Registered`), however
the two interleave in one page. With a migration that breaks off before it publishes the window shows "on" for a subscription the daemon never hears of.

**The shop's orders** (`PartsProofs`, as the instance `Shop`), for any number of sales. What the app has is never ahead of the daemon (`Behind`, with `Later` the order in which states come), and nothing is due of a sale that its buyer's invoice has not reached (`Invoiced`);
from these `InvoiceComesFirst` follows with no further condition. The others are about a seller who lets each step end (`~Hasty`) and say what else they need: `ListedOnce` and `StatusIsPassedOn` that no listing fails to be published, for then one sale of his at most has the shop's order, and a card is only
there while none has (`Single`); `ConfirmedIsPaid` is not about how he presses but about what comes of it: while one sale at a time has the shop's order (`OneSale`), gets it before the shop was paid (`ListsUnpaid`) and he does not pay himself, a report of a payment, on the page, at a relay or turned into a request, says what the shop says, and the shop was paid by the buyer of the sale that has its account (`Confirmed`), whatever fails and whatever is reloaded in the middle of a step. A listing that fails in his eyes or is reloaded half-way, and made again, gives two sales of one shop order: the case `OneSale` leaves out (section 6, `OneListing`); `AccountIsSentOnce` that no account's
publication fails and none is typed: a sale whose account went out by itself has the account, or has it on the way, as long as an update could send it again (`Placed`), which rests on the app's not going back behind what it has heard (`SeenIsKept`). What is asked of listings, of paying the shop and of typing are findings of section 6 turned round; `~Hasty`, that buttons wait for their step, is also what the runs assume.

**Windows of a Lightning trade** (`WindowsProofs`), for every length of the windows that keeps the relations of `timing-invariants.test.ts` (`AreWindows`), and any deadline, pace of the chain and downtime.
`IInv` has a layer per promise: what each hold was planned to last for it lasts, and what the node gave back was at its end (`Long`); no stage outlasts its deadline by more than the downtime (`Timely`); a
remittance that counts is handled before time goes on or the warm-up ends (`Heard`); the escrow has blocks for all of the downtime that is left (`Covered`); and without an outage what is left of
the deadline is known at every stage (`ClaimInTime`, `EscrowInTime`). The tests' relations do for `TypeCorrect` and `TradesEndInTime`. The other promises cost more than any test states, and each theorem names what:
`KrwStaysCovered` needs `SleepIsShort`, that the downtime is at most what `SAFETY_SETTLE_BLOCKS` and the node's 12 blocks leave (24 blocks, four hours at the chain's pace: an outage
of a night can lose an escrow behind sent KRW); `DepositsAreThere` needs `DepositsAreLong`, that the chain is ahead of the clock by less than the deposits' extra day; `InvoicesHaveTime` and `RemittancesAreHeard` need
`EscrowIsLong`, by which an order's own deadline comes before its escrow's end (with a fast chain TLC has counterexamples to `RemitInTimeIsHeard` and `ForfeitIsThere` without them); `LateClaimsAreApproved` needs `PayWindowIsWhole`. The
constants of the code satisfy all of them for such a downtime, and so does the part `LnTime` of MCDaemon, whose assumption TLC evaluates.

**Windows of an on-chain trade** (`WindowsProofs`, as the instance `Oc`), for every length of the windows and any deadline, pace of the chain, downtime, late confirmation and number of reorganisations. No deadline is kept but the present one, and each is
stamped when the request before it is handled; so `IInv` says for each state how far what may still follow (`Rest`) reaches into the life of the bonds (`Fits`): after the deadline itself, which only a downtime and a late confirmation can move, and
after the present moment, for a request that is in time. `Room` is what the bond leaves: its CLTV less its margin, and what downtime and reorganisations have been charged with so far; a reorganisation is charged with the funding and the option window (`Again`), at the moment the funding confirms again
and not when it is undone (`SetBack`). Proved: `TypeCorrect`; `BondsOutlastTheTrade`, which needs `MarginIsWide`: the six hours of margin, 36 blocks, cover the node's 12, the drift of the chain, downtime and a late confirmation, and one reorganisation of 22 blocks at most. TLC finds the bond gone once the margin
is one block less than that, so the relation is exact; that it is not met by a chain two percent fast over a whole listing is the finding of section 6. `OptionEnds`: the price stays open for the three windows, and only for as long besides as the daemon was down. `NobodyPaysForAnother`, which needs nothing but `AreWindows`.

**Who may spend the escrow** (`EscrowProofs`), for any amount, timelock, rates, addresses, claim keys and number of mistaken requests. These have a wrong leaf, output, fee or address (her order key's too, which the app accepts beside the refund address she gave), or are rescues: of a stray output, or of the funding.
A device signs a rescue of the funding in every state and at any fee within the apps' cap, since `verify.ts` 131-147 takes the output and the fee from the PSBT; so `SignsOnlyOwn` says of her signature only that it pays her, and of the decided fee that what she sends on a *decision* has it. The daemon's last signature is not given to a rescue of a live funding (`isPinnedOfLiveTrade`, OcRescue), nor to a decision's with another fee (`ocCosign`). What a device does depends on a version of the order it may have read long ago and on a record it may have lost, so
`IInv` compares: an old version says nothing that the order does not (`Versions`), what is remembered is what the terms are (`Remembered`), signatures that go about have been made, those the sponsor has are his own, and until the daemon has finished a settlement
no signature is the daemon's (`Papers`, `Signed`); each state of the order has fixed its keys, fees and coin (`Stages`), and the presignature in store fits the release as it would be built now (`Ready`). `EscrowIsSound` (`SignsOnlyOwn`) and `FinishedAndRemitted` (`FinishedOnce`,
`RemitKeepsDistance`) need nothing besides. The others name what they cost: `NobodyTakesTheEscrowAlone` that no sponsor asks to be paid to the customer (`PayoutsAreNotHers`); `ReleaseIsReady` that no claim asks for a feerate above the app's cap (`ClaimRatesAreSane`: the cap meant for
refunds and rulings, `policy.ts` 100, is on a release as well, `verify.ts` 192, while the daemon takes more of a sponsor when the market is above a fifth of it, `policy.ts` 51); `DecisionsCanBeSigned` that the market is below that cap (`RatesAreSane`) and that addresses are in small letters
(`AddressesArePlain`). Without either there is the counterexample of section 6; TLC evaluates the last three on the constants of MCDaemon.

**Rescues** (`EscrowProofs`, as the instance `Re`), for any outputs, fees, attempts and reorganisations. `Rescued` adds that an output a rescue took is gone for good (`TakenIsGone`), that a live trade rests on an output of the right amount
(`PinnedIsRight`), and, for a careful operator, that what was asked for is a stray or of a trade that is over (`AskedIsStray`). Proved: `RescuesAreTrue` with no condition; `PatienceKeepsTheRecord`, for an operator who asks again only when nothing is under way (`OneAtATime`: what is
queued is what is on record), and for requests that do not fall in one second; `EscrowIsNotRescued` for a careful operator. Each condition is one of the findings of section 6 turned round: without it TLC has a counterexample.

**Assumptions.** On the constants only those the modules name (`LnTradeAssumption`, `OcTradeAssumption`, `QueueAssumption`, `DispatchAssumption`, `IngressAssumption`, `AdminChannelAssumption`, `AdminFeedAssumption`, `PublicationAssumption` with `PausesAreLong`, `PriceAssumption` with `OneMayBeWrong`, `EscrowAssumption` and `RescueAssumption`, and `AreWindows`, with the relations next to them in their modules), which TLC evaluates in the runs. The models' own assumptions are in section 7.

**Only model-checked:** the part OcCards of MCApps, the findings, and all liveness. Liveness under fairness
and ENABLED are beyond the prover, and so is what a recursive definition computes for every input.

## 6. What the runs found

**A paid escrow is charged as unpaid when a lookup fails at the wrong moment** (`LnTradeUnseen`). `runtime.ts` 183 wants
what was paid to come before the clock's judgement. The poll skips an invoice whose lookup throws
(`hold/index.ts` 286-289); the clock of the same tick goes by the stale row (`ln/watcher.ts` 125-130). If the
escrow was accepted just before `pay_by` and that one lookup fails, the trade closes as
`cancel:unpaid-escrow`: the escrow goes back and the customer forfeits the deposit.

### What the code does otherwise

These formulas say what a comment, a text or a document of the repository says, and TLC refutes them with the constants named (other constants as in the part
of the same module in MCDaemon, MCApps or the runs). They are stated in their modules under this heading, each with its quotation. They are in no run, since a run
of its own for each would say nothing about the rest of the system. To see one, take the module with these constants and the formula as its only property.

| Formula, module, constants | What the repository says | What the code does |
|---|---|---|
| `RemitIsHeard`, LnTrade, `Failing = {}` | `ln/handlers.ts` 225: a party's request that came after the close is for a person to see if it was made in time | `remitRequest` answers `closing` (238) before it gets there: between `beginClose` and `finishClose` a remittance reported in time is dropped without an alert |
| `SpendCanBeBooked`, OcTrade, `Mishaps = {"release-anywhere"}`, one output, `MaxReorgs = 1` | `onchain/store.ts` 131: a move that does not fit throws, the caller must have checked | `observeSpend` (`watcher.ts` 331-334) adopts a release in any state, and there is no `funded -> settling`. After a reorg and the same output mined again the customer still holds a good release; broadcast, it makes every poll of the chain throw outside its try |
| `JudgedInOrder`, Dispatch, `FeesTake = TRUE` | `dispatch.ts` 4: handled in the order of `created_at` | the tick awaits `refreshFees` before `runPending` (`runtime.ts` 179-180); two requests that arrive meanwhile, the later first, may be judged the wrong way round |
| `PokeBringsForward`, Dispatch, `FeesTake = TRUE` | `runtime.ts` 8: a new event brings the tick forward to `holdMs` | `schedule` clears the timer there is (207): an event also puts off a tick that was due sooner, again and again in a stream of events |
| `CustomerNeverBack`, Publication, two relays | `orders/publish.ts` 51, `sponsor/order-store.ts` 34: only the newest is kept | `applyAdminUpdate` (`buyer/order-store.ts` 74-96) compares no times: a stale relay takes the customer's own list back |
| `FailedMeansNotDone`, AdminChannel | `admin/src/daemon/client.ts` 6-7: what is not known must not be called failed | a command none of whose relays acknowledged is `failed-to-send`, although one may have it |
| `HeardIsShown`, AdminChannel | `client.ts` 7: a late result is shown as it is | a result that comes while `allSettled` is awaited is overwritten by `pending`, then `timeout` |
| `EveryRefusalIsAnswered`, AdminChannel, `MaxOffset = 1` | `admin/commands.ts` 11-12: refusals are sent back too | a command too old or too far in the future is ignored without a reply (96) |
| `EndedStaysEnded`, AdminFeed, two relays, retention 3 and 1 | `admin/src/daemon/stores.ts` 115-116: else an ended order stays in its old look | after the end was pruned, an earlier event that lives longer is upserted again |
| `Refilled`, AdminFeed, `MaxLogouts = 1` | `stores.ts` 5: if lost, they are filled again from the relays | `openedDesignated` (`feed.ts` 194) outlives the logout: designated orders stay missing |
| `OfferIsWaiting`, DepositNotices, `Orderly = FALSE` | `deposit-store.ts` 35-37: told apart by the event's time | the disposal of an old deposit may come after the new invoice was announced; its notice is the later one and the card loses the payment |
| `OwnNeverBack`, DepositNotices | as above, for the customer's own deposit | `applyDepositStatus` (`buyer/order-store.ts` 103) keeps what comes last |
| `FormIsTaken`, LnCards, `Mistakes = TRUE` | `card-view.ts` 212-213: what is submitted before the expiry is ignored, so the form stays shut | an old rejection opens it all the same |
| `RejectionIsShown`, LnCards, `Patient = FALSE` | `claim-error-store.ts` 13-15: the reason must be on the screen | `onSubmitted` clears a rejection that came while the slowest relay was awaited |
| `ReregistrationIsOpen`, LnCards, `InOrder = FALSE`, `MaxReloads = 1` | `ln/messages.ts` 83-85: a day later the form must still be there | after a reload stored notices come newest first; an older warning covers the expiry |
| `NoUnwarnedForfeit`, LnCards | `card-view.ts` 61, 178: the dialogue says first that the deposit is lost | a claim handled before the cancellation arrives turns it into a forfeit nobody was warned of |
| `ClaimIsKept`, OcCards, `Faults = {"lost", "unacked"}`, `MaxClaims = 2`, two terms | `claim-store.ts` 51-53: what is sent again are the remembered terms | a claim no relay acknowledged is forgotten though it may have arrived; the second one's terms are dropped by the daemon and kept by the app |
| `AccountIsCommitted`, OcCards, `MaxReorgs = 1` | `onchain/nostr/publish.ts` 212-213: account and salt are compared with the tag | a reorg lets the account be sent again under a new salt; `putOnchainAccount` keeps the first |
| `StepsAreTrue`, OcCards, `Clock = TRUE` | `progress.ts` 363-364: a step drawn as done that did not happen is a lie | for `settling` the ladder of a release is drawn whatever the kind (394) |
| `RemitIsTold`, OcCards, `Faults = {"remit"}` | `RemitPanel.tsx` 89: the remittance was reported | the panel ignores whether any relay took it (85) |
| `PresignsByItself`, OcCards, `Faults = {"presig"}` | `onchain/nostr/service.ts` 201: tried again on the next echo | an echo of an event it has is dropped, and the next event is the refund |
| `DepositsOutliveEscrow`, LnWindows, `Burst = 2`, `Drift = 2` | `timing-invariants.test.ts` 43: deposits live longer than the escrow | blocks count from the payment; an escrow paid at the end of its window uses up the deposit's extra day, and one block of drift does the rest |
| `OptionIsBounded`, OcWindows, `MaxAway = 4` | `onchain/timing.ts` 19-22: the total cannot exceed T0 + 105 minutes | account and KRW windows run from when the presignature is handled (`handlers.ts` 303) |
| `BondIsThere`, OcWindows, `MAX_ORDER_EXPIRY = 10`, `CLTV_SAFETY_MARGIN = 4`, `Drift = 5` | `timing.ts` 89: the ruling's time is guaranteed | a chain two percent fast over a full listing uses up the bond's margin (`deposit.ts` 108) |
| `FailedIsUnsent`, ChatStore | `chat-send.ts` 20: the status does not lie | a message whose chat was left while it was published is loaded again as failed; its retry arrives twice |
| `RetriedIsGone`, ChatStore, `SlowLoads = TRUE` | `chat-send.ts` 64: the old entry is removed | a slow `loadFromIdb` brings it back |
| `NoneForgotten`, ChatStore, `MaxReloads = 1` | `chat-send.ts` 73: it must not disappear silently | a tab closed between the deletion of the failed entry and the storing of the new one loses the text |
| `HasAWay`, ChatCall, two sponsors, `MaxReplacements = 1` | `TradeChat.tsx` 150: what you say to the counterparty the operator sees | `disclosed` is kept per order; after a new claim the operator has no key of the new conversation, and the call is locked |
| `DisclosureOpens`, ChatCall, as above | `DisputeChat.tsx` 40: no former sponsor's key is used | the customer's first call carries just that key |
| `FirstRings`, ChatCall, as above | `peer-chat.ts` 10: the first message always rings | `peer.last` is kept per order: a new sponsor's first message may be quiet |
| `LiveEscrowIsKept`, OcRescue, two right outputs, `Wary = FALSE` | `onchain/flow.ts` 181: the escrow of a trade in progress is never rescued | it is asked when the rescue is asked for and cosigned, not when it is broadcast (`effects.ts` 151-163) |
| `EachIsAskedFor`, OcRescue, `SameSecond = TRUE`, two wrong outputs | `sign-request-store.ts` 11: rescues come for each output separately | the dedup key of the request has no output: of two in one second the second is never queued |
| `SentIsTheOne`, OcRescue, two fees | `onchain/store.ts` 37: the txid, if the broadcast was accepted | a retry may broadcast a newer transaction and note the older one's txid (`effects.ts` 170) |
| `OnIsKnown`, Push | `push/subscribe.ts` 140: failures are thrown, since silence is the worst | after a failed publication the browser keeps the subscription, and the window, opened again, says "on" |
| `NextBootTriesAgain`, Push | `subscribe.ts` 131: tried again at the next boot | a migration that fails halfway leaves nothing for the next boot to see (119) |
| `NobodyReachedIsTriedAgain`, Push | `push/send.ts` 139: if all failed by the network, again | one that is gone and one that is unreachable count as done |
| `LatestIsShown`, Push | `sw.js` 27: replaced by the latest | a post that is retried takes the place of a newer notice |
| `DecidedIsSignable`, OcEscrow, an address in capitals | `verify.ts` 222: a refund goes to the address I gave | Bech32 in capitals is accepted, and compared as a string: the refund is refused for ever |
| `ReleaseStaysReady`, OcEscrow, `ClaimRates = {1050}`, `Rates = {220}` | `policy.ts` 5-6: daemon and app judge by one function | a claim is judged by five times the market, the release by the cap of refunds: the app refuses to sign |
| `PaidIsConfirmed`, Coupang, `Lapses = TRUE`, or `Fails = {"page"}` | `main.ts` 133: open the app and it is passed on | the status expires with the virtual account; and a first report of which no answer came is never made again |
| `ConfirmIsTrue`, Coupang, `SelfPays = TRUE` | `LnOrderCard.tsx` 62-63: asks before what was not paid is confirmed | the shop's status does not say who paid; the app confirms by itself |
| `AutoCancelIsFree`, Coupang, `Cancels = TRUE` | `LnOrderCard.tsx` 68-72: asks before a cancellation that costs the deposit | `relayCoupangStatus` sends it unasked |
| `AttachedIsAlive`, Coupang, `Lapses = TRUE` | `ParsedOrdersSection.tsx` 58-60: a transfer to a dead account fails | looked at when attached, not when the account is sent |
| `OneAccount`, Coupang, `Typing = TRUE` | `order-progress.ts` 341-342: nothing is attached once the account is out | noted only after the relays' answer: two accounts may go out |
| `OneListing`, Coupang, `MaxOrders = 2`, `Fails = {"order"}` | `parsed-store.ts` 37-39: the same order must not go up twice | a listing that timed out but arrived can be listed again |
| `StatusFindsItsOrder`, Coupang, as above | `buyer/nostr/service.ts` 211: the local order holds the mapping | a draft with the same shop order is found first, and the status is dropped |

Seen as well, and not stated as formulas: that what a rescue spends is outside the terms is "checked separately" (`state-machine.ts` 413), by the daemon, not by the app that signs (`verify.ts` 131-147); `createFailed` and the close match deposits by person and purpose, so the end of an
old attempt touches a claim the same sponsor has just made anew (`flow.ts` 99-105, `ln/effects.ts` 88-91);
`dispose` silently drops a second, different action for an invoice; `retry` overwrites an `expedite` that came during the run.
`finishClose` writes the terminal state without asking `canTransition`; that this is safe rests on
every handler that moves a trade looking at `pending_close` first. `swept` is booked on a sweep that is not confirmed
(`onchain/watcher.ts` 316). A reorg in `presigned` after the account was disclosed takes the order back to `bonded` (`decide.ts` 128-131), although the
sponsor may already have sent the KRW.

## 7. Assumptions and what is left out

*About the node.* A request takes effect before its call ends or not at all. (Under this the sweep in `hold.create`
for a cancelled row, `hold/index.ts` 228-234, is only a precaution.) LND pays a payment hash at most once and refuses an
invoice past its expiry. An unpaid invoice expires at `pay_by`; an accepted HTLC is given back near its own expiry.

*About time.* The daemon's clock is monotone. A tick is shorter than `PAY_BY_SKEW_SEC`, so `pay_by` passes between ticks, never between poll
and clock. Without an outage blocks do not skip a class of `Lives` that the daemon has not seen. A payment that arrives during a poll is one before or after it, since the poll
looks each invoice up once. Time stops when a trade ends.

*About people.* The operator pays by hand only after `manual` is shown, and reports what he did.

*Switches.* Some modules have constants that say what may go wrong outside; the passing parts set them to what the code's own texts presume, and the table of section 6
says what happens otherwise. `MaxAway` (how long a relay or the daemon is away), `RestartTakes`, `Backoff`; `Orderly` (a deposit of an old claim is disposed of before the new invoice is announced);
`Patient` (one waits for an answer before one presses again), `InOrder` (relays hand over what is stored in the order it was made), `Outside` and `Clock` (operator and deadlines act),
`Faults` and `MaxFaults` (which publications may fail), `Burst` and `Drift` (the chain's speed against the clock), `MaxConfirm`, `MaxReorgs`, `AcksLost`, `SlowLoads`,
`Wary` (the operator rescues only what is not the escrow's value), `SameSecond`, `MaxSane` (the cap on feerates that are signed).

*Left out of LnTrade.* Prices and amounts (whether there is a price is a choice); automatic approval is a choice too; settings are fixed
during a run; alerts that inform only, notifications, probes; the payout (LnPayout); a sponsor's new invoice while invoiced or remitted; `payment-confirm` that comes after the end; the limit on open designated orders; self-claims (I-007). The 30 seconds of margin before an invoice's expiry are part of `lapsed`. A payout whose
effect dies (no invoice, wrong amount) is excluded by the state machine and not modelled.

*Left out of OcTrade.* Amounts and fees (OcEscrow has the fees): a handler that refuses for want of a price, a fee or a readable payload changes nothing. Two things are merged:
asking the chain and applying the answer (the version check refuses answers about an older row; the chain may move on in between, by
less than a second), and one bond per party (a person's next bond is asked for when the last is settled). A daemon that runs has read what was
sent in time before it sees the deadline pass, and `CATCHUP_WARMUP_SEC` is enough after a restart. Deposits first seen after the order's end are not modelled, those that
confirm after it are. A final spend and a sweep are not undone by a reorg. The node accepts a transaction if its input is there and unspent.

*Left out of OcEscrow.* An output's value: a stray one is taken to have the agreed amount, so a fee says what is left of it as of the funding. The daemon's part in a rescue (OcRescue) and the settlement's own broadcast and reorganisations (OcTrade).

*Not modelled.* The database (a transaction is one atomic action, migrations are pure schema); boot, configuration, secrets, backup, heartbeat and watchdog (input and
output at process start, file copies); the adapter to the chain index and the relay pool with its discovery of relays (HTTP and connection handling; the models take their answers as any); login, remote signers
and NIP-46; encryption, event formats and parsing; all screens but for what they offer and promise.

## 8. Plan

What is modelled is complete but for section 7. Every safety property of the runs that are not unions is proved, and so are all parts of MCDaemon (Ingress, Dispatch, Publication, AdminChannel, AdminFeed, PriceFeed, LnWindows, OcWindows, OcEscrow and OcRescue)
and, of MCApps, LnCards, ChatStore, ChatCall, DepositNotices, Push and Coupang. What is left to prove is in OcCards. Each theorem holds under the conditions section 5 names for it.
