---------------------------- MODULE PartsProofs -----------------------------
(***************************************************************************)
(* Dispatch, proved for any requests, handlers, hold time, period of the   *)
(* tick, size of a batch and number of restarts; and, as instances, the    *)
(* ways in and out of the daemon (Ingress, AdminChannel, AdminFeed,        *)
(* Publication), proved for any relays, devices, recipients, errors of the *)
(* clocks, retentions and pauses; the chat and the notices of the user app *)
(* (ChatStore, ChatCall, DepositNotices, Push), proved for any texts,      *)
(* tries, quiet times, sponsors, claims, browsers, subscriptions, pushes,  *)
(* faults and restarts; and the shop's userscript with the seller's app    *)
(* (Coupang), proved for any number of sales.                              *)
(***************************************************************************)
EXTENDS Dispatch, Sequences, FiniteSetTheorems, WellFoundedInduction, TLAPS

CONSTANTS Relays, Epoch, Lookback, Skew, Resubscribe, MaxAway, MaxTime, Far, Commands,
          Devices, MaxVersion, MaxOffset, ADMIN_COMMAND_TTL, FUTURE_SKEW, Hoarders,
          LN_ACTIVE_RETENTION, LN_TERMINAL_RETENTION, MaxNewDbs, MaxLogouts, Operators,
          Designated, Unsealable, Reader, Backoff, RestartTakes, Texts, Theirs, MaxTries,
          MaxEnters, MaxReloads, AcksLost, SlowLoads, Customer, Sponsors, NoOne,
          CHAT_DM_QUIET_SEC, PEER_PUSH_QUIET_SEC, MaxEvents, MaxReplacements, MaxClaims,
          Orderly, MaxKey, MaxEp, Versions, Chats, MaxFaults, MaxCrashes, Breaks,
          Disables, MaxOrders, Fails, Hasty, Typing, OldKey, Cancels, SelfPays, Lapses

VARIABLES now, created, at, prompt, up, cursor, from, sub, received, age, away, offset,
          version, screen, status, command, posted, posting, waiting, judged, answer,
          answeredAt, heard, designated, last, relay, states, daemonState, decrypting,
          opening, opened, shown, endSeen, newDbs, logouts, lapsed, published_at, next_at,
          run, took, operators, known, alerted, newest, book, archive, chain, mine, open,
          chats, idb, asked, reads, flying, retrying, tries, enters, reloads, sponsor,
          replaced, sent, handled, dmAt, disclosed, peerLast, copies, called, seen,
          written, dms, waits, first, claim, claims, row, paid, disposing, notices, view,
          own, ownHeard, ownStatus, key, built, mig, migEp, lost, pan, panEp, wire, made,
          attempts, queue, answered, visible, left, shop, dead, payer, code, processed,
          page, card, orders, line, requesting, attaching, sending, dated, st, sends,
          reached

In == INSTANCE Ingress WITH inbox <- received
Cmd == INSTANCE AdminChannel
Feed == INSTANCE AdminFeed
Pub == INSTANCE Publication
Chat == INSTANCE ChatStore
Call == INSTANCE ChatCall
Dep == INSTANCE DepositNotices
Ring == INSTANCE Push
Shop == INSTANCE Coupang

-----------------------------------------------------------------------------
(* Dispatch. *)

\* What is under way belongs to the judging stage, and a request that was tried is not again.
Thread == /\ rows # {} \/ thrown # nobody => stage = "judge"
          /\ thrown \notin rows

IInv == TypeOK /\ Thread /\ ExactlyIfOk /\ NeverAsleep

\* Where nothing is received, and no time passes, while a tick looks for what to judge.
Punctual == \A e \in Received : inbox[e] < Hold => timer >= Hold - inbox[e]
Ripe == stage \in {"fees", "judge"} => \A e \in Received : inbox[e] >= Hold
ClosedIsRipe == \A e \in Received : outcome[e] # "none" => inbox[e] >= Hold
RowsAreFirst == \A e \in Open : /\ \A a \in rows : e < a => e \in rows \cup {thrown}
                                /\ thrown # nobody => ~(e < thrown)
PairsAreReceived == closeAfter \subseteq Received \X Received
EarlierIsClosed == \A a, e \in Received :
  <<a, e>> \in closeAfter /\ e < a /\ outcome[a] # "none" => outcome[e] # "none"
FirstRun == restarts = 0 /\ (stopped => Received = {})
InOrder == /\ Punctual /\ Ripe /\ ClosedIsRipe /\ RowsAreFirst /\ PairsAreReceived
           /\ EarlierIsClosed /\ FirstRun /\ JudgedInOrder

-----------------------------------------------------------------------------
LEMMA Below ==
  ASSUME NEW S \in SUBSET Nat, NEW e \in Nat
  PROVE  IsFiniteSet({x \in S : x < e})
<1>1. IsFiniteSet(0..e)
  BY FS_Interval
<1>2. \A x \in S : x \in Nat /\ (x < e => x \in 0..e)
  OBVIOUS
<1>3. {x \in S : x < e} \subseteq 0..e
  BY <1>2
<1> QED
  BY <1>1, <1>3, FS_Subset

LEMMA Least ==
  ASSUME NEW T, T \subseteq Nat, T # {}
  PROVE  \E x \in T : \A y \in T : x <= y
<1>1. \E x \in T : \A y \in T : ~(<<y, x>> \in OpToRel(<, Nat))
  BY WFMin, NatLessThanWellFounded
<1>2. \A x, y \in Nat : y < x => <<y, x>> \in OpToRel(<, Nat)
  BY DEF OpToRel
<1>3. ASSUME NEW x \in T, NEW y \in T, ~(<<y, x>> \in OpToRel(<, Nat))
      PROVE  x <= y
  <2>1. x \in Nat /\ y \in Nat /\ ~(y < x)
    BY <1>2, <1>3
  <2> QED
    BY <2>1
<1> QED
  BY <1>1, <1>3

\* A batch holds, with a request, all that were made before it.
LEMMA BatchIsClosedBelow ==
  ASSUME NEW S \in SUBSET Nat, NEW n \in Nat, NEW a \in Earliest(S, n), NEW e \in S, e < a
  PROVE  e \in Earliest(S, n)
<1> DEFINE below(x) == {y \in S : y < x}
<1>1. a \in S /\ Cardinality(below(a)) < n
  BY DEF Earliest
<1>2. a \in Nat /\ e \in Nat /\ \A y \in S : y \in Nat
  BY <1>1
<1>3. below(e) \subseteq below(a)
  <2>1. \A y \in S : y < e => y < a
    BY <1>2
  <2> QED
    BY <2>1
<1>4. IsFiniteSet(below(a)) /\ IsFiniteSet(below(e))
  BY <1>2, Below
<1>5. Cardinality(below(e)) \in Nat /\ Cardinality(below(a)) \in Nat
  BY <1>4, FS_CardinalityType
<1>6. Cardinality(below(e)) <= Cardinality(below(a))
  BY <1>3, <1>4, FS_Subset
<1>7. Cardinality(below(e)) < n
  BY <1>1, <1>5, <1>6
<1> QED
  BY <1>7 DEF Earliest

LEMMA FirstIsLeast ==
  ASSUME NEW S \in SUBSET Nat, NEW e \in Earliest(S, 1)
  PROVE  e \in S /\ \A x \in S : ~(x < e)
<1> DEFINE B == {y \in S : y < e}
<1>1. e \in S /\ Cardinality(B) < 1
  BY DEF Earliest
<1>2. IsFiniteSet(B)
  BY <1>1, Below
<1>3. Cardinality(B) \in Nat
  BY <1>2, FS_CardinalityType
<1>4. B = {}
  BY <1>1, <1>2, <1>3, FS_EmptySet
<1> QED
  BY <1>1, <1>4

-----------------------------------------------------------------------------
LEMMA Starts ==
  ASSUME DispatchAssumption, Init
  PROVE  IInv
<1>1. TypeOK
  BY DEF DispatchAssumption, Init, TypeOK, Received, Open
<1>2. Thread /\ ExactlyIfOk /\ NeverAsleep
  BY DEF Init, Thread, ExactlyIfOk, NeverAsleep
<1> QED
  BY <1>1, <1>2 DEF IInv

\* One request is judged.
LEMMA Processes ==
  ASSUME DispatchAssumption, IInv, process
  PROVE  IInv'
<1>1. PICK e \in Earliest(rows, 1) :
         /\ rows' = rows \ {e}
         /\ IF e \in Throwing \ Unrouted
            THEN thrown' = e /\ UNCHANGED <<outcome, applied>>
            ELSE /\ outcome' = [outcome EXCEPT ![e] = IF e \in Unrouted THEN "ignored" ELSE "ok"]
                 /\ applied' = IF e \in Unrouted THEN applied ELSE [applied EXCEPT ![e] = @ + 1]
                 /\ UNCHANGED thrown
  BY DEF process
<1>2. UNCHANGED <<inbox, stage, timer, stopped>> /\ stage = "judge" /\ thrown = nobody
  BY DEF process
<1>3. rows \subseteq Open /\ Open \subseteq Requests /\ Requests \subseteq Nat
  BY DEF IInv, TypeOK, Open, DispatchAssumption
<1>4. e \in rows /\ e \in Requests /\ e # nobody /\ outcome[e] = "none" /\ e \in Received
  BY <1>1, <1>3 DEF Earliest, Open, nobody
<1>5. Received' = Received
  BY <1>2 DEF Received
<1>6. CASE e \in Throwing \ Unrouted
  <2>1. Open' = Open
    BY <1>1, <1>5, <1>6 DEF Open
  <2>2. TypeOK'
    BY <1>1, <1>2, <1>3, <1>4, <1>5, <1>6, <2>1 DEF IInv, TypeOK
  <2> QED
    BY <1>1, <1>2, <1>3, <1>6, <2>2 DEF IInv, Thread, ExactlyIfOk, NeverAsleep
<1>7. CASE e \notin Throwing \ Unrouted
  <2>1. outcome \in [Requests -> {"none", "ok", "ignored", "error"}]
    BY DEF IInv, TypeOK
  <2>2. /\ outcome'[e] = IF e \in Unrouted THEN "ignored" ELSE "ok"
        /\ \A x \in Requests : x # e => outcome'[x] = outcome[x]
        /\ outcome' \in [Requests -> {"none", "ok", "ignored", "error"}]
    BY <1>1, <1>4, <1>7, <2>1
  <2>3. Open' = Open \ {e}
    <3>1. \A x \in Received : x \in Requests
      BY DEF IInv, TypeOK
    <3> QED
      BY <1>4, <1>5, <2>2, <3>1 DEF Open
  <2>4. applied' \in [Requests -> 0..1]
    BY <1>1, <1>4, <1>7 DEF IInv, TypeOK, ExactlyIfOk
  <2>5. TypeOK'
    BY <1>1, <1>2, <1>3, <1>4, <1>5, <2>2, <2>3, <2>4 DEF IInv, TypeOK
  <2>6. ExactlyIfOk'
    BY <1>1, <1>4, <1>7, <2>2 DEF IInv, TypeOK, ExactlyIfOk
  <2> QED
    BY <1>1, <1>2, <1>7, <2>5, <2>6 DEF IInv, Thread, NeverAsleep
<1> QED
  BY <1>6, <1>7

\* The rest of the tick and of the daemon judges nothing.
Quiet == UNCHANGED <<outcome, applied>>

LEMMA GoesOn ==
  ASSUME DispatchAssumption, IInv,
         start \/ Fire \/ runPending \/ Judged \/ EndTick \/ stop \/ Crash \/ Elapse
  PROVE  IInv'
<1>1. Quiet /\ Received' = Received
  BY DEF start, Fire, runPending, Judged, EndTick, stop, Crash, Elapse, Received, Quiet
<1>2. Open' = Open
  BY <1>1 DEF Open, Quiet
<1>3. \A e \in Received : inbox'[e] \in 0..Hold
  <2>1. CASE Elapse
    BY <2>1 DEF Elapse, IInv, TypeOK, DispatchAssumption
  <2>2. CASE ~ Elapse
    BY <2>2 DEF start, Fire, runPending, Judged, EndTick, stop, Crash, IInv, TypeOK
  <2> QED
    BY <2>1, <2>2
<1>4. rows' \subseteq Open /\ thrown' \in Open \cup {nobody} /\ thrown' \notin rows'
      /\ (rows' # {} \/ thrown' # nobody => stage' = "judge")
  <2>1. CASE runPending
    <3>1. rows' \subseteq Open
      BY <2>1 DEF runPending, Earliest
    <3>2. thrown = nobody /\ thrown' = thrown /\ stage' = "judge"
      BY <2>1 DEF runPending, IInv, Thread
    <3>3. nobody \notin Open
      BY DEF IInv, TypeOK, DispatchAssumption, Open, nobody
    <3> QED
      BY <3>1, <3>2, <3>3
  <2>2. CASE Crash
    BY <2>2 DEF Crash
  <2>3. CASE start \/ Fire \/ Judged \/ EndTick \/ stop \/ Elapse
    BY <2>3 DEF start, Fire, Judged, EndTick, stop, Elapse, IInv, TypeOK, Thread
  <2> QED
    BY <2>1, <2>2, <2>3
<1>5. timer' \in {NotSet} \cup 0..(IF Hold > TickEvery THEN Hold ELSE TickEvery)
      /\ stage' \in {"no", "fees", "judge", "rest"}
  BY DEF start, Fire, runPending, Judged, EndTick, stop, Crash, Elapse, schedule, IInv, TypeOK,
     DispatchAssumption, NotSet
<1>6. TypeOK'
  BY <1>1, <1>2, <1>3, <1>4, <1>5 DEF IInv, TypeOK, Quiet
<1>7. NeverAsleep'
  BY DEF start, Fire, runPending, Judged, EndTick, stop, Crash, Elapse, schedule, IInv, TypeOK,
     DispatchAssumption, NotSet, NeverAsleep
<1>8. ExactlyIfOk'
  BY <1>1 DEF Quiet, IInv, ExactlyIfOk
<1> QED
  BY <1>4, <1>6, <1>7, <1>8 DEF IInv, Thread

LEMMA Closes ==
  ASSUME DispatchAssumption, IInv, closeAsError
  PROVE  IInv'
<1>1. /\ outcome' = [outcome EXCEPT ![thrown] = "error"] /\ thrown' = nobody
      /\ UNCHANGED <<inbox, applied, stage, rows, timer, stopped>>
      /\ thrown \in Open /\ thrown \notin rows
  BY DEF closeAsError, IInv, TypeOK, Thread
<1>2. /\ outcome \in [Requests -> {"none", "ok", "ignored", "error"}]
      /\ thrown \in Requests /\ outcome[thrown] = "none"
      /\ Received' = Received /\ Received \subseteq Requests
  BY <1>1 DEF Open, IInv, TypeOK, Received
<1>3. /\ outcome'[thrown] = "error" /\ \A x \in Requests : x # thrown => outcome'[x] = outcome[x]
      /\ outcome' \in [Requests -> {"none", "ok", "ignored", "error"}]
  BY <1>1, <1>2
<1>4. Open' = Open \ {thrown}
  BY <1>2, <1>3 DEF Open
<1>5. TypeOK'
  BY <1>1, <1>2, <1>3, <1>4 DEF IInv, TypeOK, Open
<1>6. ExactlyIfOk'
  BY <1>1, <1>2, <1>3 DEF IInv, ExactlyIfOk
<1>7. nobody \notin rows
  BY DEF IInv, TypeOK, DispatchAssumption, Open, nobody
<1> QED
  BY <1>1, <1>5, <1>6, <1>7 DEF IInv, Thread, NeverAsleep

LEMMA Receives ==
  ASSUME DispatchAssumption, IInv, NEW e \in Requests, Receive(e)
  PROVE  IInv' /\ Received' = Received \cup {e} /\ Open' = Open \cup {e}
<1>1. /\ inbox' = [x \in Received \cup {e} |-> IF x = e THEN 0 ELSE inbox[x]] /\ e \notin Received
      /\ timer' = Hold /\ Quiet /\ UNCHANGED <<stage, rows, thrown, stopped>>
  BY DEF Receive, schedule, Quiet
<1>2. Received' = Received \cup {e} /\ outcome[e] = "none"
  BY <1>1 DEF Received, IInv, TypeOK
<1>3. Open' = Open \cup {e}
  BY <1>1, <1>2 DEF Open, Quiet
<1>4. \A x \in Received' : inbox'[x] \in 0..Hold
  BY <1>1, <1>2 DEF IInv, TypeOK, DispatchAssumption
<1>5. timer' \in 0..(IF Hold > TickEvery THEN Hold ELSE TickEvery)
  BY <1>1 DEF DispatchAssumption
<1>6. TypeOK'
  BY <1>1, <1>2, <1>3, <1>4, <1>5 DEF IInv, TypeOK, Quiet
<1>7. NeverAsleep'
  BY <1>5 DEF NeverAsleep, NotSet
<1> QED
  BY <1>1, <1>2, <1>3, <1>6, <1>7 DEF IInv, Thread, ExactlyIfOk, Quiet

LEMMA Steps ==
  ASSUME DispatchAssumption, IInv, [Next]_vars
  PROVE  IInv'
<1>1. CASE UNCHANGED vars
  BY <1>1 DEF vars, IInv, TypeOK, Thread, ExactlyIfOk, NeverAsleep, Received, Open
<1>2. CASE Next
  BY <1>2, Processes, GoesOn, Closes, Receives DEF Next, Tick
<1> QED
  BY <1>1, <1>2

LEMMA Invariant == DispatchAssumption => (Spec => []IInv)
<1> SUFFICES ASSUME DispatchAssumption PROVE Spec => []IInv
  OBVIOUS
<1>1. Init => IInv
  BY Starts
<1>2. IInv /\ [Next]_vars => IInv'
  BY Steps
<1> QED
  BY <1>1, <1>2, PTL DEF Spec

\* What a handler wrote is there exactly if its request is closed as ok, and once: whatever
\* throws, and wherever in a tick the process dies (dispatch.ts, process).
THEOREM AppliedExactlyIfOk == ASSUME DispatchAssumption PROVE Spec => []ExactlyIfOk
<1>1. IInv => ExactlyIfOk
  BY DEF IInv
<1> QED
  BY <1>1, Invariant, PTL

\* A daemon that runs is in a tick or has one before it, however pokes, the timer, the end of a
\* tick, stops and crashes meet (runtime.ts, schedule and tick).
THEOREM DaemonIsAwake == ASSUME DispatchAssumption PROVE Spec => []NeverAsleep
<1>1. IInv => NeverAsleep
  BY DEF IInv
<1> QED
  BY <1>1, Invariant, PTL

-----------------------------------------------------------------------------
\* Nothing is received between the selection and the judging, and nobody stops the daemon.
AtOnce == DispatchAssumption /\ FeesTake = FALSE /\ MaxRestarts = 0

LEMMA StartsInOrder ==
  ASSUME AtOnce, Init
  PROVE  InOrder
<1>1. Received = {} /\ Open = {}
  BY DEF Init, Received, Open
<1> QED
  BY <1>1 DEF Init, InOrder, Punctual, Ripe, ClosedIsRipe, RowsAreFirst, PairsAreReceived,
     EarlierIsClosed, FirstRun, JudgedInOrder

\* The request that is judged is the first of those that are open.
LEMMA JudgesTheFirst ==
  ASSUME AtOnce, IInv, InOrder, process
  PROVE  InOrder'
<1> USE DEF AtOnce
<1>1. PICK e \in Earliest(rows, 1) :
         /\ rows' = rows \ {e}
         /\ swapped' = swapped \cup (Overtakers(e) \cap closeAfter)
         /\ IF e \in Throwing \ Unrouted
            THEN thrown' = e /\ UNCHANGED <<outcome, applied>>
            ELSE /\ outcome' = [outcome EXCEPT ![e] = IF e \in Unrouted THEN "ignored" ELSE "ok"]
                 /\ UNCHANGED thrown
  BY DEF process
<1>2. UNCHANGED <<inbox, closeAfter, stage, timer, stopped, restarts>> /\ stage = "judge" /\ thrown = nobody
  BY DEF process
<1>3. rows \in SUBSET Nat /\ rows \subseteq Open /\ Open \subseteq Received /\ Received \subseteq Nat
      /\ Received \subseteq Requests /\ nobody \notin Received
  BY DEF IInv, TypeOK, Open, DispatchAssumption, nobody
<1>4. e \in rows /\ \A x \in rows : ~(x < e)
  BY <1>1, <1>3, FirstIsLeast
<1>5. e \in Open /\ e \in Nat /\ outcome[e] = "none" /\ e # nobody
  BY <1>3, <1>4 DEF Open
<1>6. \A x \in Open : ~(x < e)
  BY <1>2, <1>3, <1>4 DEF InOrder, RowsAreFirst
<1>7. Received' = Received
  BY <1>2 DEF Received
<1>8. \A x \in Received : x # e => outcome'[x] = outcome[x]
  BY <1>1, <1>3, <1>5 DEF IInv, TypeOK
<1>9. inbox[e] >= Hold
  BY <1>2, <1>3, <1>5 DEF InOrder, Ripe
<1>10. ClosedIsRipe'
  BY <1>2, <1>7, <1>8, <1>9 DEF InOrder, ClosedIsRipe
<1>11. EarlierIsClosed'
  <2>1. SUFFICES ASSUME NEW a \in Received, NEW x \in Received, <<a, x>> \in closeAfter, x < a,
                        outcome'[a] # "none"
                 PROVE  outcome'[x] # "none"
    BY <1>2, <1>7 DEF EarlierIsClosed
  <2>2. CASE a = e
    <3>1. x \notin Open /\ x # e
      BY <1>6, <1>5, <2>1, <2>2
    <3> QED
      BY <1>8, <3>1 DEF Open
  <2>3. CASE a # e
    <3>1. outcome[a] # "none"
      BY <1>8, <2>1, <2>3
    <3>2. outcome[x] # "none"
      BY <2>1, <3>1 DEF InOrder, EarlierIsClosed
    <3> QED
      BY <1>5, <1>8, <3>2
  <2> QED
    BY <2>2, <2>3
<1>12. swapped' = {}
  <2>1. \A a \in Received : <<a, e>> \in closeAfter /\ a > e => outcome[a] = "none"
    BY <1>3, <1>5 DEF InOrder, EarlierIsClosed
  <2>2. Overtakers(e) \cap closeAfter = {}
    BY <2>1 DEF Overtakers
  <2> QED
    BY <1>1, <2>2 DEF InOrder, JudgedInOrder
<1>13. Open' = IF e \in Throwing \ Unrouted THEN Open ELSE Open \ {e}
  <2>1. CASE e \in Throwing \ Unrouted
    BY <1>1, <1>7, <2>1 DEF Open
  <2>2. CASE e \notin Throwing \ Unrouted
    <3>1. outcome'[e] # "none"
      BY <1>1, <1>3, <1>5, <2>2 DEF IInv, TypeOK
    <3> QED
      BY <1>5, <1>7, <1>8, <2>2, <3>1 DEF Open
  <2> QED
    BY <2>1, <2>2
<1>14. \A x \in Open, a \in rows : x < a => x \in rows
  BY <1>2, <1>3 DEF InOrder, RowsAreFirst
<1>15. RowsAreFirst'
  <2>1. CASE e \in Throwing \ Unrouted
    BY <1>1, <1>6, <1>13, <1>14, <2>1 DEF RowsAreFirst
  <2>2. CASE e \notin Throwing \ Unrouted
    BY <1>1, <1>2, <1>13, <1>14, <2>2 DEF RowsAreFirst
  <2> QED
    BY <2>1, <2>2
<1>16. Punctual' /\ Ripe' /\ PairsAreReceived' /\ FirstRun'
  BY <1>2, <1>7 DEF InOrder, Punctual, Ripe, PairsAreReceived, FirstRun
<1> QED
  BY <1>10, <1>11, <1>12, <1>15, <1>16 DEF InOrder, JudgedInOrder

LEMMA ClosesTheFirst ==
  ASSUME AtOnce, IInv, InOrder, closeAsError
  PROVE  InOrder'
<1> USE DEF AtOnce
<1>1. /\ outcome' = [outcome EXCEPT ![thrown] = "error"] /\ thrown' = nobody
      /\ UNCHANGED <<inbox, closeAfter, swapped, stage, rows, timer, stopped, restarts>>
      /\ thrown \in Open /\ thrown # nobody
  BY DEF closeAsError, IInv, TypeOK
<1>2. /\ Received' = Received /\ Received \subseteq Requests /\ Requests \subseteq Nat
      /\ thrown \in Received /\ stage = "judge"
  BY <1>1 DEF Open, IInv, TypeOK, Thread, Received, DispatchAssumption
<1>3. outcome'[thrown] = "error" /\ \A x \in Received : x # thrown => outcome'[x] = outcome[x]
  BY <1>1, <1>2 DEF IInv, TypeOK
<1>4. Open' = Open \ {thrown}
  BY <1>2, <1>3 DEF Open
<1>5. \A x \in Open : ~(x < thrown)
  BY <1>1 DEF InOrder, RowsAreFirst
<1>6. RowsAreFirst'
  BY <1>1, <1>4 DEF InOrder, RowsAreFirst
<1>7. ClosedIsRipe'
  BY <1>1, <1>2, <1>3 DEF InOrder, Ripe, ClosedIsRipe
<1>8. EarlierIsClosed'
  <2>1. SUFFICES ASSUME NEW a \in Received, NEW x \in Received, <<a, x>> \in closeAfter, x < a,
                        outcome'[a] # "none"
                 PROVE  outcome'[x] # "none"
    BY <1>1, <1>2 DEF EarlierIsClosed
  <2>2. CASE a = thrown
    <3>1. x \notin Open
      BY <1>5, <2>1, <2>2
    <3> QED
      BY <1>1, <1>3, <3>1 DEF Open
  <2>3. CASE a # thrown
    <3>1. outcome[x] # "none"
      BY <1>3, <2>1, <2>3 DEF InOrder, EarlierIsClosed
    <3> QED
      BY <1>3, <3>1
  <2> QED
    BY <2>2, <2>3
<1>9. Punctual' /\ Ripe' /\ PairsAreReceived' /\ FirstRun' /\ JudgedInOrder'
  BY <1>1, <1>2 DEF InOrder, Punctual, Ripe, PairsAreReceived, FirstRun, JudgedInOrder
<1> QED
  BY <1>6, <1>7, <1>8, <1>9 DEF InOrder

\* A request that comes in is close only to requests that have not been held long enough.
LEMMA ReceivesInOrder ==
  ASSUME AtOnce, IInv, InOrder, NEW e \in Requests, Receive(e)
  PROVE  InOrder'
<1> USE DEF AtOnce
<1>1. /\ inbox' = [x \in Received \cup {e} |-> IF x = e THEN 0 ELSE inbox[x]] /\ e \notin Received
      /\ closeAfter' = closeAfter \cup {<<a, e>> : a \in {x \in Received : inbox[x] < Hold}}
      /\ timer' = Hold /\ ~stopped
      /\ UNCHANGED <<outcome, swapped, stage, rows, thrown, stopped, restarts>>
  BY DEF Receive, schedule
<1>2. Received' = Received \cup {e} /\ Open' = Open \cup {e}
  BY Receives
<1>3. stage \in {"no", "rest"} /\ rows = {} /\ thrown = nobody
  BY DEF Receive, Yields, IInv, Thread
<1>4. \A x \in Received : inbox[x] \in 0..Hold /\ inbox'[x] = inbox[x]
  BY <1>1 DEF IInv, TypeOK
<1>5. inbox'[e] = 0 /\ outcome[e] = "none" /\ Hold \in Nat
  BY <1>1 DEF IInv, TypeOK, DispatchAssumption
<1>6. Punctual'
  BY <1>1, <1>2, <1>4, <1>5 DEF Punctual
<1>7. ClosedIsRipe'
  BY <1>1, <1>2, <1>4, <1>5 DEF InOrder, ClosedIsRipe
<1>8. Ripe' /\ RowsAreFirst'
  BY <1>1, <1>3 DEF Ripe, RowsAreFirst
<1>9. PairsAreReceived'
  BY <1>1, <1>2 DEF InOrder, PairsAreReceived
<1>10. EarlierIsClosed'
  <2>1. SUFFICES ASSUME NEW a \in Received \cup {e}, NEW x \in Received \cup {e},
                        <<a, x>> \in closeAfter', x < a, outcome[a] # "none"
                 PROVE  outcome[x] # "none"
    BY <1>1, <1>2 DEF EarlierIsClosed
  <2>2. CASE <<a, x>> \in closeAfter
    BY <2>1, <2>2 DEF InOrder, EarlierIsClosed, PairsAreReceived
  <2>3. CASE <<a, x>> \notin closeAfter
    <3>1. a \in Received /\ inbox[a] < Hold
      BY <1>1, <2>1, <2>3
    <3> QED
      BY <1>4, <1>5, <2>1, <3>1 DEF InOrder, ClosedIsRipe
  <2> QED
    BY <2>2, <2>3
<1>11. FirstRun' /\ JudgedInOrder'
  BY <1>1 DEF InOrder, FirstRun, JudgedInOrder
<1> QED
  BY <1>6, <1>7, <1>8, <1>9, <1>10, <1>11 DEF InOrder

\* The timer is never due before the last that came in has been held long enough.
LEMMA GoesOnInOrder ==
  ASSUME AtOnce, IInv, InOrder, start \/ Fire \/ runPending \/ Judged \/ EndTick \/ stop \/ Crash \/ Elapse
  PROVE  InOrder'
<1> USE DEF AtOnce
<1>1. ~stop /\ ~Crash
  BY DEF stop, Crash, InOrder, FirstRun
<1>2. UNCHANGED <<outcome, closeAfter, swapped, restarts>> /\ Received' = Received
  BY <1>1 DEF start, Fire, runPending, Judged, EndTick, Elapse, Received
<1>3. Open' = Open
  BY <1>2 DEF Open
<1>4. /\ timer \in Nat \cup {NotSet} /\ Hold \in Nat /\ TickEvery \in Nat
      /\ \A x \in Received : inbox[x] \in 0..Hold
  BY DEF IInv, TypeOK, DispatchAssumption
<1>5. \A x \in Received : inbox'[x] >= inbox[x] /\ inbox'[x] \in 0..Hold
  <2>1. CASE Elapse
    BY <1>4, <2>1 DEF Elapse
  <2>2. CASE ~Elapse
    BY <1>1, <1>4, <2>2 DEF start, Fire, runPending, Judged, EndTick
  <2> QED
    BY <2>1, <2>2
<1>6. Punctual'
  <2>1. CASE Elapse
    BY <1>2, <1>4, <2>1 DEF Elapse, InOrder, Punctual, NotSet
  <2>2. CASE start
    BY <1>2, <2>2 DEF start, InOrder, FirstRun, Punctual
  <2>3. CASE Fire \/ EndTick
    BY <1>2, <1>4, <2>3 DEF Fire, EndTick, schedule, InOrder, Punctual, NotSet
  <2>4. CASE runPending \/ Judged
    BY <1>2, <2>4 DEF runPending, Judged, InOrder, Punctual
  <2> QED
    BY <1>1, <2>1, <2>2, <2>3, <2>4
<1>7. Ripe'
  <2>1. CASE Fire
    BY <1>2, <1>4, <2>1 DEF Fire, Yields, InOrder, Punctual, Ripe
  <2>2. CASE ~Fire
    BY <1>1, <1>2, <1>4, <1>5, <2>2 DEF start, runPending, Judged, EndTick, Elapse, InOrder, Ripe
  <2> QED
    BY <2>1, <2>2
<1>8. ClosedIsRipe'
  BY <1>2, <1>4, <1>5 DEF InOrder, ClosedIsRipe
<1>9. RowsAreFirst'
  <2>1. CASE runPending
    <3>1. thrown' = nobody
      BY <2>1 DEF runPending, IInv, Thread
    <3>2. {x \in Open : inbox[x] >= Hold} = Open
      BY <2>1 DEF runPending, InOrder, Ripe, Open
    <3>3. rows' = Earliest(Open, Batch) /\ Open \in SUBSET Nat /\ Batch \in Nat
      BY <2>1, <3>2 DEF runPending, Open, IInv, TypeOK, DispatchAssumption
    <3>4. \A x \in Open, a \in rows' : x < a => x \in rows'
      BY <3>3, BatchIsClosedBelow
    <3> QED
      BY <1>3, <3>1, <3>4 DEF RowsAreFirst
  <2>2. CASE ~runPending
    BY <1>1, <1>3, <2>2 DEF start, Fire, Judged, EndTick, Elapse, InOrder, RowsAreFirst
  <2> QED
    BY <2>1, <2>2
<1>10. PairsAreReceived' /\ EarlierIsClosed' /\ JudgedInOrder'
  BY <1>2 DEF InOrder, PairsAreReceived, EarlierIsClosed, JudgedInOrder
<1>11. FirstRun'
  BY <1>1, <1>2 DEF start, Fire, runPending, Judged, EndTick, Elapse, InOrder, FirstRun
<1> QED
  BY <1>6, <1>7, <1>8, <1>9, <1>10, <1>11 DEF InOrder

\* While no tick waits for fee rates and the daemon stays up, requests that come in within the
\* hold time of each other are judged in the order in which they were made, whatever their
\* number, the batch and the handlers that throw (dispatch.ts, runPending).
THEOREM HoldMakesOrder == ASSUME AtOnce PROVE Spec => []JudgedInOrder
<1>1. Init => IInv /\ InOrder
  BY Starts, StartsInOrder DEF AtOnce
<1>2. IInv /\ InOrder /\ [Next]_vars => (IInv /\ InOrder)'
  <2> SUFFICES ASSUME IInv, InOrder, [Next]_vars PROVE IInv' /\ InOrder'
    OBVIOUS
  <2>1. IInv'
    BY Steps DEF AtOnce
  <2>2. InOrder'
    <3>1. CASE UNCHANGED vars
      BY <3>1 DEF vars, InOrder, Punctual, Ripe, ClosedIsRipe, RowsAreFirst, PairsAreReceived,
         EarlierIsClosed, FirstRun, JudgedInOrder, Received, Open
    <3>2. CASE Next
      BY <3>2, JudgesTheFirst, ClosesTheFirst, ReceivesInOrder, GoesOnInOrder DEF Next, Tick
    <3> QED
      BY <3>1, <3>2
  <2> QED
    BY <2>1, <2>2
<1>3. InOrder => JudgedInOrder
  BY DEF InOrder
<1> QED
  BY <1>1, <1>2, <1>3, PTL DEF Spec

-----------------------------------------------------------------------------
\* Ingress.

\* What the proof needs of the types: the numbers that are compared.
Typed ==
    /\ now \in Int /\ cursor \in Int /\ from \in Int
    /\ created \in [Requests -> Int]
    /\ at \in [Relays -> SUBSET Requests] /\ away \in [Relays -> 0..MaxAway]
    /\ prompt \subseteq Requests

\* The cursor is not moved ahead of the clock by more than Skew, and a subscription that
\* is open asks for no less than a new one would.
CursorIsNear == cursor <= now + Skew /\ from <= In!since

\* A request that was sent in time and is not received waits at a relay that has not served
\* us In!since: for as long as it is older than In!Grace.
WaitsAt(e, r) == e \in at[r] /\ now - created[e] <= In!Grace + away[r]
Waits == \A e \in prompt : /\ created[e] >= Epoch /\ created[e] # In!Unsent
                           /\ e \in received \/ \E r \in Relays : WaitsAt(e, r)

Reach == Typed /\ CursorIsNear /\ Waits

-----------------------------------------------------------------------------
LEMMA SinceIsInt ==
  ASSUME In!IngressAssumption, Typed
  PROVE  In!since \in Int /\ In!since >= Epoch /\ (In!since = cursor - Lookback \/ In!since = Epoch)
BY DEF In!IngressAssumption, Typed, In!since

\* Nobody is away for so long that the next subscription would not ask for what waits.
LEMMA InReach ==
  ASSUME In!IngressAssumption, Reach
  PROVE  In!StaysInReach
<1> SUFFICES ASSUME NEW e \in prompt, e \notin received
             PROVE  created[e] >= In!since
  BY DEF In!StaysInReach
<1>1. created[e] \in Int /\ created[e] >= Epoch
  BY DEF Reach, Typed, Waits
<1>2. PICK r \in Relays : WaitsAt(e, r)
  BY DEF Reach, Waits
<1>3. away[r] \in 0..MaxAway /\ MaxAway \in Nat /\ Lookback \in Nat /\ Skew \in Nat /\ Epoch \in Nat
  BY DEF Reach, Typed, In!IngressAssumption
<1>4. now - created[e] <= Lookback - Skew
  BY <1>1, <1>2, <1>3 DEF WaitsAt, In!Grace, Reach, Typed
<1>5. cursor - Lookback <= created[e]
  BY <1>1, <1>3, <1>4 DEF Reach, Typed, CursorIsNear
<1> QED
  BY <1>1, <1>5 DEF In!since

\* What waits at a relay that serves us comes, so while time goes by that relay is away.
LEMMA TimePasses ==
  ASSUME In!IngressAssumption, Reach, In!Elapse
  PROVE  Reach'
<1>1. /\ now' = now + 1 /\ UNCHANGED <<created, at, prompt, cursor, from, received>>
      /\ away' = [r \in Relays |-> IF In!Served(r) THEN 0 ELSE away[r] + 1]
      /\ \A r \in Relays : In!Served(r) \/ away[r] < MaxAway
  BY DEF In!Elapse
<1>2. MaxAway \in Nat /\ Skew \in Nat /\ Lookback \in Nat /\ Epoch \in Nat
  BY DEF In!IngressAssumption
<1>3. Typed'
  BY <1>1, <1>2 DEF Reach, Typed
<1>4. CursorIsNear'
  BY <1>1, <1>2 DEF Reach, Typed, CursorIsNear, In!since
<1>5. ASSUME NEW e \in prompt, e \notin received
      PROVE  \E r \in Relays : WaitsAt(e, r)'
  <2>1. PICK r \in Relays : WaitsAt(e, r)
    BY <1>5 DEF Reach, Waits
  <2>2. created[e] \in Int /\ created[e] >= In!since
    BY <1>5, InReach DEF In!StaysInReach, Reach, Typed
  <2>3. created[e] >= from
    BY <2>2, SinceIsInt DEF Reach, CursorIsNear, Typed
  <2>4. ~In!Served(r)
    BY <1>5, <2>1, <2>3 DEF In!Served, In!Coming, WaitsAt
  <2>5. away'[r] = away[r] + 1 /\ away[r] \in Int
    BY <1>1, <2>4 DEF Reach, Typed
  <2>6. In!Grace \in Int
    BY <1>2 DEF In!Grace
  <2>7. WaitsAt(e, r)'
    BY <1>1, <2>1, <2>2, <2>5, <2>6 DEF WaitsAt, Reach, Typed
  <2> QED
    BY <2>7
<1>6. Waits'
  BY <1>1, <1>5 DEF Reach, Waits
<1> QED
  BY <1>3, <1>4, <1>6 DEF Reach

\* A request that gets to a relay in time waits there.
LEMMA Arrives ==
  ASSUME In!IngressAssumption, Reach, NEW e \in Requests, NEW r \in Relays, In!Arrive(e, r)
  PROVE  Reach'
<1>1. /\ at' = [at EXCEPT ![r] = @ \cup {e}] /\ created[e] # In!Unsent
      /\ prompt' = IF now - created[e] <= In!Grace /\ created[e] >= Epoch THEN prompt \cup {e} ELSE prompt
      /\ UNCHANGED <<now, created, cursor, from, received, away>>
  BY DEF In!Arrive
<1>2. Typed'
  BY <1>1 DEF Reach, Typed
<1>3. CursorIsNear'
  BY <1>1 DEF Reach, CursorIsNear, In!since
<1>4. \A x \in Requests, s \in Relays : WaitsAt(x, s) => WaitsAt(x, s)'
  BY <1>1 DEF WaitsAt, Reach, Typed
<1>5. e \in prompt' => e \in prompt \/ (created[e] >= Epoch /\ WaitsAt(e, r)')
  <2>1. e \in at'[r]
    BY <1>1 DEF Reach, Typed
  <2>2. In!Grace \in Int /\ away[r] \in Nat /\ now \in Int /\ created[e] \in Int
    BY DEF In!Grace, In!IngressAssumption, Reach, Typed
  <2> QED
    BY <1>1, <2>1, <2>2 DEF WaitsAt
<1>6. \A x \in prompt' : x = e \/ x \in prompt
  BY <1>1
<1>7. Waits'
  <2> SUFFICES ASSUME NEW x \in prompt'
               PROVE  /\ created'[x] >= Epoch /\ created'[x] # In!Unsent
                      /\ x \in received' \/ \E s \in Relays : WaitsAt(x, s)'
    BY DEF Waits
  <2>1. CASE x \in prompt
    BY <1>1, <1>4, <2>1 DEF Reach, Typed, Waits
  <2>2. CASE x \notin prompt
    BY <1>1, <1>5, <1>6, <2>2
  <2> QED
    BY <2>1, <2>2
<1> QED
  BY <1>2, <1>3, <1>7 DEF Reach

\* The cursor moves forward, and a subscription that is open keeps what it has asked for.
LEMMA Accepts ==
  ASSUME In!IngressAssumption, Reach, NEW e \in Requests, NEW r \in Relays, In!accept(e, r)
  PROVE  Reach'
<1>1. /\ received' = received \cup {e}
      /\ cursor' = IF created[e] <= now + Skew /\ created[e] > cursor THEN created[e] ELSE cursor
      /\ UNCHANGED <<now, created, at, prompt, from, away>>
  BY DEF In!accept
<1>2. Typed'
  BY <1>1 DEF Reach, Typed
<1>3. cursor' >= cursor /\ cursor' <= now + Skew
  BY <1>1 DEF Reach, Typed, CursorIsNear, In!IngressAssumption
<1>4. CursorIsNear'
  BY <1>1, <1>2, <1>3 DEF Reach, Typed, CursorIsNear, In!since, In!IngressAssumption
<1>5. Waits'
  BY <1>1 DEF Reach, Waits, WaitsAt
<1> QED
  BY <1>2, <1>4, <1>5 DEF Reach

LEMMA Makes ==
  ASSUME In!IngressAssumption, Reach, NEW e \in Requests, NEW t \in In!CreationTimes, In!Make(e, t)
  PROVE  Reach'
<1>1. /\ created[e] = In!Unsent /\ created' = [created EXCEPT ![e] = t]
      /\ UNCHANGED <<now, at, prompt, cursor, from, received, away>>
  BY DEF In!Make
<1>2. t \in Int
  BY DEF In!CreationTimes, In!IngressAssumption, Reach, Typed
<1>3. Typed' /\ CursorIsNear'
  BY <1>1, <1>2 DEF Reach, Typed, CursorIsNear, In!since
<1>4. \A x \in prompt : created'[x] = created[x]
  BY <1>1 DEF Reach, Typed, Waits
<1>5. Waits'
  BY <1>1, <1>4 DEF Reach, Waits, WaitsAt
<1> QED
  BY <1>3, <1>5 DEF Reach

LEMMA Reopens ==
  ASSUME In!IngressAssumption, Reach, NEW reachable \in SUBSET Relays,
         In!reopen(reachable) \/ In!start(reachable)
  PROVE  Reach'
<1>1. from' = In!since /\ UNCHANGED <<now, created, at, prompt, cursor, received, away>>
  BY DEF In!reopen, In!start
<1>2. Typed'
  BY <1>1, SinceIsInt DEF Reach, Typed
<1>3. CursorIsNear' /\ Waits'
  BY <1>1, SinceIsInt DEF Reach, CursorIsNear, In!since, Waits, WaitsAt
<1> QED
  BY <1>2, <1>3 DEF Reach

LEMMA Ingresses ==
  ASSUME In!IngressAssumption, Reach, [In!Next]_(In!vars)
  PROVE  Reach'
<1>1. CASE UNCHANGED In!vars \/ In!Down \/ \E r \in Relays : In!SilentDeath(r)
  BY <1>1 DEF In!vars, In!Down, In!SilentDeath, Reach, Typed, CursorIsNear, In!since, Waits, WaitsAt
<1>2. CASE In!Elapse
  BY <1>2, TimePasses
<1>3. CASE \E e \in Requests : \E t \in In!CreationTimes : In!Make(e, t)
  BY <1>3, Makes
<1>4. CASE \E e \in Requests, r \in Relays : In!Arrive(e, r) \/ In!accept(e, r)
  BY <1>4, Arrives, Accepts
<1>5. CASE \E reachable \in SUBSET Relays : In!reopen(reachable) \/ In!start(reachable)
  BY <1>5, Reopens
<1> QED
  BY <1>1, <1>2, <1>3, <1>4, <1>5 DEF In!Next

\* A request that got to some relay in time is received, or the next subscription still asks
\* for it: whatever relays fall silent or are not reached, wherever the process dies and
\* however wrong clocks are (ingress.ts, since and the cursor of accept).
THEOREM RequestsStayInReach == ASSUME In!IngressAssumption PROVE In!Spec => []In!StaysInReach
<1>1. In!Init => Reach
  BY DEF In!IngressAssumption, In!Init, Reach, Typed, CursorIsNear, In!since, Waits, In!Unsent
<1>2. Reach /\ [In!Next]_(In!vars) => Reach'
  BY Ingresses
<1>3. Reach => In!StaysInReach
  BY InReach
<1> QED
  BY <1>1, <1>2, <1>3, PTL DEF In!Spec

-----------------------------------------------------------------------------
(* AdminChannel. *)

\* The sizes of the instance are those of its sets.
LEMMA SizesOfCmd ==
  ASSUME NEW S
  PROVE  (Cmd!IsFiniteSet(S) <=> IsFiniteSet(S)) /\ Cmd!Cardinality(S) = Cardinality(S)
<1>1. Cmd!IsFiniteSet(S) <=> IsFiniteSet(S)
  BY DEF IsFiniteSet, Cmd!IsFiniteSet
<1>2. Cmd!Cardinality(S) = Cardinality(S)
  BY DEF Cardinality, Cmd!Cardinality
<1> QED
  BY <1>1, <1>2

Statuses == {"unpressed", "sending", "pending", "failed-to-send", "timeout", "done"}
Presses == [device : Devices \cup {""}, kind : Cmd!Kinds \cup {""}, saw : Nat, created_at : Int, at : Nat]

CmdTyped ==
  /\ now \in 0 .. MaxTime /\ offset \in [Devices -> -MaxOffset .. MaxOffset]
  /\ version \in Nat \ {0} /\ screen \in [Devices -> 1 .. version]
  /\ status \in [Commands -> Statuses] /\ command \in [Commands -> Presses]
  /\ posted \subseteq Commands /\ posting \subseteq Commands /\ waiting \subseteq Commands /\ heard \subseteq Commands
  /\ judged \in [Commands -> {"no", "done", "refused", "ignored"}]
  /\ answer \in [Commands -> {"none", "queued", "out", "dead"}] /\ answeredAt \in [Commands -> Nat]

\* What a press has to do with its device, the version it saw, and what is under way of it.
Pushed ==
  /\ posted \cup posting \cup heard \subseteq Cmd!Pressed
  /\ \A c \in Cmd!Pressed : /\ command[c].device \in Devices /\ command[c].saw <= version
                            /\ command[c].created_at = command[c].at + offset[command[c].device]
CmdWaits ==
  /\ \A c \in waiting : c \in posted /\ status[c] = "pending"
  /\ posting \cap waiting = {}

Verdicts ==
  /\ \A c \in heard : answer[c] = "out"
  /\ \A c \in Commands : /\ judged[c] # "no" => c \in posted
                         /\ (answer[c] # "none") = (judged[c] \in {"done", "refused"})

\* There is room for what is not judged yet, and a ruling has left behind the version it was about.
Fresh == {c \in Commands : judged[c] = "no"}
Rulings ==
  /\ version + Cardinality(Fresh) <= MaxVersion
  /\ \A c \in Cmd!Done : command[c].kind = "rule" => command[c].saw < version
  /\ Cmd!OneRulingPerVersion

CmdIInv == CmdTyped /\ Pushed /\ CmdWaits /\ Verdicts /\ Rulings

LEMMA CmdStarts == ASSUME Cmd!AdminChannelAssumption PROVE Cmd!Init => CmdIInv
<1> SUFFICES ASSUME Cmd!Init PROVE CmdIInv
  OBVIOUS
<1>1. CmdTyped
  <2>1. Cmd!Unpressed \in Presses /\ now \in 0 .. MaxTime
    <3>1. now \in 0 .. MaxTime
      BY DEF Cmd!Init, Cmd!AdminChannelAssumption
    <3>2. Cmd!Unpressed \in Presses
      BY DEF Cmd!Unpressed, Presses
    <3> QED
      BY <3>1, <3>2
  <2>2. screen \in [Devices -> 1 .. version] /\ version \in Nat \ {0}
    BY DEF Cmd!Init
  <2>3. command \in [Commands -> Presses]
    BY <2>1 DEF Cmd!Init
  <2>4. /\ status \in [Commands -> Statuses] /\ judged \in [Commands -> {"no", "done", "refused", "ignored"}]
        /\ answer \in [Commands -> {"none", "queued", "out", "dead"}] /\ answeredAt \in [Commands -> Nat]
    BY DEF Cmd!Init, Statuses
  <2> QED
    BY <2>1, <2>2, <2>3, <2>4 DEF Cmd!Init, CmdTyped
<1>2. Pushed /\ CmdWaits /\ Verdicts
  BY DEF Cmd!Init, Pushed, CmdWaits, Verdicts, Cmd!Pressed
<1>3. Rulings
  <2>1. Fresh = Commands /\ Cmd!Done = {}
    BY DEF Cmd!Init, Fresh, Cmd!Done
  <2>2. Cardinality(Commands) \in Nat
    BY SizesOfCmd, FS_CardinalityType DEF Cmd!AdminChannelAssumption
  <2> QED
    BY <2>1, <2>2, SizesOfCmd DEF Cmd!Init, Rulings, Cmd!OneRulingPerVersion, Cmd!AdminChannelAssumption
<1> QED
  BY <1>1, <1>2, <1>3 DEF CmdIInv

\* A step that neither judges nor presses.
LEMMA Carries ==
  ASSUME Cmd!AdminChannelAssumption, CmdIInv, CmdTyped',
         UNCHANGED <<command, judged, offset>>, version' >= version,
         version' = version \/ version' + Cardinality(Commands) <= MaxVersion,
         Cmd!Pressed' = Cmd!Pressed
  PROVE  Rulings' /\ (posted' \cup posting' \cup heard' \subseteq Cmd!Pressed' => Pushed')
<1>1. Fresh' = Fresh /\ Cmd!Done' = Cmd!Done
  BY DEF Fresh, Cmd!Done
<1>2. Fresh \subseteq Commands
  BY DEF Fresh
<1>3. Cardinality(Fresh) \in Nat /\ Cardinality(Fresh) <= Cardinality(Commands) /\ Cardinality(Commands) \in Nat
  BY <1>2, FS_Subset, SizesOfCmd, FS_CardinalityType DEF Cmd!AdminChannelAssumption
<1>4. version \in Nat /\ version' \in Nat /\ MaxVersion \in Nat
  BY DEF CmdIInv, CmdTyped, Cmd!AdminChannelAssumption
<1>5. \A c \in Commands : command[c].saw \in Nat
  BY DEF CmdIInv, CmdTyped, Presses
<1>6. Rulings'
  <2>1. version' + Cardinality(Fresh) <= MaxVersion
    BY <1>3, <1>4 DEF CmdIInv, Rulings
  <2>2. \A c \in Cmd!Done : command[c].kind = "rule" => command[c].saw < version'
    BY <1>4, <1>5 DEF CmdIInv, Rulings, Cmd!Done
  <2> QED
    BY <1>1, <2>1, <2>2 DEF CmdIInv, Rulings, Cmd!OneRulingPerVersion
<1>7. ASSUME posted' \cup posting' \cup heard' \subseteq Cmd!Pressed' PROVE Pushed'
  BY <1>4, <1>5, <1>7 DEF CmdIInv, Pushed, Cmd!Pressed
<1> QED
  BY <1>6, <1>7

LEMMA WorldStep ==
  ASSUME Cmd!AdminChannelAssumption, CmdIInv,
         Cmd!Move \/ Cmd!Elapse \/ (\E d \in Devices : Cmd!onLnDetailEvent(d)) \/ UNCHANGED Cmd!vars
  PROVE  CmdIInv'
<1>1. UNCHANGED <<offset, posted, Cmd!app, judged, answer, answeredAt>>
  BY DEF Cmd!Move, Cmd!Elapse, Cmd!onLnDetailEvent, Cmd!daemon, Cmd!vars
<1>2. now' \in 0 .. MaxTime
  BY DEF Cmd!Move, Cmd!Elapse, Cmd!onLnDetailEvent, Cmd!vars, CmdIInv, CmdTyped, Cmd!AdminChannelAssumption
<1>3. version' \in Nat \ {0} /\ version' >= version
      /\ (version' = version \/ version' + Cardinality(Commands) <= MaxVersion)
  <2>1. Cardinality(Commands) \in Nat /\ MaxVersion \in Nat
    BY SizesOfCmd, FS_CardinalityType DEF Cmd!AdminChannelAssumption
  <2> QED
    BY <2>1, SizesOfCmd DEF Cmd!Move, Cmd!Elapse, Cmd!onLnDetailEvent, Cmd!daemon, Cmd!vars, CmdIInv, CmdTyped
<1>4. screen' \in [Devices -> 1 .. version']
  <2>1. CASE screen' = screen
    BY <1>3, <2>1 DEF CmdIInv, CmdTyped
  <2>2. CASE screen' # screen
    <3>1. PICK d \in Devices : Cmd!onLnDetailEvent(d)
      BY <2>2 DEF Cmd!Move, Cmd!Elapse, Cmd!vars
    <3>2. PICK v \in (screen[d] + 1) .. version : screen' = [screen EXCEPT ![d] = v]
      BY <3>1 DEF Cmd!onLnDetailEvent
    <3>3. version' = version
      BY <3>1 DEF Cmd!onLnDetailEvent, Cmd!daemon
    <3>4. v \in 1 .. version
      BY <3>2 DEF CmdIInv, CmdTyped
    <3> QED
      BY <3>2, <3>3, <3>4 DEF CmdIInv, CmdTyped
  <2> QED
    BY <2>1, <2>2
<1>5. CmdTyped'
  BY <1>1, <1>2, <1>3, <1>4 DEF Cmd!app, CmdIInv, CmdTyped
<1>6. Cmd!Pressed' = Cmd!Pressed /\ UNCHANGED <<command, judged, offset>>
  BY <1>1 DEF Cmd!app, Cmd!Pressed
<1>7. CmdWaits' /\ Verdicts' /\ posted' \cup posting' \cup heard' \subseteq Cmd!Pressed'
  BY <1>1, <1>6 DEF Cmd!app, CmdIInv, Pushed, CmdWaits, Verdicts
<1> QED
  BY <1>3, <1>5, <1>6, <1>7, Carries DEF CmdIInv

LEMMA CarrierStep ==
  ASSUME Cmd!AdminChannelAssumption, CmdIInv, NEW c \in Commands,
         Cmd!Post(c) \/ Cmd!Sent(c) \/ Cmd!SendFailed(c) \/ Cmd!Timeout(c) \/ Cmd!Publish(c) \/ Cmd!receiveResult(c)
  PROVE  CmdIInv'
<1>1. UNCHANGED <<now, offset, screen, command, version, judged>>
  BY DEF Cmd!Post, Cmd!Sent, Cmd!SendFailed, Cmd!Timeout, Cmd!Publish, Cmd!receiveResult, Cmd!app, Cmd!daemon
<1>2. c \in Cmd!Pressed \/ Cmd!Publish(c)
  BY DEF Cmd!Post, Cmd!Sent, Cmd!SendFailed, Cmd!Timeout, Cmd!receiveResult, CmdIInv, Pushed, CmdWaits,
     Verdicts, Cmd!Pressed
<1>3. /\ status' \in [Commands -> Statuses] /\ Cmd!Pressed' = Cmd!Pressed
      /\ \A b \in Commands \ {c} : status'[b] = status[b]
  <2>1. status' = status \/ \E s \in Statuses \ {"unpressed"} : status' = [status EXCEPT ![c] = s]
    BY DEF Cmd!Post, Cmd!Sent, Cmd!SendFailed, Cmd!Timeout, Cmd!Publish, Cmd!receiveResult, Cmd!app, Statuses
  <2>2. status' = status \/ c \in Cmd!Pressed
    BY <1>2 DEF Cmd!Publish, Cmd!app
  <2> QED
    BY <2>1, <2>2 DEF CmdIInv, CmdTyped, Cmd!Pressed
<1>4. CmdTyped'
  <2>1. /\ answer' \in [Commands -> {"none", "queued", "out", "dead"}] /\ answeredAt' \in [Commands -> Nat]
        /\ posted' \subseteq Commands /\ posting' \subseteq Commands /\ waiting' \subseteq Commands
        /\ heard' \subseteq Commands
    BY DEF Cmd!Post, Cmd!Sent, Cmd!SendFailed, Cmd!Timeout, Cmd!Publish, Cmd!receiveResult, Cmd!app,
       Cmd!daemon, CmdIInv, CmdTyped
  <2> QED
    BY <1>1, <1>3, <2>1 DEF CmdIInv, CmdTyped
<1>5. posted' \cup posting' \cup heard' \subseteq Cmd!Pressed'
  BY <1>2, <1>3 DEF Cmd!Post, Cmd!Sent, Cmd!SendFailed, Cmd!Timeout, Cmd!Publish, Cmd!receiveResult, Cmd!app,
     Cmd!daemon, CmdIInv, Pushed, Cmd!Pressed
<1>6. CmdWaits'
  BY <1>3 DEF Cmd!Post, Cmd!Sent, Cmd!SendFailed, Cmd!Timeout, Cmd!Publish, Cmd!receiveResult, Cmd!app,
     Cmd!daemon, CmdIInv, CmdTyped, CmdWaits
<1>7. Verdicts'
  BY <1>1 DEF Cmd!Post, Cmd!Sent, Cmd!SendFailed, Cmd!Timeout, Cmd!Publish, Cmd!receiveResult, Cmd!app,
     Cmd!daemon, CmdIInv, CmdTyped, Verdicts
<1>8. version \in Nat
  BY DEF CmdIInv, CmdTyped
<1> QED
  BY <1>1, <1>3, <1>4, <1>5, <1>6, <1>7, <1>8, Carries DEF CmdIInv

LEMMA PressStep ==
  ASSUME Cmd!AdminChannelAssumption, CmdIInv, NEW c \in Commands, NEW d \in Devices, NEW kind \in Cmd!Kinds,
         Cmd!sendCommand(c, d, kind)
  PROVE  CmdIInv'
<1> DEFINE press == [device |-> d, kind |-> kind, saw |-> screen[d], created_at |-> now + offset[d], at |-> now]
<1>1. /\ status[c] = "unpressed" /\ status' = [status EXCEPT ![c] = "sending"]
      /\ command' = [command EXCEPT ![c] = press] /\ posting' = posting \cup {c}
      /\ UNCHANGED <<now, offset, screen, posted, waiting, heard, Cmd!daemon>>
  BY DEF Cmd!sendCommand
<1>2. press \in Presses /\ press.saw <= version
  <2>1. screen[d] \in 1 .. version /\ version \in Nat /\ MaxOffset \in Nat /\ now \in Nat
    BY DEF CmdIInv, CmdTyped, Cmd!AdminChannelAssumption
  <2>2. screen[d] \in Nat /\ screen[d] <= version /\ offset[d] \in Int
    BY <2>1 DEF CmdIInv, CmdTyped
  <2>3. now + offset[d] \in Int
    BY <2>1, <2>2
  <2>4. press \in Presses
    BY <2>1, <2>2, <2>3 DEF Presses
  <2> QED
    BY <2>2, <2>4
<1>3. CmdTyped'
  <2>1. command' \in [Commands -> Presses]
    <3> HIDE DEF press
    <3> QED
      BY <1>1, <1>2 DEF CmdIInv, CmdTyped
  <2>2. status' \in [Commands -> Statuses] /\ posting' \subseteq Commands
    BY <1>1 DEF CmdIInv, CmdTyped, Statuses
  <2>3. UNCHANGED <<now, offset, screen, posted, waiting, heard, version, judged, answer, answeredAt>>
    BY <1>1 DEF Cmd!daemon
  <2> QED
    BY <2>1, <2>2, <2>3 DEF CmdIInv, CmdTyped
<1>4. /\ Cmd!Pressed' = Cmd!Pressed \cup {c} /\ c \notin Cmd!Pressed /\ c \notin posted
      /\ command'[c] = press /\ \A b \in Commands \ {c} : command'[b] = command[b]
  BY <1>1 DEF Cmd!Pressed, CmdIInv, CmdTyped, Pushed
<1>5. Pushed'
  <2>1. posted' \cup posting' \cup heard' \subseteq Cmd!Pressed'
    BY <1>1, <1>4 DEF CmdIInv, Pushed
  <2>2. \A b \in Cmd!Pressed : b # c /\ b \in Commands
    BY <1>4 DEF Cmd!Pressed
  <2>3. offset'[d] = offset[d] /\ version' = version /\ offset' = offset
    BY <1>1 DEF Cmd!daemon
  <2> QED
    BY <1>2, <1>4, <2>1, <2>2, <2>3 DEF CmdIInv, Pushed
<1>6. CmdWaits'
  BY <1>1 DEF CmdIInv, CmdTyped, CmdWaits
<1>7. Verdicts'
  BY <1>1 DEF CmdIInv, Verdicts, Cmd!daemon
<1>8. Rulings'
  <2>1. Fresh' = Fresh /\ Cmd!Done' = Cmd!Done /\ version' = version
    BY <1>1 DEF Cmd!daemon, Fresh, Cmd!Done
  <2>2. \A b \in Cmd!Done : b # c /\ b \in Commands
    BY <1>4 DEF Cmd!Done, CmdIInv, Verdicts
  <2>3. \A b \in Cmd!Done : command'[b] = command[b]
    BY <1>4, <2>2
  <2> HIDE DEF press
  <2> QED
    BY <2>1, <2>3 DEF CmdIInv, Rulings, Cmd!OneRulingPerVersion
<1> QED
  BY <1>3, <1>5, <1>6, <1>7, <1>8 DEF CmdIInv

LEMMA JudgeStep ==
  ASSUME Cmd!AdminChannelAssumption, CmdIInv, NEW c \in Commands, Cmd!handle(c)
  PROVE  CmdIInv'
<1>1. PICK o \in {"ignored", "done", "refused"} : judged' = [judged EXCEPT ![c] = o]
  BY DEF Cmd!handle
<1>2. c \in posted /\ judged[c] = "no" /\ UNCHANGED <<now, offset, screen, posted, Cmd!app>>
  BY DEF Cmd!handle
<1>3. CASE o = "ignored"
  <2>1. UNCHANGED <<version, answer, answeredAt>>
    BY <1>1, <1>3 DEF Cmd!handle, CmdIInv, CmdTyped
  <2>2. CmdTyped' /\ Pushed' /\ CmdWaits' /\ Verdicts'
    BY <1>1, <1>2, <1>3, <2>1 DEF CmdIInv, CmdTyped, Pushed, CmdWaits, Verdicts, Cmd!app, Cmd!Pressed
  <2>3. Fresh' = Fresh \ {c} /\ c \in Fresh /\ Cmd!Done' = Cmd!Done
    BY <1>1, <1>2, <1>3 DEF CmdIInv, CmdTyped, Fresh, Cmd!Done
  <2>4. IsFiniteSet(Fresh) /\ Cardinality(Fresh') = Cardinality(Fresh) - 1 /\ Cardinality(Fresh) \in Nat
    BY <2>3, FS_Subset, FS_RemoveElement, SizesOfCmd, FS_CardinalityType DEF Cmd!AdminChannelAssumption, Fresh
  <2>5. Rulings'
    BY <1>2, <2>1, <2>3, <2>4 DEF CmdIInv, CmdTyped, Rulings, Cmd!OneRulingPerVersion, Cmd!app,
       Cmd!AdminChannelAssumption
  <2> QED
    BY <2>2, <2>5 DEF CmdIInv
<1>4. CASE o # "ignored"
  <2>1. /\ answer' = [answer EXCEPT ![c] = "queued"] /\ answeredAt' = [answeredAt EXCEPT ![c] = now]
        /\ IF o = "done" THEN Cmd!checkTarget(command[c].saw) /\ Cmd!execute(c) ELSE version' = version
    BY <1>1, <1>4 DEF Cmd!handle, Cmd!reply, CmdIInv, CmdTyped
  <2>2. version' \in {version, version + 1} /\ (version' # version => o = "done" /\ command[c].kind = "rule")
    BY <2>1 DEF Cmd!execute
  <2>3. CmdTyped'
    BY <1>1, <1>2, <2>1, <2>2 DEF CmdIInv, CmdTyped, Cmd!app
  <2>4. Pushed'
    <3>1. \A b \in Commands : command[b].saw \in Nat
      BY DEF CmdIInv, CmdTyped, Presses
    <3> QED
      BY <1>2, <2>2, <3>1 DEF CmdIInv, CmdTyped, Pushed, Cmd!Pressed, Cmd!app
  <2>5. CmdWaits'
    BY <1>2 DEF CmdIInv, CmdWaits, Cmd!app
  <2>6. Verdicts'
    BY <1>1, <1>2, <1>4, <2>1 DEF CmdIInv, CmdTyped, Verdicts, Cmd!app
  <2>7. Fresh' = Fresh \ {c} /\ c \in Fresh /\ Cmd!Done' = IF o = "done" THEN Cmd!Done \cup {c} ELSE Cmd!Done
    BY <1>1, <1>2, <1>4 DEF CmdIInv, CmdTyped, Fresh, Cmd!Done
  <2>8. IsFiniteSet(Fresh) /\ Cardinality(Fresh') = Cardinality(Fresh) - 1 /\ Cardinality(Fresh) \in Nat
    BY <2>7, FS_Subset, FS_RemoveElement, SizesOfCmd, FS_CardinalityType DEF Cmd!AdminChannelAssumption, Fresh
  <2>9. Rulings'
    <3>1. version' + Cardinality(Fresh') <= MaxVersion
      BY <2>2, <2>8 DEF CmdIInv, CmdTyped, Rulings, Cmd!AdminChannelAssumption
    <3>2. \A b \in Cmd!Done : command[b].kind = "rule" => command[b].saw < version
      BY DEF CmdIInv, Rulings
    <3>3. \A b \in Cmd!Done' : command[b].kind = "rule" => command[b].saw < version'
      <4>1. \A b \in Commands : command[b].saw \in Nat
        BY DEF CmdIInv, CmdTyped, Presses
      <4>2. c \in Cmd!Done' /\ command[c].kind = "rule" => command[c].saw < version'
        BY <1>1, <2>1 DEF Cmd!execute, Cmd!checkTarget, CmdIInv, CmdTyped, Cmd!Done
      <4> QED
        BY <2>2, <2>7, <3>2, <4>1, <4>2 DEF Cmd!Done, CmdIInv, CmdTyped
    <3>4. o = "done" => command[c].saw = version
      BY <2>1 DEF Cmd!checkTarget
    <3>5. \A b \in Cmd!Done : command[b].kind = "rule" /\ o = "done" => command[b].saw # command[c].saw
      <4>1. \A b \in Cmd!Done : command[b].saw \in Nat /\ version \in Nat
        BY DEF CmdIInv, CmdTyped, Presses, Cmd!Done
      <4> QED
        BY <3>2, <3>4, <4>1
    <3>6. Cmd!OneRulingPerVersion'
      BY <1>2, <2>7, <3>5 DEF CmdIInv, Rulings, Cmd!OneRulingPerVersion, Cmd!app
    <3> QED
      BY <1>2, <3>1, <3>3, <3>6 DEF Rulings, Cmd!app
  <2> QED
    BY <2>3, <2>4, <2>5, <2>6, <2>9 DEF CmdIInv
<1> QED
  BY <1>3, <1>4

\* An operator rules once on what he sees: of two rulings on one version of an order, from two
\* screens or pressed again after an answer that did not come, one is executed (checkTarget).
THEOREM RulingsAreSingle ==
  ASSUME Cmd!AdminChannelAssumption
  PROVE  Cmd!Spec => []Cmd!OneRulingPerVersion /\ [][Cmd!NeverExecutedLate]_(Cmd!vars)
<1>1. Cmd!Init => CmdIInv
  BY CmdStarts
<1>2. CmdIInv /\ [Cmd!Next]_(Cmd!vars) => CmdIInv'
  BY WorldStep, CarrierStep, PressStep, JudgeStep DEF Cmd!Next
<1>3. CmdIInv => Cmd!OneRulingPerVersion
  BY DEF CmdIInv, Rulings
<1>4. CmdIInv /\ [Cmd!Next]_(Cmd!vars) => [Cmd!NeverExecutedLate]_(Cmd!vars)
  <2> SUFFICES ASSUME CmdIInv, Cmd!Next, NEW c \in Cmd!Done' \ Cmd!Done
               PROVE  now <= command[c].at + MaxOffset + ADMIN_COMMAND_TTL
    BY DEF Cmd!NeverExecutedLate
  <2>1. Cmd!handle(c) /\ judged'[c] = "done" /\ c \in Commands
    <3>1. PICK b \in Commands : Cmd!handle(b)
      BY DEF Cmd!Next, Cmd!Move, Cmd!Elapse, Cmd!onLnDetailEvent, Cmd!sendCommand, Cmd!Post, Cmd!Sent,
         Cmd!SendFailed, Cmd!Timeout, Cmd!Publish,
             Cmd!receiveResult, Cmd!app, Cmd!daemon, Cmd!Done
    <3>2. \A a \in Commands \ {b} : judged'[a] = judged[a]
      BY <3>1 DEF Cmd!handle, CmdIInv, CmdTyped
    <3> QED
      BY <3>1, <3>2 DEF Cmd!Done
  <2>2. Cmd!InTime(c) /\ c \in Cmd!Pressed
    BY <2>1 DEF Cmd!handle, CmdIInv, CmdTyped, Pushed
  <2>3. /\ command[c].created_at = command[c].at + offset[command[c].device]
        /\ offset[command[c].device] \in -MaxOffset .. MaxOffset /\ command[c].at \in Nat
    BY <2>1, <2>2 DEF CmdIInv, CmdTyped, Pushed, Presses
  <2> QED
    BY <2>2, <2>3 DEF Cmd!InTime, Cmd!AdminChannelAssumption, CmdIInv, CmdTyped
<1> QED
  BY <1>1, <1>2, <1>3, <1>4, PTL DEF Cmd!Spec

\* The order, the screens, the commands and their answers keep their types and belong together:
\* what waits was posted, what was judged was posted, and exactly what is done or refused is
\* answered.
THEOREM CmdTypeCorrect == ASSUME Cmd!AdminChannelAssumption PROVE Cmd!Spec => []Cmd!TypeOK
<1>1. Cmd!Init => CmdIInv
  BY CmdStarts
<1>2. CmdIInv /\ [Cmd!Next]_(Cmd!vars) => CmdIInv'
  BY WorldStep, CarrierStep, PressStep, JudgeStep DEF Cmd!Next
<1>3. CmdIInv => Cmd!TypeOK
  <2> SUFFICES ASSUME CmdIInv PROVE Cmd!TypeOK
    OBVIOUS
  <2>1. version <= MaxVersion
    <3>1. Cardinality(Fresh) \in Nat
      BY FS_Subset, SizesOfCmd, FS_CardinalityType DEF Cmd!AdminChannelAssumption, Fresh
    <3> QED
      BY <3>1 DEF CmdIInv, CmdTyped, Rulings, Cmd!AdminChannelAssumption
  <2>2. now \in 0 .. MaxTime /\ version \in 1 .. MaxVersion
    BY <2>1 DEF CmdIInv, CmdTyped, Cmd!AdminChannelAssumption
  <2>3. \A d \in Devices : screen[d] \in 1 .. version /\ offset[d] \in -MaxOffset .. MaxOffset
    BY DEF CmdIInv, CmdTyped
  <2>4. /\ posted \cup posting \subseteq Cmd!Pressed /\ waiting \subseteq {c \in posted : status[c] = "pending"}
        /\ heard \subseteq {c \in Cmd!Pressed : answer[c] = "out"}
    BY DEF CmdIInv, Pushed, CmdWaits, Verdicts
  <2> QED
    BY <2>2, <2>3, <2>4 DEF Cmd!TypeOK, CmdIInv, CmdTyped, Statuses, Verdicts
<1> QED
  BY <1>1, <1>2, <1>3, PTL DEF Cmd!Spec

-----------------------------------------------------------------------------
(* AdminFeed. *)

Events == [v : Nat, at : Nat, until : Nat, ended : BOOLEAN]

\* What some relay has had, or a newer one in its place.
Published(e) == \E r \in Relays : e.at <= relay[r].at

FeedTyped ==
  /\ now \in 1 .. MaxTime /\ designated \in BOOLEAN /\ endSeen \in BOOLEAN
  /\ last \in Events /\ last.v <= MaxVersion /\ last.at <= now
  /\ relay \in [Relays -> Events] /\ \A r \in Relays : relay[r].v <= MaxVersion /\ relay[r].at <= now
  /\ \A s \in states : s.at \in 1 .. now /\ s.epoch = s.at
  /\ daemonState \in states \cup {Feed!NoState} /\ decrypting \subseteq states
  /\ \A e \in opening : e \in Events /\ Published(e)
  /\ opened \in -1 .. now
  /\ shown \in Events /\ (shown # Feed!Nothing => Published(shown))

FeedIInv == FeedTyped /\ Feed!OldDbHidden

LEMMA FeedStarts == ASSUME Feed!AdminFeedAssumption PROVE Feed!Init => FeedIInv
<1> SUFFICES ASSUME Feed!Init PROVE FeedIInv
  OBVIOUS
<1>1. Feed!Nothing \in Events /\ Feed!Nothing.v = 0 /\ Feed!Nothing.at = 0
  BY DEF Feed!Nothing, Events
<1>2. now \in 1 .. MaxTime /\ MaxVersion \in Nat
  BY DEF Feed!Init, Feed!AdminFeedAssumption
<1>3. \A s \in states : s.at \in 1 .. now /\ s.epoch = s.at
  BY DEF Feed!Init
<1>4. FeedTyped
  <2>1. /\ now = 1 /\ opened = -1 /\ last = Feed!Nothing /\ daemonState = Feed!NoState /\ decrypting = {} /\ opening = {}
        /\ shown = Feed!Nothing /\ designated \in BOOLEAN /\ endSeen \in BOOLEAN
    BY DEF Feed!Init
  <2>2. relay \in [Relays -> Events] /\ \A r \in Relays : relay[r].v <= MaxVersion /\ relay[r].at <= now
    <3>1. relay = [r \in Relays |-> Feed!Nothing]
      BY DEF Feed!Init
    <3>2. \A r \in Relays : relay[r] = Feed!Nothing
      BY <3>1
    <3> QED
      BY <1>1, <1>2, <2>1, <3>1, <3>2
  <2>3. opened \in -1 .. now /\ last.v <= MaxVersion /\ last.at <= now
    BY <1>1, <1>2, <2>1
  <2> QED
    BY <1>1, <1>2, <1>3, <2>1, <2>2, <2>3 DEF FeedTyped
<1> QED
  BY <1>4 DEF Feed!Init, FeedIInv, Feed!OldDbHidden

\* No relay goes back.
LEMMA Further ==
  ASSUME FeedTyped, relay' \in [Relays -> Events], \A r \in Relays : relay'[r].at >= relay[r].at
  PROVE  \A e \in Events : Published(e) => Published(e)'
<1>1. \A r \in Relays : relay[r].at \in Nat /\ relay'[r].at \in Nat
  BY DEF FeedTyped, Events
<1>2. \A e \in Events : e.at \in Nat
  BY DEF Events
<1> QED
  BY <1>1, <1>2 DEF Published

LEMMA FeedWorldStep ==
  ASSUME Feed!AdminFeedAssumption, FeedIInv, Feed!Publish \/ Feed!NewDb \/ Feed!Elapse \/ UNCHANGED Feed!vars
  PROVE  FeedIInv' /\ UNCHANGED Feed!stores
<1>1. UNCHANGED <<Feed!stores, Feed!signer, designated>>
  BY DEF Feed!Publish, Feed!NewDb, Feed!Elapse, Feed!vars, Feed!world
<1>2. now \in Nat /\ now' \in 1 .. MaxTime /\ now <= now' /\ MaxTime \in Nat
  BY DEF Feed!Publish, Feed!NewDb, Feed!Elapse, Feed!vars, Feed!world, FeedIInv, FeedTyped, Feed!AdminFeedAssumption
<1>3. /\ last' \in Events /\ last'.v <= MaxVersion /\ last'.at <= now'
      /\ relay' \in [Relays -> Events]
      /\ \A r \in Relays : relay'[r].v <= MaxVersion /\ relay'[r].at <= now' /\ relay'[r].at >= relay[r].at
  <2>1. CASE Feed!Publish
    <3>0. PICK ended \in BOOLEAN, takers \in (SUBSET Relays) \ {{}} :
            /\ last' = [v |-> last.v + 1, at |-> now, until |-> Feed!lnRetention(ended), ended |-> ended]
            /\ relay' = [r \in Relays |-> IF r \in takers THEN last' ELSE relay[r]]
      BY <2>1 DEF Feed!Publish
    <3>1. PICK until, e : /\ until = Feed!lnRetention(ended)
                          /\ e = [v |-> last.v + 1, at |-> now, until |-> until, ended |-> ended]
                          /\ last' = e /\ relay' = [r \in Relays |-> IF r \in takers THEN e ELSE relay[r]]
      BY <3>0
    <3>2. until \in Nat /\ last.v \in Nat /\ MaxVersion \in Nat /\ last.v < MaxVersion
      BY <1>2, <2>1, <3>1 DEF Feed!lnRetention, Feed!AdminFeedAssumption, FeedIInv, FeedTyped, Events, Feed!Publish
    <3>3. e \in Events /\ e.v <= MaxVersion /\ e.at = now /\ now' = now
      BY <1>2, <2>1, <3>1, <3>2 DEF Events, Feed!Publish
    <3>4. \A r \in Relays : relay[r] \in Events /\ relay[r].at \in Nat /\ relay[r].at <= now /\ relay[r].v <= MaxVersion
      BY DEF FeedIInv, FeedTyped, Events
    <3>5. \A r \in Relays : relay'[r] = IF r \in takers THEN e ELSE relay[r]
      BY <3>1
    <3>6. relay' \in [Relays -> Events]
      BY <3>1, <3>3, <3>4
    <3> QED
      BY <1>2, <3>1, <3>3, <3>4, <3>5, <3>6
  <2>2. CASE ~Feed!Publish
    <3>1. relay' = relay /\ (last' = last \/ last' = Feed!Nothing)
      BY <2>2 DEF Feed!NewDb, Feed!Elapse, Feed!vars, Feed!world
    <3>2. Feed!Nothing \in Events /\ Feed!Nothing.v = 0 /\ Feed!Nothing.at = 0 /\ MaxVersion \in Nat
      BY DEF Feed!Nothing, Events, Feed!AdminFeedAssumption
    <3>3. last.at \in Nat /\ \A r \in Relays : relay[r].at \in Nat
      BY DEF FeedIInv, FeedTyped, Events
    <3> QED
      BY <1>2, <3>1, <3>2, <3>3 DEF FeedIInv, FeedTyped
  <2> QED
    BY <2>1, <2>2
<1>4. \A s \in states' : s.at \in 1 .. now' /\ s.epoch = s.at
  <2>1. CASE Feed!NewDb
    <3>1. states' = states \cup {[at |-> now, epoch |-> now]} /\ now' = now
      BY <2>1 DEF Feed!NewDb
    <3> QED
      BY <1>2, <3>1 DEF FeedIInv, FeedTyped
  <2>2. CASE ~Feed!NewDb
    <3>1. states' = states
      BY <2>2 DEF Feed!Publish, Feed!Elapse, Feed!vars, Feed!world
    <3> QED
      BY <1>2, <3>1 DEF FeedIInv, FeedTyped
  <2> QED
    BY <2>1, <2>2
<1>5. states \subseteq states'
  BY DEF Feed!Publish, Feed!NewDb, Feed!Elapse, Feed!vars, Feed!world
<1>6. \A e \in Events : Published(e) => Published(e)'
  BY <1>3, Further DEF FeedIInv
<1>7. FeedTyped'
  BY <1>1, <1>2, <1>3, <1>4, <1>5, <1>6 DEF FeedIInv, FeedTyped, Feed!stores, Feed!signer
<1> QED
  BY <1>1, <1>7 DEF FeedIInv, Feed!OldDbHidden, Feed!stores

\* What the store shows after an order's event, when the world stands still.
LEMMA OrderHeard ==
  ASSUME FeedIInv, NEW e \in Events, Published(e), Feed!onOrderEvent(e), UNCHANGED <<relay, daemonState>>
  PROVE  /\ shown' \in Events /\ (shown' # Feed!Nothing => Published(shown')) /\ endSeen' \in BOOLEAN
         /\ Feed!OldDbHidden'
         /\ shown' # Feed!Nothing => shown'.at >= shown.at
<1>1. shown \in Events /\ shown.at \in Nat /\ e.at \in Nat /\ endSeen \in BOOLEAN /\ e.ended \in BOOLEAN
  BY DEF FeedIInv, FeedTyped, Events
<1>2. Feed!Nothing \in Events
  BY DEF Feed!Nothing, Events
<1>3. CASE daemonState.epoch = -1 \/ e.at < daemonState.epoch
  BY <1>1, <1>3 DEF Feed!onOrderEvent, FeedIInv, FeedTyped, Feed!OldDbHidden
<1>4. CASE ~(daemonState.epoch = -1 \/ e.at < daemonState.epoch)
  <2>1. daemonState # Feed!NoState /\ daemonState.epoch \in Nat
    BY <1>4 DEF Feed!NoState, FeedIInv, FeedTyped
  <2>2. e.at >= daemonState.epoch
    BY <1>1, <1>4, <2>1
  <2>3. shown' = shown \/ (shown' = e /\ ~(shown.at >= e.at)) \/ shown' = Feed!Nothing
    BY <1>4 DEF Feed!onOrderEvent, Feed!upsertOrder
  <2>4. endSeen' \in BOOLEAN
    BY <1>1, <1>4 DEF Feed!onOrderEvent
  <2> QED
    BY <1>1, <1>2, <2>1, <2>2, <2>3, <2>4 DEF FeedIInv, FeedTyped, Feed!OldDbHidden
<1> QED
  BY <1>3, <1>4

LEMMA StateStep ==
  ASSUME Feed!AdminFeedAssumption, FeedIInv,
         Feed!Heartbeat \/ Feed!Logout \/ \E s \in states : Feed!onStateEvent(s) \/ Feed!StateDecrypted(s)
  PROVE  FeedIInv' /\ Feed!NeverBack
<1>1. UNCHANGED <<Feed!world, endSeen, opening, opened>> /\ decrypting' \subseteq states
  BY DEF Feed!Heartbeat, Feed!Logout, Feed!onStateEvent, Feed!StateDecrypted, Feed!signer, Feed!stores,
     FeedIInv, FeedTyped
<1> DEFINE Fits ==
      /\ daemonState' \in states \cup {Feed!NoState} /\ (shown' = shown \/ shown' = Feed!Nothing)
      /\ shown' # Feed!Nothing => daemonState' # Feed!NoState /\ shown'.at >= daemonState'.epoch
      /\ daemonState' # Feed!NoState => daemonState'.at >= daemonState.at
<1>2. Fits
  <2>1. Feed!NoState.epoch = -1 /\ daemonState.at \in Int
    BY DEF Feed!NoState, FeedIInv, FeedTyped
  <2>2. CASE Feed!Heartbeat
    BY <2>1, <2>2 DEF Feed!Heartbeat, Feed!pruneStores, Feed!lnOrderAlive, FeedIInv, FeedTyped, Feed!OldDbHidden
  <2>3. CASE Feed!Logout
    BY <2>3 DEF Feed!Logout
  <2>4. ASSUME NEW s \in states, Feed!onStateEvent(s)
        PROVE  UNCHANGED <<daemonState, shown>>
    BY <2>4 DEF Feed!onStateEvent, Feed!stores
  <2>5. ASSUME NEW s \in states, Feed!StateDecrypted(s)
        PROVE  Fits
    <3>1. CASE Feed!newerState(s)
      <4>1. /\ daemonState' = s /\ shown' = IF Feed!lnOrderAlive(shown, s.epoch) THEN shown ELSE Feed!Nothing
            /\ daemonState.at < s.at
        BY <2>5, <3>1 DEF Feed!StateDecrypted, Feed!pruneStores, Feed!newerState
      <4>2. s # Feed!NoState /\ s.at \in Int
        BY DEF FeedIInv, FeedTyped, Feed!NoState
      <4> QED
        BY <2>1, <4>1, <4>2 DEF Feed!lnOrderAlive
    <3>2. CASE ~Feed!newerState(s)
      <4>1. UNCHANGED <<daemonState, shown>>
        BY <2>5, <3>2 DEF Feed!StateDecrypted
      <4> QED
        BY <2>1, <4>1 DEF FeedIInv, FeedTyped, Feed!OldDbHidden
    <3> QED
      BY <3>1, <3>2
  <2>6. UNCHANGED <<daemonState, shown>> => Fits
    BY <2>1 DEF FeedIInv, FeedTyped, Feed!OldDbHidden
  <2> QED
    BY <2>2, <2>3, <2>4, <2>5, <2>6
<1>3. Feed!Nothing \in Events /\ shown \in Events /\ shown.at \in Nat
  BY DEF Feed!Nothing, Events, FeedIInv, FeedTyped
<1>4. FeedTyped'
  BY <1>1, <1>2, <1>3 DEF Feed!world, FeedIInv, FeedTyped, Published
<1>5. Feed!NeverBack /\ Feed!OldDbHidden'
  BY <1>2, <1>3 DEF Feed!NeverBack, Feed!OldDbHidden
<1> QED
  BY <1>4, <1>5 DEF FeedIInv

LEMMA OrderStep ==
  ASSUME Feed!AdminFeedAssumption, FeedIInv,
         \/ \E r \in Relays : Feed!Receive(r) \/ Feed!onDesignatedEvent(r)
         \/ \E e \in opening : Feed!Opened(e) \/ Feed!NotOpened(e)
  PROVE  FeedIInv' /\ Feed!NeverBack
<1>1. UNCHANGED <<Feed!world, daemonState, decrypting>>
  BY DEF Feed!Receive, Feed!onDesignatedEvent, Feed!Opened, Feed!NotOpened, Feed!stores, Feed!signer
<1>2. \A r \in Relays : \A e \in Feed!Served(r) : e \in Events /\ Published(e) /\ e.at \in Nat /\ e.at <= now
  <2>1. \A r \in Relays : relay[r] \in Events /\ relay[r].at \in Nat /\ relay[r].at <= now
    BY DEF FeedIInv, FeedTyped, Events
  <2> QED
    BY <2>1 DEF Feed!Served, Published
<1>3. /\ shown' \in Events /\ (shown' # Feed!Nothing => Published(shown')) /\ endSeen' \in BOOLEAN
      /\ Feed!OldDbHidden'
      /\ shown' # Feed!Nothing => shown'.at >= shown.at
  <2>1. CASE UNCHANGED Feed!stores
    BY <2>1 DEF Feed!stores, FeedIInv, FeedTyped, Events, Feed!OldDbHidden
  <2>2. CASE ~UNCHANGED Feed!stores
    <3>1. PICK e \in Events : Published(e) /\ Feed!onOrderEvent(e)
      BY <1>2, <2>2 DEF Feed!Receive, Feed!onDesignatedEvent, Feed!Opened, Feed!NotOpened, FeedIInv, FeedTyped
    <3> QED
      BY <1>1, <3>1, OrderHeard DEF Feed!world
  <2> QED
    BY <2>1, <2>2
<1>4. (\A e \in opening' : e \in Events /\ Published(e)) /\ opened' \in -1 .. now
  <2>1. ASSUME NEW r \in Relays, Feed!onDesignatedEvent(r)
        PROVE  (\A e \in opening' : e \in Events /\ Published(e)) /\ opened' \in -1 .. now
    <3>1. PICK e \in Feed!Served(r) : opening' = opening \cup {e} /\ opened' = e.at
      BY <2>1 DEF Feed!onDesignatedEvent
    <3> QED
      BY <1>2, <3>1 DEF FeedIInv, FeedTyped
  <2>2. CASE ~\E r \in Relays : Feed!onDesignatedEvent(r)
    <3>1. opening' \subseteq opening /\ (opened' = opened \/ opened' = -1)
      BY <2>2 DEF Feed!Receive, Feed!Opened, Feed!NotOpened, Feed!signer
    <3> QED
      BY <3>1 DEF FeedIInv, FeedTyped
  <2> QED
    BY <2>1, <2>2
<1>5. FeedTyped'
  BY <1>1, <1>3, <1>4 DEF Feed!world, FeedIInv, FeedTyped, Published
<1>6. Feed!NeverBack
  <2>1. daemonState.at \in Int
    BY DEF FeedIInv, FeedTyped, Feed!NoState
  <2> QED
    BY <1>1, <1>3, <2>1 DEF Feed!NeverBack
<1> QED
  BY <1>3, <1>5, <1>6 DEF FeedIInv

LEMMA Inductive ==
  ASSUME Feed!AdminFeedAssumption
  PROVE  FeedIInv /\ [Feed!Next]_(Feed!vars) => FeedIInv' /\ [Feed!NeverBack]_(Feed!vars)
<1>1. ASSUME FeedIInv, UNCHANGED Feed!stores PROVE Feed!NeverBack
  BY <1>1 DEF FeedIInv, FeedTyped, Events, Feed!NoState, Feed!NeverBack, Feed!stores
<1> QED
  BY <1>1, FeedWorldStep, StateStep, OrderStep DEF Feed!Next

\* On a daemon with a new database no order of the old one is shown, whatever relays keep and the
\* signer has in hand; and neither the daemon's state nor an order goes back (feed.ts, stores.ts).
THEOREM ScreenIsOfTheDaemon ==
  ASSUME Feed!AdminFeedAssumption
  PROVE  Feed!Spec => [](Feed!TypeOK /\ Feed!OldDbHidden) /\ [][Feed!NeverBack]_(Feed!vars)
<1>1. Feed!Init => FeedIInv
  BY FeedStarts
<1>2. FeedIInv => Feed!TypeOK /\ Feed!OldDbHidden
  <2> SUFFICES ASSUME FeedIInv PROVE Feed!TypeOK
    BY DEF FeedIInv
  <2>1. \A e \in opening : e.at <= now
    <3>1. \A e \in opening : e.at \in Nat
      BY DEF FeedIInv, FeedTyped, Events
    <3>2. \A r \in Relays : relay[r].at \in Nat /\ relay[r].at <= now
      BY DEF FeedIInv, FeedTyped, Events
    <3>3. now \in Nat
      BY DEF FeedIInv, FeedTyped
    <3> QED
      BY <3>1, <3>2, <3>3 DEF FeedIInv, FeedTyped, Published
  <2> QED
    BY <2>1 DEF FeedIInv, FeedTyped, Feed!TypeOK, Published
<1> QED
  BY <1>1, <1>2, Inductive, PTL DEF Feed!Spec

-----------------------------------------------------------------------------
(* Publication. *)

PubEvents == [v : Nat, at : Nat]

Types ==
  /\ now \in 1 .. MaxTime /\ version \in 1 .. MaxVersion /\ lapsed \in BOOLEAN /\ waiting \in BOOLEAN
  /\ published_at \in Nat /\ next_at \in 1 .. (MaxTime + Backoff)
  /\ run \in PubEvents \cup {Pub!NoRun} /\ took \subseteq Pub!orderEvents
  /\ operators \subseteq Operators /\ known = operators
  /\ relay \in [Relays -> [Pub!Address -> PubEvents]] /\ newest \in [Relays -> [Pub!Address -> Nat]]
  /\ book \in PubEvents /\ archive \in PubEvents /\ chain \in PubEvents /\ mine \in PubEvents

\* A publication under way is of the order as it is, and dated after the last; what is published
\* is ahead of the clock by less than the order has changed.
Runs ==
  /\ run # Pub!NoRun => /\ run.v = version /\ waiting /\ run.at > published_at
                        /\ run.at <= now \/ run.at = published_at + 1
  /\ published_at + 1 <= now + version
  /\ waiting => published_at + 2 <= now + version

\* Relays and screens have nothing that was not published.
Bounded ==
  /\ \A r \in Relays, a \in Pub!Address : relay[r][a].v <= newest[r][a] /\ newest[r][a] <= version
  /\ book.v <= version /\ archive.v <= version /\ chain.v <= version /\ mine.v <= version

Base == Types /\ Runs /\ Bounded

\* What is published is dated less than a pause ahead of the clock.
Steady == run # Pub!NoRun => published_at + 1 < now + Backoff /\ published_at + 1 < now + RestartTakes

LEMMA NothingIs == Pub!Nothing \in PubEvents /\ Pub!Nothing.v = 0 /\ Pub!Nothing.at = 0
BY DEF Pub!Nothing, Pub!lnOrderTags, PubEvents

LEMMA NoRunIs == Pub!NoRun \notin PubEvents
BY DEF Pub!NoRun, PubEvents

LEMMA BaseStarts == ASSUME Pub!PublicationAssumption PROVE Pub!Init => Base
<1> SUFFICES ASSUME Pub!Init PROVE Base
  OBVIOUS
<1>1. /\ relay = [r \in Relays |-> [a \in Pub!Address |-> Pub!Nothing]] /\ newest = [r \in Relays |-> [a \in Pub!Address |-> 0]]
      /\ book = Pub!Nothing /\ archive = Pub!Nothing /\ chain = Pub!Nothing /\ mine = Pub!Nothing
      /\ now = 1 /\ version = 1 /\ published_at = 0 /\ next_at = 1 /\ run = Pub!NoRun /\ took = {}
  BY DEF Pub!Init
<1>2. relay \in [Relays -> [Pub!Address -> PubEvents]] /\ newest \in [Relays -> [Pub!Address -> Nat]]
  BY <1>1, NothingIs
<1>3. \A r \in Relays, a \in Pub!Address : relay[r][a] = Pub!Nothing /\ newest[r][a] = 0
  BY <1>1
<1>4. Types
  <2>1. now \in 1 .. MaxTime /\ version \in 1 .. MaxVersion /\ next_at \in 1 .. (MaxTime + Backoff)
    BY <1>1 DEF Pub!PublicationAssumption
  <2>2. lapsed \in BOOLEAN /\ waiting \in BOOLEAN /\ operators \subseteq Operators /\ known = operators
    BY DEF Pub!Init
  <2>3. run \in PubEvents \cup {Pub!NoRun} /\ took \subseteq Pub!orderEvents /\ published_at \in Nat
    BY <1>1
  <2>4. book \in PubEvents /\ archive \in PubEvents /\ chain \in PubEvents /\ mine \in PubEvents
    BY <1>1, NothingIs
  <2> QED
    BY <1>2, <2>1, <2>2, <2>3, <2>4 DEF Types
<1>5. Runs
  BY <1>1 DEF Runs
<1>6. Bounded
  BY <1>1, <1>3, NothingIs DEF Bounded
<1> QED
  BY <1>4, <1>5, <1>6 DEF Base

\* The order, the clock and the queue.
LEMMA BaseOrder ==
  ASSUME Pub!PublicationAssumption, Base, Pub!Update \/ Pub!Lapse \/ Pub!Elapse \/ UNCHANGED Pub!vars
  PROVE  Base'
<1>1. /\ UNCHANGED <<published_at, operators, known, run, took, relay, newest, book, archive, chain, mine>>
      /\ now' \in 1 .. MaxTime /\ now' >= now /\ now \in Nat /\ now' \in Nat
  <2>1. UNCHANGED <<published_at, operators, known, run, took, relay, newest, book, archive, chain, mine>>
    BY DEF Pub!Update, Pub!Lapse, Pub!Elapse, Pub!vars, Pub!daemon, Pub!running, Pub!network, Pub!screens
  <2>2. now' = now \/ (now < MaxTime /\ now' = now + 1)
    BY DEF Pub!Update, Pub!Lapse, Pub!Elapse, Pub!vars
  <2>3. now \in 1 .. MaxTime /\ MaxTime \in Nat
    BY DEF Base, Types, Pub!PublicationAssumption
  <2> QED
    BY <2>1, <2>2, <2>3
<1>2. /\ version' \in 1 .. MaxVersion /\ version \in Nat /\ version' \in Nat /\ version <= version'
      /\ \/ version' = version /\ waiting' = waiting
         \/ version' = version + 1 /\ run = Pub!NoRun /\ waiting'
      /\ waiting' \in BOOLEAN /\ lapsed' \in BOOLEAN
  <2>1. version \in 1 .. MaxVersion /\ MaxVersion \in Nat /\ waiting \in BOOLEAN /\ lapsed \in BOOLEAN
    BY DEF Base, Types, Pub!PublicationAssumption
  <2>2. \/ UNCHANGED <<version, waiting>>
        \/ version < MaxVersion /\ version' = version + 1 /\ run = Pub!NoRun /\ waiting' = TRUE
    BY DEF Pub!Update, Pub!Lapse, Pub!Elapse, Pub!vars, Pub!daemon
  <2>3. lapsed' \in {lapsed, TRUE, FALSE}
    BY DEF Pub!Update, Pub!Lapse, Pub!Elapse, Pub!vars, Pub!daemon
  <2>4. version' \in 1 .. MaxVersion /\ version \in Nat /\ version' \in Nat /\ version <= version'
    BY <2>1, <2>2
  <2>5. waiting' \in BOOLEAN /\ lapsed' \in BOOLEAN
    BY <2>1, <2>2, <2>3
  <2>6. \/ version' = version /\ waiting' = waiting
        \/ version' = version + 1 /\ run = Pub!NoRun /\ waiting'
    BY <2>2
  <2> QED
    BY <2>4, <2>5, <2>6
<1>3. next_at' \in 1 .. (MaxTime + Backoff)
  <2>1. next_at' = next_at \/ next_at' = now
    BY DEF Pub!Update, Pub!Lapse, Pub!Elapse, Pub!vars, Pub!daemon
  <2>2. next_at \in 1 .. (MaxTime + Backoff) /\ now \in 1 .. MaxTime /\ MaxTime \in Nat /\ Backoff \in Nat
    BY DEF Base, Types, Pub!PublicationAssumption
  <2> QED
    BY <2>1, <2>2
<1>4. Types'
  <2>1. UNCHANGED Pub!orderEvents
    BY <1>1 DEF Pub!orderEvents, Pub!Sealed
  <2> QED
    BY <1>1, <1>2, <1>3, <2>1 DEF Base, Types
<1>5. Runs'
  <2>1. published_at \in Nat /\ (run # Pub!NoRun => run.at \in Nat)
    BY DEF Base, Types, PubEvents
  <2>2. PICK m \in Nat : m = now' /\ m >= now
    BY <1>1
  <2>3. /\ published_at \in Nat /\ now \in Nat /\ version \in Nat
        /\ m >= now
    BY <1>1, <1>2, <2>1, <2>2
  <2>4. published_at + 1 <= now + version
    BY DEF Base, Runs
  <2>5. waiting => published_at + 2 <= now + version
    BY DEF Base, Runs
  <2>6. CASE version' = version /\ waiting' = waiting
    <3>1. UNCHANGED <<run, published_at, version, waiting>>
      BY <1>1, <2>6
    <3>2. run # Pub!NoRun => /\ run.v = version /\ waiting /\ run.at > published_at
                             /\ run.at <= m \/ run.at = published_at + 1
      BY <2>1, <2>3, <2>2 DEF Base, Runs
    <3>3. published_at + 1 <= m + version
      BY <2>3, <2>4
    <3>4. ASSUME waiting PROVE published_at + 2 <= m + version
      <4>1. published_at + 2 <= now + version
        BY <2>5, <3>4
      <4> QED
        BY <2>3, <4>1
    <3> QED
      BY <2>2, <3>1, <3>2, <3>3, <3>4 DEF Runs
  <2>7. CASE version' = version + 1 /\ run = Pub!NoRun /\ waiting'
    <3>1. run' = Pub!NoRun /\ published_at' = published_at /\ version' = version + 1
      BY <1>1, <2>7
    <3>2. published_at + 2 <= m + (version + 1) /\ published_at + 1 <= m + (version + 1)
      BY <2>3, <2>4
    <3> QED
      BY <2>2, <3>1, <3>2 DEF Runs
  <2> QED
    BY <1>2, <2>6, <2>7
<1>6. Bounded'
  <2>1. /\ \A r \in Relays, a \in Pub!Address : relay[r][a].v \in Nat /\ newest[r][a] \in Nat
        /\ book.v \in Nat /\ archive.v \in Nat /\ chain.v \in Nat /\ mine.v \in Nat
    BY DEF Base, Types, PubEvents
  <2>2. \A i \in Nat : i <= version => i <= version'
    BY <1>2
  <2> QED
    BY <1>1, <1>2, <2>1, <2>2 DEF Base, Bounded
<1> QED
  BY <1>4, <1>5, <1>6 DEF Base

\* A run begins, ends, or is given up; the daemon dies.
LEMMA BaseRun ==
  ASSUME Pub!PublicationAssumption, Base, Pub!Run \/ Pub!Done \/ Pub!Retry \/ \E ops \in SUBSET Operators : Pub!Restart(ops)
  PROVE  Base'
<1>1. UNCHANGED <<version, lapsed, Pub!network, Pub!screens>>
  BY DEF Pub!Run, Pub!Done, Pub!Retry, Pub!Restart
<1>2. now \in Nat /\ version \in Nat \ {0} /\ published_at \in Nat /\ MaxTime \in Nat /\ RestartTakes \in Nat \ {0}
      /\ Backoff \in Nat \ {0} /\ (run # Pub!NoRun => run.at \in Nat) /\ next_at \in Nat
  BY DEF Base, Types, PubEvents, Pub!PublicationAssumption
<1>3. now' \in 1 .. MaxTime /\ now' >= now
  <2>1. now' = now \/ (now' = now + RestartTakes /\ now' <= MaxTime)
    BY DEF Pub!Run, Pub!Done, Pub!Retry, Pub!Restart
  <2>2. now \in 1 .. MaxTime
    BY DEF Base, Types
  <2> QED
    BY <1>2, <2>1, <2>2
<1>4. waiting' \in BOOLEAN /\ next_at' \in 1 .. (MaxTime + Backoff)
  <2>1. waiting' \in BOOLEAN
    BY DEF Pub!Run, Pub!Done, Pub!Retry, Pub!Restart, Base, Types
  <2>2. next_at' = next_at \/ next_at' = now + Backoff \/ next_at' = now'
    BY DEF Pub!Run, Pub!Done, Pub!Retry, Pub!Restart
  <2> QED
    BY <1>2, <1>3, <2>1, <2>2 DEF Base, Types
<1>5. published_at' \in Nat /\ (published_at' = published_at \/ Pub!Done)
  BY <1>2 DEF Pub!Run, Pub!Done, Pub!Retry, Pub!Restart, Base, Types
<1>6. run' \in PubEvents \cup {Pub!NoRun} /\ took' \subseteq Pub!orderEvents'
  <2>1. CASE run' = Pub!NoRun
    <3>1. took' = {} \/ UNCHANGED <<took, operators>>
      BY <2>1 DEF Pub!Run, Pub!Done, Pub!Retry, Pub!Restart
    <3>2. took' \subseteq Pub!orderEvents'
      BY <3>1 DEF Base, Types, Pub!orderEvents, Pub!Sealed
    <3> QED
      BY <2>1, <3>2
  <2>2. CASE run' # Pub!NoRun
    <3>1. run' = run \/ run' = Pub!lnOrderTags(version, Pub!createdAt)
      BY <2>2 DEF Pub!Run, Pub!Done, Pub!Retry, Pub!Restart
    <3>2. Pub!createdAt \in Nat
      BY <1>2 DEF Pub!createdAt
    <3>3. Pub!lnOrderTags(version, Pub!createdAt) \in PubEvents
      BY <1>2, <3>2 DEF Pub!lnOrderTags, PubEvents
    <3>4. (took' = took \/ took' = {}) /\ operators' = operators
      BY <2>2 DEF Pub!Run, Pub!Done, Pub!Retry, Pub!Restart
    <3> QED
      BY <3>1, <3>3, <3>4 DEF Base, Types, Pub!orderEvents, Pub!Sealed
  <2> QED
    BY <2>1, <2>2
<1>7. operators' \subseteq Operators /\ known' = operators'
  BY DEF Pub!Run, Pub!Done, Pub!Retry, Pub!Restart, Base, Types
<1>8. Types'
  BY <1>1, <1>3, <1>4, <1>5, <1>6, <1>7 DEF Base, Types, Pub!network, Pub!screens, Pub!Address
<1>9. Runs'
  <2>1. CASE Pub!Run
    <3>1. /\ UNCHANGED <<now, version, published_at>> /\ waiting /\ run = Pub!NoRun
          /\ \/ waiting' = FALSE /\ run' = run
             \/ waiting' = waiting /\ run' = Pub!lnOrderTags(version, Pub!createdAt)
      BY <2>1 DEF Pub!Run
    <3>2. CASE run' = run
      BY <3>1, <3>2 DEF Base, Runs
    <3>3. CASE waiting' = waiting /\ run' = Pub!lnOrderTags(version, Pub!createdAt)
      <4>1. run'.v = version /\ run'.at = Pub!createdAt
        BY <3>3 DEF Pub!lnOrderTags
      <4>2. Pub!createdAt > published_at /\ (Pub!createdAt <= now \/ Pub!createdAt = published_at + 1)
        BY <1>2 DEF Pub!createdAt
      <4> QED
        BY <3>1, <3>3, <4>1, <4>2 DEF Base, Runs
    <3> QED
      BY <3>1, <3>2, <3>3
  <2>2. CASE Pub!Done
    <3>1. /\ run # Pub!NoRun /\ published_at' = run.at /\ waiting' = FALSE /\ run' = Pub!NoRun
          /\ UNCHANGED <<now, version>>
      BY <2>2 DEF Pub!Done
    <3> QED
      BY <1>2, <3>1 DEF Base, Runs
  <2>3. CASE Pub!Retry
    BY <1>2, <2>3 DEF Pub!Retry, Base, Runs
  <2>4. ASSUME NEW ops \in SUBSET Operators, Pub!Restart(ops)
        PROVE  Runs'
    <3>1. now' = now + RestartTakes /\ run' = Pub!NoRun /\ UNCHANGED <<version, published_at>>
      BY <2>4 DEF Pub!Restart
    <3> QED
      BY <1>2, <3>1 DEF Base, Runs
  <2> QED
    BY <2>1, <2>2, <2>3, <2>4
<1>10. Bounded'
  BY <1>1 DEF Base, Bounded, Pub!network, Pub!screens
<1> QED
  BY <1>8, <1>9, <1>10 DEF Base

LEMMA BaseAccept ==
  ASSUME Pub!PublicationAssumption, Base, NEW r \in Relays, NEW a \in Pub!Address, Pub!Accept(r, a)
  PROVE  Base'
<1>1. /\ UNCHANGED <<now, Pub!daemon, run, Pub!screens>> /\ run # Pub!NoRun /\ a \in Pub!orderEvents
      /\ took' = took \cup {a}
      /\ newest' = [newest EXCEPT ![r][a] = IF run.v > @ THEN run.v ELSE @]
  BY DEF Pub!Accept
<1>2. PICK kept \in Pub!Keep(relay[r][a], run) : relay' = [relay EXCEPT ![r][a] = kept]
  BY DEF Pub!Accept
<1>3. run \in PubEvents /\ run.v = version
  BY <1>1 DEF Base, Types, Runs
<1>4. relay[r][a] \in PubEvents /\ newest[r][a] \in Nat /\ version \in Nat
  BY DEF Base, Types
<1>5. kept \in PubEvents /\ kept \in {relay[r][a], run}
  BY <1>3, <1>4 DEF Pub!Keep
<1>6. PICK n \in Nat : /\ newest' = [newest EXCEPT ![r][a] = n]
                       /\ n = IF run.v > newest[r][a] THEN run.v ELSE newest[r][a]
  BY <1>1, <1>3, <1>4
<1>7. relay' \in [Relays -> [Pub!Address -> PubEvents]] /\ newest' \in [Relays -> [Pub!Address -> Nat]]
  BY <1>2, <1>5, <1>6 DEF Base, Types
<1>8. Types'
  <2>1. UNCHANGED <<Pub!orderEvents, now, version, lapsed, waiting, published_at, next_at, run, operators, known,
                    book, archive, chain, mine>>
    BY <1>1 DEF Pub!daemon, Pub!screens, Pub!orderEvents, Pub!Sealed
  <2>2. took' \subseteq Pub!orderEvents'
    BY <1>1, <2>1 DEF Base, Types
  <2> QED
    BY <1>7, <2>1, <2>2 DEF Base, Types
<1>9. Runs'
  BY <1>1 DEF Base, Runs, Pub!daemon
<1>10. Bounded'
  <2>1. UNCHANGED <<version, book, archive, chain, mine>>
    BY <1>1 DEF Pub!daemon, Pub!screens
  <2>2. ASSUME NEW q \in Relays, NEW b \in Pub!Address
        PROVE  relay'[q][b].v <= newest'[q][b] /\ newest'[q][b] <= version
    <3>1. CASE q = r /\ b = a
      <4>1. relay'[q][b] = kept /\ newest'[q][b] = n
        BY <1>2, <1>6, <3>1 DEF Base, Types
      <4>2. relay[r][a].v <= newest[r][a] /\ newest[r][a] <= version
        BY DEF Base, Bounded
      <4>3. relay[r][a].v \in Nat /\ run.v \in Nat
        BY <1>3, <1>4 DEF PubEvents
      <4> QED
        BY <1>3, <1>4, <1>5, <1>6, <4>1, <4>2, <4>3
    <3>2. CASE ~(q = r /\ b = a)
      <4>1. relay'[q][b] = relay[q][b] /\ newest'[q][b] = newest[q][b]
        BY <1>2, <1>6, <3>2 DEF Base, Types
      <4> QED
        BY <4>1 DEF Base, Bounded
    <3> QED
      BY <3>1, <3>2
  <2> QED
    BY <2>1, <2>2 DEF Base, Bounded
<1> QED
  BY <1>8, <1>9, <1>10 DEF Base

LEMMA BaseHear ==
  ASSUME Pub!PublicationAssumption, Base, NEW r \in Relays, Pub!Hear(r)
  PROVE  Base'
<1>1. UNCHANGED <<now, version, lapsed, published_at, waiting, next_at, operators, known, run, took, relay, newest>>
  BY DEF Pub!Hear, Pub!daemon, Pub!running, Pub!network
<1>2. Pub!Read \in Pub!Address
  BY DEF Pub!PublicationAssumption, Pub!Read, Pub!Address
<1>3. PICK e \in PubEvents : /\ e = relay[r][Pub!Read]
                             /\ book' \in {book, e} /\ archive' \in {archive, e} /\ chain' \in {chain, e} /\ mine' = e
  <2>1. relay[r][Pub!Read] \in PubEvents
    BY <1>2 DEF Base, Types
  <2> QED
    BY <2>1 DEF Pub!Hear, Pub!upsertOrder, Pub!idbUpsertOrder, Pub!upsertOnchainOrder, Pub!applyAdminUpdate
<1>4. e.v <= version
  <2>1. e.v \in Nat /\ newest[r][Pub!Read] \in Nat /\ version \in Nat
    BY <1>2, <1>3 DEF Base, Types, PubEvents
  <2>2. e.v <= newest[r][Pub!Read] /\ newest[r][Pub!Read] <= version
    BY <1>2, <1>3 DEF Base, Bounded
  <2> QED
    BY <2>1, <2>2
<1>5. Types'
  <2>1. UNCHANGED Pub!orderEvents
    BY <1>1 DEF Pub!orderEvents, Pub!Sealed
  <2>2. book' \in PubEvents /\ archive' \in PubEvents /\ chain' \in PubEvents /\ mine' \in PubEvents
    BY <1>3 DEF Base, Types
  <2> QED
    BY <1>1, <2>1, <2>2 DEF Base, Types
<1>6. Runs'
  BY <1>1 DEF Base, Runs
<1>7. Bounded'
  BY <1>1, <1>3, <1>4 DEF Base, Bounded
<1> QED
  BY <1>5, <1>6, <1>7 DEF Base

LEMMA BaseStays == ASSUME Pub!PublicationAssumption, Base, [Pub!Next]_(Pub!vars) PROVE Base'
BY BaseOrder, BaseRun, BaseAccept, BaseHear DEF Pub!Next
-----------------------------------------------------------------------------
\* The events there are, and their order: later ones have later versions, and one that is being
\* published is the latest.
Seen == {relay[r][a] : r \in Relays, a \in Pub!Address} \cup {book, archive, chain}

Monotone == \A d, e \in Seen : d.at <= e.at => d.v <= e.v
Past == run = Pub!NoRun => \A e \in Seen : e.at <= published_at \/ e.at < now \/ (waiting /\ e.at < next_at)
Latest == run # Pub!NoRun => \A e \in Seen : e = run \/ e.at < run.at
Taken == run # Pub!NoRun => \A a \in took : \E r \in Relays : relay[r][a] = run
PubInOrder == /\ Monotone /\ Past /\ Latest /\ Taken
              /\ Pub!NewestStays /\ Pub!NothingWaitingMeansPublished

LEMMA SeenIsOfEvents == ASSUME Base PROVE Seen \subseteq PubEvents
BY DEF Base, Types, Seen

LEMMA InOrderStarts == ASSUME Pub!PublicationAssumption PROVE Pub!Init => PubInOrder
<1> SUFFICES ASSUME Pub!Init PROVE PubInOrder
  OBVIOUS
<1>1. /\ \A r \in Relays, a \in Pub!Address : relay[r][a] = Pub!Nothing /\ newest[r][a] = 0
      /\ book = Pub!Nothing /\ archive = Pub!Nothing /\ chain = Pub!Nothing
      /\ now = 1 /\ run = Pub!NoRun /\ waiting
  BY DEF Pub!Init
<1>2. \A e \in Seen : e = Pub!Nothing
  BY <1>1 DEF Seen
<1>3. Monotone /\ Past
  BY <1>1, <1>2, NothingIs DEF Monotone, Past
<1>4. Latest /\ Taken /\ Pub!NothingWaitingMeansPublished
  BY <1>1 DEF Latest, Taken, Pub!NothingWaitingMeansPublished
<1>5. Pub!NewestStays
  BY <1>1, NothingIs DEF Pub!NewestStays
<1> QED
  BY <1>3, <1>4, <1>5 DEF PubInOrder

LEMMA InOrderOfOrder ==
  ASSUME Pub!PublicationAssumption, Base, PubInOrder, Pub!Update \/ Pub!Lapse \/ Pub!Elapse \/ UNCHANGED Pub!vars
  PROVE  PubInOrder'
<1>1. UNCHANGED <<published_at, operators, known, alerted, run, took, relay, newest, book, archive, chain>>
  BY DEF Pub!Update, Pub!Lapse, Pub!Elapse, Pub!vars, Pub!daemon, Pub!running, Pub!network, Pub!screens
<1>2. UNCHANGED <<Seen, Pub!orderEvents>>
  BY <1>1 DEF Seen, Pub!orderEvents, Pub!Sealed
<1>3. Monotone' /\ Latest' /\ Taken' /\ Pub!NewestStays'
  BY <1>1, <1>2 DEF PubInOrder, Monotone, Latest, Taken, Pub!NewestStays
<1>4. Past'
  <2>1. PICK m \in Nat : m = now' /\ m >= now
    BY DEF Pub!Update, Pub!Lapse, Pub!Elapse, Pub!vars, Base, Types
  <2>2. m >= now /\ now \in Nat /\ m \in Nat /\ \A e \in Seen : e.at \in Nat
    BY <2>1, SeenIsOfEvents DEF Base, Types, PubEvents
  <2>3. \A e \in Seen : e.at < now => e.at < m
    BY <2>2
  <2>4. waiting => waiting' /\ next_at' = next_at
    BY DEF Pub!Update, Pub!Lapse, Pub!Elapse, Pub!vars, Pub!daemon
  <2> QED
    BY <1>1, <1>2, <2>1, <2>3, <2>4 DEF PubInOrder, Past
<1>5. Pub!NothingWaitingMeansPublished'
  BY <1>1, <1>2 DEF Pub!Update, Pub!Lapse, Pub!Elapse, Pub!vars, Pub!daemon, PubInOrder,
     Pub!NothingWaitingMeansPublished
<1> QED
  BY <1>3, <1>4, <1>5 DEF PubInOrder

LEMMA InOrderOfRun ==
  ASSUME Pub!PublicationAssumption, Base, PubInOrder, Pub!Run
  PROVE  PubInOrder'
<1>1. /\ UNCHANGED <<now, version, lapsed, published_at, next_at, operators, alerted, relay, newest,
                     book, archive, chain, Seen, Pub!orderEvents>>
      /\ waiting /\ run = Pub!NoRun /\ next_at <= now
  BY DEF Pub!Run, Pub!network, Pub!screens, Seen, Pub!orderEvents, Pub!Sealed
<1>2. \/ lapsed /\ waiting' = FALSE /\ run' = run /\ took' = took
      \/ run' = Pub!lnOrderTags(version, Pub!createdAt) /\ took' = {} /\ waiting' = waiting
  BY DEF Pub!Run
<1>3. now \in Nat /\ next_at \in Nat /\ published_at \in Nat /\ \A e \in Seen : e.at \in Nat
  BY SeenIsOfEvents DEF Base, Types, PubEvents
<1>4. \A e \in Seen : e.at <= published_at \/ e.at < now
  BY <1>1, <1>3 DEF PubInOrder, Past
<1>5. Monotone' /\ Pub!NewestStays'
  BY <1>1 DEF PubInOrder, Monotone, Pub!NewestStays
<1>6. Past'
  BY <1>1, <1>4 DEF Past
<1>7. Latest'
  <2>1. \A e \in Seen : e.at < Pub!createdAt
    BY <1>3, <1>4 DEF Pub!createdAt
  <2>2. CASE run' = run
    BY <1>1, <2>2 DEF Latest
  <2>3. CASE run' = Pub!lnOrderTags(version, Pub!createdAt)
    <3>1. run'.at = Pub!createdAt
      BY <2>3 DEF Pub!lnOrderTags
    <3> QED
      BY <1>1, <2>1, <3>1 DEF Latest
  <2> QED
    BY <1>2, <2>2, <2>3
<1>8. Taken'
  BY <1>1, <1>2 DEF Taken
<1>9. Pub!NothingWaitingMeansPublished'
  BY <1>1, <1>2 DEF Pub!NothingWaitingMeansPublished
<1> QED
  BY <1>5, <1>6, <1>7, <1>8, <1>9 DEF PubInOrder

LEMMA InOrderOfDone ==
  ASSUME Pub!PublicationAssumption, Base, PubInOrder, Pub!Done
  PROVE  PubInOrder'
<1>1. /\ UNCHANGED <<now, version, lapsed, operators, relay, newest, book, archive, chain, Seen, Pub!orderEvents>>
      /\ run # Pub!NoRun /\ took = Pub!orderEvents /\ published_at' = run.at /\ run' = Pub!NoRun
      /\ Designated => (Pub!Parties \cup operators) \cap Unsealable \subseteq alerted'
  BY DEF Pub!Done, Pub!network, Pub!screens, Seen, Pub!orderEvents, Pub!Sealed
<1>2. run.at \in Nat /\ run.v = version /\ \A e \in Seen : e.at \in Nat
  BY <1>1, SeenIsOfEvents DEF Base, Types, Runs, PubEvents
<1>3. Monotone' /\ Pub!NewestStays' /\ Latest' /\ Taken'
  BY <1>1 DEF PubInOrder, Monotone, Pub!NewestStays, Latest, Taken
<1>4. Past'
  <2>1. \A e \in Seen : e.at <= run.at
    BY <1>1, <1>2 DEF PubInOrder, Latest
  <2> QED
    BY <1>1, <2>1 DEF Past
<1>5. Pub!NothingWaitingMeansPublished'
  <2>1. \A a \in Pub!orderEvents : \E r \in Relays : relay[r][a].v = version
    BY <1>1, <1>2 DEF PubInOrder, Taken
  <2> QED
    BY <1>1, <2>1 DEF Pub!NothingWaitingMeansPublished
<1> QED
  BY <1>3, <1>4, <1>5 DEF PubInOrder

\* After a pause the clock, or the time the effect is due, is past what was published.
LEMMA InOrderOfPause ==
  ASSUME Pub!PublicationAssumption, Base, PubInOrder, Steady,
         Pub!Retry \/ \E ops \in SUBSET Operators : Pub!Restart(ops)
  PROVE  PubInOrder'
<1>1. UNCHANGED <<version, lapsed, published_at, alerted, relay, newest, book, archive, chain, Seen>> /\ run' = Pub!NoRun
  <2>1. UNCHANGED <<version, lapsed, published_at, alerted, Pub!network, Pub!screens>> /\ run' = Pub!NoRun
    BY DEF Pub!Retry, Pub!Restart
  <2>2. UNCHANGED <<relay, newest, book, archive, chain>>
    BY <2>1 DEF Pub!network, Pub!screens
  <2> QED
    BY <2>1, <2>2 DEF Seen
<1>2. /\ now \in Nat /\ published_at \in Nat /\ Backoff \in Nat \ {0} /\ RestartTakes \in Nat \ {0}
      /\ \A e \in Seen : e.at \in Nat
  BY SeenIsOfEvents DEF Pub!PublicationAssumption, Base, Types, PubEvents
<1>3. ASSUME run # Pub!NoRun
      PROVE  /\ run.at \in Nat /\ waiting /\ run.at < now + Backoff /\ run.at < now + RestartTakes
             /\ \A e \in Seen : e.at <= run.at
  <2>1. run.at \in Nat /\ waiting /\ (run.at <= now \/ run.at = published_at + 1)
    BY <1>3 DEF Base, Types, Runs, PubEvents
  <2>2. published_at + 1 < now + Backoff /\ published_at + 1 < now + RestartTakes
    BY <1>3 DEF Steady
  <2>3. run.at < now + Backoff /\ run.at < now + RestartTakes
    BY <1>2, <2>1, <2>2
  <2>4. \A e \in Seen : e.at <= run.at
    BY <1>2, <1>3, <2>1 DEF PubInOrder, Latest
  <2> QED
    BY <2>1, <2>3, <2>4
<1>4. Monotone' /\ Pub!NewestStays' /\ Latest' /\ Taken'
  BY <1>1 DEF PubInOrder, Monotone, Pub!NewestStays, Latest, Taken
<1>5. CASE Pub!Retry
  <2>1. /\ run # Pub!NoRun /\ next_at' = now + Backoff
        /\ UNCHANGED <<now, waiting, operators, Pub!orderEvents>>
    BY <1>5 DEF Pub!Retry, Pub!orderEvents, Pub!Sealed
  <2>2. \A e \in Seen : e.at < now + Backoff
    BY <1>2, <1>3, <2>1
  <2>3. Past'
    BY <1>1, <1>3, <2>1, <2>2 DEF Past
  <2>4. Pub!NothingWaitingMeansPublished'
    BY <1>1, <2>1 DEF PubInOrder, Pub!NothingWaitingMeansPublished
  <2> QED
    BY <1>4, <2>3, <2>4 DEF PubInOrder
<1>6. ASSUME NEW ops \in SUBSET Operators, Pub!Restart(ops)
      PROVE  PubInOrder'
  <2>1. PICK m \in Nat : m = now' /\ m = now + RestartTakes
    BY <1>2, <1>6 DEF Pub!Restart
  <2>2. (waiting => waiting' /\ next_at' = next_at) /\ operators' = ops
    BY <1>6 DEF Pub!Restart
  <2>3. \A e \in Seen : e.at < now + RestartTakes \/ e.at <= published_at \/ (waiting /\ e.at < next_at)
    <3>1. CASE run = Pub!NoRun
      BY <1>2, <3>1 DEF PubInOrder, Past
    <3>2. CASE run # Pub!NoRun
      BY <1>2, <1>3, <3>2
    <3> QED
      BY <3>1, <3>2
  <2>4. Past'
    BY <1>1, <2>1, <2>2, <2>3 DEF Past
  <2>5. Pub!NothingWaitingMeansPublished'
    <3>1. ~waiting' => ~waiting /\ UNCHANGED Pub!orderEvents /\ (Designated => operators' = operators)
      BY <1>6 DEF Pub!Restart, Base, Types, Pub!orderEvents, Pub!Sealed
    <3> QED
      BY <1>1, <3>1 DEF PubInOrder, Pub!NothingWaitingMeansPublished
  <2> QED
    BY <1>4, <2>4, <2>5 DEF PubInOrder
<1> QED
  BY <1>5, <1>6

LEMMA InOrderOfAccept ==
  ASSUME Pub!PublicationAssumption, Base, PubInOrder, NEW r \in Relays, NEW a \in Pub!Address, Pub!Accept(r, a)
  PROVE  PubInOrder'
<1>1. /\ UNCHANGED <<now, version, lapsed, published_at, waiting, next_at, operators, alerted, run, book, archive, chain>>
      /\ run # Pub!NoRun /\ took' = took \cup {a}
      /\ newest' = [newest EXCEPT ![r][a] = IF run.v > @ THEN run.v ELSE @]
  BY DEF Pub!Accept, Pub!daemon, Pub!screens
<1>2. run \in PubEvents /\ run.v = version /\ waiting
  BY <1>1 DEF Base, Types, Runs
<1>3. relay[r][a] \in Seen /\ Seen \subseteq PubEvents
  BY SeenIsOfEvents DEF Seen
<1>4. relay' = [relay EXCEPT ![r][a] = run]
  <2>1. PICK kept \in Pub!Keep(relay[r][a], run) : relay' = [relay EXCEPT ![r][a] = kept]
    BY DEF Pub!Accept
  <2>2. relay[r][a] = run \/ relay[r][a].at < run.at
    BY <1>1, <1>3 DEF PubInOrder, Latest
  <2>3. relay[r][a].at \in Nat /\ run.at \in Nat
    BY <1>2, <1>3 DEF PubEvents
  <2>4. kept = run
    BY <2>1, <2>2, <2>3 DEF Pub!Keep
  <2> QED
    BY <2>1, <2>4
<1>5. \A q \in Relays, b \in Pub!Address : relay'[q][b] = IF q = r /\ b = a THEN run ELSE relay[q][b]
  BY <1>4 DEF Base, Types
<1>6. \A q \in Relays, b \in Pub!Address : newest'[q][b] = IF q = r /\ b = a THEN run.v ELSE newest[q][b]
  <2>1. newest[r][a] \in Nat /\ run.v \in Nat /\ newest[r][a] <= run.v
    BY <1>2 DEF Base, Types, Bounded, PubEvents
  <2>2. PICK n \in Nat : n = (IF run.v > newest[r][a] THEN run.v ELSE newest[r][a]) /\ newest' = [newest EXCEPT ![r][a] = n]
    BY <1>1, <2>1
  <2>3. n = run.v
    BY <2>1, <2>2
  <2> QED
    BY <2>2, <2>3 DEF Base, Types
<1>7. Seen' \subseteq Seen \cup {run}
  BY <1>1, <1>5 DEF Seen
<1>8. Monotone'
  <2>1. \A e \in Seen : e.at \in Nat /\ e.v \in Nat /\ e.v <= run.v /\ (e = run \/ e.at < run.at)
    <3>1. \A e \in Seen : e.v <= version
      <4>1. \A q \in Relays, b \in Pub!Address : relay[q][b].v \in Nat /\ newest[q][b] \in Nat /\ version \in Nat
        BY DEF Base, Types, PubEvents
      <4> QED
        BY <4>1 DEF Base, Bounded, Seen
    <3> QED
      BY <1>1, <1>2, <1>3, <3>1 DEF PubEvents, PubInOrder, Latest
  <2>2. run.at \in Nat /\ run.v \in Nat
    BY <1>2 DEF PubEvents
  <2>3. \A d, e \in Seen \cup {run} : d.at <= e.at => d.v <= e.v
    BY <2>1, <2>2 DEF PubInOrder, Monotone
  <2> QED
    BY <1>7, <2>3 DEF Monotone
<1>9. Past' /\ Latest'
  BY <1>1, <1>7 DEF PubInOrder, Past, Latest
<1>10. Taken'
  <2>1. \A b \in took : b \in Pub!Address /\ \E q \in Relays : relay[q][b] = run
    <3>1. took \subseteq Pub!Address
      BY DEF Base, Types, Pub!orderEvents, Pub!Sealed, Pub!Address
    <3> QED
      BY <1>1, <3>1 DEF PubInOrder, Taken
  <2>2. \A b \in took' : \E q \in Relays : relay'[q][b] = run
    BY <1>1, <1>5, <2>1
  <2> QED
    BY <1>1, <2>2 DEF Taken
<1>11. Pub!NewestStays'
  BY <1>5, <1>6 DEF PubInOrder, Pub!NewestStays
<1>12. Pub!NothingWaitingMeansPublished'
  BY <1>1, <1>2 DEF Pub!NothingWaitingMeansPublished
<1> QED
  BY <1>8, <1>9, <1>10, <1>11, <1>12 DEF PubInOrder

LEMMA InOrderOfHear ==
  ASSUME Pub!PublicationAssumption, Base, PubInOrder, NEW r \in Relays, Pub!Hear(r)
  PROVE  PubInOrder'
<1>1. UNCHANGED <<now, version, lapsed, published_at, waiting, next_at, operators, alerted, run, took, relay, newest,
                  Pub!orderEvents>>
  BY DEF Pub!Hear, Pub!daemon, Pub!running, Pub!network, Pub!orderEvents, Pub!Sealed
<1>2. Pub!Read \in Pub!Address
  BY DEF Pub!PublicationAssumption, Pub!Read, Pub!Address
<1>3. /\ book' \in {book, relay[r][Pub!Read]} /\ archive' \in {archive, relay[r][Pub!Read]}
      /\ chain' \in {chain, relay[r][Pub!Read]}
  BY DEF Pub!Hear, Pub!upsertOrder, Pub!idbUpsertOrder, Pub!upsertOnchainOrder
<1>4. Seen' \subseteq Seen
  BY <1>1, <1>2, <1>3 DEF Seen
<1> QED
  BY <1>1, <1>4 DEF PubInOrder, Monotone, Past, Latest, Taken, Pub!NewestStays, Pub!NothingWaitingMeansPublished

LEMMA InOrderStays ==
  ASSUME Pub!PublicationAssumption, Base, PubInOrder, Steady, [Pub!Next]_(Pub!vars)
  PROVE  PubInOrder'
BY InOrderOfOrder, InOrderOfRun, InOrderOfDone, InOrderOfPause, InOrderOfAccept, InOrderOfHear DEF Pub!Next

LEMMA HeardIsNotEarlier ==
  ASSUME Pub!PublicationAssumption, Base, PubInOrder, [Pub!Next]_(Pub!vars)
  PROVE  [Pub!NeverBack]_(Pub!vars)
<1>1. \A e \in Seen : e.v \in Nat /\ e.at \in Nat
  BY SeenIsOfEvents DEF PubEvents
<1>2. book \in Seen /\ archive \in Seen /\ chain \in Seen
  BY DEF Seen
<1>3. CASE UNCHANGED <<book, archive, chain>>
  BY <1>1, <1>2, <1>3 DEF Pub!NeverBack
<1>4. ASSUME NEW r \in Relays, Pub!Hear(r)
      PROVE  Pub!NeverBack
  <2>1. Pub!Read \in Pub!Address
    BY DEF Pub!PublicationAssumption, Pub!Read, Pub!Address
  <2>2. PICK e \in Seen : /\ book' = IF book.at >= e.at THEN book ELSE e
                          /\ archive' = IF archive.at >= e.at THEN archive ELSE e
                          /\ chain' = IF chain.at > e.at THEN chain ELSE e
    <3>1. relay[r][Pub!Read] \in Seen
      BY <2>1 DEF Seen
    <3> QED
      BY <1>4, <3>1 DEF Pub!Hear, Pub!upsertOrder, Pub!idbUpsertOrder, Pub!upsertOnchainOrder
  <2>3. \A d \in Seen : d.at <= e.at => d.v <= e.v
    BY DEF PubInOrder, Monotone
  <2> QED
    BY <1>1, <1>2, <2>2, <2>3 DEF Pub!NeverBack
<1> QED
  BY <1>3, <1>4 DEF Pub!Next, Pub!Update, Pub!Lapse, Pub!Run, Pub!Done, Pub!Retry, Pub!Elapse, Pub!Accept,
     Pub!Restart, Pub!screens, Pub!vars

LEMMA TypesAreKept == ASSUME Pub!PublicationAssumption, Base PROVE Pub!TypeOK
<1>1. \A r \in Relays, a \in Pub!Address : relay[r][a].v \in 0..newest[r][a] /\ newest[r][a] \in 0..version
  BY DEF Base, Types, PubEvents, Bounded
<1>2. {book.v, archive.v, chain.v, mine.v} \subseteq 0..version
  BY DEF Base, Types, PubEvents, Bounded
<1>3. published_at \in 0..(MaxTime + MaxVersion)
  BY DEF Base, Types, Runs, Pub!PublicationAssumption
<1> QED
  BY <1>1, <1>2, <1>3 DEF Base, Types, Runs, Pub!TypeOK

\* The order, its publication, what relays hold and what the screens show keep their types: a
\* publication that runs is of the order as it is and dated after the last one, and nobody has
\* a version that was not published.
THEOREM PubTypeCorrect == ASSUME Pub!PublicationAssumption PROVE Pub!Spec => []Pub!TypeOK
<1>1. Pub!Init => Base
  BY BaseStarts
<1>2. Base /\ [Pub!Next]_(Pub!vars) => Base'
  BY BaseStays
<1>3. Base => Pub!TypeOK
  BY TypesAreKept
<1> QED
  BY <1>1, <1>2, <1>3, PTL DEF Pub!Spec

\* While what is published is dated less than a pause ahead of the clock (publications that follow
\* each other within a second put it ahead), an event built later wins at every relay and screen,
\* whatever crashed between a relay's yes and its note or is sent again, and what has no publication
\* waiting is out (ln/effects.ts, orders/publish.ts, order-store.ts).
THEOREM LateEventsWin ==
  ASSUME Pub!PublicationAssumption
  PROVE  Pub!Spec /\ []Steady =>
           [](Pub!NewestStays /\ Pub!NothingWaitingMeansPublished) /\ [][Pub!NeverBack]_(Pub!vars)
<1>1. Pub!Init => Base /\ PubInOrder
  BY BaseStarts, InOrderStarts
<1>2. Base /\ PubInOrder /\ Steady /\ [Pub!Next]_(Pub!vars) => (Base /\ PubInOrder)'
  BY BaseStays, InOrderStays
<1>3. Base /\ PubInOrder /\ [Pub!Next]_(Pub!vars) => [Pub!NeverBack]_(Pub!vars)
  BY HeardIsNotEarlier
<1>4. PubInOrder => Pub!NewestStays /\ Pub!NothingWaitingMeansPublished
  BY DEF PubInOrder
<1> QED
  BY <1>1, <1>2, <1>3, <1>4, PTL DEF Pub!Spec

\* Instances with fewer changes than a pause has seconds, like those TLC is given, are steady.
LEMMA PausesKeepSteady ==
  ASSUME Pub!PublicationAssumption, Pub!PausesAreLong
  PROVE  Pub!Spec => []Steady
<1>1. Base => Steady
  <2> SUFFICES ASSUME Base, run # Pub!NoRun
               PROVE  published_at + 1 < now + Backoff /\ published_at + 1 < now + RestartTakes
    BY DEF Steady
  <2>1. published_at + 2 <= now + version
    BY DEF Base, Runs
  <2>2. /\ published_at \in Nat /\ now \in Nat /\ version \in Nat /\ MaxVersion \in Nat /\ version <= MaxVersion
        /\ Backoff \in Nat /\ RestartTakes \in Nat
    BY DEF Base, Types, Pub!PublicationAssumption
  <2> QED
    BY <2>1, <2>2 DEF Pub!PausesAreLong
<1>2. Pub!Init => Base
  BY BaseStarts
<1>3. Base /\ [Pub!Next]_(Pub!vars) => Base'
  BY BaseStays
<1> QED
  BY <1>1, <1>2, <1>3, PTL DEF Pub!Spec

-----------------------------------------------------------------------------
(* ChatStore. *)

ChatTyped == Chat!TypeOK /\ asked <= enters /\ \A i \in retrying : i[1] \in Texts

\* What was not signed yet is nowhere.
Unseen == \A t \in Texts, k \in 1 .. MaxTries : k > tries[t] =>
  /\ <<t, k>> \notin flying \cup relay \cup retrying
  /\ chats[<<t, k>>] = "none" /\ idb[<<t, k>>] = "none" /\ \A read \in reads : read[<<t, k>>] = "none"

SentReads == \A i \in Chat!Ids : \A read \in reads : read[i] = "sent" => i \in relay

\* While the screen is open a load will read IndexedDB, or what it has is in memory or read.
Loaded == open /\ asked = 0 => \A i \in Chat!Ids : idb[i] # "none" => Chat!Has(i) \/ \E read \in reads : read[i] # "none"

ChatBase == ChatTyped /\ Unseen /\ Chat!SentIsThere /\ SentReads /\ Loaded

-----------------------------------------------------------------------------
LEMMA ChatBaseStarts == ASSUME Chat!ChatStoreAssumption PROVE Chat!Init => ChatBase
<1> SUFFICES ASSUME Chat!Init PROVE ChatBase
  OBVIOUS
<1>1. /\ \A i \in Chat!Ids : chats[i] = "none" /\ idb[i] = "none"
      /\ chats \in [Chat!Ids -> Chat!Status] /\ idb \in [Chat!Ids -> Chat!Status]
  BY DEF Chat!Init, Chat!Empty, Chat!Status
<1>2. ChatTyped
  <2>1. MaxTries \in Nat /\ MaxEnters \in Nat /\ MaxReloads \in Nat
    BY DEF Chat!ChatStoreAssumption
  <2>2. tries \in [Texts -> 0 .. MaxTries]
    <3>1. 0 \in 0 .. MaxTries
      BY <2>1
    <3>2. tries = [t \in Texts |-> 0]
      BY DEF Chat!Init
    <3> QED
      BY <3>1, <3>2
  <2>3. open \in BOOLEAN /\ reads = {} /\ flying = {} /\ relay = {} /\ retrying = {}
    BY DEF Chat!Init
  <2>4. asked \in 0 .. MaxEnters /\ enters \in 0 .. MaxEnters /\ reloads \in 0 .. MaxReloads /\ asked <= enters
    BY <2>1 DEF Chat!Init
  <2> QED
    BY <1>1, <2>2, <2>3, <2>4 DEF ChatTyped, Chat!TypeOK
<1>3. \A t \in Texts, k \in 1 .. MaxTries : <<t, k>> \in Chat!Ids
  BY DEF Chat!Ids
<1>4. Unseen
  BY <1>1, <1>3 DEF Chat!Init, Unseen
<1>5. Chat!SentIsThere /\ SentReads /\ Loaded
  BY <1>1 DEF Chat!Init, Chat!SentIsThere, SentReads, Loaded
<1> QED
  BY <1>2, <1>4, <1>5 DEF ChatBase

\* The screen is opened, left, loaded; the tab goes.
LEMMA BaseOfScreen ==
  ASSUME Chat!ChatStoreAssumption, ChatBase, Chat!Enter \/ Chat!Read \/ Chat!loadFromIdb \/ Chat!Leave \/ Chat!Reload \/ UNCHANGED Chat!vars
  PROVE  ChatBase'
<1>1. UNCHANGED <<idb, relay, tries>> /\ (retrying' = retrying \/ retrying' = {}) /\ (flying' = flying \/ flying' = {})
  BY DEF Chat!Enter, Chat!Read, Chat!loadFromIdb, Chat!Leave, Chat!Reload, Chat!vars, Chat!store, Chat!net, Chat!sends, Chat!loads
<1>2. /\ reads' \subseteq reads \cup {idb}
      /\ \A i \in Chat!Ids : \/ chats'[i] = chats[i] \/ chats'[i] = "none"
                             \/ \E read \in reads : read[i] = chats'[i] \/ (read[i] = "pending" /\ chats'[i] = "failed")
      /\ chats' \in [Chat!Ids -> Chat!Status]
  <2>1. chats \in [Chat!Ids -> Chat!Status] /\ reads \subseteq [Chat!Ids -> Chat!Status] /\ Chat!Empty \in [Chat!Ids -> Chat!Status]
    <3>1. Chat!Empty \in [Chat!Ids -> Chat!Status]
      BY DEF Chat!Empty, Chat!Status
    <3> QED
      BY <3>1 DEF ChatBase, ChatTyped, Chat!TypeOK
  <2>2. CASE chats' = chats /\ reads' \subseteq reads \cup {idb}
    BY <2>1, <2>2
  <2>3. CASE chats' = Chat!Empty /\ reads' \subseteq reads
    BY <2>1, <2>3 DEF Chat!Empty
  <2>4. CASE Chat!loadFromIdb
    <3>1. PICK read \in reads : reads' = reads \ {read} /\ chats' = Chat!merged(read)
      BY <2>4 DEF Chat!loadFromIdb
    <3>2. \A i \in Chat!Ids : chats'[i] = IF Chat!Has(i) THEN chats[i] ELSE IF read[i] = "pending" THEN "failed" ELSE read[i]
      BY <3>1 DEF Chat!merged
    <3>3. chats' \in [Chat!Ids -> Chat!Status]
      BY <2>1, <3>1 DEF Chat!merged, Chat!Status
    <3> QED
      BY <3>1, <3>2, <3>3
  <2> QED
    BY <2>2, <2>3, <2>4 DEF Chat!Enter, Chat!Read, Chat!Leave, Chat!Reload, Chat!clearMessages, Chat!vars, Chat!store, Chat!loads
<1>3. ChatTyped'
  <2>1. open' \in BOOLEAN /\ asked' \in 0 .. MaxEnters /\ enters' \in 0 .. MaxEnters /\ reloads' \in 0 .. MaxReloads
        /\ asked' <= enters'
    <3>1. /\ MaxEnters \in Nat /\ MaxReloads \in Nat /\ open \in BOOLEAN
          /\ asked \in 0 .. MaxEnters /\ enters \in 0 .. MaxEnters /\ reloads \in 0 .. MaxReloads /\ asked <= enters
      BY DEF ChatBase, ChatTyped, Chat!TypeOK, Chat!ChatStoreAssumption
    <3>2. CASE Chat!Enter
      <4>1. open' = TRUE /\ asked' = asked + 1 /\ enters' = enters + 1 /\ reloads' = reloads /\ enters < MaxEnters
        BY <3>2 DEF Chat!Enter
      <4> QED
        BY <3>1, <4>1
    <3>3. CASE Chat!Read
      <4>1. open' = open /\ asked' = asked - 1 /\ enters' = enters /\ reloads' = reloads /\ asked > 0
        BY <3>3 DEF Chat!Read
      <4> QED
        BY <3>1, <4>1
    <3>4. CASE Chat!loadFromIdb \/ Chat!Leave \/ UNCHANGED Chat!vars
      <4>1. (open' = open \/ open' = FALSE) /\ asked' = asked /\ enters' = enters /\ reloads' = reloads
        BY <3>4 DEF Chat!loadFromIdb, Chat!Leave, Chat!vars, Chat!loads
      <4>2. open' \in BOOLEAN
        <5>1. open \in BOOLEAN /\ FALSE \in BOOLEAN
          BY <3>1
        <5> QED
          BY <4>1, <5>1
      <4>3. UNCHANGED <<asked, enters, reloads>>
        BY <4>1
      <4> QED
        BY <3>1, <4>2, <4>3
    <3>5. CASE Chat!Reload
      <4>1. open' = FALSE /\ asked' = 0 /\ enters' = enters /\ reloads' = reloads + 1 /\ reloads < MaxReloads
        BY <3>5 DEF Chat!Reload
      <4>2. asked' \in 0 .. MaxEnters /\ reloads' \in 0 .. MaxReloads
        BY <3>1, <4>1
      <4>3. enters' \in 0 .. MaxEnters /\ asked' <= enters'
        <5>1. 0 <= enters
          BY <3>1
        <5> QED
          BY <3>1, <4>1, <5>1
      <4>4. open' \in BOOLEAN
        BY <4>1
      <4> QED
        BY <4>2, <4>3, <4>4
    <3> QED
      BY <3>2, <3>3, <3>4, <3>5
  <2>2. reads' \subseteq [Chat!Ids -> Chat!Status]
    BY <1>2 DEF ChatBase, ChatTyped, Chat!TypeOK
  <2> QED
    BY <1>1, <1>2, <2>1, <2>2 DEF ChatBase, ChatTyped, Chat!TypeOK
<1>4. Unseen'
  <2> SUFFICES ASSUME NEW t \in Texts, NEW k \in 1 .. MaxTries, k > tries'[t]
               PROVE  /\ <<t, k>> \notin flying' \cup relay' \cup retrying'
                      /\ chats'[<<t, k>>] = "none" /\ idb'[<<t, k>>] = "none"
                      /\ \A read \in reads' : read[<<t, k>>] = "none"
    BY DEF Unseen
  <2>1. <<t, k>> \in Chat!Ids
    BY DEF Chat!Ids
  <2>2. /\ <<t, k>> \notin flying \cup relay \cup retrying
        /\ chats[<<t, k>>] = "none" /\ idb[<<t, k>>] = "none" /\ \A read \in reads : read[<<t, k>>] = "none"
    BY <1>1 DEF ChatBase, Unseen
  <2> QED
    BY <1>1, <1>2, <2>1, <2>2
<1>5. Chat!SentIsThere' /\ SentReads'
  <2>1. SentReads'
    BY <1>1, <1>2 DEF ChatBase, SentReads, Chat!SentIsThere
  <2>2. ASSUME NEW i \in Chat!Ids, "sent" \in {chats'[i], idb'[i]} PROVE i \in relay'
    BY <1>1, <1>2, <2>2 DEF ChatBase, SentReads, Chat!SentIsThere
  <2> QED
    BY <2>1, <2>2 DEF Chat!SentIsThere
<1>6. Loaded'
  <2>1. CASE Chat!Enter
    BY <2>1 DEF Chat!Enter, Loaded, ChatBase, ChatTyped, Chat!TypeOK
  <2>2. CASE Chat!Read
    <3>1. idb \in reads' /\ UNCHANGED idb
      BY <2>2 DEF Chat!Read, Chat!store
    <3> QED
      BY <3>1 DEF Loaded
  <2>3. CASE Chat!loadFromIdb
    <3>1. PICK read \in reads : reads' = reads \ {read} /\ chats' = Chat!merged(read)
      BY <2>3 DEF Chat!loadFromIdb
    <3>2. \A i \in Chat!Ids : chats'[i] = IF Chat!Has(i) THEN chats[i] ELSE IF read[i] = "pending" THEN "failed" ELSE read[i]
      BY <3>1 DEF Chat!merged
    <3>3. \A i \in Chat!Ids : Chat!Has(i) \/ read[i] # "none" => Chat!Has(i)'
      BY <3>2 DEF Chat!Has
    <3>4. UNCHANGED <<open, idb, asked>>
      BY <2>3 DEF Chat!loadFromIdb
    <3> QED
      BY <3>1, <3>3, <3>4 DEF ChatBase, Loaded
  <2>4. CASE Chat!Leave \/ Chat!Reload
    BY <2>4 DEF Chat!Leave, Chat!Reload, Loaded
  <2>5. CASE UNCHANGED Chat!vars
    BY <2>5 DEF Chat!vars, Chat!store, Chat!loads, ChatBase, Loaded, Chat!Has
  <2> QED
    BY <2>1, <2>2, <2>3, <2>4, <2>5
<1> QED
  BY <1>3, <1>4, <1>5, <1>6 DEF ChatBase

-----------------------------------------------------------------------------
\* A message of this user has the number of its signature.
LEMMA IdsOfTexts ==
  ASSUME Chat!ChatStoreAssumption
  PROVE  /\ \A i \in Chat!Ids : i[1] \in Texts => i = <<i[1], i[2]>> /\ i[2] \in 1 .. MaxTries
         /\ \A t \in Texts, k \in 1 .. MaxTries : <<t, k>> \in Chat!Ids
         /\ \A m \in Theirs : <<m, 1>> \in Chat!Ids /\ m \notin Texts
BY DEF Chat!ChatStoreAssumption, Chat!Ids

\* The store is left alone, or gets one status for one message in memory and in IndexedDB.
StoreAt(i, s) ==
  UNCHANGED Chat!store \/ (chats' = [chats EXCEPT ![i] = s] /\ idb' = [idb EXCEPT ![i] = s])

LEMMA StoreOf ==
  ASSUME NEW i, NEW s, Chat!addMessage(i, s) \/ Chat!setMessageStatus(i, s) PROVE StoreAt(i, s)
BY DEF Chat!addMessage, Chat!setMessageStatus, StoreAt

\* One entry changes: the others, and what holds of every entry, stay.
LEMMA BaseOfStore ==
  ASSUME ChatBase, NEW i \in Chat!Ids, NEW s \in Chat!Status, StoreAt(i, s), UNCHANGED <<open, asked, reads>>,
         relay \subseteq relay', s = "sent" => i \in relay'
  PROVE  /\ chats' \in [Chat!Ids -> Chat!Status] /\ idb' \in [Chat!Ids -> Chat!Status]
         /\ \A j \in Chat!Ids : j # i => chats'[j] = chats[j] /\ idb'[j] = idb[j]
         /\ \/ chats'[i] = chats[i] /\ idb'[i] = idb[i]
            \/ chats'[i] = s /\ idb'[i] = s
         /\ Chat!SentIsThere' /\ SentReads' /\ Loaded'
<1>1. chats \in [Chat!Ids -> Chat!Status] /\ idb \in [Chat!Ids -> Chat!Status]
  BY DEF ChatBase, ChatTyped, Chat!TypeOK
<1>2. /\ chats' \in [Chat!Ids -> Chat!Status] /\ idb' \in [Chat!Ids -> Chat!Status]
      /\ \A j \in Chat!Ids : j # i => chats'[j] = chats[j] /\ idb'[j] = idb[j]
      /\ \/ chats'[i] = chats[i] /\ idb'[i] = idb[i]
         \/ chats'[i] = s /\ idb'[i] = s
  BY <1>1 DEF StoreAt, Chat!store
<1>3. Chat!SentIsThere'
  <2>1. ASSUME NEW j \in Chat!Ids, "sent" \in {chats'[j], idb'[j]} PROVE j \in relay'
    BY <1>2, <2>1 DEF ChatBase, Chat!SentIsThere
  <2> QED
    BY <2>1 DEF Chat!SentIsThere
<1>4. SentReads'
  BY DEF ChatBase, SentReads
<1>5. Loaded'
  <2>1. ASSUME open', asked' = 0, NEW j \in Chat!Ids, idb'[j] # "none"
        PROVE  chats'[j] # "none" \/ \E read \in reads' : read[j] # "none"
    <3>1. idb[j] # "none" => chats[j] # "none" \/ \E read \in reads : read[j] # "none"
      BY <2>1 DEF ChatBase, Loaded, Chat!Has
    <3> QED
      BY <1>2, <2>1, <3>1
  <2> QED
    BY <2>1 DEF Loaded, Chat!Has
<1> QED
  BY <1>2, <1>3, <1>4, <1>5

\* The steps that leave the store of every message but one alone, and sign nothing.
LEMMA BaseOfOne ==
  ASSUME Chat!ChatStoreAssumption, ChatBase, NEW i \in Chat!Ids,
         \/ Chat!handleRetry(i) \/ Chat!RetryNotSigned(i) \/ Chat!RelayTakes(i) \/ Chat!Published(i) \/ Chat!AckLost(i) \/ Chat!Echo(i)
  PROVE  ChatBase'
<1>1. /\ UNCHANGED <<open, asked, reads, tries, enters, reloads>> /\ relay \subseteq relay' /\ flying' \subseteq flying
      /\ relay' \subseteq relay \cup flying /\ relay' \subseteq Chat!Ids
      /\ retrying' \subseteq retrying \cup {i}
  BY DEF Chat!handleRetry, Chat!retryChatMessage, Chat!RetryNotSigned, Chat!RelayTakes, Chat!Published, Chat!AckLost, Chat!Echo, Chat!loads, Chat!net, Chat!sends, Chat!store,
         ChatBase, ChatTyped, Chat!TypeOK
<1>2. \E s \in Chat!Status : StoreAt(i, s) /\ (s = "sent" => i \in relay')
  <2>1. CASE Chat!handleRetry(i)
    <3>1. StoreAt(i, "none")
      BY <2>1 DEF Chat!handleRetry, Chat!retryChatMessage, Chat!removeMessage, StoreAt
    <3> QED
      BY <3>1 DEF Chat!Status
  <2>2. CASE Chat!RetryNotSigned(i) \/ Chat!AckLost(i)
    <3>1. StoreAt(i, "failed")
      BY <2>2, StoreOf DEF Chat!RetryNotSigned, Chat!AckLost
    <3> QED
      BY <3>1 DEF Chat!Status
  <2>3. CASE Chat!RelayTakes(i)
    BY <2>3 DEF Chat!RelayTakes, StoreAt, Chat!Status
  <2>4. CASE Chat!Published(i)
    <3>1. StoreAt(i, Chat!Outcome(i)) /\ relay' = relay
      BY <2>4, StoreOf DEF Chat!Published
    <3> QED
      BY <3>1 DEF Chat!Outcome, Chat!Status
  <2>5. CASE Chat!Echo(i)
    <3>1. StoreAt(i, "received")
      BY <2>5, StoreOf DEF Chat!Echo
    <3> QED
      BY <3>1 DEF Chat!Status
  <2> QED
    BY <2>1, <2>2, <2>3, <2>4, <2>5
<1>3. PICK s \in Chat!Status : StoreAt(i, s) /\ (s = "sent" => i \in relay')
  BY <1>2
<1>4. /\ chats' \in [Chat!Ids -> Chat!Status] /\ idb' \in [Chat!Ids -> Chat!Status]
      /\ \A j \in Chat!Ids : j # i => chats'[j] = chats[j] /\ idb'[j] = idb[j]
      /\ Chat!SentIsThere' /\ SentReads' /\ Loaded'
  BY <1>1, <1>3, BaseOfStore
\* The message of the step was signed.
<1>5. \A t \in Texts, k \in 1 .. MaxTries : k > tries[t] => <<t, k>> # i \/ UNCHANGED <<Chat!store, relay, retrying>>
  <2> SUFFICES ASSUME NEW t \in Texts, NEW k \in 1 .. MaxTries, k > tries[t], <<t, k>> = i
               PROVE  UNCHANGED <<Chat!store, relay, retrying>>
    OBVIOUS
  <2>1. i \notin flying \cup relay \cup retrying /\ chats[i] = "none"
    BY DEF ChatBase, Unseen
  <2> QED
    BY <2>1 DEF Chat!handleRetry, Chat!RetryNotSigned, Chat!RelayTakes, Chat!Published, Chat!AckLost, Chat!Echo
<1>6. Unseen'
  <2> SUFFICES ASSUME NEW t \in Texts, NEW k \in 1 .. MaxTries, k > tries[t]
               PROVE  /\ <<t, k>> \notin flying' \cup relay' \cup retrying'
                      /\ chats'[<<t, k>>] = "none" /\ idb'[<<t, k>>] = "none"
                      /\ \A read \in reads' : read[<<t, k>>] = "none"
    BY <1>1 DEF Unseen
  <2>1. /\ <<t, k>> \notin flying \cup relay \cup retrying
        /\ chats[<<t, k>>] = "none" /\ idb[<<t, k>>] = "none" /\ \A read \in reads : read[<<t, k>>] = "none"
    BY DEF ChatBase, Unseen
  <2>2. <<t, k>> \in Chat!Ids
    BY DEF Chat!Ids
  <2>3. chats'[<<t, k>>] = "none" /\ idb'[<<t, k>>] = "none" /\ <<t, k>> \notin retrying'
    BY <1>1, <1>4, <1>5, <2>1, <2>2 DEF Chat!store
  <2> QED
    BY <1>1, <2>1, <2>3
<1>7. ChatTyped'
  <2>1. retrying' \subseteq Chat!Ids /\ \A j \in retrying' : j[1] \in Texts
    <3>1. i \in retrying' => i[1] \in Texts \/ i \in retrying
      BY <1>1 DEF Chat!handleRetry, Chat!retryChatMessage, Chat!RetryNotSigned, Chat!RelayTakes, Chat!Published, Chat!AckLost, Chat!Echo, Chat!sends
    <3> QED
      BY <1>1, <3>1 DEF ChatBase, ChatTyped, Chat!TypeOK
  <2> QED
    BY <1>1, <1>4, <2>1 DEF ChatBase, ChatTyped, Chat!TypeOK
<1> QED
  BY <1>4, <1>6, <1>7 DEF ChatBase

\* A text is signed, for the first time or again.
LEMMA BaseOfSigned ==
  ASSUME Chat!ChatStoreAssumption, ChatBase, NEW t \in Texts, tries[t] < MaxTries, Chat!Signed(t),
         UNCHANGED <<open, Chat!loads, relay, enters, reloads>>, retrying' \subseteq retrying
  PROVE  /\ ChatBase' /\ <<t, tries[t] + 1>> \in Chat!Ids /\ tries[t] + 1 \in 1 .. MaxTries
         /\ tries' = [tries EXCEPT ![t] = @ + 1]
         /\ chats'[<<t, tries[t] + 1>>] = "pending" /\ idb'[<<t, tries[t] + 1>>] = "pending"
         /\ \A j \in Chat!Ids : j # <<t, tries[t] + 1>> => chats'[j] = chats[j] /\ idb'[j] = idb[j]
<1> DEFINE n == tries[t] + 1
           i == <<t, n>>
<1>1. /\ MaxTries \in Nat /\ tries \in [Texts -> 0 .. MaxTries] /\ tries[t] \in 0 .. MaxTries
      /\ chats \in [Chat!Ids -> Chat!Status] /\ idb \in [Chat!Ids -> Chat!Status]
  BY DEF ChatBase, ChatTyped, Chat!TypeOK, Chat!ChatStoreAssumption
<1>2. n \in 1 .. MaxTries /\ n > tries[t]
  BY <1>1
<1>3. i \in Chat!Ids
  BY <1>2 DEF Chat!Ids
<1>4. tries' = [tries EXCEPT ![t] = @ + 1] /\ Chat!addMessage(i, "pending") /\ flying' = flying \cup {i}
  BY DEF Chat!Signed
<1>5. UNCHANGED <<open, asked, reads, relay, enters, reloads>>
  BY DEF Chat!loads
<1>6. chats[i] = "none"
  BY <1>2 DEF ChatBase, Unseen
<1> HIDE DEF n, i
<1>7. StoreAt(i, "pending") /\ "pending" \in Chat!Status
  BY <1>4, StoreOf DEF Chat!Status
<1>8. /\ chats' \in [Chat!Ids -> Chat!Status] /\ idb' \in [Chat!Ids -> Chat!Status]
      /\ \A j \in Chat!Ids : j # i => chats'[j] = chats[j] /\ idb'[j] = idb[j]
      /\ Chat!SentIsThere' /\ SentReads' /\ Loaded'
  BY <1>3, <1>5, <1>7, BaseOfStore
<1>9. chats'[i] = "pending" /\ idb'[i] = "pending"
  BY <1>1, <1>3, <1>4, <1>6 DEF Chat!addMessage, Chat!Has
<1>10. /\ tries' \in [Texts -> 0 .. MaxTries] /\ tries'[t] = n
       /\ \A u \in Texts : u # t => tries'[u] = tries[u]
  BY <1>1, <1>2, <1>4 DEF n
<1>11. ChatTyped'
  <2>1. ASSUME NEW j \in flying' PROVE j[1] \in Texts /\ j[2] <= tries'[j[1]]
    <3>1. CASE j = i
      BY <1>2, <1>10, <3>1 DEF i
    <3>2. CASE j \in flying
      <4>1. j[1] \in Texts /\ j[2] <= tries[j[1]] /\ j \in Chat!Ids
        BY <3>2 DEF ChatBase, ChatTyped, Chat!TypeOK
      <4>2. CASE j[1] = t
        <5>1. j[2] \in 1 .. MaxTries
          BY <4>1, IdsOfTexts
        <5>2. j[2] <= tries[t]
          BY <4>1, <4>2
        <5>3. j[2] <= n
          BY <1>1, <5>1, <5>2 DEF n
        <5> QED
          BY <1>10, <4>1, <4>2, <5>3
      <4> QED
        BY <1>10, <4>1, <4>2
    <3> QED
      BY <1>4, <3>1, <3>2
  <2> QED
    BY <1>3, <1>4, <1>5, <1>8, <1>10, <2>1 DEF ChatBase, ChatTyped, Chat!TypeOK
<1>12. Unseen'
  <2> SUFFICES ASSUME NEW u \in Texts, NEW k \in 1 .. MaxTries, k > tries'[u]
               PROVE  /\ <<u, k>> \notin flying' \cup relay' \cup retrying'
                      /\ chats'[<<u, k>>] = "none" /\ idb'[<<u, k>>] = "none"
                      /\ \A read \in reads' : read[<<u, k>>] = "none"
    BY DEF Unseen
  <2>1. k > tries[u] /\ <<u, k>> # i
    <3>1. CASE u = t
      <4>1. k > n
        BY <1>10, <3>1
      <4> QED
        BY <1>1, <1>2, <3>1, <4>1 DEF i, n
    <3>2. CASE u # t
      BY <1>10, <3>2 DEF i
    <3> QED
      BY <3>1, <3>2
  <2>2. /\ <<u, k>> \notin flying \cup relay \cup retrying
        /\ chats[<<u, k>>] = "none" /\ idb[<<u, k>>] = "none" /\ \A read \in reads : read[<<u, k>>] = "none"
    BY <2>1 DEF ChatBase, Unseen
  <2>3. <<u, k>> \in Chat!Ids
    BY DEF Chat!Ids
  <2> QED
    BY <1>4, <1>5, <1>8, <2>1, <2>2, <2>3
<1> QED
  BY <1>2, <1>3, <1>4, <1>8, <1>9, <1>11, <1>12 DEF ChatBase, i, n

LEMMA BaseOfNext == ASSUME Chat!ChatStoreAssumption, ChatBase, [Chat!Next]_(Chat!vars) PROVE ChatBase'
<1>1. CASE Chat!Enter \/ Chat!Read \/ Chat!loadFromIdb \/ Chat!Leave \/ Chat!Reload \/ UNCHANGED Chat!vars
  BY <1>1, BaseOfScreen
<1>2. ASSUME NEW t \in Texts, Chat!handleSend(t) PROVE ChatBase'
  <2>1. tries[t] < MaxTries
    <3>1. tries[t] = 0 /\ MaxTries \in Nat \ {0}
      BY <1>2 DEF Chat!handleSend, Chat!ChatStoreAssumption
    <3> QED
      BY <3>1
  <2> QED
    BY <1>2, <2>1, BaseOfSigned DEF Chat!handleSend, Chat!sendChatMessage
<1>3. ASSUME NEW i \in Chat!Ids, Chat!RetrySigned(i) PROVE ChatBase'
  <2>1. i[1] \in Texts
    BY <1>3 DEF Chat!RetrySigned, ChatBase, ChatTyped
  <2> QED
    BY <1>3, <2>1, BaseOfSigned DEF Chat!RetrySigned
<1>4. ASSUME NEW m \in Theirs, Chat!TheyWrite(m) PROVE ChatBase'
  <2>1. /\ relay' = relay \cup {<<m, 1>>} /\ <<m, 1>> \in Chat!Ids
        /\ UNCHANGED <<open, chats, idb, asked, reads, flying, retrying, tries, enters, reloads>>
    BY <1>4, IdsOfTexts DEF Chat!TheyWrite, Chat!store, Chat!loads, Chat!sends
  <2>2. ChatTyped'
    BY <2>1 DEF ChatBase, ChatTyped, Chat!TypeOK
  <2>3. Unseen'
    <3>1. \A t \in Texts, k \in 1 .. MaxTries : <<t, k>> # <<m, 1>>
      BY IdsOfTexts
    <3> QED
      BY <2>1, <3>1 DEF ChatBase, Unseen
  <2>4. Chat!SentIsThere' /\ SentReads' /\ Loaded'
    BY <2>1 DEF ChatBase, Chat!SentIsThere, SentReads, Loaded, Chat!Has
  <2> QED
    BY <2>2, <2>3, <2>4 DEF ChatBase
<1>5. ASSUME NEW i \in Chat!Ids,
             \/ Chat!handleRetry(i) \/ Chat!RetryNotSigned(i) \/ Chat!RelayTakes(i) \/ Chat!Published(i) \/ Chat!AckLost(i) \/ Chat!Echo(i)
      PROVE  ChatBase'
  BY <1>5, BaseOfOne
<1> QED
  BY <1>1, <1>2, <1>3, <1>4, <1>5 DEF Chat!Next

-----------------------------------------------------------------------------
\* Neither the store nor a load has anything of the message.
Nowhere(i) == chats[i] = "none" /\ idb[i] = "none" /\ \A read \in reads : read[i] = "none"

\* What is being signed anew is nowhere, unless it had been received after all.
ChatTaken == \A i \in retrying \ relay : Nowhere(i)

\* No signature of the text up to this one has been received.
NoneTo(t, k) == \A j \in 1 .. k : <<t, j>> \notin relay

\* What a text was signed with before its last signature is nowhere.
Gone == \A t \in Texts, k \in 1 .. MaxTries :
  k < tries[t] /\ NoneTo(t, k) => Nowhere(<<t, k>>) /\ <<t, k>> \notin retrying

Anew == ChatTaken /\ Gone

LEMMA NowhereOfScreen ==
  ASSUME ChatBase, Chat!Enter \/ Chat!Read \/ Chat!loadFromIdb \/ Chat!Leave \/ Chat!Reload \/ UNCHANGED Chat!vars, NEW i \in Chat!Ids, Nowhere(i)
  PROVE  Nowhere(i)'
<1>1. CASE Chat!Enter
  BY <1>1 DEF Chat!Enter, Chat!store, Nowhere
<1>2. CASE Chat!Read
  BY <1>2 DEF Chat!Read, Chat!store, Nowhere
<1>3. CASE Chat!loadFromIdb
  <2>1. PICK read \in reads : reads' = reads \ {read} /\ chats' = Chat!merged(read)
    BY <1>3 DEF Chat!loadFromIdb
  <2>2. chats'[i] = "none"
    BY <2>1 DEF Chat!merged, Nowhere, Chat!Has
  <2> QED
    BY <1>3, <2>1, <2>2 DEF Chat!loadFromIdb, Nowhere
<1>4. CASE Chat!Leave \/ Chat!Reload
  BY <1>4 DEF Chat!Leave, Chat!Reload, Chat!clearMessages, Chat!Empty, Chat!loads, Nowhere
<1>5. CASE UNCHANGED Chat!vars
  BY <1>5 DEF Chat!vars, Chat!store, Chat!loads, Nowhere
<1> QED
  BY <1>1, <1>2, <1>3, <1>4, <1>5

LEMMA AnewOfScreen ==
  ASSUME ChatBase, Anew, Chat!Enter \/ Chat!Read \/ Chat!loadFromIdb \/ Chat!Leave \/ Chat!Reload \/ UNCHANGED Chat!vars
  PROVE  Anew'
<1>1. UNCHANGED <<relay, tries>> /\ (retrying' = retrying \/ retrying' = {})
  BY DEF Chat!Enter, Chat!Read, Chat!loadFromIdb, Chat!Leave, Chat!Reload, Chat!vars, Chat!net, Chat!sends
<1>2. retrying \subseteq Chat!Ids /\ \A t \in Texts, k \in 1 .. MaxTries : <<t, k>> \in Chat!Ids
  BY DEF ChatBase, ChatTyped, Chat!TypeOK, Chat!Ids
<1>3. ChatTaken'
  BY <1>1, <1>2, NowhereOfScreen DEF Anew, ChatTaken
<1>4. Gone'
  BY <1>1, <1>2, NowhereOfScreen DEF Anew, Gone, NoneTo
<1> QED
  BY <1>3, <1>4 DEF Anew

\* A step on one message that was not retried keeps what is nowhere so.
LEMMA AnewOfOne ==
  ASSUME Chat!ChatStoreAssumption, ChatBase, Anew, ~SlowLoads, NEW i \in Chat!Ids,
         \/ Chat!handleRetry(i) \/ Chat!RetryNotSigned(i) \/ Chat!RelayTakes(i) \/ Chat!Published(i) \/ Chat!AckLost(i) \/ Chat!Echo(i)
  PROVE  Anew'
<1>1. UNCHANGED <<asked, reads, tries>> /\ relay \subseteq relay' /\ retrying' \subseteq retrying \cup {i}
  BY DEF Chat!handleRetry, Chat!retryChatMessage, Chat!RetryNotSigned, Chat!RelayTakes, Chat!Published, Chat!AckLost, Chat!Echo, Chat!loads, Chat!net, Chat!sends
<1>2. /\ chats \in [Chat!Ids -> Chat!Status] /\ idb \in [Chat!Ids -> Chat!Status] /\ retrying \subseteq Chat!Ids
      /\ \A t \in Texts, k \in 1 .. MaxTries : <<t, k>> \in Chat!Ids
  BY DEF ChatBase, ChatTyped, Chat!TypeOK, Chat!Ids
<1>3. \A j \in Chat!Ids : j # i => chats'[j] = chats[j] /\ idb'[j] = idb[j]
  BY <1>2 DEF Chat!handleRetry, Chat!retryChatMessage, Chat!RetryNotSigned, Chat!RelayTakes, Chat!Published, Chat!AckLost, Chat!Echo, Chat!store,
              Chat!addMessage, Chat!removeMessage, Chat!setMessageStatus
\* What was nowhere stays so, but for a message whose successor was not signed.
<1>4. ASSUME NEW j \in Chat!Ids, Nowhere(j) PROVE Nowhere(j)' \/ (j = i /\ Chat!RetryNotSigned(i)) \/ j \in relay
  <2>1. CASE j # i
    BY <1>1, <1>3, <1>4, <2>1 DEF Nowhere
  <2>2. CASE j = i /\ (Chat!Published(i) \/ Chat!AckLost(i) \/ Chat!RelayTakes(i))
    BY <1>1, <1>4, <2>2 DEF Chat!Published, Chat!AckLost, Chat!RelayTakes, Chat!setMessageStatus, Chat!Has, Chat!store, Nowhere
  <2>3. CASE j = i /\ Chat!Echo(i)
    BY <2>3 DEF Chat!Echo
  <2>4. CASE j = i /\ Chat!handleRetry(i)
    BY <1>4, <2>4 DEF Chat!handleRetry, Nowhere
  <2> QED
    BY <2>1, <2>2, <2>3, <2>4
<1>5. Chat!handleRetry(i) => Nowhere(i)'
  <2> SUFFICES ASSUME Chat!handleRetry(i) PROVE Nowhere(i)'
    OBVIOUS
  <2>1. reads = {} /\ chats[i] = "failed" /\ Chat!removeMessage(i)
    BY DEF Chat!handleRetry, Chat!Quiet, Chat!retryChatMessage
  <2> QED
    BY <1>1, <1>2, <2>1 DEF Chat!removeMessage, Chat!Has, Nowhere
<1>6. ChatTaken'
  <2> SUFFICES ASSUME NEW j \in retrying' \ relay' PROVE Nowhere(j)'
    BY DEF ChatTaken
  <2>1. j \in Chat!Ids /\ j \notin relay
    BY <1>1, <1>2
  <2>2. CASE j \in retrying
    <3>1. Nowhere(j)
      BY <2>1, <2>2 DEF Anew, ChatTaken
    <3>2. ~(j = i /\ Chat!RetryNotSigned(i))
      BY DEF Chat!RetryNotSigned
    <3> QED
      BY <1>4, <2>1, <3>1, <3>2
  <2>3. CASE j \notin retrying
    <3>1. j = i /\ Chat!handleRetry(i)
      BY <1>1, <2>3 DEF Chat!RetryNotSigned, Chat!RelayTakes, Chat!Published, Chat!AckLost, Chat!Echo, Chat!sends
    <3> QED
      BY <1>5, <3>1
  <2> QED
    BY <2>2, <2>3
<1>7. Gone'
  <2> SUFFICES ASSUME NEW t \in Texts, NEW k \in 1 .. MaxTries, k < tries'[t], NoneTo(t, k)'
               PROVE  Nowhere(<<t, k>>)' /\ <<t, k>> \notin retrying'
    BY DEF Gone
  <2>1. NoneTo(t, k) /\ <<t, k>> \in Chat!Ids
    BY <1>1, <1>2 DEF NoneTo
  <2>2. Nowhere(<<t, k>>) /\ <<t, k>> \notin retrying
    BY <1>1, <2>1 DEF Anew, Gone
  <2>3. <<t, k>> \notin relay
    BY <2>1 DEF NoneTo
  <2>4. ~(<<t, k>> = i /\ (Chat!RetryNotSigned(i) \/ Chat!handleRetry(i)))
    BY <2>2 DEF Chat!RetryNotSigned, Chat!handleRetry, Nowhere
  <2>5. Nowhere(<<t, k>>)'
    BY <1>4, <2>1, <2>2, <2>3, <2>4
  <2>6. <<t, k>> \notin retrying'
    BY <2>2, <2>4 DEF Chat!handleRetry, Chat!retryChatMessage, Chat!RetryNotSigned, Chat!RelayTakes, Chat!Published, Chat!AckLost, Chat!Echo, Chat!sends
  <2> QED
    BY <2>5, <2>6
<1> QED
  BY <1>6, <1>7 DEF Anew

\* A text is signed, and the one before it is what the signature replaces.
LEMMA AnewOfSigned ==
  ASSUME Chat!ChatStoreAssumption, ChatBase, Anew, NEW t \in Texts, tries[t] < MaxTries, Chat!Signed(t),
         UNCHANGED <<open, Chat!loads, relay, enters, reloads>>,
         \/ tries[t] = 0 /\ retrying' = retrying
         \/ \E n \in 1 .. MaxTries : <<t, n>> \in retrying /\ retrying' = retrying \ {<<t, n>>}
  PROVE  Anew'
<1> DEFINE i == <<t, tries[t] + 1>>
<1>1. /\ tries' = [tries EXCEPT ![t] = @ + 1]
      /\ \A j \in Chat!Ids : j # i => chats'[j] = chats[j] /\ idb'[j] = idb[j]
      /\ UNCHANGED <<reads, relay>> /\ retrying' \subseteq retrying
  BY BaseOfSigned DEF Chat!loads
<1>2. /\ MaxTries \in Nat /\ tries \in [Texts -> 0 .. MaxTries] /\ tries[t] \in 0 .. MaxTries
      /\ retrying \subseteq Chat!Ids
      /\ \A u \in Texts, k \in 1 .. MaxTries : <<u, k>> \in Chat!Ids
  BY IdsOfTexts DEF ChatBase, ChatTyped, Chat!TypeOK, Chat!ChatStoreAssumption
<1>3. i \notin retrying
  BY <1>2 DEF ChatBase, Unseen
<1>4. \A j \in Chat!Ids : j # i /\ Nowhere(j) => Nowhere(j)'
  BY <1>1 DEF Nowhere
<1>5. ChatTaken'
  BY <1>1, <1>2, <1>3, <1>4 DEF Anew, ChatTaken
<1>6. Gone'
  <2> SUFFICES ASSUME NEW u \in Texts, NEW k \in 1 .. MaxTries, k < tries'[u], NoneTo(u, k)'
               PROVE  Nowhere(<<u, k>>)' /\ <<u, k>> \notin retrying'
    BY DEF Gone
  <2>1. NoneTo(u, k) /\ <<u, k>> \in Chat!Ids
    BY <1>1, <1>2 DEF NoneTo
  <2>2. <<u, k>> # i /\ k <= tries[u]
    <3>1. CASE u = t
      <4>1. k < tries[t] + 1
        BY <1>1, <1>2, <3>1
      <4> QED
        BY <1>2, <3>1, <4>1
    <3>2. CASE u # t
      <4>1. k < tries[u] /\ tries[u] \in Nat
        BY <1>1, <1>2, <3>2
      <4> QED
        BY <3>2, <4>1
    <3> QED
      BY <3>1, <3>2
  <2>3. CASE k < tries[u]
    BY <1>1, <1>4, <2>1, <2>2, <2>3 DEF Anew, Gone
  <2>4. CASE k = tries[u] /\ u = t
    <3>1. tries[t] # 0
      BY <2>4
    <3>2. PICK n \in 1 .. MaxTries : <<t, n>> \in retrying /\ retrying' = retrying \ {<<t, n>>}
      BY <3>1
    <3>3. n = k
      <4>1. n <= tries[t]
        BY <1>2, <3>2 DEF ChatBase, Unseen
      <4>2. CASE n < tries[t]
        <5>1. NoneTo(t, n)
          <6>1. \A j \in 1 .. n : j \in 1 .. k
            BY <2>4, <4>2
          <6> QED
            BY <2>1, <2>4, <6>1 DEF NoneTo
        <5> QED
          BY <3>2, <4>2, <5>1 DEF Anew, Gone
      <4> QED
        BY <1>2, <2>4, <4>1, <4>2
    <3>4. <<t, k>> \notin relay
      BY <2>1, <2>4 DEF NoneTo
    <3>5. Nowhere(<<t, k>>)
      BY <3>2, <3>3, <3>4 DEF Anew, ChatTaken
    <3> QED
      BY <1>4, <2>1, <2>2, <2>4, <3>2, <3>3, <3>5
  <2>5. CASE k = tries[u] /\ u # t
    <3>1. k < tries[u]
      BY <1>1, <1>2, <2>5
    <3> QED
      BY <1>2, <2>5, <3>1
  <2> QED
    BY <1>2, <2>2, <2>3, <2>4, <2>5
<1> QED
  BY <1>5, <1>6 DEF Anew

LEMMA AnewOfNext == ASSUME Chat!ChatStoreAssumption, ChatBase, Anew, ~SlowLoads, [Chat!Next]_(Chat!vars) PROVE Anew'
<1>1. CASE Chat!Enter \/ Chat!Read \/ Chat!loadFromIdb \/ Chat!Leave \/ Chat!Reload \/ UNCHANGED Chat!vars
  BY <1>1, AnewOfScreen
<1>2. ASSUME NEW t \in Texts, Chat!handleSend(t) PROVE Anew'
  <2>1. tries[t] < MaxTries /\ tries[t] = 0
    <3>1. tries[t] = 0 /\ MaxTries \in Nat \ {0}
      BY <1>2 DEF Chat!handleSend, Chat!ChatStoreAssumption
    <3> QED
      BY <3>1
  <2> QED
    BY <1>2, <2>1, AnewOfSigned DEF Chat!handleSend, Chat!sendChatMessage
<1>3. ASSUME NEW i \in Chat!Ids, Chat!RetrySigned(i) PROVE Anew'
  <2>1. i[1] \in Texts
    BY <1>3 DEF Chat!RetrySigned, ChatBase, ChatTyped
  <2>2. i = <<i[1], i[2]>> /\ i[2] \in 1 .. MaxTries
    BY <2>1, IdsOfTexts
  <2>3. \E n \in 1 .. MaxTries : <<i[1], n>> \in retrying /\ retrying' = retrying \ {<<i[1], n>>}
    BY <1>3, <2>2 DEF Chat!RetrySigned
  <2>4. tries[i[1]] < MaxTries /\ Chat!Signed(i[1]) /\ UNCHANGED <<open, Chat!loads, relay, enters, reloads>>
    BY <1>3 DEF Chat!RetrySigned
  <2> QED
    BY <2>1, <2>3, <2>4, AnewOfSigned
<1>4. ASSUME NEW m \in Theirs, Chat!TheyWrite(m) PROVE Anew'
  <2>1. relay \subseteq relay' /\ UNCHANGED <<chats, idb, reads, retrying, tries>>
    BY <1>4 DEF Chat!TheyWrite, Chat!store, Chat!loads, Chat!sends
  <2>2. \A i : Nowhere(i) => Nowhere(i)'
    BY <2>1 DEF Nowhere
  <2>3. \A u, k : NoneTo(u, k)' => NoneTo(u, k)
    BY <2>1 DEF NoneTo
  <2> QED
    BY <2>1, <2>2, <2>3 DEF Anew, ChatTaken, Gone
<1>5. ASSUME NEW i \in Chat!Ids,
             \/ Chat!handleRetry(i) \/ Chat!RetryNotSigned(i) \/ Chat!RelayTakes(i) \/ Chat!Published(i) \/ Chat!AckLost(i) \/ Chat!Echo(i)
      PROVE  Anew'
  BY <1>5, AnewOfOne
<1> QED
  BY <1>1, <1>2, <1>3, <1>4, <1>5 DEF Chat!Next

-----------------------------------------------------------------------------
\* The last signature of a text is in IndexedDB or being replaced, unless one was received.
Kept == \A t \in Texts : tries[t] > 0 /\ NoneTo(t, tries[t]) =>
  idb[<<t, tries[t]>>] # "none" \/ <<t, tries[t]>> \in retrying

LEMMA KeptOfNext ==
  ASSUME Chat!ChatStoreAssumption, ChatBase, Anew, Kept, ~SlowLoads, MaxReloads = 0, [Chat!Next]_(Chat!vars)
  PROVE  Kept'
<1>1. /\ MaxTries \in Nat \ {0} /\ tries \in [Texts -> 0 .. MaxTries] /\ idb \in [Chat!Ids -> Chat!Status] /\ retrying \subseteq Chat!Ids
      /\ \A t \in Texts, k \in 1 .. MaxTries : <<t, k>> \in Chat!Ids
      /\ reloads = 0
  BY DEF ChatBase, ChatTyped, Chat!TypeOK, Chat!ChatStoreAssumption, Chat!Ids
<1>2. ASSUME UNCHANGED <<idb, tries, retrying>>, relay \subseteq relay' PROVE Kept'
  BY <1>2 DEF Kept, NoneTo
<1>3. ASSUME NEW t \in Texts, tries[t] < MaxTries, Chat!Signed(t), UNCHANGED <<open, Chat!loads, relay, enters, reloads>>,
             NEW i, retrying' = retrying \/ (retrying' = retrying \ {i} /\ i[1] = t)
      PROVE  Kept'
  <2> DEFINE n == tries[t] + 1
  <2>1. retrying' \subseteq retrying
    BY <1>3
  <2>2. /\ tries' = [tries EXCEPT ![t] = @ + 1] /\ n \in 1 .. MaxTries
        /\ idb'[<<t, n>>] = "pending" /\ \A j \in Chat!Ids : j # <<t, n>> => idb'[j] = idb[j]
    BY <1>3, <2>1, BaseOfSigned
  <2>3. tries'[t] = n /\ \A u \in Texts : u # t => tries'[u] = tries[u]
    BY <1>1, <2>2
  <2> HIDE DEF n
  <2> SUFFICES ASSUME NEW u \in Texts, tries'[u] > 0, NoneTo(u, tries[u])'
               PROVE  idb'[<<u, tries'[u]>>] # "none" \/ <<u, tries'[u]>> \in retrying'
    BY DEF Kept
  <2>4. CASE u = t
    BY <2>2, <2>3, <2>4
  <2>5. CASE u # t
    <3>1. tries'[u] = tries[u] /\ tries[u] \in 1 .. MaxTries
      <4>1. tries'[u] = tries[u] /\ tries[u] > 0 /\ tries[u] \in 0 .. MaxTries
        BY <1>1, <2>3, <2>5
      <4> QED
        BY <1>1, <4>1
    <3>2. NoneTo(u, tries[u])
      BY <1>3, <3>1 DEF NoneTo
    <3>3. idb[<<u, tries[u]>>] # "none" \/ <<u, tries[u]>> \in retrying
      BY <3>1, <3>2 DEF Kept
    <3>4. <<u, tries[u]>> \in Chat!Ids /\ <<u, tries[u]>> # <<t, n>>
      BY <1>1, <2>5, <3>1
    <3>5. <<u, tries[u]>> \in retrying => <<u, tries[u]>> \in retrying'
      BY <1>3, <2>5
    <3> QED
      BY <2>2, <3>1, <3>3, <3>4, <3>5
  <2> QED
    BY <2>4, <2>5
<1>4. ASSUME NEW i \in Chat!Ids,
             \/ Chat!handleRetry(i) \/ Chat!RetryNotSigned(i) \/ Chat!RelayTakes(i) \/ Chat!Published(i) \/ Chat!AckLost(i) \/ Chat!Echo(i)
      PROVE  Kept'
  <2>1. tries' = tries /\ relay \subseteq relay'
    BY <1>4 DEF Chat!handleRetry, Chat!retryChatMessage, Chat!RetryNotSigned, Chat!RelayTakes, Chat!Published, Chat!AckLost, Chat!Echo, Chat!net, Chat!sends
  <2> SUFFICES ASSUME NEW u \in Texts, tries'[u] > 0, NoneTo(u, tries[u])'
               PROVE  idb'[<<u, tries'[u]>>] # "none" \/ <<u, tries'[u]>> \in retrying'
    BY DEF Kept
  <2> DEFINE j == <<u, tries[u]>>
  <2>2. tries[u] \in 1 .. MaxTries
    <3>1. tries[u] > 0 /\ tries[u] \in 0 .. MaxTries
      BY <1>1, <2>1
    <3> QED
      BY <1>1, <3>1
  <2>3. j \in Chat!Ids /\ NoneTo(u, tries[u])
    BY <1>1, <2>1, <2>2 DEF NoneTo
  <2>4. j \notin relay
    BY <2>2, <2>3 DEF NoneTo
  <2>5. idb[j] # "none" \/ j \in retrying
    BY <2>1, <2>3 DEF Kept
  <2> HIDE DEF j
  <2>7. CASE Chat!RetryNotSigned(i)
    <3>1. CASE j = i
      <4>1. chats[i] = "none"
        BY <2>4, <2>7, <3>1 DEF Chat!RetryNotSigned, Anew, ChatTaken, Nowhere
      <4>2. idb'[i] = "failed"
        BY <1>1, <2>7, <4>1 DEF Chat!RetryNotSigned, Chat!addMessage, Chat!Has
      <4> QED
        BY <2>1, <3>1, <4>2 DEF j
    <3>2. CASE j # i
      <4>1. idb'[j] = idb[j] /\ (j \in retrying => j \in retrying')
        BY <1>1, <2>3, <2>7, <3>2 DEF Chat!RetryNotSigned, Chat!addMessage, Chat!store
      <4> QED
        BY <2>1, <2>5, <4>1 DEF j
    <3> QED
      BY <3>1, <3>2
  <2>8. CASE Chat!RelayTakes(i) \/ Chat!Published(i) \/ Chat!AckLost(i) \/ Chat!Echo(i)
    <3>1. retrying' = retrying
      BY <2>8 DEF Chat!RelayTakes, Chat!Published, Chat!AckLost, Chat!Echo, Chat!sends
    <3>2. idb[j] # "none" => idb'[j] # "none"
      BY <1>1, <2>3, <2>8 DEF Chat!RelayTakes, Chat!Published, Chat!AckLost, Chat!Echo, Chat!addMessage, Chat!setMessageStatus, Chat!store, Chat!Outcome
    <3> QED
      BY <2>1, <2>5, <3>1, <3>2 DEF j
  <2>9. CASE Chat!handleRetry(i)
    <3>1. idb'[j] # "none" \/ j \in retrying'
      BY <1>1, <2>3, <2>5, <2>9 DEF Chat!handleRetry, Chat!retryChatMessage, Chat!removeMessage, Chat!store
    <3> QED
      BY <2>1, <3>1 DEF j
  <2> QED
    BY <1>4, <2>7, <2>8, <2>9
<1>5. CASE Chat!Enter \/ Chat!Read \/ Chat!loadFromIdb \/ Chat!Leave \/ UNCHANGED Chat!vars
  BY <1>2, <1>5 DEF Chat!Enter, Chat!Read, Chat!loadFromIdb, Chat!Leave, Chat!vars, Chat!store, Chat!net, Chat!sends
<1>6. ~Chat!Reload
  BY <1>1 DEF Chat!Reload
<1>7. ASSUME NEW t \in Texts, Chat!handleSend(t) PROVE Kept'
  <2>1. tries[t] < MaxTries
    <3>1. tries[t] = 0 /\ MaxTries \in Nat \ {0}
      BY <1>7 DEF Chat!handleSend, Chat!ChatStoreAssumption
    <3> QED
      BY <3>1
  <2> QED
    BY <1>3, <1>7, <2>1 DEF Chat!handleSend, Chat!sendChatMessage
<1>8. ASSUME NEW i \in Chat!Ids, Chat!RetrySigned(i) PROVE Kept'
  <2>1. i[1] \in Texts
    BY <1>8 DEF Chat!RetrySigned, ChatBase, ChatTyped
  <2> QED
    BY <1>3, <1>8, <2>1 DEF Chat!RetrySigned
<1>9. ASSUME NEW m \in Theirs, Chat!TheyWrite(m) PROVE Kept'
  BY <1>2, <1>9 DEF Chat!TheyWrite, Chat!store, Chat!sends
<1> QED
  BY <1>4, <1>5, <1>6, <1>7, <1>8, <1>9 DEF Chat!Next

-----------------------------------------------------------------------------
THEOREM BaseIsInvariant == ASSUME Chat!ChatStoreAssumption PROVE Chat!Spec => []ChatBase
<1>1. Chat!Init => ChatBase
  BY ChatBaseStarts
<1>2. ChatBase /\ [Chat!Next]_(Chat!vars) => ChatBase'
  BY BaseOfNext
<1> QED
  BY <1>1, <1>2, PTL DEF Chat!Spec

\* What the screen says of a message is so, and with its loads done it has everything the
\* device has (chat-store.ts, chat-send.ts), for any number of texts, tries, openings and reloads.
THEOREM ScreenIsTrue == ASSUME Chat!ChatStoreAssumption PROVE Chat!Spec => [](Chat!TypeOK /\ Chat!SentIsThere /\ Chat!ScreenIsWhole)
<1>1. ChatBase => Chat!TypeOK /\ Chat!SentIsThere /\ Chat!ScreenIsWhole
  BY DEF ChatBase, ChatTyped, Loaded, Chat!ScreenIsWhole, Chat!Quiet
<1> QED
  BY <1>1, BaseIsInvariant, PTL

\* A message that failed and was signed anew does not come back beside its successor
\* (chat-send.ts 63-64), when no load is on its way at the press of the button.
THEOREM RetryLeavesOne ==
  ASSUME Chat!ChatStoreAssumption, ~SlowLoads
  PROVE  Chat!Spec => [](ChatBase /\ Anew) /\ []Chat!RetriedIsGone
<1>1. Chat!Init => ChatBase /\ Anew
  <2>1. Chat!Init => Anew
    BY DEF Chat!Init, Anew, ChatTaken, Gone
  <2> QED
    BY <2>1, ChatBaseStarts
<1>2. ChatBase /\ Anew /\ [Chat!Next]_(Chat!vars) => ChatBase' /\ Anew'
  BY BaseOfNext, AnewOfNext
<1>3. ChatBase /\ Anew => Chat!RetriedIsGone
  <2> SUFFICES ASSUME ChatBase, Anew, NEW t \in Texts, NEW k \in 1 .. MaxTries, NEW n \in 1 .. MaxTries,
                      k < n, Chat!Has(<<t, k>>), Chat!Has(<<t, n>>)
               PROVE  \E j \in 1 .. k : <<t, j>> \in relay
    BY DEF Chat!RetriedIsGone
  <2>1. MaxTries \in Nat /\ tries[t] \in 0 .. MaxTries
    BY DEF ChatBase, ChatTyped, Chat!TypeOK, Chat!ChatStoreAssumption
  <2>2. ~(n > tries[t])
    BY DEF ChatBase, Unseen, Chat!Has
  <2>3. k < tries[t]
    BY <2>1, <2>2
  <2>4. ~NoneTo(t, k)
    BY <2>3 DEF Anew, Gone, Nowhere, Chat!Has
  <2> QED
    BY <2>4 DEF NoneTo
<1> QED
  BY <1>1, <1>2, <1>3, PTL DEF Chat!Spec

\* A text that was written is with a relay, in IndexedDB, being published or being signed anew
\* (chat-send.ts 73), as long as the tab is not closed while a retry waits for its signature.
THEOREM TextsAreKept ==
  ASSUME Chat!ChatStoreAssumption, ~SlowLoads, MaxReloads = 0
  PROVE  Chat!Spec => []Chat!NoneForgotten
<1>1. Chat!Init => Kept
  BY DEF Chat!Init, Kept
<1>2. ChatBase /\ Anew /\ Kept /\ [Chat!Next]_(Chat!vars) => Kept'
  BY KeptOfNext
<1>3. ChatBase /\ Kept => Chat!NoneForgotten
  <2> SUFFICES ASSUME ChatBase, Kept, NEW t \in Texts, tries[t] > 0
               PROVE  \E k \in 1 .. MaxTries :
                        <<t, k>> \in relay \cup flying \cup retrying \/ idb[<<t, k>>] # "none"
    BY DEF Chat!NoneForgotten
  <2>1. MaxTries \in Nat /\ tries[t] \in 0 .. MaxTries
    BY DEF ChatBase, ChatTyped, Chat!TypeOK, Chat!ChatStoreAssumption
  <2>2. tries[t] \in 1 .. MaxTries
    BY <2>1
  <2>3. CASE NoneTo(t, tries[t])
    BY <2>2, <2>3 DEF Kept
  <2>4. CASE ~NoneTo(t, tries[t])
    <3>1. PICK j \in 1 .. tries[t] : <<t, j>> \in relay
      BY <2>4 DEF NoneTo
    <3>2. j \in 1 .. MaxTries
      BY <2>1, <3>1
    <3> QED
      BY <3>1, <3>2
  <2> QED
    BY <2>3, <2>4
<1> QED
  BY <1>1, <1>2, <1>3, RetryLeavesOne, PTL DEF Chat!Spec

-----------------------------------------------------------------------------
(* ChatCall. *)

Event == [kind : {"peer", "text", "call"}, from : Call!Parties, key : Sponsors \cup {NoOne}]

\* A key is of a conversation of the customer with its sponsor.
Keyed == \A n \in DOMAIN sent :
  /\ sent[n].kind = "peer" => sent[n].key # NoOne
  /\ sent[n].key # NoOne => sent[n].from \in {Customer, sent[n].key}

\* The quiet window of the operators began when they were rung.
Rung == dmAt # Call!Never => dmAt \in dms

CallInv == Call!TypeOK /\ sent \in Seq(Event) /\ Keyed /\ Rung /\ Call!NobodyWaitsUnrung

LEMMA Constants ==
  ASSUME Call!ChatCallAssumption
  PROVE  /\ CHAT_DM_QUIET_SEC \in Nat \ {0} /\ PEER_PUSH_QUIET_SEC \in Nat \ {0}
         /\ MaxTime \in Nat /\ MaxEvents \in Nat /\ MaxReplacements \in Nat
         /\ Call!Never \in Int /\ Call!Never < 0
         /\ NoOne \notin Call!Parties /\ Customer \notin Sponsors /\ Customer \in Call!Parties /\ Sponsors \subseteq Call!Parties
<1>1. CHAT_DM_QUIET_SEC \in Nat \ {0} /\ PEER_PUSH_QUIET_SEC \in Nat \ {0}
  BY DEF Call!ChatCallAssumption
<1>2. Call!Never \in Int /\ Call!Never < 0
  BY <1>1 DEF Call!Never
<1> QED
  BY <1>1, <1>2 DEF Call!ChatCallAssumption, Call!Parties

LEMMA CallStarts == ASSUME Call!ChatCallAssumption PROVE Call!Init => CallInv
<1> SUFFICES ASSUME Call!Init PROVE CallInv
  OBVIOUS
<1>1. sent = <<>> /\ DOMAIN sent = {} /\ sent \in Seq(Event)
  BY DEF Call!Init
<1>2. now = 0 /\ now \in 0 .. MaxTime /\ replaced \in 0 .. MaxReplacements
  BY Constants DEF Call!Init
<1>3. Call!TypeOK
  <2>1. first \in [Sponsors -> {"none", "rang", "silent"}]
    BY DEF Call!Init
  <2> QED
    BY <1>1, <1>2, <2>1 DEF Call!Init, Call!TypeOK
<1> QED
  BY <1>1, <1>3 DEF Call!Init, CallInv, Keyed, Rung, Call!NobodyWaitsUnrung

LEMMA RolesAreParties ==
  ASSUME Call!ChatCallAssumption, sponsor \in Sponsors \cup {NoOne}
  PROVE  Call!Roles \subseteq Call!Parties
BY Constants DEF Call!Roles, Call!Parties

\* A party's app sends an event.
LEMMA CallOfSend ==
  ASSUME Call!ChatCallAssumption, CallInv, NEW p \in Call!Parties, Call!sendPeer(p) \/ Call!sendOperator(p) \/ Call!call(p)
  PROVE  /\ CallInv' /\ UNCHANGED <<now, sponsor, replaced, handled, Call!kv, copies, called, seen, written, Call!history>>
         /\ \E kind \in {"peer", "text", "call"}, pk \in {NoOne, sponsor} :
              sent' = Append(sent, [kind |-> kind, from |-> p, key |-> pk])
<1>1. PICK kind \in {"peer", "text", "call"}, pk \in {NoOne, sponsor} :
        Call!Send(kind, p, pk) /\ (kind = "peer" => pk = sponsor /\ Call!Other(p) # NoOne)
  BY DEF Call!sendPeer, Call!sendOperator, Call!call, Call!peerKey
<1> DEFINE e == [kind |-> kind, from |-> p, key |-> pk]
<1>2. sponsor \in Sponsors \cup {NoOne} /\ sent \in Seq(Event)
  BY DEF CallInv, Call!TypeOK
<1>3. /\ sent' = Append(sent, e) /\ p \in Call!Roles
      /\ UNCHANGED <<now, sponsor, replaced, handled, Call!kv, copies, called, seen, written, Call!history>>
  BY <1>1 DEF Call!Send
<1>4. e \in Event
  BY <1>2 DEF Event
<1>5. /\ pk # NoOne => p \in {Customer, pk}
      /\ kind = "peer" => pk # NoOne
  <2>1. p \in {Customer, sponsor}
    BY <1>3 DEF Call!Roles
  <2>2. kind = "peer" => sponsor # NoOne
    <3>1. p # Customer => p = sponsor /\ p # NoOne
      BY <1>3, <2>1 DEF Call!Roles
    <3> QED
      BY <1>1, <3>1 DEF Call!Other
  <2> QED
    BY <1>1, <2>1, <2>2
<1>6. /\ sent' \in Seq(Event) /\ DOMAIN sent \subseteq DOMAIN sent'
      /\ \A n \in DOMAIN sent' : sent'[n] = IF n \in DOMAIN sent THEN sent[n] ELSE e
  BY <1>2, <1>3, <1>4
<1>7. Keyed'
  <2> SUFFICES ASSUME NEW n \in DOMAIN sent'
               PROVE  /\ sent'[n].kind = "peer" => sent'[n].key # NoOne
                      /\ sent'[n].key # NoOne => sent'[n].from \in {Customer, sent'[n].key}
    BY DEF Keyed
  <2>1. CASE n \in DOMAIN sent
    BY <1>6, <2>1 DEF CallInv, Keyed
  <2>2. CASE n \notin DOMAIN sent
    BY <1>5, <1>6, <2>2
  <2> QED
    BY <2>1, <2>2
<1>8. \A n \in DOMAIN sent' : sent'[n] \in Event
  BY <1>6
<1>9. Call!TypeOK'
  BY <1>3, <1>6, <1>8 DEF CallInv, Call!TypeOK, Event, Call!kv, Call!history
<1>10. Rung' /\ Call!NobodyWaitsUnrung'
  BY <1>3 DEF CallInv, Rung, Call!NobodyWaitsUnrung, Call!kv, Call!history
<1> QED
  BY <1>1, <1>3, <1>6, <1>7, <1>9, <1>10 DEF CallInv

\* The daemon handles an event of its inbox.
LEMMA CallOfHandle ==
  ASSUME Call!ChatCallAssumption, CallInv, NEW n \in DOMAIN sent \ handled, handled' = handled \cup {n},
         Call!chatForwarder(n) \/ Call!peerPinger(n), UNCHANGED <<now, sponsor, replaced, sent, seen, written>>
  PROVE  CallInv'
<1>1. /\ now \in 0 .. MaxTime /\ sponsor \in Sponsors \cup {NoOne} /\ sent[n] \in Event
      /\ dmAt \in {Call!Never} \cup 0 .. now /\ peerLast \in {Call!Never} \cup 0 .. now
      /\ dms \subseteq 0 .. now /\ waits \subseteq 0 .. now
      /\ first \in [Sponsors -> {"none", "rang", "silent"}]
      /\ seen \subseteq called /\ called \subseteq Call!Parties /\ (disclosed <=> called # {}) /\ disclosed \in BOOLEAN
  BY DEF CallInv, Call!TypeOK
<1>2. now \in 0 .. now /\ now \in Nat
  BY <1>1, Constants
\* The bell.
<1>3. /\ dmAt' \in {Call!Never} \cup 0 .. now /\ dms' \subseteq 0 .. now /\ waits' \subseteq 0 .. now
      /\ Rung' /\ Call!NobodyWaitsUnrung'
  <2>1. CASE UNCHANGED <<dmAt, dms, waits>>
    BY <1>1, <2>1 DEF CallInv, Rung, Call!NobodyWaitsUnrung
  <2>2. CASE waits' = waits \cup {now} /\ (Call!dmOperators \/ Call!callOperators)
    <3>1. CASE dmAt' = now /\ dms' = dms \cup {now}
      <4>1. dmAt' \in {Call!Never} \cup 0 .. now /\ dms' \subseteq 0 .. now /\ waits' \subseteq 0 .. now /\ Rung'
        BY <1>1, <1>2, <2>2, <3>1 DEF Rung
      <4>2. now <= now /\ now - now < CHAT_DM_QUIET_SEC
        BY <1>2, Constants
      <4>3. Call!NobodyWaitsUnrung'
        BY <2>2, <3>1, <4>2 DEF CallInv, Call!NobodyWaitsUnrung
      <4> QED
        BY <4>1, <4>3
    <3>2. CASE UNCHANGED <<dmAt, dms>> /\ now - dmAt < CHAT_DM_QUIET_SEC
      <4>1. dmAt # Call!Never
        <5>1. ~(now - Call!Never < CHAT_DM_QUIET_SEC)
          BY <1>2, Constants DEF Call!Never
        <5> QED
          BY <3>2, <5>1
      <4>2. dmAt \in dms /\ dmAt <= now
        BY <1>1, <1>2, <4>1 DEF CallInv, Rung
      <4>3. Call!NobodyWaitsUnrung'
        BY <2>2, <3>2, <4>2 DEF CallInv, Call!NobodyWaitsUnrung
      <4> QED
        BY <1>1, <1>2, <2>2, <3>2, <4>3 DEF CallInv, Rung
    <3> QED
      BY <2>2, <3>1, <3>2 DEF Call!dmOperators, Call!callOperators
  <2> QED
    BY <2>1, <2>2 DEF Call!chatForwarder, Call!peerPinger
\* The signal to the other party.
<1>4. called' \subseteq Call!Parties /\ called \subseteq called' /\ disclosed' \in BOOLEAN /\ (disclosed' <=> called' # {})
  <2>1. CASE UNCHANGED <<disclosed, called>>
    BY <1>1, <2>1
  <2>2. CASE sent[n].from \in Call!Roles /\ Call!tellCounterparty(sent[n].from, sent[n].key)
    <3>1. Call!Other(sent[n].from) # NoOne => Call!Other(sent[n].from) \in Call!Parties
      BY <1>1, Constants DEF Call!Other
    <3> QED
      BY <1>1, <2>2, <3>1 DEF Call!tellCounterparty
  <2> QED
    BY <2>1, <2>2 DEF Call!chatForwarder, Call!peerPinger
<1>5. copies' \subseteq copies \cup {n}
  BY DEF Call!chatForwarder, Call!peerPinger, Call!forwardToOperators
\* The other party's phone.
<1>6. /\ peerLast' \in {Call!Never} \cup 0 .. now /\ first' \in [Sponsors -> {"none", "rang", "silent"}]
  <2>1. CASE UNCHANGED <<peerLast, first>>
    BY <1>1, <2>1
  <2>2. CASE /\ peerLast' = now
             /\ first' = [first EXCEPT ![sponsor] = IF @ # "none" THEN @ ELSE IF Call!rings THEN "rang" ELSE "silent"]
    BY <1>1, <1>2, <2>2
  <2> QED
    BY <2>1, <2>2 DEF Call!chatForwarder, Call!peerPinger
<1>7. Call!TypeOK'
  <2>1. copies' \subseteq handled' /\ handled' \subseteq DOMAIN sent'
    BY <1>5 DEF CallInv, Call!TypeOK
  <2>2. seen' \subseteq called'
    BY <1>1, <1>4
  <2> QED
    BY <1>3, <1>4, <1>6, <2>1, <2>2 DEF CallInv, Call!TypeOK
<1>8. Keyed' /\ sent' \in Seq(Event)
  BY DEF CallInv, Keyed
<1> QED
  BY <1>3, <1>7, <1>8 DEF CallInv

\* The rest leaves what was sent and what was rung alone.
LEMMA CallOfRest ==
  ASSUME Call!ChatCallAssumption, CallInv,
         \/ \E p \in Call!Parties : Call!Signal(p) \/ Call!chatSend(p)
         \/ (\E s \in Sponsors : Call!Claim(s)) \/ Call!revertClaim \/ Call!Elapse \/ UNCHANGED Call!vars
  PROVE  CallInv' /\ UNCHANGED <<sent, handled, Call!kv, copies, called, Call!history>>
<1>1. UNCHANGED <<sent, handled, dmAt, disclosed, peerLast, copies, called, dms, waits, first>>
  BY DEF Call!Signal, Call!chatSend, Call!Claim, Call!revertClaim, Call!Elapse, Call!vars, Call!kv, Call!history
<1>2. /\ now \in Nat /\ now' \in Nat /\ now <= now' /\ now' \in 0 .. MaxTime /\ sponsor' \in Sponsors \cup {NoOne}
      /\ replaced' \in 0 .. MaxReplacements
  <2>1. now \in 0 .. MaxTime /\ sponsor \in Sponsors \cup {NoOne} /\ replaced \in 0 .. MaxReplacements
    BY DEF CallInv, Call!TypeOK
  <2>2. CASE Call!Elapse
    BY <2>1, <2>2, Constants DEF Call!Elapse
  <2>3. CASE Call!revertClaim
    BY <2>1, <2>3, Constants DEF Call!revertClaim
  <2>4. CASE (\E p \in Call!Parties : Call!Signal(p) \/ Call!chatSend(p)) \/ (\E s \in Sponsors : Call!Claim(s)) \/ UNCHANGED Call!vars
    <3>1. UNCHANGED <<now, replaced>> /\ (sponsor' = sponsor \/ sponsor' \in Sponsors)
      BY <2>4 DEF Call!Signal, Call!chatSend, Call!Claim, Call!vars
    <3> QED
      BY <2>1, <3>1, Constants
  <2> QED
    BY <2>2, <2>3, <2>4
<1>3. seen' \subseteq called /\ written' \subseteq Call!Parties
  <2>1. seen \subseteq called /\ written \subseteq Call!Parties /\ Call!Roles \subseteq Call!Parties
    BY RolesAreParties DEF CallInv, Call!TypeOK
  <2> QED
    BY <2>1 DEF Call!Signal, Call!chatSend, Call!sendAsApp, Call!Claim, Call!revertClaim, Call!Elapse, Call!vars
<1>4. Call!TypeOK'
  <2>1. \A x \in 0 .. now : x \in 0 .. now'
    BY <1>2
  <2>2. /\ dmAt \in {Call!Never} \cup 0 .. now /\ peerLast \in {Call!Never} \cup 0 .. now /\ dms \subseteq 0 .. now /\ waits \subseteq 0 .. now
    BY DEF CallInv, Call!TypeOK
  <2>3. /\ dmAt' \in {Call!Never} \cup 0 .. now' /\ peerLast' \in {Call!Never} \cup 0 .. now' /\ dms' \subseteq 0 .. now' /\ waits' \subseteq 0 .. now'
    BY <1>1, <2>1, <2>2
  <2> QED
    BY <1>1, <1>2, <1>3, <2>3 DEF CallInv, Call!TypeOK
<1>5. Keyed' /\ Rung' /\ Call!NobodyWaitsUnrung' /\ sent' \in Seq(Event)
  BY <1>1 DEF CallInv, Keyed, Rung, Call!NobodyWaitsUnrung
<1> QED
  BY <1>1, <1>4, <1>5 DEF CallInv, Call!kv, Call!history

LEMMA CallOfNext == ASSUME Call!ChatCallAssumption, CallInv, [Call!Next]_(Call!vars) PROVE CallInv'
<1>1. CASE \E p \in Call!Parties : Call!sendPeer(p) \/ Call!sendOperator(p) \/ Call!call(p)
  BY <1>1, CallOfSend
<1>2. CASE Call!Handle
  BY <1>2, CallOfHandle DEF Call!Handle
<1> QED
  BY <1>1, <1>2, CallOfRest DEF Call!Next

-----------------------------------------------------------------------------
\* The key the operators read with is the key of a call that was copied to them.
LEMMA DisclosureIsOne ==
  ASSUME CallInv, Call!Disclosures # {}
  PROVE  \E m \in Call!Disclosures : Call!disclosure = sent[m].key
<1>1. Call!Disclosures \subseteq Nat
  <2>1. Call!Disclosures \subseteq DOMAIN sent /\ sent \in Seq(Event)
    BY DEF Call!Disclosures, CallInv, Call!TypeOK
  <2> QED
    BY <2>1
<1>2. \E x \in Call!Disclosures : \A y \in Call!Disclosures : x <= y
  BY <1>1, Least
<1> DEFINE m == CHOOSE n \in Call!Disclosures : \A k \in Call!Disclosures : n <= k
<1>3. m \in Call!Disclosures
  BY <1>2
<1>4. Call!disclosure = sent[m].key
  BY DEF Call!disclosure
<1> QED
  BY <1>3, <1>4

-----------------------------------------------------------------------------
(* One sponsor. *)

\* While no claim is taken back, every key and every signal is of the order's two parties, and
\* the first message between them finds a quiet conversation.
OneSponsor ==
  /\ \A n \in DOMAIN sent : sent[n].key \in {NoOne, sponsor}
  /\ called # {} => sponsor # NoOne /\ Call!Disclosures # {}
  /\ peerLast # Call!Never => sponsor # NoOne /\ first[sponsor] # "none"
  /\ Call!FirstRings

LEMMA OneSponsorOfNext ==
  ASSUME Call!ChatCallAssumption, MaxReplacements = 0, CallInv, OneSponsor, [Call!Next]_(Call!vars)
  PROVE  OneSponsor'
<1>1. /\ replaced = 0 /\ sponsor \in Sponsors \cup {NoOne} /\ sent \in Seq(Event) /\ copies \subseteq DOMAIN sent
      /\ first \in [Sponsors -> {"none", "rang", "silent"}] /\ now \in Nat /\ NoOne \notin Sponsors
  BY Constants DEF CallInv, Call!TypeOK, Call!Parties
<1>2. CASE \E p \in Call!Parties : Call!sendPeer(p) \/ Call!sendOperator(p) \/ Call!call(p)
  <2>1. PICK p \in Call!Parties : Call!sendPeer(p) \/ Call!sendOperator(p) \/ Call!call(p)
    BY <1>2
  <2>2. PICK kind \in {"peer", "text", "call"}, pk \in {NoOne, sponsor} :
           sent' = Append(sent, [kind |-> kind, from |-> p, key |-> pk])
    BY <2>1, CallOfSend
  <2>3. UNCHANGED <<sponsor, copies, called, peerLast, first>>
    BY <2>1, CallOfSend DEF Call!kv, Call!history
  <2>4. /\ DOMAIN sent \subseteq DOMAIN sent' /\ \A n \in DOMAIN sent : sent'[n] = sent[n]
        /\ \A n \in DOMAIN sent' : sent'[n].key \in {NoOne, sponsor}
    BY <1>1, <2>2 DEF OneSponsor
  <2>5. Call!Disclosures \subseteq Call!Disclosures'
    BY <1>1, <2>3, <2>4 DEF Call!Disclosures, Call!Roles
  <2> QED
    BY <2>3, <2>4, <2>5 DEF OneSponsor, Call!FirstRings
<1>3. CASE Call!Handle
  <2>1. PICK n \in DOMAIN sent \ handled :
          (Call!chatForwarder(n) \/ Call!peerPinger(n)) /\ UNCHANGED <<now, sponsor, replaced, sent, seen, written>>
    BY <1>3 DEF Call!Handle
  <2>2. copies \subseteq copies'
    BY <2>1 DEF Call!chatForwarder, Call!peerPinger, Call!forwardToOperators
  <2>3. Call!Disclosures \subseteq Call!Disclosures'
    BY <2>1, <2>2 DEF Call!Disclosures, Call!Roles
  <2>4. called' # {} => sponsor # NoOne /\ Call!Disclosures' # {}
    <3>1. CASE called' = called
      BY <2>3, <3>1 DEF OneSponsor
    <3>2. CASE called' # called
      <4>1. /\ sent[n].kind = "call" /\ sent[n].key # NoOne /\ sent[n].from \in Call!Roles /\ n \in copies'
        BY <2>1, <3>2 DEF Call!chatForwarder, Call!peerPinger, Call!tellCounterparty, Call!forwardToOperators
      <4>2. n \in Call!Disclosures'
        BY <2>1, <4>1 DEF Call!Disclosures, Call!Roles
      <4>3. sponsor # NoOne
        BY <2>1, <4>1 DEF OneSponsor
      <4> QED
        BY <4>2, <4>3
    <3> QED
      BY <3>1, <3>2
  <2>5. (peerLast' # Call!Never => sponsor # NoOne /\ first'[sponsor] # "none") /\ Call!FirstRings'
    <3>1. CASE UNCHANGED <<peerLast, first>>
      BY <3>1 DEF OneSponsor, Call!FirstRings
    <3>2. CASE /\ sent[n].from \in Call!Roles /\ Call!Other(sent[n].from) # NoOne /\ peerLast' = now
               /\ first' = [first EXCEPT ![sponsor] = IF @ # "none" THEN @ ELSE IF Call!rings THEN "rang" ELSE "silent"]
      <4>1. sponsor # NoOne /\ sponsor \in Sponsors
        BY <1>1, <3>2 DEF Call!Roles, Call!Other
      <4>2. first[sponsor] = "none" => Call!rings
        <5>1. now - Call!Never >= PEER_PUSH_QUIET_SEC
          BY <1>1, Constants DEF Call!Never
        <5> QED
          BY <5>1 DEF OneSponsor, Call!rings
      <4> QED
        BY <1>1, <3>2, <4>1, <4>2 DEF OneSponsor, Call!FirstRings
    <3> QED
      BY <2>1, <3>1, <3>2 DEF Call!chatForwarder, Call!peerPinger
  <2> QED
    BY <2>1, <2>4, <2>5 DEF OneSponsor
<1>4. CASE \/ \E p \in Call!Parties : Call!Signal(p) \/ Call!chatSend(p)
           \/ (\E s \in Sponsors : Call!Claim(s)) \/ Call!Elapse \/ UNCHANGED Call!vars
  <2>1. UNCHANGED <<sent, peerLast, copies, called, first>>
    BY <1>4, CallOfRest DEF Call!kv, Call!history
  <2>2. sponsor' = sponsor \/ sponsor = NoOne
    BY <1>4 DEF Call!Signal, Call!chatSend, Call!Claim, Call!Elapse, Call!vars
  <2>3. Call!Disclosures \subseteq Call!Disclosures'
    BY <2>1, <2>2 DEF Call!Disclosures, Call!Roles
  <2>4. \A n \in DOMAIN sent : sent[n].key \in {NoOne, sponsor'}
    BY <2>2 DEF OneSponsor
  <2>5. peerLast # Call!Never \/ called # {} => sponsor' = sponsor
    BY <2>2 DEF OneSponsor
  <2> QED
    BY <2>1, <2>3, <2>4, <2>5 DEF OneSponsor, Call!FirstRings
<1>5. ~Call!revertClaim
  BY <1>1 DEF Call!revertClaim
<1> QED
  BY <1>2, <1>3, <1>4, <1>5 DEF Call!Next

-----------------------------------------------------------------------------
THEOREM CallIsInvariant == ASSUME Call!ChatCallAssumption PROVE Call!Spec => []CallInv
<1>1. Call!Init => CallInv
  BY CallStarts
<1>2. CallInv /\ [Call!Next]_(Call!vars) => CallInv'
  BY CallOfNext
<1> QED
  BY <1>1, <1>2, PTL DEF Call!Spec

\* What the operators read of the parties' own conversation was written between two people one
\* of whom called (PLAN-PEER-CHAT 4.2), however often claims are taken back.
THEOREM CallOpensOne == ASSUME Call!ChatCallAssumption PROVE Call!Spec => []Call!PrivateUntilCalled
<1>1. CallInv => Call!PrivateUntilCalled
  <2> SUFFICES ASSUME CallInv, NEW n \in Call!Transcript
               PROVE  \E m \in copies :
                        /\ sent[m].kind = "call" /\ sent[m].from \in {Customer, sponsor}
                        /\ {sent[n].from, sent[m].from} \subseteq {Customer, sent[n].key}
                        /\ sent[m].key = sent[n].key
    BY DEF Call!PrivateUntilCalled
  <2>1. n \in DOMAIN sent /\ Call!disclosure # NoOne /\ sent[n].key = Call!disclosure
    BY DEF Call!Transcript, Call!openPeerMessage
  <2>2. Call!Disclosures # {}
    BY <2>1 DEF Call!disclosure
  <2>3. PICK m \in Call!Disclosures : Call!disclosure = sent[m].key
    BY <2>2, DisclosureIsOne
  <2>4. m \in copies /\ m \in DOMAIN sent /\ sent[m].kind = "call" /\ sent[m].from \in Call!Roles
    BY <2>3 DEF Call!Disclosures, CallInv, Call!TypeOK
  <2>5. sent[m].from \in {Customer, sent[m].key} /\ sent[n].from \in {Customer, sent[n].key}
    BY <2>1, <2>3, <2>4 DEF CallInv, Keyed
  <2> QED
    BY <2>1, <2>3, <2>4, <2>5 DEF Call!Roles
<1> QED
  BY <1>1, CallIsInvariant, PTL

\* Nobody who wrote to the operators, or called, waits unrung: their phones rang then, or a quiet
\* window before it at most (daemon/src/admin/chat.ts 35-39).
THEOREM CallsRing == ASSUME Call!ChatCallAssumption PROVE Call!Spec => [](Call!TypeOK /\ Call!NobodyWaitsUnrung)
<1>1. CallInv => Call!TypeOK /\ Call!NobodyWaitsUnrung
  BY DEF CallInv
<1> QED
  BY <1>1, CallIsInvariant, PTL

\* While no claim is taken back the first message between two people rings (peer-chat.ts 10), and
\* a party can write to the operator, or call, or the operator reads its conversation
\* (TradeChat.tsx 146-150).
THEOREM PartyHasAWay ==
  ASSUME Call!ChatCallAssumption, MaxReplacements = 0
  PROVE  Call!Spec => [](Call!FirstRings /\ Call!HasAWay)
<1>1. Call!Init => OneSponsor
  BY DEF Call!Init, OneSponsor, Call!FirstRings
<1>2. CallInv /\ OneSponsor /\ [Call!Next]_(Call!vars) => OneSponsor'
  BY OneSponsorOfNext
<1>3. CallInv /\ OneSponsor => Call!FirstRings /\ Call!HasAWay
  <2> SUFFICES ASSUME CallInv, OneSponsor, sponsor # NoOne, NEW p \in Call!Roles, ~Call!operatorMessages(p), ~Call!showCall(p)
               PROVE  Call!disclosure = sponsor
    BY DEF Call!HasAWay, OneSponsor
  <2>1. p \in seen
    BY DEF Call!showCall, Call!operatorMessages, Call!disclosedBy
  <2>2. Call!Disclosures # {}
    BY <2>1 DEF OneSponsor, CallInv, Call!TypeOK
  <2>3. PICK m \in Call!Disclosures : Call!disclosure = sent[m].key
    BY <2>2, DisclosureIsOne
  <2>4. m \in DOMAIN sent /\ sent[m].key # NoOne
    BY <2>3 DEF Call!Disclosures, CallInv, Call!TypeOK
  <2> QED
    BY <2>3, <2>4 DEF OneSponsor
<1> QED
  BY <1>1, <1>2, <1>3, CallIsInvariant, PTL DEF Call!Spec

-----------------------------------------------------------------------------
(* DepositNotices. *)

DepositStatuses == {"accepted"} \cup Dep!Ended
States == Dep!Live \cup Dep!Ended \cup {"none"}
View == [bolt11 : Nat, at : Nat, status : {""} \cup DepositStatuses, statusAt : Nat]
Note == [n : Nat, kind : {"required"} \cup DepositStatuses, at : Nat]

DepositTyped == /\ Dep!TypeOK
                /\ row \in [Dep!Claims -> States] /\ view \in View
                /\ notices \subseteq Note /\ \A e \in notices : e.n \in 1 .. claims /\ e.at \in 1 .. now

\* The order of the notices: dated apart, those of a claim before those of a later one, and of
\* one claim the invoice first and the end last.
Dated == \A e, f \in notices : e.at = f.at => e = f
Ranked == \A e, f \in notices : e.n < f.n => e.at < f.at
OneEach == \A e, f \in notices : e.n = f.n /\ e.kind = f.kind => e = f
InvoiceFirst == \A e \in notices : \E r \in notices : r.n = e.n /\ r.kind = "required" /\ r.at <= e.at
EndLast == \A e, f \in notices : e.n = f.n /\ e.kind \in Dep!Ended => f.at <= e.at
Ordered == Dated /\ Ranked /\ OneEach /\ InvoiceFirst /\ EndLast

\* What the invoices are and what the notices say of them.
Noted == \A e \in notices :
  /\ row[e.n] \notin {"none", "planned"}
  /\ e.kind \in DepositStatuses => row[e.n] # "open"
  /\ e.kind \in Dep!Ended => row[e.n] = e.kind
  /\ e.kind = "accepted" =>
       /\ e.n \in paid
       /\ row[e.n] = "accepted" \/ \E f \in notices : f.n = e.n /\ f.kind = row[e.n]
OpenIsNoted == \A n \in Dep!Claims : row[n] \in {"open", "accepted"} => \E r \in notices : r.n = n /\ r.kind = "required"
LiveIsLast == \A n \in Dep!Claims : row[n] \in Dep!Live => (claim = n \/ n \in disposing) /\ \A e \in notices : e.n <= n
Undone == /\ \A n \in disposing : row[n] \in Dep!Live /\ claim # n
          /\ claim # 0 => claim = claims
Books == Noted /\ OpenIsNoted /\ LiveIsLast /\ Undone

\* What the store has: the latest invoice that was heard of, and a status that is not older.
Shown == /\ view.bolt11 = 0 => view.at = 0
         /\ view.bolt11 # 0 => \E r \in notices : r.kind = "required" /\ r.n = view.bolt11 /\ r.at = view.at
         /\ view.status = "" => view.statusAt = 0
         /\ view.status # "" => /\ view.statusAt >= view.at
                                /\ \E s \in notices : s.kind = view.status /\ s.at = view.statusAt
InvoicesHeard == \A e \in heard : e.kind = "required" => e.at <= view.at
StatusesHeard == \A e \in heard : e.kind \in DepositStatuses /\ e.at >= view.at /\ e.n \in paid => view.statusAt >= e.at
\* Who has paid an invoice was shown it.
PaidIsShown == \A n \in paid : \E r \in notices : r.n = n /\ r.kind = "required" /\ r.at <= view.at
Viewed == Shown /\ InvoicesHeard /\ StatusesHeard /\ PaidIsShown

Inv == DepositTyped /\ Ordered /\ Books /\ Viewed

-----------------------------------------------------------------------------
LEMMA Strings ==
  /\ "required" \notin DepositStatuses /\ "accepted" \notin Dep!Ended /\ "" \notin DepositStatuses
  /\ {"accepted"} \subseteq Dep!Live /\ Dep!Live \cap Dep!Ended = {} /\ "none" \notin Dep!Live \cup Dep!Ended
  /\ DepositStatuses = {"accepted", "cancelled", "settled"}
BY DEF DepositStatuses, Dep!Ended, Dep!Live

LEMMA TypedStarts == ASSUME Dep!DepositNoticesAssumption PROVE Dep!Init => DepositTyped
<1> SUFFICES ASSUME Dep!Init PROVE DepositTyped
  OBVIOUS
<1>1. MaxClaims \in Nat /\ MaxTime \in Nat \ {0} /\ MaxReloads \in Nat
  BY DEF Dep!DepositNoticesAssumption
<1>2. now = 1 /\ claim = 0 /\ claims = 0
  BY DEF Dep!Init
<1>3. \A n \in Dep!Claims : row[n] = "none" /\ ~(n <= 0)
  <2>1. \A n \in Dep!Claims : ~(n <= 0)
    BY <1>1 DEF Dep!Claims
  <2>2. \A n \in Dep!Claims : row[n] = "none"
    BY DEF Dep!Init
  <2> QED
    BY <2>1, <2>2
<1>7. 1 \in 1 .. MaxTime /\ 0 \in 0 .. 0 /\ 0 \in 0 .. MaxClaims
  BY <1>1
<1>4. row \in [Dep!Claims -> States]
  BY DEF Dep!Init, States
<1>5. /\ view.bolt11 = 0 /\ view.at = 0 /\ view.status = "" /\ view.statusAt = 0
      /\ view \in View
  BY DEF Dep!Init, Dep!NoDeposit, View
<1>6. notices = {} /\ heard = {} /\ ownHeard = {} /\ own = {} /\ paid = {} /\ disposing = {}
  BY DEF Dep!Init
<1>8. Dep!TypeOK
  <2>1. \A n \in Dep!Claims : row[n] \in Dep!Live \cup Dep!Ended \cup {"none"} /\ (n <= claims <=> row[n] # "none")
    BY <1>2, <1>3
  <2>2. now \in 1 .. MaxTime /\ claim \in 0 .. claims /\ claims \in 0 .. MaxClaims /\ view.bolt11 \in 0 .. claims
    BY <1>2, <1>5, <1>7
  <2> QED
    BY <1>5, <1>6, <2>1, <2>2 DEF Dep!TypeOK
<1> QED
  BY <1>4, <1>5, <1>6, <1>8 DEF DepositTyped

LEMMA InvStarts == ASSUME Dep!DepositNoticesAssumption PROVE Dep!Init => Inv
<1> SUFFICES ASSUME Dep!Init PROVE Inv
  OBVIOUS
<1>1. notices = {} /\ heard = {} /\ paid = {} /\ disposing = {} /\ claim = 0
      /\ view.bolt11 = 0 /\ view.at = 0 /\ view.status = "" /\ view.statusAt = 0
      /\ \A n \in Dep!Claims : row[n] = "none"
  BY DEF Dep!Init, Dep!NoDeposit
<1>2. Ordered
  BY <1>1 DEF Ordered, Dated, Ranked, OneEach, InvoiceFirst, EndLast
<1>3. Books
  BY <1>1 DEF Books, Noted, OpenIsNoted, LiveIsLast, Undone, Dep!Live
<1>4. Viewed
  BY <1>1 DEF Viewed, Shown, InvoicesHeard, StatusesHeard, PaidIsShown
<1> QED
  BY <1>2, <1>3, <1>4, TypedStarts DEF Inv

-----------------------------------------------------------------------------
(* Types, for any order of the notices. *)

LEMMA Bounds ==
  ASSUME Dep!DepositNoticesAssumption, DepositTyped
  PROVE  /\ MaxClaims \in Nat /\ MaxTime \in Nat \ {0} /\ now \in Nat \ {0} /\ now <= MaxTime
         /\ claims \in Nat /\ claims <= MaxClaims /\ claim \in 0 .. claims
         /\ \A n \in Dep!Claims : n \in Nat \ {0} /\ n <= MaxClaims /\ row[n] \in Dep!Live \cup Dep!Ended \cup {"none"}
         /\ \A n \in Dep!Claims : n \in 1 .. claims <=> row[n] # "none"
         /\ \A n : n \in 1 .. claims => n \in Dep!Claims
         /\ \A e \in notices : /\ e.n \in Dep!Claims /\ e.n \in Nat /\ e.at \in Nat \ {0} /\ e.at <= now
                               /\ e.kind \in {"required"} \cup DepositStatuses
<1>1. MaxClaims \in Nat /\ MaxTime \in Nat \ {0} /\ now \in 1 .. MaxTime /\ claim \in 0 .. claims /\ claims \in 0 .. MaxClaims
  BY DEF Dep!DepositNoticesAssumption, DepositTyped, Dep!TypeOK
<1>2. now \in Nat \ {0} /\ now <= MaxTime /\ claims \in Nat /\ claims <= MaxClaims
  BY <1>1
<1>3. \A n \in Dep!Claims : /\ row[n] \in Dep!Live \cup Dep!Ended \cup {"none"} /\ n \in Nat \ {0} /\ n <= MaxClaims
                            /\ (n <= claims <=> row[n] # "none")
  <2>1. \A n \in Dep!Claims : n \in Nat \ {0} /\ n <= MaxClaims
    BY <1>1 DEF Dep!Claims
  <2>2. \A n \in Dep!Claims : row[n] \in Dep!Live \cup Dep!Ended \cup {"none"} /\ (n <= claims <=> row[n] # "none")
    BY DEF DepositTyped, Dep!TypeOK
  <2> QED
    BY <2>1, <2>2
<1>4. \A n : n \in 1 .. claims => n \in Dep!Claims
  BY <1>1 DEF Dep!Claims
<1>5. \A n \in Dep!Claims : n \in 1 .. claims <=> row[n] # "none"
  BY <1>2, <1>3
<1>6. \A e \in notices : e \in Note /\ e.n \in 1 .. claims /\ e.at \in 1 .. now
  BY DEF DepositTyped
<1>7. \A e \in notices : /\ e.n \in Dep!Claims /\ e.n \in Nat /\ e.at \in Nat \ {0} /\ e.at <= now
                         /\ e.kind \in {"required"} \cup DepositStatuses
  BY <1>2, <1>4, <1>6 DEF Note
<1> QED
  BY <1>1, <1>2, <1>3, <1>4, <1>5, <1>7

\* An invoice of a claim moves, and a notice may say so.
Moves(n, to) ==
  /\ n \in 1 .. claims /\ to \in Dep!Live \cup Dep!Ended
  /\ row' = [row EXCEPT ![n] = to]
  /\ disposing' \subseteq disposing \cup {n} /\ claim' \in {claim, 0}
  /\ notices' = notices \/ \E kind \in {"required"} \cup DepositStatuses : notices' = notices \cup {Dep!Notice(n, kind)}
  /\ UNCHANGED <<now, claims, paid, heard, view, Dep!customer, reloads>>

LEMMA TypedOfMove ==
  ASSUME Dep!DepositNoticesAssumption, DepositTyped, NEW n, NEW to, Moves(n, to)
  PROVE  DepositTyped'
<1>1. n \in Dep!Claims /\ n \in Nat /\ n <= claims
  BY Bounds DEF Moves
<1>2. /\ row' \in [Dep!Claims -> States] /\ row'[n] = to /\ \A m \in Dep!Claims : m # n => row'[m] = row[m]
  BY <1>1 DEF Moves, DepositTyped, States
<1>3. to # "none"
  BY DEF Moves, Dep!Live, Dep!Ended
<1>4. \A m \in Dep!Claims : row'[m] \in Dep!Live \cup Dep!Ended \cup {"none"} /\ (m <= claims <=> row'[m] # "none")
  <2>1. \A m \in Dep!Claims : m <= claims <=> row[m] # "none"
    BY DEF DepositTyped, Dep!TypeOK
  <2> QED
    BY <1>1, <1>2, <1>3, <2>1 DEF States
<1>5. UNCHANGED <<now, claims, paid, heard, view, own, ownHeard>>
  BY DEF Moves, Dep!customer
<1>6. claim' \in 0 .. claims
  BY Bounds DEF Moves
<1>7. notices' \subseteq Note /\ notices \subseteq notices' /\ \A e \in notices' : e.n \in 1 .. claims /\ e.at \in 1 .. now
  <2>1. CASE notices' = notices
    BY <2>1 DEF DepositTyped
  <2>2. ASSUME NEW kind \in {"required"} \cup DepositStatuses, notices' = notices \cup {Dep!Notice(n, kind)}
        PROVE  notices' \subseteq Note /\ notices \subseteq notices' /\ \A e \in notices' : e.n \in 1 .. claims /\ e.at \in 1 .. now
    <3>1. now \in Nat \ {0}
      BY Bounds
    <3>2. Dep!Notice(n, kind) \in Note /\ Dep!Notice(n, kind).n = n /\ Dep!Notice(n, kind).at = now
      BY <1>1, <3>1 DEF Dep!Notice, Note
    <3>3. now \in 1 .. now /\ n \in 1 .. claims
      BY <3>1 DEF Moves
    <3> QED
      BY <2>2, <3>2, <3>3 DEF DepositTyped
  <2> QED
    BY <2>1, <2>2 DEF Moves
<1>8. paid \cup disposing' \subseteq 1 .. claims
  BY DEF Moves, DepositTyped, Dep!TypeOK
<1>9. Dep!TypeOK'
  BY <1>4, <1>5, <1>6, <1>7, <1>8 DEF DepositTyped, Dep!TypeOK
<1> QED
  BY <1>2, <1>5, <1>7, <1>9 DEF DepositTyped

LEMMA MovesOfNext ==
  ASSUME Dep!DepositNoticesAssumption, DepositTyped, NEW n \in Dep!Claims
  PROVE  /\ Dep!created(n) => Moves(n, "open")
         /\ Dep!accepted(n) => Moves(n, "accepted")
         /\ Dep!nodeCancelled(n) \/ Dep!disposed(n) => Moves(n, "cancelled")
         /\ \A how \in Dep!Ended : claim # 0 /\ row[claim] = "accepted" /\ claim' = 0
              /\ row' = [row EXCEPT ![claim] = how] /\ Dep!sendDepositStatus(claim, how)
              /\ UNCHANGED <<now, claims, paid, disposing, heard, view, Dep!customer, reloads>> => Moves(claim, how)
<1>1. "open" \in Dep!Live /\ "accepted" \in Dep!Live /\ "cancelled" \in Dep!Ended /\ Dep!Ended \subseteq DepositStatuses /\ "accepted" \in DepositStatuses
  BY DEF Dep!Live, Dep!Ended, DepositStatuses
<1>2. row[n] # "none" => n \in 1 .. claims
  BY Bounds
<1>3. n \in disposing => n \in 1 .. claims
  BY DEF DepositTyped, Dep!TypeOK
<1>4. claim # 0 => claim \in 1 .. claims
  BY Bounds
<1>5. Dep!created(n) => Moves(n, "open")
  BY <1>1, <1>2 DEF Dep!created, Dep!sendDepositRequired, Dep!send, Moves
<1>6. Dep!accepted(n) => Moves(n, "accepted")
  BY <1>1, <1>2 DEF Dep!accepted, Dep!sendDepositStatus, Dep!send, Moves
<1>7. Dep!nodeCancelled(n) => Moves(n, "cancelled")
  BY <1>1, <1>2 DEF Dep!nodeCancelled, Dep!sendDepositStatus, Dep!send, Moves
<1>8. Dep!disposed(n) => Moves(n, "cancelled")
  BY <1>1, <1>3 DEF Dep!disposed, Dep!sendDepositStatus, Dep!send, Moves
<1> QED
  BY <1>1, <1>4, <1>5, <1>6, <1>7, <1>8 DEF Dep!sendDepositStatus, Dep!send, Moves

LEMMA TypedOfNext == ASSUME Dep!DepositNoticesAssumption, DepositTyped, [Dep!Next]_(Dep!vars) PROVE DepositTyped'
<1>1. CASE Dep!planSponsorDeposit
  <2>1. /\ claims < MaxClaims /\ claim' = claims + 1 /\ claims' = claims + 1 /\ row' = [row EXCEPT ![claims + 1] = "planned"]
        /\ UNCHANGED <<now, paid, disposing, notices, heard, view, own, ownHeard>>
    BY <1>1 DEF Dep!planSponsorDeposit, Dep!customer
  <2>2. claims + 1 \in Dep!Claims /\ claims + 1 \in Nat /\ claims + 1 \in 0 .. claims + 1 /\ claims + 1 \in 0 .. MaxClaims
    BY <2>1, Bounds DEF Dep!Claims
  <2>3. row' \in [Dep!Claims -> States] /\ row'[claims + 1] = "planned" /\ \A m \in Dep!Claims : m # claims + 1 => row'[m] = row[m]
    BY <2>1, <2>2 DEF DepositTyped, States, Dep!Live
  <2>4. \A m \in Dep!Claims : m <= claims + 1 <=> row'[m] # "none"
    <3>1. \A m \in Dep!Claims : m <= claims <=> row[m] # "none"
      BY DEF DepositTyped, Dep!TypeOK
    <3>2. \A m \in Dep!Claims : m # claims + 1 => (m <= claims <=> m <= claims + 1)
      BY Bounds
    <3>3. claims + 1 <= claims + 1
      BY <2>2
    <3> QED
      BY <2>3, <3>1, <3>2, <3>3
  <2>5. \A x : (x \in 0 .. claims => x \in 0 .. claims + 1) /\ (x \in 1 .. claims => x \in 1 .. claims + 1)
    BY Bounds
  <2>6. view'.bolt11 \in 0 .. claims' /\ paid' \cup disposing' \subseteq 1 .. claims'
    BY <2>1, <2>5 DEF DepositTyped, Dep!TypeOK
  <2>7. \A e \in notices' : e.n \in 1 .. claims' /\ e.at \in 1 .. now'
    BY <2>1, <2>5 DEF DepositTyped
  <2>8. Dep!TypeOK'
    BY <2>1, <2>2, <2>3, <2>4, <2>6 DEF DepositTyped, Dep!TypeOK, States
  <2> QED
    BY <2>1, <2>3, <2>7, <2>8 DEF DepositTyped
<1>2. CASE Dep!Pay
  <2>1. /\ paid' = paid \cup {Dep!Offered} /\ row[Dep!Offered] = "open" /\ Dep!Offered # 0
        /\ UNCHANGED <<now, claim, claims, row, disposing, notices, heard, view, own, ownHeard>>
    BY <1>2 DEF Dep!Pay, Dep!customer
  <2>2. Dep!Offered \in 1 .. claims
    <3>1. view.bolt11 \in 0 .. claims /\ claims \in Nat
      BY Bounds DEF DepositTyped, Dep!TypeOK
    <3>2. Dep!Offered \in {view.bolt11, 0}
      BY DEF Dep!Offered
    <3> QED
      BY <2>1, <3>1, <3>2
  <2> QED
    BY <2>1, <2>2 DEF DepositTyped, Dep!TypeOK
<1>3. CASE Dep!revertClaim
  <2>1. /\ claim # 0 /\ claim' = 0 /\ disposing' \subseteq disposing \cup {claim}
        /\ UNCHANGED <<now, claims, row, paid, notices, heard, view, own, ownHeard>>
    BY <1>3 DEF Dep!revertClaim, Dep!customer
  <2>2. claim \in 1 .. claims /\ 0 \in 0 .. claims
    BY <2>1, Bounds
  <2> QED
    BY <2>1, <2>2 DEF DepositTyped, Dep!TypeOK
<1>4. CASE Dep!closed
  <2>1. \E how : Moves(claim, how)
    <3>1. claim # 0
      BY <1>4 DEF Dep!closed
    <3>2. claim \in Dep!Claims
      BY <3>1, Bounds
    <3> QED
      BY <1>4, <3>2, MovesOfNext DEF Dep!closed
  <2> QED
    BY <2>1, TypedOfMove
<1>5. CASE Dep!handleInboxEvent
  <2>1. PICK e \in notices \ heard :
          /\ heard' = heard \cup {e}
          /\ IF e.kind = "required" THEN Dep!setDepositBolt11(e.n, e.at) ELSE Dep!setDepositStatus(e.kind, e.at)
    BY <1>5 DEF Dep!handleInboxEvent
  <2>2. UNCHANGED <<now, claim, claims, row, paid, disposing, notices, own, ownHeard>>
    BY <1>5 DEF Dep!handleInboxEvent, Dep!daemon, Dep!customer
  <2>3. e.n \in 1 .. claims /\ e.n \in Nat /\ e.at \in Nat /\ e.kind \in {"required"} \cup DepositStatuses
    BY Bounds DEF DepositTyped
  <2>4. view' \in View /\ view'.bolt11 \in {view.bolt11, e.n}
    <3>1. CASE e.kind = "required" /\ Dep!setDepositBolt11(e.n, e.at)
      <4>1. CASE view' = view
        BY <4>1 DEF DepositTyped
      <4>2. ASSUME NEW s \in {""} \cup DepositStatuses, NEW a \in Nat,
                   view' = [bolt11 |-> e.n, at |-> e.at, status |-> s, statusAt |-> a]
            PROVE  view' \in View /\ view'.bolt11 = e.n
        BY <2>3, <4>2 DEF View
      <4>3. view.status \in {""} \cup DepositStatuses /\ view.statusAt \in Nat
        BY DEF DepositTyped, View
      <4>4. (IF view.statusAt >= e.at THEN view.status ELSE "") \in {""} \cup DepositStatuses
            /\ (IF view.statusAt >= e.at THEN view.statusAt ELSE 0) \in Nat
        BY <4>3
      <4> QED
        BY <3>1, <4>1, <4>2, <4>4 DEF Dep!setDepositBolt11
    <3>2. CASE e.kind \in DepositStatuses /\ Dep!setDepositStatus(e.kind, e.at)
      BY <2>3, <3>2 DEF Dep!setDepositStatus, DepositTyped, View
    <3> QED
      BY <2>1, <2>3, <3>1, <3>2
  <2>5. view'.bolt11 \in 0 .. claims /\ view'.status \in {""} \cup DepositStatuses
    <3>1. e.n \in 0 .. claims /\ view.bolt11 \in 0 .. claims
      <4>1. claims \in Nat /\ view.bolt11 \in 0 .. claims
        BY Bounds DEF DepositTyped, Dep!TypeOK
      <4> QED
        BY <2>3, <4>1
    <3> QED
      BY <2>4, <3>1 DEF View
  <2>6. Dep!TypeOK'
    BY <2>1, <2>2, <2>5 DEF DepositTyped, Dep!TypeOK, DepositStatuses
  <2> QED
    BY <2>2, <2>4, <2>6 DEF DepositTyped
<1>6. CASE Dep!OwnMoves \/ Dep!applyDepositStatus \/ Dep!Reload \/ UNCHANGED Dep!vars
  <2>1. UNCHANGED <<now, claim, claims, row, paid, disposing, notices, view>>
    BY <1>6 DEF Dep!OwnMoves, Dep!applyDepositStatus, Dep!Reload, Dep!vars, Dep!daemon
  <2>2. heard' \subseteq heard /\ ownHeard' \subseteq own'
    BY <1>6 DEF Dep!OwnMoves, Dep!applyDepositStatus, Dep!Reload, Dep!vars, Dep!daemon, Dep!customer, DepositTyped, Dep!TypeOK
  <2> QED
    BY <2>1, <2>2 DEF DepositTyped, Dep!TypeOK
<1>7. CASE Dep!Elapse
  <2>1. now < MaxTime /\ now' = now + 1 /\ UNCHANGED <<claim, claims, row, paid, disposing, notices, heard, view, own, ownHeard>>
    BY <1>7 DEF Dep!Elapse, Dep!daemon, Dep!customer
  <2>2. now' \in 1 .. MaxTime /\ \A x : x \in 1 .. now => x \in 1 .. now'
    <3>1. PICK m \in Nat : m = now'
      BY <2>1, Bounds
    <3>2. m = now + 1
      BY <2>1, <3>1
    <3>3. m \in 1 .. MaxTime /\ \A x : x \in 1 .. now => x \in 1 .. m
      BY <2>1, <3>2, Bounds
    <3> QED
      BY <3>1, <3>3
  <2> QED
    BY <2>1, <2>2 DEF DepositTyped, Dep!TypeOK
<1>8. ASSUME NEW n \in Dep!Claims, Dep!created(n) \/ Dep!accepted(n) \/ Dep!nodeCancelled(n) \/ Dep!disposed(n) PROVE DepositTyped'
  BY <1>8, MovesOfNext, TypedOfMove
<1> QED
  BY <1>1, <1>2, <1>3, <1>4, <1>5, <1>6, <1>7, <1>8 DEF Dep!Next

-----------------------------------------------------------------------------
(* The books, when notices are dated apart and an invoice waits for the earlier ones. *)

\* An invoice that is not over moves and is noted.
Turns(n, to, kind) ==
  /\ \/ row[n] = "planned" /\ to = "open" /\ kind = "required" /\ claim = n /\ disposing = {}
     \/ row[n] = "open" /\ to = "accepted" /\ kind = "accepted" /\ n \in paid
     \/ row[n] \in {"open", "accepted"} /\ to \in Dep!Ended /\ kind = to
  /\ row' = [row EXCEPT ![n] = to]
  /\ notices' = notices \cup {Dep!Notice(n, kind)} /\ \A e \in notices : e.at < now
  /\ claim' = (IF to \in Dep!Ended /\ claim = n THEN 0 ELSE claim)
  /\ disposing' = (IF to \in Dep!Ended THEN disposing \ {n} ELSE disposing)
  /\ UNCHANGED <<now, claims, paid, heard, view>>

LEMMA OrderOfTurn ==
  ASSUME Dep!DepositNoticesAssumption, DepositTyped, Ordered, Books, NEW n \in Dep!Claims, NEW to, NEW kind, Turns(n, to, kind)
  PROVE  Ordered'
<1> DEFINE new == Dep!Notice(n, kind)
<1>1. new.n = n /\ new.kind = kind /\ new.at = now
  BY DEF Dep!Notice
<1> HIDE DEF new
<1>2. notices' = notices \cup {new} /\ \A e \in notices : e.at < now
  BY DEF Turns, new
<1>3. now \in Nat /\ n \in Nat /\ \A e \in notices : e.n \in Nat /\ e.at \in Nat /\ e.n \in Dep!Claims
  BY Bounds
<1>4. row[n] \in Dep!Live /\ row[n] \notin Dep!Ended
  BY DEF Turns, Dep!Live, Dep!Ended
<1>5. \A e \in notices : e.n <= n
  BY <1>4 DEF Books, LiveIsLast
<1>6. \A e \in notices : e.at < now => e.at # now /\ ~(now < e.at) /\ e.at <= now
  BY <1>3
<1>7. ~(n < n) /\ ~(now < now) /\ now <= now /\ \A e \in notices : ~(n < e.n)
  BY <1>3, <1>5
<1>8. Dated'
  BY <1>1, <1>2, <1>6 DEF Ordered, Dated
<1>9. Ranked'
  <2> SUFFICES ASSUME NEW e \in notices', NEW f \in notices', e.n < f.n PROVE e.at < f.at
    BY DEF Ranked
  <2>1. CASE e = new /\ f = new
    BY <1>1, <1>7, <2>1
  <2>2. CASE e = new /\ f \in notices
    BY <1>1, <1>7, <2>2
  <2>3. CASE e \in notices /\ f = new
    BY <1>1, <1>2, <2>3
  <2>4. CASE e \in notices /\ f \in notices
    BY <2>4 DEF Ordered, Ranked
  <2> QED
    BY <1>2, <2>1, <2>2, <2>3, <2>4
<1>10. \A e \in notices : e.n = n => e.kind # kind /\ e.kind \notin Dep!Ended
  <2> SUFFICES ASSUME NEW e \in notices, e.n = n PROVE e.kind # kind /\ e.kind \notin Dep!Ended
    OBVIOUS
  <2>1. /\ row[n] \notin {"none", "planned"} /\ (e.kind \in DepositStatuses => row[n] # "open")
        /\ (e.kind \in Dep!Ended => row[n] = e.kind)
    BY DEF Books, Noted
  <2>2. e.kind \notin Dep!Ended
    BY <1>4, <2>1
  <2> QED
    BY <2>1, <2>2 DEF Turns, DepositStatuses
<1>11. OneEach'
  <2> SUFFICES ASSUME NEW e \in notices', NEW f \in notices', e.n = f.n, e.kind = f.kind PROVE e = f
    BY DEF OneEach
  <2>1. CASE e \in notices /\ f \in notices
    BY <2>1 DEF Ordered, OneEach
  <2>2. CASE e = new \/ f = new
    BY <1>1, <1>2, <1>10, <2>2
  <2> QED
    BY <1>2, <2>1, <2>2
<1>12. InvoiceFirst'
  <2> SUFFICES ASSUME NEW e \in notices' PROVE \E r \in notices' : r.n = e.n /\ r.kind = "required" /\ r.at <= e.at
    BY DEF InvoiceFirst
  <2>1. CASE e \in notices
    BY <1>2, <2>1 DEF Ordered, InvoiceFirst
  <2>2. CASE e = new /\ kind = "required"
    BY <1>1, <1>2, <1>7, <2>2
  <2>3. CASE e = new /\ kind # "required"
    <3>1. row[n] \in {"open", "accepted"}
      BY <2>3 DEF Turns
    <3>2. PICK r \in notices : r.n = n /\ r.kind = "required"
      BY <3>1 DEF Books, OpenIsNoted
    <3> QED
      BY <1>1, <1>2, <1>6, <2>3, <3>2
  <2> QED
    BY <1>2, <2>1, <2>2, <2>3
<1>13. EndLast'
  <2> SUFFICES ASSUME NEW e \in notices', NEW f \in notices', e.n = f.n, e.kind \in Dep!Ended PROVE f.at <= e.at
    BY DEF EndLast
  <2>1. CASE e \in notices /\ f \in notices
    BY <2>1 DEF Ordered, EndLast
  <2>2. CASE e = new
    BY <1>1, <1>2, <1>6, <1>7, <2>2
  <2>3. CASE e \in notices /\ f = new
    BY <1>1, <1>10, <2>3
  <2> QED
    BY <1>2, <2>1, <2>2, <2>3
<1> QED
  BY <1>8, <1>9, <1>11, <1>12, <1>13 DEF Ordered

LEMMA BooksOfTurn ==
  ASSUME Dep!DepositNoticesAssumption, DepositTyped, Ordered, Books, NEW n \in Dep!Claims, NEW to, NEW kind, Turns(n, to, kind)
  PROVE  Books'
<1> DEFINE new == Dep!Notice(n, kind)
<1>1. new.n = n /\ new.kind = kind
  BY DEF Dep!Notice
<1> HIDE DEF new
<1>2. notices' = notices \cup {new} /\ UNCHANGED <<claims, paid>>
  BY DEF Turns, new
<1>3. row'[n] = to /\ \A m \in Dep!Claims : m # n => row'[m] = row[m]
  BY DEF Turns, DepositTyped
<1>4. n \in Nat /\ \A e \in notices : e.n \in Dep!Claims /\ e.n \in Nat
  BY Bounds
<1>5. to \notin {"none", "planned"} /\ row[n] \in Dep!Live
  BY DEF Turns, Dep!Live, Dep!Ended
<1>6. Noted'
  <2> SUFFICES ASSUME NEW e \in notices'
               PROVE  /\ row'[e.n] \notin {"none", "planned"}
                      /\ e.kind \in DepositStatuses => row'[e.n] # "open"
                      /\ e.kind \in Dep!Ended => row'[e.n] = e.kind
                      /\ e.kind = "accepted" =>
                           /\ e.n \in paid'
                           /\ row'[e.n] = "accepted" \/ \E f \in notices' : f.n = e.n /\ f.kind = row'[e.n]
    BY DEF Noted
  <2>1. CASE e \in notices /\ e.n # n
    <3>1. row'[e.n] = row[e.n]
      BY <1>3, <1>4, <2>1
    <3> QED
      BY <1>2, <2>1, <3>1 DEF Books, Noted
  <2>2. CASE e \in notices /\ e.n = n
    <3>1. row[n] # "planned" /\ (e.kind \in DepositStatuses => row[n] # "open") /\ (e.kind \in Dep!Ended => row[n] = e.kind)
          /\ (e.kind = "accepted" => n \in paid)
      BY <2>2 DEF Books, Noted
    <3>2. e.kind \notin Dep!Ended
      BY <1>5, <3>1 DEF Dep!Live, Dep!Ended
    <3>3. CASE to \in Dep!Ended
      <4>1. new \in notices' /\ new.n = e.n /\ new.kind = to
        BY <1>1, <1>2, <2>2, <3>3 DEF Turns, Dep!Ended
      <4> QED
        BY <1>2, <1>3, <1>5, <2>2, <3>1, <3>2, <3>3, <4>1 DEF Dep!Ended
    <3>4. CASE to = "accepted" /\ row[n] = "open"
      BY <1>3, <2>2, <3>1, <3>2, <3>4 DEF DepositStatuses
    <3> QED
      BY <3>1, <3>3, <3>4 DEF Turns
  <2>3. CASE e = new
    <3>1. kind = "required" => to = "open"
      BY DEF Turns, Dep!Ended
    <3>2. kind # "required" => kind = to /\ kind # "open" /\ (kind = "accepted" => n \in paid)
      BY DEF Turns, Dep!Ended
    <3>3. row'[e.n] = to /\ e.kind = kind /\ e.n = n
      BY <1>1, <1>3, <2>3
    <3>4. CASE kind = "required"
      <4>1. to = "open" /\ kind \notin DepositStatuses /\ kind \notin Dep!Ended /\ kind # "accepted"
        BY <3>1, <3>4 DEF DepositStatuses, Dep!Ended
      <4> QED
        BY <3>3, <4>1
    <3>5. CASE kind # "required"
      BY <1>2, <1>5, <3>2, <3>3, <3>5
    <3> QED
      BY <3>4, <3>5
  <2> QED
    BY <1>2, <2>1, <2>2, <2>3
<1>7. OpenIsNoted'
  <2> SUFFICES ASSUME NEW m \in Dep!Claims, row'[m] \in {"open", "accepted"}
               PROVE  \E r \in notices' : r.n = m /\ r.kind = "required"
    BY DEF OpenIsNoted
  <2>1. CASE m # n
    BY <1>2, <1>3, <2>1 DEF Books, OpenIsNoted
  <2>2. CASE m = n /\ row[n] = "planned"
    <3>1. kind = "required"
      BY <2>2 DEF Turns
    <3> QED
      BY <1>1, <1>2, <2>2, <3>1
  <2>3. CASE m = n /\ row[n] \in {"open", "accepted"}
    BY <1>2, <2>3 DEF Books, OpenIsNoted
  <2> QED
    BY <2>1, <2>2, <2>3 DEF Turns
<1>8. LiveIsLast'
  <2> SUFFICES ASSUME NEW m \in Dep!Claims, row'[m] \in Dep!Live
               PROVE  (claim' = m \/ m \in disposing') /\ \A e \in notices' : e.n <= m
    BY DEF LiveIsLast
  <2>1. CASE m = n
    <3>1. to \notin Dep!Ended
      BY <1>3, <2>1, Strings
    <3>2. claim' = claim /\ disposing' = disposing
      BY <3>1 DEF Turns
    <3>3. (claim = n \/ n \in disposing) /\ \A e \in notices : e.n <= n
      BY <1>5 DEF Books, LiveIsLast
    <3>4. n <= n
      BY <1>4
    <3> QED
      BY <1>1, <1>2, <2>1, <3>2, <3>3, <3>4
  <2>2. CASE m # n
    <3>1. row[m] \in Dep!Live
      BY <1>3, <2>2
    <3>2. (claim = m \/ m \in disposing) /\ \A e \in notices : e.n <= m
      BY <3>1 DEF Books, LiveIsLast
    <3>3. claim' = m \/ m \in disposing'
      BY <2>2, <3>2 DEF Turns
    <3>4. n <= m
      <4>1. CASE row[n] = "planned"
        BY <2>2, <3>2, <4>1 DEF Turns
      <4>2. CASE row[n] \in {"open", "accepted"}
        BY <3>2, <4>2 DEF Books, OpenIsNoted
      <4> QED
        BY <4>1, <4>2 DEF Turns
    <3> QED
      BY <1>1, <1>2, <3>2, <3>3, <3>4
  <2> QED
    BY <2>1, <2>2
<1>9. Undone'
  <2>1. \A m \in disposing' : row'[m] \in Dep!Live /\ claim' # m
    <3> SUFFICES ASSUME NEW m \in disposing' PROVE row'[m] \in Dep!Live /\ claim' # m
      OBVIOUS
    <3>1. m \in disposing /\ m \in 1 .. claims
      BY DEF Turns, DepositTyped, Dep!TypeOK
    <3>2. m \in Dep!Claims /\ m # 0
      BY <3>1, Bounds
    <3>3. row[m] \in Dep!Live /\ claim # m
      BY <3>1 DEF Books, Undone
    <3>4. claim' # m
      BY <3>2, <3>3 DEF Turns
    <3>5. m = n => to \in Dep!Live
      BY <3>1 DEF Turns, Dep!Live
    <3> QED
      BY <1>3, <3>2, <3>3, <3>4, <3>5
  <2>2. claim' # 0 => claim' = claims'
    BY <1>2 DEF Turns, Books, Undone
  <2> QED
    BY <2>1, <2>2 DEF Undone
<1> QED
  BY <1>6, <1>7, <1>8, <1>9 DEF Books

\* The store has what it had, and what it was made from is still on the relays.
LEMMA ViewedOfMore ==
  ASSUME Viewed, notices \subseteq notices', UNCHANGED <<heard, view, paid>>
  PROVE  Viewed'
<1>1. Shown'
  BY DEF Viewed, Shown
<1>2. InvoicesHeard' /\ StatusesHeard'
  BY DEF Viewed, InvoicesHeard, StatusesHeard
<1>3. PaidIsShown'
  BY DEF Viewed, PaidIsShown
<1> QED
  BY <1>1, <1>2, <1>3 DEF Viewed

\* An invoice moves, with a notice or, if nobody has seen it, without.
LEMMA TurnsOfNext ==
  ASSUME Dep!DepositNoticesAssumption, Orderly, Inv, NEW n \in Dep!Claims,
         \/ Dep!created(n) \/ Dep!accepted(n) \/ Dep!nodeCancelled(n)
         \/ Dep!disposed(n) /\ row[n] # "planned"
         \/ Dep!closed /\ n = claim
  PROVE  \E to, kind : Turns(n, to, kind)
<1>1. n \in disposing => claim # n
  BY DEF Inv, Books, Undone
<1>2. row[n] \in Dep!Live => claim = n \/ n \in disposing
  BY DEF Inv, Books, LiveIsLast
<1>3. "planned" \in Dep!Live /\ "open" \in Dep!Live /\ "accepted" \notin Dep!Ended /\ "open" \notin Dep!Ended /\ "cancelled" \in Dep!Ended
  BY DEF Dep!Live, Dep!Ended
<1>4. CASE Dep!created(n)
  <2>1. Turns(n, "open", "required")
    BY <1>2, <1>3, <1>4 DEF Dep!created, Dep!sendDepositRequired, Dep!send, Turns
  <2> QED
    BY <2>1
<1>5. CASE Dep!accepted(n)
  <2>1. Turns(n, "accepted", "accepted")
    BY <1>2, <1>3, <1>5 DEF Dep!accepted, Dep!sendDepositStatus, Dep!send, Turns
  <2> QED
    BY <2>1
<1>6. CASE Dep!nodeCancelled(n)
  <2>1. Turns(n, "cancelled", "cancelled")
    BY <1>3, <1>6 DEF Dep!nodeCancelled, Dep!sendDepositStatus, Dep!send, Turns
  <2> QED
    BY <2>1
<1>7. CASE Dep!disposed(n) /\ row[n] # "planned"
  <2>1. row[n] \in {"open", "accepted"}
    BY <1>7 DEF Dep!disposed, Inv, Books, Undone, Dep!Live
  <2>2. Turns(n, "cancelled", "cancelled")
    BY <1>1, <1>3, <1>7, <2>1 DEF Dep!disposed, Dep!sendDepositStatus, Dep!send, Turns
  <2> QED
    BY <2>2
<1>8. CASE Dep!closed /\ n = claim
  <2>1. PICK how \in Dep!Ended : row' = [row EXCEPT ![claim] = how] /\ Dep!sendDepositStatus(claim, how)
    BY <1>8 DEF Dep!closed
  <2>2. Turns(n, how, how)
    BY <1>1, <1>8, <2>1 DEF Dep!closed, Dep!sendDepositStatus, Dep!send, Turns
  <2> QED
    BY <2>2
<1> QED
  BY <1>4, <1>5, <1>6, <1>7, <1>8

LEMMA InvOfTurn ==
  ASSUME Dep!DepositNoticesAssumption, Orderly, Inv, NEW n \in Dep!Claims, NEW to, NEW kind, Turns(n, to, kind)
  PROVE  Ordered' /\ Books' /\ Viewed'
<1>1. notices \subseteq notices' /\ UNCHANGED <<heard, view, paid>>
  BY DEF Turns
<1> QED
  BY <1>1, OrderOfTurn, BooksOfTurn, ViewedOfMore DEF Inv

\* A claim is made or undone, an invoice nobody has seen is given up.
LEMMA InvOfClaims ==
  ASSUME Dep!DepositNoticesAssumption, Inv,
         Dep!planSponsorDeposit \/ Dep!revertClaim \/ \E n \in Dep!Claims : Dep!disposed(n) /\ row[n] = "planned"
  PROVE  Ordered' /\ Books' /\ Viewed'
<1>1. UNCHANGED <<now, paid, notices, heard, view>>
  BY DEF Dep!planSponsorDeposit, Dep!revertClaim, Dep!disposed
<1>2. Ordered'
  BY <1>1 DEF Inv, Ordered, Dated, Ranked, OneEach, InvoiceFirst, EndLast
<1>3. Viewed'
  BY <1>1, ViewedOfMore DEF Inv
<1>4. \A e \in notices : e.n \in Dep!Claims /\ e.n \in Nat /\ row[e.n] \notin {"none", "planned"}
  BY Bounds DEF Inv, Books, Noted
<1>5. CASE Dep!planSponsorDeposit
  <2> DEFINE n == claims + 1
  <2>1. /\ claim = 0 /\ claim' = n /\ claims' = n /\ row' = [row EXCEPT ![n] = "planned"] /\ disposing' = disposing
        /\ claims < MaxClaims
    BY <1>5 DEF Dep!planSponsorDeposit
  <2>2. n \in Dep!Claims /\ n \in Nat /\ n # 0 /\ row[n] = "none" /\ n \notin disposing
        /\ \A e \in notices : e.n <= n
    <3>1. claims \in Nat /\ MaxClaims \in Nat /\ \A e \in notices : e.n \in 1 .. claims
      BY Bounds DEF Inv, DepositTyped
    <3>2. n \in Dep!Claims /\ n \in Nat /\ n # 0 /\ n \notin 1 .. claims /\ \A e \in notices : e.n <= n
      BY <2>1, <3>1 DEF Dep!Claims
    <3>3. row[n] = "none"
      BY <3>2, Bounds DEF Inv
    <3>4. n \notin disposing
      BY <3>2 DEF Inv, DepositTyped, Dep!TypeOK
    <3> QED
      BY <3>2, <3>3, <3>4
  <2> HIDE DEF n
  <2>3. row'[n] = "planned" /\ \A m \in Dep!Claims : m # n => row'[m] = row[m]
    BY <2>1, <2>2 DEF Inv, DepositTyped
  <2>4. \A e \in notices : row'[e.n] = row[e.n]
    BY <1>4, <2>2, <2>3
  <2>5. Noted'
    BY <1>1, <2>4 DEF Inv, Books, Noted
  <2>6. OpenIsNoted'
    BY <1>1, <2>3 DEF Inv, Books, OpenIsNoted
  <2>7. LiveIsLast'
    <3> SUFFICES ASSUME NEW m \in Dep!Claims, row'[m] \in Dep!Live
                 PROVE  (claim' = m \/ m \in disposing') /\ \A e \in notices' : e.n <= m
      BY DEF LiveIsLast
    <3>1. CASE m = n
      BY <1>1, <2>1, <2>2, <3>1
    <3>2. CASE m # n
      <4>1. m # 0
        BY Bounds DEF Inv
      <4> QED
        BY <1>1, <2>1, <2>3, <3>2, <4>1 DEF Inv, Books, LiveIsLast
    <3> QED
      BY <3>1, <3>2
  <2>8. Undone'
    <3>1. \A m \in disposing : m \in Dep!Claims
      BY Bounds DEF Inv, DepositTyped, Dep!TypeOK
    <3> QED
      BY <2>1, <2>2, <2>3, <3>1 DEF Inv, Books, Undone
  <2> QED
    BY <1>2, <1>3, <2>5, <2>6, <2>7, <2>8 DEF Books
<1>6. CASE Dep!revertClaim
  <2>1. /\ claim # 0 /\ claim' = 0 /\ disposing' = (IF row[claim] \in Dep!Live THEN disposing \cup {claim} ELSE disposing)
        /\ UNCHANGED <<claims, row>>
    BY <1>6 DEF Dep!revertClaim
  <2>2. Noted' /\ OpenIsNoted'
    BY <1>1, <2>1 DEF Inv, Books, Noted, OpenIsNoted
  <2>3. LiveIsLast'
    BY <1>1, <2>1 DEF Inv, Books, LiveIsLast
  <2>4. Undone'
    <3>1. \A m \in disposing' : m # 0
      <4>1. \A m \in disposing : m \in 1 .. claims
        BY DEF Inv, DepositTyped, Dep!TypeOK
      <4>2. \A m \in disposing : m # 0
        BY <4>1
      <4> QED
        BY <2>1, <4>2
    <3> QED
      BY <2>1, <3>1 DEF Inv, Books, Undone
  <2> QED
    BY <1>2, <1>3, <2>2, <2>3, <2>4 DEF Books
<1>7. ASSUME NEW n \in Dep!Claims, Dep!disposed(n), row[n] = "planned" PROVE Books'
  <2>1. /\ n \in disposing /\ disposing' = disposing \ {n} /\ row' = [row EXCEPT ![n] = "cancelled"]
        /\ UNCHANGED <<claim, claims>>
    BY <1>7 DEF Dep!disposed
  <2>2. row'[n] = "cancelled" /\ \A m \in Dep!Claims : m # n => row'[m] = row[m]
    BY <2>1 DEF Inv, DepositTyped
  <2>3. \A e \in notices : row'[e.n] = row[e.n]
    BY <1>4, <1>7, <2>2
  <2>4. Noted'
    BY <1>1, <2>3 DEF Inv, Books, Noted
  <2>5. OpenIsNoted'
    BY <1>1, <2>2 DEF Inv, Books, OpenIsNoted
  <2>6. LiveIsLast'
    BY <1>1, <2>1, <2>2 DEF Inv, Books, LiveIsLast, Dep!Live
  <2>7. Undone'
    <3>1. \A m \in disposing : m \in Dep!Claims
      BY Bounds DEF Inv, DepositTyped, Dep!TypeOK
    <3> QED
      BY <2>1, <2>2, <3>1 DEF Inv, Books, Undone
  <2> QED
    BY <2>4, <2>5, <2>6, <2>7 DEF Books
<1> QED
  BY <1>2, <1>3, <1>5, <1>6, <1>7

-----------------------------------------------------------------------------
(* The store. *)

LEMMA Numbers ==
  /\ \A a, b, c \in Nat : b >= a /\ b <= c => c >= a
  /\ \A a, b \in Nat : b >= a /\ b <= a => a = b
  /\ \A a, b, c \in Nat : a >= b /\ b >= c => a >= c
OBVIOUS

\* The store takes an invoice, or leaves what it has.
LEMMA InvoiceTaken ==
  ASSUME NEW n, NEW when, Dep!setDepositBolt11(n, when), view.bolt11 # n, ~(when < view.at)
  PROVE  /\ view'.bolt11 = n /\ view'.at = when
         /\ view'.status = (IF view.statusAt >= when THEN view.status ELSE "")
         /\ view'.statusAt = (IF view.statusAt >= when THEN view.statusAt ELSE 0)
<1>1. ASSUME NEW s, NEW a, view' = [bolt11 |-> n, at |-> when, status |-> s, statusAt |-> a]
      PROVE  view'.bolt11 = n /\ view'.at = when /\ view'.status = s /\ view'.statusAt = a
  BY <1>1
<1>2. view' = [bolt11 |-> n, at |-> when,
               status |-> IF view.statusAt >= when THEN view.status ELSE "",
               statusAt |-> IF view.statusAt >= when THEN view.statusAt ELSE 0]
  BY Zenon DEF Dep!setDepositBolt11
<1> QED
  BY <1>1, <1>2, Zenon

\* Of two invoices on the relays the later claim's is the later one.
LEMMA LaterInvoice ==
  ASSUME Dep!DepositNoticesAssumption, DepositTyped, Ordered, NEW e \in notices, NEW f \in notices, e.at <= f.at
  PROVE  e.n <= f.n
<1>1. e.n \in Nat /\ f.n \in Nat /\ e.at \in Nat /\ f.at \in Nat
  BY Bounds
<1>2. f.n < e.n => f.at < e.at
  BY DEF Ordered, Ranked
<1> QED
  BY <1>1, <1>2

\* Whose invoice was paid is the claim the store shows, or an earlier one.
LEMMA PaidIsNotLater ==
  ASSUME Dep!DepositNoticesAssumption, DepositTyped, Ordered, Shown, PaidIsShown, NEW n \in paid
  PROVE  n <= view.bolt11
<1>1. PICK r \in notices : r.n = n /\ r.kind = "required" /\ r.at <= view.at
  BY DEF PaidIsShown
<1>2. r.at \in Nat \ {0} /\ view.at \in Nat
  BY Bounds DEF DepositTyped, View
<1>3. view.bolt11 # 0
  <2>1. view.at # 0
    BY <1>1, <1>2
  <2> QED
    BY <2>1 DEF Shown
<1>4. PICK b \in notices : b.kind = "required" /\ b.n = view.bolt11 /\ b.at = view.at
  BY <1>3 DEF Shown
<1> QED
  BY <1>1, <1>4, LaterInvoice

\* The store gets an invoice or a status.
LEMMA ViewedOfInbox ==
  ASSUME Dep!DepositNoticesAssumption, Inv, Dep!handleInboxEvent
  PROVE  Viewed' /\ Dep!NeverBack
<1>1. PICK e \in notices \ heard :
        /\ heard' = heard \cup {e}
        /\ IF e.kind = "required" THEN Dep!setDepositBolt11(e.n, e.at) ELSE Dep!setDepositStatus(e.kind, e.at)
  BY DEF Dep!handleInboxEvent
<1>2. UNCHANGED <<notices, paid>>
  BY DEF Dep!handleInboxEvent, Dep!daemon
<1>3. /\ e.at \in Nat \ {0} /\ e.n \in Nat \ {0} /\ e.kind \in {"required"} \cup DepositStatuses
      /\ \A f \in notices : f.at \in Nat \ {0} /\ f.n \in Nat
      /\ view \in View /\ view.at \in Nat /\ view.statusAt \in Nat /\ view.bolt11 \in Nat
      /\ heard \subseteq notices
  <2>1. e.n # 0
    BY Bounds DEF Inv
  <2> QED
    BY <2>1, Bounds DEF Inv, DepositTyped, Dep!TypeOK, View
<1>0. e.at \in Nat /\ e.n \in Nat /\ view.at \in Nat /\ view.statusAt \in Nat /\ view.bolt11 \in Nat
  BY <1>3
<1>4. Dated /\ OneEach /\ Shown /\ InvoicesHeard /\ StatusesHeard /\ PaidIsShown
  BY DEF Inv, Ordered, Viewed
<1>5. CASE view' = view
  <2>1. Shown' /\ PaidIsShown'
    BY <1>2, <1>4, <1>5 DEF Shown, PaidIsShown
  <2>2. InvoicesHeard'
    <3>1. e.kind = "required" => e.at <= view.at
      <4> SUFFICES ASSUME e.kind = "required" PROVE e.at <= view.at
        OBVIOUS
      <4>1. CASE e.at < view.at
        BY <1>3, <4>1
      <4>2. CASE view.bolt11 = e.n
        <5>1. PICK r \in notices : r.kind = "required" /\ r.n = view.bolt11 /\ r.at = view.at
          BY <1>3, <1>4, <4>2 DEF Shown
        <5>2. r = e
          BY <1>4, <4>2, <5>1 DEF OneEach
        <5> QED
          BY <1>3, <5>1, <5>2
      <4>3. CASE ~(e.at < view.at) /\ view.bolt11 # e.n
        <5>1. view'.bolt11 = e.n
          <6>1. Dep!setDepositBolt11(e.n, e.at)
            BY <1>1
          <6> QED
            BY <4>3, <6>1, InvoiceTaken
        <5> QED
          BY <1>5, <4>3, <5>1
      <4> QED
        BY <4>1, <4>2, <4>3
    <3> QED
      BY <1>1, <1>4, <1>5, <3>1 DEF InvoicesHeard
  <2>3. StatusesHeard'
    <3>1. e.kind \in DepositStatuses /\ e.at >= view.at /\ e.n \in paid => view.statusAt >= e.at
      <4> SUFFICES ASSUME e.kind \in DepositStatuses, e.at >= view.at, e.n \in paid PROVE view.statusAt >= e.at
        OBVIOUS
      <4>1. Dep!setDepositStatus(e.kind, e.at)
        BY <1>1, Strings
      <4>2. CASE e.at < view.statusAt
        BY <1>3, <4>2
      <4>3. CASE view.status = e.kind
        <5>1. view.status # ""
          BY <4>3, Strings
        <5>2. PICK s \in notices : s.kind = view.status /\ s.at = view.statusAt /\ view.statusAt >= view.at
          BY <1>4, <5>1 DEF Shown
        <5>3. CASE s.at < e.at
          <6>1. s.n <= e.n
            BY <1>3, <5>3, LaterInvoice DEF Inv
          <6>2. e.n <= view.bolt11
            BY <1>4, PaidIsNotLater DEF Inv
          <6>3. view.bolt11 # 0
            BY <1>3, <6>2
          <6>4. PICK b \in notices : b.kind = "required" /\ b.n = view.bolt11 /\ b.at = view.at
            BY <1>4, <6>3 DEF Shown
          <6>5. b.at <= s.at
            BY <5>2, <6>4
          <6>6. view.bolt11 <= s.n
            BY <6>4, <6>5, LaterInvoice DEF Inv
          <6>7. s.n = e.n
            BY <1>3, <6>1, <6>2, <6>6
          <6>8. s = e
            BY <1>4, <4>3, <5>2, <6>7 DEF OneEach
          <6> QED
            BY <1>3, <5>3, <6>8
        <5> QED
          BY <1>3, <5>2, <5>3
      <4>4. CASE ~(e.at < view.statusAt) /\ view.status # e.kind
        <5>1. view' = [view EXCEPT !.status = e.kind, !.statusAt = e.at]
          BY <1>3, <4>1, <4>4 DEF Dep!setDepositStatus
        <5>2. view'.status = e.kind
          BY <1>3, <5>1 DEF View
        <5> QED
          BY <1>5, <4>4, <5>2
      <4> QED
        BY <4>2, <4>3, <4>4
    <3> QED
      BY <1>1, <1>2, <1>4, <1>5, <3>1 DEF StatusesHeard
  <2>4. Dep!NeverBack
    <3>1. view.bolt11 >= view.bolt11
      BY <1>0
    <3>2. "accepted" \notin Dep!Ended
      BY Strings
    <3> QED
      BY <1>5, <3>1, <3>2 DEF Dep!NeverBack
  <2> QED
    BY <2>1, <2>2, <2>3, <2>4 DEF Viewed
<1>6. CASE e.kind = "required" /\ view' # view
  <2> DEFINE later == view.statusAt >= e.at
  <2>1. /\ view.bolt11 # e.n /\ ~(e.at < view.at)
        /\ view'.bolt11 = e.n /\ view'.at = e.at
        /\ view'.status = (IF later THEN view.status ELSE "")
        /\ view'.statusAt = (IF later THEN view.statusAt ELSE 0)
    <3>1. Dep!setDepositBolt11(e.n, e.at)
      BY <1>1, <1>6
    <3>2. view.bolt11 # e.n /\ ~(e.at < view.at)
      BY <1>6, <3>1, Zenon DEF Dep!setDepositBolt11
    <3> QED
      <4>1. /\ view'.bolt11 = e.n /\ view'.at = e.at
            /\ view'.status = (IF view.statusAt >= e.at THEN view.status ELSE "")
            /\ view'.statusAt = (IF view.statusAt >= e.at THEN view.statusAt ELSE 0)
        BY <3>1, <3>2, InvoiceTaken
      <4> QED
        BY <3>2, <4>1 DEF later
  <2>2. view.bolt11 < e.n /\ view.at <= e.at
    <3>1. view.at <= e.at
      <4>1. ~(e.at < view.at)
        BY <2>1
      <4> QED
        BY <1>0, <4>1
    <3>2. CASE view.bolt11 = 0
      <4>1. e.n # 0
        BY <1>3
      <4> QED
        BY <1>0, <3>1, <3>2, <4>1
    <3>3. CASE view.bolt11 # 0
      <4>1. PICK b \in notices : b.kind = "required" /\ b.n = view.bolt11 /\ b.at = view.at
        BY <1>4, <3>3 DEF Shown
      <4>2. b.n <= e.n
        BY <3>1, <4>1, LaterInvoice DEF Inv
      <4>3. view.bolt11 <= e.n /\ view.bolt11 # e.n
        BY <2>1, <4>1, <4>2
      <4> QED
        BY <1>0, <3>1, <4>3
    <3> QED
      BY <3>2, <3>3
  <2>3. Shown'
    <3>1. view'.bolt11 # 0 /\ \E r \in notices : r.kind = "required" /\ r.n = view'.bolt11 /\ r.at = view'.at
      BY <1>3, <1>6, <2>1
    <3>2. CASE later
      <4>1. view'.status = view.status /\ view'.statusAt = view.statusAt /\ view.statusAt >= view'.at
        <5>1. view'.at = e.at /\ view'.status = view.status /\ view'.statusAt = view.statusAt
          BY <2>1, <3>2, Zenon
        <5> QED
          BY <3>2, <5>1, Zenon DEF later
      <4> QED
        BY <1>2, <1>4, <3>1, <4>1 DEF Shown
    <3>3. CASE ~later
      BY <1>2, <2>1, <3>1, <3>3 DEF Shown
    <3> QED
      BY <3>2, <3>3
  <2>4. InvoicesHeard'
    <3>1. \A f \in heard : f.at <= view.at => f.at <= e.at
      BY <1>3, <2>2
    <3>2. e.at <= e.at
      BY <1>3
    <3> QED
      BY <1>1, <1>4, <2>1, <3>1, <3>2 DEF InvoicesHeard
  <2>5. StatusesHeard'
    <3> SUFFICES ASSUME NEW f \in heard', f.kind \in DepositStatuses, f.at >= e.at, f.n \in paid PROVE FALSE
      BY <1>2, <2>1 DEF StatusesHeard
    <3>1. f \in heard
      BY <1>1, <1>6, Strings
    <3>2. e.n <= f.n
      BY <1>3, <3>1, LaterInvoice DEF Inv
    <3>3. f.n <= view.bolt11
      BY <1>4, PaidIsNotLater DEF Inv
    <3> QED
      BY <1>3, <2>2, <3>1, <3>2, <3>3
  <2>6. PaidIsShown'
    <3>1. \A r \in notices : r.at <= view.at => r.at <= e.at
      BY <1>3, <2>2
    <3> QED
      BY <1>2, <1>4, <2>1, <3>1 DEF PaidIsShown
  <2>7. Dep!NeverBack
    <3>1. view'.bolt11 >= view.bolt11 /\ view'.bolt11 # view.bolt11
      <4>1. e.n >= view.bolt11 /\ e.n # view.bolt11
        BY <1>0, <2>2
      <4>2. view'.bolt11 = e.n
        BY <2>1
      <4> QED
        BY <4>1, <4>2
    <3> QED
      BY <3>1 DEF Dep!NeverBack
  <2> QED
    BY <2>3, <2>4, <2>5, <2>6, <2>7 DEF Viewed
<1>7. CASE e.kind # "required" /\ view' # view
  <2>1. /\ ~(e.at < view.at) /\ ~(e.at < view.statusAt) /\ view.status # e.kind
        /\ view' = [view EXCEPT !.status = e.kind, !.statusAt = e.at]
    BY <1>1, <1>7 DEF Dep!setDepositStatus
  <2>2. view'.bolt11 = view.bolt11 /\ view'.at = view.at /\ view'.status = e.kind /\ view'.statusAt = e.at
    BY <1>3, <2>1 DEF View
  <2>3. e.at >= view.at /\ e.at >= view.statusAt /\ e.kind # ""
    <3>1. ~(e.at < view.at) /\ ~(e.at < view.statusAt)
      BY <2>1
    <3>2. e.at >= view.at /\ e.at >= view.statusAt
      BY <1>0, <3>1
    <3>3. e.kind # ""
      BY <1>3, Strings
    <3> QED
      BY <3>2, <3>3
  <2>4. Shown'
    BY <1>2, <1>4, <2>2, <2>3 DEF Shown
  <2>5. InvoicesHeard'
    BY <1>1, <1>4, <1>7, <2>2 DEF InvoicesHeard
  <2>6. StatusesHeard'
    <3>1. \A f \in heard : view.statusAt >= f.at => e.at >= f.at
      <4>1. \A f \in heard : f.at \in Nat
        BY <1>3
      <4>2. \A a \in Nat : view.statusAt >= a => e.at >= a
        BY <1>0, <2>3, Numbers, Zenon
      <4> QED
        BY <4>1, <4>2, Zenon
    <3>2. e.at >= e.at
      BY <1>3
    <3> QED
      BY <1>1, <1>2, <1>4, <2>2, <3>1, <3>2 DEF StatusesHeard
  <2>7. PaidIsShown'
    BY <1>2, <1>4, <2>2 DEF PaidIsShown
  <2>8. Dep!NeverBack
    <3> SUFFICES ASSUME view.status \in Dep!Ended, e.kind = "accepted" PROVE FALSE
      BY <1>3, <2>2 DEF Dep!NeverBack
    <3>1. PICK s \in notices : s.kind = view.status /\ s.at = view.statusAt /\ view.statusAt >= view.at
      BY <1>4 DEF Shown, Dep!Ended
    <3>2. s.n <= e.n
      BY <2>3, <1>3, <3>1, LaterInvoice DEF Inv
    <3>3. e.n \in paid
      BY DEF Inv, Books, Noted
    <3>4. e.n <= view.bolt11
      BY <1>4, <3>3, PaidIsNotLater DEF Inv
    <3>5. view.bolt11 <= s.n
      <4>1. view.bolt11 # 0
        BY <1>3, <3>4
      <4>2. PICK b \in notices : b.kind = "required" /\ b.n = view.bolt11 /\ b.at = view.at
        BY <1>4, <4>1 DEF Shown
      <4>3. b.at <= s.at
        BY <3>1, <4>2
      <4> QED
        BY <4>2, <4>3, LaterInvoice DEF Inv
    <3>6. s.n = e.n
      BY <1>3, <3>2, <3>4, <3>5
    <3>7. e.at <= s.at
      BY <3>1, <3>6 DEF Inv, Ordered, EndLast
    <3>8. e.at = s.at
      BY <1>3, <2>3, <3>1, <3>7
    <3>9. e = s
      BY <1>4, <3>8 DEF Dated
    <3> QED
      BY <2>1, <3>1, <3>9
  <2> QED
    BY <2>4, <2>5, <2>6, <2>7, <2>8 DEF Viewed
<1> QED
  BY <1>5, <1>6, <1>7

\* The sponsor pays the invoice he is shown.
LEMMA InvOfPay ==
  ASSUME Dep!DepositNoticesAssumption, Inv, Dep!Pay
  PROVE  Ordered' /\ Books' /\ Viewed'
<1>1. /\ paid' = paid \cup {Dep!Offered} /\ Dep!Offered # 0 /\ row[Dep!Offered] = "open"
      /\ UNCHANGED <<now, claim, claims, row, disposing, notices, heard, view>>
  BY DEF Dep!Pay
<1>2. Dep!Offered = view.bolt11 /\ view.bolt11 # 0
  BY <1>1 DEF Dep!Offered
<1>3. Ordered'
  BY <1>1 DEF Inv, Ordered, Dated, Ranked, OneEach, InvoiceFirst, EndLast
<1>4. Books'
  <2>1. Noted'
    BY <1>1 DEF Inv, Books, Noted
  <2> QED
    BY <1>1, <2>1 DEF Inv, Books, OpenIsNoted, LiveIsLast, Undone
<1>5. PaidIsShown'
  <2>1. PICK r \in notices : r.kind = "required" /\ r.n = view.bolt11 /\ r.at = view.at
    BY <1>2 DEF Inv, Viewed, Shown
  <2>2. r.at <= view.at
    BY <2>1, Bounds DEF Inv
  <2> QED
    BY <1>1, <1>2, <2>1, <2>2 DEF Inv, Viewed, PaidIsShown
<1>6. StatusesHeard'
  <2>1. \A e \in heard : e.kind \in DepositStatuses => e.n # Dep!Offered
    BY <1>1 DEF Inv, DepositTyped, Dep!TypeOK, Books, Noted
  <2> QED
    BY <1>1, <2>1 DEF Inv, Viewed, StatusesHeard
<1>7. Shown' /\ InvoicesHeard'
  BY <1>1 DEF Inv, Viewed, Shown, InvoicesHeard
<1> QED
  BY <1>3, <1>4, <1>5, <1>6, <1>7 DEF Viewed

LEMMA InvOfNext ==
  ASSUME Dep!DepositNoticesAssumption, Orderly, Inv, [Dep!Next]_(Dep!vars)
  PROVE  Inv' /\ Dep!NeverBack
<1>1. DepositTyped'
  BY TypedOfNext DEF Inv
<1>2. view' = view => Dep!NeverBack
  <2>1. view.bolt11 \in Nat
    BY DEF Inv, DepositTyped, View
  <2>2. view.bolt11 >= view.bolt11 /\ "accepted" \notin Dep!Ended
    BY <2>1, Strings
  <2> QED
    BY <2>2 DEF Dep!NeverBack
<1>3. CASE Dep!handleInboxEvent
  <2>1. Viewed' /\ Dep!NeverBack
    BY <1>3, ViewedOfInbox
  <2>2. UNCHANGED <<now, claim, claims, row, paid, disposing, notices>>
    BY <1>3 DEF Dep!handleInboxEvent, Dep!daemon
  <2>3. Ordered' /\ Books'
    BY <2>2 DEF Inv, Ordered, Dated, Ranked, OneEach, InvoiceFirst, EndLast,
                Books, Noted, OpenIsNoted, LiveIsLast, Undone
  <2> QED
    BY <1>1, <2>1, <2>3 DEF Inv
<1>4. CASE Dep!Pay
  BY <1>1, <1>2, <1>4, InvOfPay DEF Inv, Dep!Pay
<1>5. ASSUME NEW n \in Dep!Claims,
             \/ Dep!created(n) \/ Dep!accepted(n) \/ Dep!nodeCancelled(n)
             \/ Dep!disposed(n) /\ row[n] # "planned"
             \/ Dep!closed /\ n = claim
      PROVE  Inv' /\ Dep!NeverBack
  <2>1. PICK to, kind : Turns(n, to, kind)
    BY <1>5, TurnsOfNext
  <2>2. view' = view
    BY <2>1 DEF Turns
  <2> QED
    BY <1>1, <1>2, <2>1, <2>2, InvOfTurn DEF Inv
<1>6. CASE Dep!planSponsorDeposit \/ Dep!revertClaim \/ \E n \in Dep!Claims : Dep!disposed(n) /\ row[n] = "planned"
  <2>1. view' = view
    BY <1>6 DEF Dep!planSponsorDeposit, Dep!revertClaim, Dep!disposed
  <2> QED
    BY <1>1, <1>2, <1>6, <2>1, InvOfClaims DEF Inv
<1>7. CASE Dep!OwnMoves \/ Dep!applyDepositStatus \/ Dep!Reload \/ Dep!Elapse \/ UNCHANGED Dep!vars
  <2>1. UNCHANGED <<claim, claims, row, paid, disposing, notices, view>> /\ heard' \subseteq heard
    BY <1>7 DEF Dep!OwnMoves, Dep!applyDepositStatus, Dep!Reload, Dep!Elapse, Dep!vars, Dep!daemon
  <2>2. Ordered' /\ Books'
    BY <2>1 DEF Inv, Ordered, Dated, Ranked, OneEach, InvoiceFirst, EndLast,
                Books, Noted, OpenIsNoted, LiveIsLast, Undone
  <2>3. Viewed'
    BY <2>1 DEF Inv, Viewed, Shown, InvoicesHeard, StatusesHeard, PaidIsShown
  <2> QED
    BY <1>1, <1>2, <2>1, <2>2, <2>3 DEF Inv
<1>8. Dep!closed => claim \in Dep!Claims
  BY Bounds DEF Dep!closed, Inv
<1> QED
  BY <1>3, <1>4, <1>5, <1>6, <1>7, <1>8 DEF Dep!Next

-----------------------------------------------------------------------------
THEOREM NoticesAreTyped == ASSUME Dep!DepositNoticesAssumption PROVE Dep!Spec => []Dep!TypeOK
<1>1. DepositTyped => Dep!TypeOK
  BY DEF DepositTyped
<1> QED
  BY <1>1, TypedStarts, TypedOfNext, PTL DEF Dep!Spec

\* What the inductive invariant says of a store that has heard everything.
LEMMA HeardIsShown ==
  ASSUME Dep!DepositNoticesAssumption, Inv, Dep!AllHeard
  PROVE  Dep!OfferIsWaiting /\ Dep!StatusFitsInvoice
<1>1. /\ \A f \in notices : f.at \in Nat \ {0} /\ f.n \in Nat /\ f.n \in Dep!Claims
      /\ view.at \in Nat /\ view.statusAt \in Nat /\ view.bolt11 \in Nat /\ view.bolt11 <= claims
      /\ claims \in Nat /\ \A f \in notices : f.n <= claims
  <2>1. claims \in Nat /\ view.bolt11 \in 0 .. claims /\ \A f \in notices : f.n \in 1 .. claims
    BY Bounds DEF Inv, DepositTyped, Dep!TypeOK
  <2>2. view.at \in Nat /\ view.statusAt \in Nat
    BY DEF Inv, DepositTyped, View
  <2>3. view.bolt11 \in Nat /\ view.bolt11 <= claims /\ \A f \in notices : f.n <= claims
    BY <2>1
  <2> QED
    BY <2>1, <2>2, <2>3, Bounds DEF Inv
<1>2. \A r \in notices : r.kind = "required" => r.at <= view.at
  BY DEF Dep!AllHeard, Inv, Viewed, InvoicesHeard
<1>3. ASSUME NEW f \in notices PROVE f.n <= view.bolt11 /\ view.bolt11 # 0
  <2>1. PICK r \in notices : r.n = f.n /\ r.kind = "required" /\ r.at <= f.at
    BY DEF Inv, Ordered, InvoiceFirst
  <2>2. r.at <= view.at
    BY <1>2, <2>1
  <2>3. view.at # 0
    BY <1>1, <2>2
  <2>4. view.bolt11 # 0
    BY <2>3 DEF Inv, Viewed, Shown
  <2>5. PICK b \in notices : b.kind = "required" /\ b.n = view.bolt11 /\ b.at = view.at
    BY <2>4 DEF Inv, Viewed, Shown
  <2> QED
    BY <2>1, <2>2, <2>4, <2>5, LaterInvoice DEF Inv
\* A status that is shown is of the invoice that is shown.
<1>4. ASSUME view.status # ""
      PROVE  \E s \in notices : s.kind = view.status /\ s.at = view.statusAt /\ s.n = view.bolt11 /\ s.at >= view.at
  <2>1. PICK s \in notices : s.kind = view.status /\ s.at = view.statusAt /\ view.statusAt >= view.at
    BY <1>4 DEF Inv, Viewed, Shown
  <2>2. s.n <= view.bolt11 /\ view.bolt11 # 0
    BY <1>3
  <2>3. PICK b \in notices : b.kind = "required" /\ b.n = view.bolt11 /\ b.at = view.at
    BY <2>2 DEF Inv, Viewed, Shown
  <2>4. b.at <= s.at
    BY <2>1, <2>3
  <2>5. b.n <= s.n
    BY <2>4, LaterInvoice DEF Inv
  <2> QED
    BY <1>1, <2>1, <2>2, <2>3, <2>5
<1>5. view.status # "" => view.status \in DepositStatuses
  BY DEF Inv, DepositTyped, View
<1>6. Dep!OfferIsWaiting
  <2> SUFFICES ASSUME claim # 0, row[claim] = "open", claim \notin paid PROVE Dep!Offered = claim
    BY DEF Dep!OfferIsWaiting
  <2>1. claim \in Dep!Claims /\ claim = claims
    BY Bounds DEF Inv, Books, Undone
  <2>2. PICK r \in notices : r.n = claim /\ r.kind = "required"
    BY <2>1 DEF Inv, Books, OpenIsNoted
  <2>3. view.bolt11 = claim
    <3>1. claim <= view.bolt11
      BY <1>3, <2>2
    <3> QED
      BY <1>1, <2>1, <3>1
  <2>4. view.status = ""
    <3> SUFFICES ASSUME view.status # "" PROVE FALSE
      OBVIOUS
    <3>1. PICK s \in notices : s.kind = view.status /\ s.n = view.bolt11
      BY <1>4
    <3>2. row[s.n] # "open"
      BY <1>5, <3>1 DEF Inv, Books, Noted
    <3> QED
      BY <2>3, <3>1, <3>2
  <2> QED
    BY <2>3, <2>4 DEF Dep!Offered
<1>7. Dep!StatusFitsInvoice
  <2> SUFFICES ASSUME view.status # "" PROVE row[view.bolt11] = view.status
    BY DEF Dep!StatusFitsInvoice
  <2>1. PICK s \in notices : s.kind = view.status /\ s.at = view.statusAt /\ s.n = view.bolt11 /\ s.at >= view.at
    BY <1>4
  <2>2. CASE view.status \in Dep!Ended
    BY <2>1, <2>2 DEF Inv, Books, Noted
  <2>3. CASE view.status = "accepted"
    <3>1. s.n \in paid /\ (row[s.n] = "accepted" \/ \E f \in notices : f.n = s.n /\ f.kind = row[s.n])
      BY <2>1, <2>3 DEF Inv, Books, Noted
    <3>2. ASSUME NEW f \in notices, f.n = s.n, f.kind = row[s.n] PROVE row[s.n] = "accepted"
      <4>1. row[s.n] \notin {"none", "planned", "open"}
        BY <1>5, <2>1 DEF Inv, Books, Noted
      <4>2. CASE f.kind \in Dep!Ended
        <5>1. s.at <= f.at
          BY <3>2, <4>2 DEF Inv, Ordered, EndLast
        <5>0. f.at \in Nat /\ s.at \in Nat /\ view.at \in Nat /\ s.at >= view.at
          BY <1>1, <2>1
        <5>2. f.at >= view.at
          BY <5>0, <5>1, Numbers, Zenon
        <5>3. f.kind \in DepositStatuses /\ f \in heard
          BY <4>2 DEF DepositStatuses, Dep!AllHeard
        <5>4. view.statusAt >= f.at
          BY <3>1, <3>2, <5>2, <5>3 DEF Inv, Viewed, StatusesHeard
        <5>5. f.at = s.at
          <6>1. s.at >= f.at
            BY <2>1, <5>4
          <6> QED
            BY <5>0, <5>1, <6>1, Numbers, Zenon
        <5>6. f = s
          BY <5>5 DEF Inv, Ordered, Dated
        <5> QED
          BY <2>1, <2>3, <4>2, <5>6, Strings
      <4>3. row[s.n] \in States
        BY <1>1 DEF Inv, DepositTyped
      <4> QED
        BY <3>2, <4>1, <4>2, <4>3 DEF States, Dep!Live
    <3> QED
      BY <2>1, <2>3, <3>1, <3>2
  <2> QED
    BY <1>5, <2>2, <2>3 DEF DepositStatuses
<1> QED
  BY <1>6, <1>7

\* Where notices are dated a second apart and an invoice waits until the earlier deposits are disposed
\* of, whoever has to pay is offered the invoice that waits for him, the status that is shown is that of
\* the invoice that is shown, and the sponsor's store never turns back (deposit-store.ts), for any number
\* of claims and reloads, in whatever order the relays hand the notices over.
THEOREM StoreFollowsClaims ==
  ASSUME Dep!DepositNoticesAssumption, Orderly
  PROVE  Dep!Spec => [](Dep!OfferIsWaiting /\ Dep!StatusFitsInvoice) /\ [][Dep!NeverBack]_(Dep!vars)
<1>1. Dep!Init => Inv
  BY InvStarts
<1>2. Inv /\ [Dep!Next]_(Dep!vars) => Inv'
  BY InvOfNext
<1>3. Inv /\ [Dep!Next]_(Dep!vars) => [Dep!NeverBack]_(Dep!vars)
  BY InvOfNext
<1>4. Inv => Dep!OfferIsWaiting /\ Dep!StatusFitsInvoice
  BY HeardIsShown DEF Dep!OfferIsWaiting, Dep!StatusFitsInvoice
<1> QED
  BY <1>1, <1>2, <1>3, <1>4, PTL DEF Dep!Spec

\* Of a claim one invoice is announced, by the claim in force; what the store shows was announced.
Asked == \A e \in notices : e.kind = "required" => row[e.n] # "planned"
AskedOnce == \A e, f \in notices : e.kind = "required" /\ f.kind = "required" /\ e.n = f.n => e = f
InTurn == \A e, f \in notices : e.kind = "required" /\ f.kind = "required" /\ e.n < f.n => e.at <= f.at
PlannedIsLast == \A n \in Dep!Claims : row[n] = "planned" /\ n \notin disposing => claim = n /\ n = claims
ShowsAsked == \/ view.bolt11 = 0 /\ view.at = 0
              \/ \E r \in notices : r.kind = "required" /\ r.n = view.bolt11 /\ r.at = view.at
Announced == Asked /\ AskedOnce /\ InTurn /\ ShowsAsked /\ InvoicesHeard

\* A step that announces no invoice leaves what was announced.
LEMMA AnnouncedOfOther ==
  ASSUME Announced, notices \subseteq notices', \A e \in notices' : e.kind = "required" => e \in notices,
         \A e \in notices : row'[e.n] = "planned" => row[e.n] = "planned", heard' \subseteq heard, view' = view
  PROVE  Announced'
BY DEF Announced, Asked, AskedOnce, InTurn, ShowsAsked, InvoicesHeard

LEMMA AnnouncedOfCreated ==
  ASSUME Dep!DepositNoticesAssumption, DepositTyped, Announced, PlannedIsLast, NEW n \in Dep!Claims, Dep!created(n)
  PROVE  Announced'
<1>1. /\ row[n] = "planned" /\ n = claims /\ UNCHANGED <<heard, view>>
      /\ notices' = notices \cup {Dep!Notice(n, "required")} /\ row' = [row EXCEPT ![n] = "open"]
  BY DEF Dep!created, Dep!sendDepositRequired, Dep!send, PlannedIsLast
<1>2. PICK a : a = Dep!Notice(n, "required")
  OBVIOUS
<1>3. a.n = n /\ a.kind = "required" /\ a.at = now /\ notices' = notices \cup {a}
  BY <1>1, <1>2 DEF Dep!Notice
<1>4. \A e \in notices : e.n \in Nat /\ e.at \in Nat /\ e.n <= n /\ e.at <= now /\ (e.kind = "required" => e.n # n)
  <2>1. \A e \in notices : e.n \in 1 .. claims /\ e.at \in 1 .. now
    BY DEF DepositTyped
  <2>2. claims \in Nat /\ now \in Nat
    BY Bounds
  <2> QED
    BY <1>1, <2>1, <2>2 DEF Announced, Asked
<1>5. \A e \in notices' : row'[e.n] # "planned" \/ e.kind # "required"
  <2>1. \A m \in Dep!Claims : row'[m] = IF m = n THEN "open" ELSE row[m]
    BY <1>1 DEF DepositTyped
  <2>2. \A e \in notices : e.n \in Dep!Claims
    BY Bounds
  <2> QED
    BY <1>3, <2>1, <2>2 DEF Announced, Asked
<1>6. AskedOnce'
  BY <1>3, <1>4 DEF Announced, AskedOnce
<1>7. InTurn'
  <2>1. n \in Nat /\ now \in Nat /\ ~(n < n)
    BY Bounds
  <2>2. \A e \in notices : ~(n < e.n)
    BY <1>4, <2>1
  <2> QED
    BY <1>3, <1>4, <2>1, <2>2 DEF Announced, InTurn
<1>8. ShowsAsked' /\ InvoicesHeard'
  BY <1>1 DEF Announced, ShowsAsked, InvoicesHeard
<1> QED
  BY <1>5, <1>6, <1>7, <1>8 DEF Announced, Asked

\* What the store takes is dated no earlier than what it has.
LEMMA AnnouncedOfInbox ==
  ASSUME Dep!DepositNoticesAssumption, DepositTyped, Announced, Dep!handleInboxEvent
  PROVE  Announced' /\ view'.at >= view.at /\ (view'.bolt11 < view.bolt11 => view'.at = view.at)
<1>1. PICK e \in notices \ heard :
        /\ heard' = heard \cup {e}
        /\ IF e.kind = "required" THEN Dep!setDepositBolt11(e.n, e.at) ELSE Dep!setDepositStatus(e.kind, e.at)
  BY DEF Dep!handleInboxEvent
<1>2. UNCHANGED <<notices, row>>
  BY DEF Dep!handleInboxEvent, Dep!daemon
<1>3. /\ e.at \in Nat /\ e.n \in Nat /\ view.at \in Nat /\ view.bolt11 \in Nat
      /\ e.n # 0 /\ \A f \in notices : f.at \in Nat /\ f.n \in Nat
  BY Bounds DEF DepositTyped, View
<1>4. Asked' /\ AskedOnce' /\ InTurn'
  BY <1>2 DEF Announced, Asked, AskedOnce, InTurn
<1>5. CASE e.kind = "required" /\ view.bolt11 # e.n /\ ~(e.at < view.at)
  <2>1. view'.bolt11 = e.n /\ view'.at = e.at
    BY <1>1, <1>5, InvoiceTaken
  <2>2. ShowsAsked'
    BY <1>2, <1>5, <2>1 DEF ShowsAsked
  <2>3. view.at <= e.at /\ e.at <= e.at
    BY <1>3, <1>5
  <2>4. \A f \in heard' : f.kind = "required" => f.at <= e.at
    <3>1. \A f \in heard : f \in notices
      BY DEF DepositTyped, Dep!TypeOK
    <3>2. \A f \in heard : f.kind = "required" => f.at <= e.at
      BY <1>3, <2>3, <3>1 DEF Announced, InvoicesHeard
    <3> QED
      BY <1>1, <2>3, <3>2
  <2>5. e.n < view.bolt11 => e.at = view.at
    <3> SUFFICES ASSUME e.n < view.bolt11 PROVE e.at = view.at
      OBVIOUS
    <3>1. view.bolt11 # 0
      BY <1>3
    <3>2. PICK r \in notices : r.kind = "required" /\ r.n = view.bolt11 /\ r.at = view.at
      BY <3>1 DEF Announced, ShowsAsked
    <3>3. e.at <= view.at
      BY <1>5, <3>2 DEF Announced, InTurn
    <3> QED
      BY <1>3, <2>3, <3>3
  <2> QED
    BY <1>4, <2>1, <2>2, <2>3, <2>4, <2>5 DEF Announced, InvoicesHeard
<1>6. CASE ~(e.kind = "required" /\ view.bolt11 # e.n /\ ~(e.at < view.at))
  <2>1. view'.bolt11 = view.bolt11 /\ view'.at = view.at
    BY <1>1, <1>6 DEF Dep!setDepositBolt11, Dep!setDepositStatus, DepositTyped, View
  <2>2. e.kind = "required" => e.at <= view.at
    <3>1. CASE e.at < view.at
      BY <1>3, <3>1
    <3>2. CASE e.kind = "required" /\ view.bolt11 = e.n
      <4>1. PICK r \in notices : r.kind = "required" /\ r.n = view.bolt11 /\ r.at = view.at
        BY <1>3, <3>2 DEF Announced, ShowsAsked
      <4>2. r = e
        BY <3>2, <4>1 DEF Announced, AskedOnce
      <4> QED
        BY <1>3, <4>1, <4>2
    <3> QED
      BY <1>6, <3>1, <3>2
  <2>3. ShowsAsked' /\ InvoicesHeard'
    BY <1>1, <1>2, <2>1, <2>2 DEF Announced, ShowsAsked, InvoicesHeard
  <2>4. view'.at >= view.at /\ ~(view'.bolt11 < view.bolt11)
    BY <1>3, <2>1
  <2> QED
    BY <1>4, <2>3, <2>4 DEF Announced
<1> QED
  BY <1>5, <1>6

LEMMA AnnouncedOfNext ==
  ASSUME Dep!DepositNoticesAssumption, DepositTyped, Announced, PlannedIsLast, [Dep!Next]_(Dep!vars)
  PROVE  Announced' /\ PlannedIsLast' /\ view'.at >= view.at /\ (view'.bolt11 < view.bolt11 => view'.at = view.at)
<1>1. \A n \in Dep!Claims : n # 0 /\ n \in Nat
  BY Bounds
<1>2. \A e \in notices : e.n \in Dep!Claims /\ e.n # claims + 1
  <2>1. claims \in Nat /\ \A e \in notices : e.n \in Dep!Claims /\ e.n \in 1 .. claims
    BY Bounds DEF DepositTyped
  <2>2. \A m \in 1 .. claims : m # claims + 1
    BY <2>1
  <2> QED
    BY <2>1, <2>2
<1>3. view' = view => view'.at >= view.at /\ ~(view'.bolt11 < view.bolt11)
  <2>1. view.at \in Nat /\ view.bolt11 \in Nat
    BY DEF DepositTyped, View
  <2> QED
    BY <2>1
<1>4. CASE Dep!planSponsorDeposit
  <2>1. /\ claim = 0 /\ claim' = claims + 1 /\ claims' = claims + 1 /\ row' = [row EXCEPT ![claims + 1] = "planned"]
        /\ UNCHANGED <<disposing, notices, heard, view>>
    BY <1>4 DEF Dep!planSponsorDeposit
  <2>2. \A m \in Dep!Claims : m # claims + 1 => row'[m] = row[m]
    BY <2>1 DEF DepositTyped
  <2>3. Announced'
    BY <1>2, <2>1, <2>2, AnnouncedOfOther
  <2>4. PlannedIsLast'
    BY <1>1, <2>1, <2>2 DEF PlannedIsLast
  <2> QED
    BY <1>3, <2>1, <2>3, <2>4
<1>5. CASE Dep!Pay \/ Dep!OwnMoves \/ Dep!applyDepositStatus \/ Dep!Reload \/ Dep!Elapse \/ UNCHANGED Dep!vars
  <2>1. UNCHANGED <<claim, claims, row, disposing, notices, view>> /\ heard' \subseteq heard
    BY <1>5 DEF Dep!Pay, Dep!OwnMoves, Dep!applyDepositStatus, Dep!Reload, Dep!Elapse, Dep!vars, Dep!daemon
  <2>2. Announced'
    BY <2>1, AnnouncedOfOther
  <2> QED
    BY <1>3, <2>1, <2>2 DEF PlannedIsLast
<1>6. CASE Dep!revertClaim
  <2>1. /\ claim # 0 /\ disposing' = (IF row[claim] \in Dep!Live THEN disposing \cup {claim} ELSE disposing)
        /\ UNCHANGED <<row, notices, heard, view>>
    BY <1>6 DEF Dep!revertClaim
  <2>2. Announced'
    BY <2>1, AnnouncedOfOther
  <2>3. PlannedIsLast'
    BY <2>1 DEF PlannedIsLast, Dep!Live
  <2> QED
    BY <1>3, <2>1, <2>2, <2>3
<1>7. CASE Dep!handleInboxEvent
  <2>1. UNCHANGED <<claim, claims, row, disposing>>
    BY <1>7 DEF Dep!handleInboxEvent, Dep!daemon
  <2> QED
    BY <1>7, <2>1, AnnouncedOfInbox DEF PlannedIsLast
\* An invoice that is over, or on its way there.
<1>8. ASSUME NEW n \in Dep!Claims, NEW to, NEW kind, to # "planned", kind # "required", row' = [row EXCEPT ![n] = to],
             notices' = notices \/ notices' = notices \cup {Dep!Notice(n, kind)},
             disposing \subseteq disposing' \cup {n}, claims' = claims, claim' = claim \/ row[claim] # "planned", UNCHANGED <<heard, view>>
      PROVE  Announced' /\ PlannedIsLast' /\ view'.at >= view.at /\ (view'.bolt11 < view.bolt11 => view'.at = view.at)
  <2>1. \A m \in Dep!Claims : row'[m] = "planned" => m # n /\ row[m] = "planned"
    BY <1>8 DEF DepositTyped
  <2>2. Dep!Notice(n, kind).kind # "required"
    BY <1>8 DEF Dep!Notice
  <2>3. Announced'
    BY <1>2, <1>8, <2>1, <2>2, AnnouncedOfOther
  <2>4. PlannedIsLast'
    BY <1>8, <2>1 DEF PlannedIsLast
  <2> QED
    BY <1>3, <1>8, <2>3, <2>4
<1>9. ASSUME NEW n \in Dep!Claims, Dep!created(n)
      PROVE  Announced' /\ PlannedIsLast' /\ view'.at >= view.at /\ (view'.bolt11 < view.bolt11 => view'.at = view.at)
  <2>1. row' = [row EXCEPT ![n] = "open"] /\ UNCHANGED <<claim, claims, disposing, view>>
    BY <1>9 DEF Dep!created
  <2>2. \A m \in Dep!Claims : row'[m] = "planned" => row[m] = "planned"
    BY <2>1 DEF DepositTyped
  <2>3. PlannedIsLast'
    BY <2>1, <2>2 DEF PlannedIsLast
  <2> QED
    BY <1>3, <1>9, <2>1, <2>3, AnnouncedOfCreated
<1>10. ASSUME NEW n \in Dep!Claims, Dep!accepted(n)
       PROVE  Announced' /\ PlannedIsLast' /\ view'.at >= view.at /\ (view'.bolt11 < view.bolt11 => view'.at = view.at)
  <2>1. /\ row' = [row EXCEPT ![n] = "accepted"] /\ UNCHANGED <<claim, claims, heard, view>> /\ disposing \subseteq disposing' \cup {n}
        /\ (notices' = notices \/ notices' = notices \cup {Dep!Notice(n, "accepted")})
    BY <1>10 DEF Dep!accepted, Dep!sendDepositStatus, Dep!send
  <2> QED
    BY <1>8, <2>1
<1>11. ASSUME NEW n \in Dep!Claims, Dep!nodeCancelled(n) \/ Dep!disposed(n)
       PROVE  Announced' /\ PlannedIsLast' /\ view'.at >= view.at /\ (view'.bolt11 < view.bolt11 => view'.at = view.at)
  <2>1. /\ row' = [row EXCEPT ![n] = "cancelled"] /\ UNCHANGED <<claims, heard, view>> /\ disposing \subseteq disposing' \cup {n}
        /\ (notices' = notices \/ notices' = notices \cup {Dep!Notice(n, "cancelled")})
        /\ (claim' = claim \/ row[claim] # "planned")
    BY <1>11 DEF Dep!nodeCancelled, Dep!disposed, Dep!sendDepositStatus, Dep!send
  <2> QED
    BY <1>8, <2>1
<1>12. CASE Dep!closed
  <2>1. PICK how \in Dep!Ended : row' = [row EXCEPT ![claim] = how] /\ Dep!sendDepositStatus(claim, how)
    BY <1>12 DEF Dep!closed
  <2>2. claim # 0 /\ row[claim] = "accepted" /\ UNCHANGED <<claims, disposing, heard, view>>
    BY <1>12 DEF Dep!closed
  <2>3. claim \in Dep!Claims /\ how # "planned" /\ how # "required"
    BY <2>2, Bounds DEF Dep!Ended
  <2>4. notices' = notices \cup {Dep!Notice(claim, how)}
    BY <2>1 DEF Dep!sendDepositStatus, Dep!send
  <2> QED
    BY <1>8, <2>1, <2>2, <2>3, <2>4
<1> QED
  BY <1>4, <1>5, <1>6, <1>7, <1>9, <1>10, <1>11, <1>12 DEF Dep!Next

\* The invoice shown is the newest: with everything heard, that of a later claim is at most one of the same second.
NewestIsShown == Dep!AllHeard => \A e \in notices : e.kind = "required" /\ e.n > view.bolt11 => e.at = view.at
BackInASecond == view'.bolt11 < view.bolt11 => view'.at = view.at

\* setDepositBolt11 (deposit-store.ts): whatever is disposed of late, dated alike, handed over in any order and once
\* more after a reload, the sponsor's store shows the newest of the invoices it heard of, and turns back to that of an
\* earlier claim only from one of the same second.
THEOREM StoreShowsNewest ==
  ASSUME Dep!DepositNoticesAssumption
  PROVE  Dep!Spec => []NewestIsShown /\ [][BackInASecond]_(Dep!vars)
<1> DEFINE I == DepositTyped /\ Announced /\ PlannedIsLast
<1>1. Dep!Init => I
  <2> SUFFICES ASSUME Dep!Init PROVE Announced /\ PlannedIsLast
    BY TypedStarts
  <2>1. notices = {} /\ heard = {} /\ view.bolt11 = 0 /\ view.at = 0 /\ \A n \in Dep!Claims : row[n] = "none"
    BY DEF Dep!Init, Dep!NoDeposit
  <2> QED
    BY <2>1 DEF Announced, Asked, AskedOnce, InTurn, ShowsAsked, InvoicesHeard, PlannedIsLast
<1>2. I /\ [Dep!Next]_(Dep!vars) => I'
  BY TypedOfNext, AnnouncedOfNext
<1>3. I /\ [Dep!Next]_(Dep!vars) => [BackInASecond]_(Dep!vars)
  BY AnnouncedOfNext DEF BackInASecond
<1>4. I => NewestIsShown
  <2> SUFFICES ASSUME I, Dep!AllHeard, NEW e \in notices, e.kind = "required", e.n > view.bolt11
               PROVE  e.at = view.at
    BY DEF NewestIsShown
  <2>1. e.at <= view.at /\ e.at \in Nat \ {0} /\ view.at \in Nat
    BY Bounds DEF Dep!AllHeard, Announced, InvoicesHeard, DepositTyped, View
  <2>2. PICK r \in notices : r.kind = "required" /\ r.n = view.bolt11 /\ r.at = view.at
    BY <2>1 DEF Announced, ShowsAsked
  <2>3. r.n < e.n
    BY <2>2, Bounds
  <2>4. view.at <= e.at
    BY <2>2, <2>3 DEF Announced, InTurn
  <2> QED
    BY <2>1, <2>4
<1> HIDE DEF I
<1> QED
  BY <1>1, <1>2, <1>3, <1>4, PTL DEF Dep!Spec

-----------------------------------------------------------------------------
(* Push. *)

\* The sizes of the instance are those of its sets.
LEMMA SizesOfPush ==
  ASSUME NEW S
  PROVE  (Ring!IsFiniteSet(S) <=> IsFiniteSet(S)) /\ Ring!Cardinality(S) = Cardinality(S)
<1>1. Ring!IsFiniteSet(S) <=> IsFiniteSet(S)
  BY DEF IsFiniteSet, Ring!IsFiniteSet
<1>2. Ring!Cardinality(S) = Cardinality(S)
  BY DEF Cardinality, Ring!Cardinality
<1> QED
  BY <1>1, <1>2

PushWaits == {"idle", "unsubscribe", "subscribe", "publish"}
Panes == {"closed", "off", "on", "error", "unsubscribe", "subscribe", "publish"}

\* The subscriptions that a browser holds.
Held == {sub[d].ep : d \in Devices}
Crashes == MaxCrashes - left.crashes

Browsers ==
  /\ key \in 1 .. MaxKey /\ built \in [Devices -> 0 .. MaxKey]
  /\ sub \in [Devices -> [ep : 0 .. MaxEp, key : 0 .. MaxKey]]
  /\ mig \in [Devices -> PushWaits] /\ pan \in [Devices -> Panes]
  /\ migEp \in [Devices -> 0 .. MaxEp] /\ panEp \in [Devices -> 0 .. MaxEp] /\ lost \in [Devices -> BOOLEAN]
  /\ made \in 0 .. MaxEp /\ wire \subseteq 1 .. made
  /\ \A d \in Devices : sub[d] # Ring!NoSub => sub[d].ep \in 1 .. made
  /\ \A d \in Devices : mig[d] = "publish" => migEp[d] \in 1 .. made
  /\ \A d \in Devices : pan[d] = "publish" => panEp[d] \in 1 .. made
Lefts == left \in [{"faults", "crashes", "breaks", "disables"} -> Nat] /\ left.crashes <= MaxCrashes /\ left.breaks <= Breaks
RunType == [push : Ring!Pushes \cup {<<"none", 0>>}, to : SUBSET Ring!Eps, total : Nat, dead : SUBSET Ring!Eps, ok : Nat, errs : Nat]
PushRuns == /\ run \in RunType
            /\ run.dead \cap run.to = {} /\ run.ok + run.errs + Cardinality(run.to) <= run.total
Table == /\ rows \in [Ring!Eps -> {"none", "live", "dead"}]
         /\ status \in [Ring!Pushes -> {"none", "queued", "waiting", "done", "failed"}]
         /\ attempts \in [Ring!Pushes -> Nat] /\ queue \in Seq(Ring!Pushes)
Screens == /\ answered \in [Ring!Pushes -> [Ring!Eps -> Nat]]
           /\ visible \in [Devices -> SUBSET Ring!Pushes] /\ newest \in [Devices -> Nat]
PushTyped == Browsers /\ Lefts /\ PushRuns /\ Table /\ Screens

-----------------------------------------------------------------------------
LEMMA PushNumbers ==
  ASSUME Ring!PushAssumption
  PROVE  /\ MaxKey \in Nat \ {0} /\ MaxEp \in Nat /\ Versions \in Nat /\ Chats \in Nat /\ MaxFaults \in Nat
         /\ MaxCrashes \in Nat /\ Breaks \in Nat /\ Disables \in Nat
         /\ Ring!Eps \subseteq Nat /\ 0 \notin Ring!Eps /\ Ring!Eps = 1 .. MaxEp
BY DEF Ring!PushAssumption, Ring!Eps

LEMMA KindsOfPushes ==
  ASSUME Ring!PushAssumption, NEW p \in Ring!Pushes
  PROVE  /\ p[1] \in {"order", "chat", "welcome"} /\ p[2] \in Nat /\ p = <<p[1], p[2]>>
         /\ p[1] = "welcome" => p[2] \in Ring!Eps
         /\ p # <<"none", 0>>
BY DEF Ring!PushAssumption, Ring!Pushes, Ring!Eps

LEMMA WelcomeIsAPush ==
  ASSUME NEW e \in Ring!Eps
  PROVE  <<"welcome", e>> \in Ring!Pushes
BY DEF Ring!Pushes

\* The subscription that is posted to next is one of those that are left.
LEMMA NextIsThere ==
  ASSUME Ring!PushAssumption, PushTyped, run.to # {}
  PROVE  (CHOOSE f \in run.to : \A g \in run.to : f <= g) \in run.to
<1>1. run.to \subseteq Ring!Eps
  BY DEF PushTyped, PushRuns, RunType
<1>2. \E f \in run.to : \A g \in run.to : f <= g
  BY <1>1, Least, PushNumbers
<1> QED
  BY <1>2

LEMMA PushTypedStarts == ASSUME Ring!PushAssumption PROVE Ring!Init => PushTyped
<1> SUFFICES ASSUME Ring!Init PROVE PushTyped
  OBVIOUS
<1> USE PushNumbers
<1>1. Browsers
  BY DEF Ring!Init, Browsers, Ring!NoSub, Ring!None, PushWaits, Panes
<1>2. Lefts
  BY DEF Ring!Init, Lefts
<1>3. PushRuns
  <2>1. run = [push |-> <<"none", 0>>, to |-> {}, total |-> 0, dead |-> {}, ok |-> 0, errs |-> 0]
    BY DEF Ring!Init, Ring!Idle
  <2>2. Cardinality({}) = 0
    BY FS_EmptySet
  <2>3. run.to = {} /\ run.total = 0 /\ run.dead = {} /\ run.ok = 0 /\ run.errs = 0
    BY <2>1
  <2>4. run.ok + run.errs + Cardinality(run.to) <= run.total
    BY <2>2, <2>3
  <2> QED
    BY <2>1, <2>3, <2>4 DEF PushRuns, RunType
<1>4. Table /\ Screens
  BY DEF Ring!Init, Table, Screens, Ring!Pushes
<1> QED
  BY <1>1, <1>2, <1>3, <1>4 DEF PushTyped

-----------------------------------------------------------------------------
\* The browsers.

\* What a browser does to what the daemon relies on.
BrowserMoves ==
  /\ UNCHANGED <<key, Ring!daemon, Ring!screens>> /\ left' \in [{"faults", "crashes", "breaks", "disables"} -> Nat]
  /\ left'.crashes = left.crashes /\ left'.breaks <= left.breaks
  /\ made' \in {made, made + 1} /\ wire \subseteq wire'
  /\ Held' \subseteq Held \cup {0} \cup (made + 1 .. made')

LEMMA LeftOfSpend ==
  ASSUME Lefts, NEW what \in {"faults", "breaks", "disables"}, Ring!Spend(what)
  PROVE  /\ left' \in [{"faults", "crashes", "breaks", "disables"} -> Nat]
         /\ left'.crashes = left.crashes /\ left'.breaks <= left.breaks
         /\ what = "breaks" => left.breaks > 0
BY DEF Lefts, Ring!Spend

LEMMA LeftOfNothing ==
  ASSUME Lefts, UNCHANGED left
  PROVE  /\ left' \in [{"faults", "crashes", "breaks", "disables"} -> Nat]
         /\ left'.crashes = left.crashes /\ left'.breaks <= left.breaks
BY DEF Lefts

\* A subscription of device d: the one it had, none, or a new one.
NewSub(d) ==
  /\ sub' \in [Devices -> [ep : 0 .. MaxEp, key : 0 .. MaxKey]]
  /\ \A c \in Devices : c # d => sub'[c] = sub[c]
  /\ \/ sub'[d] \in {sub[d], Ring!NoSub} /\ made' = made
     \/ sub'[d].ep = made + 1 /\ made' = made + 1 /\ made < MaxEp

LEMMA HeldOfNewSub ==
  ASSUME Ring!PushAssumption, PushTyped, NEW d \in Devices, NewSub(d)
  PROVE  /\ Held' \subseteq Held \cup {0} \cup (made + 1 .. made') /\ made' \in {made, made + 1} /\ made' \in 0 .. MaxEp
         /\ \A c \in Devices : sub'[c] # Ring!NoSub => sub'[c].ep \in 1 .. made'
<1>1. made \in 0 .. MaxEp /\ MaxEp \in Nat /\ \A c \in Devices : sub[c] # Ring!NoSub => sub[c].ep \in 1 .. made
  BY PushNumbers DEF PushTyped, Browsers
<1>2. made' \in {made, made + 1} /\ made' \in 0 .. MaxEp
  BY <1>1 DEF NewSub
<1>3. Ring!NoSub.ep = 0
  BY DEF Ring!NoSub, Ring!None
<1>4. ASSUME NEW c \in Devices
      PROVE  sub'[c].ep \in Held \cup {0} \cup (made + 1 .. made')
  <2>1. CASE sub'[c] = sub[c]
    BY <2>1 DEF Held
  <2>2. CASE sub'[c] = Ring!NoSub
    BY <2>2, <1>3
  <2>3. CASE sub'[c].ep = made + 1 /\ made' = made + 1
    BY <1>1, <2>3
  <2> QED
    BY <2>1, <2>2, <2>3 DEF NewSub
<1>5. Held' \subseteq Held \cup {0} \cup (made + 1 .. made')
  BY <1>4 DEF Held
<1>6. ASSUME NEW c \in Devices, sub'[c] # Ring!NoSub
      PROVE  sub'[c].ep \in 1 .. made'
  <2>1. CASE sub'[c] = sub[c]
    BY <1>1, <1>2, <1>6, <2>1
  <2>2. CASE sub'[c].ep = made + 1 /\ made' = made + 1
    BY <1>1, <2>2
  <2> QED
    BY <1>6, <2>1, <2>2 DEF NewSub
<1> QED
  BY <1>2, <1>5, <1>6

LEMMA SubscribedIsNew ==
  ASSUME Ring!PushAssumption, PushTyped, NEW d \in Devices, Ring!Subscribed(d)
  PROVE  NewSub(d) /\ sub'[d] # Ring!NoSub
<1>1. /\ made \in 0 .. MaxEp /\ MaxEp \in Nat /\ sub \in [Devices -> [ep : 0 .. MaxEp, key : 0 .. MaxKey]]
      /\ built[d] \in 0 .. MaxKey
  BY PushNumbers DEF PushTyped, Browsers
<1>2. CASE sub[d] # Ring!NoSub
  BY <1>1, <1>2 DEF Ring!Subscribed, NewSub
<1>3. CASE sub[d] = Ring!NoSub
  <2> DEFINE s == [ep |-> made + 1, key |-> built[d]]
  <2>1. made < MaxEp /\ made' = made + 1 /\ sub' = [sub EXCEPT ![d] = s]
    BY <1>3 DEF Ring!Subscribed
  <2>2. s \in [ep : 0 .. MaxEp, key : 0 .. MaxKey] /\ s.ep = made + 1
    BY <1>1, <2>1
  <2>3. sub' \in [Devices -> [ep : 0 .. MaxEp, key : 0 .. MaxKey]] /\ sub'[d] = s /\ \A c \in Devices : c # d => sub'[c] = sub[c]
    BY <1>1, <2>1, <2>2
  <2>4. s # Ring!NoSub
    BY <1>1, <2>2 DEF Ring!NoSub, Ring!None
  <2> HIDE DEF s
  <2> QED
    BY <2>1, <2>2, <2>3, <2>4 DEF NewSub
<1> QED
  BY <1>2, <1>3

LEMMA DroppedIsNew ==
  ASSUME Ring!PushAssumption, PushTyped, NEW d \in Devices, made' = made,
         sub' = sub \/ sub' = [sub EXCEPT ![d] = Ring!NoSub] \/ sub' = [sub EXCEPT ![d] = IF Ring!usesCurrentKey(d) THEN @ ELSE Ring!NoSub]
  PROVE  NewSub(d) /\ sub'[d] \in {sub[d], Ring!NoSub}
<1>1. /\ MaxEp \in Nat /\ MaxKey \in Nat /\ sub \in [Devices -> [ep : 0 .. MaxEp, key : 0 .. MaxKey]]
      /\ Ring!NoSub \in [ep : 0 .. MaxEp, key : 0 .. MaxKey]
  BY PushNumbers DEF PushTyped, Browsers, Ring!NoSub, Ring!None
<1> QED
  BY <1>1 DEF NewSub

\* What a browser changes but for its subscription.
Others(d) ==
  /\ built' \in [Devices -> 0 .. MaxKey] /\ lost' \in [Devices -> BOOLEAN]
  /\ mig' \in [Devices -> PushWaits] /\ pan' \in [Devices -> Panes]
  /\ \A c \in Devices : c # d => /\ mig'[c] = mig[c] /\ pan'[c] = pan[c] /\ migEp'[c] = migEp[c] /\ panEp'[c] = panEp[c]
  /\ migEp' \in [Devices -> 0 .. MaxEp] /\ panEp' \in [Devices -> 0 .. MaxEp]
  /\ mig'[d] = "publish" => \/ migEp'[d] = migEp[d] /\ mig[d] = "publish"
                            \/ migEp'[d] = sub'[d].ep /\ sub'[d] # Ring!NoSub
  /\ pan'[d] = "publish" => \/ panEp'[d] = panEp[d] /\ pan[d] = "publish"
                            \/ panEp'[d] = sub'[d].ep /\ sub'[d] # Ring!NoSub
  /\ \/ wire' = wire
     \/ mig[d] = "publish" /\ wire' = wire \cup {migEp[d]}
     \/ pan[d] = "publish" /\ wire' = wire \cup {panEp[d]}
  /\ UNCHANGED <<key, Ring!daemon, Ring!screens>> /\ left' \in [{"faults", "crashes", "breaks", "disables"} -> Nat]
  /\ left'.crashes = left.crashes /\ left'.breaks <= left.breaks

LEMMA BrowserIsTyped ==
  ASSUME Ring!PushAssumption, PushTyped, NEW d \in Devices, NewSub(d), Others(d)
  PROVE  PushTyped' /\ BrowserMoves
<1>1. /\ Held' \subseteq Held \cup {0} \cup (made + 1 .. made') /\ made' \in {made, made + 1} /\ made' \in 0 .. MaxEp
      /\ \A c \in Devices : sub'[c] # Ring!NoSub => sub'[c].ep \in 1 .. made'
  BY HeldOfNewSub
<1>2. BrowserMoves
  BY <1>1 DEF BrowserMoves, Others
<1>3. made \in Nat /\ 1 .. made \subseteq 1 .. made'
  BY <1>1, PushNumbers DEF PushTyped, Browsers
<1>4. \A c \in Devices : mig'[c] = "publish" => migEp'[c] \in 1 .. made'
  BY <1>1, <1>3 DEF PushTyped, Browsers, Others
<1>5. \A c \in Devices : pan'[c] = "publish" => panEp'[c] \in 1 .. made'
  BY <1>1, <1>3 DEF PushTyped, Browsers, Others
<1>6. wire' \subseteq 1 .. made'
  BY <1>3 DEF PushTyped, Browsers, Others
<1>7. Browsers'
  BY <1>1, <1>4, <1>5, <1>6 DEF Browsers, PushTyped, Others, NewSub
<1>8. Lefts'
  <2>1. left.crashes \in Nat /\ left.breaks \in Nat /\ left'.crashes \in Nat /\ left'.breaks \in Nat /\ MaxCrashes \in Nat /\ Breaks \in Nat
    BY PushNumbers DEF PushTyped, Lefts, Others
  <2>2. left.crashes <= MaxCrashes /\ left.breaks <= Breaks
    BY DEF PushTyped, Lefts
  <2> QED
    BY <2>1, <2>2 DEF Lefts, Others
<1>9. PushRuns' /\ Table' /\ Screens'
  BY DEF PushTyped, PushRuns, Table, Screens, Others, Ring!daemon, Ring!screens
<1> QED
  BY <1>2, <1>7, <1>8, <1>9 DEF PushTyped

LEMMA BrowserSteps ==
  ASSUME Ring!PushAssumption, PushTyped, NEW d \in Devices, Ring!AtBrowser(d)
  PROVE  NewSub(d) /\ Others(d)
<1>1. /\ key \in 0 .. MaxKey /\ built \in [Devices -> 0 .. MaxKey]
      /\ sub \in [Devices -> [ep : 0 .. MaxEp, key : 0 .. MaxKey]]
      /\ mig \in [Devices -> PushWaits] /\ pan \in [Devices -> Panes]
      /\ migEp \in [Devices -> 0 .. MaxEp] /\ panEp \in [Devices -> 0 .. MaxEp] /\ lost \in [Devices -> BOOLEAN]
      /\ 0 \in 0 .. MaxKey /\ 0 \in 0 .. MaxEp /\ sub[d].ep \in 0 .. MaxEp
  <2>1. 0 \in 0 .. MaxKey /\ 0 \in 0 .. MaxEp
    BY PushNumbers
  <2>2. key \in 0 .. MaxKey /\ built \in [Devices -> 0 .. MaxKey]
    BY DEF PushTyped, Browsers
  <2>3. sub \in [Devices -> [ep : 0 .. MaxEp, key : 0 .. MaxKey]]
    BY DEF PushTyped, Browsers
  <2>4. mig \in [Devices -> PushWaits] /\ pan \in [Devices -> Panes]
    BY DEF PushTyped, Browsers
  <2>5. migEp \in [Devices -> 0 .. MaxEp] /\ panEp \in [Devices -> 0 .. MaxEp] /\ lost \in [Devices -> BOOLEAN]
    BY DEF PushTyped, Browsers
  <2>6. sub[d].ep \in 0 .. MaxEp
    BY ONLY <2>3, d \in Devices
  <2> QED
    BY ONLY <2>1, <2>2, <2>3, <2>4, <2>5, <2>6
<1>2. ASSUME UNCHANGED left
      PROVE  /\ left' \in [{"faults", "crashes", "breaks", "disables"} -> Nat]
             /\ left'.crashes = left.crashes /\ left'.breaks <= left.breaks
  BY <1>2, LeftOfNothing DEF PushTyped
<1>3. ASSUME Ring!Spend("breaks") \/ Ring!Spend("disables")
      PROVE  /\ left' \in [{"faults", "crashes", "breaks", "disables"} -> Nat]
             /\ left'.crashes = left.crashes /\ left'.breaks <= left.breaks
  BY <1>3, LeftOfSpend DEF PushTyped
<1>4. CASE Ring!Boot(d)
  <2>1. NewSub(d) /\ sub'[d] \in {sub[d], Ring!NoSub}
    BY <1>4, DroppedIsNew DEF Ring!Boot
  <2>2. Others(d)
    BY <1>1, <1>2, <1>4, <2>1 DEF Ring!Boot, Others, PushWaits, Panes, Ring!None
  <2> QED
    BY <2>1, <2>2
<1>5. CASE Ring!ClosePage(d)
  <2>1. NewSub(d) /\ sub'[d] \in {sub[d], Ring!NoSub}
    BY <1>5, DroppedIsNew DEF Ring!ClosePage
  <2>2. Others(d)
    BY <1>1, <1>2, <1>3, <1>5, <2>1 DEF Ring!ClosePage, Others, PushWaits, Panes, Ring!None
  <2> QED
    BY <2>1, <2>2
<1>6. CASE Ring!OpenSetup(d)
  <2>1. NewSub(d) /\ sub'[d] \in {sub[d], Ring!NoSub}
    BY <1>6, DroppedIsNew DEF Ring!OpenSetup
  <2>2. Others(d)
    BY <1>1, <1>2, <1>6, <2>1 DEF Ring!OpenSetup, Others, PushWaits, Panes, Ring!None
  <2> QED
    BY <2>1, <2>2
<1>7. CASE Ring!CloseSetup(d)
  <2>1. NewSub(d) /\ sub'[d] \in {sub[d], Ring!NoSub}
    BY <1>7, DroppedIsNew DEF Ring!CloseSetup
  <2>2. Others(d)
    BY <1>1, <1>2, <1>7, <2>1 DEF Ring!CloseSetup, Others, PushWaits, Panes, Ring!None
  <2> QED
    BY <2>1, <2>2
<1>8. CASE Ring!Enable(d)
  <2>1. NewSub(d) /\ sub'[d] \in {sub[d], Ring!NoSub}
    BY <1>8, DroppedIsNew DEF Ring!Enable
  <2>2. Others(d)
    BY <1>1, <1>2, <1>8, <2>1 DEF Ring!Enable, Others, PushWaits, Panes, Ring!None
  <2> QED
    BY <2>1, <2>2
<1>9. CASE Ring!Disable(d)
  <2>1. NewSub(d) /\ sub'[d] \in {sub[d], Ring!NoSub}
    BY <1>9, DroppedIsNew DEF Ring!Disable
  <2>2. Others(d)
    BY <1>1, <1>3, <1>9, <2>1 DEF Ring!Disable, Others, PushWaits, Panes, Ring!None
  <2> QED
    BY <2>1, <2>2
<1>10. CASE Ring!MigUnsubscribes(d)
  <2>1. NewSub(d) /\ sub'[d] \in {sub[d], Ring!NoSub}
    BY <1>10, DroppedIsNew DEF Ring!MigUnsubscribes
  <2>2. Others(d)
    BY <1>1, <1>2, <1>10, <2>1 DEF Ring!MigUnsubscribes, Others, PushWaits, Panes, Ring!None
  <2> QED
    BY <2>1, <2>2
<1>11. CASE Ring!MigSubscribes(d)
  <2>1. NewSub(d) /\ sub'[d] # Ring!NoSub /\ sub' \in [Devices -> [ep : 0 .. MaxEp, key : 0 .. MaxKey]] /\ sub'[d].ep \in 0 .. MaxEp
    BY <1>11, SubscribedIsNew DEF Ring!MigSubscribes, NewSub
  <2>2. Others(d)
    BY <1>1, <1>2, <1>11, <2>1 DEF Ring!MigSubscribes, Others, PushWaits, Panes, Ring!None
  <2> QED
    BY <2>1, <2>2
<1>12. CASE Ring!MigPublishes(d)
  <2>1. NewSub(d) /\ sub'[d] \in {sub[d], Ring!NoSub}
    BY <1>12, DroppedIsNew DEF Ring!MigPublishes
  <2>2. Others(d)
    BY <1>1, <1>2, <1>12, <2>1 DEF Ring!MigPublishes, Others, PushWaits, Panes, Ring!None
  <2> QED
    BY <2>1, <2>2
<1>13. CASE Ring!MigFails(d)
  <2>1. NewSub(d) /\ sub'[d] \in {sub[d], Ring!NoSub}
    BY <1>13, DroppedIsNew DEF Ring!MigFails
  <2>2. Others(d)
    BY <1>1, <1>3, <1>13, <2>1 DEF Ring!MigFails, Others, PushWaits, Panes, Ring!None
  <2> QED
    BY <2>1, <2>2
<1>14. CASE Ring!EnableUnsubscribes(d)
  <2>1. NewSub(d) /\ sub'[d] \in {sub[d], Ring!NoSub}
    BY <1>14, DroppedIsNew DEF Ring!EnableUnsubscribes
  <2>2. Others(d)
    BY <1>1, <1>2, <1>14, <2>1 DEF Ring!EnableUnsubscribes, Others, PushWaits, Panes, Ring!None
  <2> QED
    BY <2>1, <2>2
<1>15. CASE Ring!EnableSubscribes(d)
  <2>1. NewSub(d) /\ sub'[d] # Ring!NoSub /\ sub' \in [Devices -> [ep : 0 .. MaxEp, key : 0 .. MaxKey]] /\ sub'[d].ep \in 0 .. MaxEp
    BY <1>15, SubscribedIsNew DEF Ring!EnableSubscribes, NewSub
  <2>2. Others(d)
    BY <1>1, <1>2, <1>15, <2>1 DEF Ring!EnableSubscribes, Others, PushWaits, Panes, Ring!None
  <2> QED
    BY <2>1, <2>2
<1>16. CASE Ring!EnablePublishes(d)
  <2>1. NewSub(d) /\ sub'[d] \in {sub[d], Ring!NoSub}
    BY <1>16, DroppedIsNew DEF Ring!EnablePublishes
  <2>2. Others(d)
    BY <1>1, <1>2, <1>16, <2>1 DEF Ring!EnablePublishes, Others, PushWaits, Panes, Ring!None
  <2> QED
    BY <2>1, <2>2
<1>17. CASE Ring!EnableFails(d)
  <2>1. NewSub(d) /\ sub'[d] \in {sub[d], Ring!NoSub}
    BY <1>17, DroppedIsNew DEF Ring!EnableFails
  <2>2. Others(d)
    BY <1>1, <1>3, <1>17, <2>1 DEF Ring!EnableFails, Others, PushWaits, Panes, Ring!None
  <2> QED
    BY <2>1, <2>2
<1> QED
  BY <1>4, <1>5, <1>6, <1>7, <1>8, <1>9, <1>10, <1>11, <1>12, <1>13, <1>14, <1>15, <1>16, <1>17 DEF Ring!AtBrowser

-----------------------------------------------------------------------------
\* The daemon.
LEMMA ToIsFinite ==
  ASSUME Ring!PushAssumption, PushTyped
  PROVE  IsFiniteSet(run.to) /\ Cardinality(run.to) \in Nat
<1>1. run.to \subseteq Ring!Eps /\ MaxEp \in Int /\ 1 \in Int
  BY PushNumbers DEF PushTyped, PushRuns, RunType
<1>2. IsFiniteSet(1 .. MaxEp)
  BY <1>1, FS_Interval
<1> QED
  BY <1>1, <1>2, FS_Subset, FS_CardinalityType, PushNumbers

\* The run after one of its posts.
LEMMA RunsOfOne ==
  ASSUME Ring!PushAssumption, PushTyped, NEW e \in run.to, run' \in RunType,
         run'.to = run.to \ {e}, run'.total = run.total, run'.dead \subseteq run.dead \cup {e},
         run'.ok + run'.errs <= run.ok + run.errs + 1
  PROVE  PushRuns'
<1>1. /\ run \in RunType
      /\ run.dead \cap run.to = {} /\ run.ok + run.errs + Cardinality(run.to) <= run.total
  BY DEF PushTyped, PushRuns, RunType
<1>2. IsFiniteSet(run.to) /\ Cardinality(run.to) \in Nat
  BY ToIsFinite
<1>3. Cardinality(run.to \ {e}) = Cardinality(run.to) - 1
  BY <1>2, FS_RemoveElement
<1>4. run.ok \in Nat /\ run.errs \in Nat /\ run.total \in Nat /\ run'.ok \in Nat /\ run'.errs \in Nat
  BY <1>1 DEF RunType
<1>5. run'.ok + run'.errs + Cardinality(run'.to) <= run'.total
  <2>1. \A a, b, c, d, n, m, s \in Nat : a + b <= c + d + 1 /\ m = n - 1 /\ c + d + n <= s => a + b + m <= s
    OBVIOUS
  <2>2. Cardinality(run'.to) = Cardinality(run.to) - 1 /\ run'.total \in Nat /\ run'.total = run.total
    BY <1>3, <1>4
  <2>3. Cardinality(run'.to) \in Nat
    BY <1>2, FS_RemoveElement, FS_CardinalityType
  <2> QED
    BY <1>1, <1>2, <1>4, <2>1, <2>2, <2>3
<1>6. run'.dead \cap run'.to = {}
  BY <1>1
<1> QED
  BY <1>5, <1>6 DEF PushRuns, RunType

LEMMA IdleIsARun ==
  ASSUME run' = Ring!Idle
  PROVE  /\ PushRuns' /\ run'.to = {} /\ run'.dead = {} /\ run'.ok = 0 /\ run'.push = <<"none", 0>>
<1>1. run' = [push |-> <<"none", 0>>, to |-> {}, total |-> 0, dead |-> {}, ok |-> 0, errs |-> 0]
  BY DEF Ring!Idle
<1>2. Cardinality({}) = 0
  BY FS_EmptySet
<1>3. run'.to = {} /\ run'.total = 0 /\ run'.dead = {} /\ run'.ok = 0 /\ run'.errs = 0 /\ run'.push = <<"none", 0>>
  BY <1>1
<1>4. run'.ok + run'.errs + Cardinality(run'.to) <= run'.total
  BY <1>2, <1>3
<1> QED
  BY <1>1, <1>3, <1>4 DEF PushRuns, RunType

\* A post, and what it did.
Posted(e) ==
  \/ /\ Ring!Answer(e) = "taken" /\ run' = [run EXCEPT !.to = @ \ {e}, !.ok = @ + 1]
     /\ answered' = [answered EXCEPT ![run.push][e] = @ + 1] /\ Ring!Rings(e, run.push)
  \/ /\ Ring!Answer(e) = "gone" /\ run' = [run EXCEPT !.to = @ \ {e}, !.dead = @ \cup {e}] /\ UNCHANGED Ring!screens
  \/ /\ Ring!Answer(e) = "refused" /\ run' = [run EXCEPT !.to = @ \ {e}] /\ UNCHANGED Ring!screens

LEMMA PostIsPosted ==
  ASSUME Ring!PushAssumption, PushTyped, Ring!Post
  PROVE  \E e \in run.to : Posted(e)
<1> DEFINE e == CHOOSE f \in run.to : \A g \in run.to : f <= g
<1>1. e \in run.to
  BY NextIsThere DEF Ring!Post
<1>2. run' = Ring!Verdict(run, e)
  BY DEF Ring!Post
<1>3. IF Ring!Answer(e) = "taken"
      THEN answered' = [answered EXCEPT ![run.push][e] = @ + 1] /\ Ring!Rings(e, run.push)
      ELSE UNCHANGED Ring!screens
  BY DEF Ring!Post
<1>4. Ring!Answer(e) \in {"taken", "gone", "refused"}
  BY DEF Ring!Answer
<1> HIDE DEF e
<1>5. Posted(e)
  BY <1>2, <1>3, <1>4 DEF Posted, Ring!Verdict
<1> QED
  BY <1>1, <1>5

\* What a post leaves of the run.
LEMMA RunOfPosted ==
  ASSUME Ring!PushAssumption, PushTyped, NEW e \in run.to, Posted(e)
  PROVE  /\ PushRuns' /\ run'.push = run.push /\ run'.to = run.to \ {e}
         /\ \/ Ring!Answer(e) = "taken" /\ run'.ok = run.ok + 1 /\ run'.dead = run.dead
            \/ Ring!Answer(e) = "gone" /\ run'.ok = run.ok /\ run'.dead = run.dead \cup {e} /\ UNCHANGED Ring!screens
            \/ Ring!Answer(e) = "refused" /\ run'.ok = run.ok /\ run'.dead = run.dead /\ UNCHANGED Ring!screens
<1>1. run \in RunType /\ e \in Ring!Eps /\ run.ok \in Nat /\ run.errs \in Nat
  BY DEF PushTyped, PushRuns, RunType
<1>2. CASE Ring!Answer(e) = "taken" /\ run' = [run EXCEPT !.to = @ \ {e}, !.ok = @ + 1]
  <2>1. /\ run' \in RunType /\ run'.push = run.push /\ run'.to = run.to \ {e} /\ run'.total = run.total
        /\ run'.dead = run.dead /\ run'.ok = run.ok + 1 /\ run'.errs = run.errs
    <3>1. run.ok + 1 \in Nat /\ run.to \ {e} \in SUBSET Ring!Eps
      BY <1>1 DEF RunType
    <3> QED
      BY <1>1, <1>2, <3>1 DEF RunType
  <2>2. run'.ok + run'.errs <= run.ok + run.errs + 1
    BY <1>1, <2>1
  <2> QED
    BY <1>2, <2>1, <2>2, RunsOfOne
<1>3. CASE Ring!Answer(e) = "gone" /\ run' = [run EXCEPT !.to = @ \ {e}, !.dead = @ \cup {e}] /\ UNCHANGED Ring!screens
  <2>1. /\ run' \in RunType /\ run'.push = run.push /\ run'.to = run.to \ {e} /\ run'.total = run.total
        /\ run'.dead = run.dead \cup {e} /\ run'.ok = run.ok /\ run'.errs = run.errs
    BY <1>1, <1>3 DEF RunType
  <2>2. run'.ok + run'.errs <= run.ok + run.errs + 1
    BY <1>1, <2>1
  <2> QED
    BY <1>3, <2>1, <2>2, RunsOfOne
<1>4. CASE Ring!Answer(e) = "refused" /\ run' = [run EXCEPT !.to = @ \ {e}] /\ UNCHANGED Ring!screens
  <2>1. /\ run' \in RunType /\ run'.push = run.push /\ run'.to = run.to \ {e} /\ run'.total = run.total
        /\ run'.dead = run.dead /\ run'.ok = run.ok /\ run'.errs = run.errs
    BY <1>1, <1>4 DEF RunType
  <2>2. run'.ok + run'.errs <= run.ok + run.errs + 1
    BY <1>1, <2>1
  <2> QED
    BY <1>4, <2>1, <2>2, RunsOfOne
<1> QED
  BY <1>2, <1>3, <1>4 DEF Posted

LEMMA RunOfFailed ==
  ASSUME Ring!PushAssumption, PushTyped, NEW taken \in BOOLEAN, Ring!PostFails(taken)
  PROVE  \E e \in run.to :
           /\ PushRuns' /\ run'.push = run.push /\ run'.to = run.to \ {e} /\ run'.ok = run.ok /\ run'.dead = run.dead
           /\ UNCHANGED answered /\ (Ring!Rings(e, run.push) \/ UNCHANGED Ring!screens)
<1> DEFINE e == CHOOSE f \in run.to : \A g \in run.to : f <= g
<1>1. e \in run.to
  BY NextIsThere DEF Ring!PostFails
<1>2. /\ run' = [run EXCEPT !.to = @ \ {e}, !.errs = @ + 1]
      /\ UNCHANGED answered /\ (Ring!Rings(e, run.push) \/ UNCHANGED Ring!screens)
  BY DEF Ring!PostFails, Ring!screens
<1> HIDE DEF e
<1>3. run \in RunType /\ e \in Ring!Eps /\ run.ok \in Nat /\ run.errs \in Nat
  BY <1>1 DEF PushTyped, PushRuns, RunType
<1>4. /\ run' \in RunType /\ run'.push = run.push /\ run'.to = run.to \ {e} /\ run'.total = run.total
      /\ run'.dead = run.dead /\ run'.ok = run.ok /\ run'.errs = run.errs + 1
  <2>1. run.errs + 1 \in Nat /\ run.to \ {e} \in SUBSET Ring!Eps
    BY <1>3 DEF RunType
  <2> QED
    BY <1>2, <1>3, <2>1 DEF RunType
<1>5. run'.ok + run'.errs <= run.ok + run.errs + 1
  BY <1>3, <1>4
<1>6. PushRuns'
  BY <1>1, <1>4, <1>5, RunsOfOne
<1> QED
  BY <1>1, <1>2, <1>4, <1>6

\* What runs is the first of the queue, and a welcome goes to the device it is for.
RunIsHead == run # Ring!Idle => /\ queue # <<>> /\ run.push = Head(queue)
                                /\ run.push[1] = "welcome" => run.to \subseteq {run.push[2]}

LEMMA ScreensOfRings ==
  ASSUME Ring!PushAssumption, PushTyped, NEW e, NEW p \in Ring!Pushes, Ring!Rings(e, p)
  PROVE  visible' \in [Devices -> SUBSET Ring!Pushes] /\ newest' \in [Devices -> Nat]
<1>1. PICK d \in Devices : Ring!Show(d, p)
  BY DEF Ring!Rings, Ring!Holder
<1>2. visible \in [Devices -> SUBSET Ring!Pushes] /\ newest \in [Devices -> Nat] /\ p[2] \in Nat
  BY KindsOfPushes DEF PushTyped, Screens
<1>3. {q \in visible[d] : Ring!Tag(q) # Ring!Tag(p)} \cup {p} \in SUBSET Ring!Pushes
  BY <1>2
<1>4. visible' \in [Devices -> SUBSET Ring!Pushes]
  BY <1>1, <1>2, <1>3 DEF Ring!Show
<1>5. newest' \in [Devices -> Nat]
  BY <1>1, <1>2 DEF Ring!Show
<1> QED
  BY <1>4, <1>5

LEMMA HeadIsAPush ==
  ASSUME PushTyped, RunIsHead, run # Ring!Idle
  PROVE  /\ queue # <<>> /\ run.push = queue[1] /\ run.push \in Ring!Pushes /\ 1 \in DOMAIN queue
         /\ Tail(queue) \in Seq(Ring!Pushes)
         /\ \A i \in DOMAIN Tail(queue) : i + 1 \in DOMAIN queue /\ Tail(queue)[i] = queue[i + 1] /\ i # 0 /\ i \in Nat
<1>1. queue \in Seq(Ring!Pushes) /\ queue # <<>> /\ run.push = Head(queue)
  BY DEF PushTyped, Table, RunIsHead
<1> QED
  BY <1>1

LEMMA PlacesOfAppend ==
  ASSUME PushTyped, NEW p \in Ring!Pushes
  PROVE  /\ Append(queue, p) \in Seq(Ring!Pushes) /\ DOMAIN Append(queue, p) = DOMAIN queue \cup {Len(queue) + 1}
         /\ Append(queue, p)[Len(queue) + 1] = p /\ Len(queue) + 1 \notin DOMAIN queue
         /\ \A i \in DOMAIN queue : Append(queue, p)[i] = queue[i]
         /\ queue # <<>> => Head(Append(queue, p)) = Head(queue)
         /\ Append(queue, p) # <<>>
<1>1. queue \in Seq(Ring!Pushes) /\ Len(queue) \in Nat /\ DOMAIN queue = 1 .. Len(queue)
  BY DEF PushTyped, Table
<1>2. Append(queue, p) \in Seq(Ring!Pushes) /\ Len(Append(queue, p)) = Len(queue) + 1 /\ Append(queue, p)[Len(queue) + 1] = p
  BY <1>1
<1>3. DOMAIN Append(queue, p) = DOMAIN queue \cup {Len(queue) + 1} /\ Len(queue) + 1 \notin DOMAIN queue
  BY <1>1, <1>2
<1>4. \A i \in DOMAIN queue : Append(queue, p)[i] = queue[i]
  BY <1>1
<1>5. queue # <<>> => Head(Append(queue, p)) = Head(queue)
  BY <1>1
<1>6. Append(queue, p) # <<>>
  BY <1>1, <1>2
<1> QED
  BY <1>2, <1>3, <1>4, <1>5, <1>6

LEMMA SmallIsFinite ==
  ASSUME Ring!PushAssumption, NEW S, S \subseteq Ring!Eps
  PROVE  IsFiniteSet(S) /\ Cardinality(S) \in Nat
<1>1. IsFiniteSet(1 .. MaxEp)
  BY PushNumbers, FS_Interval
<1> QED
  BY <1>1, FS_Subset, FS_CardinalityType, PushNumbers

Workings == Ring!Start \/ Ring!Post \/ Ring!Finish \/ Ring!Crash \/ \E taken \in BOOLEAN : Ring!PostFails(taken)
Arrivals == (\E e \in Ring!Eps : Ring!pushSubscription(e)) \/ \E p \in Ring!Pushes : Ring!deliver(p) \/ Ring!Due(p)

LEMMA RunsOfStart ==
  ASSUME Ring!PushAssumption, PushTyped, Ring!Start
  PROVE  /\ PushRuns' /\ run'.push = Head(queue) /\ run'.to = Ring!Addressees(Head(queue)) /\ run'.dead = {} /\ run'.ok = 0
         /\ Ring!Addressees(Head(queue)) \subseteq Ring!Live
<1>1. queue \in Seq(Ring!Pushes) /\ queue # <<>> /\ Head(queue) \in Ring!Pushes
  BY DEF PushTyped, Table, Ring!Start
<1> DEFINE p == Head(queue)  S == Ring!Addressees(p)
<1>2. S \subseteq Ring!Live /\ S \subseteq Ring!Eps
  BY DEF Ring!Addressees, Ring!Live
<1>3. run' = [push |-> p, to |-> S, total |-> Cardinality(S), dead |-> {}, ok |-> 0, errs |-> 0]
  BY SizesOfPush DEF Ring!Start
<1>4. Cardinality(S) \in Nat
  BY <1>2, SmallIsFinite
<1>5. p \in Ring!Pushes
  BY <1>1
<1> HIDE DEF p, S
<1>6. run' \in RunType
  BY <1>2, <1>3, <1>4, <1>5 DEF RunType
<1>7. run'.push = p /\ run'.to = S /\ run'.dead = {} /\ run'.ok = 0 /\ run'.errs = 0 /\ run'.total = Cardinality(S)
  BY <1>3
<1>8. run'.ok + run'.errs + Cardinality(run'.to) <= run'.total
  BY <1>4, <1>7
<1>9. run'.dead \cap run'.to = {}
  BY <1>7
<1> QED
  BY <1>2, <1>6, <1>7, <1>8, <1>9 DEF PushRuns, p, S

LEMMA TypedOfWorkings ==
  ASSUME Ring!PushAssumption, PushTyped, RunIsHead, Workings
  PROVE  PushTyped' /\ UNCHANGED <<key, Ring!browser, wire>>
<1> USE PushNumbers
<1>1. UNCHANGED <<key, Ring!browser, wire>>
  BY DEF Workings, Ring!Start, Ring!Post, Ring!Finish, Ring!Crash, Ring!PostFails
<1>2. Browsers'
  BY <1>1 DEF PushTyped, Browsers, Ring!browser
<1>3. Lefts'
  <2>1. CASE UNCHANGED left
    BY <2>1 DEF PushTyped, Lefts
  <2>2. CASE Ring!Spend("faults") \/ Ring!Spend("crashes")
    BY <2>2 DEF PushTyped, Lefts, Ring!Spend
  <2> QED
    BY <2>1, <2>2 DEF Workings, Ring!Start, Ring!Post, Ring!Finish, Ring!Crash, Ring!PostFails
<1>4. CASE Ring!Start
  BY <1>2, <1>3, <1>4, RunsOfStart DEF PushTyped, Table, Screens, Ring!Start, Ring!screens
<1>5. CASE Ring!Post
  <2>1. PICK e \in run.to : Posted(e)
    BY <1>5, PostIsPosted
  <2>2. run # Ring!Idle
    BY <2>1 DEF Ring!Idle
  <2>3. run.push \in Ring!Pushes /\ e \in Ring!Eps
    BY <2>1, <2>2, HeadIsAPush DEF PushTyped, PushRuns, RunType
  <2>4. PushRuns'
    BY <2>1, RunOfPosted
  <2>5. Table'
    BY <1>5 DEF PushTyped, Table, Ring!Post
  <2>6. answered \in [Ring!Pushes -> [Ring!Eps -> Nat]] /\ answered[run.push][e] + 1 \in Nat
    <3>1. answered \in [Ring!Pushes -> [Ring!Eps -> Nat]]
      BY DEF PushTyped, Screens
    <3>2. answered[run.push][e] \in Nat
      BY ONLY <2>3, <3>1
    <3> QED
      BY ONLY <3>1, <3>2
  <2>7. CASE answered' = [answered EXCEPT ![run.push][e] = @ + 1] /\ Ring!Rings(e, run.push)
    <3>1. answered' \in [Ring!Pushes -> [Ring!Eps -> Nat]]
      BY <2>3, <2>6, <2>7
    <3>2. Screens'
      BY <2>3, <2>7, <3>1, ScreensOfRings DEF Screens
    <3> QED
      BY <1>1, <1>2, <1>3, <2>4, <2>5, <3>2 DEF PushTyped
  <2>8. CASE UNCHANGED Ring!screens
    BY <1>1, <1>2, <1>3, <2>4, <2>5, <2>8 DEF PushTyped, Screens, Ring!screens
  <2> QED
    BY <2>1, <2>7, <2>8 DEF Posted
<1>6. CASE Ring!Finish
  <2>1. run # Ring!Idle /\ run' = Ring!Idle
    BY <1>6 DEF Ring!Finish
  <2>2. run.push \in Ring!Pushes /\ Tail(queue) \in Seq(Ring!Pushes)
    BY <2>1, HeadIsAPush
  <2>3. status' \in [Ring!Pushes -> {"none", "queued", "waiting", "done", "failed"}]
    BY <1>6, <2>2 DEF Ring!Finish, Ring!Again, PushTyped, Table
  <2>4. attempts' \in [Ring!Pushes -> Nat] /\ rows' \in [Ring!Eps -> {"none", "live", "dead"}] /\ queue' \in Seq(Ring!Pushes)
    <3>1. attempts' \in [Ring!Pushes -> Nat]
      BY <1>6, <2>2 DEF Ring!Finish, PushTyped, Table
    <3>2. rows' \in [Ring!Eps -> {"none", "live", "dead"}]
      BY <1>6 DEF Ring!Finish, PushTyped, Table
    <3>3. queue' \in Seq(Ring!Pushes)
      BY <1>6, <2>2 DEF Ring!Finish
    <3> QED
      BY <3>1, <3>2, <3>3
  <2>5. PushRuns' /\ Screens'
    BY <1>6, <2>1, IdleIsARun DEF PushTyped, Screens, Ring!Finish, Ring!screens
  <2> QED
    BY <1>1, <1>2, <1>3, <2>3, <2>4, <2>5 DEF PushTyped, Table
<1>7. CASE Ring!Crash
  BY <1>2, <1>3, <1>7, IdleIsARun DEF PushTyped, Table, Screens, Ring!Crash, Ring!screens
<1>8. CASE \E taken \in BOOLEAN : Ring!PostFails(taken)
  <2>1. PICK taken \in BOOLEAN : Ring!PostFails(taken)
    BY <1>8
  <2>2. PICK e \in run.to :
           /\ PushRuns' /\ run'.push = run.push /\ run'.to = run.to \ {e} /\ run'.ok = run.ok /\ run'.dead = run.dead
           /\ UNCHANGED answered /\ (Ring!Rings(e, run.push) \/ UNCHANGED Ring!screens)
    BY <2>1, RunOfFailed
  <2>3. run # Ring!Idle
    BY <2>2 DEF Ring!Idle
  <2>4. run.push \in Ring!Pushes
    BY <2>3, HeadIsAPush
  <2>5. Table'
    BY <2>1 DEF PushTyped, Table, Ring!PostFails
  <2>6. Screens'
    BY <2>2, <2>4, ScreensOfRings DEF PushTyped, Screens, Ring!screens
  <2> QED
    BY <1>1, <1>2, <1>3, <2>2, <2>5, <2>6 DEF PushTyped
<1> QED
  BY <1>4, <1>5, <1>6, <1>7, <1>8 DEF Workings

LEMMA EnqueueIsTyped ==
  ASSUME PushTyped, NEW p \in Ring!Pushes, Ring!Enqueue(p)
  PROVE  /\ status' \in [Ring!Pushes -> {"none", "queued", "waiting", "done", "failed"}]
         /\ attempts' \in [Ring!Pushes -> Nat] /\ queue' \in Seq(Ring!Pushes)
<1>1. /\ status \in [Ring!Pushes -> {"none", "queued", "waiting", "done", "failed"}]
      /\ attempts \in [Ring!Pushes -> Nat]
  BY DEF PushTyped, Table
<1>2. status' \in [Ring!Pushes -> {"none", "queued", "waiting", "done", "failed"}]
  BY <1>1 DEF Ring!Enqueue
<1>3. attempts' \in [Ring!Pushes -> Nat]
  BY <1>1 DEF Ring!Enqueue
<1>4. queue' \in Seq(Ring!Pushes)
  BY PlacesOfAppend DEF Ring!Enqueue
<1> QED
  BY <1>2, <1>3, <1>4

LEMMA TypedOfArrivals ==
  ASSUME Ring!PushAssumption, PushTyped, Arrivals
  PROVE  PushTyped' /\ UNCHANGED <<key, Ring!browser, run, Ring!screens, left>> /\ wire' \subseteq wire
<1> USE PushNumbers
<1>1. UNCHANGED <<key, Ring!browser, run, Ring!screens, left>> /\ wire' \subseteq wire
  BY DEF Arrivals, Ring!pushSubscription, Ring!deliver, Ring!Due
<1>2. Browsers' /\ Lefts' /\ PushRuns' /\ Screens'
  BY <1>1 DEF PushTyped, Browsers, Lefts, PushRuns, Screens, Ring!browser, Ring!screens
<1>3. /\ rows \in [Ring!Eps -> {"none", "live", "dead"}]
      /\ status \in [Ring!Pushes -> {"none", "queued", "waiting", "done", "failed"}]
      /\ attempts \in [Ring!Pushes -> Nat] /\ queue \in Seq(Ring!Pushes)
  BY DEF PushTyped, Table
<1>4. ASSUME NEW e \in Ring!Eps, Ring!pushSubscription(e)
      PROVE  Table'
  <2>1. <<"welcome", e>> \in Ring!Pushes
    BY WelcomeIsAPush
  <2>2. rows' \in [Ring!Eps -> {"none", "live", "dead"}]
    BY <1>3, <1>4 DEF Ring!pushSubscription, Ring!saveSubscription
  <2>3. CASE Ring!Enqueue(<<"welcome", e>>)
    BY <2>1, <2>2, <2>3, EnqueueIsTyped DEF Table
  <2>4. CASE UNCHANGED <<status, attempts, queue>>
    BY <1>3, <2>2, <2>4 DEF Table
  <2> QED
    BY <1>4, <2>3, <2>4 DEF Ring!pushSubscription
<1>5. ASSUME NEW p \in Ring!Pushes, Ring!deliver(p) \/ Ring!Due(p)
      PROVE  Table'
  <2>1. CASE Ring!deliver(p)
    BY <1>3, <2>1, EnqueueIsTyped DEF Table, Ring!deliver
  <2>2. CASE Ring!Due(p)
    <3>1. queue' \in Seq(Ring!Pushes)
      BY <2>2, PlacesOfAppend DEF Ring!Due
    <3>2. status' \in [Ring!Pushes -> {"none", "queued", "waiting", "done", "failed"}]
      BY <1>3, <2>2 DEF Ring!Due
    <3> QED
      BY <1>3, <2>2, <3>1, <3>2 DEF Table, Ring!Due
  <2> QED
    BY <1>5, <2>1, <2>2
<1> QED
  BY <1>1, <1>2, <1>4, <1>5 DEF PushTyped, Arrivals

LEMMA TypedOfRest ==
  ASSUME Ring!PushAssumption, PushTyped, Ring!ChangeKey \/ UNCHANGED Ring!vars
  PROVE  PushTyped' /\ UNCHANGED <<Ring!browser, wire, Ring!daemon, Ring!screens, left>>
<1>1. UNCHANGED <<Ring!browser, wire, Ring!daemon, Ring!screens, left>> /\ key' \in 1 .. MaxKey
  BY PushNumbers DEF PushTyped, Browsers, Ring!ChangeKey, Ring!vars
<1> QED
  BY <1>1 DEF PushTyped, Browsers, Lefts, PushRuns, Table, Screens, Ring!browser, Ring!daemon, Ring!screens

-----------------------------------------------------------------------------
\* A subscription that was not made is unknown.
PushFresh == \A e \in Ring!Eps : e > made =>
  rows[e] = "none" /\ e \notin run.to \cup run.dead /\ \A p \in Ring!Pushes : answered[p][e] = 0
\* One that was given up is held by no browser.
DeadIsUnheld == \A e \in Ring!Eps : e \in Held => rows[e] # "dead" /\ e \notin run.dead
Unwelcomed == \A e \in Ring!Eps : rows[e] = "none" => status[<<"welcome", e>>] = "none"
Untouched == \A p \in Ring!Pushes : status[p] = "none" =>
  (\A i \in DOMAIN queue : queue[i] # p) /\ \A e \in Ring!Eps : answered[p][e] = 0
OneWelcome == \A f, e \in Ring!Eps : e # f => answered[<<"welcome", f>>][e] = 0
\* What can ring is queued once, and is noted as queued.
CanRing(p) == p[1] # "welcome" \/ p[2] \in Held
OnceQueued == \A i, j \in DOMAIN queue : queue[i] = queue[j] /\ CanRing(queue[i]) => i = j
QueuedIsQueued == \A i \in DOMAIN queue : CanRing(queue[i]) => status[queue[i]] = "queued"
\* A push that will be sent, or sent again, has rung at a device no more often than the daemon
\* crashed, unless the run that is under way has reached it.
Pending(p) == status[p] \in {"none", "queued", "waiting"}
NotYet == \A p \in Ring!Pushes, e \in Ring!Eps :
  e \in Held /\ Pending(p) /\ ~(run.push = p /\ e \notin run.to /\ run.ok > 0) => answered[p][e] <= Crashes

Sends == PushFresh /\ DeadIsUnheld /\ Unwelcomed /\ Untouched /\ OneWelcome /\ OnceQueued /\ QueuedIsQueued /\ NotYet
PushInv == PushTyped /\ RunIsHead /\ Sends /\ Ring!ReachedOnce

LEMMA CrashesAreCounted ==
  ASSUME Ring!PushAssumption, PushTyped
  PROVE  Crashes \in Nat /\ \A p \in Ring!Pushes, e \in Ring!Eps : answered[p][e] \in Nat
<1>1. MaxCrashes \in Nat /\ left.crashes \in Nat /\ left.crashes <= MaxCrashes
  BY PushNumbers DEF PushTyped, Lefts
<1> QED
  BY <1>1 DEF Crashes, PushTyped, Screens

LEMMA PushStarts == ASSUME Ring!PushAssumption PROVE Ring!Init => PushInv
<1> SUFFICES ASSUME Ring!Init PROVE PushInv
  OBVIOUS
<1>1. PushTyped
  BY PushTypedStarts
<1>2. run = [push |-> <<"none", 0>>, to |-> {}, total |-> 0, dead |-> {}, ok |-> 0, errs |-> 0]
  BY DEF Ring!Init, Ring!Idle
<1>3. run.to = {} /\ run.dead = {} /\ run = Ring!Idle
  BY <1>2 DEF Ring!Init
<1>4. /\ \A e \in Ring!Eps : rows[e] = "none"
      /\ \A p \in Ring!Pushes : status[p] = "none" /\ \A e \in Ring!Eps : answered[p][e] = 0
      /\ queue = <<>> /\ DOMAIN queue = {}
  BY DEF Ring!Init
<1>5. Crashes \in Nat
  BY <1>1, CrashesAreCounted
<1>6. \A e \in Ring!Eps : <<"welcome", e>> \in Ring!Pushes
  BY WelcomeIsAPush
<1>7. PushFresh /\ DeadIsUnheld /\ Unwelcomed /\ Untouched /\ OneWelcome /\ OnceQueued /\ QueuedIsQueued
  BY <1>3, <1>4, <1>6 DEF PushFresh, DeadIsUnheld, Unwelcomed, Untouched, OneWelcome, OnceQueued, QueuedIsQueued
<1>8. NotYet
  BY <1>4, <1>5 DEF NotYet
<1>9. Ring!ReachedOnce
  BY <1>4, <1>5 DEF Ring!ReachedOnce, Crashes
<1> QED
  BY <1>1, <1>3, <1>7, <1>8, <1>9 DEF PushInv, Sends, RunIsHead

LEMMA SendsOfBrowser ==
  ASSUME Ring!PushAssumption, PushInv, BrowserMoves, PushTyped'
  PROVE  PushInv'
<1>1. /\ UNCHANGED <<rows, status, queue, run, answered>> /\ Crashes' = Crashes
      /\ made \in Nat /\ made' \in Nat /\ made <= made' /\ \A e \in Ring!Eps : e \in Nat /\ e # 0
  <2>1. made \in Nat /\ made' \in {made, made + 1} /\ \A e \in Ring!Eps : e \in Nat /\ e # 0
    BY PushNumbers DEF PushInv, PushTyped, Browsers, BrowserMoves
  <2> QED
    BY <2>1 DEF BrowserMoves, Ring!daemon, Ring!screens, Crashes
<1>2. \A e \in Ring!Eps : e \in Held' => e \in Held \/ e > made
  BY <1>1 DEF BrowserMoves
<1>3. \A e \in Ring!Eps : e > made => rows[e] = "none" /\ e \notin run.to \cup run.dead /\ \A p \in Ring!Pushes : answered[p][e] = 0
  BY DEF PushInv, Sends, PushFresh
<1>4. PushFresh'
  BY <1>1, <1>3 DEF PushFresh
<1>5. DeadIsUnheld'
  BY <1>1, <1>2, <1>3 DEF PushInv, Sends, DeadIsUnheld
<1>6. RunIsHead' /\ Unwelcomed' /\ Untouched' /\ OneWelcome'
  BY <1>1 DEF PushInv, Sends, RunIsHead, Unwelcomed, Untouched, OneWelcome
<1>7. Ring!ReachedOnce'
  BY <1>1 DEF PushInv, Ring!ReachedOnce, Crashes
<1>8. \A i \in DOMAIN queue : CanRing(queue[i])' => CanRing(queue[i])
  <2> SUFFICES ASSUME NEW i \in DOMAIN queue, queue[i][1] = "welcome", queue[i][2] \in Held'
               PROVE  queue[i][2] \in Held
    BY <1>1 DEF CanRing
  <2>1. queue[i] \in Ring!Pushes
    BY DEF PushInv, PushTyped, Table
  <2>2. queue[i][2] \in Ring!Eps /\ queue[i] = <<"welcome", queue[i][2]>>
    BY <2>1, KindsOfPushes
  <2>3. status[queue[i]] # "none"
    BY <2>1 DEF PushInv, Sends, Untouched
  <2>4. rows[queue[i][2]] # "none"
    BY <2>2, <2>3 DEF PushInv, Sends, Unwelcomed
  <2> QED
    BY <1>2, <1>3, <2>2, <2>4
<1>9. OnceQueued' /\ QueuedIsQueued'
  BY <1>1, <1>8 DEF PushInv, Sends, OnceQueued, QueuedIsQueued
<1>10. NotYet'
  <2> SUFFICES ASSUME NEW p \in Ring!Pushes, NEW e \in Ring!Eps, e \in Held', Pending(p), ~(run.push = p /\ e \notin run.to /\ run.ok > 0)
               PROVE  answered[p][e] <= Crashes
    BY <1>1 DEF NotYet, Pending
  <2>1. Crashes \in Nat
    BY CrashesAreCounted DEF PushInv
  <2>2. CASE e > made
    BY <1>3, <2>1, <2>2
  <2>3. CASE e \in Held
    BY <2>3 DEF PushInv, Sends, NotYet
  <2> QED
    BY <1>2, <2>2, <2>3
<1> QED
  BY <1>4, <1>5, <1>6, <1>7, <1>9, <1>10 DEF PushInv, Sends

\* A step that leaves the browsers, the screens and the bounds alone.
LEMMA SendsOfRest ==
  ASSUME PushInv, PushTyped', UNCHANGED <<Ring!browser, Ring!daemon, Ring!screens, left>>
  PROVE  PushInv'
<1>1. UNCHANGED <<rows, status, queue, run, answered, made>> /\ Held' = Held /\ Crashes' = Crashes
  BY DEF Ring!browser, Ring!daemon, Ring!screens, Held, Crashes
<1>2. RunIsHead' /\ Ring!ReachedOnce'
  BY <1>1 DEF PushInv, RunIsHead, Ring!ReachedOnce, Crashes
<1>3. Sends'
  BY <1>1 DEF PushInv, Sends, PushFresh, DeadIsUnheld, Unwelcomed, Untouched, OneWelcome, OnceQueued, QueuedIsQueued, NotYet, Pending, CanRing
<1> QED
  BY <1>2, <1>3 DEF PushInv

\* A push comes to the queue that was in none, or waited, or can ring nowhere.
LEMMA SendsOfQueued ==
  ASSUME Ring!PushAssumption, PushInv, NEW p \in Ring!Pushes, UNCHANGED <<Ring!browser, run, Ring!screens, left>>,
         status' = [status EXCEPT ![p] = "queued"], queue' = Append(queue, p),
         status[p] \in {"none", "waiting"} \/ ~CanRing(p)
  PROVE  RunIsHead' /\ Ring!ReachedOnce' /\ Untouched' /\ OneWelcome' /\ OnceQueued' /\ QueuedIsQueued' /\ NotYet'
<1>1. UNCHANGED <<run, answered, made, sub>> /\ Held' = Held /\ Crashes' = Crashes
  BY DEF Ring!browser, Ring!screens, Held, Crashes
<1>2. /\ DOMAIN queue' = DOMAIN queue \cup {Len(queue) + 1} /\ queue'[Len(queue) + 1] = p
      /\ Len(queue) + 1 \notin DOMAIN queue /\ \A i \in DOMAIN queue : queue'[i] = queue[i] /\ queue[i] \in Ring!Pushes
  BY PlacesOfAppend DEF PushInv, PushTyped, Table
<1>3. status'[p] = "queued" /\ \A q \in Ring!Pushes : q # p => status'[q] = status[q]
  BY DEF PushInv, PushTyped, Table
<1>4. RunIsHead' /\ Ring!ReachedOnce' /\ OneWelcome'
  BY <1>1, PlacesOfAppend DEF PushInv, Sends, RunIsHead, Ring!ReachedOnce, OneWelcome, Crashes
<1>5. Untouched'
  BY <1>1, <1>2, <1>3 DEF PushInv, Sends, Untouched
<1>6. CanRing(p) => \A i \in DOMAIN queue : queue[i] # p
  BY DEF PushInv, Sends, Untouched, QueuedIsQueued
<1>7. OnceQueued'
  <2> SUFFICES ASSUME NEW i \in DOMAIN queue', NEW j \in DOMAIN queue', queue'[i] = queue'[j], CanRing(queue'[i])
               PROVE  i = j
    BY <1>1 DEF OnceQueued, CanRing
  <2>1. CASE i \in DOMAIN queue /\ j \in DOMAIN queue
    BY <1>2, <2>1 DEF PushInv, Sends, OnceQueued
  <2>2. CASE i = Len(queue) + 1 /\ j # i
    <3>1. j \in DOMAIN queue /\ queue[j] = p /\ CanRing(p)
      BY <1>2, <2>2
    <3> QED
      BY <1>6, <3>1
  <2>3. CASE j = Len(queue) + 1 /\ j # i
    <3>1. i \in DOMAIN queue /\ queue[i] = p /\ CanRing(p)
      BY <1>2, <2>3
    <3> QED
      BY <1>6, <3>1
  <2> QED
    BY <1>2, <2>1, <2>2, <2>3
<1>8. QueuedIsQueued'
  <2> SUFFICES ASSUME NEW i \in DOMAIN queue', CanRing(queue'[i])
               PROVE  status'[queue'[i]] = "queued"
    BY <1>1 DEF QueuedIsQueued, CanRing
  <2>1. CASE i \in DOMAIN queue
    BY <1>2, <1>3, <2>1 DEF PushInv, Sends, QueuedIsQueued
  <2> QED
    BY <1>2, <1>3, <2>1
<1>9. NotYet'
  <2> SUFFICES ASSUME NEW q \in Ring!Pushes, NEW e \in Ring!Eps, e \in Held, Pending(q)',
                      ~(run.push = q /\ e \notin run.to /\ run.ok > 0)
               PROVE  answered[q][e] <= Crashes
    BY <1>1 DEF NotYet
  <2>2. CASE Pending(q)
    BY <2>2 DEF PushInv, Sends, NotYet
  <2>3. CASE ~Pending(q)
    <3>1. q = p
      BY <1>3, <2>3 DEF Pending
    <3>2. ~CanRing(p)
      BY <2>3, <3>1 DEF Pending
    <3>3. p[2] \in Ring!Eps /\ p = <<"welcome", p[2]>> /\ p[2] # e
      BY <3>2, KindsOfPushes DEF CanRing
    <3>4. answered[q][e] = 0
      BY <3>1, <3>3 DEF PushInv, Sends, OneWelcome
    <3> QED
      BY <3>4, CrashesAreCounted DEF PushInv
  <2> QED
    BY <2>2, <2>3
<1> QED
  BY <1>4, <1>5, <1>7, <1>8, <1>9

LEMMA SendsOfArrivals ==
  ASSUME Ring!PushAssumption, PushInv, Arrivals
  PROVE  PushInv'
<1>1. PushTyped' /\ UNCHANGED <<key, Ring!browser, run, Ring!screens, left>> /\ wire' \subseteq wire
  BY TypedOfArrivals DEF PushInv
<1>2. UNCHANGED <<run, answered, made>> /\ Held' = Held
  BY <1>1 DEF Ring!browser, Ring!screens, Held
<1>3. ASSUME NEW p \in Ring!Pushes, Ring!deliver(p) \/ Ring!Due(p)
      PROVE  PushInv'
  <2>1. /\ UNCHANGED rows /\ status' = [status EXCEPT ![p] = "queued"] /\ queue' = Append(queue, p)
        /\ status[p] \in {"none", "waiting"}
    BY <1>3 DEF Ring!deliver, Ring!Due, Ring!Enqueue
  <2>2. \A q \in Ring!Pushes : status'[q] = "none" <=> status[q] = "none" /\ q # p
    BY <2>1 DEF PushInv, PushTyped, Table
  <2>3. RunIsHead' /\ Ring!ReachedOnce' /\ Untouched' /\ OneWelcome' /\ OnceQueued' /\ QueuedIsQueued' /\ NotYet'
    BY <1>1, <2>1, SendsOfQueued
  <2>4. PushFresh' /\ DeadIsUnheld'
    BY <1>2, <2>1 DEF PushInv, Sends, PushFresh, DeadIsUnheld
  <2>5. Unwelcomed'
    <3>1. ASSUME NEW e \in Ring!Eps, rows[e] = "none"
          PROVE  status'[<<"welcome", e>>] = "none"
      BY <1>3, <3>1, WelcomeIsAPush, KindsOfPushes DEF PushInv, Sends, Unwelcomed, Ring!deliver, Ring!Due, Ring!Enqueue, PushTyped, Table
    <3> QED
      BY <2>1, <3>1 DEF Unwelcomed
  <2> QED
    BY <1>1, <2>3, <2>4, <2>5 DEF PushInv, Sends
<1>4. ASSUME NEW e \in Ring!Eps, Ring!pushSubscription(e)
      PROVE  PushInv'
  <2>1. /\ run = Ring!Idle /\ rows' = [rows EXCEPT ![e] = "live"] /\ e \in wire
        /\ rows[e] = "live" => UNCHANGED <<status, attempts, queue>>
        /\ rows[e] # "live" => Ring!Enqueue(<<"welcome", e>>)
    BY <1>4 DEF Ring!pushSubscription, Ring!saveSubscription
  <2>2. ~(e > made)
    BY <2>1, PushNumbers DEF PushInv, PushTyped, Browsers
  <2>3. rows'[e] = "live" /\ \A f \in Ring!Eps : f # e => rows'[f] = rows[f]
    BY <2>1 DEF PushInv, PushTyped, Table
  <2>4. PushFresh' /\ DeadIsUnheld'
    <3>1. PushFresh'
      BY <1>2, <2>2, <2>3 DEF PushInv, Sends, PushFresh
    <3>2. run.dead = {}
      BY <2>1 DEF Ring!Idle
    <3> QED
      BY <1>2, <2>3, <3>1, <3>2 DEF PushInv, Sends, DeadIsUnheld
  <2>5. CASE rows[e] = "live"
    <3>1. UNCHANGED <<status, queue>> /\ Crashes' = Crashes
      BY <1>1, <2>1, <2>5 DEF Crashes
    <3>2. Unwelcomed'
      BY <2>3, <3>1 DEF PushInv, Sends, Unwelcomed
    <3>3. RunIsHead' /\ Ring!ReachedOnce' /\ Untouched' /\ OneWelcome' /\ OnceQueued' /\ QueuedIsQueued' /\ NotYet'
      BY <1>2, <3>1 DEF PushInv, Sends, RunIsHead, Ring!ReachedOnce, Untouched, OneWelcome, OnceQueued, QueuedIsQueued, NotYet,
                        Pending, CanRing, Crashes
    <3> QED
      BY <1>1, <2>4, <3>2, <3>3 DEF PushInv, Sends
  <2>6. CASE rows[e] # "live"
    <3> DEFINE w == <<"welcome", e>>
    <3>1. w \in Ring!Pushes /\ w[1] = "welcome" /\ w[2] = e
      BY WelcomeIsAPush
    <3>2. status' = [status EXCEPT ![w] = "queued"] /\ queue' = Append(queue, w)
      BY <2>1, <2>6 DEF Ring!Enqueue
    <3>3. status[w] \in {"none", "waiting"} \/ ~CanRing(w)
      <4>1. CASE rows[e] = "none"
        BY <4>1 DEF PushInv, Sends, Unwelcomed
      <4>2. CASE rows[e] = "dead"
        BY <4>2 DEF PushInv, Sends, DeadIsUnheld, CanRing
      <4> QED
        BY <2>6, <4>1, <4>2 DEF PushInv, PushTyped, Table
    <3>4. RunIsHead' /\ Ring!ReachedOnce' /\ Untouched' /\ OneWelcome' /\ OnceQueued' /\ QueuedIsQueued' /\ NotYet'
      BY <1>1, <2>1, <3>1, <3>2, <3>3, SendsOfQueued
    <3>5. \A f \in Ring!Eps : f # e => status'[<<"welcome", f>>] = status[<<"welcome", f>>]
      BY <3>1, <3>2, WelcomeIsAPush DEF PushInv, PushTyped, Table
    <3>6. Unwelcomed'
      BY <2>3, <3>5 DEF PushInv, Sends, Unwelcomed
    <3> QED
      BY <1>1, <2>4, <3>4, <3>6 DEF PushInv, Sends
  <2> QED
    BY <2>5, <2>6
<1> QED
  BY <1>3, <1>4 DEF Arrivals

LEMMA HeldOfAnswer ==
  ASSUME NEW e
  PROVE  /\ Ring!Answer(e) = "taken" => e \in Held
         /\ Ring!Answer(e) = "gone" => e \notin Held
<1>1. Ring!Holder(e) = {} <=> e \notin Held
  BY DEF Ring!Holder, Held
<1> QED
  BY <1>1 DEF Ring!Answer

LEMMA SendsOfStart ==
  ASSUME Ring!PushAssumption, PushInv, Ring!Start
  PROVE  PushInv'
<1>1. PushTyped' /\ UNCHANGED <<key, Ring!browser, wire>>
  BY TypedOfWorkings DEF PushInv, Workings
<1>2. UNCHANGED <<rows, status, queue, answered, made>> /\ Held' = Held /\ Crashes' = Crashes
  BY <1>1 DEF Ring!Start, Ring!browser, Ring!screens, Held, Crashes
<1>3. /\ run'.push = Head(queue) /\ run'.to = Ring!Addressees(Head(queue)) /\ run'.dead = {} /\ run'.ok = 0
      /\ Ring!Addressees(Head(queue)) \subseteq Ring!Live /\ queue # <<>> /\ run.ok = 0
  BY RunsOfStart DEF PushInv, Ring!Start, Ring!Idle
<1>4. RunIsHead'
  BY <1>2, <1>3 DEF RunIsHead, Ring!Addressees
<1>5. \A e \in Ring!Eps : e > made => e \notin Ring!Live
  BY DEF PushInv, Sends, PushFresh, Ring!Live
<1>6. PushFresh' /\ DeadIsUnheld'
  BY <1>2, <1>3, <1>5 DEF PushInv, Sends, PushFresh, DeadIsUnheld
<1>7. Unwelcomed' /\ Untouched' /\ OneWelcome' /\ OnceQueued' /\ QueuedIsQueued' /\ Ring!ReachedOnce'
  BY <1>2 DEF PushInv, Sends, Unwelcomed, Untouched, OneWelcome, OnceQueued, QueuedIsQueued, CanRing, Ring!ReachedOnce, Crashes
<1>8. NotYet'
  BY <1>2, <1>3 DEF PushInv, Sends, NotYet, Pending
<1> QED
  BY <1>1, <1>4, <1>6, <1>7, <1>8 DEF PushInv, Sends

LEMMA SendsOfPost ==
  ASSUME Ring!PushAssumption, PushInv, Ring!Post
  PROVE  PushInv'
<1>1. PushTyped' /\ UNCHANGED <<key, Ring!browser, wire, rows, status, queue, left>>
  BY TypedOfWorkings DEF PushInv, Workings, Ring!Post
<1>2. UNCHANGED made /\ Held' = Held /\ Crashes' = Crashes
  BY <1>1 DEF Ring!browser, Held, Crashes
<1>3. PICK e \in run.to : Posted(e)
  BY PostIsPosted DEF PushInv
<1>4. /\ run'.push = run.push /\ run'.to = run.to \ {e}
      /\ \/ Ring!Answer(e) = "taken" /\ run'.ok = run.ok + 1 /\ run'.dead = run.dead
         \/ Ring!Answer(e) = "gone" /\ run'.ok = run.ok /\ run'.dead = run.dead \cup {e} /\ UNCHANGED Ring!screens
         \/ Ring!Answer(e) = "refused" /\ run'.ok = run.ok /\ run'.dead = run.dead /\ UNCHANGED Ring!screens
  BY <1>3, RunOfPosted DEF PushInv
<1>5. run # Ring!Idle /\ e \in Ring!Eps /\ run.ok \in Nat
  BY <1>3 DEF Ring!Idle, PushInv, PushTyped, PushRuns, RunType
<1>6. /\ run.push \in Ring!Pushes /\ run.push = queue[1] /\ 1 \in DOMAIN queue /\ queue # <<>> /\ run.push = Head(queue)
      /\ run.push[1] = "welcome" => run.to \subseteq {run.push[2]}
  BY <1>5, HeadIsAPush DEF PushInv, RunIsHead
<1>7. ~(e > made)
  BY <1>3, <1>5 DEF PushInv, Sends, PushFresh
<1>8. RunIsHead'
  BY <1>1, <1>4, <1>6 DEF RunIsHead
<1>9. DeadIsUnheld' /\ Unwelcomed' /\ OnceQueued' /\ QueuedIsQueued'
  <2>1. DeadIsUnheld'
    BY <1>1, <1>2, <1>4, HeldOfAnswer DEF PushInv, Sends, DeadIsUnheld
  <2> QED
    BY <1>1, <1>2, <2>1 DEF PushInv, Sends, Unwelcomed, OnceQueued, QueuedIsQueued, CanRing
<1>10. CASE UNCHANGED Ring!screens /\ run'.ok = run.ok
  <2>1. UNCHANGED answered
    BY <1>10 DEF Ring!screens
  <2>2. PushFresh' /\ Untouched' /\ OneWelcome' /\ Ring!ReachedOnce'
    BY <1>1, <1>2, <1>4, <1>7, <2>1 DEF PushInv, Sends, PushFresh, Untouched, OneWelcome, Ring!ReachedOnce, Crashes
  <2>3. NotYet'
    BY <1>1, <1>2, <1>4, <1>10, <2>1 DEF PushInv, Sends, NotYet, Pending
  <2> QED
    BY <1>1, <1>8, <1>9, <2>2, <2>3 DEF PushInv, Sends
<1>11. CASE Ring!Answer(e) = "taken" /\ run'.ok = run.ok + 1 /\ run'.dead = run.dead
  <2> DEFINE p == run.push
  <2>1. answered' = [answered EXCEPT ![p][e] = @ + 1]
    BY <1>3, <1>11 DEF Posted
  <2>2. e \in Held
    BY <1>11, HeldOfAnswer
  <2>3. CanRing(p) /\ p \in Ring!Pushes /\ (p[1] = "welcome" => p = <<"welcome", e>>)
    BY <1>3, <1>6, <2>2, KindsOfPushes DEF CanRing
  <2>4. status[p] = "queued"
    BY <1>6, <2>3 DEF PushInv, Sends, QueuedIsQueued
  <2>5. answered[p][e] <= Crashes
    BY <1>3, <1>5, <2>2, <2>3, <2>4 DEF PushInv, Sends, NotYet, Pending
  <2> HIDE DEF p
  <2>6. /\ answered'[p][e] = answered[p][e] + 1
        /\ \A q \in Ring!Pushes, f \in Ring!Eps : q # p \/ f # e => answered'[q][f] = answered[q][f]
    BY <1>5, <2>1, <2>3 DEF PushInv, PushTyped, Screens
  <2>7. Crashes \in Nat /\ \A q \in Ring!Pushes, f \in Ring!Eps : answered[q][f] \in Nat
    BY CrashesAreCounted DEF PushInv
  <2>8. Ring!ReachedOnce'
    <3> SUFFICES ASSUME NEW q \in Ring!Pushes, NEW f \in Ring!Eps
                 PROVE  answered'[q][f] <= 1 + Crashes
      BY <1>2 DEF Ring!ReachedOnce, Crashes
    <3>1. CASE q = p /\ f = e
      BY <2>3, <1>5, <2>5, <2>6, <2>7, <3>1
    <3>2. CASE q # p \/ f # e
      BY <2>6, <3>2 DEF PushInv, Ring!ReachedOnce, Crashes
    <3> QED
      BY <3>1, <3>2
  <2>9. PushFresh'
    <3>1. \A f \in Ring!Eps : f > made => f # e
      BY <1>7
    <3> QED
      BY <1>1, <1>2, <1>4, <1>11, <2>6, <3>1 DEF PushInv, Sends, PushFresh
  <2>10. Untouched'
    BY <1>1, <2>4, <2>6 DEF PushInv, Sends, Untouched
  <2>11. OneWelcome'
    <3> SUFFICES ASSUME NEW f \in Ring!Eps, NEW g \in Ring!Eps, g # f
                 PROVE  answered'[<<"welcome", f>>][g] = 0
      BY DEF OneWelcome
    <3>1. <<"welcome", f>> \in Ring!Pushes /\ answered[<<"welcome", f>>][g] = 0
      BY WelcomeIsAPush DEF PushInv, Sends, OneWelcome
    <3>2. <<"welcome", f>> # p \/ g # e
      BY <2>3
    <3> QED
      BY <2>6, <3>1, <3>2
  <2>12. NotYet'
    <3> SUFFICES ASSUME NEW q \in Ring!Pushes, NEW f \in Ring!Eps, f \in Held, Pending(q), ~(p = q /\ f \notin run'.to /\ run'.ok > 0)
                 PROVE  answered'[q][f] <= Crashes
      BY <1>1, <1>2, <1>4 DEF NotYet, Pending, p
    <3>1. run'.ok > 0
      BY <1>5, <1>11
    <3>2. q # p \/ f # e
      BY <1>4, <3>1
    <3>3. ~(p = q /\ f \notin run.to)
      BY <1>4, <3>1
    <3>4. answered[q][f] <= Crashes
      BY <3>3 DEF PushInv, Sends, NotYet, p
    <3> QED
      BY <2>6, <3>2, <3>4
  <2> QED
    BY <1>1, <1>8, <1>9, <2>8, <2>9, <2>10, <2>11, <2>12 DEF PushInv, Sends
<1> QED
  BY <1>4, <1>10, <1>11

LEMMA SendsOfFailed ==
  ASSUME Ring!PushAssumption, PushInv, NEW taken \in BOOLEAN, Ring!PostFails(taken)
  PROVE  PushInv'
<1>1. PushTyped' /\ UNCHANGED <<key, Ring!browser, wire, rows, status, queue>>
  BY TypedOfWorkings DEF PushInv, Workings, Ring!PostFails
<1>2. UNCHANGED made /\ Held' = Held /\ Crashes' = Crashes
  BY <1>1 DEF Ring!browser, Held, Crashes, Ring!PostFails, Ring!Spend, PushInv, PushTyped, Lefts
<1>3. PICK e \in run.to :
        /\ run'.push = run.push /\ run'.to = run.to \ {e} /\ run'.ok = run.ok /\ run'.dead = run.dead
        /\ UNCHANGED answered
  BY RunOfFailed DEF PushInv
<1>4. run # Ring!Idle
  BY <1>3 DEF Ring!Idle
<1>5. RunIsHead'
  BY <1>1, <1>3, <1>4 DEF PushInv, RunIsHead
<1>6. PushFresh' /\ DeadIsUnheld' /\ Unwelcomed' /\ Untouched' /\ OneWelcome' /\ OnceQueued' /\ QueuedIsQueued' /\ Ring!ReachedOnce'
  BY <1>1, <1>2, <1>3 DEF PushInv, Sends, PushFresh, DeadIsUnheld, Unwelcomed, Untouched, OneWelcome, OnceQueued, QueuedIsQueued,
                          CanRing, Ring!ReachedOnce, Crashes
<1>7. NotYet'
  BY <1>1, <1>2, <1>3 DEF PushInv, Sends, NotYet, Pending
<1> QED
  BY <1>1, <1>5, <1>6, <1>7 DEF PushInv, Sends

LEMMA SendsOfCrash ==
  ASSUME Ring!PushAssumption, PushInv, Ring!Crash
  PROVE  PushInv'
<1>1. PushTyped' /\ UNCHANGED <<key, Ring!browser, wire, rows, status, queue, answered>>
  BY TypedOfWorkings DEF PushInv, Workings, Ring!Crash, Ring!screens
<1>2. UNCHANGED made /\ Held' = Held
  BY <1>1 DEF Ring!browser, Held
<1>3. Crashes' = Crashes + 1
  <2>1. left'.crashes = left.crashes - 1 /\ left.crashes \in Nat /\ MaxCrashes \in Nat
    BY PushNumbers DEF Ring!Crash, Ring!Spend, PushInv, PushTyped, Lefts
  <2> QED
    BY <2>1 DEF Crashes
<1>4. run' = Ring!Idle /\ run'.to = {} /\ run'.dead = {}
  BY IdleIsARun DEF Ring!Crash
<1>5. Crashes \in Nat /\ \A q \in Ring!Pushes, f \in Ring!Eps : answered[q][f] \in Nat /\ answered[q][f] <= 1 + Crashes
  BY CrashesAreCounted DEF PushInv, Ring!ReachedOnce, Crashes
<1>6. \A q \in Ring!Pushes, f \in Ring!Eps : answered[q][f] <= Crashes' /\ answered[q][f] <= 1 + Crashes'
  BY <1>3, <1>5
<1>7. RunIsHead' /\ PushFresh' /\ DeadIsUnheld' /\ Unwelcomed' /\ Untouched' /\ OneWelcome' /\ OnceQueued' /\ QueuedIsQueued'
  BY <1>1, <1>2, <1>4 DEF PushInv, Sends, RunIsHead, PushFresh, DeadIsUnheld, Unwelcomed, Untouched, OneWelcome, OnceQueued,
                          QueuedIsQueued, CanRing
<1>8. NotYet' /\ Ring!ReachedOnce'
  BY <1>1, <1>6 DEF NotYet, Ring!ReachedOnce, Crashes
<1> QED
  BY <1>1, <1>7, <1>8 DEF PushInv, Sends

LEMMA SendsOfFinish ==
  ASSUME Ring!PushAssumption, PushInv, Ring!Finish
  PROVE  PushInv'
<1> DEFINE p == run.push
<1>1. PushTyped' /\ UNCHANGED <<key, Ring!browser, wire, answered, left>>
  BY TypedOfWorkings DEF PushInv, Workings, Ring!Finish, Ring!screens
<1>2. UNCHANGED made /\ Held' = Held /\ Crashes' = Crashes
  BY <1>1 DEF Ring!browser, Held, Crashes
<1>3. run # Ring!Idle /\ run.to = {} /\ run' = Ring!Idle /\ run'.to = {} /\ run'.dead = {} /\ run'.ok = 0 /\ queue' = Tail(queue)
  BY IdleIsARun DEF Ring!Finish
<1>4. /\ queue # <<>> /\ p = queue[1] /\ p \in Ring!Pushes /\ 1 \in DOMAIN queue
      /\ \A i \in DOMAIN queue' : i + 1 \in DOMAIN queue /\ queue'[i] = queue[i + 1] /\ i # 0 /\ i \in Nat
  BY <1>3, HeadIsAPush DEF PushInv
<1>5. \A q \in Ring!Pushes : q # p => status'[q] = status[q]
  BY <1>4 DEF Ring!Finish, PushInv, PushTyped, Table
<1>6. status[p] # "none" /\ status'[p] \in {"waiting", "failed", "done"}
  <2>1. status[p] # "none"
    BY <1>4 DEF PushInv, Sends, Untouched
  <2>2. Ring!Again(p) \in {"waiting", "failed"}
    BY DEF Ring!Again
  <2> QED
    BY <1>4, <2>1, <2>2 DEF Ring!Finish, PushInv, PushTyped, Table
<1>7. \A e \in Ring!Eps : rows'[e] = rows[e] \/ (e \in run.dead /\ rows'[e] = "dead")
  BY DEF Ring!Finish
<1>8. Ring!TryAgain(run) \/ status'[p] = "done"
  BY <1>4 DEF Ring!Finish, PushInv, PushTyped, Table
<1> HIDE DEF p
<1>9. RunIsHead' /\ Ring!ReachedOnce' /\ OneWelcome'
  BY <1>1, <1>2, <1>3 DEF PushInv, Sends, RunIsHead, Ring!ReachedOnce, OneWelcome, Crashes
<1>10. PushFresh' /\ DeadIsUnheld'
  BY <1>1, <1>2, <1>3, <1>7 DEF PushInv, Sends, PushFresh, DeadIsUnheld
<1>11. Unwelcomed'
  <2> SUFFICES ASSUME NEW e \in Ring!Eps, rows'[e] = "none"
               PROVE  status'[<<"welcome", e>>] = "none"
    BY DEF Unwelcomed
  <2>1. <<"welcome", e>> \in Ring!Pushes /\ status[<<"welcome", e>>] = "none"
    BY <1>7, WelcomeIsAPush DEF PushInv, Sends, Unwelcomed
  <2> QED
    BY <1>5, <1>6, <2>1
<1>12. Untouched'
  <2> SUFFICES ASSUME NEW q \in Ring!Pushes, status'[q] = "none"
               PROVE  (\A i \in DOMAIN queue' : queue'[i] # q) /\ \A e \in Ring!Eps : answered[q][e] = 0
    BY <1>1 DEF Untouched
  <2>1. status[q] = "none"
    BY <1>5, <1>6
  <2> QED
    BY <1>4, <2>1 DEF PushInv, Sends, Untouched
<1>13. OnceQueued'
  <2> SUFFICES ASSUME NEW i \in DOMAIN queue', NEW j \in DOMAIN queue', queue'[i] = queue'[j], CanRing(queue'[i])
               PROVE  i = j
    BY <1>2 DEF OnceQueued, CanRing
  <2>1. i + 1 = j + 1
    BY <1>4 DEF PushInv, Sends, OnceQueued
  <2> QED
    BY <1>4, <2>1
<1>14. QueuedIsQueued'
  <2> SUFFICES ASSUME NEW i \in DOMAIN queue', CanRing(queue'[i])
               PROVE  status'[queue'[i]] = "queued"
    BY <1>2 DEF QueuedIsQueued, CanRing
  <2>1. i + 1 \in DOMAIN queue /\ queue'[i] = queue[i + 1] /\ i + 1 # 1
    BY <1>4
  <2>2. queue'[i] # p
    BY <1>4, <2>1 DEF PushInv, Sends, OnceQueued
  <2>3. queue[i + 1] \in Ring!Pushes
    BY <2>1 DEF PushInv, PushTyped, Table
  <2> QED
    BY <1>5, <2>1, <2>2, <2>3 DEF PushInv, Sends, QueuedIsQueued
<1>15. NotYet'
  <2> SUFFICES ASSUME NEW q \in Ring!Pushes, NEW e \in Ring!Eps, e \in Held, Pending(q)'
               PROVE  answered[q][e] <= Crashes
    BY <1>1, <1>2 DEF NotYet
  <2>1. CASE q # p
    <3>1. Pending(q)
      BY <1>5, <2>1 DEF Pending
    <3> QED
      BY <2>1, <3>1 DEF PushInv, Sends, NotYet, p
  <2>2. CASE q = p
    <3>1. Ring!TryAgain(run)
      BY <1>8, <2>2 DEF Pending
    <3>2. run.ok = 0
      <4>1. run.ok \in Nat /\ run.errs \in Nat /\ run.total \in Nat /\ run.ok + run.errs + Cardinality(run.to) <= run.total
        BY DEF PushInv, PushTyped, PushRuns, RunType
      <4>2. Cardinality(run.to) \in Nat
        BY ToIsFinite DEF PushInv
      <4>3. run.errs = run.total
        BY <3>1 DEF Ring!TryAgain
      <4> QED
        BY <4>1, <4>2, <4>3
    <3>3. CASE CanRing(p)
      <4>1. status[p] = "queued"
        BY <1>4, <3>3 DEF PushInv, Sends, QueuedIsQueued
      <4> QED
        BY <2>2, <3>2, <4>1 DEF PushInv, Sends, NotYet, Pending
    <3>4. CASE ~CanRing(p)
      <4>1. p[2] \in Ring!Eps /\ p = <<"welcome", p[2]>> /\ p[2] # e
        BY <1>4, <3>4, KindsOfPushes DEF CanRing
      <4>2. answered[q][e] = 0
        BY <2>2, <4>1 DEF PushInv, Sends, OneWelcome
      <4> QED
        BY <4>2, CrashesAreCounted DEF PushInv
    <3> QED
      BY <3>3, <3>4
  <2> QED
    BY <2>1, <2>2
<1> QED
  BY <1>1, <1>9, <1>10, <1>11, <1>12, <1>13, <1>14, <1>15 DEF PushInv, Sends

LEMMA PushInvOfNext ==
  ASSUME Ring!PushAssumption, PushInv, [Ring!Next]_(Ring!vars)
  PROVE  PushInv'
<1>1. ASSUME NEW d \in Devices, Ring!AtBrowser(d)
      PROVE  PushInv'
  <2>1. NewSub(d) /\ Others(d)
    BY <1>1, BrowserSteps DEF PushInv
  <2>2. PushTyped' /\ BrowserMoves
    BY <2>1, BrowserIsTyped DEF PushInv
  <2> QED
    BY <2>2, SendsOfBrowser
<1>2. CASE Ring!ChangeKey \/ UNCHANGED Ring!vars
  <2>1. PushTyped' /\ UNCHANGED <<Ring!browser, wire, Ring!daemon, Ring!screens, left>>
    BY <1>2, TypedOfRest DEF PushInv
  <2> QED
    BY <2>1, SendsOfRest
<1>3. CASE Arrivals
  BY <1>3, SendsOfArrivals
<1> QED
  BY <1>1, <1>2, <1>3, SendsOfStart, SendsOfPost, SendsOfFinish, SendsOfCrash, SendsOfFailed DEF Ring!Next, Arrivals

LEMMA PushInvariant == ASSUME Ring!PushAssumption PROVE Ring!Spec => []PushInv
<1>1. Ring!Init => PushInv
  BY PushStarts
<1>2. PushInv /\ [Ring!Next]_(Ring!vars) => PushInv'
  BY PushInvOfNext
<1> QED
  BY <1>1, <1>2, PTL DEF Ring!Spec

LEMMA NobodyHolds ==
  ASSUME Ring!PushAssumption, PushTyped, NEW p \in Ring!Pushes
  PROVE  Ring!MayRing(p) <=> CanRing(p)
BY DEF Ring!MayRing, CanRing, Ring!Holder, Held

LEMMA PushInvIsEnough ==
  ASSUME Ring!PushAssumption, PushInv
  PROVE  Ring!TypeOK /\ Ring!QueuedOnce /\ Ring!NoLiveDeviceGivenUp /\ Ring!ReachedOnce
<1>1. Ring!TypeOK
  <2>1. run.dead \cap run.to = {} /\ run.ok + run.errs <= run.total
    <3>1. /\ run.ok \in Nat /\ run.errs \in Nat /\ run.total \in Nat /\ run.dead \cap run.to = {}
          /\ run.ok + run.errs + Cardinality(run.to) <= run.total
      BY DEF PushInv, PushTyped, PushRuns, RunType
    <3>2. Cardinality(run.to) \in Nat
      BY ToIsFinite DEF PushInv
    <3> QED
      BY <3>1, <3>2
  <2>2. wire \subseteq Ring!Eps
    BY PushNumbers DEF PushInv, PushTyped, Browsers
  <2> QED
    BY <2>1, <2>2 DEF Ring!TypeOK, PushInv, PushTyped, Browsers, Table, Screens, PushWaits, Panes
<1>2. Ring!QueuedOnce
  <2>1. \A i \in DOMAIN queue : queue[i] \in Ring!Pushes
    BY DEF PushInv, PushTyped, Table
  <2>2. \A i \in DOMAIN queue : Ring!MayRing(queue[i]) <=> CanRing(queue[i])
    BY <2>1, NobodyHolds DEF PushInv
  <2> QED
    BY <2>2 DEF Ring!QueuedOnce, PushInv, Sends, OnceQueued
<1>3. Ring!NoLiveDeviceGivenUp
  <2> SUFFICES ASSUME NEW d \in Devices, sub[d] # Ring!NoSub
               PROVE  rows[sub[d].ep] # "dead"
    BY DEF Ring!NoLiveDeviceGivenUp
  <2>1. sub[d].ep \in 1 .. made /\ made \in 0 .. MaxEp /\ MaxEp \in Nat
    BY PushNumbers DEF PushInv, PushTyped, Browsers
  <2>2. sub[d].ep \in Ring!Eps /\ sub[d].ep \in Held
    BY <2>1 DEF Ring!Eps, Held
  <2> QED
    BY <2>2 DEF PushInv, Sends, DeadIsUnheld
<1> QED
  BY <1>1, <1>2, <1>3 DEF PushInv

\* No push is taken twice for a device but after a restart, and nothing that can ring is queued
\* twice (send.ts: reached, not sent again).
THEOREM DevicesAreReachedOnce == ASSUME Ring!PushAssumption PROVE Ring!Spec => [](Ring!TypeOK /\ Ring!QueuedOnce /\ Ring!ReachedOnce)
<1>1. PushInv => Ring!TypeOK /\ Ring!QueuedOnce /\ Ring!ReachedOnce
  BY PushInvIsEnough
<1> QED
  BY <1>1, PushInvariant, PTL

\* A subscription that a browser holds is never given up (send.ts: 404 and 410 only).
THEOREM LiveDevicesAreKept == ASSUME Ring!PushAssumption PROVE Ring!Spec => []Ring!NoLiveDeviceGivenUp
<1>1. PushInv => Ring!NoLiveDeviceGivenUp
  BY PushInvIsEnough
<1> QED
  BY <1>1, PushInvariant, PTL

\* What rings on a screen leaves the order's turn there.
LEMMA TurnOfRings ==
  ASSUME Ring!PushAssumption, PushTyped, Ring!TurnStaysVisible, NEW e, NEW p \in Ring!Pushes, Ring!Rings(e, p)
  PROVE  Ring!TurnStaysVisible'
<1>1. PICK d \in Devices : Ring!Show(d, p)
  BY DEF Ring!Rings, Ring!Holder
<1>2. visible \in [Devices -> SUBSET Ring!Pushes] /\ newest \in [Devices -> Nat]
  BY DEF PushTyped, Screens
<1>3. visible'[d] = {q \in visible[d] : q[1] # p[1]} \cup {p}
  BY <1>1, <1>2 DEF Ring!Show, Ring!Tag
<1>4. newest'[d] = IF p[1] = "order" /\ p[2] > newest[d] THEN p[2] ELSE newest[d]
  BY <1>1, <1>2 DEF Ring!Show
<1>5. \A c \in Devices : c # d => visible'[c] = visible[c] /\ newest'[c] = newest[c]
  BY <1>1, <1>2 DEF Ring!Show
<1>6. newest'[d] > 0 => \E q \in visible'[d] : q[1] = "order"
  <2>1. CASE p[1] = "order"
    BY <1>3, <2>1
  <2>2. CASE p[1] # "order"
    <3>1. newest'[d] = newest[d]
      BY <1>4, <2>2
    <3>2. \A q \in visible[d] : q[1] = "order" => q \in visible'[d]
      BY <1>3, <2>2
    <3> QED
      BY <3>1, <3>2 DEF Ring!TurnStaysVisible
  <2> QED
    BY <2>1, <2>2
<1> QED
  BY <1>5, <1>6 DEF Ring!TurnStaysVisible

LEMMA TurnOfNext ==
  ASSUME Ring!PushAssumption, PushInv, Ring!TurnStaysVisible, [Ring!Next]_(Ring!vars)
  PROVE  Ring!TurnStaysVisible'
<1>1. CASE UNCHANGED Ring!screens
  BY <1>1 DEF Ring!screens, Ring!TurnStaysVisible
<1>2. CASE Ring!Post \/ \E taken \in BOOLEAN : Ring!PostFails(taken)
  <2>1. run # Ring!Idle
    <3>1. run.to # {}
      BY <1>2 DEF Ring!Post, Ring!PostFails
    <3> QED
      BY <3>1 DEF Ring!Idle
  <2>2. run.push \in Ring!Pushes
    BY <2>1, HeadIsAPush DEF PushInv
  <2>3. UNCHANGED Ring!screens \/ \E e \in run.to : Ring!Rings(e, run.push)
    BY <1>2, NextIsThere DEF Ring!Post, Ring!PostFails, PushInv
  <2> QED
    BY <1>1, <2>2, <2>3, TurnOfRings DEF PushInv
<1>3. UNCHANGED Ring!screens \/ Ring!Post \/ \E taken \in BOOLEAN : Ring!PostFails(taken)
  <2>1. ASSUME NEW d \in Devices, Ring!AtBrowser(d)
        PROVE  UNCHANGED Ring!screens
    BY <2>1 DEF Ring!AtBrowser, Ring!Boot, Ring!ClosePage, Ring!OpenSetup, Ring!CloseSetup, Ring!Enable, Ring!Disable, Ring!MigUnsubscribes, Ring!MigSubscribes,
                Ring!MigPublishes, Ring!MigFails, Ring!EnableUnsubscribes, Ring!EnableSubscribes, Ring!EnablePublishes, Ring!EnableFails
  <2>2. CASE Ring!ChangeKey \/ Ring!Start \/ Ring!Finish \/ Ring!Crash \/ UNCHANGED Ring!vars
    BY <2>2 DEF Ring!ChangeKey, Ring!Start, Ring!Finish, Ring!Crash, Ring!vars
  <2>3. CASE Arrivals
    BY <2>3 DEF Arrivals, Ring!pushSubscription, Ring!deliver, Ring!Due
  <2> QED
    BY <2>1, <2>2, <2>3 DEF Ring!Next, Arrivals
<1> QED
  BY <1>1, <1>2, <1>3

\* A screen that was ever told of the turn says so still (sw.js: tags of their own).
THEOREM TurnIsSeen == ASSUME Ring!PushAssumption PROVE Ring!Spec => []Ring!TurnStaysVisible
<1>1. Ring!Init => Ring!TurnStaysVisible
  BY DEF Ring!Init, Ring!TurnStaysVisible
<1>2. PushInv /\ Ring!TurnStaysVisible /\ [Ring!Next]_(Ring!vars) => Ring!TurnStaysVisible'
  BY TurnOfNext
<1> QED
  BY <1>1, <1>2, PushInvariant, PTL DEF Ring!Spec

-----------------------------------------------------------------------------
\* Where nothing in a browser goes wrong: what a browser holds is known to the daemon, or one
\* of the two that make subscriptions is about to publish it.
AboutToTell(d) ==
  \/ mig[d] = "publish" /\ migEp[d] = sub[d].ep
  \/ pan[d] = "publish" /\ panEp[d] = sub[d].ep
Told(d) == sub[d] # Ring!NoSub => Ring!Known(sub[d].ep) \/ AboutToTell(d)
Registered == \A d \in Devices : Told(d)

LEMMA RegisteredAtBrowser ==
  ASSUME Ring!PushAssumption, PushInv, Registered, Breaks = 0, NEW d \in Devices, Ring!AtBrowser(d)
  PROVE  Registered'
<1>1. left.breaks = 0 /\ ~Ring!Spend("breaks")
  BY PushNumbers DEF PushInv, PushTyped, Lefts, Ring!Spend
<1>2. /\ sub \in [Devices -> [ep : 0 .. MaxEp, key : 0 .. MaxKey]] /\ mig \in [Devices -> PushWaits] /\ pan \in [Devices -> Panes]
      /\ migEp \in [Devices -> 0 .. MaxEp] /\ panEp \in [Devices -> 0 .. MaxEp]
  BY DEF PushInv, PushTyped, Browsers
<1>3. NewSub(d) /\ Others(d)
  BY BrowserSteps DEF PushInv
<1>4. BrowserMoves /\ sub' \in [Devices -> [ep : 0 .. MaxEp, key : 0 .. MaxKey]]
  BY <1>3, BrowserIsTyped DEF PushInv, NewSub
<1>5. rows' = rows /\ wire \subseteq wire'
  BY <1>4 DEF BrowserMoves, Ring!daemon
<1>6. ASSUME NEW c \in Devices, c # d
      PROVE  Told(c)'
  <2>1. sub'[c] = sub[c] /\ mig'[c] = mig[c] /\ pan'[c] = pan[c] /\ migEp'[c] = migEp[c] /\ panEp'[c] = panEp[c]
    BY <1>3, <1>6 DEF NewSub, Others
  <2> QED
    BY <1>5, <1>6, <2>1 DEF Registered, Told, Ring!Known, AboutToTell
<1>7. Told(d)'
  <2> SUFFICES ASSUME sub'[d] # Ring!NoSub
               PROVE  Told(d)'
    BY DEF Told
  <2>1. CASE Ring!MigSubscribes(d)
    BY <1>2, <2>1 DEF Ring!MigSubscribes, Told, AboutToTell
  <2>2. CASE Ring!EnableSubscribes(d)
    BY <1>2, <2>2 DEF Ring!EnableSubscribes, Told, AboutToTell
  <2>3. CASE ~Ring!MigSubscribes(d) /\ ~Ring!EnableSubscribes(d)
    <3>1. sub'[d] = sub[d] \/ sub'[d] = Ring!NoSub
      BY <1>2, <2>3 DEF Ring!AtBrowser, Ring!Boot, Ring!ClosePage, Ring!OpenSetup, Ring!CloseSetup, Ring!Enable, Ring!Disable, Ring!MigUnsubscribes, Ring!MigPublishes,
                        Ring!MigFails, Ring!EnableUnsubscribes, Ring!EnablePublishes, Ring!EnableFails
    <3>2. sub'[d] = sub[d]
      BY <3>1
    <3>3. CASE Ring!Known(sub[d].ep)
      BY <1>5, <3>2, <3>3 DEF Ring!Known, Told
    <3>4. CASE mig[d] = "publish" /\ migEp[d] = sub[d].ep
      <4>1. CASE Ring!MigPublishes(d)
        BY <3>2, <3>4, <4>1 DEF Ring!MigPublishes, Ring!Known, Told
      <4>2. CASE ~Ring!MigPublishes(d)
        <5>1. mig'[d] = mig[d] /\ migEp'[d] = migEp[d]
          BY <1>1, <1>2, <2>3, <3>4, <4>2
             DEF Ring!AtBrowser, Ring!Boot, Ring!ClosePage, Ring!OpenSetup, Ring!CloseSetup, Ring!Enable, Ring!Disable, Ring!MigUnsubscribes, Ring!MigFails,
                 Ring!EnableUnsubscribes, Ring!EnablePublishes, Ring!EnableFails
        <5> QED
          BY <3>2, <3>4, <5>1 DEF AboutToTell, Told
      <4> QED
        BY <4>1, <4>2
    <3>5. CASE pan[d] = "publish" /\ panEp[d] = sub[d].ep
      <4>1. CASE Ring!EnablePublishes(d)
        BY <3>2, <3>5, <4>1 DEF Ring!EnablePublishes, Ring!Known, Told
      <4>2. CASE ~Ring!EnablePublishes(d)
        <5>1. pan'[d] = pan[d] /\ panEp'[d] = panEp[d]
          BY <1>1, <1>2, <2>3, <3>5, <4>2
             DEF Ring!AtBrowser, Ring!Boot, Ring!ClosePage, Ring!OpenSetup, Ring!CloseSetup, Ring!Enable, Ring!Disable, Ring!MigUnsubscribes, Ring!MigPublishes, Ring!MigFails,
                 Ring!EnableUnsubscribes, Ring!EnableFails, Ring!Working
        <5> QED
          BY <3>2, <3>5, <5>1 DEF AboutToTell, Told
      <4> QED
        BY <4>1, <4>2
    <3> QED
      BY <3>2, <3>3, <3>4, <3>5 DEF Registered, Told, AboutToTell
  <2> QED
    BY <2>1, <2>2, <2>3
<1> QED
  BY <1>6, <1>7 DEF Registered

LEMMA RegisteredOfRest ==
  ASSUME Ring!PushAssumption, PushInv, Registered, UNCHANGED Ring!browser,
         \A e \in Ring!Eps : e \in Held /\ Ring!Known(e) => Ring!Known(e)'
  PROVE  Registered'
<1> SUFFICES ASSUME NEW d \in Devices, sub'[d] # Ring!NoSub
             PROVE  Told(d)'
  BY DEF Registered, Told
<1>1. UNCHANGED <<sub, mig, pan, migEp, panEp>>
  BY DEF Ring!browser
<1>2. sub[d].ep \in 1 .. made /\ made \in 0 .. MaxEp /\ MaxEp \in Nat
  BY <1>1, PushNumbers DEF PushInv, PushTyped, Browsers
<1>3. sub[d].ep \in Ring!Eps /\ sub[d].ep \in Held
  BY <1>2 DEF Ring!Eps, Held
<1> QED
  BY <1>1, <1>3 DEF Registered, Told, Ring!Known, AboutToTell

LEMMA RegisteredOfNext ==
  ASSUME Ring!PushAssumption, PushInv, Registered, Breaks = 0, [Ring!Next]_(Ring!vars)
  PROVE  Registered'
<1>1. ASSUME NEW d \in Devices, Ring!AtBrowser(d)
      PROVE  Registered'
  BY <1>1, RegisteredAtBrowser
<1>2. CASE UNCHANGED <<Ring!browser, wire, rows>>
  BY <1>2, RegisteredOfRest DEF Ring!Known
<1>3. CASE Ring!Finish
  <2>1. UNCHANGED <<Ring!browser, wire>> /\ \A e \in Ring!Eps : rows'[e] = rows[e] \/ (e \in run.dead /\ rows'[e] = "dead")
    BY <1>3 DEF Ring!Finish
  <2>2. \A e \in Ring!Eps : e \in Held => e \notin run.dead
    BY DEF PushInv, Sends, DeadIsUnheld
  <2> QED
    BY <2>1, <2>2, RegisteredOfRest DEF Ring!Known
<1>4. ASSUME NEW e \in Ring!Eps, Ring!pushSubscription(e)
      PROVE  Registered'
  <2>1. UNCHANGED Ring!browser /\ wire' = wire \ {e} /\ rows' = [rows EXCEPT ![e] = "live"]
    BY <1>4 DEF Ring!pushSubscription, Ring!saveSubscription
  <2>2. rows \in [Ring!Eps -> {"none", "live", "dead"}]
    BY DEF PushInv, PushTyped, Table
  <2>3. \A f \in Ring!Eps : Ring!Known(f) => Ring!Known(f)'
    BY <2>1, <2>2 DEF Ring!Known
  <2> QED
    BY <2>1, <2>3, RegisteredOfRest
<1>5. CASE Ring!Start \/ Ring!Post \/ Ring!Crash \/ Ring!ChangeKey \/ UNCHANGED Ring!vars
  <2>1. UNCHANGED <<Ring!browser, wire, rows>>
    BY <1>5 DEF Ring!Start, Ring!Post, Ring!Crash, Ring!ChangeKey, Ring!vars, Ring!daemon
  <2> QED
    BY <1>2, <2>1
<1>6. ASSUME NEW taken \in BOOLEAN, Ring!PostFails(taken)
      PROVE  Registered'
  BY <1>2, <1>6 DEF Ring!PostFails
<1>7. ASSUME NEW p \in Ring!Pushes, Ring!deliver(p) \/ Ring!Due(p)
      PROVE  Registered'
  BY <1>2, <1>7 DEF Ring!deliver, Ring!Due
<1> QED
  BY <1>1, <1>3, <1>4, <1>5, <1>6, <1>7 DEF Ring!Next

\* Where nothing in a browser goes wrong, what shows as switched on is known to the daemon, or a
\* migration is about to tell it (NotifySetup.tsx).
THEOREM OnIsTold == ASSUME Ring!PushAssumption, Breaks = 0 PROVE Ring!Spec => []Ring!OnIsKnown
<1>1. Ring!Init => Registered
  BY DEF Ring!Init, Registered, Told
<1>2. PushInv /\ Registered /\ [Ring!Next]_(Ring!vars) => Registered'
  BY RegisteredOfNext
<1>3. Registered => Ring!OnIsKnown
  BY DEF Registered, Told, Ring!OnIsKnown, AboutToTell
<1> QED
  BY <1>1, <1>2, <1>3, PushInvariant, PTL DEF Ring!Spec

-----------------------------------------------------------------------------
(* Coupang. *)

\* The sizes of the instance are those of its sets.
LEMMA SizesOfShop ==
  ASSUME NEW S
  PROVE  (Shop!IsFiniteSet(S) <=> IsFiniteSet(S)) /\ Shop!Cardinality(S) = Cardinality(S)
<1>1. Shop!IsFiniteSet(S) <=> IsFiniteSet(S)
  BY DEF IsFiniteSet, Shop!IsFiniteSet
<1>2. Shop!Cardinality(S) = Cardinality(S)
  BY DEF Cardinality, Shop!Cardinality
<1> QED
  BY <1>1, <1>2

\* The page, and what the seller's app and the others keep.
AtPage ==
  /\ shop \in {"unpaid", "paid", "cancelled"} /\ dead \in BOOLEAN /\ payer \in Shop!Ids \cup {Shop!None}
  /\ key \in {"mine", "old"} /\ code \in {"mine", "blank"} /\ processed \in Shop!Reports \cup {"none"}
  /\ page \in [doing : Shop!Reports \cup {"none"}, key : {"mine", "old", "blank"}]
  /\ page # Shop!NoPage => page.doing \in Shop!Reports
  /\ relay \subseteq Shop!Reports
Sales == card \in BOOLEAN /\ DOMAIN orders \subseteq Shop!Ids /\ orders \in [DOMAIN orders -> Shop!Sale]
Lines == /\ line \subseteq (DOMAIN orders) \X (DOMAIN orders)
         /\ \A i, j \in DOMAIN orders : i # j => (<<i, j>> \in line) # (<<j, i>> \in line)
         /\ \A i \in DOMAIN orders : <<i, i>> \notin line
         /\ \A i, j, k \in DOMAIN orders : <<i, j>> \in line /\ <<j, k>> \in line => <<i, k>> \in line
Session == /\ requesting \in Shop!Ids \cup {Shop!None} /\ attaching \in Shop!Ids \cup {Shop!None}
           /\ sending \subseteq Shop!Publications /\ dated \subseteq Shop!Ids
           /\ \A s \in sending : s.what = "account" <=> s.account # "none"
           /\ heard \subseteq (Shop!Reports \cup {"order"} \cup Shop!Accounts) \X (Shop!Ids \cup {Shop!None}) /\ seen \in [Shop!Ids -> Shop!States]
Outside == /\ st \in [Shop!Ids -> Shop!States] /\ sent \in [Shop!Ids -> SUBSET Shop!Accounts] /\ sends \in [Shop!Ids -> 0..2]
           /\ reached \subseteq Shop!Ids
ShopTyped == AtPage /\ Sales /\ Lines /\ Session /\ Outside

-----------------------------------------------------------------------------
LEMMA SalesOfAdd ==
  ASSUME Sales, NEW i \in Shop!Ids, NEW sale \in Shop!Sale
  PROVE  /\ DOMAIN Shop!add(i, sale) = (DOMAIN orders) \cup {i} /\ Shop!add(i, sale) \in [(DOMAIN orders) \cup {i} -> Shop!Sale]
         /\ Shop!add(i, sale)[i] = sale /\ \A j \in DOMAIN orders : j # i => Shop!add(i, sale)[j] = orders[j]
BY DEF Sales, Shop!add

LEMMA NewIsFree ==
  ASSUME Shop!CoupangAssumption, Shop!free # {}
  PROVE  Shop!newOrderId \in Shop!Ids /\ Shop!newOrderId \notin DOMAIN orders /\ st[Shop!newOrderId] = "none"
         /\ \A s \in sending : s.id # Shop!newOrderId
<1>1. Shop!free \subseteq Nat
  BY DEF Shop!free, Shop!Ids, Shop!CoupangAssumption
<1>2. \E i \in Shop!free : \A j \in Shop!free : i <= j
  BY <1>1, Least
<1>3. Shop!newOrderId \in Shop!free
  BY <1>2 DEF Shop!newOrderId
<1> QED
  BY <1>3 DEF Shop!free

\* The answer on a publication changes of a sale whether it is published, or its account.
LEMMA SalesOfAfter ==
  ASSUME Sales, NEW s \in Shop!Publications, NEW ok \in BOOLEAN, s.what = "account" => s.account \in Shop!Accounts
  PROVE  /\ DOMAIN Shop!after(s, ok) = DOMAIN orders /\ Shop!after(s, ok) \in [DOMAIN orders -> Shop!Sale]
         /\ \A i \in DOMAIN orders :
              /\ Shop!after(s, ok)[i].fixed = orders[i].fixed /\ Shop!after(s, ok)[i].st = orders[i].st
              /\ Shop!after(s, ok)[i].account = IF ok /\ s.what = "account" /\ s.id = i THEN s.account ELSE orders[i].account
<1>1. CASE ok /\ s.what = "order" /\ s.id \in DOMAIN orders
  <2>1. Shop!after(s, ok) = [orders EXCEPT ![s.id].raw = TRUE]
    BY <1>1 DEF Shop!after
  <2>2. \A r \in Shop!Sale : LET q == [r EXCEPT !.raw = TRUE] IN
          q \in Shop!Sale /\ q.fixed = r.fixed /\ q.st = r.st /\ q.account = r.account
    BY DEF Shop!Sale
  <2>3. /\ DOMAIN Shop!after(s, ok) = DOMAIN orders
        /\ \A i \in DOMAIN orders : Shop!after(s, ok)[i] = IF i = s.id THEN [orders[i] EXCEPT !.raw = TRUE] ELSE orders[i]
    BY <1>1, <2>1 DEF Sales
  <2>4. Shop!after(s, ok) = [i \in DOMAIN orders |-> Shop!after(s, ok)[i]]
    BY <2>1
  <2>5. s.what # "account" /\ \A i \in DOMAIN orders : orders[i] \in Shop!Sale
    BY <1>1 DEF Sales
  <2> QED
    BY <2>2, <2>3, <2>4, <2>5
<1>2. CASE ok /\ s.what = "account" /\ s.id \in DOMAIN orders
  <2>1. Shop!after(s, ok) = [orders EXCEPT ![s.id].account = s.account]
    BY <1>2 DEF Shop!after
  <2>2. \A r \in Shop!Sale : LET q == [r EXCEPT !.account = s.account] IN
          q \in Shop!Sale /\ q.fixed = r.fixed /\ q.st = r.st /\ q.account = s.account
    BY <1>2 DEF Shop!Sale
  <2>3. /\ DOMAIN Shop!after(s, ok) = DOMAIN orders
        /\ \A i \in DOMAIN orders : Shop!after(s, ok)[i] = IF i = s.id THEN [orders[i] EXCEPT !.account = s.account] ELSE orders[i]
    BY <1>2, <2>1 DEF Sales
  <2>4. Shop!after(s, ok) = [i \in DOMAIN orders |-> Shop!after(s, ok)[i]]
    BY <2>1
  <2>5. \A i \in DOMAIN orders : orders[i] \in Shop!Sale
    BY DEF Sales
  <2>6. \A i \in DOMAIN orders : Shop!after(s, ok)[i] \in Shop!Sale
    BY <2>2, <2>3, <2>5
  <2>7. ASSUME NEW i \in DOMAIN orders
        PROVE  /\ Shop!after(s, ok)[i].fixed = orders[i].fixed /\ Shop!after(s, ok)[i].st = orders[i].st
               /\ Shop!after(s, ok)[i].account = IF ok /\ s.what = "account" /\ s.id = i THEN s.account ELSE orders[i].account
    <3>1. CASE i = s.id
      <4>1. Shop!after(s, ok)[i] = [orders[i] EXCEPT !.account = s.account] /\ orders[i] \in Shop!Sale
        BY <2>3, <2>5, <3>1
      <4>2. /\ Shop!after(s, ok)[i].fixed = orders[i].fixed /\ Shop!after(s, ok)[i].st = orders[i].st
            /\ Shop!after(s, ok)[i].account = s.account
        BY <4>1 DEF Shop!Sale
      <4> QED
        BY <1>2, <3>1, <4>2
    <3>2. CASE i # s.id
      BY <2>3, <3>2
    <3> QED
      BY <3>1, <3>2
  <2> QED
    BY <2>3, <2>4, <2>6, <2>7
<1>3. CASE ~(ok /\ s.what \in {"order", "account"} /\ s.id \in DOMAIN orders)
  <2>1. Shop!after(s, ok) = orders
    BY <1>3 DEF Shop!after
  <2> QED
    BY <1>3, <2>1 DEF Sales
<1> QED
  BY <1>1, <1>2, <1>3

LEMMA LinesOfNew ==
  ASSUME Sales, Lines, NEW i \in Shop!Ids, i \notin DOMAIN orders, NEW sale \in Shop!Sale, Shop!addOrder(i, sale)
  PROVE  Lines'
<1>1. orders' = Shop!add(i, sale) /\ line' = line \cup ((DOMAIN orders) \X {i})
  BY DEF Shop!addOrder
<1>2. DOMAIN orders' = (DOMAIN orders) \cup {i}
  BY <1>1, SalesOfAdd
<1>3. line' \subseteq (DOMAIN orders') \X (DOMAIN orders')
  BY <1>1, <1>2 DEF Lines
<1>4. \A j, k \in DOMAIN orders : (<<j, k>> \in line') <=> (<<j, k>> \in line)
  BY <1>1
<1>5. \A j \in DOMAIN orders : <<j, i>> \in line' /\ <<i, j>> \notin line'
  BY <1>1 DEF Lines
<1>6. ASSUME NEW j \in DOMAIN orders', NEW k \in DOMAIN orders', j # k
      PROVE  (<<j, k>> \in line') # (<<k, j>> \in line')
  <2>1. CASE j \in DOMAIN orders /\ k \in DOMAIN orders
    BY <1>4, <1>6, <2>1 DEF Lines
  <2>2. CASE j = i \/ k = i
    BY <1>2, <1>5, <1>6, <2>2
  <2> QED
    BY <1>2, <2>1, <2>2
<1>7. \A j \in DOMAIN orders' : <<j, j>> \notin line'
  BY <1>1, <1>2, <1>4, <1>5 DEF Lines
<1>8. ASSUME NEW j \in DOMAIN orders', NEW k \in DOMAIN orders', NEW l \in DOMAIN orders', <<j, k>> \in line', <<k, l>> \in line'
      PROVE  <<j, l>> \in line'
  <2>1. j # i
    BY <1>1, <1>8 DEF Lines
  <2>2. k # i
    BY <1>1, <1>8 DEF Lines
  <2>3. CASE l = i
    BY <1>2, <1>5, <2>1, <2>3
  <2>4. CASE l # i
    BY <1>2, <1>4, <1>8, <2>1, <2>2, <2>4 DEF Lines
  <2> QED
    BY <2>3, <2>4
<1> QED
  BY <1>3, <1>6, <1>7, <1>8 DEF Lines

LEMMA ShopTypedStarts == ASSUME Shop!CoupangAssumption PROVE Shop!Init => ShopTyped
<1> SUFFICES ASSUME Shop!Init PROVE ShopTyped
  OBVIOUS
<1>1. AtPage
  BY DEF Shop!Init, AtPage, Shop!NoPage, Shop!Reports
<1>2. DOMAIN orders = {} /\ orders \in [{} -> Shop!Sale]
  BY DEF Shop!Init
<1>3. Sales /\ Lines
  BY <1>2 DEF Shop!Init, Sales, Lines
<1>4. Session /\ Outside
  BY DEF Shop!Init, Session, Outside, Shop!States, Shop!Accounts
<1> QED
  BY <1>1, <1>3, <1>4 DEF ShopTyped

AtThePage == Shop!Visit \/ Shop!Published \/ Shop!Refused \/ Shop!Paste
AtTheShop == (\E i \in Shop!Ids : Shop!Buyer(i) \/ Shop!Ends(i)) \/ (\E i \in Shop!Ids \cup {Shop!None} : Shop!Pay(i)) \/ Shop!CancelAtShop \/ Shop!Lapse

LEMMA TypedAtPage ==
  ASSUME ShopTyped, AtThePage
  PROVE  AtPage' /\ UNCHANGED <<Shop!atShop, Shop!app, Shop!outside>>
<1>1. UNCHANGED <<Shop!atShop, Shop!app, Shop!outside>>
  BY DEF AtThePage, Shop!Visit, Shop!Published, Shop!Refused, Shop!Paste
<1>2. /\ shop \in {"unpaid", "paid", "cancelled"} /\ dead \in BOOLEAN /\ payer \in Shop!Ids \cup {Shop!None}
      /\ shop' = shop /\ dead' = dead /\ payer' = payer
      /\ key \in {"mine", "old"} /\ code \in {"mine", "blank"} /\ processed \in Shop!Reports \cup {"none"}
      /\ page \in [doing : Shop!Reports \cup {"none"}, key : {"mine", "old", "blank"}]
      /\ page # Shop!NoPage => page.doing \in Shop!Reports
      /\ relay \subseteq Shop!Reports
      /\ Shop!NoPage \in [doing : Shop!Reports \cup {"none"}, key : {"mine", "old", "blank"}]
  BY <1>1 DEF ShopTyped, AtPage, Shop!atShop, Shop!NoPage
<1>3. CASE Shop!Visit
  <2>1. Shop!pickNsec \in {"mine", "old"} /\ Shop!ensureNsec \in Shop!Reports \cup {"none"}
    BY <1>2, <1>3 DEF Shop!Visit, Shop!pickNsec, Shop!ensureNsec
  <2>2. Shop!report(Shop!ensureNsec) \in Shop!Reports \cup {"none"}
    BY DEF Shop!report, Shop!Reports
  <2>3. page' \in [doing : Shop!Reports \cup {"none"}, key : {"mine", "old", "blank"}] /\ (page' # Shop!NoPage => page'.doing \in Shop!Reports)
    BY <1>2, <1>3, <2>1, <2>2 DEF Shop!Visit
  <2> QED
    BY <1>2, <1>3, <2>1, <2>3 DEF AtPage, Shop!Visit
<1>4. CASE Shop!Published \/ Shop!Refused
  <2>1. page # Shop!NoPage /\ page.doing \in Shop!Reports /\ page' = Shop!NoPage /\ UNCHANGED <<key, code>>
    BY <1>2, <1>4 DEF Shop!Published, Shop!Refused
  <2>2. Shop!onRelay \subseteq Shop!Reports
    BY <1>2, <2>1 DEF Shop!onRelay
  <2>3. relay' \subseteq Shop!Reports /\ processed' \in Shop!Reports \cup {"none"}
    BY <1>2, <1>4, <2>1, <2>2 DEF Shop!Published, Shop!Refused
  <2>4. page' \in [doing : Shop!Reports \cup {"none"}, key : {"mine", "old", "blank"}] /\ (page' # Shop!NoPage => page'.doing \in Shop!Reports)
    BY <1>2, <2>1
  <2>5. key' \in {"mine", "old"} /\ code' \in {"mine", "blank"}
    BY <1>2, <2>1
  <2>6. shop' \in {"unpaid", "paid", "cancelled"} /\ dead' \in BOOLEAN /\ payer' \in Shop!Ids \cup {Shop!None}
    BY <1>2
  <2> QED
    BY <1>1, <2>3, <2>4, <2>5, <2>6 DEF AtPage
<1>5. CASE Shop!Paste
  BY <1>2, <1>5 DEF Shop!Paste, AtPage
<1> QED
  BY <1>1, <1>3, <1>4, <1>5 DEF AtThePage

LEMMA TypedAtShop ==
  ASSUME ShopTyped, AtTheShop
  PROVE  AtPage' /\ Outside' /\ UNCHANGED <<Shop!app, key, code, processed, page, sent, sends>>
<1>1. UNCHANGED <<Shop!app, key, code, processed, page, sent, sends>>
  BY DEF AtTheShop, Shop!Buyer, Shop!Ends, Shop!Pay, Shop!CancelAtShop, Shop!Lapse, Shop!script, Shop!outside
<1>2. AtPage /\ Outside
  BY DEF ShopTyped
<1>3. ASSUME NEW i \in Shop!Ids, Shop!Buyer(i)
      PROVE  AtPage' /\ Outside'
  <2>1. PICK x \in Shop!States : st' = [st EXCEPT ![i] = x]
    <3>1. CASE st[i] \in {"requested", "claimed", "escrowed"}
      <4>1. CASE st[i] = "requested"
        <5>1. st' = [st EXCEPT ![i] = "claimed"] /\ "claimed" \in Shop!States
          BY <1>3, <4>1 DEF Shop!Buyer, Shop!States
        <5> QED
          BY <5>1
      <4>2. CASE st[i] = "claimed"
        <5>1. st' = [st EXCEPT ![i] = "escrowed"] /\ "escrowed" \in Shop!States
          BY <1>3, <4>2 DEF Shop!Buyer, Shop!States
        <5> QED
          BY <5>1
      <4>3. CASE st[i] = "escrowed"
        <5>1. st' = [st EXCEPT ![i] = "invoiced"] /\ "invoiced" \in Shop!States
          BY <1>3, <4>3 DEF Shop!Buyer, Shop!States
        <5> QED
          BY <5>1
      <4> QED
        BY <3>1, <4>1, <4>2, <4>3
    <3>2. CASE st[i] \notin {"requested", "claimed", "escrowed"}
      <4>1. st' = [st EXCEPT ![i] = "remitted"] /\ "remitted" \in Shop!States
        BY <1>3, <3>2 DEF Shop!Buyer, Shop!States
      <4> QED
        BY <4>1
    <3> QED
      BY <3>1, <3>2
  <2>2. st' \in [Shop!Ids -> Shop!States] /\ reached' \subseteq Shop!Ids
    BY <1>2, <1>3, <2>1 DEF Shop!Buyer, Outside
  <2> QED
    BY <1>1, <1>2, <1>3, <2>2 DEF Shop!Buyer, AtPage, Outside, Shop!atShop, Shop!script
<1>4. ASSUME NEW i \in Shop!Ids, Shop!Ends(i)
      PROVE  AtPage' /\ Outside'
  BY <1>1, <1>2, <1>4 DEF Shop!Ends, AtPage, Outside, Shop!atShop, Shop!script, Shop!States, Shop!Terminal
<1>5. ASSUME NEW i \in Shop!Ids \cup {Shop!None}, Shop!Pay(i)
      PROVE  AtPage' /\ Outside'
  BY <1>1, <1>2, <1>5 DEF Shop!Pay, AtPage, Outside, Shop!script, Shop!outside
<1>6. CASE Shop!CancelAtShop \/ Shop!Lapse
  BY <1>1, <1>2, <1>6 DEF Shop!CancelAtShop, Shop!Lapse, AtPage, Outside, Shop!script, Shop!outside
<1> QED
  BY <1>1, <1>3, <1>4, <1>5, <1>6 DEF AtTheShop

LEMMA TypedOfPublications ==
  ASSUME ShopTyped, NEW s \in sending, NEW ok \in BOOLEAN, Shop!Arrive(s) \/ Shop!Told(s, ok)
  PROVE  ShopTyped'
<1>1. s \in Shop!Publications /\ (s.what = "account" => s.account \in Shop!Accounts) /\ s.id \in Shop!Ids
  BY DEF ShopTyped, Session, Shop!Publications
<1>2. UNCHANGED <<Shop!atShop, Shop!script, relay, line, heard, seen, dated, sends, reached>>
  BY DEF Shop!Arrive, Shop!Told, Shop!outside
<1>3. AtPage'
  BY <1>2 DEF ShopTyped, AtPage, Shop!atShop, Shop!script
<1>4. CASE Shop!Arrive(s)
  <2>1. [s EXCEPT !.there = TRUE] \in Shop!Publications /\ [s EXCEPT !.there = TRUE].what = s.what /\ [s EXCEPT !.there = TRUE].account = s.account
    BY <1>1 DEF Shop!Publications
  <2>2. Sales' /\ Lines'
    BY <1>4 DEF Shop!Arrive, ShopTyped, Sales, Lines
  <2>3. Session'
    BY <1>2, <1>4, <2>1 DEF Shop!Arrive, ShopTyped, Session
  <2>4. Shop!judged(st[s.id], s.what) \in Shop!States
    BY <1>1 DEF Shop!judged, Shop!States, Shop!Terminal, ShopTyped, Outside
  <2>5. Outside'
    BY <1>1, <1>2, <1>4, <2>4 DEF Shop!Arrive, ShopTyped, Outside
  <2> QED
    BY <1>3, <2>2, <2>3, <2>5 DEF ShopTyped
<1>5. CASE Shop!Told(s, ok)
  <2>1. orders' = Shop!after(s, ok) /\ sending' = sending \ {s} /\ requesting' \in {requesting, Shop!None} /\ attaching' \in {attaching, Shop!None}
        /\ card' \in BOOLEAN /\ UNCHANGED <<st, sent>>
    BY <1>5 DEF Shop!Told, Shop!outside
  <2>2. DOMAIN orders' = DOMAIN orders /\ orders' \in [DOMAIN orders -> Shop!Sale]
    BY <1>1, <2>1, SalesOfAfter DEF ShopTyped
  <2>3. Sales' /\ Lines'
    BY <1>2, <2>1, <2>2 DEF ShopTyped, Sales, Lines
  <2>4. Session' /\ Outside'
    BY <1>2, <2>1 DEF ShopTyped, Session, Outside
  <2> QED
    BY <1>3, <2>3, <2>4 DEF ShopTyped
<1> QED
  BY <1>4, <1>5

\* A sale is added that was not there.
LEMMA TypedOfNew ==
  ASSUME ShopTyped, NEW i \in Shop!Ids, i \notin DOMAIN orders, NEW sale \in Shop!Sale, Shop!addOrder(i, sale)
  PROVE  DOMAIN orders' \subseteq Shop!Ids /\ orders' \in [DOMAIN orders' -> Shop!Sale] /\ Lines'
<1>1. orders' = Shop!add(i, sale) /\ Sales /\ Lines
  BY DEF ShopTyped, Shop!addOrder
<1>2. DOMAIN orders' = (DOMAIN orders) \cup {i} /\ orders' \in [(DOMAIN orders) \cup {i} -> Shop!Sale]
  BY <1>1, SalesOfAdd
<1>3. Lines'
  BY <1>1, LinesOfNew
<1>4. DOMAIN orders \subseteq Shop!Ids
  BY <1>1 DEF Sales
<1> QED
  BY <1>2, <1>3, <1>4

\* A sale changes that is there.
LEMMA TypedOfChanged ==
  ASSUME ShopTyped, NEW i \in DOMAIN orders, NEW sale \in Shop!Sale, orders' = Shop!add(i, sale), UNCHANGED line
  PROVE  DOMAIN orders' = DOMAIN orders /\ orders' \in [DOMAIN orders' -> Shop!Sale] /\ Lines'
<1>1. i \in Shop!Ids
  BY DEF ShopTyped, Sales
<1>2. DOMAIN orders' = DOMAIN orders /\ orders' \in [DOMAIN orders' -> Shop!Sale]
  BY <1>1, SalesOfAdd DEF ShopTyped
<1> QED
  BY <1>2 DEF ShopTyped, Lines

\* What goes out by itself.
LEMMA TypedOfAutoSend ==
  ASSUME ShopTyped, NEW i \in Shop!Ids, NEW sale, Shop!autoSendAccountInfo(i, sale) \/ UNCHANGED <<sending, sends>>
  PROVE  /\ sending' \subseteq Shop!Publications /\ sends' \in [Shop!Ids -> 0..2]
         /\ \A s \in sending' : s.what = "account" <=> s.account # "none"
         /\ sending' \in {sending, sending \cup {Shop!Pub("account", i, "shop")}}
<1>1. Shop!Pub("account", i, "shop") \in Shop!Publications /\ Shop!Pub("account", i, "shop").what = "account" /\ Shop!Pub("account", i, "shop").account = "shop"
  BY DEF Shop!Pub, Shop!Publications, Shop!Whats, Shop!Accounts
<1>2. Shop!again(sends[i]) \in 0..2
  BY DEF Shop!again
<1>3. sending' \in {sending, sending \cup {Shop!Pub("account", i, "shop")}} /\ sends' \in {sends, [sends EXCEPT ![i] = Shop!again(sends[i])]}
  BY DEF Shop!autoSendAccountInfo
<1>4. sends' \in [Shop!Ids -> 0..2]
  BY <1>2, <1>3 DEF ShopTyped, Outside
<1> QED
  BY <1>1, <1>3, <1>4 DEF ShopTyped, Session

NewSales == Shop!Post \/ Shop!ListParsed \/ (\E i \in Shop!Ids : Shop!HearOwnOrder(i))
ChangedSales == \E i \in Shop!Ids : Shop!Attach(i) \/ Shop!HearOrder(i) \/ \E a \in Shop!Accounts : Shop!HearOwnAccount(i, a)
Buttons == (\E i \in Shop!Ids : Shop!PublishDraft(i) \/ Shop!TypeAccount(i) \/ Shop!Delete(i)) \/ Shop!Dismiss \/ Shop!Reload \/ Shop!HearParsed
           \/ (\E word \in {"paid", "cancelled"} : Shop!HearStatus(word))

LEMMA DraftIsASale ==
  ASSUME NEW b \in BOOLEAN
  PROVE  Shop!Draft(b) \in Shop!Sale /\ Shop!Draft(b).fixed = b /\ Shop!Draft(b).st = "none" /\ Shop!Draft(b).account = "none"
BY DEF Shop!Draft, Shop!Sale, Shop!States

LEMMA TypedOfNewSales ==
  ASSUME Shop!CoupangAssumption, ShopTyped, NewSales
  PROVE  ShopTyped'
<1>1. AtPage' /\ Outside'
  BY DEF NewSales, Shop!Post, Shop!ListParsed, Shop!HearOwnOrder, ShopTyped, AtPage, Outside, Shop!atShop, Shop!script, Shop!outside
<1>2. CASE Shop!Post
  <2>1. Shop!newOrderId \in Shop!Ids /\ Shop!newOrderId \notin DOMAIN orders /\ Shop!addOrder(Shop!newOrderId, Shop!Draft(FALSE))
    BY <1>2, NewIsFree DEF Shop!Post
  <2>2. Sales' /\ Lines'
    BY <1>2, <2>1, TypedOfNew, DraftIsASale DEF Shop!Post, ShopTyped, Sales
  <2>3. Session'
    BY <1>2 DEF Shop!Post, Shop!session, ShopTyped, Session
  <2> QED
    BY <1>1, <2>2, <2>3 DEF ShopTyped
<1>3. CASE Shop!ListParsed
  <2> DEFINE i == Shop!newOrderId
  <2>1. i \in Shop!Ids /\ i \notin DOMAIN orders /\ Shop!addOrder(i, Shop!Draft(TRUE)) /\ dated' = dated \cup {i} /\ requesting' = i
        /\ sending' = sending \cup {Shop!Pub("order", i, "none")} /\ UNCHANGED <<card, attaching, heard, seen>>
    BY <1>3, NewIsFree DEF Shop!ListParsed
  <2> HIDE DEF i
  <2>2. Sales' /\ Lines'
    BY <2>1, TypedOfNew, DraftIsASale DEF ShopTyped, Sales
  <2>3. Shop!Pub("order", i, "none") \in Shop!Publications /\ Shop!Pub("order", i, "none").what = "order" /\ Shop!Pub("order", i, "none").account = "none"
    BY <2>1 DEF Shop!Pub, Shop!Publications, Shop!Whats
  <2>4. Session'
    BY <2>1, <2>3 DEF ShopTyped, Session
  <2> QED
    BY <1>1, <2>2, <2>4 DEF ShopTyped
<1>4. ASSUME NEW i \in Shop!Ids, Shop!HearOwnOrder(i)
      PROVE  ShopTyped'
  <2> DEFINE sale == [Shop!Draft(FALSE) EXCEPT !.raw = TRUE, !.st = seen[i]]
  <2>1. seen[i] \in Shop!States
    BY DEF ShopTyped, Session
  <2>2. sale \in Shop!Sale
    BY <2>1 DEF Shop!Draft, Shop!Sale
  <2>3. i \notin DOMAIN orders /\ Shop!addOrder(i, sale) /\ heard' = heard \cup {<<"order", i>>}
        /\ UNCHANGED <<card, requesting, attaching, sending, seen, dated>>
    BY <1>4 DEF Shop!HearOwnOrder
  <2> HIDE DEF sale
  <2>4. Sales' /\ Lines'
    BY <2>2, <2>3, TypedOfNew DEF ShopTyped, Sales
  <2>5. Session'
    BY <2>3 DEF ShopTyped, Session
  <2> QED
    BY <1>1, <2>4, <2>5 DEF ShopTyped
<1> QED
  BY <1>2, <1>3, <1>4 DEF NewSales

LEMMA TypedOfChangedSales ==
  ASSUME ShopTyped, ChangedSales
  PROVE  ShopTyped'
<1>1. AtPage'
  BY DEF ChangedSales, Shop!Attach, Shop!HearOrder, Shop!HearOwnAccount, ShopTyped, AtPage, Shop!atShop, Shop!script
<1>2. ASSUME NEW i \in Shop!Ids, Shop!Attach(i)
      PROVE  ShopTyped'
  <2> DEFINE sale == [orders[i] EXCEPT !.fixed = TRUE]
  <2>1. i \in DOMAIN orders /\ orders' = Shop!add(i, sale) /\ Shop!autoSendAccountInfo(i, sale)
        /\ attaching' \in {i, Shop!None} /\ card' \in BOOLEAN /\ UNCHANGED <<line, requesting, heard, seen, dated, st, sent, reached>>
    BY <1>2 DEF Shop!Attach, Shop!autoSendable
  <2>2. orders[i] \in Shop!Sale
    BY <2>1 DEF ShopTyped, Sales
  <2>3. sale \in Shop!Sale
    BY <2>2 DEF Shop!Sale
  <2> HIDE DEF sale
  <2>4. Sales' /\ Lines'
    BY <2>1, <2>3, TypedOfChanged DEF ShopTyped, Sales
  <2>5. sending' \subseteq Shop!Publications /\ sends' \in [Shop!Ids -> 0..2] /\ \A s \in sending' : s.what = "account" <=> s.account # "none"
    BY <2>1, TypedOfAutoSend
  <2>6. Session' /\ Outside'
    BY <1>2, <2>1, <2>5 DEF ShopTyped, Session, Outside
  <2> QED
    BY <1>1, <2>4, <2>6 DEF ShopTyped
<1>3. ASSUME NEW i \in Shop!Ids, Shop!HearOrder(i)
      PROVE  ShopTyped'
  <2> DEFINE sale == [orders[i] EXCEPT !.st = st[i]]
  <2>1. UNCHANGED <<card, line, requesting, attaching, heard, dated, st, sent, reached>> /\ seen' = [seen EXCEPT ![i] = st[i]]
        /\ st[i] \in Shop!States
    BY <1>3 DEF Shop!HearOrder, ShopTyped, Outside
  <2>2. Shop!autoSendAccountInfo(i, sale) \/ UNCHANGED <<sending, sends>>
    BY <1>3 DEF Shop!HearOrder
  <2>3. sending' \subseteq Shop!Publications /\ sends' \in [Shop!Ids -> 0..2] /\ \A s \in sending' : s.what = "account" <=> s.account # "none"
    BY <2>2, TypedOfAutoSend
  <2>4. Session' /\ Outside'
    BY <2>1, <2>3 DEF ShopTyped, Session, Outside
  <2>5. CASE i \in DOMAIN orders
    <3>1. orders' = Shop!add(i, sale)
      BY <1>3, <2>5 DEF Shop!HearOrder
    <3>2. orders[i] \in Shop!Sale
      BY <2>5 DEF ShopTyped, Sales
    <3>3. sale \in Shop!Sale
      BY <2>1, <3>2 DEF Shop!Sale
    <3> HIDE DEF sale
    <3>4. Sales' /\ Lines'
      BY <2>1, <2>5, <3>1, <3>3, TypedOfChanged DEF ShopTyped, Sales
    <3> QED
      BY <1>1, <2>4, <3>4 DEF ShopTyped
  <2>6. CASE i \notin DOMAIN orders
    <3>1. orders' = orders
      BY <1>3, <2>6 DEF Shop!HearOrder
    <3> QED
      BY <1>1, <2>1, <2>4, <3>1 DEF ShopTyped, Sales, Lines
  <2> QED
    BY <2>5, <2>6
<1>4. ASSUME NEW i \in Shop!Ids, NEW a \in Shop!Accounts, Shop!HearOwnAccount(i, a)
      PROVE  ShopTyped'
  <2>1. orders' = [orders EXCEPT ![i].account = a] /\ i \in DOMAIN orders /\ heard' = heard \cup {<<a, i>>}
        /\ UNCHANGED <<card, line, requesting, attaching, sending, seen, dated, Shop!outside>>
    BY <1>4 DEF Shop!HearOwnAccount
  <2>2. orders[i] \in Shop!Sale
    BY <2>1 DEF ShopTyped, Sales
  <2>3. [orders[i] EXCEPT !.account = a] \in Shop!Sale
    BY <2>2 DEF Shop!Sale
  <2>4. orders' = [orders EXCEPT ![i] = [orders[i] EXCEPT !.account = a]]
    BY <2>1
  <2>5. DOMAIN orders' = DOMAIN orders /\ orders' \in [DOMAIN orders -> Shop!Sale]
    BY <2>1, <2>3, <2>4 DEF ShopTyped, Sales
  <2>6. Sales' /\ Lines'
    BY <2>1, <2>5 DEF ShopTyped, Sales, Lines
  <2>7. Session' /\ Outside'
    BY <2>1 DEF ShopTyped, Session, Outside, Shop!outside
  <2> QED
    BY <1>1, <2>6, <2>7 DEF ShopTyped
<1> QED
  BY <1>2, <1>3, <1>4 DEF ChangedSales

LEMMA FewerThere ==
  ASSUME NEW S, IsFiniteSet(S), NEW T \in SUBSET S, T # S
  PROVE  Cardinality(T) < Cardinality(S)
<1>1. Cardinality(T) <= Cardinality(S) /\ (Cardinality(S) = Cardinality(T) => S = T) /\ IsFiniteSet(T)
  BY FS_Subset
<1>2. Cardinality(T) \in Nat /\ Cardinality(S) \in Nat
  BY <1>1, SizesOfShop, FS_CardinalityType
<1> QED
  BY <1>1, <1>2

\* The first of the sales that have the shop's order.
LEMMA MineIsFound ==
  ASSUME Shop!CoupangAssumption, ShopTyped, Shop!mine # {}
  PROVE  Shop!found \in Shop!mine /\ Shop!found \in Shop!Ids /\ Shop!found \in DOMAIN orders /\ orders[Shop!found].fixed
<1> DEFINE before(i) == {j \in Shop!mine : <<j, i>> \in line}
           T == {Cardinality(before(i)) : i \in Shop!mine}
<1>1. Shop!mine \subseteq DOMAIN orders /\ Shop!mine \subseteq Shop!Ids /\ \A i \in Shop!mine : orders[i].fixed
  BY DEF Shop!mine, ShopTyped, Sales
<1>2. IsFiniteSet(Shop!mine)
  <2>1. IsFiniteSet(Shop!Ids)
    BY FS_Interval DEF Shop!Ids, Shop!CoupangAssumption
  <2> QED
    BY <1>1, <2>1, FS_Subset
<1>3. \A i \in Shop!mine : IsFiniteSet(before(i)) /\ Cardinality(before(i)) \in Nat
  BY <1>2, FS_Subset, SizesOfShop, FS_CardinalityType
<1>4. T \subseteq Nat /\ T # {}
  BY <1>3
<1>5. PICK n \in T : \A m \in T : n <= m
  BY <1>4, Least
<1>6. PICK i \in Shop!mine : Cardinality(before(i)) = n
  BY <1>5
<1>7. ASSUME NEW j \in Shop!mine, <<j, i>> \in line
      PROVE  FALSE
  <2>1. before(j) \subseteq before(i) /\ j \in before(i) /\ j \notin before(j)
    BY <1>1, <1>7 DEF ShopTyped, Lines
  <2>2. Cardinality(before(j)) < Cardinality(before(i))
    <3>1. before(j) \in SUBSET before(i) /\ before(j) # before(i) /\ IsFiniteSet(before(i))
      BY <1>3, <2>1
    <3> HIDE DEF before
    <3> QED
      BY <3>1, FewerThere
  <2>3. n <= Cardinality(before(j))
    BY <1>5
  <2>4. Cardinality(before(i)) \in Nat /\ Cardinality(before(j)) \in Nat /\ Cardinality(before(i)) <= Cardinality(before(j))
    BY <1>3, <1>6, <2>3
  <2> HIDE DEF before, T
  <2> QED
    BY <2>2, <2>4
<1>8. Shop!found \in Shop!mine
  BY <1>6, <1>7 DEF Shop!found
<1> QED
  BY <1>1, <1>8

LEMMA TypedOfButtons ==
  ASSUME Shop!CoupangAssumption, ShopTyped, Buttons
  PROVE  ShopTyped'
<1>1. AtPage'
  <2>1. ASSUME NEW i \in Shop!Ids, Shop!PublishDraft(i) \/ Shop!TypeAccount(i) \/ Shop!Delete(i)
        PROVE  UNCHANGED <<Shop!atShop, Shop!script, relay>>
    BY ONLY <2>1 DEF Shop!PublishDraft, Shop!TypeAccount, Shop!Delete
  <2>2. ASSUME Shop!Dismiss \/ Shop!Reload \/ Shop!HearParsed
        PROVE  UNCHANGED <<Shop!atShop, Shop!script, relay>>
    BY ONLY <2>2 DEF Shop!Dismiss, Shop!Reload, Shop!HearParsed
  <2>3. ASSUME NEW word \in {"paid", "cancelled"}, Shop!HearStatus(word)
        PROVE  UNCHANGED <<Shop!atShop, Shop!script, relay>>
    BY ONLY <2>3 DEF Shop!HearStatus
  <2>4. UNCHANGED <<Shop!atShop, Shop!script, relay>>
    BY ONLY <2>1, <2>2, <2>3, Buttons DEF Buttons
  <2>5. UNCHANGED <<shop, dead, payer, key, code, processed, page, relay>>
    BY ONLY <2>4 DEF Shop!atShop, Shop!script
  <2>6. AtPage
    BY DEF ShopTyped
  <2> QED
    BY ONLY <2>5, <2>6 DEF AtPage
<1>2. ASSUME NEW i \in Shop!Ids, Shop!PublishDraft(i) \/ Shop!TypeAccount(i)
      PROVE  ShopTyped'
  <2>1. Shop!Pub("order", i, "none") \in Shop!Publications /\ Shop!Pub("order", i, "none").what = "order" /\ Shop!Pub("order", i, "none").account = "none"
        /\ Shop!Pub("account", i, "typed") \in Shop!Publications /\ Shop!Pub("account", i, "typed").what = "account" /\ Shop!Pub("account", i, "typed").account = "typed"
    BY DEF Shop!Pub, Shop!Publications, Shop!Whats, Shop!Accounts
  <2>2. Shop!again(sends[i]) \in 0..2
    BY DEF Shop!again
  <2>3. sends' \in {sends, [sends EXCEPT ![i] = Shop!again(sends[i])]} /\ UNCHANGED <<st, sent, reached>>
        /\ sending' \in {sending \cup {Shop!Pub("order", i, "none")}, sending \cup {Shop!Pub("account", i, "typed")}}
        /\ UNCHANGED <<card, orders, line, requesting, attaching, heard, seen, dated>>
    BY <1>2 DEF Shop!PublishDraft, Shop!TypeAccount, Shop!outside
  <2>4. sends' \in [Shop!Ids -> 0..2]
    BY <2>2, <2>3 DEF ShopTyped, Outside
  <2>5. Sales' /\ Lines'
    BY <2>3 DEF ShopTyped, Sales, Lines
  <2>6. Session' /\ Outside'
    BY <2>1, <2>3, <2>4 DEF ShopTyped, Session, Outside
  <2> QED
    BY <1>1, <2>5, <2>6 DEF ShopTyped
<1>3. ASSUME NEW i \in Shop!Ids, Shop!Delete(i)
      PROVE  ShopTyped'
  <2>1. orders' = [j \in DOMAIN orders \ {i} |-> orders[j]] /\ line' = {w \in line : i \notin {w[1], w[2]}}
        /\ UNCHANGED <<card, Shop!session, dated, Shop!outside>>
    BY <1>3 DEF Shop!Delete
  <2>2. Sales'
    BY <2>1 DEF ShopTyped, Sales
  <2>3. DOMAIN orders' = DOMAIN orders \ {i}
    BY <2>1
  <2>4. \A j, k \in DOMAIN orders' : <<j, k>> \in line' <=> <<j, k>> \in line
    BY <2>1, <2>3
  <2>5. line' \subseteq (DOMAIN orders') \X (DOMAIN orders')
    <3>1. line \subseteq (DOMAIN orders) \X (DOMAIN orders)
      BY DEF ShopTyped, Lines
    <3>2. ASSUME NEW w \in line'
          PROVE  w \in (DOMAIN orders') \X (DOMAIN orders')
      <4>1. w \in line /\ w[1] # i /\ w[2] # i
        BY <2>1
      <4>2. w = <<w[1], w[2]>> /\ w[1] \in DOMAIN orders /\ w[2] \in DOMAIN orders
        BY <3>1, <4>1
      <4> QED
        BY <2>3, <4>1, <4>2
    <3> QED
      BY <3>2
  <2>6. Lines'
    BY <2>3, <2>4, <2>5 DEF ShopTyped, Lines
  <2>7. Session' /\ Outside'
    BY <2>1 DEF ShopTyped, Session, Outside, Shop!session, Shop!outside
  <2> QED
    BY <1>1, <2>2, <2>6, <2>7 DEF ShopTyped
<1>4. CASE Shop!Dismiss
  <2>1. card' = FALSE /\ UNCHANGED <<orders, line, Shop!session, dated, Shop!outside>>
    BY <1>4 DEF Shop!Dismiss
  <2>2. card' \in BOOLEAN
    BY <2>1
  <2>3. Sales' /\ Lines'
    BY <2>1, <2>2 DEF ShopTyped, Sales, Lines
  <2>4. Session' /\ Outside'
    BY <2>1 DEF ShopTyped, Session, Outside, Shop!session, Shop!outside
  <2> QED
    BY <1>1, <2>3, <2>4 DEF ShopTyped
<1>5. CASE Shop!Reload
  <2>1. sending' = {} /\ heard' = {} /\ seen' = [i \in Shop!Ids |-> "none"] /\ requesting' = Shop!None /\ attaching' = Shop!None
        /\ UNCHANGED <<card, orders, line, dated, Shop!outside>>
    BY <1>5 DEF Shop!Reload
  <2>2. "none" \in Shop!States
    BY DEF Shop!States
  <2> QED
    BY <1>1, <2>1, <2>2 DEF ShopTyped, Sales, Lines, Session, Outside, Shop!outside
<1>6. CASE Shop!HearParsed
  <2>1. card' \in BOOLEAN /\ heard' = heard \cup {<<"parsed", Shop!None>>}
        /\ UNCHANGED <<orders, line, requesting, attaching, sending, seen, dated, Shop!outside>>
    BY <1>6 DEF Shop!HearParsed, ShopTyped, Sales
  <2>2. heard' \subseteq (Shop!Reports \cup {"order"} \cup Shop!Accounts) \X (Shop!Ids \cup {Shop!None})
    BY <2>1 DEF ShopTyped, Session, Shop!Reports
  <2> QED
    BY <1>1, <2>1, <2>2 DEF ShopTyped, Sales, Lines, Session, Outside, Shop!outside
<1>7. ASSUME NEW word \in {"paid", "cancelled"}, Shop!HearStatus(word)
      PROVE  ShopTyped'
  <2>1. heard' = heard \cup {<<word, Shop!None>>} /\ sending' = sending \cup Shop!relayCoupangStatus(word)
        /\ UNCHANGED <<card, orders, line, requesting, attaching, seen, dated, Shop!outside>>
    BY <1>7 DEF Shop!HearStatus
  <2>2. heard' \subseteq (Shop!Reports \cup {"order"} \cup Shop!Accounts) \X (Shop!Ids \cup {Shop!None})
    BY <2>1 DEF ShopTyped, Session, Shop!Reports
  <2>3. \A q \in Shop!relayCoupangStatus(word) : q \in Shop!Publications /\ q.what # "account" /\ q.account = "none"
    <3>1. CASE Shop!mine # {} /\ orders[Shop!found].st # "none"
      <4>1. Shop!found \in Shop!Ids
        BY <3>1, MineIsFound
      <4>2. Shop!relayCoupangStatus(word) = {Shop!Pub(Shop!request[word], Shop!found, "none")} /\ Shop!request[word] \in {"payment-confirm", "cancel-request"}
        BY <3>1 DEF Shop!relayCoupangStatus, Shop!request
      <4>3. \A w \in {"payment-confirm", "cancel-request"} :
              LET q == Shop!Pub(w, Shop!found, "none") IN q \in Shop!Publications /\ q.what # "account" /\ q.account = "none"
        BY <4>1 DEF Shop!Pub, Shop!Publications, Shop!Whats
      <4> QED
        BY <4>2, <4>3
    <3>2. CASE ~(Shop!mine # {} /\ orders[Shop!found].st # "none")
      BY <3>2 DEF Shop!relayCoupangStatus
    <3> QED
      BY <3>1, <3>2
  <2>4. Session'
    BY <2>1, <2>2, <2>3 DEF ShopTyped, Session
  <2> QED
    BY <1>1, <2>1, <2>4 DEF ShopTyped, Sales, Lines, Outside, Shop!outside
<1> QED
  BY <1>2, <1>3, <1>4, <1>5, <1>6, <1>7 DEF Buttons

LEMMA StepsOfTheShop ==
  ASSUME Shop!Next
  PROVE  \/ AtThePage \/ AtTheShop \/ NewSales \/ ChangedSales \/ Buttons
         \/ \E s \in sending, ok \in BOOLEAN : Shop!Arrive(s) \/ Shop!Told(s, ok)
<1>1. ASSUME NEW s \in sending, Shop!Arrive(s) \/ \E ok \in BOOLEAN : Shop!Told(s, ok)
      PROVE  \E q \in sending, ok \in BOOLEAN : Shop!Arrive(q) \/ Shop!Told(q, ok)
  <2>1. TRUE \in BOOLEAN
    OBVIOUS
  <2> QED
    BY <1>1, <2>1
<1>2. ASSUME NEW i \in Shop!Ids, Shop!PublishDraft(i) \/ Shop!Attach(i) \/ Shop!TypeAccount(i) \/ Shop!Delete(i)
      PROVE  ChangedSales \/ Buttons
  BY <1>2 DEF ChangedSales, Buttons
<1>3. ASSUME NEW i \in Shop!Ids, Shop!HearOrder(i) \/ Shop!HearOwnOrder(i) \/ \E a \in Shop!Accounts : Shop!HearOwnAccount(i, a)
      PROVE  ChangedSales \/ NewSales
  BY <1>3 DEF ChangedSales, NewSales
<1>4. ASSUME NEW i \in Shop!Ids, Shop!Buyer(i) \/ Shop!Ends(i)
      PROVE  AtTheShop
  BY <1>4 DEF AtTheShop
<1>5. ASSUME NEW i \in Shop!Ids \cup {Shop!None}, Shop!Pay(i)
      PROVE  AtTheShop
  BY <1>5 DEF AtTheShop
<1>6. ASSUME NEW word \in {"paid", "cancelled"}, Shop!HearStatus(word)
      PROVE  Buttons
  BY <1>6 DEF Buttons
<1> QED
  BY <1>1, <1>2, <1>3, <1>4, <1>5, <1>6 DEF Shop!Next, AtThePage, AtTheShop, NewSales, Buttons

LEMMA ShopTypedGoesOn == ASSUME Shop!CoupangAssumption, ShopTyped, [Shop!Next]_(Shop!vars) PROVE ShopTyped'
<1>1. CASE AtThePage
  <2>1. AtPage' /\ UNCHANGED <<Shop!app, Shop!outside>>
    BY <1>1, TypedAtPage
  <2>2. UNCHANGED <<card, orders, line, requesting, attaching, sending, heard, seen, dated>> /\ UNCHANGED <<st, sent, sends, reached>>
    BY <2>1 DEF Shop!app, Shop!session, Shop!outside
  <2> QED
    BY <2>1, <2>2 DEF ShopTyped, Sales, Lines, Session, Outside
<1>2. CASE AtTheShop
  <2>1. AtPage' /\ Outside' /\ UNCHANGED Shop!app
    BY <1>2, TypedAtShop
  <2>2. UNCHANGED <<card, orders, line, requesting, attaching, sending, heard, seen, dated>>
    BY <2>1 DEF Shop!app, Shop!session
  <2> QED
    BY <2>1, <2>2 DEF ShopTyped, Sales, Lines, Session
<1>3. CASE UNCHANGED Shop!vars
  <2>1. /\ UNCHANGED <<card, orders, line, requesting, attaching, sending, heard, seen, dated>>
        /\ UNCHANGED <<st, sent, sends, reached>> /\ UNCHANGED <<shop, dead, payer, key, code, processed, page, relay>>
    BY <1>3 DEF Shop!vars, Shop!app, Shop!session, Shop!outside, Shop!atShop, Shop!script
  <2> QED
    BY <2>1 DEF ShopTyped, AtPage, Sales, Lines, Session, Outside
<1>4. ASSUME NEW s \in sending, NEW ok \in BOOLEAN, Shop!Arrive(s) \/ Shop!Told(s, ok)
      PROVE  ShopTyped'
  BY <1>4, TypedOfPublications
<1> QED
  BY <1>1, <1>2, <1>3, <1>4, StepsOfTheShop, TypedOfNewSales, TypedOfChangedSales, TypedOfButtons

\* TypeOK: the variables hold what the programs store; of two sales one was added first.
THEOREM ShopIsTyped == ASSUME Shop!CoupangAssumption PROVE Shop!Spec => []Shop!TypeOK
<1>1. ShopTyped => Shop!TypeOK
  BY DEF ShopTyped, Shop!TypeOK, AtPage, Sales, Lines, Session, Outside
<1> QED
  BY <1>1, ShopTypedStarts, ShopTypedGoesOn, PTL DEF Shop!Spec

-----------------------------------------------------------------------------
\* What the steps do to the sales, one by one.
Changed(i) == DOMAIN orders' = DOMAIN orders /\ \A j \in DOMAIN orders : j # i => orders'[j] = orders[j]
NewSale(i, b, x) ==
  /\ i \in Shop!Ids /\ i \notin DOMAIN orders /\ DOMAIN orders' = (DOMAIN orders) \cup {i}
  /\ \A j \in DOMAIN orders : orders'[j] = orders[j]
  /\ orders'[i].fixed = b /\ orders'[i].st = x /\ orders'[i].account = "none"
SentBySelf(i) ==
  /\ sending' = sending \cup {Shop!Pub("account", i, "shop")} /\ sends' = [sends EXCEPT ![i] = Shop!again(sends[i])]
  /\ orders'[i].fixed /\ orders'[i].account = "none" /\ orders'[i].st \in {"invoiced", "remitted"}
  /\ \A s \in sending : ~(s.id = i /\ s.account = "shop")

LEMMA PubIs ==
  ASSUME NEW w, NEW i, NEW a
  PROVE  Shop!Pub(w, i, a).what = w /\ Shop!Pub(w, i, a).id = i /\ Shop!Pub(w, i, a).account = a /\ Shop!Pub(w, i, a).there = FALSE
BY DEF Shop!Pub

LEMMA DraftIsNew ==
  ASSUME ShopTyped, NEW i \in Shop!Ids, i \notin DOMAIN orders, NEW b \in BOOLEAN, orders' = Shop!add(i, Shop!Draft(b))
  PROVE  NewSale(i, b, "none")
<1> DEFINE sale == Shop!Draft(b)
<1>1. sale \in Shop!Sale /\ sale.fixed = b /\ sale.st = "none" /\ sale.account = "none"
  BY DraftIsASale
<1>2. orders' = Shop!add(i, sale)
  OBVIOUS
<1> HIDE DEF sale
<1>2a. Sales
  BY DEF ShopTyped
<1>2b. DOMAIN Shop!add(i, sale) = (DOMAIN orders) \cup {i} /\ Shop!add(i, sale)[i] = sale /\ \A j \in DOMAIN orders : j # i => Shop!add(i, sale)[j] = orders[j]
  BY <1>1, <1>2a, SalesOfAdd
<1>3. orders'[i] = sale /\ DOMAIN orders' = (DOMAIN orders) \cup {i} /\ \A j \in DOMAIN orders : orders'[j] = orders[j]
  BY <1>2, <1>2b
<1>4. orders'[i].fixed = b /\ orders'[i].st = "none" /\ orders'[i].account = "none"
  BY <1>1, <1>3, Zenon
<1> QED
  BY <1>3, <1>4 DEF NewSale

LEMMA NewSalesAre ==
  ASSUME Shop!CoupangAssumption, ShopTyped, NewSales
  PROVE  /\ UNCHANGED <<Shop!atShop, Shop!script, relay, Shop!outside, card, attaching, seen>>
         /\ \/ \E i \in Shop!Ids : /\ NewSale(i, FALSE, "none") /\ st[i] = "none" /\ UNCHANGED <<sending, requesting>>
                                   /\ UNCHANGED heard
            \/ \E i \in Shop!Ids : /\ NewSale(i, TRUE, "none") /\ st[i] = "none" /\ (\A s \in sending : s.id # i)
                                   /\ sending' = sending \cup {Shop!Pub("order", i, "none")} /\ requesting' = i /\ requesting = Shop!None
                                   /\ card /\ (~Hasty => attaching = Shop!None /\ shop = "unpaid") /\ UNCHANGED heard
            \/ \E i \in Shop!Ids : /\ NewSale(i, FALSE, seen[i]) /\ UNCHANGED <<sending, requesting>>
                                   /\ heard' = heard \cup {<<"order", i>>}
<1>1. UNCHANGED <<Shop!atShop, Shop!script, relay, Shop!outside, card, attaching, seen>>
  BY DEF NewSales, Shop!Post, Shop!ListParsed, Shop!HearOwnOrder, Shop!session
<1>2. CASE Shop!Post
  <2>1. Shop!newOrderId \in Shop!Ids /\ Shop!newOrderId \notin DOMAIN orders /\ st[Shop!newOrderId] = "none" /\ orders' = Shop!add(Shop!newOrderId, Shop!Draft(FALSE))
        /\ UNCHANGED <<sending, requesting, heard>>
    BY <1>2, NewIsFree DEF Shop!Post, Shop!addOrder, Shop!session
  <2>2. NewSale(Shop!newOrderId, FALSE, "none")
    BY <2>1, DraftIsNew
  <2> QED
    BY <1>1, <2>1, <2>2
<1>3. CASE Shop!ListParsed
  <2>1. /\ Shop!newOrderId \in Shop!Ids /\ Shop!newOrderId \notin DOMAIN orders /\ st[Shop!newOrderId] = "none" /\ (\A s \in sending : s.id # Shop!newOrderId)
        /\ orders' = Shop!add(Shop!newOrderId, Shop!Draft(TRUE))
        /\ sending' = sending \cup {Shop!Pub("order", Shop!newOrderId, "none")} /\ requesting' = Shop!newOrderId /\ requesting = Shop!None
        /\ card /\ (~Hasty => attaching = Shop!None /\ shop = "unpaid") /\ UNCHANGED heard
    BY <1>3, NewIsFree DEF Shop!ListParsed, Shop!addOrder
  <2>2. NewSale(Shop!newOrderId, TRUE, "none")
    BY <2>1, DraftIsNew
  <2> QED
    BY <1>1, <2>1, <2>2
<1>4. ASSUME NEW i \in Shop!Ids, Shop!HearOwnOrder(i)
      PROVE  NewSale(i, FALSE, seen[i]) /\ UNCHANGED <<sending, requesting>> /\ heard' = heard \cup {<<"order", i>>}
  <2> DEFINE sale == [Shop!Draft(FALSE) EXCEPT !.raw = TRUE, !.st = seen[i]]
  <2>1. seen[i] \in Shop!States
    BY DEF ShopTyped, Session
  <2>2. sale \in Shop!Sale /\ sale.fixed = FALSE /\ sale.st = seen[i] /\ sale.account = "none"
    BY <2>1 DEF Shop!Draft, Shop!Sale
  <2>3. i \notin DOMAIN orders /\ orders' = Shop!add(i, sale) /\ UNCHANGED <<sending, requesting>> /\ heard' = heard \cup {<<"order", i>>}
    BY <1>4 DEF Shop!HearOwnOrder, Shop!addOrder
  <2> HIDE DEF sale
  <2> QED
    BY <2>2, <2>3, SalesOfAdd DEF NewSale, ShopTyped
<1> QED
  BY <1>1, <1>2, <1>3, <1>4 DEF NewSales

LEMMA ChangedSalesAre ==
  ASSUME ShopTyped, ChangedSales
  PROVE  /\ UNCHANGED <<Shop!atShop, Shop!script, relay, requesting, st, sent, reached>>
         /\ \E i \in Shop!Ids :
              \/ /\ i \in DOMAIN orders /\ Changed(i) /\ orders'[i].fixed /\ ~orders[i].fixed
                 /\ orders'[i].st = orders[i].st /\ orders'[i].account = orders[i].account
                 /\ card /\ requesting = Shop!None /\ attaching = Shop!None /\ (~Hasty => shop = "unpaid") /\ UNCHANGED <<seen, heard>>
                 /\ \/ UNCHANGED <<sending, sends>> /\ ~card' /\ attaching' = Shop!None
                    \/ SentBySelf(i) /\ attaching' = i
              \/ /\ i \in DOMAIN orders => /\ Changed(i) /\ orders'[i].st = st[i]
                                           /\ orders'[i].fixed = orders[i].fixed /\ orders'[i].account = orders[i].account
                 /\ i \notin DOMAIN orders => orders' = orders /\ UNCHANGED <<sending, sends>>
                 /\ st[i] # "none" /\ seen' = [seen EXCEPT ![i] = st[i]] /\ UNCHANGED <<card, attaching, heard>>
                 /\ (UNCHANGED <<sending, sends>> \/ (SentBySelf(i) /\ st[i] = "invoiced"))
              \/ /\ i \in DOMAIN orders /\ Changed(i) /\ orders'[i].st = orders[i].st /\ orders'[i].fixed = orders[i].fixed
                 /\ orders'[i].account # "none" /\ UNCHANGED <<card, attaching, sending, sends, seen>>
                 /\ \E a \in Shop!Accounts : heard' = heard \cup {<<a, i>>}
<1>1. UNCHANGED <<Shop!atShop, Shop!script, relay, requesting, st, sent, reached>>
  BY DEF ChangedSales, Shop!Attach, Shop!HearOrder, Shop!HearOwnAccount, Shop!outside
<1>2. ASSUME NEW i \in Shop!Ids, NEW sale \in Shop!Sale, i \in DOMAIN orders, orders' = Shop!add(i, sale), Shop!autoSendAccountInfo(i, sale)
      PROVE  /\ Changed(i) /\ orders'[i] = sale
             /\ Shop!autoSendable(i, sale) => SentBySelf(i)
             /\ ~Shop!autoSendable(i, sale) => UNCHANGED <<sending, sends>>
  <2>1. Changed(i) /\ orders'[i] = sale
    BY <1>2, SalesOfAdd DEF Changed, ShopTyped
  <2>2. CASE Shop!autoSendable(i, sale)
    BY <1>2, <2>1, <2>2 DEF SentBySelf, Shop!autoSendAccountInfo, Shop!autoSendable, Shop!canSendAccountInfo
  <2>3. CASE ~Shop!autoSendable(i, sale)
    BY <1>2, <2>1, <2>3 DEF Shop!autoSendAccountInfo
  <2> QED
    BY <2>1, <2>2, <2>3
<1>3. ASSUME NEW i \in Shop!Ids, Shop!Attach(i)
      PROVE  /\ i \in DOMAIN orders /\ Changed(i) /\ orders'[i].fixed /\ ~orders[i].fixed
             /\ orders'[i].st = orders[i].st /\ orders'[i].account = orders[i].account
             /\ card /\ requesting = Shop!None /\ attaching = Shop!None /\ (~Hasty => shop = "unpaid") /\ UNCHANGED <<seen, heard>>
             /\ \/ UNCHANGED <<sending, sends>> /\ ~card' /\ attaching' = Shop!None
                \/ SentBySelf(i) /\ attaching' = i
  <2> DEFINE sale == [orders[i] EXCEPT !.fixed = TRUE]
  <2>1. /\ i \in DOMAIN orders /\ orders' = Shop!add(i, sale) /\ Shop!autoSendAccountInfo(i, sale) /\ ~orders[i].fixed
        /\ attaching' = (IF Shop!autoSendable(i, sale) THEN i ELSE Shop!None) /\ card' = Shop!autoSendable(i, sale)
        /\ card /\ requesting = Shop!None /\ attaching = Shop!None /\ (~Hasty => shop = "unpaid") /\ UNCHANGED <<seen, heard>>
    BY <1>3 DEF Shop!Attach
  <2>2. orders[i] \in Shop!Sale
    BY <2>1 DEF ShopTyped, Sales
  <2>3. sale \in Shop!Sale /\ sale.fixed = TRUE /\ sale.st = orders[i].st /\ sale.account = orders[i].account
    BY <2>2 DEF Shop!Sale
  <2> HIDE DEF sale
  <2>4. Changed(i) /\ orders'[i] = sale
    BY <1>2, <2>1, <2>3
  <2>5. CASE Shop!autoSendable(i, sale)
    BY <1>2, <2>1, <2>3, <2>4, <2>5
  <2>6. CASE ~Shop!autoSendable(i, sale)
    BY <1>2, <2>1, <2>3, <2>4, <2>6
  <2> QED
    BY <2>5, <2>6
<1>4. ASSUME NEW i \in Shop!Ids, Shop!HearOrder(i)
      PROVE  /\ i \in DOMAIN orders => /\ Changed(i) /\ orders'[i].st = st[i]
                                       /\ orders'[i].fixed = orders[i].fixed /\ orders'[i].account = orders[i].account
             /\ i \notin DOMAIN orders => orders' = orders /\ UNCHANGED <<sending, sends>>
             /\ st[i] # "none" /\ seen' = [seen EXCEPT ![i] = st[i]] /\ UNCHANGED <<card, attaching, heard>>
             /\ (UNCHANGED <<sending, sends>> \/ (SentBySelf(i) /\ st[i] = "invoiced"))
  <2> DEFINE sale == [orders[i] EXCEPT !.st = st[i]]
  <2>1. st[i] # "none" /\ seen' = [seen EXCEPT ![i] = st[i]] /\ UNCHANGED <<card, attaching, heard>> /\ st[i] \in Shop!States
    BY <1>4 DEF Shop!HearOrder, ShopTyped, Outside
  <2>2. CASE i \in DOMAIN orders
    <3>1. orders[i] \in Shop!Sale
      BY <2>2 DEF ShopTyped, Sales
    <3>2. sale \in Shop!Sale /\ sale.st = st[i] /\ sale.fixed = orders[i].fixed /\ sale.account = orders[i].account
      BY <2>1, <3>1 DEF Shop!Sale
    <3>3. orders' = Shop!add(i, sale) /\ IF st[i] = "invoiced" THEN Shop!autoSendAccountInfo(i, sale) ELSE UNCHANGED <<sending, sends>>
      BY <1>4, <2>2 DEF Shop!HearOrder
    <3> HIDE DEF sale
    <3>4. Changed(i) /\ orders'[i] = sale
      <4>1. /\ DOMAIN Shop!add(i, sale) = (DOMAIN orders) \cup {i} /\ Shop!add(i, sale)[i] = sale
            /\ \A j \in DOMAIN orders : j # i => Shop!add(i, sale)[j] = orders[j]
        BY <3>2, SalesOfAdd DEF ShopTyped
      <4>2. (DOMAIN orders) \cup {i} = DOMAIN orders /\ orders' = Shop!add(i, sale)
        BY <2>2, <3>3
      <4> QED
        BY <4>1, <4>2 DEF Changed
    <3>5. UNCHANGED <<sending, sends>> \/ (SentBySelf(i) /\ st[i] = "invoiced")
      <4>1. CASE st[i] = "invoiced"
        BY <1>2, <2>2, <3>2, <3>3, <4>1
      <4>2. CASE st[i] # "invoiced"
        BY <3>3, <4>2
      <4> QED
        BY <4>1, <4>2
    <3> QED
      BY <2>1, <2>2, <3>2, <3>4, <3>5
  <2>3. CASE i \notin DOMAIN orders
    BY <1>4, <2>1, <2>3 DEF Shop!HearOrder
  <2> QED
    BY <2>2, <2>3
<1>5. ASSUME NEW i \in Shop!Ids, NEW a \in Shop!Accounts, Shop!HearOwnAccount(i, a)
      PROVE  /\ i \in DOMAIN orders /\ Changed(i) /\ orders'[i].st = orders[i].st /\ orders'[i].fixed = orders[i].fixed
             /\ orders'[i].account # "none" /\ UNCHANGED <<card, attaching, sending, sends, seen>>
             /\ heard' = heard \cup {<<a, i>>}
  <2>1. /\ i \in DOMAIN orders /\ orders' = [orders EXCEPT ![i].account = a]
        /\ UNCHANGED <<card, attaching, sending, sends, seen>> /\ heard' = heard \cup {<<a, i>>}
    BY <1>5 DEF Shop!HearOwnAccount, Shop!outside
  <2>2. orders[i] \in Shop!Sale
    BY <2>1 DEF ShopTyped, Sales
  <2>3. [orders[i] EXCEPT !.account = a].st = orders[i].st /\ [orders[i] EXCEPT !.account = a].fixed = orders[i].fixed
        /\ [orders[i] EXCEPT !.account = a].account = a /\ a # "none"
    BY <2>2 DEF Shop!Sale, Shop!Accounts
  <2>4. orders' = [orders EXCEPT ![i] = [orders[i] EXCEPT !.account = a]]
    BY <2>1
  <2>5. Changed(i) /\ orders'[i] = [orders[i] EXCEPT !.account = a]
    BY <2>1, <2>4 DEF Changed
  <2> QED
    BY <2>1, <2>3, <2>5
<1> QED
  BY <1>1, <1>3, <1>4, <1>5 DEF ChangedSales

-----------------------------------------------------------------------------
(* The states that the app knows are behind the daemon's, and no account goes before an   *)
(* invoice.                                                                               *)
Due == {"invoiced", "remitted", "paid"}
Later(x, y) == /\ x \in Shop!Terminal => y \in Shop!Terminal
               /\ x \in {"invoiced", "remitted"} => y \in {"invoiced", "remitted"} \cup Shop!Terminal
               /\ x # "none" => y # "none"
Invoiced == /\ \A i \in Shop!Ids : (st[i] \in Due => i \in reached) /\ (seen[i] \in Due => i \in reached) /\ (sent[i] # {} => i \in reached)
            /\ \A i \in DOMAIN orders : orders[i].st \in Due => i \in reached
            /\ \A s \in sending : s.what = "account" => s.id \in reached
Behind == /\ \A i \in Shop!Ids : Later(seen[i], st[i])
          /\ \A i \in DOMAIN orders : Later(orders[i].st, st[i])

LEMMA LaterAndLater ==
  /\ \A x \in Shop!States : Later(x, x) /\ Later("none", x)
  /\ \A x, y, z \in Shop!States : Later(x, y) /\ Later(y, z) => Later(x, z)
BY DEF Later, Shop!States, Shop!Terminal

LEMMA StatesMove ==
  ASSUME Shop!CoupangAssumption, ShopTyped, [Shop!Next]_(Shop!vars), \A i \in Shop!Ids : st[i] \in Due => i \in reached
  PROVE  /\ reached \subseteq reached'
         /\ \A i \in Shop!Ids : Later(st[i], st'[i]) /\ (st'[i] \in Due => i \in reached')
<1>1. st \in [Shop!Ids -> Shop!States]
  BY DEF ShopTyped, Outside
<1>2. CASE UNCHANGED <<st, reached>>
  <2>1. st' = st /\ reached' = reached
    BY <1>2
  <2> QED
    BY <1>1, <2>1, LaterAndLater
<1>3. ASSUME NEW i \in Shop!Ids, Shop!Buyer(i)
      PROVE  /\ reached \subseteq reached'
             /\ \A j \in Shop!Ids : Later(st[j], st'[j]) /\ (st'[j] \in Due => j \in reached')
  <2>1. reached' = reached \cup (IF st'[i] = "invoiced" THEN {i} ELSE {}) /\ st[i] \notin {"none"} \cup Shop!Terminal
        /\ \A j \in Shop!Ids : j # i => st'[j] = st[j]
    BY <1>1, <1>3 DEF Shop!Buyer, Shop!Terminal
  <2>2. \/ st[i] = "requested" /\ st'[i] = "claimed"
        \/ st[i] = "claimed" /\ st'[i] = "escrowed"
        \/ st[i] = "escrowed" /\ st'[i] = "invoiced"
        \/ st[i] = "invoiced" /\ st'[i] = "remitted"
    BY <1>1, <1>3 DEF Shop!Buyer
  <2>3. Later(st[i], st'[i]) /\ (st'[i] \in Due => i \in reached')
    BY <2>1, <2>2 DEF Later, Due, Shop!Terminal
  <2>4. \A j \in Shop!Ids : j # i => Later(st[j], st'[j]) /\ (st'[j] \in Due => j \in reached')
    BY <1>1, <2>1, LaterAndLater
  <2> QED
    BY <2>1, <2>3, <2>4
<1>4. ASSUME NEW i \in Shop!Ids, Shop!Ends(i)
      PROVE  /\ reached \subseteq reached'
             /\ \A j \in Shop!Ids : Later(st[j], st'[j]) /\ (st'[j] \in Due => j \in reached')
  <2>1. reached' = reached /\ st'[i] = "closed" /\ st[i] \notin {"none"} \cup Shop!Terminal
        /\ \A j \in Shop!Ids : j # i => st'[j] = st[j]
    BY <1>1, <1>4 DEF Shop!Ends, Shop!Terminal
  <2>2. Later(st[i], st'[i]) /\ st'[i] \notin Due
    BY <2>1 DEF Later, Due, Shop!Terminal
  <2>3. \A j \in Shop!Ids : j # i => Later(st[j], st'[j]) /\ (st'[j] \in Due => j \in reached')
    BY <1>1, <2>1, LaterAndLater
  <2> QED
    BY <2>1, <2>2, <2>3
<1>5. ASSUME NEW s \in sending, Shop!Arrive(s)
      PROVE  /\ reached \subseteq reached'
             /\ \A j \in Shop!Ids : Later(st[j], st'[j]) /\ (st'[j] \in Due => j \in reached')
  <2>1. s.id \in Shop!Ids /\ reached' = reached /\ st'[s.id] = Shop!judged(st[s.id], s.what) /\ \A j \in Shop!Ids : j # s.id => st'[j] = st[j]
    BY <1>1, <1>5 DEF Shop!Arrive, ShopTyped, Session, Shop!Publications
  <2>2. \/ st'[s.id] = st[s.id]
        \/ st[s.id] = "none" /\ st'[s.id] = "requested"
        \/ st[s.id] \in {"invoiced", "remitted"} /\ st'[s.id] = "paid"
        \/ st[s.id] \in {"requested", "claimed"} /\ st'[s.id] = "closed"
    BY <2>1 DEF Shop!judged
  <2>3. Later(st[s.id], st'[s.id]) /\ (st'[s.id] \in Due => s.id \in reached')
    BY <2>1, <2>2 DEF Later, Due, Shop!Terminal
  <2>4. \A j \in Shop!Ids : j # s.id => Later(st[j], st'[j]) /\ (st'[j] \in Due => j \in reached')
    BY <1>1, <2>1, LaterAndLater
  <2> QED
    BY <2>1, <2>3, <2>4
<1>6. CASE AtThePage \/ UNCHANGED Shop!vars
  BY <1>2, <1>6, TypedAtPage DEF Shop!outside, Shop!vars
<1>7. CASE NewSales
  BY <1>2, <1>7 DEF NewSales, Shop!Post, Shop!ListParsed, Shop!HearOwnOrder, Shop!outside
<1>8. CASE ChangedSales
  BY <1>2, <1>8 DEF ChangedSales, Shop!Attach, Shop!HearOrder, Shop!HearOwnAccount, Shop!outside
<1>9. CASE Buttons
  BY <1>2, <1>9 DEF Buttons, Shop!PublishDraft, Shop!TypeAccount, Shop!Delete, Shop!Dismiss, Shop!Reload, Shop!HearParsed, Shop!HearStatus, Shop!outside
<1>10. ASSUME NEW i \in Shop!Ids \cup {Shop!None}, Shop!Pay(i)
       PROVE  UNCHANGED <<st, reached>>
  BY <1>10 DEF Shop!Pay, Shop!outside
<1>11. CASE Shop!CancelAtShop \/ Shop!Lapse
  BY <1>2, <1>11 DEF Shop!CancelAtShop, Shop!Lapse, Shop!outside
<1>12. ASSUME NEW s \in sending, NEW ok \in BOOLEAN, Shop!Told(s, ok)
       PROVE  UNCHANGED <<st, reached>>
  BY <1>12 DEF Shop!Told, Shop!outside
<1> QED
  BY <1>2, <1>3, <1>4, <1>5, <1>6, <1>7, <1>8, <1>9, <1>10, <1>11, <1>12, StepsOfTheShop DEF AtTheShop

LEMMA SalesMove ==
  ASSUME Shop!CoupangAssumption, ShopTyped, [Shop!Next]_(Shop!vars)
  PROVE  /\ \A i \in Shop!Ids : seen'[i] \in {"none", seen[i], st[i]}
         /\ \A i \in DOMAIN orders' : \/ orders'[i].st \in {"none", seen[i], st[i]}
                                      \/ i \in DOMAIN orders /\ orders'[i].st = orders[i].st
<1>1. seen \in [Shop!Ids -> Shop!States]
  BY DEF ShopTyped, Session
<1>2. CASE UNCHANGED <<seen, orders>>
  BY <1>2
<1>3. CASE AtThePage \/ AtTheShop \/ UNCHANGED Shop!vars
  BY <1>2, <1>3, TypedAtPage, TypedAtShop DEF Shop!app, Shop!session, Shop!vars
<1>4. ASSUME NEW s \in sending, NEW ok \in BOOLEAN, Shop!Arrive(s) \/ Shop!Told(s, ok)
      PROVE  /\ seen' = seen /\ DOMAIN orders' = DOMAIN orders
             /\ \A i \in DOMAIN orders : orders'[i].st = orders[i].st
  <2>1. CASE Shop!Arrive(s)
    BY <2>1 DEF Shop!Arrive
  <2>2. CASE Shop!Told(s, ok)
    <3>1. Sales /\ s \in Shop!Publications /\ (s.what = "account" => s.account \in Shop!Accounts)
      BY DEF ShopTyped, Session, Shop!Publications
    <3>2. seen' = seen /\ orders' = Shop!after(s, ok)
      BY <2>2 DEF Shop!Told
    <3> QED
      BY <3>1, <3>2, SalesOfAfter
  <2> QED
    BY <1>4, <2>1, <2>2
<1>5. CASE NewSales
  BY <1>5, NewSalesAre DEF NewSale
<1>6. CASE ChangedSales
  BY <1>1, <1>6, ChangedSalesAre DEF Changed
<1>7. CASE Buttons
  <2>1. CASE Shop!Reload
    BY <2>1 DEF Shop!Reload
  <2>2. ASSUME NEW i \in Shop!Ids, Shop!Delete(i)
        PROVE  seen' = seen /\ \A j \in DOMAIN orders' : j \in DOMAIN orders /\ orders'[j] = orders[j]
    BY <2>2 DEF Shop!Delete, Shop!session
  <2>3. CASE Shop!Dismiss \/ Shop!HearParsed \/ (\E i \in Shop!Ids : Shop!PublishDraft(i) \/ Shop!TypeAccount(i)) \/ (\E word \in {"paid", "cancelled"} : Shop!HearStatus(word))
    BY <1>2, <2>3 DEF Shop!Dismiss, Shop!HearParsed, Shop!PublishDraft, Shop!TypeAccount, Shop!HearStatus, Shop!session
  <2> QED
    BY <1>7, <2>1, <2>2, <2>3 DEF Buttons
<1> QED
  BY <1>3, <1>4, <1>5, <1>6, <1>7, StepsOfTheShop

LEMMA BehindGoesOn ==
  ASSUME Shop!CoupangAssumption, ShopTyped, Behind, [Shop!Next]_(Shop!vars), \A i \in Shop!Ids : st[i] \in Due => i \in reached
  PROVE  Behind'
<1>1. ShopTyped'
  BY ShopTypedGoesOn
<1>2. /\ \A i \in Shop!Ids : st[i] \in Shop!States /\ st'[i] \in Shop!States /\ seen[i] \in Shop!States /\ seen'[i] \in Shop!States /\ "none" \in Shop!States
      /\ \A i \in DOMAIN orders : i \in Shop!Ids /\ orders[i].st \in Shop!States
      /\ \A i \in DOMAIN orders' : i \in Shop!Ids /\ orders'[i].st \in Shop!States
  BY <1>1 DEF ShopTyped, Outside, Session, Sales, Shop!Sale, Shop!States
<1>3. \A i \in Shop!Ids : Later(st[i], st'[i])
  BY StatesMove
<1>4. ASSUME NEW i \in Shop!Ids
      PROVE  Later("none", st'[i]) /\ Later(seen[i], st'[i]) /\ Later(st[i], st'[i])
  BY <1>2, <1>3, LaterAndLater DEF Behind
<1>5. ASSUME NEW i \in DOMAIN orders
      PROVE  Later(orders[i].st, st'[i])
  BY <1>2, <1>3, LaterAndLater DEF Behind
<1>6. \A i \in Shop!Ids : Later(seen'[i], st'[i])
  BY <1>4, SalesMove
<1>7. \A i \in DOMAIN orders' : Later(orders'[i].st, st'[i])
  BY <1>2, <1>4, <1>5, SalesMove
<1> QED
  BY <1>6, <1>7 DEF Behind

\* Which accounts go out, and which reach the relays.
LEMMA AccountsMove ==
  ASSUME Shop!CoupangAssumption, ShopTyped, [Shop!Next]_(Shop!vars)
  PROVE  /\ \A s \in sending' : s.what = "account" =>
              \/ \E q \in sending : q.what = "account" /\ q.id = s.id /\ q.account = s.account
              \/ /\ s.id \in DOMAIN orders' /\ orders'[s.id].st \in {"invoiced", "remitted"}
                 /\ (s.account = "shop" /\ orders'[s.id].fixed) \/ (Typing /\ s.account = "typed")
         /\ \A i \in Shop!Ids : \A a \in sent'[i] : \/ a \in sent[i]
                                                    \/ \E q \in sending : q.what = "account" /\ q.id = i /\ q.account = a
<1>1. CASE UNCHANGED <<sending, sent>>
  BY <1>1
<1>2. CASE AtThePage \/ AtTheShop \/ UNCHANGED Shop!vars
  BY <1>1, <1>2, TypedAtPage, TypedAtShop DEF Shop!app, Shop!session, Shop!outside, Shop!vars
<1>3. ASSUME NEW s \in sending, Shop!Arrive(s)
      PROVE  /\ \A r \in sending' : \E q \in sending : q.what = r.what /\ q.id = r.id /\ q.account = r.account
             /\ \A i \in Shop!Ids : \A a \in sent'[i] : \/ a \in sent[i]
                                                        \/ \E q \in sending : q.what = "account" /\ q.id = i /\ q.account = a
  <2>1. s \in Shop!Publications /\ (s.what = "account" <=> s.account # "none") /\ sent \in [Shop!Ids -> SUBSET Shop!Accounts]
    BY DEF ShopTyped, Session, Outside
  <2>2. LET r == [s EXCEPT !.there = TRUE] IN r.what = s.what /\ r.id = s.id /\ r.account = s.account
    BY <2>1 DEF Shop!Publications
  <2>3. sending' = (sending \ {s}) \cup {[s EXCEPT !.there = TRUE]} /\ sent' = [sent EXCEPT ![s.id] = sent[s.id] \cup ({s.account} \cap Shop!Accounts)]
    BY <1>3 DEF Shop!Arrive
  <2>4. "none" \notin Shop!Accounts /\ s.id \in Shop!Ids
    BY <2>1 DEF Shop!Accounts, Shop!Publications
  <2>5. \A r \in sending' : \E q \in sending : q.what = r.what /\ q.id = r.id /\ q.account = r.account
    BY <2>2, <2>3
  <2> QED
    BY <2>1, <2>3, <2>4, <2>5
<1>4. ASSUME NEW s \in sending, NEW ok \in BOOLEAN, Shop!Told(s, ok)
      PROVE  sending' \subseteq sending /\ sent' = sent
  BY <1>4 DEF Shop!Told, Shop!outside
<1>5. CASE NewSales
  <2>1. ASSUME NEW i \in Shop!Ids, sending' = sending \cup {Shop!Pub("order", i, "none")}, UNCHANGED Shop!outside
        PROVE  sent' = sent /\ \A s \in sending' : s \in sending \/ s.what = "order"
    BY <2>1 DEF Shop!Pub, Shop!outside
  <2>2. UNCHANGED Shop!outside /\ (UNCHANGED sending \/ \E i \in Shop!Ids : sending' = sending \cup {Shop!Pub("order", i, "none")})
    BY <1>5, NewSalesAre
  <2>3. sent' = sent /\ \A s \in sending' : s \in sending \/ s.what = "order"
    BY <2>1, <2>2 DEF Shop!outside
  <2> QED
    BY <2>3
<1>6. CASE ChangedSales
  <2>1. sent' = sent
    BY <1>6, ChangedSalesAre
  <2>2. UNCHANGED sending \/ \E i \in Shop!Ids : SentBySelf(i) /\ i \in DOMAIN orders'
    BY <1>6, ChangedSalesAre DEF Changed
  <2>3. ASSUME NEW i \in Shop!Ids, SentBySelf(i), i \in DOMAIN orders', NEW s \in sending', s \notin sending
        PROVE  s.id = i /\ s.account = "shop" /\ orders'[i].st \in {"invoiced", "remitted"} /\ orders'[i].fixed
    BY <2>3 DEF Shop!Pub, SentBySelf
  <2> QED
    BY <2>1, <2>2, <2>3
<1>7. CASE Buttons
  <2>1. sent' = sent
    BY <1>7 DEF Buttons, Shop!PublishDraft, Shop!TypeAccount, Shop!Delete, Shop!Dismiss, Shop!Reload, Shop!HearParsed, Shop!HearStatus, Shop!outside
  <2>2. ASSUME NEW i \in Shop!Ids, Shop!PublishDraft(i)
        PROVE  \A s \in sending' : s \in sending \/ s.what = "order"
    BY <2>2 DEF Shop!Pub, Shop!PublishDraft
  <2>3. ASSUME NEW i \in Shop!Ids, Shop!TypeAccount(i)
        PROVE  \A s \in sending' : \/ s \in sending
                                   \/ /\ s.id = i /\ i \in DOMAIN orders' /\ orders'[i].st \in {"invoiced", "remitted"}
                                      /\ Typing /\ s.account = "typed"
    BY <2>3 DEF Shop!Pub, Shop!TypeAccount, Shop!canSendAccountInfo
  <2>4. ASSUME NEW word \in {"paid", "cancelled"}, Shop!HearStatus(word)
        PROVE  \A s \in sending' : s \in sending \/ s.what # "account"
    <3>1. sending' = sending \cup Shop!relayCoupangStatus(word) /\ Shop!request[word] # "account"
      BY <2>4 DEF Shop!HearStatus, Shop!request
    <3>2. \A s \in Shop!relayCoupangStatus(word) : s.what = Shop!request[word]
      BY DEF Shop!Pub, Shop!relayCoupangStatus
    <3> QED
      BY <3>1, <3>2
  <2>5. CASE Shop!Dismiss \/ Shop!Reload \/ Shop!HearParsed \/ \E i \in Shop!Ids : Shop!Delete(i)
    <3>1. sending' \subseteq sending
      BY <2>5 DEF Shop!Dismiss, Shop!Reload, Shop!HearParsed, Shop!Delete, Shop!session
    <3> QED
      BY <2>1, <3>1
  <2>6. CASE \E i \in Shop!Ids : Shop!PublishDraft(i)
    <3>1. \A s \in sending' : s \in sending \/ s.what = "order"
      BY <2>2, <2>6
    <3> QED
      BY <2>1, <3>1
  <2>7. ASSUME NEW i \in Shop!Ids, Shop!TypeAccount(i), NEW s \in sending', s.what = "account"
        PROVE  \/ \E q \in sending : q.what = "account" /\ q.id = s.id /\ q.account = s.account
               \/ /\ s.id \in DOMAIN orders' /\ orders'[s.id].st \in {"invoiced", "remitted"}
                  /\ (s.account = "shop" /\ orders'[s.id].fixed) \/ (Typing /\ s.account = "typed")
    BY <2>3, <2>7
  <2>8. CASE \E word \in {"paid", "cancelled"} : Shop!HearStatus(word)
    <3>1. \A s \in sending' : s \in sending \/ s.what # "account"
      BY <2>4, <2>8
    <3> QED
      BY <2>1, <3>1
  <2> QED
    BY <1>7, <2>1, <2>5, <2>6, <2>7, <2>8 DEF Buttons
<1> QED
  BY <1>2, <1>3, <1>4, <1>5, <1>6, <1>7, StepsOfTheShop

LEMMA InvoicedGoesOn ==
  ASSUME Shop!CoupangAssumption, ShopTyped, Invoiced, [Shop!Next]_(Shop!vars)
  PROVE  Invoiced'
<1>1. ShopTyped'
  BY ShopTypedGoesOn
<1>2. /\ reached \subseteq reached' /\ \A i \in Shop!Ids : st'[i] \in Due => i \in reached'
  BY StatesMove DEF Invoiced
<1>3. "none" \notin Due /\ "invoiced" \in Due /\ "remitted" \in Due
  BY DEF Due
<1>4. \A i \in Shop!Ids : seen'[i] \in Due => i \in reached'
  BY <1>2, <1>3, SalesMove DEF Invoiced
<1>5. \A i \in DOMAIN orders' : i \in Shop!Ids
  BY <1>1 DEF ShopTyped, Sales
<1>6. \A i \in DOMAIN orders' : orders'[i].st \in Due => i \in reached'
  <2>1. ASSUME NEW i \in DOMAIN orders', orders'[i].st \in Due
        PROVE  i \in reached
    <3>1. i \in Shop!Ids /\ (orders'[i].st \in {"none", seen[i], st[i]} \/ (i \in DOMAIN orders /\ orders'[i].st = orders[i].st))
      BY <1>5, SalesMove
    <3> QED
      BY <1>3, <2>1, <3>1 DEF Invoiced
  <2> QED
    BY <1>2, <2>1
<1>7. \A s \in sending' : s.what = "account" => s.id \in reached'
  BY <1>2, <1>3, <1>6, AccountsMove DEF Invoiced
<1>8. \A i \in Shop!Ids : sent'[i] # {} => i \in reached'
  BY <1>2, AccountsMove DEF Invoiced
<1> QED
  BY <1>2, <1>4, <1>6, <1>7, <1>8 DEF Invoiced

LEMMA RecordsStart == ASSUME Shop!CoupangAssumption PROVE Shop!Init => Invoiced /\ Behind
<1>1. "none" \in Shop!States /\ "none" \notin Due
  BY DEF Shop!States, Due
<1> QED
  BY <1>1, LaterAndLater DEF Shop!Init, Invoiced, Behind

\* AccountAfterInvoice (order-progress.ts, handleAdminOrder): whatever fails to be published and whatever the
\* seller presses, no account is on the relays before the order's buyer has registered his invoice.
THEOREM InvoiceComesFirst == ASSUME Shop!CoupangAssumption PROVE Shop!Spec => []Shop!AccountAfterInvoice
<1> DEFINE I == ShopTyped /\ Invoiced
<1>1. Shop!Init => I
  BY ShopTypedStarts, RecordsStart
<1>2. I /\ [Shop!Next]_(Shop!vars) => I'
  BY ShopTypedGoesOn, InvoicedGoesOn
<1>3. I => Shop!AccountAfterInvoice
  BY DEF Invoiced, Shop!AccountAfterInvoice
<1> HIDE DEF I
<1> QED
  BY <1>1, <1>2, <1>3, PTL DEF Shop!Spec

-----------------------------------------------------------------------------
(* A seller who lets each step end has one sale with the shop's order.                    *)
Single == /\ \A i, j \in DOMAIN orders : orders[i].fixed /\ orders[j].fixed => i = j
          /\ card /\ requesting = Shop!None /\ attaching = Shop!None => \A i \in DOMAIN orders : ~orders[i].fixed
          /\ requesting # Shop!None => \E s \in sending : s.what = "order" /\ s.id = requesting
          /\ attaching # Shop!None => \E s \in sending : s.what = "account" /\ s.id = attaching

LEMMA IdIsSome == ASSUME Shop!CoupangAssumption PROVE \A i \in Shop!Ids : i # Shop!None
BY DEF Shop!CoupangAssumption, Shop!Ids, Shop!None

LEMMA SingleOfPublications ==
  ASSUME Shop!CoupangAssumption, ShopTyped, Single, "order" \notin Fails,
         NEW s \in sending, NEW ok \in BOOLEAN, Shop!Arrive(s) \/ Shop!Told(s, ok)
  PROVE  Single'
<1>1. Sales /\ s \in Shop!Publications /\ (s.what = "account" => s.account \in Shop!Accounts)
  BY DEF ShopTyped, Session, Shop!Publications
<1>2. CASE Shop!Arrive(s)
  <2>1. UNCHANGED <<card, orders, requesting, attaching>> /\ sending' = (sending \ {s}) \cup {[s EXCEPT !.there = TRUE]}
    BY <1>2 DEF Shop!Arrive
  <2>2. [s EXCEPT !.there = TRUE].what = s.what /\ [s EXCEPT !.there = TRUE].id = s.id
    BY <1>1 DEF Shop!Publications
  <2>3. \A q \in sending : \E r \in sending' : r.what = q.what /\ r.id = q.id
    BY <2>1, <2>2
  <2>4. requesting # Shop!None => \E r \in sending' : r.what = "order" /\ r.id = requesting
    BY <2>3 DEF Single
  <2>5. attaching # Shop!None => \E r \in sending' : r.what = "account" /\ r.id = attaching
    BY <2>3 DEF Single
  <2> QED
    BY <2>1, <2>4, <2>5 DEF Single
<1>3. CASE Shop!Told(s, ok)
  <2>1. /\ orders' = Shop!after(s, ok) /\ sending' = sending \ {s}
        /\ requesting' = (IF s.what = "order" /\ requesting = s.id THEN Shop!None ELSE requesting)
        /\ attaching' = (IF s.what = "account" /\ attaching = s.id THEN Shop!None ELSE attaching)
        /\ card' => card /\ attaching = attaching' /\ ~(ok /\ requesting # requesting')
    BY <1>3 DEF Shop!Told
  <2>2. DOMAIN orders' = DOMAIN orders /\ \A i \in DOMAIN orders : orders'[i].fixed = orders[i].fixed
    BY <1>1, <2>1, SalesOfAfter
  <2>3. s.what = "order" => ok
    BY <1>3 DEF Shop!Told
  <2>4. ASSUME card', requesting' = Shop!None, attaching' = Shop!None
        PROVE  \A i \in DOMAIN orders' : ~orders'[i].fixed
    <3>1. card /\ attaching = Shop!None /\ requesting = Shop!None
      BY <2>1, <2>3, <2>4
    <3> QED
      BY <2>2, <3>1 DEF Single
  <2>5. ASSUME requesting' # Shop!None
        PROVE  \E r \in sending' : r.what = "order" /\ r.id = requesting'
    <3>1. requesting' = requesting /\ ~(s.what = "order" /\ requesting = s.id)
      BY <2>1, <2>5
    <3>2. PICK q \in sending : q.what = "order" /\ q.id = requesting
      BY <2>5, <3>1 DEF Single
    <3> QED
      BY <2>1, <3>1, <3>2
  <2>6. ASSUME attaching' # Shop!None
        PROVE  \E r \in sending' : r.what = "account" /\ r.id = attaching'
    <3>1. attaching' = attaching /\ ~(s.what = "account" /\ attaching = s.id)
      BY <2>1, <2>6
    <3>2. PICK q \in sending : q.what = "account" /\ q.id = attaching
      BY <2>6, <3>1 DEF Single
    <3> QED
      BY <2>1, <3>1, <3>2
  <2>7. \A i, j \in DOMAIN orders' : orders'[i].fixed /\ orders'[j].fixed => i = j
    BY <2>2 DEF Single
  <2> QED
    BY <2>4, <2>5, <2>6, <2>7 DEF Single
<1> QED
  BY <1>2, <1>3

LEMMA SingleOfNew ==
  ASSUME Shop!CoupangAssumption, ShopTyped, Single, ~Hasty, NewSales
  PROVE  Single'
<1>1. UNCHANGED <<card, attaching>>
  BY NewSalesAre
<1>2. ASSUME NEW i \in Shop!Ids, NEW x, NewSale(i, FALSE, x), UNCHANGED <<sending, requesting>>
      PROVE  Single'
  <2>1. \A j \in DOMAIN orders' : orders'[j].fixed => j \in DOMAIN orders /\ orders[j].fixed
    BY <1>2 DEF NewSale
  <2> QED
    BY <1>1, <1>2, <2>1 DEF Single
<1>3. ASSUME NEW i \in Shop!Ids, NewSale(i, TRUE, "none"), sending' = sending \cup {Shop!Pub("order", i, "none")},
             requesting' = i, requesting = Shop!None, card, attaching = Shop!None
      PROVE  Single'
  <2>1. \A j \in DOMAIN orders : ~orders[j].fixed
    BY <1>3 DEF Single
  <2>2. \A j \in DOMAIN orders' : orders'[j].fixed => j = i
    BY <1>3, <2>1 DEF NewSale
  <2>3. Shop!Pub("order", i, "none") \in sending' /\ Shop!Pub("order", i, "none").what = "order" /\ Shop!Pub("order", i, "none").id = i
    BY <1>3 DEF Shop!Pub
  <2>4. requesting' # Shop!None /\ attaching' = Shop!None
    BY <1>1, <1>3, IdIsSome
  <2> QED
    BY <1>3, <2>2, <2>3, <2>4 DEF Single
<1> QED
  BY <1>2, <1>3, NewSalesAre

LEMMA SingleOfChanged ==
  ASSUME Shop!CoupangAssumption, ShopTyped, Single, ChangedSales
  PROVE  Single'
<1>1. requesting' = requesting
  BY ChangedSalesAre
<1>2. ASSUME NEW i \in Shop!Ids, UNCHANGED <<sending, sends>> \/ SentBySelf(i)
      PROVE  \A s \in sending : s \in sending'
  BY <1>2 DEF SentBySelf
<1>3. ASSUME NEW i \in Shop!Ids, DOMAIN orders' = DOMAIN orders, \A j \in DOMAIN orders : orders'[j].fixed = orders[j].fixed,
             UNCHANGED <<card, attaching>>, \A s \in sending : s \in sending'
      PROVE  Single'
  <2>1. requesting # Shop!None => \E s \in sending' : s.what = "order" /\ s.id = requesting
    BY <1>3 DEF Single
  <2>2. attaching # Shop!None => \E s \in sending' : s.what = "account" /\ s.id = attaching
    BY <1>3 DEF Single
  <2> QED
    BY <1>1, <1>3, <2>1, <2>2 DEF Single
<1>4. ASSUME NEW i \in Shop!Ids, i \in DOMAIN orders, Changed(i), card, requesting = Shop!None, attaching = Shop!None,
             \/ ~card' /\ attaching' = Shop!None
             \/ SentBySelf(i) /\ attaching' = i
      PROVE  Single'
  <2>1. \A j \in DOMAIN orders : ~orders[j].fixed
    BY <1>4 DEF Single
  <2>2. \A j \in DOMAIN orders' : orders'[j].fixed => j = i
    BY <1>4, <2>1 DEF Changed
  <2>3. ASSUME SentBySelf(i), attaching' = i
        PROVE  attaching' # Shop!None /\ \E s \in sending' : s.what = "account" /\ s.id = attaching'
    <3>1. Shop!Pub("account", i, "shop") \in sending' /\ Shop!Pub("account", i, "shop").what = "account" /\ Shop!Pub("account", i, "shop").id = i
      BY <2>3 DEF Shop!Pub, SentBySelf
    <3> QED
      BY <2>3, <3>1, IdIsSome
  <2> QED
    BY <1>1, <1>4, <2>2, <2>3 DEF Single
<1>5. PICK i \in Shop!Ids :
              \/ /\ i \in DOMAIN orders /\ Changed(i) /\ orders'[i].fixed /\ ~orders[i].fixed
                 /\ card /\ requesting = Shop!None /\ attaching = Shop!None
                 /\ \/ UNCHANGED <<sending, sends>> /\ ~card' /\ attaching' = Shop!None
                    \/ SentBySelf(i) /\ attaching' = i
              \/ /\ i \in DOMAIN orders => /\ Changed(i) /\ orders'[i].fixed = orders[i].fixed
                 /\ i \notin DOMAIN orders => orders' = orders
                 /\ UNCHANGED <<card, attaching>>
                 /\ (UNCHANGED <<sending, sends>> \/ SentBySelf(i))
              \/ /\ i \in DOMAIN orders /\ Changed(i) /\ orders'[i].fixed = orders[i].fixed
                 /\ UNCHANGED <<card, attaching, sending, sends>>
  BY ChangedSalesAre
<1>6. CASE i \in DOMAIN orders /\ Changed(i) /\ card /\ requesting = Shop!None /\ attaching = Shop!None
           /\ ((~card' /\ attaching' = Shop!None) \/ (SentBySelf(i) /\ attaching' = i))
  BY <1>4, <1>6
<1>7. CASE /\ i \in DOMAIN orders => Changed(i) /\ orders'[i].fixed = orders[i].fixed
           /\ i \notin DOMAIN orders => orders' = orders
           /\ UNCHANGED <<card, attaching>> /\ (UNCHANGED <<sending, sends>> \/ SentBySelf(i))
  <2>1. DOMAIN orders' = DOMAIN orders /\ \A j \in DOMAIN orders : orders'[j].fixed = orders[j].fixed
    BY <1>7 DEF Changed
  <2> QED
    BY <1>2, <1>3, <1>7, <2>1
<1> QED
  BY <1>5, <1>6, <1>7

LEMMA SingleOfButtons ==
  ASSUME Shop!CoupangAssumption, ShopTyped, Single, ~Hasty, Buttons
  PROVE  Single'
<1>1. ASSUME UNCHANGED <<orders, requesting, attaching>>, \A s \in sending : s \in sending', card' => card \/ ~Shop!alreadyRequested
      PROVE  Single'
  <2>1. requesting # Shop!None => \E s \in sending' : s.what = "order" /\ s.id = requesting
    BY <1>1 DEF Single
  <2>2. attaching # Shop!None => \E s \in sending' : s.what = "account" /\ s.id = attaching
    BY <1>1 DEF Single
  <2>3. card' /\ requesting = Shop!None /\ attaching = Shop!None => \A i \in DOMAIN orders : ~orders[i].fixed
    BY <1>1 DEF Single, Shop!alreadyRequested
  <2> QED
    BY <1>1, <2>1, <2>2, <2>3 DEF Single
<1>2. CASE Shop!Dismiss \/ Shop!HearParsed \/ (\E i \in Shop!Ids : Shop!PublishDraft(i) \/ Shop!TypeAccount(i)) \/ (\E word \in {"paid", "cancelled"} : Shop!HearStatus(word))
  BY <1>1, <1>2 DEF Shop!Dismiss, Shop!HearParsed, Shop!PublishDraft, Shop!TypeAccount, Shop!HearStatus, Shop!session
<1>3. CASE Shop!Reload
  <2>1. sending = {} /\ requesting' = Shop!None /\ attaching' = Shop!None /\ UNCHANGED <<card, orders>>
    BY <1>3 DEF Shop!Reload
  <2> QED
    BY <2>1 DEF Single
<1>4. ASSUME NEW i \in Shop!Ids, Shop!Delete(i)
      PROVE  Single'
  <2>1. UNCHANGED <<card, requesting, attaching, sending>> /\ \A j \in DOMAIN orders' : j \in DOMAIN orders /\ orders'[j] = orders[j]
    BY <1>4 DEF Shop!Delete, Shop!session
  <2> QED
    BY <2>1 DEF Single
<1> QED
  BY <1>2, <1>3, <1>4 DEF Buttons

LEMMA SingleGoesOn ==
  ASSUME Shop!CoupangAssumption, ShopTyped, Single, ~Hasty, "order" \notin Fails, [Shop!Next]_(Shop!vars)
  PROVE  Single'
<1>1. CASE AtThePage \/ AtTheShop \/ UNCHANGED Shop!vars
  <2>1. UNCHANGED <<card, orders, requesting, attaching, sending>>
    BY <1>1, TypedAtPage, TypedAtShop DEF Shop!app, Shop!session, Shop!vars
  <2> QED
    BY <2>1 DEF Single
<1> QED
  BY <1>1, StepsOfTheShop, SingleOfPublications, SingleOfNew, SingleOfChanged, SingleOfButtons

LEMMA SingleStarts == Shop!Init => Single
BY DEF Shop!Init, Single

\* OneListing (parsed-store.ts): where the seller lets each step end and the order's publication does not fail, a Coupang
\* order that is up for sale does not come back as a card and go up twice.
THEOREM ListedOnce == ASSUME Shop!CoupangAssumption, ~Hasty, "order" \notin Fails PROVE Shop!Spec => []Shop!OneListing
<1> DEFINE I == ShopTyped /\ Single
<1>1. Shop!Init => I
  BY ShopTypedStarts, SingleStarts
<1>2. I /\ [Shop!Next]_(Shop!vars) => I'
  BY ShopTypedGoesOn, SingleGoesOn
<1>3. I => Shop!OneListing
  <2> SUFFICES ASSUME Single PROVE Shop!OneListing
    OBVIOUS
  <2> DEFINE T == {i \in DOMAIN orders : orders[i].fixed /\ st[i] \notin {"none"} \cup Shop!Terminal}
  <2>1. CASE T = {}
    <3>1. Cardinality(T) = 0
      BY <2>1, FS_EmptySet
    <3> HIDE DEF T
    <3>2. Cardinality(T) <= 1
      BY <3>1
    <3> QED
      BY <3>2, SizesOfShop DEF T, Shop!OneListing
  <2>2. CASE T # {}
    <3>1. PICK i \in T : TRUE
      BY <2>2
    <3>2. T = {i}
      BY <3>1 DEF Single
    <3>3. Cardinality(T) = 1
      BY <3>2, FS_Singleton
    <3> HIDE DEF T
    <3>4. Cardinality(T) <= 1
      BY <3>3
    <3> QED
      BY <3>4, SizesOfShop DEF T, Shop!OneListing
  <2> QED
    BY <2>1, <2>2
<1> HIDE DEF I
<1> QED
  BY <1>1, <1>2, <1>3, PTL DEF Shop!Spec

\* StatusFindsItsOrder (relayCoupangStatus): under the same conditions, when a status is heard and the daemon knows
\* a sale with that Coupang order, its request is published.
THEOREM StatusIsPassedOn == ASSUME Shop!CoupangAssumption, ~Hasty, "order" \notin Fails PROVE Shop!Spec => [][Shop!StatusFindsItsOrder]_(Shop!vars)
<1> DEFINE I == ShopTyped /\ Single
<1>1. Shop!Init => I
  BY ShopTypedStarts, SingleStarts
<1>2. I /\ [Shop!Next]_(Shop!vars) => I'
  BY ShopTypedGoesOn, SingleGoesOn
<1>3. I /\ [Shop!Next]_(Shop!vars) => [Shop!StatusFindsItsOrder]_(Shop!vars)
  <2> SUFFICES ASSUME ShopTyped, Single, Shop!Next, NEW word \in {"paid", "cancelled"}, <<word, Shop!None>> \in heard', <<word, Shop!None>> \notin heard,
                      NEW i \in DOMAIN orders, orders[i].fixed, orders[i].st # "none"
               PROVE  \E s \in sending' : s.what = Shop!request[word] /\ orders[s.id].st # "none"
    BY DEF Shop!StatusFindsItsOrder
  <2>1. CASE Shop!HearStatus(word)
    <3>1. i \in Shop!mine
      BY DEF Shop!mine
    <3>2. Shop!found \in DOMAIN orders /\ orders[Shop!found].fixed
      BY <3>1, MineIsFound
    <3>3. Shop!found = i
      BY <3>2 DEF Single
    <3>4. sending' = sending \cup Shop!relayCoupangStatus(word) /\ Shop!relayCoupangStatus(word) = {Shop!Pub(Shop!request[word], Shop!found, "none")}
      BY <2>1, <3>1, <3>3 DEF Shop!HearStatus, Shop!relayCoupangStatus
    <3>5. Shop!Pub(Shop!request[word], Shop!found, "none").what = Shop!request[word] /\ Shop!Pub(Shop!request[word], Shop!found, "none").id = i
      BY <3>3 DEF Shop!Pub
    <3> QED
      BY <3>4, <3>5
  <2>2. ASSUME NEW other \in {"paid", "cancelled"}, Shop!HearStatus(other)
        PROVE  other = word
    BY <2>2 DEF Shop!HearStatus
  <2>3. CASE AtThePage \/ AtTheShop
    <3>1. heard' = heard
      BY <2>3, TypedAtPage, TypedAtShop DEF Shop!app, Shop!session
    <3> QED
      BY <3>1
  <2>4. ASSUME NEW s \in sending, NEW ok \in BOOLEAN, Shop!Arrive(s) \/ Shop!Told(s, ok)
        PROVE  FALSE
    BY <2>4 DEF Shop!Arrive, Shop!Told
  <2>5. CASE NewSales
    <3>1. heard' = heard \/ \E j \in Shop!Ids : heard' = heard \cup {<<"order", j>>}
      BY <2>5, NewSalesAre
    <3> QED
      BY <3>1
  <2>6. CASE ChangedSales
    <3>1. heard' = heard \/ \E j \in Shop!Ids, a \in Shop!Accounts : heard' = heard \cup {<<a, j>>}
      BY <2>6, ChangedSalesAre
    <3> QED
      BY <3>1 DEF Shop!Accounts
  <2>7. CASE Shop!Dismiss \/ Shop!Reload \/ Shop!HearParsed \/ (\E j \in Shop!Ids : Shop!PublishDraft(j) \/ Shop!TypeAccount(j) \/ Shop!Delete(j))
    <3>1. heard' \in {{}, heard, heard \cup {<<"parsed", Shop!None>>}}
      BY <2>7 DEF Shop!Dismiss, Shop!Reload, Shop!HearParsed, Shop!PublishDraft, Shop!TypeAccount, Shop!Delete, Shop!session
    <3> QED
      BY <3>1
  <2> QED
    BY <2>1, <2>2, <2>3, <2>4, <2>5, <2>6, <2>7, StepsOfTheShop DEF Buttons
<1> HIDE DEF I
<1> QED
  BY <1>1, <1>2, <1>3, PTL DEF Shop!Spec

-----------------------------------------------------------------------------
(* What a step leaves of a sale, and who may be told that it is paid.                     *)
LEMMA SaleStays ==
  ASSUME Shop!CoupangAssumption, ShopTyped, [Shop!Next]_(Shop!vars), NEW i \in DOMAIN orders
  PROVE  \/ /\ i \in DOMAIN orders' /\ (orders[i].fixed => orders'[i].fixed)
            /\ orders'[i].st \in {orders[i].st, st[i]} /\ (orders[i].account # "none" => orders'[i].account # "none")
         \/ i \notin DOMAIN orders' /\ orders[i].st \in {"none"} \cup Shop!Terminal /\ UNCHANGED <<seen, sends, sending, st>>
<1>1. CASE UNCHANGED orders
  BY <1>1
<1>2. CASE AtThePage \/ AtTheShop \/ UNCHANGED Shop!vars
  BY <1>1, <1>2, TypedAtPage, TypedAtShop DEF Shop!app, Shop!vars
<1>3. ASSUME NEW s \in sending, NEW ok \in BOOLEAN, Shop!Arrive(s) \/ Shop!Told(s, ok)
      PROVE  /\ i \in DOMAIN orders' /\ (orders[i].fixed => orders'[i].fixed)
             /\ orders'[i].st = orders[i].st /\ (orders[i].account # "none" => orders'[i].account # "none")
  <2>1. CASE Shop!Arrive(s)
    BY <2>1 DEF Shop!Arrive
  <2>2. CASE Shop!Told(s, ok)
    <3>1. Sales /\ s \in Shop!Publications /\ (s.what = "account" => s.account \in Shop!Accounts) /\ "none" \notin Shop!Accounts
      BY DEF ShopTyped, Session, Shop!Publications, Shop!Accounts
    <3>2. orders' = Shop!after(s, ok)
      BY <2>2 DEF Shop!Told
    <3> QED
      BY <3>1, <3>2, SalesOfAfter
  <2> QED
    BY <1>3, <2>1, <2>2
<1>4. CASE NewSales
  BY <1>4, NewSalesAre DEF NewSale
<1>5. CASE ChangedSales
  BY <1>5, ChangedSalesAre DEF Changed
<1>6. CASE Buttons
  <2>1. ASSUME NEW j \in Shop!Ids, Shop!Delete(j), j # i
        PROVE  i \in DOMAIN orders' /\ orders'[i] = orders[i]
    BY <2>1 DEF Shop!Delete
  <2>2. CASE Shop!Delete(i)
    BY <2>2 DEF Shop!Delete, Shop!session, Shop!outside
  <2>3. CASE Shop!Dismiss \/ Shop!Reload \/ Shop!HearParsed \/ (\E j \in Shop!Ids : Shop!PublishDraft(j) \/ Shop!TypeAccount(j)) \/ (\E word \in {"paid", "cancelled"} : Shop!HearStatus(word))
    BY <1>1, <2>3 DEF Shop!Dismiss, Shop!Reload, Shop!HearParsed, Shop!PublishDraft, Shop!TypeAccount, Shop!HearStatus
  <2> QED
    BY <1>6, <2>1, <2>2, <2>3 DEF Buttons
<1> QED
  BY <1>2, <1>3, <1>4, <1>5, <1>6, StepsOfTheShop

\* A confirmation goes out on the shop's word, for a sale that has its order; and a trade is paid on one.
LEMMA ConfirmsMove ==
  ASSUME Shop!CoupangAssumption, ShopTyped, [Shop!Next]_(Shop!vars)
  PROVE  /\ \A s \in sending' : s.what = "payment-confirm" =>
              \/ \E q \in sending : q.what = "payment-confirm" /\ q.id = s.id
              \/ "paid" \in relay /\ s.id \in DOMAIN orders /\ orders[s.id].fixed /\ UNCHANGED Shop!atShop
         /\ \A i \in Shop!Ids : st'[i] = "paid" => st[i] = "paid" \/ \E q \in sending : q.what = "payment-confirm" /\ q.id = i
<1>1. CASE UNCHANGED <<sending, st>>
  BY <1>1
<1>2. CASE AtThePage \/ UNCHANGED Shop!vars
  BY <1>1, <1>2, TypedAtPage DEF Shop!app, Shop!session, Shop!outside, Shop!vars
<1>3. CASE AtTheShop
  <2>1. sending' = sending
    BY <1>3, TypedAtShop DEF Shop!app, Shop!session
  <2>2. st \in [Shop!Ids -> Shop!States]
    BY DEF ShopTyped, Outside
  <2>3. ASSUME NEW i \in Shop!Ids, Shop!Buyer(i) \/ Shop!Ends(i)
        PROVE  \A j \in Shop!Ids : st'[j] = st[j] \/ st'[j] # "paid"
    BY <2>2, <2>3 DEF Shop!Buyer, Shop!Ends
  <2>4. ASSUME NEW i \in Shop!Ids \cup {Shop!None}, Shop!Pay(i)
        PROVE  st' = st
    BY <2>4 DEF Shop!Pay, Shop!outside
  <2>5. CASE Shop!CancelAtShop \/ Shop!Lapse
    BY <2>1, <2>5 DEF Shop!CancelAtShop, Shop!Lapse, Shop!outside
  <2>6. \A j \in Shop!Ids : st'[j] = st[j] \/ st'[j] # "paid"
    BY <1>3, <2>3, <2>4, <2>5 DEF AtTheShop, Shop!CancelAtShop, Shop!Lapse, Shop!outside
  <2> QED
    BY <2>1, <2>6
<1>4. ASSUME NEW s \in sending, Shop!Arrive(s)
      PROVE  /\ \A r \in sending' : \E q \in sending : q.what = r.what /\ q.id = r.id
             /\ \A i \in Shop!Ids : st'[i] = "paid" => st[i] = "paid" \/ \E q \in sending : q.what = "payment-confirm" /\ q.id = i
  <2>1. s \in Shop!Publications /\ st \in [Shop!Ids -> Shop!States]
    BY DEF ShopTyped, Session, Outside
  <2>2. [s EXCEPT !.there = TRUE].what = s.what /\ [s EXCEPT !.there = TRUE].id = s.id /\ s.id \in Shop!Ids
    BY <2>1 DEF Shop!Publications
  <2>3. sending' = (sending \ {s}) \cup {[s EXCEPT !.there = TRUE]} /\ st'[s.id] = Shop!judged(st[s.id], s.what)
        /\ \A j \in Shop!Ids : j # s.id => st'[j] = st[j]
    BY <1>4, <2>1, <2>2 DEF Shop!Arrive
  <2>4. st'[s.id] = "paid" => st[s.id] = "paid" \/ s.what = "payment-confirm"
    BY <2>3 DEF Shop!judged
  <2> QED
    BY <2>2, <2>3, <2>4
<1>5. ASSUME NEW s \in sending, NEW ok \in BOOLEAN, Shop!Told(s, ok)
      PROVE  sending' \subseteq sending /\ st' = st
  BY <1>5 DEF Shop!Told, Shop!outside
<1>6. CASE NewSales
  <2>1. UNCHANGED Shop!outside /\ (UNCHANGED sending \/ \E i \in Shop!Ids : sending' = sending \cup {Shop!Pub("order", i, "none")})
    BY <1>6, NewSalesAre
  <2>2. st' = st /\ \A s \in sending' : s \in sending \/ s.what = "order"
    BY <2>1 DEF Shop!Pub, Shop!outside
  <2> QED
    BY <2>2
<1>7. CASE ChangedSales
  <2>1. st' = st /\ (UNCHANGED sending \/ \E i \in Shop!Ids : SentBySelf(i))
    BY <1>7, ChangedSalesAre
  <2>2. \A s \in sending' : s \in sending \/ s.what = "account"
    BY <2>1 DEF Shop!Pub, SentBySelf
  <2> QED
    BY <2>1, <2>2
<1>8. CASE Buttons
  <2>1. st' = st
    BY <1>8 DEF Buttons, Shop!PublishDraft, Shop!TypeAccount, Shop!Delete, Shop!Dismiss, Shop!Reload, Shop!HearParsed, Shop!HearStatus, Shop!outside
  <2>2. CASE \E i \in Shop!Ids : Shop!PublishDraft(i) \/ Shop!TypeAccount(i)
    <3>1. \A s \in sending' : s \in sending \/ s.what \in {"order", "account"}
      BY <2>2 DEF Shop!PublishDraft, Shop!TypeAccount, Shop!Pub
    <3> QED
      BY <2>1, <3>1
  <2>3. CASE Shop!Dismiss \/ Shop!Reload \/ Shop!HearParsed \/ \E i \in Shop!Ids : Shop!Delete(i)
    <3>1. sending' \subseteq sending
      BY <2>3 DEF Shop!Dismiss, Shop!Reload, Shop!HearParsed, Shop!Delete, Shop!session
    <3> QED
      BY <2>1, <3>1
  <2>4. ASSUME NEW word \in {"paid", "cancelled"}, Shop!HearStatus(word), NEW s \in sending', s \notin sending, s.what = "payment-confirm"
        PROVE  "paid" \in relay /\ s.id \in DOMAIN orders /\ orders[s.id].fixed /\ UNCHANGED Shop!atShop
    <3>1. sending' = sending \cup Shop!relayCoupangStatus(word) /\ word \in relay /\ UNCHANGED Shop!atShop
      BY <2>4 DEF Shop!HearStatus
    <3>2. Shop!mine # {} /\ s = Shop!Pub(Shop!request[word], Shop!found, "none")
      BY <2>4, <3>1 DEF Shop!relayCoupangStatus
    <3>3. s.what = Shop!request[word] /\ s.id = Shop!found
      BY <3>2 DEF Shop!Pub
    <3>4. word = "paid"
      BY <2>4, <3>3 DEF Shop!request
    <3> QED
      BY <3>1, <3>2, <3>3, <3>4, MineIsFound
  <2>5. CASE \E word \in {"paid", "cancelled"} : Shop!HearStatus(word)
    <3>1. \A s \in sending' : s \in sending \/ (s.what = "payment-confirm" =>
             "paid" \in relay /\ s.id \in DOMAIN orders /\ orders[s.id].fixed /\ UNCHANGED Shop!atShop)
      BY <2>4, <2>5
    <3> QED
      BY <2>1, <3>1
  <2> QED
    BY <1>8, <2>2, <2>3, <2>5 DEF Buttons
<1> QED
  BY <1>2, <1>3, <1>4, <1>5, <1>6, <1>7, <1>8, StepsOfTheShop

\* One sale at a time has the shop's order, and gets it while the shop waits to be paid.
OneSale == \A i, j \in DOMAIN orders : orders[i].fixed /\ orders[j].fixed => i = j
ListsUnpaid == \A i \in DOMAIN orders' : orders'[i].fixed => (i \in DOMAIN orders /\ orders[i].fixed) \/ shop = "unpaid"

Given(i) == "shop" \in sent[i] \/ \E s \in sending : s.what = "account" /\ s.id = i /\ s.account = "shop"
Confirmed ==
  /\ \A i \in Shop!Ids : Given(i) => \/ st[i] \in Shop!Terminal
                                     \/ i \in DOMAIN orders /\ orders[i].fixed /\ orders[i].st \in {"invoiced", "remitted"} \cup Shop!Terminal
  /\ payer # Shop!None <=> shop = "paid"
  /\ payer # Shop!None => \A i \in DOMAIN orders : orders[i].fixed => i = payer
  /\ "paid" \in relay \/ page.doing = "paid" => shop = "paid"
  /\ \A s \in sending : s.what = "payment-confirm" => payer = s.id
  /\ \A i \in Shop!Ids : st[i] = "paid" => payer = i

\* The shop: paid once, by the buyer who has its account.
LEMMA PaidIsPaid ==
  ASSUME Shop!CoupangAssumption, ShopTyped, Confirmed, OneSale, ListsUnpaid, ~SelfPays, [Shop!Next]_(Shop!vars)
  PROVE  /\ payer # Shop!None => UNCHANGED <<payer, shop>>
         /\ payer' # Shop!None <=> shop' = "paid"
         /\ payer' # Shop!None => \A i \in DOMAIN orders' : orders'[i].fixed => i = payer'
         /\ "paid" \in relay' \/ page'.doing = "paid" => shop' = "paid"
<1>1. ASSUME UNCHANGED Shop!atShop
      PROVE  /\ payer # Shop!None => UNCHANGED <<payer, shop>>
             /\ payer' # Shop!None <=> shop' = "paid"
             /\ payer' # Shop!None => \A i \in DOMAIN orders' : orders'[i].fixed => i = payer'
  <2>1. payer' = payer /\ shop' = shop
    BY <1>1 DEF Shop!atShop
  <2>2. ASSUME payer' # Shop!None, NEW i \in DOMAIN orders', orders'[i].fixed
        PROVE  i = payer'
    <3>1. shop # "unpaid"
      BY <2>1, <2>2 DEF Confirmed
    <3>2. i \in DOMAIN orders /\ orders[i].fixed
      BY <2>2, <3>1 DEF ListsUnpaid
    <3> QED
      BY <2>1, <2>2, <3>2 DEF Confirmed
  <2> QED
    BY <2>1, <2>2 DEF Confirmed
<1>2. CASE AtTheShop
  <2>1. orders' = orders /\ page' = page
    BY <1>2, TypedAtShop DEF Shop!app
  <2>2. ASSUME NEW i \in Shop!Ids, Shop!Buyer(i) \/ Shop!Ends(i)
        PROVE  UNCHANGED <<Shop!atShop, relay>>
    BY <2>2 DEF Shop!Buyer, Shop!Ends
  <2>3. ASSUME NEW i \in Shop!Ids \cup {Shop!None}, Shop!Pay(i)
        PROVE  /\ payer = Shop!None /\ payer' = i /\ i # Shop!None /\ shop' = "paid" /\ relay' = relay
               /\ \A j \in DOMAIN orders : orders[j].fixed => j = i
    <3>1. payer = Shop!None /\ payer' = i /\ i # Shop!None /\ shop' = "paid" /\ relay' = relay /\ st[i] = "invoiced" /\ "shop" \in sent[i]
      BY <2>3 DEF Shop!Pay, Confirmed
    <3>2. i \in DOMAIN orders /\ orders[i].fixed
      BY <3>1 DEF Confirmed, Given, Shop!Terminal
    <3> QED
      BY <3>1, <3>2 DEF OneSale
  <2>4. CASE Shop!CancelAtShop
    BY <2>1, <2>4 DEF Shop!CancelAtShop, Confirmed
  <2>5. CASE Shop!Lapse
    BY <2>1, <2>5 DEF Shop!Lapse, Confirmed
  <2>6. CASE \E i \in Shop!Ids : Shop!Buyer(i) \/ Shop!Ends(i)
    BY <1>1, <2>1, <2>2, <2>6 DEF Confirmed, Shop!atShop
  <2>7. CASE \E i \in Shop!Ids \cup {Shop!None} : Shop!Pay(i)
    BY <2>1, <2>3, <2>7
  <2> QED
    BY <1>2, <2>4, <2>5, <2>6, <2>7 DEF AtTheShop
<1>3. CASE AtThePage
  <2>1. UNCHANGED Shop!atShop
    BY <1>3, TypedAtPage
  <2>2. shop' = shop
    BY <2>1 DEF Shop!atShop
  <2>3. CASE Shop!Visit
    <3>1. relay' = relay /\ (page' = Shop!NoPage \/ page'.doing = Shop!report(Shop!ensureNsec))
      BY <2>3 DEF Shop!Visit
    <3>2. page'.doing = "paid" => shop = "paid"
      BY <3>1 DEF Shop!NoPage, Shop!report, Shop!isPaid
    <3> QED
      BY <1>1, <2>1, <2>2, <3>1, <3>2 DEF Confirmed
  <2>4. CASE Shop!Published \/ Shop!Refused
    <3>1. page' = Shop!NoPage /\ relay' \in {relay, Shop!onRelay}
      BY <2>4 DEF Shop!Published, Shop!Refused
    <3>2. page'.doing # "paid" /\ ("paid" \in relay' => "paid" \in relay \/ page.doing = "paid")
      BY <3>1 DEF Shop!NoPage, Shop!onRelay
    <3> QED
      BY <1>1, <2>1, <2>2, <3>2 DEF Confirmed
  <2>5. CASE Shop!Paste
    BY <1>1, <2>1, <2>2, <2>5 DEF Shop!Paste, Confirmed
  <2> QED
    BY <1>3, <2>3, <2>4, <2>5 DEF AtThePage
<1>4. CASE UNCHANGED <<Shop!atShop, Shop!script, relay>>
  BY <1>1, <1>4 DEF Shop!atShop, Shop!script, Confirmed
<1>5. CASE UNCHANGED Shop!vars
  BY <1>4, <1>5 DEF Shop!vars
<1>6. ASSUME NEW s \in sending, NEW ok \in BOOLEAN, Shop!Arrive(s) \/ Shop!Told(s, ok)
      PROVE  UNCHANGED <<Shop!atShop, Shop!script, relay>>
  BY <1>6 DEF Shop!Arrive, Shop!Told
<1>7. CASE NewSales
  BY <1>4, <1>7, NewSalesAre
<1>8. CASE ChangedSales
  BY <1>4, <1>8, ChangedSalesAre
<1>9. CASE Buttons
  BY <1>4, <1>9 DEF Buttons, Shop!PublishDraft, Shop!TypeAccount, Shop!Delete, Shop!Dismiss, Shop!Reload, Shop!HearParsed, Shop!HearStatus
<1> QED
  BY <1>2, <1>3, <1>4, <1>5, <1>6, <1>7, <1>8, <1>9, StepsOfTheShop

LEMMA ConfirmedGoesOn ==
  ASSUME Shop!CoupangAssumption, ShopTyped, Invoiced, Behind, OneSale, Confirmed, ListsUnpaid, ~SelfPays, [Shop!Next]_(Shop!vars)
  PROVE  Confirmed'
<1>1. ShopTyped'
  BY ShopTypedGoesOn
<1>2. \A i \in Shop!Ids : Later(st[i], st'[i])
  BY StatesMove DEF Invoiced
<1>3. \A s \in sending' : s.what = "payment-confirm" => payer' = s.id
  <2>1. ASSUME NEW s \in sending', s.what = "payment-confirm"
        PROVE  payer' = s.id
    <3>1. s.id # Shop!None
      BY <1>1, IdIsSome DEF ShopTyped, Session, Shop!Publications
    <3>2. CASE \E q \in sending : q.what = "payment-confirm" /\ q.id = s.id
      <4>1. payer = s.id
        BY <3>2 DEF Confirmed
      <4> QED
        BY <3>1, <4>1, PaidIsPaid
    <3>3. CASE "paid" \in relay /\ s.id \in DOMAIN orders /\ orders[s.id].fixed /\ UNCHANGED Shop!atShop
      <4>1. payer' = payer /\ payer # Shop!None
        BY <3>3 DEF Confirmed, Shop!atShop
      <4> QED
        BY <3>3, <4>1 DEF Confirmed
    <3> QED
      BY <2>1, <3>2, <3>3, ConfirmsMove
  <2> QED
    BY <2>1
<1>4. \A i \in Shop!Ids : st'[i] = "paid" => payer' = i
  <2>1. ASSUME NEW i \in Shop!Ids, st'[i] = "paid"
        PROVE  payer' = i
    <3>1. payer = i
      BY <2>1, ConfirmsMove DEF Confirmed
    <3> QED
      BY <3>1, IdIsSome, PaidIsPaid
  <2> QED
    BY <2>1
<1>5. ASSUME NEW i \in Shop!Ids, Given(i)'
      PROVE  \/ st'[i] \in Shop!Terminal
             \/ i \in DOMAIN orders' /\ orders'[i].fixed /\ orders'[i].st \in {"invoiced", "remitted"} \cup Shop!Terminal
  <2>1. CASE Given(i)
    <3>1. CASE st[i] \in Shop!Terminal
      BY <1>2, <3>1 DEF Later
    <3>2. CASE i \in DOMAIN orders /\ orders[i].fixed /\ orders[i].st \in {"invoiced", "remitted"} \cup Shop!Terminal
      <4>1. Later(orders[i].st, st[i])
        BY <3>2 DEF Behind
      <4>2. st[i] \in {"invoiced", "remitted"} \cup Shop!Terminal /\ (orders[i].st \in Shop!Terminal => st[i] \in Shop!Terminal)
        BY <3>2, <4>1 DEF Later
      <4>3. CASE i \in DOMAIN orders' /\ (orders[i].fixed => orders'[i].fixed) /\ orders'[i].st \in {orders[i].st, st[i]}
        BY <3>2, <4>2, <4>3
      <4>4. CASE orders[i].st \in {"none"} \cup Shop!Terminal
        BY <1>2, <3>2, <4>2, <4>4 DEF Later
      <4> QED
        BY <3>2, <4>3, <4>4, SaleStays
    <3> QED
      BY <2>1, <3>1, <3>2 DEF Confirmed
  <2>2. CASE ~Given(i)
    <3>1. i \in DOMAIN orders' /\ orders'[i].st \in {"invoiced", "remitted"} /\ orders'[i].fixed
      <4>1. CASE "shop" \in sent'[i]
        BY <2>2, <4>1, AccountsMove DEF Given
      <4>2. ASSUME NEW s \in sending', s.what = "account", s.id = i, s.account = "shop"
            PROVE  i \in DOMAIN orders' /\ orders'[i].st \in {"invoiced", "remitted"} /\ orders'[i].fixed
        BY <2>2, <4>2, AccountsMove DEF Given
      <4> QED
        BY <1>5, <4>1, <4>2 DEF Given
    <3> QED
      BY <3>1
  <2> QED
    BY <2>1, <2>2
<1> QED
  BY <1>3, <1>4, <1>5, PaidIsPaid DEF Confirmed

\* ConfirmIsTrue (relayCoupangStatus): while one sale at a time has the shop's order and gets it before the shop is paid, and
\* where the seller does not pay the shop himself, no trade is closed as paid that its own buyer has not paid: whatever fails
\* to be published, and whichever buttons and reloads come in the middle of a step.
THEOREM ConfirmedIsPaid ==
  ASSUME Shop!CoupangAssumption, ~SelfPays
  PROVE  Shop!Spec /\ []OneSale /\ [][ListsUnpaid]_(Shop!vars) => []Shop!ConfirmIsTrue
<1> DEFINE I == ShopTyped /\ Invoiced /\ Behind /\ Confirmed
<1>1. Shop!Init => I
  <2>1. Shop!Init => Confirmed
    BY IdIsSome DEF Shop!Init, Confirmed, Given, Shop!NoPage
  <2> QED
    BY <2>1, ShopTypedStarts, RecordsStart
<1>2. I /\ OneSale /\ [Shop!Next]_(Shop!vars) /\ [ListsUnpaid]_(Shop!vars) => I'
  <2> SUFFICES ASSUME I, OneSale, [Shop!Next]_(Shop!vars), [ListsUnpaid]_(Shop!vars) PROVE I'
    OBVIOUS
  <2>1. ListsUnpaid
    BY DEF ListsUnpaid, Shop!vars, Shop!app
  <2>2. Behind'
    BY BehindGoesOn DEF Invoiced
  <2>3. ShopTyped' /\ Invoiced'
    BY ShopTypedGoesOn, InvoicedGoesOn
  <2>4. Confirmed'
    BY <2>1, ConfirmedGoesOn
  <2> QED
    BY <2>2, <2>3, <2>4
<1>3. I => Shop!ConfirmIsTrue
  BY DEF Confirmed, Shop!ConfirmIsTrue
<1> HIDE DEF I
<1> QED
  BY <1>1, <1>2, <1>3, PTL DEF Shop!Spec

-----------------------------------------------------------------------------
(* What the app sends by itself it sends once.                                            *)
LEMMA SendsMove ==
  ASSUME Shop!CoupangAssumption, ShopTyped, ~Typing, [Shop!Next]_(Shop!vars), NEW i \in Shop!Ids, sends'[i] # sends[i]
  PROVE  /\ SentBySelf(i) /\ i \in DOMAIN orders /\ DOMAIN orders' = DOMAIN orders /\ orders'[i].account = orders[i].account
         /\ orders'[i].st = orders[i].st \/ st[i] = "invoiced"
<1>1. CASE UNCHANGED sends
  BY <1>1
<1>2. CASE AtThePage \/ AtTheShop \/ UNCHANGED Shop!vars
  BY <1>1, <1>2, TypedAtPage, TypedAtShop DEF Shop!outside, Shop!vars
<1>3. ASSUME NEW s \in sending, NEW ok \in BOOLEAN, Shop!Arrive(s) \/ Shop!Told(s, ok)
      PROVE  sends' = sends
  BY <1>3 DEF Shop!Arrive, Shop!Told, Shop!outside
<1>4. CASE NewSales
  BY <1>1, <1>4, NewSalesAre DEF Shop!outside
<1>5. CASE ChangedSales
  <2>1. \A j \in Shop!Ids : SentBySelf(j) => j = i
    <3>1. \A j \in Shop!Ids : SentBySelf(j) => sends' = [sends EXCEPT ![j] = Shop!again(sends[j])]
      BY DEF SentBySelf
    <3>2. \A j \in Shop!Ids : j # i => [sends EXCEPT ![j] = Shop!again(sends[j])][i] = sends[i]
      BY DEF ShopTyped, Outside
    <3>3. ASSUME NEW j \in Shop!Ids, SentBySelf(j), j # i
          PROVE  FALSE
      <4>1. sends'[i] = [sends EXCEPT ![j] = Shop!again(sends[j])][i]
        BY <3>1, <3>3
      <4> QED
        BY <3>2, <3>3, <4>1
    <3> QED
      BY <3>3
  <2>2. PICK j \in Shop!Ids :
              \/ UNCHANGED sends
              \/ /\ j \in DOMAIN orders /\ Changed(j) /\ orders'[j].st = orders[j].st
                 /\ orders'[j].account = orders[j].account /\ SentBySelf(j)
              \/ /\ j \in DOMAIN orders => Changed(j) /\ orders'[j].account = orders[j].account
                 /\ j \notin DOMAIN orders => UNCHANGED sends
                 /\ UNCHANGED sends \/ (SentBySelf(j) /\ st[j] = "invoiced")
    BY <1>5, ChangedSalesAre
  <2> QED
    BY <2>1, <2>2 DEF Changed
<1>6. CASE Buttons
  BY <1>1, <1>6 DEF Buttons, Shop!PublishDraft, Shop!TypeAccount, Shop!Delete, Shop!Dismiss, Shop!Reload, Shop!HearParsed, Shop!HearStatus, Shop!outside
<1> QED
  BY <1>2, <1>3, <1>4, <1>5, <1>6, StepsOfTheShop

LEMMA AccountStays ==
  ASSUME Shop!CoupangAssumption, ShopTyped, ~Hasty, "account" \notin Fails, [Shop!Next]_(Shop!vars),
         NEW s \in sending, s.what = "account", s.id \in DOMAIN orders
  PROVE  \/ \E r \in sending' : r.what = "account" /\ r.id = s.id
         \/ s.id \in DOMAIN orders' /\ orders'[s.id].account # "none"
<1>1. CASE s \in sending'
  BY <1>1
<1>2. CASE AtThePage \/ AtTheShop \/ UNCHANGED Shop!vars
  <2>1. sending' = sending
    BY <1>2, TypedAtPage, TypedAtShop DEF Shop!app, Shop!session, Shop!vars
  <2> QED
    BY <1>1, <2>1
<1>3. ASSUME NEW q \in sending, Shop!Arrive(q)
      PROVE  \E r \in sending' : r.what = "account" /\ r.id = s.id
  <2>1. [q EXCEPT !.there = TRUE].what = q.what /\ [q EXCEPT !.there = TRUE].id = q.id
    BY DEF ShopTyped, Session, Shop!Publications
  <2>2. sending' = (sending \ {q}) \cup {[q EXCEPT !.there = TRUE]}
    BY <1>3 DEF Shop!Arrive
  <2>3. CASE s = q
    BY <2>1, <2>2, <2>3
  <2>4. CASE s # q
    BY <2>2, <2>4
  <2> QED
    BY <2>3, <2>4
<1>4. ASSUME NEW q \in sending, NEW ok \in BOOLEAN, Shop!Told(q, ok), s \notin sending'
      PROVE  s.id \in DOMAIN orders' /\ orders'[s.id].account # "none"
  <2>1. s = q /\ orders' = Shop!after(s, ok)
    BY <1>4 DEF Shop!Told
  <2>2. ok
    BY <1>4, <2>1 DEF Shop!Told
  <2>3. Sales /\ s \in Shop!Publications /\ s.account \in Shop!Accounts /\ "none" \notin Shop!Accounts
    BY DEF ShopTyped, Session, Shop!Publications, Shop!Accounts
  <2> QED
    BY <2>1, <2>2, <2>3, SalesOfAfter
<1>5. CASE NewSales
  BY <1>1, <1>5, NewSalesAre
<1>6. CASE ChangedSales
  <2>1. UNCHANGED sending \/ \E i \in Shop!Ids : SentBySelf(i)
    BY <1>6, ChangedSalesAre
  <2> QED
    BY <1>1, <2>1 DEF SentBySelf
<1>7. CASE Buttons
  BY <1>1, <1>7 DEF Buttons, Shop!PublishDraft, Shop!TypeAccount, Shop!Delete, Shop!Dismiss, Shop!Reload, Shop!HearParsed, Shop!HearStatus, Shop!session
<1> QED
  BY <1>1, <1>2, <1>3, <1>4, <1>5, <1>6, <1>7, StepsOfTheShop

SeenIsKept == \A i \in DOMAIN orders : seen[i] # "none" => orders[i].st = seen[i]

LEMMA LinkGoesOn ==
  ASSUME Shop!CoupangAssumption, ShopTyped, Behind, SeenIsKept, [Shop!Next]_(Shop!vars)
  PROVE  SeenIsKept'
<1>1. seen \in [Shop!Ids -> Shop!States] /\ DOMAIN orders \subseteq Shop!Ids
  BY DEF ShopTyped, Session, Sales
<1>2. CASE AtThePage \/ AtTheShop \/ UNCHANGED Shop!vars
  <2>1. orders' = orders /\ seen' = seen
    BY <1>2, TypedAtPage, TypedAtShop DEF Shop!app, Shop!session, Shop!vars
  <2> QED
    BY <2>1 DEF SeenIsKept
<1>3. ASSUME NEW s \in sending, NEW ok \in BOOLEAN, Shop!Arrive(s) \/ Shop!Told(s, ok)
      PROVE  SeenIsKept'
  <2>1. CASE Shop!Arrive(s)
    BY <2>1 DEF Shop!Arrive, SeenIsKept
  <2>2. CASE Shop!Told(s, ok)
    <3>1. Sales /\ s \in Shop!Publications /\ (s.what = "account" => s.account \in Shop!Accounts)
      BY DEF ShopTyped, Session, Shop!Publications
    <3>2. orders' = Shop!after(s, ok) /\ seen' = seen
      BY <2>2 DEF Shop!Told
    <3> QED
      BY <3>1, <3>2, SalesOfAfter DEF SeenIsKept
  <2> QED
    BY <1>3, <2>1, <2>2
<1>4. CASE NewSales
  <2>1. ASSUME NEW i \in Shop!Ids, NEW b, NEW x, NewSale(i, b, x), x = seen[i] \/ (x = "none" /\ st[i] = "none"), seen' = seen
        PROVE  SeenIsKept'
    <3>1. st[i] = "none" => seen[i] = "none"
      BY DEF Behind, Later
    <3> QED
      BY <2>1, <3>1 DEF NewSale, SeenIsKept
  <2> QED
    BY <1>4, <2>1, NewSalesAre
<1>5. CASE ChangedSales
  <2>1. PICK i \in Shop!Ids :
              \/ i \in DOMAIN orders /\ Changed(i) /\ orders'[i].st = orders[i].st /\ seen' = seen
              \/ /\ i \in DOMAIN orders => Changed(i) /\ orders'[i].st = st[i]
                 /\ i \notin DOMAIN orders => orders' = orders
                 /\ seen' = [seen EXCEPT ![i] = st[i]]
    BY <1>5, ChangedSalesAre
  <2>2. CASE i \in DOMAIN orders /\ Changed(i) /\ orders'[i].st = orders[i].st /\ seen' = seen
    BY <2>2 DEF Changed, SeenIsKept
  <2>3. CASE /\ i \in DOMAIN orders => Changed(i) /\ orders'[i].st = st[i]
             /\ i \notin DOMAIN orders => orders' = orders
             /\ seen' = [seen EXCEPT ![i] = st[i]]
    BY <1>1, <2>3 DEF Changed, SeenIsKept
  <2> QED
    BY <2>1, <2>2, <2>3
<1>6. CASE Buttons
  <2>1. CASE Shop!Reload
    BY <1>1, <2>1 DEF Shop!Reload, SeenIsKept
  <2>2. ASSUME NEW i \in Shop!Ids, Shop!Delete(i)
        PROVE  SeenIsKept'
    <3>1. seen' = seen /\ \A j \in DOMAIN orders' : j \in DOMAIN orders /\ orders'[j] = orders[j]
      BY <2>2 DEF Shop!Delete, Shop!session
    <3> QED
      BY <3>1 DEF SeenIsKept
  <2>3. CASE Shop!Dismiss \/ Shop!HearParsed \/ (\E i \in Shop!Ids : Shop!PublishDraft(i) \/ Shop!TypeAccount(i)) \/ (\E word \in {"paid", "cancelled"} : Shop!HearStatus(word))
    <3>1. seen' = seen /\ orders' = orders
      BY <2>3 DEF Shop!Dismiss, Shop!HearParsed, Shop!PublishDraft, Shop!TypeAccount, Shop!HearStatus, Shop!session
    <3> QED
      BY <3>1 DEF SeenIsKept
  <2> QED
    BY <1>6, <2>1, <2>2, <2>3 DEF Buttons
<1> QED
  BY <1>2, <1>3, <1>4, <1>5, <1>6, StepsOfTheShop

Placed(i) == \/ /\ i \in DOMAIN orders /\ orders[i].st \in {"invoiced", "remitted"} \cup Shop!Terminal
                /\ orders[i].account # "none" \/ \E s \in sending : s.what = "account" /\ s.id = i
             \/ st[i] \in Shop!Terminal /\ seen[i] \in {"none"} \cup Shop!Terminal /\ (i \in DOMAIN orders => orders[i].st \in {"none"} \cup Shop!Terminal)
Once == /\ \A s \in sending : s.what = "account" => s.account = "shop"
        /\ \A i \in Shop!Ids : sends[i] \in {0, 1} /\ (sends[i] = 1 => Placed(i))

LEMMA PlacedStays ==
  ASSUME Shop!CoupangAssumption, ShopTyped, Invoiced, Behind, SeenIsKept, ~Hasty, "account" \notin Fails, [Shop!Next]_(Shop!vars), NEW i \in Shop!Ids, Placed(i)
  PROVE  Placed(i)'
<1>1. Later(st[i], st'[i])
  BY StatesMove DEF Invoiced
<1>2. CASE i \in DOMAIN orders /\ orders[i].st \in {"invoiced", "remitted"} \cup Shop!Terminal
           /\ (orders[i].account # "none" \/ \E s \in sending : s.what = "account" /\ s.id = i)
  <2>1. st[i] \in {"invoiced", "remitted"} \cup Shop!Terminal /\ (orders[i].st \in Shop!Terminal => st[i] \in Shop!Terminal)
    BY <1>2 DEF Behind, Later
  <2>2. CASE /\ i \in DOMAIN orders' /\ orders'[i].st \in {orders[i].st, st[i]}
             /\ orders[i].account # "none" => orders'[i].account # "none"
    <3>1. orders'[i].st \in {"invoiced", "remitted"} \cup Shop!Terminal
      BY <1>2, <2>1, <2>2
    <3>2. orders'[i].account # "none" \/ \E s \in sending' : s.what = "account" /\ s.id = i
      BY <1>2, <2>2, AccountStays
    <3> QED
      BY <2>2, <3>1, <3>2 DEF Placed
  <2>3. CASE i \notin DOMAIN orders' /\ orders[i].st \in {"none"} \cup Shop!Terminal /\ UNCHANGED <<seen, sends, sending, st>>
    <3>1. orders[i].st \in Shop!Terminal /\ st'[i] \in Shop!Terminal
      BY <1>2, <2>1, <2>3 DEF Shop!Terminal
    <3>2. seen'[i] \in {"none"} \cup Shop!Terminal
      BY <1>2, <2>3, <3>1 DEF SeenIsKept
    <3> QED
      BY <2>3, <3>1, <3>2 DEF Placed
  <2> QED
    BY <1>2, <2>2, <2>3, SaleStays
<1>3. CASE st[i] \in Shop!Terminal /\ seen[i] \in {"none"} \cup Shop!Terminal /\ (i \in DOMAIN orders => orders[i].st \in {"none"} \cup Shop!Terminal)
  <2>1. st'[i] \in Shop!Terminal
    BY <1>1, <1>3 DEF Later
  <2>2. seen'[i] \in {"none"} \cup Shop!Terminal
    BY <1>3, SalesMove
  <2>3. i \in DOMAIN orders' => orders'[i].st \in {"none"} \cup Shop!Terminal
    BY <1>3, SalesMove
  <2> QED
    BY <2>1, <2>2, <2>3 DEF Placed
<1> QED
  BY <1>2, <1>3 DEF Placed

LEMMA OnceGoesOn ==
  ASSUME Shop!CoupangAssumption, ShopTyped, Invoiced, Behind, SeenIsKept, Once, ~Hasty, "account" \notin Fails, ~Typing, [Shop!Next]_(Shop!vars)
  PROVE  Once'
<1>1. \A s \in sending' : s.what = "account" => s.account = "shop"
  BY AccountsMove DEF Once
<1>2. ASSUME NEW i \in Shop!Ids, sends'[i] = sends[i]
      PROVE  sends'[i] \in {0, 1} /\ (sends'[i] = 1 => Placed(i)')
  BY <1>2, PlacedStays DEF Once
<1>3. ASSUME NEW i \in Shop!Ids, sends'[i] # sends[i]
      PROVE  sends'[i] \in {0, 1} /\ (sends'[i] = 1 => Placed(i)')
  <2>1. /\ SentBySelf(i) /\ i \in DOMAIN orders /\ DOMAIN orders' = DOMAIN orders /\ orders'[i].account = orders[i].account
        /\ orders'[i].st = orders[i].st \/ st[i] = "invoiced"
    BY <1>3, SendsMove
  <2>2. orders'[i].st \in {"invoiced", "remitted"} /\ orders[i].account = "none" /\ (\A s \in sending : ~(s.id = i /\ s.account = "shop"))
    BY <2>1 DEF SentBySelf
  <2>3. ~Placed(i)
    BY <2>1, <2>2 DEF Placed, Once, Shop!Terminal
  <2>4. sends[i] = 0
    BY <2>3 DEF Once
  <2>5. sends'[i] = 1
    BY <2>1, <2>4 DEF SentBySelf, Shop!again, ShopTyped, Outside
  <2>6. Shop!Pub("account", i, "shop") \in sending' /\ Shop!Pub("account", i, "shop").what = "account" /\ Shop!Pub("account", i, "shop").id = i
    BY <2>1 DEF SentBySelf, Shop!Pub
  <2>7. Placed(i)'
    BY <2>1, <2>2, <2>6 DEF Placed
  <2> QED
    BY <2>5, <2>7
<1> QED
  BY <1>1, <1>2, <1>3 DEF Once

\* AccountGoesOnce (autoSending): where the seller lets each step end, types no account, and the account's publication does
\* not fail, an update that comes while the account is on its way, or an attachment, does not send it a second time.
THEOREM AccountIsSentOnce ==
  ASSUME Shop!CoupangAssumption, ~Hasty, "account" \notin Fails, ~Typing
  PROVE  Shop!Spec => []Shop!AccountGoesOnce
<1> DEFINE I == ShopTyped /\ Invoiced /\ Behind /\ SeenIsKept /\ Once
<1>1. Shop!Init => I
  <2>1. Shop!Init => SeenIsKept /\ Once
    BY DEF Shop!Init, SeenIsKept, Once
  <2> QED
    BY <2>1, ShopTypedStarts, RecordsStart
<1>2. I /\ [Shop!Next]_(Shop!vars) => I'
  <2> SUFFICES ASSUME I, [Shop!Next]_(Shop!vars) PROVE I'
    OBVIOUS
  <2>1. Behind'
    BY BehindGoesOn DEF Invoiced
  <2> QED
    BY <2>1, ShopTypedGoesOn, InvoicedGoesOn, LinkGoesOn, OnceGoesOn
<1>3. I => Shop!AccountGoesOnce
  <2> SUFFICES ASSUME Once, NEW i \in Shop!Ids PROVE sends[i] <= 1
    BY DEF Shop!AccountGoesOnce
  <2>1. sends[i] = 0 \/ sends[i] = 1
    BY DEF Once
  <2> QED
    BY <2>1
<1> HIDE DEF I
<1> QED
  BY <1>1, <1>2, <1>3, PTL DEF Shop!Spec
=============================================================================
