-------------------------- MODULE EffectQueueProofs --------------------------
(***************************************************************************)
(* EffectQueue, proved for any orders, kinds of effect and bounds.  Every  *)
(* write of the table either adds rows behind it or changes rows in place, *)
(* so the proof is in three layers: what Enqueue and Requeue do to any     *)
(* table, what each kind of write leaves alone, and the actions.           *)
(***************************************************************************)
EXTENDS EffectQueue, FiniteSetTheorems, SequenceTheorems, TLAPS

\* The effect in hand sends the order's last version, for no change is made during a run.
SendsTheLast ==
  running # None /\ effects[running].kind = "publish" => seen = version[effects[running].order]

\* Between the alarm and the end of the tick, nothing that is about to be tried is
\* stuck and unheard.
StuckAreHeard ==
  /\ stage = "stuck" => Stuck \subseteq alarmed
  /\ stage = "run" => Stuck \cap (batch \cup {running}) \subseteq alarmed

\* The transition that presumes an effect's success is committed exactly once, with
\* the row that records it.
MadeOnce ==
  \A i \in Ids : follow[i] = IF i \in DOMAIN effects /\ effects[i].status = "done" THEN 1 ELSE 0

IInv == /\ TypeOK
        /\ NoChangeUnsent /\ SendsTheLast
        /\ NobodyFailsUnheard /\ StuckAreHeard
        /\ MadeOnce

-----------------------------------------------------------------------------
\* The sequence of a finite set names each of its members once.
LEMMA SetToSeqEnumerates ==
  ASSUME NEW S, IsFiniteSet(S)
  PROVE  /\ Cardinality(S) \in Nat
         /\ SetToSeq(S) \in [1..Cardinality(S) -> S]
         /\ \A m, n \in 1..Cardinality(S) : SetToSeq(S)[m] = SetToSeq(S)[n] => m = n
         /\ \A x \in S : \E n \in 1..Cardinality(S) : SetToSeq(S)[n] = x
<1> DEFINE c == Cardinality(S)
           f == SetToSeq(S)
<1>1. c \in Nat /\ ExistsBijection(1..c, S)
  BY FS_CardinalityType
<1>2. \E g \in [1..c -> S] : IsInjective(g)
  BY <1>1 DEF ExistsBijection, Bijection, Injection
<1>3. f \in [1..c -> S] /\ IsInjective(f)
  BY <1>2 DEF SetToSeq
<1>4. f \in Injection(1..c, S)
  BY <1>3 DEF Injection
<1>5. IsFiniteSet(1..c) /\ Cardinality(1..c) = c
  BY <1>1, FS_Interval
<1>6. f \in Surjection(1..c, S)
  BY <1>4, <1>5, FS_Injection
<1>7. QED
  BY <1>1, <1>3, <1>6 DEF IsInjective, Surjection

\* A function on 1..n is a sequence of length n.
LEMMA FunctionIsSeq ==
  ASSUME NEW S, NEW n \in Nat, NEW f \in [1..n -> S]
  PROVE  f \in Seq(S) /\ Len(f) = n
  OBVIOUS

\* A row that Enqueue adds is an effect.
LEMMA RowIsEffect ==
  \A k \in Kinds, o \in Orders :
    /\ Row(k, o) \in Effect
    /\ Row(k, o).kind = k /\ Row(k, o).order = o /\ Row(k, o).status = "pending"
    /\ Row(k, o).attempts = 0 /\ Row(k, o).wait = 0
  BY QueueAssumed DEF QueueAssumption, Row, Effect, MaxAttempts

\* u is tab with one row for each of the kinds behind it.
Adds(u, tab, ks, o) ==
  LET new == Len(tab) + 1 .. Len(tab) + Cardinality(ks)
  IN  /\ Cardinality(ks) \in Nat /\ Len(tab) \in Nat /\ u \in Seq(Effect)
      /\ Len(u) = Len(tab) + Cardinality(ks)
      /\ \A i \in 1..Len(tab) : u[i] = tab[i]
      /\ \A i \in new : \E k \in ks : u[i] = Row(k, o)
      /\ \A i, j \in new : u[i].kind = u[j].kind => i = j
      /\ \A k \in ks : \E i \in new : u[i] = Row(k, o)

\* Insert leaves the rows there were, and adds one row for each of the kinds.
LEMMA InsertAdds ==
  ASSUME NEW tab \in Seq(Effect), NEW ks \in SUBSET Kinds, NEW o \in Orders
  PROVE  Adds(Insert(tab, ks, o), tab, ks, o)
<1> DEFINE c == Cardinality(ks)
           q == SetToSeq(ks)
           new == [n \in DOMAIN SetToSeq(ks) |-> Row(SetToSeq(ks)[n], o)]
           u == tab \o new
<1>1. IsFiniteSet(ks)
  BY QueueAssumed, FS_Subset DEF QueueAssumption
<1>2. /\ c \in Nat /\ q \in [1..c -> ks]
      /\ \A m, n \in 1..c : q[m] = q[n] => m = n
      /\ \A k \in ks : \E n \in 1..c : q[n] = k
  BY <1>1, SetToSeqEnumerates
<1>3. new \in [1..c -> Effect] /\ \A n \in 1..c : new[n] = Row(q[n], o) /\ new[n].kind = q[n]
  BY <1>2, RowIsEffect
<1>4. new \in Seq(Effect) /\ Len(new) = c
  BY <1>2, <1>3, FunctionIsSeq
<1>5. Len(tab) \in Nat
  BY LenProperties
<1>6. /\ u \in Seq(Effect) /\ Len(u) = Len(tab) + c
      /\ \A i \in 1 .. Len(tab) + c : u[i] = IF i <= Len(tab) THEN tab[i] ELSE new[i - Len(tab)]
  BY <1>4, ConcatProperties
<1>7. \A i \in 1..Len(tab) : u[i] = tab[i]
  BY <1>2, <1>5, <1>6
<1>8. \A i \in Len(tab) + 1 .. Len(tab) + c :
        i - Len(tab) \in 1..c /\ u[i] = Row(q[i - Len(tab)], o) /\ u[i].kind = q[i - Len(tab)]
  BY <1>2, <1>3, <1>5, <1>6
<1>9. \A k \in ks : \E i \in Len(tab) + 1 .. Len(tab) + c : u[i] = Row(k, o)
  <2>1. TAKE k \in ks
  <2>2. PICK n \in 1..c : q[n] = k
    BY <1>2
  <2>3. Len(tab) + n \in Len(tab) + 1 .. Len(tab) + c /\ (Len(tab) + n) - Len(tab) = n
    BY <1>2, <1>5, <2>2
  <2>4. QED
    BY <1>8, <2>2, <2>3
<1>10. \A i, j \in Len(tab) + 1 .. Len(tab) + c : u[i].kind = u[j].kind => i = j
  BY <1>2, <1>5, <1>8
<1>11. \A i \in Len(tab) + 1 .. Len(tab) + c : \E k \in ks : u[i] = Row(k, o)
  BY <1>2, <1>8
<1>12. Insert(tab, ks, o) = u
  BY DEF Insert
<1> HIDE DEF u
<1>13. QED
  BY <1>2, <1>5, <1>6, <1>7, <1>9, <1>10, <1>11, <1>12 DEF Adds

\* Enqueue keeps the dedup index, changes no row, adds rows of this order only, and
\* afterwards an effect of each kind that was asked for waits.
LEMMA EnqueueRows ==
  ASSUME NEW tab, IsTable(tab), NEW ks \in SUBSET Kinds, NEW o \in Orders,
         Len(tab) + Cardinality(ks) <= MaxEffects
  PROVE  /\ IsTable(Enqueue(tab, ks, o)) /\ DOMAIN tab \subseteq DOMAIN Enqueue(tab, ks, o)
         /\ \A i \in DOMAIN tab : Enqueue(tab, ks, o)[i] = tab[i]
         /\ \A i \in DOMAIN Enqueue(tab, ks, o) \ DOMAIN tab :
              /\ Enqueue(tab, ks, o)[i].status = "pending"
              /\ Enqueue(tab, ks, o)[i].attempts = 0
              /\ i \in Ids
         /\ \A k \in ks : Waits(Enqueue(tab, ks, o), k, o)
<1> DEFINE ms == {k \in ks : ~Waits(tab, k, o)}
           u == Insert(tab, ms, o)
           N == Len(tab) + 1 .. Len(tab) + Cardinality(ms)
<1>1. tab \in Seq(Effect) /\ ms \in SUBSET ks /\ ms \in SUBSET Kinds
  BY DEF IsTable
<1>0. Enqueue(tab, ks, o) = u
  BY DEF Enqueue
<1>a. \A k \in ks : k \in ms \/ Waits(tab, k, o)
  OBVIOUS
<1>b. \A k \in ms : ~Waits(tab, k, o)
  OBVIOUS
<1> HIDE DEF ms
<1>2. /\ Cardinality(ms) \in Nat /\ Len(tab) \in Nat /\ u \in Seq(Effect)
      /\ Len(u) = Len(tab) + Cardinality(ms)
      /\ \A i \in 1..Len(tab) : u[i] = tab[i]
      /\ \A i \in N : \E k \in ms : u[i] = Row(k, o)
      /\ \A i, j \in N : u[i].kind = u[j].kind => i = j
      /\ \A k \in ms : \E i \in N : u[i] = Row(k, o)
  <2>1. Adds(Insert(tab, ms, o), tab, ms, o)
    BY <1>1, InsertAdds
  <2>2. QED
    BY <2>1 DEF Adds
<1> HIDE DEF u
<1>3. IsFiniteSet(ks) /\ Cardinality(ks) \in Nat
  BY QueueAssumed, FS_Subset, FS_CardinalityType DEF QueueAssumption
<1>4. Cardinality(ms) <= Cardinality(ks)
  BY <1>1, <1>3, FS_Subset
<1>5. Len(u) <= MaxEffects
  BY <1>2, <1>3, <1>4, QueueAssumed DEF QueueAssumption
<1>6. DOMAIN tab = 1..Len(tab) /\ DOMAIN u = 1..Len(u) /\ DOMAIN u = DOMAIN tab \cup N
  BY <1>1, <1>2, LenProperties
<1>7. \A i \in N : /\ i \notin DOMAIN tab /\ i \in Ids
                   /\ u[i].status = "pending" /\ u[i].attempts = 0
                   /\ u[i].order = o /\ ~Waits(tab, u[i].kind, o)
  <2>1. TAKE i \in N
  <2>2. PICK k \in ms : u[i] = Row(k, o)
    BY <1>2
  <2>3. u[i].status = "pending" /\ u[i].attempts = 0 /\ u[i].order = o /\ u[i].kind = k
    BY <1>1, <2>2, RowIsEffect
  <2>4. i \notin DOMAIN tab /\ i \in Ids
    <3>1. MaxEffects \in Nat
      BY QueueAssumed DEF QueueAssumption
    <3>2. i \in Nat /\ i > Len(tab) /\ i <= Len(u)
      BY <1>2
    <3>3. QED
      BY <1>2, <1>5, <1>6, <3>1, <3>2 DEF Ids
  <2>5. QED
    BY <1>b, <2>2, <2>3, <2>4
<1>8. ASSUME NEW i \in DOMAIN u, NEW j \in DOMAIN u,
             u[i].status = "pending", u[j].status = "pending",
             u[i].kind = u[j].kind, u[i].order = u[j].order
      PROVE  i = j
  <2>1. CASE i \in DOMAIN tab /\ j \in DOMAIN tab
    BY <1>2, <1>6, <1>8, <2>1 DEF IsTable
  <2>2. CASE i \in N /\ j \in N
    BY <1>2, <1>8, <2>2
  <2>3. CASE i \in DOMAIN tab /\ j \in N
    BY <1>2, <1>6, <1>7, <1>8, <2>3 DEF Waits
  <2>4. CASE i \in N /\ j \in DOMAIN tab
    BY <1>2, <1>6, <1>7, <1>8, <2>4 DEF Waits
  <2>5. QED
    BY <1>6, <2>1, <2>2, <2>3, <2>4
<1>9. IsTable(u)
  BY <1>2, <1>5, <1>8 DEF IsTable
<1>10. ASSUME NEW k \in ks PROVE Waits(u, k, o)
  <2>1. CASE k \in ms
    <3>1. PICK i \in N : u[i] = Row(k, o)
      BY <1>2, <2>1
    <3>2. u[i].status = "pending" /\ u[i].kind = k /\ u[i].order = o
      BY <1>1, <2>1, <3>1, RowIsEffect
    <3>3. QED
      BY <1>6, <3>1, <3>2 DEF Waits
  <2>2. CASE Waits(tab, k, o)
    BY <1>2, <1>6, <2>2 DEF Waits
  <2>3. QED
    BY <1>a, <2>1, <2>2
<1>11. QED
  BY <1>0, <1>2, <1>6, <1>7, <1>9, <1>10

\* Whatever the table becomes, Requeue orders what is due then, if it was in order.
LEMMA RequeueOrders ==
  ASSUME IsOrder(before, Due), NEW tab \in Seq(Effect)
  PROVE  IsOrder(Requeue(tab), DueIn(tab))
<1> DEFINE D == DueIn(tab)
           Lt(i, j) == IF i \in Due THEN j \in Due => <<i, j>> \in before
                                    ELSE j \notin Due /\ i < j
<1>1. D \subseteq Nat
  BY LenProperties DEF DueIn
<1>2. \A i, j \in D : <<i, j>> \in Requeue(tab) <=> Lt(i, j)
  BY DEF Requeue
<1>3. Requeue(tab) \subseteq D \X D
  BY DEF Requeue
<1>4. /\ \A i, j \in Due : i # j => (<<i, j>> \in before \/ <<j, i>> \in before)
      /\ \A i, j \in Due : ~ (<<i, j>> \in before /\ <<j, i>> \in before)
      /\ \A i, j, k \in Due : <<i, j>> \in before /\ <<j, k>> \in before => <<i, k>> \in before
  BY DEF IsOrder
<1>5. \A i, j \in D : i < j \/ j < i \/ i = j
  BY <1>1
<1>6. \A i, j \in D : ~ (i < j /\ j < i)
  BY <1>1
<1>7. \A i, j \in D : i # j => Lt(i, j) \/ Lt(j, i)
  BY <1>4, <1>5
<1>8. \A i, j \in D : ~ (Lt(i, j) /\ Lt(j, i))
  BY <1>4, <1>6
<1>9. \A i, j, k \in D : Lt(i, j) /\ Lt(j, k) => Lt(i, k)
  BY <1>1, <1>4
<1> HIDE DEF Lt
<1>10. QED
  BY <1>2, <1>3, <1>7, <1>8, <1>9 DEF IsOrder

-----------------------------------------------------------------------------
\* A table is a function on 1..Len, and its rows have identities.
LEMMA TableIds ==
  ASSUME NEW tab, IsTable(tab)
  PROVE  /\ Len(tab) \in Nat /\ DOMAIN tab = 1..Len(tab) /\ DOMAIN tab \subseteq Ids
         /\ tab \in [DOMAIN tab -> Effect]
<1>1. tab \in Seq(Effect) /\ Len(tab) <= MaxEffects
  BY DEF IsTable
<1>2. Len(tab) \in Nat /\ DOMAIN tab = 1..Len(tab) /\ tab \in [1..Len(tab) -> Effect]
  BY <1>1, LenProperties
<1>3. MaxEffects \in Nat
  BY QueueAssumed DEF QueueAssumption
<1>4. QED
  BY <1>1, <1>2, <1>3 DEF Ids

\* tab is the table with rows changed in place: none gets another dedup key, and none
\* waits that did not.
InPlace(tab) ==
  /\ tab \in [DOMAIN effects -> Effect]
  /\ \A i \in DOMAIN effects :
       /\ tab[i].kind = effects[i].kind /\ tab[i].order = effects[i].order
       /\ tab[i].status = "pending" => effects[i].status = "pending"

\* Rows changed in place are a table again.
LEMMA InPlaceTable ==
  ASSUME IsTable(effects), NEW tab, InPlace(tab)
  PROVE  IsTable(tab) /\ DOMAIN tab = DOMAIN effects /\ Len(tab) = Len(effects)
<1>1. Len(effects) \in Nat /\ DOMAIN effects = 1..Len(effects)
  BY TableIds
<1>2. tab \in [1..Len(effects) -> Effect]
  BY <1>1 DEF InPlace
<1>3. tab \in Seq(Effect) /\ Len(tab) = Len(effects) /\ DOMAIN tab = DOMAIN effects
  BY <1>1, <1>2, FunctionIsSeq
<1>4. QED
  BY <1>3 DEF IsTable, InPlace

\* An effect that has been finished is an effect.
LEMMA FinishedRow ==
  ASSUME NEW e \in Effect, NEW st \in {"done", "dead"}
  PROVE  /\ [e EXCEPT !.status = st, !.attempts = 0, !.wait = 0] \in Effect
         /\ [e EXCEPT !.status = st, !.attempts = 0, !.wait = 0].kind = e.kind
         /\ [e EXCEPT !.status = st, !.attempts = 0, !.wait = 0].order = e.order
         /\ [e EXCEPT !.status = st, !.attempts = 0, !.wait = 0].status = st
<1> DEFINE f == [e EXCEPT !.status = st]
<1>1. f \in Effect /\ f.kind = e.kind /\ f.order = e.order /\ f.status = st
  BY DEF Effect
<1>2. 0 \in 0..MaxAttempts /\ 0 \in 0..MaxDelay
  BY QueueAssumed DEF QueueAssumption, MaxAttempts
<1>3. [e EXCEPT !.status = st, !.attempts = 0, !.wait = 0] = [f EXCEPT !.attempts = 0, !.wait = 0]
  OBVIOUS
<1> HIDE DEF f
<1>4. [f EXCEPT !.attempts = 0, !.wait = 0] \in Effect
  BY <1>1, <1>2 DEF Effect
<1>5. /\ [e EXCEPT !.status = st, !.attempts = 0, !.wait = 0].kind = e.kind
      /\ [e EXCEPT !.status = st, !.attempts = 0, !.wait = 0].order = e.order
      /\ [e EXCEPT !.status = st, !.attempts = 0, !.wait = 0].status = st
  BY DEF Effect
<1>6. [e EXCEPT !.status = st, !.attempts = 0, !.wait = 0] \in Effect
  BY <1>3, <1>4, Zenon
<1>7. QED
  BY <1>5, <1>6

\* Finishing a row touches no other.
LEMMA FinishInPlace ==
  ASSUME IsTable(effects), NEW i \in DOMAIN effects, NEW st \in {"done", "dead"}
  PROVE  /\ InPlace(finish(i, st)) /\ finish(i, st)[i].status = st
         /\ \A j \in DOMAIN effects : j # i => finish(i, st)[j] = effects[j]
<1>1. effects \in [DOMAIN effects -> Effect]
  BY TableIds
<1> DEFINE r == [effects[i] EXCEPT !.status = st, !.attempts = 0, !.wait = 0]
<1>2. r \in Effect /\ r.kind = effects[i].kind /\ r.order = effects[i].order /\ r.status = st
  <2>1. effects[i] \in Effect
    BY <1>1
  <2>2. QED
    BY <2>1, FinishedRow, Zenon
<1>3. finish(i, st) = [effects EXCEPT ![i] = r]
  BY <1>1 DEF finish
<1> HIDE DEF r
<1>4. QED
  BY <1>1, <1>2, <1>3 DEF InPlace

\* A delay is between nothing and the cap.
LEMMA DelayIsBounded == \A n \in Nat : backoffMs(n) \in 0..MaxDelay
<1>1. MaxDelay \in Nat
  BY QueueAssumed DEF QueueAssumption
<1>2. TAKE n \in Nat
<1> DEFINE d == 2 ^ (IF n > 1 THEN n - 1 ELSE 0)
<1>3. backoffMs(n) = IF d \in 1..MaxDelay THEN d ELSE MaxDelay
  BY DEF backoffMs
<1> HIDE DEF d
<1>4. QED
  BY <1>1, <1>3

\* A failed effect waits on, with its count, and no other row is touched.
LEMMA RetriedInPlace ==
  ASSUME IsTable(effects), NEW i \in DOMAIN effects
  PROVE  /\ InPlace(Retried(i)) /\ Retried(i)[i].status = effects[i].status
         /\ \A j \in DOMAIN effects : j # i => Retried(i)[j] = effects[j]
<1>1. effects \in [DOMAIN effects -> Effect]
  BY TableIds
<1>2. MaxAttempts \in Nat
  BY QueueAssumed DEF QueueAssumption, MaxAttempts
<1>3. effects[i] \in Effect /\ effects[i].attempts \in 0..MaxAttempts
  BY <1>1 DEF Effect
<1> DEFINE n == IF effects[i].attempts < MaxAttempts THEN effects[i].attempts + 1 ELSE MaxAttempts
           w == backoffMs(n)
           r == [effects[i] EXCEPT !.attempts = n, !.wait = w]
<1>4. n \in 0..MaxAttempts /\ n \in Nat
  BY <1>2, <1>3
<1>5. Retried(i) = [effects EXCEPT ![i] = r]
  BY <1>1 DEF Retried
<1> HIDE DEF n
<1>6. w \in 0..MaxDelay
  BY <1>4, DelayIsBounded
<1> HIDE DEF w
<1>7. r \in Effect /\ r.kind = effects[i].kind /\ r.order = effects[i].order
        /\ r.status = effects[i].status
  BY <1>3, <1>4, <1>6 DEF Effect
<1> HIDE DEF r
<1>8. QED
  BY <1>1, <1>5, <1>7 DEF InPlace

\* A row that has come nearer to its time, or whose time has come, is the same effect.
LEMMA NearerRow ==
  ASSUME NEW e \in Effect
  PROVE  /\ \A w \in 0..MaxDelay : [e EXCEPT !.wait = w] \in Effect
         /\ e.wait > 0 => e.wait - 1 \in 0..MaxDelay
         /\ \A w : /\ [e EXCEPT !.wait = w].kind = e.kind /\ [e EXCEPT !.wait = w].order = e.order
                   /\ [e EXCEPT !.wait = w].status = e.status
                   /\ [e EXCEPT !.wait = w].attempts = e.attempts
<1>1. MaxDelay \in Nat
  BY QueueAssumed DEF QueueAssumption
<1>2. QED
  BY <1>1 DEF Effect

\* Time changes nothing but the time that is left.
LEMMA NearerInPlace ==
  ASSUME IsTable(effects)
  PROVE  /\ InPlace(Nearer)
         /\ \A i \in DOMAIN effects :
              /\ Nearer[i].status = effects[i].status /\ Nearer[i].attempts = effects[i].attempts
              /\ effects[i].wait = 0 => Nearer[i] = effects[i]
<1>1. effects \in [DOMAIN effects -> Effect]
  BY TableIds
<1>2. ASSUME NEW i \in DOMAIN effects
      PROVE  /\ Nearer[i] \in Effect
             /\ Nearer[i].kind = effects[i].kind /\ Nearer[i].order = effects[i].order
             /\ Nearer[i].status = effects[i].status /\ Nearer[i].attempts = effects[i].attempts
             /\ effects[i].wait = 0 => Nearer[i] = effects[i]
  <2>1. effects[i] \in Effect
    BY <1>1
  <2>2. CASE effects[i].wait > 0
    <3>1. Nearer[i] = [effects[i] EXCEPT !.wait = effects[i].wait - 1]
      BY <2>2 DEF Nearer
    <3>2. effects[i].wait - 1 \in 0..MaxDelay
      BY <2>1, <2>2, NearerRow
    <3>3. effects[i].wait # 0
      BY <2>2
    <3>4. QED
      BY <2>1, <3>1, <3>2, <3>3, NearerRow
  <2>3. CASE ~ (effects[i].wait > 0)
    BY <2>1, <2>3 DEF Nearer
  <2>4. QED
    BY <2>2, <2>3
<1>3. Nearer \in [DOMAIN effects -> Effect]
  BY <1>2 DEF Nearer
<1>4. QED
  BY <1>2, <1>3 DEF InPlace

\* What is brought forward is the same effect, and due.
LEMMA ExpediteInPlace ==
  ASSUME IsTable(effects), NEW i \in DOMAIN effects
  PROVE  /\ InPlace([effects EXCEPT ![i].wait = 0])
         /\ [effects EXCEPT ![i].wait = 0][i].status = effects[i].status
         /\ [effects EXCEPT ![i].wait = 0][i].attempts = effects[i].attempts
         /\ \A j \in DOMAIN effects : j # i => [effects EXCEPT ![i].wait = 0][j] = effects[j]
<1>1. effects \in [DOMAIN effects -> Effect] /\ effects[i] \in Effect
  BY TableIds
<1>2. 0 \in 0..MaxDelay
  BY QueueAssumed DEF QueueAssumption
<1> DEFINE r == [effects[i] EXCEPT !.wait = 0]
<1>3. /\ r \in Effect /\ r.kind = effects[i].kind /\ r.order = effects[i].order
      /\ r.status = effects[i].status /\ r.attempts = effects[i].attempts
  BY <1>1, <1>2 DEF Effect
<1>4. [effects EXCEPT ![i].wait = 0] = [effects EXCEPT ![i] = r]
  BY <1>1
<1> HIDE DEF r
<1>5. QED
  BY <1>1, <1>3, <1>4 DEF InPlace

-----------------------------------------------------------------------------
\* What a step leaves alone when it does not write the table.
LEMMA TableStands ==
  ASSUME TypeOK, UNCHANGED <<effects, before>>
  PROVE  /\ IsTable(effects)' /\ IsOrder(before, Due)' /\ Due' = Due
         /\ PendingIds' = PendingIds /\ Stuck' = Stuck
<1>1. Due' = Due /\ PendingIds' = PendingIds /\ Stuck' = Stuck
  BY DEF Due, DueIn, PendingIds, Stuck
<1>2. QED
  BY <1>1 DEF TypeOK, IsTable, IsOrder

\* A write leaves the due effects in order.
LEMMA WriteOrders ==
  ASSUME TypeOK, NEW tab, IsTable(tab), Write(tab)
  PROVE  IsTable(effects)' /\ IsOrder(before, Due)'
<1>1. IsOrder(Requeue(tab), DueIn(tab))
  BY RequeueOrders DEF TypeOK, IsTable
<1>2. before' = Requeue(tab) /\ Due' = DueIn(tab) /\ effects' = tab
  BY DEF Write, Due, DueIn
<1>3. QED
  BY <1>1, <1>2 DEF IsTable, IsOrder

\* A write in place.
LEMMA WriteInPlace ==
  ASSUME TypeOK, NEW tab, InPlace(tab), Write(tab)
  PROVE  /\ IsTable(effects)' /\ IsOrder(before, Due)' /\ effects' = tab
         /\ DOMAIN effects' = DOMAIN effects
<1>1. IsTable(tab) /\ DOMAIN tab = DOMAIN effects
  BY InPlaceTable DEF TypeOK
<1>2. QED
  BY <1>1, WriteOrders DEF Write

\* The effect that is run is one that waits.
LEMMA RunningWaits ==
  ASSUME TypeOK, running # None
  PROVE  /\ running \in DOMAIN effects /\ running \in Ids
         /\ effects[running] \in Effect /\ effects[running].status = "pending"
         /\ stage = "run" /\ running \notin batch
<1>1. running \in DOMAIN effects /\ effects[running].status = "pending"
      /\ stage = "run" /\ running \notin batch
  BY DEF TypeOK, Due, DueIn
<1>2. QED
  BY <1>1, TableIds DEF TypeOK

\* A change of an order adds rows and touches none; its publication waits then.
LEMMA JudgeWrites ==
  ASSUME TypeOK, NEW o \in Orders, NEW ks \in SUBSET (Kinds \ {"publish"}), Judge(o, ks)
  PROVE  /\ IsTable(effects)' /\ IsOrder(before, Due)' /\ DOMAIN effects \subseteq DOMAIN effects'
         /\ \A i \in DOMAIN effects : effects'[i] = effects[i]
         /\ \A i \in DOMAIN effects' \ DOMAIN effects :
              effects'[i].status = "pending" /\ effects'[i].attempts = 0 /\ i \in Ids
         /\ Waits(effects', "publish", o)
<1> DEFINE all == {"publish"} \cup ks
<1>1. all \in SUBSET Kinds /\ IsFiniteSet(ks) /\ "publish" \notin ks
  BY QueueAssumed, FS_Subset DEF QueueAssumption
<1>2. Cardinality(all) = Cardinality(ks) + 1 /\ Cardinality(ks) \in Nat
  <2>1. all = ks \cup {"publish"}
    OBVIOUS
  <2>2. QED
    BY <1>1, <2>1, FS_AddElement, FS_CardinalityType
<1>3. Len(effects) + Cardinality(all) <= MaxEffects
  BY <1>2, TableIds, QueueAssumed DEF Judge, TypeOK, QueueAssumption
<1>4. effects' = Enqueue(effects, all, o) /\ Write(Enqueue(effects, all, o))
  BY DEF Judge, Write
<1> HIDE DEF all
<1>5. /\ IsTable(Enqueue(effects, all, o)) /\ DOMAIN effects \subseteq DOMAIN Enqueue(effects, all, o)
      /\ \A i \in DOMAIN effects : Enqueue(effects, all, o)[i] = effects[i]
      /\ \A i \in DOMAIN Enqueue(effects, all, o) \ DOMAIN effects :
           /\ Enqueue(effects, all, o)[i].status = "pending"
           /\ Enqueue(effects, all, o)[i].attempts = 0
           /\ i \in Ids
      /\ \A k \in all : Waits(Enqueue(effects, all, o), k, o)
  BY <1>1, <1>3, EnqueueRows DEF TypeOK
<1>6. IsTable(effects)' /\ IsOrder(before, Due)'
  BY <1>4, <1>5, WriteOrders
<1>7. "publish" \in all
  BY DEF all
<1>8. QED
  BY <1>4, <1>5, <1>6, <1>7

\* What is in the table after an answer: the row is closed, the others are as they were,
\* and a payment has asked for a publication of its order.
LEMMA AnswerWrites ==
  ASSUME TypeOK, AnswerDone
  PROVE  /\ IsTable(effects)' /\ IsOrder(before, Due)' /\ DOMAIN effects \subseteq DOMAIN effects'
         /\ effects'[running].status = "done"
         /\ \A i \in DOMAIN effects : i # running => effects'[i] = effects[i]
         /\ \A i \in DOMAIN effects' \ DOMAIN effects :
              effects'[i].status = "pending" /\ effects'[i].attempts = 0 /\ i \in Ids
         /\ effects[running].kind = "money" => Waits(effects', "publish", effects[running].order)
<1> DEFINE closed == finish(running, "done")
           o == effects[running].order
<1>1. /\ running \in DOMAIN effects /\ effects[running] \in Effect
      /\ IsTable(effects) /\ o \in Orders
  BY RunningWaits DEF AnswerDone, TypeOK, Effect
<1>2. /\ InPlace(closed) /\ closed[running].status = "done"
      /\ \A i \in DOMAIN effects : i # running => closed[i] = effects[i]
  BY <1>1, FinishInPlace
<1>3. IsTable(closed) /\ DOMAIN closed = DOMAIN effects /\ Len(closed) = Len(effects)
  BY <1>1, <1>2, InPlaceTable
<1>4. CASE effects[running].kind # "money"
  <2>1. Write(closed)
    BY <1>4 DEF AnswerDone
  <2>2. effects' = closed
    BY <2>1 DEF Write
  <2> HIDE DEF closed
  <2>3. IsTable(effects)' /\ IsOrder(before, Due)'
    BY <1>3, <2>1, WriteOrders
  <2>4. QED
    BY <1>2, <1>3, <1>4, <2>2, <2>3
<1>5. CASE effects[running].kind = "money"
  <2> DEFINE t == Enqueue(closed, {"publish"}, o)
  <2>1. Write(t) /\ Len(effects) < MaxEffects
    BY <1>5 DEF AnswerDone
  <2>2. Len(closed) + Cardinality({"publish"}) <= MaxEffects
    <3>1. Cardinality({"publish"}) = 1
      BY FS_Singleton
    <3>2. Len(effects) \in Nat /\ MaxEffects \in Nat
      BY <1>1, TableIds, QueueAssumed DEF QueueAssumption
    <3>3. QED
      BY <1>3, <2>1, <3>1, <3>2
  <2>3. {"publish"} \in SUBSET Kinds
    BY QueueAssumed DEF QueueAssumption
  <2> HIDE DEF closed, o
  <2>4. /\ IsTable(t) /\ DOMAIN closed \subseteq DOMAIN t
        /\ \A i \in DOMAIN closed : t[i] = closed[i]
        /\ \A i \in DOMAIN t \ DOMAIN closed :
             t[i].status = "pending" /\ t[i].attempts = 0 /\ i \in Ids
        /\ \A k \in {"publish"} : Waits(t, k, o)
    BY <1>1, <1>3, <2>2, <2>3, EnqueueRows
  <2>5. effects' = t
    BY <2>1 DEF Write
  <2> HIDE DEF t
  <2>6. IsTable(effects)' /\ IsOrder(before, Due)'
    BY <2>1, <2>4, WriteOrders
  <2>7. Waits(effects', "publish", effects[running].order)
    BY <2>4, <2>5 DEF o
  <2>8. QED
    BY <1>1, <1>2, <1>3, <2>4, <2>5, <2>6, <2>7
<1>6. QED
  BY <1>4, <1>5

\* What a write in place keeps of the tick, when the rows of the batch stay due.
LEMMA StaysDue ==
  ASSUME TypeOK, NEW i \in DOMAIN effects, i \in Due,
         i \in DOMAIN effects', effects'[i] = effects[i]
  PROVE  i \in Due'
  BY DEF Due, DueIn

\* The table and the tick have their shape in the initial state.
LEMMA TypeInit == Init => TypeOK
<1> SUFFICES ASSUME Init PROVE TypeOK
  OBVIOUS
<1>1. IsTable(effects)
  <2>1. effects \in Seq(Effect) /\ Len(effects) = 0 /\ DOMAIN effects = {}
    BY EmptySeq DEF Init
  <2>2. QED
    BY <2>1, QueueAssumed DEF IsTable, QueueAssumption
<1>2. Due = {}
  BY DEF Init, Due, DueIn
<1>3. IsOrder(before, Due)
  BY <1>2 DEF Init, IsOrder
<1>4. MaxCrashes \in Nat
  BY QueueAssumed DEF QueueAssumption
<1>5. QED
  BY <1>1, <1>2, <1>3, <1>4 DEF Init, TypeOK, None

\* Every step keeps the shape of the table and of the tick.
LEMMA TypeStep == ASSUME TypeOK, [Next]_vars PROVE TypeOK'
<1>1. CASE BeginTick
  BY <1>1, TableStands DEF TypeOK, BeginTick, table
<1>2. ASSUME NEW o \in Orders, NEW ks \in SUBSET (Kinds \ {"publish"}), Judge(o, ks)
      PROVE  TypeOK'
  <2>1. /\ IsTable(effects)' /\ IsOrder(before, Due)' /\ DOMAIN effects \subseteq DOMAIN effects'
        /\ \A i \in DOMAIN effects : effects'[i] = effects[i]
    BY <1>2, JudgeWrites
  <2>2. batch = {} /\ running = None
    BY <1>2 DEF Judge, TypeOK
  <2>3. version' \in [Orders -> Nat]
    BY <1>2 DEF Judge, TypeOK
  <2>4. QED
    BY <1>2, <2>1, <2>2, <2>3 DEF Judge, TypeOK, tick
<1>3. ASSUME NEW i \in Ids, expedite(i)
      PROVE  TypeOK'
  <2>1. i \in DOMAIN effects /\ IsTable(effects)
    BY <1>3 DEF expedite, Pending, TypeOK
  <2>2. /\ IsTable(effects)' /\ IsOrder(before, Due)' /\ DOMAIN effects' = DOMAIN effects
    BY <1>3, <2>1, ExpediteInPlace, WriteInPlace DEF expedite
  <2>3. batch = {} /\ running = None
    BY <1>3 DEF expedite, TypeOK
  <2>4. QED
    BY <1>3, <2>2, <2>3 DEF expedite, TypeOK, tick
<1>4. CASE raiseStuckEffects
  <2>1. Stuck \subseteq DOMAIN effects
    BY DEF Stuck, PendingIds
  <2>2. QED
    BY <1>4, <2>1, TableStands DEF TypeOK, raiseStuckEffects
<1>5. CASE runDue
  <2>1. running = None
    BY <1>5 DEF runDue, TypeOK
  <2>2. QED
    BY <1>5, <2>1, TableStands DEF TypeOK, runDue, table
<1>6. CASE runOne
  <2>1. PICK i \in batch : running' = i /\ batch' = batch \ {i} /\ seen' = version[effects[i].order]
    BY <1>6 DEF runOne
  <2>2. i \in Due /\ i \in DOMAIN effects
    BY <2>1 DEF TypeOK, Due, DueIn
  <2>3. effects[i].order \in Orders
    BY <2>2, TableIds DEF TypeOK, Effect
  <2>4. seen' \in Nat
    BY <2>1, <2>3 DEF TypeOK
  <2>5. QED
    BY <1>6, <2>1, <2>2, <2>4, TableStands DEF TypeOK, runOne, table
<1>7. CASE Act
  <2>1. running \in DOMAIN effects
    BY <1>7, RunningWaits DEF Act
  <2>2. QED
    BY <1>7, <2>1, TableStands DEF TypeOK, Act, tick
<1>8. CASE AnswerDone
  <2>1. /\ IsTable(effects)' /\ IsOrder(before, Due)' /\ DOMAIN effects \subseteq DOMAIN effects'
        /\ \A i \in DOMAIN effects : i # running => effects'[i] = effects[i]
    BY <1>8, AnswerWrites
  <2>2. /\ running \in DOMAIN effects /\ effects[running] \in Effect /\ running \notin batch
        /\ running \in Ids /\ stage = "run"
    BY <1>8, RunningWaits DEF AnswerDone
  <2>3. effects[running].order \in Orders
    BY <2>2 DEF Effect
  <2>4. version' \in [Orders -> Nat] /\ sent' \in [Orders -> Nat]
    <3>1. version \in [Orders -> Nat] /\ sent \in [Orders -> Nat] /\ seen \in Nat
      BY DEF TypeOK
    <3>2. \/ version' = version
          \/ version' = [version EXCEPT ![effects[running].order] = @ + 1]
      BY <1>8 DEF AnswerDone
    <3>3. sent' = sent \/ sent' = [sent EXCEPT ![effects[running].order] = seen]
      BY <1>8 DEF AnswerDone
    <3>4. QED
      BY <2>3, <3>1, <3>2, <3>3
  <2>5. follow' \in [Ids -> Nat]
    BY <1>8, <2>2 DEF AnswerDone, TypeOK
  <2>6. batch \subseteq Due'
    BY <2>1, <2>2, StaysDue DEF TypeOK, Due, DueIn
  <2>7. QED
    BY <1>8, <2>1, <2>2, <2>4, <2>5, <2>6 DEF AnswerDone, Return, TypeOK
<1>9. CASE Retry
  <2>1. running \in DOMAIN effects /\ running \notin batch /\ stage = "run" /\ IsTable(effects)
    BY <1>9, RunningWaits DEF Retry, TypeOK
  <2>2. /\ IsTable(effects)' /\ IsOrder(before, Due)' /\ DOMAIN effects' = DOMAIN effects
        /\ \A i \in DOMAIN effects : i # running => effects'[i] = effects[i]
    <3>1. InPlace(Retried(running))
          /\ \A i \in DOMAIN effects : i # running => Retried(running)[i] = effects[i]
      BY <2>1, RetriedInPlace
    <3>2. Write(Retried(running))
      BY <1>9 DEF Retry
    <3>3. QED
      BY <3>1, <3>2, WriteInPlace
  <2>3. batch \subseteq Due'
    BY <2>1, <2>2, StaysDue DEF TypeOK, Due, DueIn
  <2>4. QED
    BY <1>9, <2>1, <2>2, <2>3 DEF Retry, Return, TypeOK
<1>10. CASE Kill
  <2>1. running \in DOMAIN effects /\ running \notin batch /\ stage = "run" /\ IsTable(effects)
    BY <1>10, RunningWaits DEF Kill, TypeOK
  <2>2. /\ IsTable(effects)' /\ IsOrder(before, Due)' /\ DOMAIN effects' = DOMAIN effects
        /\ \A i \in DOMAIN effects : i # running => effects'[i] = effects[i]
    BY <1>10, <2>1, FinishInPlace, WriteInPlace DEF Kill
  <2>3. batch \subseteq Due'
    BY <2>1, <2>2, StaysDue DEF TypeOK, Due, DueIn
  <2>4. QED
    BY <1>10, <2>1, <2>2, <2>3 DEF Kill, Return, TypeOK
<1>11. CASE EndTick
  BY <1>11, TableStands DEF TypeOK, EndTick, table
<1>12. CASE Pass
  <2>1. IsTable(effects)
    BY DEF TypeOK
  <2>2. /\ IsTable(effects)' /\ IsOrder(before, Due)' /\ DOMAIN effects' = DOMAIN effects
        /\ \A i \in DOMAIN effects : effects[i].wait = 0 => effects'[i] = effects[i]
    BY <1>12, <2>1, NearerInPlace, WriteInPlace DEF Pass
  <2>3. Due \subseteq Due'
    BY <2>2, StaysDue DEF Due, DueIn
  <2>4. QED
    BY <1>12, <2>2, <2>3 DEF Pass, TypeOK, tick
<1>13. CASE Crash
  <2>1. crashes' \in 0..MaxCrashes
    BY <1>13, QueueAssumed DEF TypeOK, Crash, QueueAssumption
  <2>2. QED
    BY <1>13, <2>1, TableStands DEF TypeOK, Crash, table, None
<1>14. CASE UNCHANGED vars
  BY <1>14, TableStands DEF TypeOK, vars, table, tick
<1>15. QED
  BY <1>1, <1>2, <1>3, <1>4, <1>5, <1>6, <1>7, <1>8, <1>9, <1>10, <1>11, <1>12, <1>13, <1>14
     DEF Next, Loop, Outcome

-----------------------------------------------------------------------------
\* What waits on a table still waits when no row of it is finished.
LEMMA WaitsStays ==
  ASSUME NEW t, NEW u, NEW k, NEW o, Waits(t, k, o), DOMAIN t \subseteq DOMAIN u,
         \A i \in DOMAIN t : t[i].status = "pending" /\ t[i].kind = k /\ t[i].order = o =>
           u[i].status = "pending" /\ u[i].kind = k /\ u[i].order = o
  PROVE  Waits(u, k, o)
  BY DEF Waits

\* NoChangeUnsent, said with Waits.
LEMMA UnsentWaits ==
  NoChangeUnsent <=> \A o \in Orders : sent[o] < version[o] => Waits(effects, "publish", o)
  BY DEF NoChangeUnsent, Waits, PendingIds

\* Every step keeps a publication waiting for the last change of an order, and the one
\* in hand sends it.
LEMMA SentStep ==
  ASSUME TypeOK, NoChangeUnsent, SendsTheLast, [Next]_vars
  PROVE  NoChangeUnsent' /\ SendsTheLast'
<1> DEFINE Unsent(o) == sent[o] < version[o] => Waits(effects, "publish", o)
<1>0. (\A o \in Orders : Unsent(o)) /\ (NoChangeUnsent' <=> \A o \in Orders : Unsent(o)')
  BY UnsentWaits DEF NoChangeUnsent, Waits, PendingIds
<1>1. CASE BeginTick \/ raiseStuckEffects \/ runDue \/ EndTick \/ Crash \/ UNCHANGED vars
  BY <1>1 DEF NoChangeUnsent, SendsTheLast, PendingIds, BeginTick, raiseStuckEffects, runDue,
     EndTick, Crash, vars, table, tick, None
<1>2. ASSUME NEW o \in Orders, NEW ks \in SUBSET (Kinds \ {"publish"}), Judge(o, ks)
      PROVE  NoChangeUnsent' /\ SendsTheLast'
  <2>1. /\ DOMAIN effects \subseteq DOMAIN effects' /\ Waits(effects', "publish", o)
        /\ \A i \in DOMAIN effects : effects'[i] = effects[i]
    BY <1>2, JudgeWrites
  <2>2. running' = None
    BY <1>2 DEF Judge, TypeOK, tick
  <2>3. ASSUME NEW p \in Orders, p # o PROVE Unsent(p)'
    <3>1. sent'[p] = sent[p] /\ version'[p] = version[p]
      BY <1>2, <2>3 DEF Judge, TypeOK
    <3>2. Waits(effects, "publish", p) => Waits(effects', "publish", p)
      BY <2>1, WaitsStays
    <3>3. QED
      BY <1>0, <3>1, <3>2
  <2>4. \A p \in Orders : Unsent(p)'
    BY <2>1, <2>3
  <2>5. QED
    BY <1>0, <2>2, <2>4 DEF SendsTheLast
<1>3. ASSUME NEW i \in Ids, expedite(i) PROVE NoChangeUnsent' /\ SendsTheLast'
  <2>1. i \in DOMAIN effects /\ IsTable(effects)
    BY <1>3 DEF expedite, Pending, TypeOK
  <2>2. InPlace([effects EXCEPT ![i].wait = 0])
        /\ \A j \in DOMAIN effects : [effects EXCEPT ![i].wait = 0][j].status = effects[j].status
    BY <2>1, ExpediteInPlace
  <2>3. effects' = [effects EXCEPT ![i].wait = 0] /\ DOMAIN effects' = DOMAIN effects
    BY <1>3, <2>2, WriteInPlace DEF expedite
  <2>4. \A o \in Orders : Waits(effects, "publish", o) => Waits(effects', "publish", o)
    BY <2>2, <2>3, WaitsStays DEF InPlace
  <2>5. UNCHANGED <<sent, version>> /\ running' = None
    BY <1>3 DEF expedite, TypeOK, tick
  <2>6. QED
    BY <1>0, <2>4, <2>5 DEF SendsTheLast
<1>4. CASE runOne
  <2>1. UNCHANGED table /\ \E i \in batch : running' = i /\ seen' = version[effects[i].order]
    BY <1>4 DEF runOne
  <2>2. SendsTheLast'
    BY <2>1 DEF SendsTheLast, table
  <2>3. QED
    BY <2>1, <2>2 DEF NoChangeUnsent, PendingIds, table
<1>5. CASE Act
  BY <1>5 DEF Act, NoChangeUnsent, SendsTheLast, PendingIds, tick
<1>6. CASE AnswerDone
  <2>0. PICK o \in Orders : o = effects[running].order
    BY <1>6, RunningWaits DEF AnswerDone, Effect
  <2>1. /\ DOMAIN effects \subseteq DOMAIN effects'
        /\ \A i \in DOMAIN effects : i # running => effects'[i] = effects[i]
        /\ effects[running].kind = "money" => Waits(effects', "publish", o)
    BY <1>6, <2>0, AnswerWrites
  <2>2. running \in DOMAIN effects
    BY <1>6, RunningWaits DEF AnswerDone
  <2>3. running' = None
    BY <1>6 DEF AnswerDone, Return
  <2>4. sent \in [Orders -> Nat] /\ version \in [Orders -> Nat]
    BY DEF TypeOK
  <2>5. Waits(effects, "publish", o) /\ effects[running].kind # "publish" => Waits(effects', "publish", o)
    BY <2>1, WaitsStays
  <2>6. Unsent(o)'
    <3>1. CASE effects[running].kind = "publish"
      <4>1. sent' = [sent EXCEPT ![o] = seen] /\ version' = version /\ seen = version[o]
        BY <1>6, <2>0, <3>1 DEF AnswerDone, SendsTheLast
      <4>2. ~ (sent'[o] < version'[o])
        BY <2>2, <2>4, <4>1
      <4>3. QED
        BY <4>2
    <3>2. CASE effects[running].kind = "money"
      BY <2>1, <3>2
    <3>3. CASE effects[running].kind # "publish" /\ effects[running].kind # "money"
      <4>1. sent' = sent /\ version' = version
        BY <1>6, <3>3 DEF AnswerDone
      <4>2. QED
        BY <1>0, <2>2, <2>5, <3>3, <4>1
    <3>4. QED
      BY <3>1, <3>2, <3>3
  <2>7. ASSUME NEW p \in Orders, p # o PROVE Unsent(p)'
    <3>1. /\ version' = version \/ version' = [version EXCEPT ![o] = @ + 1]
          /\ sent' = sent \/ sent' = [sent EXCEPT ![o] = seen]
      BY <1>6, <2>0 DEF AnswerDone
    <3>2. sent'[p] = sent[p] /\ version'[p] = version[p]
      BY <2>2, <2>4, <2>7, <3>1
    <3>3. Waits(effects, "publish", p) => Waits(effects', "publish", p)
      BY <2>0, <2>1, <2>7, WaitsStays
    <3>4. QED
      BY <1>0, <3>2, <3>3
  <2>8. \A p \in Orders : Unsent(p)'
    BY <2>6, <2>7
  <2>9. QED
    BY <1>0, <2>3, <2>8 DEF SendsTheLast
<1>7. CASE Retry \/ Kill
  <2>1. running \in DOMAIN effects /\ IsTable(effects) /\ effects[running].status = "pending"
    BY <1>7, RunningWaits DEF Retry, Kill, TypeOK
  <2>2. CASE Retry
    <3>1. InPlace(Retried(running)) /\ Write(Retried(running))
          /\ \A i \in DOMAIN effects : Retried(running)[i].status = effects[i].status
      BY <2>1, <2>2, RetriedInPlace DEF Retry
    <3>2. effects' = Retried(running) /\ DOMAIN effects' = DOMAIN effects
      BY <3>1, WriteInPlace
    <3>3. \A o \in Orders : Waits(effects, "publish", o) => Waits(effects', "publish", o)
      BY <3>1, <3>2, WaitsStays DEF InPlace
    <3>4. UNCHANGED <<sent, version>> /\ running' = None
      BY <2>2 DEF Retry, Return
    <3>5. QED
      BY <1>0, <3>3, <3>4 DEF SendsTheLast
  <2>3. CASE Kill
    <3>1. InPlace(finish(running, "dead")) /\ Write(finish(running, "dead"))
          /\ \A i \in DOMAIN effects : i # running => finish(running, "dead")[i] = effects[i]
      BY <2>1, <2>3, FinishInPlace DEF Kill
    <3>2. effects' = finish(running, "dead") /\ DOMAIN effects' = DOMAIN effects
      BY <3>1, WriteInPlace
    <3>3. effects[running].kind # "publish"
      BY <2>3 DEF Kill
    <3>4. \A o \in Orders : Waits(effects, "publish", o) => Waits(effects', "publish", o)
      BY <3>1, <3>2, <3>3, WaitsStays
    <3>5. UNCHANGED <<sent, version>> /\ running' = None
      BY <2>3 DEF Kill, Return
    <3>6. QED
      BY <1>0, <3>4, <3>5 DEF SendsTheLast
  <2>4. QED
    BY <1>7, <2>2, <2>3
<1>8. CASE Pass
  <2>1. IsTable(effects)
    BY DEF TypeOK
  <2>2. InPlace(Nearer) /\ Write(Nearer)
        /\ \A i \in DOMAIN effects : Nearer[i].status = effects[i].status
    BY <1>8, <2>1, NearerInPlace DEF Pass
  <2>3. effects' = Nearer /\ DOMAIN effects' = DOMAIN effects
    BY <2>2, WriteInPlace
  <2>4. \A o \in Orders : Waits(effects, "publish", o) => Waits(effects', "publish", o)
    BY <2>2, <2>3, WaitsStays DEF InPlace
  <2>5. UNCHANGED <<sent, version, running, seen>>
    BY <1>8 DEF Pass, tick
  <2>6. SendsTheLast'
    <3>1. running # None => running \in DOMAIN effects
      BY RunningWaits
    <3>2. QED
      BY <2>2, <2>3, <2>5, <3>1 DEF SendsTheLast, InPlace
  <2>7. QED
    BY <1>0, <2>4, <2>5, <2>6
<1>9. QED
  BY <1>1, <1>2, <1>3, <1>4, <1>5, <1>6, <1>7, <1>8 DEF Next, Loop, Outcome

-----------------------------------------------------------------------------
\* A row that stands is stuck after a step only if it was before.
LEMMA StuckStays ==
  ASSUME NEW i \in DOMAIN effects, effects'[i] = effects[i], i \in Stuck'
  PROVE  i \in Stuck
  BY DEF Stuck, PendingIds

\* Every step keeps the operator informed of what is about to be tried again.
LEMMA HeardStep ==
  ASSUME TypeOK, StuckAreHeard, [Next]_vars
  PROVE  StuckAreHeard'
<1>0. TypeOK' /\ None \notin Stuck'
  <2>1. TypeOK'
    BY TypeStep
  <2>2. (DOMAIN effects)' \subseteq Ids /\ None \notin Ids
    <3>1. IsTable(effects')
      BY <2>1 DEF TypeOK, IsTable
    <3>2. QED
      BY <3>1, TableIds DEF None, Ids
  <2>3. QED
    BY <2>1, <2>2 DEF Stuck, PendingIds
<1>1. CASE BeginTick \/ EndTick \/ Crash
  BY <1>1 DEF BeginTick, EndTick, Crash, StuckAreHeard
<1>2. CASE \E o \in Orders, ks \in SUBSET (Kinds \ {"publish"}) : Judge(o, ks)
  BY <1>2 DEF Judge, StuckAreHeard, tick
<1>3. CASE \E i \in Ids : expedite(i)
  BY <1>3 DEF expedite, StuckAreHeard, tick
<1>4. CASE raiseStuckEffects
  BY <1>4, TableStands DEF raiseStuckEffects, StuckAreHeard
<1>5. CASE runDue
  BY <1>5, TableStands DEF runDue, StuckAreHeard, table
<1>6. CASE runOne
  BY <1>6, TableStands DEF runOne, StuckAreHeard, table
<1>7. CASE Act
  BY <1>7, TableStands DEF Act, StuckAreHeard, tick
<1>8. CASE AnswerDone \/ Retry \/ Kill
  <2>1. /\ running \in DOMAIN effects /\ running \notin batch /\ stage = "run" /\ IsTable(effects)
        /\ batch \subseteq DOMAIN effects
    BY <1>8, RunningWaits DEF AnswerDone, Retry, Kill, TypeOK, Due, DueIn
  <2>2. \A i \in DOMAIN effects : i # running => effects'[i] = effects[i]
    <3>1. CASE AnswerDone
      BY <3>1, AnswerWrites
    <3>2. CASE Retry
      BY <2>1, <3>2, RetriedInPlace DEF Retry, Write
    <3>3. CASE Kill
      BY <2>1, <3>3, FinishInPlace DEF Kill, Write
    <3>4. QED
      BY <1>8, <3>1, <3>2, <3>3
  <2>3. running' = None /\ batch' = batch /\ stage' = stage /\ alarmed' = alarmed
    BY <1>8 DEF AnswerDone, Retry, Kill, Return
  <2>4. \A i \in batch : i \in Stuck' => i \in Stuck
    BY <2>1, <2>2, StuckStays
  <2>5. QED
    BY <1>0, <2>1, <2>3, <2>4 DEF StuckAreHeard
<1>9. CASE Pass
  <2>1. IsTable(effects)
    BY DEF TypeOK
  <2>2. effects' = Nearer /\ DOMAIN effects' = DOMAIN effects /\ InPlace(Nearer)
        /\ \A i \in DOMAIN effects : effects'[i].status = effects[i].status
                                      /\ effects'[i].attempts = effects[i].attempts
    BY <1>9, <2>1, NearerInPlace, WriteInPlace DEF Pass
  <2>3. Stuck' = Stuck
    BY <2>2 DEF Stuck, PendingIds, InPlace
  <2>4. QED
    BY <1>9, <2>3 DEF Pass, StuckAreHeard, tick
<1>10. CASE UNCHANGED vars
  BY <1>10, TableStands DEF vars, table, tick, StuckAreHeard
<1>11. QED
  BY <1>1, <1>2, <1>3, <1>4, <1>5, <1>6, <1>7, <1>8, <1>9, <1>10 DEF Next, Loop, Outcome

\* The alarm comes before the attempt: the effect in hand is one of those that were heard.
LEMMA HeardInHand == TypeOK /\ StuckAreHeard => NobodyFailsUnheard
  BY RunningWaits DEF NobodyFailsUnheard, StuckAreHeard, Stuck, PendingIds

-----------------------------------------------------------------------------
\* Apart from an act, an answer and a surrender, a step finishes nothing and adds rows
\* that wait at most.
LEMMA QuietStep ==
  ASSUME TypeOK, [Next]_vars, ~Act, ~AnswerDone, ~Kill
  PROVE  /\ DOMAIN effects \subseteq DOMAIN effects' /\ UNCHANGED <<acted, follow>>
         /\ \A i \in DOMAIN effects : effects'[i].status = effects[i].status
         /\ \A i \in DOMAIN effects' \ DOMAIN effects : effects'[i].status = "pending" /\ i \in Ids
<1>0. IsTable(effects)
  BY DEF TypeOK
<1>1. CASE UNCHANGED table
  BY <1>1 DEF table
<1>2. CASE \E o \in Orders, ks \in SUBSET (Kinds \ {"publish"}) : Judge(o, ks)
  <2>1. UNCHANGED <<acted, follow>>
    BY <1>2 DEF Judge
  <2>2. QED
    BY <1>2, <2>1, JudgeWrites
<1>3. CASE \E i \in Ids : expedite(i)
  <2>1. PICK i \in DOMAIN effects : expedite(i)
    BY <1>3 DEF expedite, Pending
  <2>2. InPlace([effects EXCEPT ![i].wait = 0])
        /\ \A j \in DOMAIN effects : [effects EXCEPT ![i].wait = 0][j].status = effects[j].status
    BY <1>0, <2>1, ExpediteInPlace
  <2>3. effects' = [effects EXCEPT ![i].wait = 0] /\ DOMAIN effects' = DOMAIN effects
    BY <2>1, <2>2, WriteInPlace DEF expedite
  <2>4. QED
    BY <2>1, <2>2, <2>3 DEF expedite
<1>4. CASE raiseStuckEffects
  BY <1>4 DEF raiseStuckEffects
<1>5. CASE Retry
  <2>1. running \in DOMAIN effects
    BY <1>5, RunningWaits DEF Retry
  <2>2. InPlace(Retried(running))
        /\ \A i \in DOMAIN effects : Retried(running)[i].status = effects[i].status
    BY <1>0, <2>1, RetriedInPlace
  <2>3. effects' = Retried(running) /\ DOMAIN effects' = DOMAIN effects
    BY <1>5, <2>2, WriteInPlace DEF Retry
  <2>4. QED
    BY <1>5, <2>2, <2>3 DEF Retry
<1>6. CASE Pass
  <2>1. effects' = Nearer /\ DOMAIN effects' = DOMAIN effects
        /\ \A i \in DOMAIN effects : Nearer[i].status = effects[i].status
    BY <1>0, <1>6, NearerInPlace, WriteInPlace DEF Pass
  <2>2. QED
    BY <1>6, <2>1 DEF Pass
<1>7. CASE BeginTick \/ runDue \/ runOne \/ EndTick \/ Crash \/ UNCHANGED vars
  BY <1>1, <1>7 DEF BeginTick, runDue, runOne, EndTick, Crash, vars
<1>8. QED
  BY <1>2, <1>3, <1>4, <1>5, <1>6, <1>7 DEF Next, Loop, Outcome

\* Every step keeps the count of the transitions that presume success.
LEMMA MadeStep ==
  ASSUME TypeOK, MadeOnce, [Next]_vars
  PROVE  MadeOnce'
<1>0. follow \in [Ids -> Nat] /\ IsTable(effects) /\ DOMAIN effects \subseteq Ids
  BY TableIds DEF TypeOK
<1>1. CASE ~Act /\ ~AnswerDone /\ ~Kill
  <2>1. /\ DOMAIN effects \subseteq DOMAIN effects' /\ follow' = follow
        /\ \A i \in DOMAIN effects : effects'[i].status = effects[i].status
        /\ \A i \in DOMAIN effects' \ DOMAIN effects : effects'[i].status = "pending"
    BY <1>1, QuietStep
  <2>2. QED
    BY <2>1 DEF MadeOnce
<1>2. CASE Act
  BY <1>2 DEF Act, MadeOnce
<1>3. CASE AnswerDone
  <2>1. /\ DOMAIN effects \subseteq DOMAIN effects' /\ effects'[running].status = "done"
        /\ \A i \in DOMAIN effects : i # running => effects'[i] = effects[i]
        /\ \A i \in DOMAIN effects' \ DOMAIN effects : effects'[i].status = "pending"
    BY <1>3, AnswerWrites
  <2>2. /\ running \in DOMAIN effects /\ running \in Ids /\ effects[running].status = "pending"
    BY <1>3, RunningWaits DEF AnswerDone
  <2>3. follow' = [follow EXCEPT ![running] = @ + 1]
    BY <1>3 DEF AnswerDone
  <2>4. follow[running] = 0
    BY <2>2 DEF MadeOnce
  <2>5. QED
    BY <1>0, <2>1, <2>2, <2>3, <2>4 DEF MadeOnce
<1>4. CASE Kill
  <2>1. /\ running \in DOMAIN effects /\ effects[running].status = "pending"
    BY <1>4, RunningWaits DEF Kill
  <2>2. /\ InPlace(finish(running, "dead")) /\ finish(running, "dead")[running].status = "dead"
        /\ \A i \in DOMAIN effects : i # running => finish(running, "dead")[i] = effects[i]
    BY <1>0, <2>1, FinishInPlace
  <2>3. effects' = finish(running, "dead") /\ DOMAIN effects' = DOMAIN effects /\ follow' = follow
    BY <1>4, <2>2, WriteInPlace DEF Kill
  <2>4. QED
    BY <2>1, <2>2, <2>3 DEF MadeOnce
<1>5. QED
  BY <1>1, <1>2, <1>3, <1>4

-----------------------------------------------------------------------------
\* Nothing is asked for, sent or stuck in the initial state.
LEMMA InitInv == Init => IInv
<1> SUFFICES ASSUME Init PROVE IInv
  OBVIOUS
<1>1. TypeOK /\ DOMAIN effects = {} /\ running = None
  BY TypeInit, EmptySeq DEF Init
<1>2. NoChangeUnsent
  BY DEF Init, NoChangeUnsent
<1>3. SendsTheLast /\ NobodyFailsUnheard
  BY <1>1 DEF SendsTheLast, NobodyFailsUnheard
<1>4. StuckAreHeard
  BY DEF Init, StuckAreHeard
<1>5. MadeOnce
  BY <1>1 DEF Init, MadeOnce
<1>6. QED
  BY <1>1, <1>2, <1>3, <1>4, <1>5 DEF IInv

\* The invariant is inductive.
LEMMA NextInv == IInv /\ [Next]_vars => IInv'
<1> SUFFICES ASSUME IInv, [Next]_vars PROVE IInv'
  OBVIOUS
<1>1. TypeOK'
  BY TypeStep DEF IInv
<1>2. NoChangeUnsent' /\ SendsTheLast'
  BY SentStep DEF IInv
<1>3. StuckAreHeard'
  BY HeardStep DEF IInv
<1>4. NobodyFailsUnheard'
  BY <1>1, <1>3, HeardInHand, PTL
<1>5. MadeOnce'
  BY MadeStep DEF IInv
<1>6. QED
  BY <1>1, <1>2, <1>3, <1>4, <1>5 DEF IInv

LEMMA Inductive == Spec => []IInv
  BY InitInv, NextInv, PTL DEF Spec

\* The table keeps its shape and its dedup index, and what runDue and the tick hold is
\* due and waits (effects.ts, migrations.ts, runtime.ts).
THEOREM TypeCorrect == Spec => []TypeOK
  BY Inductive, PTL DEF IInv

\* Coalescing loses no change: while the last change of an order has not been noted as
\* sent, an effect waits that will send it (effects.ts enqueue, ln/store.ts updateOrder).
THEOREM ChangeKeepsAnEffect == Spec => []NoChangeUnsent
  BY Inductive, PTL DEF IInv

\* After StuckAttempts failures a watched effect is not tried again before an operator
\* has been called (stuck.ts, the order of the stages in runtime.ts).
THEOREM OperatorHearsFirst == Spec => []NobodyFailsUnheard
  BY Inductive, PTL DEF IInv

\* A transition that presumes an effect's success is committed once, with the record of
\* that success (effects.ts runDue, the transaction around onDone).
THEOREM TransitionOnce == Spec => []MadeOnce
  BY Inductive, PTL DEF IInv

-----------------------------------------------------------------------------
\* The states of a row, as the promise sees them.
DoneIds == {i \in DOMAIN effects : effects[i].status = "done"}
DeadIds == {i \in DOMAIN effects : effects[i].status = "dead"}

\* Every row waits, is done or is dead, and is only one of them.
LEMMA StatesOfRows ==
  ASSUME IsTable(effects)
  PROVE  /\ DOMAIN effects = PendingIds \cup DoneIds \cup DeadIds
         /\ DOMAIN effects \subseteq Ids
<1>1. \A i \in DOMAIN effects : effects[i].status \in {"pending", "done", "dead"}
  BY TableIds DEF Effect
<1>2. QED
  BY <1>1, TableIds DEF PendingIds, DoneIds, DeadIds

\* An empty queue owes nothing.
LEMMA PromiseInit == Init => Promise!Init
<1> SUFFICES ASSUME Init PROVE Promise!Init
  OBVIOUS
<1>1. DOMAIN effects = {}
  BY EmptySeq DEF Init
<1>2. PendingIds = {} /\ DoneIds = {} /\ DeadIds = {}
  BY <1>1 DEF PendingIds, DoneIds, DeadIds
<1>3. QED
  BY <1>2 DEF Init, Promise!Init, DoneIds, DeadIds

\* Every step of the queue is a step of the promise: asking, acting, recording, giving
\* up, and for the rest asking for nothing.
LEMMA PromiseStep ==
  ASSUME TypeOK, [Next]_vars
  PROVE  [Promise!Next]_(Promise!promiseVars)
<1>0. /\ IsTable(effects) /\ DOMAIN effects = PendingIds \cup DoneIds \cup DeadIds
  BY StatesOfRows DEF TypeOK
<1>1. CASE ~Act /\ ~AnswerDone /\ ~Kill
  <2> DEFINE new == DOMAIN effects' \ DOMAIN effects
  <2>1. /\ DOMAIN effects \subseteq DOMAIN effects' /\ UNCHANGED <<acted, follow>>
        /\ \A i \in DOMAIN effects : effects'[i].status = effects[i].status
        /\ \A i \in new : effects'[i].status = "pending" /\ i \in Ids
    BY <1>1, QuietStep
  <2>2. /\ PendingIds' = PendingIds \cup new /\ DoneIds' = DoneIds /\ DeadIds' = DeadIds
        /\ new \in SUBSET (Ids \ (PendingIds \cup DoneIds \cup DeadIds))
    BY <1>0, <2>1 DEF PendingIds, DoneIds, DeadIds
  <2>3. Promise!Ask
    BY <2>1, <2>2 DEF Promise!Ask, DoneIds, DeadIds
  <2>4. QED
    BY <2>3 DEF Promise!Next
<1>2. CASE Act
  <2>1. running \in PendingIds /\ running \in Ids
    BY <1>2, RunningWaits DEF Act, PendingIds
  <2>2. /\ PendingIds' = PendingIds /\ DoneIds' = DoneIds /\ DeadIds' = DeadIds
    BY <1>2 DEF Act, PendingIds, DoneIds, DeadIds
  <2>3. PICK r \in Ids : r = running
    BY <2>1
  <2>4. Promise!Act(r)
    BY <1>2, <2>1, <2>2, <2>3 DEF Act, Promise!Act, DoneIds, DeadIds
  <2>5. QED
    BY <2>4 DEF Promise!Next
<1>3. CASE AnswerDone
  <2> DEFINE new == DOMAIN effects' \ DOMAIN effects
  <2>1. /\ DOMAIN effects \subseteq DOMAIN effects' /\ effects'[running].status = "done"
        /\ \A i \in DOMAIN effects : i # running => effects'[i] = effects[i]
        /\ \A i \in new : effects'[i].status = "pending" /\ i \in Ids
    BY <1>3, AnswerWrites
  <2>2. /\ running \in DOMAIN effects /\ running \in Ids /\ effects[running].status = "pending"
    BY <1>3, RunningWaits DEF AnswerDone
  <2>3. /\ PendingIds' = (PendingIds \ {running}) \cup new
        /\ DoneIds' = DoneIds \cup {running} /\ DeadIds' = DeadIds
        /\ new \in SUBSET (Ids \ (PendingIds \cup DoneIds \cup DeadIds))
    BY <1>0, <2>1, <2>2 DEF PendingIds, DoneIds, DeadIds
  <2>4. /\ follow' = [follow EXCEPT ![running] = @ + 1] /\ acted' = acted
        /\ running \in PendingIds \cap acted
    BY <1>3, <2>2 DEF AnswerDone, PendingIds
  <2>5. PICK r \in Ids : r = running
    BY <2>2
  <2>6. Promise!Record(r)
    BY <2>3, <2>4, <2>5 DEF Promise!Record, DoneIds, DeadIds
  <2>7. QED
    BY <2>6 DEF Promise!Next
<1>4. CASE Kill
  <2>1. /\ running \in DOMAIN effects /\ running \in Ids /\ effects[running].status = "pending"
    BY <1>4, RunningWaits DEF Kill
  <2>2. /\ InPlace(finish(running, "dead")) /\ finish(running, "dead")[running].status = "dead"
        /\ \A i \in DOMAIN effects : i # running => finish(running, "dead")[i] = effects[i]
    BY <1>0, <2>1, FinishInPlace
  <2>3. effects' = finish(running, "dead") /\ DOMAIN effects' = DOMAIN effects
    BY <1>4, <2>2, WriteInPlace DEF Kill
  <2>4. /\ PendingIds' = PendingIds \ {running} /\ DoneIds' = DoneIds
        /\ DeadIds' = DeadIds \cup {running} /\ running \in PendingIds
    BY <2>1, <2>2, <2>3 DEF PendingIds, DoneIds, DeadIds
  <2>5. PICK r \in Ids : r = running
    BY <2>1
  <2>6. Promise!GiveUp(r)
    BY <1>4, <2>4, <2>5 DEF Kill, Promise!GiveUp, DoneIds, DeadIds
  <2>7. QED
    BY <2>6 DEF Promise!Next
<1>5. QED
  BY <1>1, <1>2, <1>3, <1>4

\* The queue implements the promise: nothing is recorded as done that the outside world
\* did not do, and no transition is made twice or without it (effects.ts).
THEOREM QueueKeepsPromise == Spec => KeepsPromise
<1>1. TypeOK /\ [Next]_vars => [Promise!Next]_(Promise!promiseVars)
  BY PromiseStep
<1>2. QED
  BY <1>1, PromiseInit, TypeCorrect, PTL DEF Spec, KeepsPromise, Promise!Spec
=============================================================================
