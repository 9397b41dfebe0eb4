------------------------- MODULE HoldInvoiceProofs -------------------------
(***************************************************************************)
(* HoldInvoice, proved for any set of invoices.  The inductive invariant   *)
(* says what each invoice is worth (Sound) and what the thread may rely on *)
(* between its lookup, its call and its record (Thread): that the state it *)
(* saw has moved only in the ways open to the payer and the node.          *)
(***************************************************************************)
EXTENDS HoldInvoice, TLAPS

\* Only a published invoice is paid, and only a made one is published.
PaidIsPublished(h) == /\ node[h] = "accepted" => bolt11[h]
                      /\ bolt11[h] => row[h] \notin {"none", "creating"}
\* Before plan there is nothing.
UnplannedIsUntouched(h) ==
  row[h] = "none" => node[h] = "absent" /\ ~ creating[h] /\ disposing[h] = "none"
\* The row says nothing of the money that is not so, now or later.
BookIsTrue(h) == /\ row[h] = "cancelled" => node[h] \in {"absent", "cancelled"}
                 /\ row[h] = "settled" => node[h] = "settled"
\* A settle at the node is one the daemon asked for and has yet to record, or has recorded.
SettleIsOurs(h) == /\ node[h] = "settled" \/ disposing[h] = "settle" => settleAsked[h]
                   /\ node[h] = "settled" /\ row[h] # "settled" => disposing[h] = "settle"
                   /\ ~ alarm[h]
Sound(h) == PaidIsPublished(h) /\ UnplannedIsUntouched(h) /\ BookIsTrue(h) /\ SettleIsOurs(h)

\* What may have become of an invoice that was looked up in this state.
Since(saw) == {saw} \cup (IF saw = "open" THEN {"accepted", "cancelled"} ELSE {})
                    \cup (IF saw = "accepted" THEN {"cancelled"} ELSE {})

\* Between lookup and act the node has moved only as Since allows.
LookIsFresh == exec.op \in {"create", "dispose", "poll"} =>
  row[exec.h] # "none" /\ node[exec.h] \in Since(exec.saw)
\* What runs was queued, and what is polled can be paid.
ThreadHasCause == /\ exec.op = "poll" => row[exec.h] \in {"open", "accepted"}
                  /\ exec.op \in {"dispose", "disposeDone"} => disposing[exec.h] # "none"
\* What the node shows of an invoice that was disposed of with this result.
Became(h, final) == IF final = "settled" THEN node[h] = "settled"
                    ELSE node[h] \in {"absent", "cancelled"}
ResultIsTrue ==
  /\ exec.op \in {"createDone", "disposeDone"} => row[exec.h] # "none"
  /\ exec.op = "createDone" /\ exec.result = "tooLate" => node[exec.h] = "absent"
  /\ exec.op = "disposeDone" => Became(exec.h, exec.result)

Thread == LookIsFresh /\ ThreadHasCause /\ ResultIsTrue

IInv == TypeOK /\ (\A h \in Hold : Sound(h)) /\ Thread

\* What the thread holds, by the step it is at.
LEMMA ThreadFields ==
  ASSUME TypeOK, exec # Idle
  PROVE  /\ exec.h \in Hold
         /\ exec.op \in {"create", "dispose", "poll", "createDone", "disposeDone"}
         /\ exec.op \in {"create", "dispose", "poll"} => exec.saw \in NodeState \cup {"absent"}
         /\ exec.op = "createDone" => exec.result \in {"bolt11", "tooLate", "cleaned"}
         /\ exec.op = "disposeDone" => exec.result \in Final
  BY DEF TypeOK, Looked, Done

\* The idle thread is at none of the steps.
LEMMA IdleOp == Idle.op = "idle"
  BY DEF Idle

\* Nothing is planned at the start.
LEMMA InitInv == Init => IInv
<1> SUFFICES ASSUME Init PROVE IInv
  OBVIOUS
<1>1. TypeOK
  BY DEF Init, TypeOK
<1>2. \A h \in Hold : Sound(h)
  BY DEF Init, Sound, PaidIsPublished, UnplannedIsUntouched, BookIsTrue, SettleIsOurs
<1>3. Thread
  BY DEF Init, Thread, LookIsFresh, ThreadHasCause, ResultIsTrue, Idle
<1> QED
  BY <1>1, <1>2, <1>3 DEF IInv

\* plan writes a row of which the node knows nothing.
LEMMA PlanInv == ASSUME NEW h \in Hold, IInv, Plan(h) PROVE IInv'
<1>1. TypeOK'
  BY DEF Plan, IInv, TypeOK, RowStatus
<1>2. ASSUME NEW g \in Hold PROVE Sound(g)'
  BY DEF Plan, IInv, TypeOK, Sound, PaidIsPublished, UnplannedIsUntouched, BookIsTrue,
       SettleIsOurs
<1>3. Thread'
  BY DEF Plan, Thread, LookIsFresh, ThreadHasCause, ResultIsTrue, Idle
<1> QED
  BY <1>1, <1>2, <1>3 DEF IInv

\* dispose queues an action; a settle is then asked for.
LEMMA DisposeInv == ASSUME NEW h \in Hold, NEW a \in Actions, IInv, Dispose(h, a) PROVE IInv'
<1>1. TypeOK'
  BY DEF Dispose, IInv, TypeOK
<1>2. ASSUME NEW g \in Hold PROVE Sound(g)'
  BY DEF Dispose, IInv, TypeOK, Sound, PaidIsPublished, UnplannedIsUntouched, BookIsTrue,
       SettleIsOurs, Actions
<1>3. Thread'
  BY DEF Dispose, Thread, LookIsFresh, ThreadHasCause, ResultIsTrue, Idle
<1> QED
  BY <1>1, <1>2, <1>3 DEF IInv

\* A lookup, whatever for.
LEMMA LookupInv ==
  ASSUME NEW h \in Hold, NEW op \in {"create", "dispose", "poll"}, IInv,
         exec' = [op |-> op, h |-> h, saw |-> node[h]],
         op = "create" => creating[h], op = "dispose" => disposing[h] # "none",
         op = "poll" => row[h] \in {"open", "accepted"},
         UNCHANGED <<row, bolt11, creating, disposing, node, settleAsked, alarm>>
  PROVE  IInv'
<1>1. TypeOK'
  BY DEF IInv, TypeOK, Looked
<1>2. ASSUME NEW g \in Hold PROVE Sound(g)'
  BY DEF IInv, Sound, PaidIsPublished, UnplannedIsUntouched, BookIsTrue, SettleIsOurs
<1>3. row[h] # "none" /\ node[h] \in NodeState \cup {"absent"}
  BY DEF IInv, TypeOK, Sound, UnplannedIsUntouched
<1>4. Thread'
  BY <1>3 DEF Thread, LookIsFresh, ThreadHasCause, ResultIsTrue, Since, NodeState
<1> QED
  BY <1>1, <1>2, <1>4 DEF IInv

\* A thread that remembers nothing relies on nothing.
LEMMA IdleThread == exec' = Idle => Thread'
  BY DEF Thread, LookIsFresh, ThreadHasCause, ResultIsTrue, Idle

\* The create executor: sweep, adopt, give up, or make the invoice.
LEMMA CreateActInv == ASSUME NEW h \in Hold, IInv, CreateAct(h) PROVE IInv'
<1>1. /\ exec # Idle /\ exec.op = "create" /\ exec.h = h /\ row[h] # "none"
      /\ exec.saw \in NodeState \cup {"absent"} /\ node[h] \in Since(exec.saw)
      /\ UNCHANGED <<row, bolt11, creating, disposing, settleAsked, alarm>>
      /\ TypeOK /\ Sound(h)
  BY ThreadFields, IdleOp DEF CreateAct, IInv, Thread, LookIsFresh
<1>2. CASE CreateCleanup(h) /\ exec.saw \in {"open", "accepted"}
  <2>1. node[h] \in {"open", "accepted", "cancelled"}
    BY <1>1, <1>2 DEF Since
  <2>2. /\ node' = [node EXCEPT ![h] = "cancelled"]
        /\ exec' = [op |-> "createDone", h |-> h, result |-> "cleaned"]
    BY <1>2, <2>1 DEF CreateCleanup, Cancelled, IInv, TypeOK
  <2>3. TypeOK'
    BY <1>1, <2>2 DEF TypeOK, NodeState, Done
  <2>4. ASSUME NEW g \in Hold PROVE Sound(g)'
    BY <1>1, <2>1, <2>2 DEF IInv, TypeOK, Sound, PaidIsPublished, UnplannedIsUntouched,
         BookIsTrue, SettleIsOurs
  <2>5. Thread'
    BY <1>1, <2>2 DEF Thread, LookIsFresh, ThreadHasCause, ResultIsTrue
  <2> QED
    BY <2>3, <2>4, <2>5 DEF IInv
<1>3. CASE CreateAdd(h)
  <2>1. node[h] = "absent" /\ row[h] = "creating"
    BY <1>1, <1>3 DEF Since, CreateAdd, StillPlanned
  <2>2. /\ node' = [node EXCEPT ![h] = "open"]
        /\ exec' = [op |-> "createDone", h |-> h, result |-> "bolt11"]
    BY <1>3 DEF CreateAdd
  <2>3. TypeOK'
    BY <1>1, <2>2 DEF TypeOK, NodeState, Done
  <2>4. ASSUME NEW g \in Hold PROVE Sound(g)'
    BY <1>1, <2>1, <2>2 DEF IInv, TypeOK, Sound, PaidIsPublished, UnplannedIsUntouched,
         BookIsTrue, SettleIsOurs
  <2>5. Thread'
    BY <1>1, <2>2 DEF Thread, LookIsFresh, ThreadHasCause, ResultIsTrue
  <2> QED
    BY <2>3, <2>4, <2>5 DEF IInv
<1>4. CASE node' = node
  <2>1. PICK r \in {"bolt11", "tooLate", "cleaned"} :
           exec' = [op |-> "createDone", h |-> h,
           result |-> r] /\ (r = "tooLate" => exec.saw = "absent")
    BY <1>4 DEF CreateAct, CreateCleanup, CreateAdopt, CreateTooLate, CreateAdd
  <2>3. TypeOK'
    BY <1>1, <1>4, <2>1 DEF TypeOK, Done
  <2>4. ASSUME NEW g \in Hold PROVE Sound(g)'
    BY <1>1, <1>4 DEF IInv, Sound, PaidIsPublished, UnplannedIsUntouched, BookIsTrue,
         SettleIsOurs
  <2>5. Thread'
    BY <1>1, <1>4, <2>1 DEF Thread, LookIsFresh, ThreadHasCause, ResultIsTrue, Since
  <2> QED
    BY <2>3, <2>4, <2>5 DEF IInv
<1> QED
  BY <1>2, <1>3, <1>4 DEF CreateAct, CreateCleanup, CreateAdopt, CreateTooLate

\* onDone of the create executor; the row may have been cancelled meanwhile.
LEMMA CreateRecordInv == ASSUME NEW h \in Hold, IInv, CreateRecord(h) PROVE IInv'
<1>1. /\ exec # Idle /\ exec.op = "createDone" /\ exec.h = h /\ row[h] # "none"
      /\ exec.result = "tooLate" => node[h] = "absent"
      /\ exec' = Idle /\ creating' = [creating EXCEPT ![h] = FALSE]
      /\ UNCHANGED <<disposing, node, settleAsked, alarm>>
      /\ TypeOK /\ Sound(h)
  BY IdleOp DEF CreateRecord, IInv, Thread, ResultIsTrue
<1>2. Thread'
  BY <1>1, IdleThread
<1>3. CASE ~ StillPlanned(h)
  <2>1. UNCHANGED <<row, bolt11>>
    BY <1>3 DEF CreateRecord
  <2>2. TypeOK'
    BY <1>1, <2>1 DEF TypeOK
  <2>3. ASSUME NEW g \in Hold PROVE Sound(g)'
    BY <1>1, <2>1 DEF IInv, TypeOK, Sound, PaidIsPublished, UnplannedIsUntouched,
         BookIsTrue, SettleIsOurs
  <2> QED
    BY <1>2, <2>2, <2>3 DEF IInv
<1>4. CASE StillPlanned(h) /\ exec.result = "tooLate"
  <2>1. row' = [row EXCEPT ![h] = "cancelled"] /\ UNCHANGED bolt11 /\ row[h] = "creating"
    BY <1>4 DEF CreateRecord, StillPlanned
  <2>2. TypeOK'
    BY <1>1, <2>1 DEF TypeOK, RowStatus
  <2>3. ASSUME NEW g \in Hold PROVE Sound(g)'
    BY <1>1, <1>4, <2>1 DEF IInv, TypeOK, Sound, PaidIsPublished, UnplannedIsUntouched,
         BookIsTrue, SettleIsOurs
  <2> QED
    BY <1>2, <2>2, <2>3 DEF IInv
<1>5. CASE StillPlanned(h) /\ exec.result = "bolt11"
  <2>1. /\ row' = [row EXCEPT ![h] = "open"] /\ row[h] = "creating"
        /\ bolt11' = [bolt11 EXCEPT ![h] = TRUE]
    BY <1>5 DEF CreateRecord, StillPlanned
  <2>2. TypeOK'
    BY <1>1, <2>1 DEF TypeOK, RowStatus
  <2>3. ASSUME NEW g \in Hold PROVE Sound(g)'
    BY <1>1, <2>1 DEF IInv, TypeOK, Sound, PaidIsPublished, UnplannedIsUntouched,
         BookIsTrue, SettleIsOurs
  <2> QED
    BY <1>2, <2>2, <2>3 DEF IInv
<1> QED
  BY <1>3, <1>4, <1>5 DEF CreateRecord

\* settleOrCancel, with the payer and the node moving after the lookup.
LEMMA DisposeActInv == ASSUME NEW h \in Hold, IInv, DisposeAct(h) PROVE IInv'
<1>1. /\ exec # Idle /\ exec.op = "dispose" /\ exec.h = h
      /\ row[h] # "none" /\ disposing[h] # "none"
      /\ exec.saw \in NodeState \cup {"absent"} /\ node[h] \in Since(exec.saw)
      /\ UNCHANGED <<row, bolt11, creating, disposing, settleAsked, alarm>>
      /\ TypeOK /\ Sound(h)
  BY ThreadFields, IdleOp DEF DisposeAct, IInv, Thread, LookIsFresh, ThreadHasCause
<1>2. CASE DisposeNothing(h)
  <2>1. PICK r \in Final : /\ exec' = [op |-> "disposeDone", h |-> h, result |-> r]
                           /\ UNCHANGED node
                           /\ Became(h, r)
    BY <1>1, <1>2 DEF DisposeNothing, Final, Since, Became
  <2>2. TypeOK'
    BY <1>1, <2>1 DEF TypeOK, Done
  <2>3. ASSUME NEW g \in Hold PROVE Sound(g)'
    BY <1>1, <2>1 DEF IInv, Sound, PaidIsPublished, UnplannedIsUntouched, BookIsTrue,
         SettleIsOurs
  <2>4. Thread'
    BY <1>1, <2>1 DEF Thread, LookIsFresh, ThreadHasCause, ResultIsTrue, Became
  <2> QED
    BY <2>2, <2>3, <2>4 DEF IInv
<1>3. CASE DisposeSettle(h)
  <2>1. /\ exec' = [op |-> "disposeDone", h |-> h, result |-> "settled"]
        /\ node' = [node EXCEPT ![h] = "settled"] /\ node[h] = "accepted" /\ disposing[h] = "settle"
    BY <1>3 DEF DisposeSettle
  <2>2. TypeOK'
    BY <1>1, <2>1 DEF TypeOK, Done, Final, NodeState
  <2>3. ASSUME NEW g \in Hold PROVE Sound(g)'
    BY <1>1, <2>1 DEF IInv, TypeOK, Sound, PaidIsPublished, UnplannedIsUntouched,
         BookIsTrue, SettleIsOurs
  <2>4. Thread'
    BY <1>1, <2>1 DEF TypeOK, Thread, LookIsFresh, ThreadHasCause, ResultIsTrue, Became
  <2> QED
    BY <2>2, <2>3, <2>4 DEF IInv
<1>4. CASE DisposeCancel(h)
  <2>1. /\ exec' = [op |-> "disposeDone", h |-> h, result |-> "cancelled"]
        /\ node' = [node EXCEPT ![h] = "cancelled"]
        /\ node[h] \in {"open", "accepted", "cancelled"}
    BY <1>1, <1>4 DEF DisposeCancel, Cancelled, Since, TypeOK
  <2>2. TypeOK'
    BY <1>1, <2>1 DEF TypeOK, Done, Final, NodeState
  <2>3. ASSUME NEW g \in Hold PROVE Sound(g)'
    BY <1>1, <2>1 DEF IInv, TypeOK, Sound, PaidIsPublished, UnplannedIsUntouched,
         BookIsTrue, SettleIsOurs
  <2>4. Thread'
    BY <1>1, <2>1 DEF TypeOK, Thread, LookIsFresh, ThreadHasCause, ResultIsTrue, Became
  <2> QED
    BY <2>2, <2>3, <2>4 DEF IInv
<1>5. CASE SettleRefused(h)
  <2>1. exec' = Idle /\ UNCHANGED node
    BY <1>5 DEF SettleRefused
  <2>2. TypeOK'
    BY <1>1, <2>1 DEF TypeOK
  <2>3. ASSUME NEW g \in Hold PROVE Sound(g)'
    BY <1>1, <2>1 DEF IInv, Sound, PaidIsPublished, UnplannedIsUntouched, BookIsTrue,
         SettleIsOurs
  <2> QED
    BY <2>1, <2>2, <2>3, IdleThread DEF IInv
<1> QED
  BY <1>2, <1>3, <1>4, <1>5 DEF DisposeAct

\* recordDisposal writes what the node has done.
LEMMA DisposeRecordInv == ASSUME NEW h \in Hold, IInv, DisposeRecord(h) PROVE IInv'
<1>1. /\ exec # Idle /\ exec.op = "disposeDone" /\ exec.h = h /\ row[h] # "none"
      /\ exec.result \in Final
      /\ Became(h, exec.result)
      /\ exec' = Idle /\ disposing' = [disposing EXCEPT ![h] = "none"]
      /\ row' = [row EXCEPT ![h] = exec.result]
      /\ UNCHANGED <<bolt11, creating, node, settleAsked, alarm>>
      /\ TypeOK /\ Sound(h)
  BY ThreadFields, IdleOp DEF DisposeRecord, IInv, Thread, ResultIsTrue
<1>2. TypeOK'
  BY <1>1 DEF TypeOK, Final, RowStatus
<1>3. ASSUME NEW g \in Hold PROVE Sound(g)'
  BY <1>1 DEF IInv, TypeOK, Final, Sound, PaidIsPublished, UnplannedIsUntouched,
       BookIsTrue, SettleIsOurs, Became
<1> QED
  BY <1>1, <1>2, <1>3, IdleThread DEF IInv

\* observe writes what the node shows, and never sees a settle that is not ours.
LEMMA ObserveInv == ASSUME NEW h \in Hold, IInv, Observe(h) PROVE IInv'
<1>1. /\ exec # Idle /\ exec.op = "poll" /\ exec.h = h /\ row[h] \in {"open", "accepted"}
      /\ exec.saw \in NodeState \cup {"absent"} /\ node[h] \in Since(exec.saw)
      /\ exec' = Idle
      /\ UNCHANGED <<bolt11, creating, disposing, node, settleAsked>>
      /\ TypeOK /\ Sound(h)
  BY ThreadFields, IdleOp DEF Observe, IInv, Thread, LookIsFresh, ThreadHasCause
<1>2. UNCHANGED alarm
  BY <1>1 DEF Observe, Since, Sound, SettleIsOurs, PollDefers
<1>3. PICK s \in RowStatus : /\ row' = [row EXCEPT ![h] = s]
                             /\ s = row[h] \/ s \in {"accepted", "cancelled"}
                             /\ s = "cancelled" => node[h] = "cancelled"
  <2>1. CASE UNCHANGED row
    BY <1>1, <2>1 DEF TypeOK, RowStatus
  <2>2. CASE row' = [row EXCEPT ![h] = "accepted"]
    BY <2>2 DEF RowStatus
  <2>3. CASE row' = [row EXCEPT ![h] = "cancelled"] /\ exec.saw = "cancelled"
    BY <1>1, <2>3 DEF RowStatus, Since
  <2>4. CASE exec.saw = "settled" /\ ~ PollDefers(h)
    BY <1>1, <2>4 DEF Since, Sound, SettleIsOurs, PollDefers
  <2> QED
    BY <2>1, <2>2, <2>3, <2>4 DEF Observe
<1>4. TypeOK'
  BY <1>1, <1>2, <1>3 DEF TypeOK
<1>5. ASSUME NEW g \in Hold PROVE Sound(g)'
  BY <1>1, <1>2, <1>3 DEF IInv, TypeOK, Sound, PaidIsPublished, UnplannedIsUntouched,
       BookIsTrue, SettleIsOurs
<1> QED
  BY <1>1, <1>4, <1>5, IdleThread DEF IInv

\* A call that throws, or a crash, forgets the thread only.
LEMMA InterruptInv == IInv /\ Interrupt => IInv'
<1> SUFFICES ASSUME IInv, Interrupt PROVE IInv'
  OBVIOUS
<1>1. TypeOK'
  BY DEF Interrupt, IInv, TypeOK
<1>2. ASSUME NEW g \in Hold PROVE Sound(g)'
  BY DEF Interrupt, IInv, Sound, PaidIsPublished, UnplannedIsUntouched, BookIsTrue,
       SettleIsOurs
<1> QED
  BY <1>1, <1>2, IdleThread DEF Interrupt, IInv

\* The payer pays, the node gives up.
LEMMA WorldInv ==
  ASSUME NEW h \in Hold, IInv, PayerPays(h) \/ NodeGivesUp(h) PROVE IInv'
<1>1. PICK s \in {"accepted", "cancelled"} :
        /\ node' = [node EXCEPT ![h] = s]
        /\ node[h] \in {"open", "accepted"}
        /\ s = "accepted" => node[h] = "open" /\ bolt11[h]
  BY DEF PayerPays, NodeGivesUp
<1>2. UNCHANGED <<row, bolt11, creating, disposing, exec, settleAsked, alarm>> /\ TypeOK /\ Sound(h)
  BY DEF PayerPays, NodeGivesUp, IInv
<1>3. TypeOK'
  BY <1>1, <1>2 DEF TypeOK, NodeState
<1>4. ASSUME NEW g \in Hold PROVE Sound(g)'
  BY <1>1, <1>2 DEF IInv, TypeOK, Sound, PaidIsPublished, UnplannedIsUntouched,
       BookIsTrue, SettleIsOurs
<1>5. exec # Idle => exec.h \in Hold
  BY <1>2, ThreadFields
<1>6. Thread'
  BY <1>1, <1>2, <1>5, IdleOp DEF IInv, TypeOK, Thread, LookIsFresh, ThreadHasCause,
       ResultIsTrue, Since, Became
<1> QED
  BY <1>3, <1>4, <1>6 DEF IInv

\* Nothing happens.
LEMMA StutterInv == IInv /\ UNCHANGED vars => IInv'
  BY DEF vars, IInv, TypeOK, Sound, PaidIsPublished, UnplannedIsUntouched, BookIsTrue,
       SettleIsOurs, Thread, LookIsFresh, ThreadHasCause, ResultIsTrue, Became

\* Every step keeps the invariant.
LEMMA NextInv == IInv /\ [Next]_vars => IInv'
<1> SUFFICES ASSUME IInv, [Next]_vars PROVE IInv'
  OBVIOUS
<1>1. ASSUME NEW h \in Hold, Daemon(h) PROVE IInv'
  <2>1. CASE CreateLookup(h) \/ DisposeLookup(h) \/ PollLookup(h)
    BY <2>1, LookupInv DEF CreateLookup, DisposeLookup, PollLookup
  <2> QED
    BY <1>1, <2>1, PlanInv, DisposeInv, CreateActInv, CreateRecordInv, DisposeActInv,
         DisposeRecordInv, ObserveInv DEF Daemon
<1>2. ASSUME NEW h \in Hold, PayerPays(h) \/ NodeGivesUp(h) PROVE IInv'
  BY <1>2, WorldInv
<1>3. CASE Interrupt
  BY <1>3, InterruptInv
<1>4. CASE UNCHANGED vars
  BY <1>4, StutterInv
<1> QED
  BY <1>1, <1>2, <1>3, <1>4 DEF Next

\* Whatever the queue retries and the process loses, the invariant holds.
THEOREM InductiveInvariant == Spec => []IInv
  BY InitInv, NextInv, PTL DEF Spec

\* What the invariant says about the money, in the words of the properties.
LEMMA InvIsTruth == IInv => RecordTruthful /\ SettledOnlyWhenAsked /\ NoOrphanAtNode /\ NoFalseAlarm
  BY DEF IInv, Sound, BookIsTrue, SettleIsOurs, RecordTruthful, SettledOnlyWhenAsked,
       NoOrphanAtNode, NoFalseAlarm

\* The rows and the node's copies keep their types (schema of ln_invoices, LND's states).
THEOREM TypeCorrect == Spec => []TypeOK
  BY InductiveInvariant, PTL DEF IInv

\* A final row tells the truth about the money, whichever of the executors, the poll and
\* a crash came last (recordDisposal, observe).
THEOREM RecordsAreTruthful == Spec => []RecordTruthful
  BY InductiveInvariant, InvIsTruth, PTL

\* No retry and no adoption settles an invoice that nobody asked to settle (settleOrCancel).
THEOREM NothingKeptUnasked == Spec => []SettledOnlyWhenAsked
  BY InductiveInvariant, InvIsTruth, PTL

\* A cancelled invoice whose effects are through is dead at the node too (createExecutor).
THEOREM CancelledIsDead == Spec => []NoOrphanAtNode
  BY InductiveInvariant, InvIsTruth, PTL

\* The alert on a settle that is not the daemon's never rings for one that is (observe).
THEOREM AlarmIsHonest == Spec => []NoFalseAlarm
  BY InductiveInvariant, InvIsTruth, PTL

-------------------------------------------------------------------------------
(* HoldInvoice implements HoldPromise.                                      *)

\* Refinement: the initial states.
LEMMA PromiseInit == Init => Promise!Init
  BY DEF Init, Promise!Init

\* Refinement: a step that moves one invoice at the node, in one of the ways it can.
LEMMA FateStep ==
  ASSUME NEW h \in Hold, NEW s \in NodeState \cup {"absent"}, IInv, node' = [node EXCEPT ![h] = s],
         UNCHANGED <<row, settleAsked>>,
         \/ s = node[h]
         \/ node[h] = "absent" /\ s = "open"
         \/ node[h] = "open" /\ s = "accepted" /\ bolt11[h]
         \/ node[h] = "accepted" /\ s = "settled" /\ disposing[h] = "settle"
         \/ node[h] \in {"open", "accepted"} /\ s = "cancelled"
  PROVE  [Promise!Next]_(Promise!vars)
<1>1. TypeOK /\ Sound(h)
  BY DEF IInv
<1>2. CASE s = node[h] \/ (node[h] = "absent" /\ s = "open")
  BY <1>1, <1>2 DEF TypeOK, Promise!vars
<1>3. CASE node[h] = "open" /\ s = "accepted" /\ bolt11[h]
  <2>1. Promise!Pay(h)
    BY <1>1, <1>3 DEF TypeOK, Promise!Pay, Sound, BookIsTrue
  <2> QED
    BY <2>1 DEF Promise!Next
<1>4. CASE node[h] = "accepted" /\ s = "settled" /\ disposing[h] = "settle"
  <2>1. Promise!Keep(h)
    BY <1>1, <1>4 DEF TypeOK, Promise!Keep, Sound, BookIsTrue, SettleIsOurs
  <2> QED
    BY <2>1 DEF Promise!Next
<1>5. CASE node[h] \in {"open", "accepted"} /\ s = "cancelled"
  <2>1. Promise!Return(h)
    BY <1>1, <1>5 DEF TypeOK, Promise!Return
  <2> QED
    BY <2>1 DEF Promise!Next
<1> QED
  BY <1>2, <1>3, <1>4, <1>5

\* Refinement: a step that writes one row, and writes no more than the node has done.
LEMMA BookStep ==
  ASSUME NEW h \in Hold, NEW s \in RowStatus, IInv, row' = [row EXCEPT ![h] = s],
         UNCHANGED <<node, settleAsked>>,
         \/ s \notin Final /\ row[h] \notin Final
         \/ s = "settled" /\ node[h] = "settled" 
         \/ s = "cancelled" /\ node[h] \in {"absent", "cancelled"}
  PROVE  [Promise!Next]_(Promise!vars)
<1>1. TypeOK /\ Sound(h)
  BY DEF IInv
<1>2. CASE s \notin Final /\ row[h] \notin Final
  BY <1>1, <1>2 DEF TypeOK, Promise!vars, Final
<1>3. CASE s = "settled" /\ node[h] = "settled"
  <2>1. CASE row[h] = "settled"
    BY <1>1, <1>3, <2>1 DEF TypeOK, Promise!vars
  <2>2. CASE row[h] # "settled"
    <3>1. Promise!BookKept(h)
      BY <1>1, <1>3, <2>2 DEF TypeOK, Promise!BookKept, Sound, BookIsTrue
    <3> QED
      BY <3>1 DEF Promise!Next
  <2> QED
    BY <2>1, <2>2
<1>4. CASE s = "cancelled" /\ node[h] \in {"absent", "cancelled"}
  <2>1. CASE row[h] = "cancelled"
    BY <1>1, <1>4, <2>1 DEF TypeOK, Promise!vars
  <2>2. CASE row[h] # "cancelled"
    <3>1. Promise!BookReturned(h)
      BY <1>1, <1>4, <2>2 DEF TypeOK, Promise!BookReturned, Sound, BookIsTrue
    <3> QED
      BY <3>1 DEF Promise!Next
  <2> QED
    BY <2>1, <2>2
<1> QED
  BY <1>2, <1>3, <1>4

\* Refinement: the create executor pays out nothing.
LEMMA CreateActKeeps ==
  ASSUME NEW h \in Hold, IInv, CreateAct(h) PROVE [Promise!Next]_(Promise!vars)
<1>1. /\ exec # Idle /\ exec.op = "create" /\ exec.h = h
      /\ exec.saw \in NodeState \cup {"absent"} /\ node[h] \in Since(exec.saw)
      /\ UNCHANGED <<row, settleAsked>> /\ TypeOK
  BY ThreadFields, IdleOp DEF CreateAct, IInv, Thread, LookIsFresh
<1>2. CASE CreateCleanup(h) /\ exec.saw \in {"open", "accepted"}
  <2>1. node[h] \in {"open", "accepted", "cancelled"} /\ node' = [node EXCEPT ![h] = "cancelled"]
    BY <1>1, <1>2 DEF CreateCleanup, Cancelled, Since, TypeOK
  <2> QED
    BY <1>1, <2>1, FateStep DEF NodeState
<1>3. CASE CreateAdd(h)
  BY <1>1, <1>3, FateStep DEF CreateAdd, Since, NodeState
<1>4. CASE node' = node
  BY <1>1, <1>4 DEF Promise!vars
<1> QED
  BY <1>2, <1>3, <1>4 DEF CreateAct, CreateCleanup, CreateAdopt, CreateTooLate

\* Refinement: settleOrCancel keeps or returns what is held.
LEMMA DisposeActKeeps ==
  ASSUME NEW h \in Hold, IInv, DisposeAct(h) PROVE [Promise!Next]_(Promise!vars)
<1>1. /\ exec # Idle /\ exec.op = "dispose" /\ exec.h = h
      /\ exec.saw \in NodeState \cup {"absent"} /\ node[h] \in Since(exec.saw)
      /\ UNCHANGED <<row, settleAsked>> /\ TypeOK
  BY ThreadFields, IdleOp DEF DisposeAct, IInv, Thread, LookIsFresh
<1>2. CASE DisposeSettle(h)
  BY <1>1, <1>2, FateStep DEF DisposeSettle, NodeState
<1>3. CASE DisposeCancel(h)
  <2>1. node[h] \in {"open", "accepted", "cancelled"} /\ node' = [node EXCEPT ![h] = "cancelled"]
    BY <1>1, <1>3 DEF DisposeCancel, Cancelled, Since, TypeOK
  <2> QED
    BY <1>1, <2>1, FateStep DEF NodeState
<1>4. CASE node' = node
  BY <1>1, <1>4 DEF Promise!vars
<1> QED
  BY <1>2, <1>3, <1>4 DEF DisposeAct, DisposeNothing, SettleRefused

\* Refinement: the three places that write a status after a node call.
LEMMA RecordKeeps ==
  ASSUME NEW h \in Hold, IInv, CreateRecord(h) \/ DisposeRecord(h) \/ Observe(h)
  PROVE [Promise!Next]_(Promise!vars)
<1>0. TypeOK /\ UNCHANGED <<node, settleAsked>>
  BY DEF IInv, CreateRecord, DisposeRecord, Observe
<1>1. CASE CreateRecord(h)
  <2>1. exec.result = "tooLate" => node[h] = "absent"
    BY <1>1 DEF CreateRecord, IInv, Thread, ResultIsTrue
  <2>2. CASE UNCHANGED row
    BY <1>0, <2>2 DEF Promise!vars
  <2>3. CASE ~ UNCHANGED row
    BY <1>0, <1>1, <2>1, <2>3, BookStep DEF CreateRecord, StillPlanned, RowStatus, Final
  <2> QED
    BY <2>2, <2>3
<1>2. CASE DisposeRecord(h)
  <2>1. /\ exec.result \in Final /\ row' = [row EXCEPT ![h] = exec.result]
        /\ Became(h, exec.result)
    BY <1>0, <1>2, ThreadFields, IdleOp DEF DisposeRecord, IInv, Thread, ResultIsTrue
  <2> QED
    BY <1>0, <2>1, BookStep DEF Final, RowStatus, Became
<1>3. CASE Observe(h)
  <2>1. /\ node[h] \in Since(exec.saw) /\ exec.saw \in NodeState \cup {"absent"}
        /\ row[h] \in {"open", "accepted"}
    BY <1>0, <1>3, ThreadFields, IdleOp DEF Observe, IInv, Thread, LookIsFresh,
         ThreadHasCause
  <2>2. CASE UNCHANGED row
    BY <1>0, <2>2 DEF Promise!vars
  <2>3. CASE ~ UNCHANGED row
    BY <1>0, <1>3, <2>1, <2>3, BookStep DEF Observe, Since, RowStatus, Final
  <2> QED
    BY <2>2, <2>3
<1> QED
  BY <1>1, <1>2, <1>3

\* Refinement: dispose asks.
LEMMA DisposeKeeps ==
  ASSUME NEW h \in Hold, NEW a \in Actions, IInv, Dispose(h, a) PROVE [Promise!Next]_(Promise!vars)
<1>1. TypeOK
  BY DEF IInv
<1>2. CASE a = "settle"
  <2>1. Promise!Ask(h)
    BY <1>1, <1>2 DEF TypeOK, Dispose, Promise!Ask
  <2> QED
    BY <2>1 DEF Promise!Next
<1>3. CASE a # "settle"
  BY <1>1, <1>3 DEF TypeOK, Dispose, Promise!vars
<1> QED
  BY <1>2, <1>3

\* Refinement: every step is one of the promise or none.
LEMMA StepKeeps == IInv /\ [Next]_vars => [Promise!Next]_(Promise!vars)
<1> SUFFICES ASSUME IInv, [Next]_vars PROVE [Promise!Next]_(Promise!vars)
  OBVIOUS
<1>0. TypeOK
  BY DEF IInv
<1>1. ASSUME NEW h \in Hold, Daemon(h) PROVE [Promise!Next]_(Promise!vars)
  <2>1. CASE Plan(h)
    <3>1. /\ UNCHANGED <<node, settleAsked>> /\ row[h] = "none"
          /\ row' = [row EXCEPT ![h] = "creating"]
      BY <2>1 DEF Plan
    <3> QED
      BY <3>1, BookStep DEF RowStatus, Final
  <2>2. CASE CreateLookup(h) \/ DisposeLookup(h) \/ PollLookup(h)
    BY <2>2 DEF CreateLookup, DisposeLookup, PollLookup, Promise!vars
  <2> QED
    BY <1>1, <2>1, <2>2, DisposeKeeps, CreateActKeeps, DisposeActKeeps,
         RecordKeeps DEF Daemon
<1>2. ASSUME NEW h \in Hold, PayerPays(h) \/ NodeGivesUp(h) PROVE [Promise!Next]_(Promise!vars)
  BY <1>2, FateStep DEF PayerPays, NodeGivesUp, NodeState
<1>3. CASE Interrupt \/ UNCHANGED vars
  BY <1>3 DEF Interrupt, vars, Promise!vars
<1> QED
  BY <1>1, <1>2, <1>3 DEF Next

\* The detailed specification implements the abstract one: money is kept or returned once,
\* kept only when asked, and the book never runs ahead of the node (hold/index.ts).
THEOREM ImplementsPromise == Spec => KeepsPromise
<1>1. Init => Promise!Init
  BY PromiseInit
<1>2. IInv /\ [Next]_vars => [Promise!Next]_(Promise!vars)
  BY StepKeeps
<1> QED
  BY <1>1, <1>2, InductiveInvariant, PTL DEF Spec, KeepsPromise, Promise!Spec

\* In the promise a closed book stays closed, and the book is the row.
LEMMA BookIsFinal ==
  ASSUME TypeOK, TypeOK', [Promise!Next]_(Promise!vars), NEW h \in Hold, row[h] \in Final
  PROVE  row'[h] = row[h]
<1> DEFINE Book(r) == IF r = "settled" THEN "kept"
                      ELSE IF r = "cancelled" THEN "returned" ELSE "open"
<1>1. CASE UNCHANGED Promise!vars
  <2>1. [g \in Hold |-> Book(row[g])]' = [g \in Hold |-> Book(row[g])]
    BY <1>1 DEF Promise!vars
  <2>2. Book(row'[h]) = Book(row[h])
    BY <2>1
  <2> QED
    BY <2>2 DEF Final
<1>2. CASE Promise!Next
  <2>1. PICK g \in Hold : \/ Promise!Pay(g) \/ Promise!Ask(g) \/ Promise!Keep(g)
                          \/ Promise!Return(g) \/ Promise!BookKept(g) \/ Promise!BookReturned(g)
    BY <1>2 DEF Promise!Next
  <2>2. CASE Promise!BookKept(g) \/ Promise!BookReturned(g)
    BY <2>2 DEF Promise!BookKept, Promise!BookReturned, Final
  <2>3. CASE Promise!Pay(g) \/ Promise!Ask(g) \/ Promise!Keep(g) \/ Promise!Return(g)
    <3>1. [f \in Hold |-> Book(row[f])]' = [f \in Hold |-> Book(row[f])]
      BY <2>3 DEF Promise!Pay, Promise!Ask, Promise!Keep, Promise!Return
    <3>2. Book(row'[h]) = Book(row[h])
      BY <3>1
    <3> QED
      BY <3>2 DEF Final
  <2> QED
    BY <2>1, <2>2, <2>3
<1> QED
  BY <1>1, <1>2

\* A final row stays as it is: the second of two results never overwrites the first
\* (observe's early returns, recordDisposal).
THEOREM FinalStays == Spec => FinalIsFinal
<1>1. IInv /\ IInv' /\ [Next]_vars => [\A h \in Hold : row[h] \in Final => row'[h] = row[h]]_vars
  BY StepKeeps, BookIsFinal DEF IInv
<1> QED
  BY <1>1, InductiveInvariant, PTL DEF Spec, FinalIsFinal
===============================================================================
