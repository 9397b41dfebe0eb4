---------------------------- MODULE LnPayoutProofs ----------------------------
(***************************************************************************)
(* LnPayout, proved for any set of invoices.  The inductive invariant is   *)
(* in two parts: Books, what the order row and LND have in common whoever  *)
(* runs, and Thread, what the executor may rely on between two awaits.     *)
(* What makes it inductive is that an invoice is replaced only when it is  *)
(* dead: no payment of it is out, and LND takes none any more.             *)
(* Then the cards of the same trade in the apps (LnCards, an instance in   *)
(* which the order is called trade), proved for any sponsors, claims and   *)
(* invoices: what a card offers against what the daemon takes.             *)
(***************************************************************************)
EXTENDS LnPayout, Integers, Sequences, TLAPS

CONSTANTS Customer, Sponsors, NoOne, MaxClaims, MaxInvoices, MaxReloads, Mistakes,
          Outside, Patient, InOrder

VARIABLES trade, closing, invoice, payout, committed, paid, claims, requests, notices,
          raw, account, shown, received, heard, claimError, made, sending, reloads

Card == INSTANCE LnCards WITH order <- trade

-----------------------------------------------------------------------------
\* Nothing is paid automatically in these states of the order.
Stopped == payoutError \in {"invoice-expired", "manual"}

\* Money is out, or may get out, for the order's present invoice only.
OnlyTheCurrentIsOut == \A i \in Invoice : Out(i) => i = sponsorInvoice
\* A trade that has stopped paying has nothing out.
StoppedIsStopped == Stopped => ~ Out(sponsorInvoice)
\* An invoice is called expired when LND will not pay it any more.
ExpiredHasLapsed == payoutError = "invoice-expired" => lapsed[sponsorInvoice]
\* The operator pays by hand only what the executor has handed over.
HandPaidIsManual == operatorPaid => payoutError = "manual"
\* The order is disbursed with money behind it.
DisbursedIsPaid == disbursed => operatorPaid \/ payment[sponsorInvoice] = "succeeded"

Busy == exec # Idle
\* An executor that works on a replaced invoice works on a dead one.
OldIsLapsed == Busy /\ exec.inv # sponsorInvoice => lapsed[exec.inv]
\* Past its checks the executor pays the present invoice of an order that has not stopped.
PaysTheCurrent == exec.op \in {"ready", "sent"} => exec.inv = sponsorInvoice /\ ~ Stopped
\* It has looked at LND, and nothing was out.
LookedBeforePaying == exec.op \in {"tracked", "ready"} => ~ Out(exec.inv)
\* The effect is pending while it runs, and a crash finds it so.
RunIsQueued == exec.op \in {"start", "tracked", "ready", "sent"} => queued
\* What onDone is about to write is still so.
VerdictHolds == exec.op = "record" =>
  /\ exec.outcome = "paid" => payment[exec.inv] = "succeeded"
  /\ exec.outcome \in {"expired", "manual"} => ~ Out(exec.inv)
  /\ exec.outcome = "expired" => lapsed[exec.inv]
  /\ exec.outcome = "manual" /\ exec.inv = sponsorInvoice => isManualPayout(payoutError)
  /\ exec.outcome = "skip" => disbursed

Books == /\ OnlyTheCurrentIsOut /\ StoppedIsStopped /\ ExpiredHasLapsed
         /\ HandPaidIsManual /\ DisbursedIsPaid /\ NeverForgotten
Thread == /\ OldIsLapsed /\ PaysTheCurrent /\ LookedBeforePaying
          /\ RunIsQueued /\ VerdictHolds
IInv == TypeOK /\ Books /\ Thread

Ops == {"start", "tracked", "ready", "sent"}
Outcomes == {"paid", "expired", "manual", "skip"}

\* What the executor holds, by the step it is at.
LEMMA ThreadFields ==
  ASSUME TypeOK, exec # Idle
  PROVE  /\ exec.inv \in Invoice /\ exec.op \in Ops \cup {"record"}
         /\ exec.op # "record" => exec = [op |-> exec.op, inv |-> exec.inv]
         /\ exec.op = "record" => exec.outcome \in Outcomes
  BY DEF TypeOK, Running, Ops, Outcomes

\* The idle executor is at none of the steps.
LEMMA IdleOp == Idle.op = "idle"
  BY DEF Idle

\* The threads that the executor makes are of the right type.
LEMMA RunningThread ==
  /\ \A op \in Ops, i \in Invoice : [op |-> op, inv |-> i] \in Running
  /\ \A i \in Invoice, o \in Outcomes : [op |-> "record", inv |-> i, outcome |-> o] \in Running
  BY DEF Running, Ops, Outcomes

LEMMA RunningIsNotIdle == \A r \in Running : r # Idle
  BY DEF Running, Idle

\* finishClose has just queued the payout, and nothing is out.
LEMMA InitInv == Init => IInv
<1> SUFFICES ASSUME Init PROVE IInv
  OBVIOUS
<1>1. TypeOK
  BY DEF Init, TypeOK, Errors, PayStatus
<1>2. OnlyTheCurrentIsOut /\ StoppedIsStopped
  BY DEF Init, OnlyTheCurrentIsOut, StoppedIsStopped, Out, Stopped
<1>3. ExpiredHasLapsed /\ HandPaidIsManual /\ DisbursedIsPaid /\ NeverForgotten
  BY DEF Init, ExpiredHasLapsed, HandPaidIsManual, DisbursedIsPaid, NeverForgotten
<1>4. Thread
  BY DEF Init, Thread, OldIsLapsed, PaysTheCurrent, LookedBeforePaying, RunIsQueued,
       VerdictHolds, Busy, Idle
<1> QED
  BY <1>1, <1>2, <1>3, <1>4 DEF IInv, Books

\* A step of the executor that writes nothing leaves the books alone.
LEMMA BooksUntouched == IInv /\ UNCHANGED <<order, queued, world>> => Books'
  BY DEF IInv, Books, order, world, OnlyTheCurrentIsOut, StoppedIsStopped,
       ExpiredHasLapsed, HandPaidIsManual, DisbursedIsPaid, NeverForgotten, Out, Stopped

\* Such a step keeps the types.
LEMMA TypeUntouched ==
  ASSUME IInv, UNCHANGED <<order, queued, world>>, exec' \in {Idle} \cup Running
  PROVE  TypeOK'
  BY DEF IInv, TypeOK, order, world

\* An executor that remembers nothing relies on nothing.
LEMMA IdleThread == exec' = Idle => Thread'
  BY DEF Idle, Thread, OldIsLapsed, PaysTheCurrent, LookedBeforePaying, RunIsQueued,
       VerdictHolds, Busy

\* A verdict that is true when it is reached may be carried to onDone.
LEMMA FinishInv ==
  ASSUME IInv, NEW i \in Invoice, NEW o \in Outcomes, Finish(i, o), UNCHANGED world,
         i # sponsorInvoice => lapsed[i],
         o = "paid" => payment[i] = "succeeded",
         o \in {"expired", "manual"} => ~ Out(i),
         o = "expired" => lapsed[i],
         o = "manual" /\ i = sponsorInvoice => isManualPayout(payoutError),
         o = "skip" => disbursed
  PROVE  IInv'
<1>1. exec' = [op |-> "record", inv |-> i, outcome |-> o] /\ UNCHANGED <<order, queued, world>>
  BY DEF Finish
<1>2. TypeOK' /\ Books'
  BY <1>1, RunningThread, TypeUntouched, BooksUntouched
<1>3. Thread'
  BY <1>1 DEF order, world, Thread, OldIsLapsed, PaysTheCurrent, LookedBeforePaying,
       RunIsQueued, VerdictHolds, Busy, Idle, Out
<1> QED
  BY <1>2, <1>3 DEF IInv

\* run reads the order.
LEMMA StartInv == IInv /\ Start => IInv'
<1> SUFFICES ASSUME IInv, Start PROVE IInv'
  OBVIOUS
<1>0. sponsorInvoice \in Invoice
  BY DEF IInv, TypeOK
<1>1. CASE disbursed
  BY <1>0, <1>1, FinishInv DEF Start, Outcomes
<1>2. CASE ~ disbursed
  <2>1. exec' = [op |-> "start", inv |-> sponsorInvoice] /\ UNCHANGED <<order, queued, world>>
    BY <1>2 DEF Start
  <2>2. TypeOK' /\ Books'
    BY <1>0, <2>1, RunningThread, TypeUntouched, BooksUntouched DEF Ops
  <2>3. Thread'
    BY <2>1 DEF Start, order, world, Thread, OldIsLapsed, PaysTheCurrent,
         LookedBeforePaying, RunIsQueued, VerdictHolds, Busy, Idle, Out
  <2> QED
    BY <2>2, <2>3 DEF IInv
<1> QED
  BY <1>1, <1>2

\* trackPayment answers.
LEMMA TrackInv == IInv /\ Track => IInv'
<1> SUFFICES ASSUME IInv, Track PROVE IInv'
  OBVIOUS
<1>0. exec # Idle /\ exec.inv \in Invoice /\ exec.op = "start"
  BY ThreadFields, IdleOp DEF Track, IInv
<1>l. exec.inv # sponsorInvoice => lapsed[exec.inv]
  BY <1>0 DEF IInv, Thread, OldIsLapsed, Busy
<1>1. CASE payment[exec.inv] = "succeeded" /\ Finish(exec.inv, "paid")
  BY <1>0, <1>1, <1>l, FinishInv DEF Track, Outcomes
<1>2. CASE Recheck
  BY <1>2, TypeUntouched, BooksUntouched, IdleThread DEF Track, Recheck, IInv
<1>3. CASE /\ payment[exec.inv] \in {"none", "failed"}
           /\ exec' = [op |-> "tracked", inv |-> exec.inv]
           /\ UNCHANGED <<order, queued>>
  <2>2. TypeOK' /\ Books'
    BY <1>0, <1>3, RunningThread, TypeUntouched, BooksUntouched DEF Ops, Track
  <2>3. Thread'
    BY <1>0, <1>3 DEF Track, IInv, order, world, Thread, OldIsLapsed, PaysTheCurrent,
         LookedBeforePaying, RunIsQueued, VerdictHolds, Busy, Idle, Out
  <2> QED
    BY <2>2, <2>3 DEF IInv
<1> QED
  BY <1>1, <1>2, <1>3 DEF Track

\* The order is read again: the stop, the expiry, or on to pay.
LEMMA DecideInv == IInv /\ Decide => IInv'
<1> SUFFICES ASSUME IInv, Decide PROVE IInv'
  OBVIOUS
<1>1. exec # Idle /\ exec.inv \in Invoice /\ exec.op = "tracked" /\ ~ Out(exec.inv)
  BY ThreadFields, IdleOp DEF Decide, IInv, Thread, LookedBeforePaying
<1>2. exec.inv # sponsorInvoice => lapsed[exec.inv]
  BY <1>1 DEF IInv, Thread, OldIsLapsed, Busy
<1>3. CASE StopsForOperator
  BY <1>1, <1>2, <1>3, FinishInv DEF Decide, StopsForOperator, Outcomes
<1>4. CASE FindsExpired
  BY <1>1, <1>2, <1>4, FinishInv DEF Decide, FindsExpired, Outcomes
<1>5. CASE GoesAhead
  <2>1. exec.inv = sponsorInvoice /\ ~ Stopped
    BY <1>1, <1>2, <1>5 DEF GoesAhead, IInv, Books, ExpiredHasLapsed, Stopped,
         isManualPayout
  <2>2. TypeOK' /\ Books'
    BY <1>1, <1>5, RunningThread, TypeUntouched, BooksUntouched DEF Ops, Decide, GoesAhead
  <2>3. Thread'
    BY <1>1, <1>5, <2>1 DEF Decide, GoesAhead, IInv, order, world, Thread, OldIsLapsed,
         PaysTheCurrent, LookedBeforePaying, RunIsQueued, VerdictHolds, Busy, Idle, Out,
         Stopped
  <2> QED
    BY <2>2, <2>3 DEF IInv
<1> QED
  BY <1>3, <1>4, <1>5 DEF Decide

\* payInvoice, the one step that sends money out.
LEMMA PayInvoiceInv == IInv /\ PayInvoice => IInv'
<1> SUFFICES ASSUME IInv, PayInvoice PROVE IInv'
  OBVIOUS
<1>1. /\ exec # Idle /\ exec.op = "ready" /\ exec.inv = sponsorInvoice
      /\ sponsorInvoice \in Invoice /\ ~ Stopped /\ queued
  BY ThreadFields, IdleOp DEF PayInvoice, IInv, TypeOK, Thread, PaysTheCurrent, RunIsQueued
<1>2. /\ payment' = [payment EXCEPT ![sponsorInvoice] = "in-flight"]
      /\ exec' = [op |-> "sent", inv |-> sponsorInvoice]
      /\ UNCHANGED <<order, queued, lapsed, operatorPaid>>
  BY <1>1 DEF PayInvoice
<1>3. TypeOK'
  BY <1>1, <1>2, RunningThread DEF IInv, TypeOK, order, Ops, PayStatus
<1>4. ~ disbursed
  BY <1>1 DEF PayInvoice, IInv, Books, HandPaidIsManual, DisbursedIsPaid, Stopped, Thread,
       LookedBeforePaying, Out
<1>5. Books'
  BY <1>1, <1>2, <1>4 DEF IInv, TypeOK, order, Books, OnlyTheCurrentIsOut,
       StoppedIsStopped, ExpiredHasLapsed, HandPaidIsManual, DisbursedIsPaid,
       NeverForgotten, Out, Stopped
<1>6. Thread'
  BY <1>1, <1>2 DEF order, Thread, OldIsLapsed, PaysTheCurrent, LookedBeforePaying,
       RunIsQueued, VerdictHolds, Busy, Idle, Stopped
<1> QED
  BY <1>3, <1>5, <1>6 DEF IInv

\* onRetry writes the error, but never over a stop.
LEMMA RetryInv ==
  ASSUME IInv, exec.op \in {"start", "ready", "sent"}, Retry("failed"), UNCHANGED world
  PROVE  IInv'
<1>1. TypeOK'
  BY DEF IInv, TypeOK, Retry, order, world, Errors, isManualPayout
<1>2. Thread'
  BY IdleThread DEF Retry
<1>3. queued
  BY DEF IInv, Thread, RunIsQueued
<1>4. Books'
  BY <1>3 DEF IInv, Retry, world, isManualPayout, Books, OnlyTheCurrentIsOut,
       StoppedIsStopped, ExpiredHasLapsed, HandPaidIsManual, DisbursedIsPaid,
       NeverForgotten, Out, Stopped
<1> QED
  BY <1>1, <1>2, <1>4 DEF IInv

\* The thread is gone, by a crash or until the next look.
LEMMA GiveUpInv ==
  ASSUME IInv, exec' = Idle, UNCHANGED <<order, queued, world>>
  PROVE  IInv'
  BY TypeUntouched, BooksUntouched, IdleThread DEF IInv

\* payInvoice answers.
LEMMA PayReturnsInv == IInv /\ PayReturns => IInv'
<1> SUFFICES ASSUME IInv, PayReturns PROVE IInv'
  OBVIOUS
<1>1. exec # Idle /\ exec.inv \in Invoice /\ exec.op = "sent" /\ exec.inv = sponsorInvoice
  BY ThreadFields, IdleOp DEF PayReturns, IInv, Thread, PaysTheCurrent
<1>2. CASE payment[exec.inv] = "succeeded" /\ Finish(exec.inv, "paid")
  BY <1>1, <1>2, FinishInv DEF PayReturns, Outcomes
<1>3. CASE Recheck
  BY <1>3, GiveUpInv DEF PayReturns, Recheck
<1>4. CASE Retry("failed")
  BY <1>1, <1>4, RetryInv DEF PayReturns
<1> QED
  BY <1>2, <1>3, <1>4 DEF PayReturns

\* onDone writes the verdict, or throws it away and starts over.
LEMMA RecordInv == IInv /\ Record => IInv'
<1> SUFFICES ASSUME IInv, Record PROVE IInv'
  OBVIOUS
<1>1. /\ exec # Idle /\ exec.inv \in Invoice /\ exec.op = "record" /\ exec.outcome \in Outcomes
      /\ VerdictHolds /\ exec' = Idle /\ UNCHANGED world
  BY ThreadFields, IdleOp DEF Record, IInv, Thread
<1>2. Thread'
  BY <1>1, IdleThread
<1>3. CASE RecordPaid
  <2>1. exec.inv = sponsorInvoice /\ payment[sponsorInvoice] = "succeeded"
    BY <1>1, <1>3 DEF RecordPaid, VerdictHolds, IInv, Books, OnlyTheCurrentIsOut, Out
  <2>2. TypeOK'
    BY <1>1, <1>3 DEF RecordPaid, IInv, TypeOK, world, Errors
  <2>3. Books'
    BY <1>1, <1>3, <2>1 DEF RecordPaid, world, IInv, Books, OnlyTheCurrentIsOut,
         StoppedIsStopped, ExpiredHasLapsed, HandPaidIsManual, DisbursedIsPaid,
         NeverForgotten, Out, Stopped
  <2> QED
    BY <1>2, <2>2, <2>3 DEF IInv
<1>4. CASE RecordSkip \/ RecordOutdated \/ RecordExpiredButStopped
  <2>1. TypeOK'
    BY <1>1, <1>4 DEF RecordSkip, RecordOutdated, RecordExpiredButStopped, IInv, TypeOK,
         order, world
  <2>2. Books'
    BY <1>1, <1>4 DEF RecordSkip, RecordOutdated, RecordExpiredButStopped, order, world,
         VerdictHolds, IInv, Books, OnlyTheCurrentIsOut, StoppedIsStopped,
         ExpiredHasLapsed, HandPaidIsManual, DisbursedIsPaid, NeverForgotten, Out, Stopped
  <2> QED
    BY <1>2, <2>1, <2>2 DEF IInv
<1>5. CASE RecordManual \/ RecordExpired
  <2>1. /\ exec.inv = sponsorInvoice /\ ~ Out(sponsorInvoice)
        /\ RecordExpired => lapsed[sponsorInvoice]
    BY <1>1, <1>5 DEF RecordManual, RecordExpired, Outdated, VerdictHolds
  <2>2. TypeOK'
    BY <1>1, <1>5 DEF RecordManual, RecordExpired, IInv, TypeOK, world, Errors
  <2>3. Books'
    BY <1>1, <1>5, <2>1 DEF RecordManual, RecordExpired, world, VerdictHolds, IInv, Books,
         isManualPayout, OnlyTheCurrentIsOut, StoppedIsStopped, ExpiredHasLapsed,
         HandPaidIsManual, DisbursedIsPaid, NeverForgotten, Out, Stopped
  <2> QED
    BY <1>2, <2>2, <2>3 DEF IInv
<1> QED
  BY <1>3, <1>4, <1>5 DEF Record

\* The sponsor replaces an invoice that is known to be dead.
LEMMA ReplaceInv == ASSUME NEW i \in Invoice, IInv, ReplaceInvoice(i) PROVE IInv'
<1>1. TypeOK'
  BY DEF ReplaceInvoice, IInv, TypeOK, world, Errors
<1>2. \A j \in Invoice : ~ Out(j)
  BY DEF ReplaceInvoice, IInv, Books, OnlyTheCurrentIsOut, StoppedIsStopped, Stopped
<1>3. Books'
  BY <1>1, <1>2 DEF ReplaceInvoice, world, IInv, Books, TypeOK, OnlyTheCurrentIsOut,
       StoppedIsStopped, ExpiredHasLapsed, HandPaidIsManual, DisbursedIsPaid,
       NeverForgotten, Out, Stopped
<1>4. exec.op \notin {"ready", "sent"} /\ lapsed[sponsorInvoice]
  BY DEF ReplaceInvoice, IInv, Books, ExpiredHasLapsed, Thread, PaysTheCurrent, Stopped
<1>5. Thread'
  <2>1. OldIsLapsed' /\ PaysTheCurrent' /\ LookedBeforePaying' /\ RunIsQueued'
    BY <1>2, <1>4 DEF ReplaceInvoice, world, IInv, Thread, OldIsLapsed, PaysTheCurrent,
         LookedBeforePaying, RunIsQueued, Busy, Out, Stopped
  <2>2. VerdictHolds'
    BY <1>2, <1>4 DEF ReplaceInvoice, world, IInv, Thread, VerdictHolds, OldIsLapsed, Out,
         isManualPayout, Busy, Idle
  <2> QED
    BY <2>1, <2>2 DEF Thread
<1> QED
  BY <1>1, <1>3, <1>5 DEF IInv

\* The operator queues the effect again.
LEMMA RetryPayoutInv == IInv /\ RetryPayout => IInv'
  BY DEF RetryPayout, order, world, IInv, TypeOK, Books, Thread, OnlyTheCurrentIsOut,
       StoppedIsStopped, ExpiredHasLapsed, HandPaidIsManual, DisbursedIsPaid,
       NeverForgotten, Out, Stopped, OldIsLapsed, PaysTheCurrent, LookedBeforePaying,
       RunIsQueued, VerdictHolds, Busy

\* The operator asks for a stop.
LEMMA ManualPayoutInv == IInv /\ ManualPayout => IInv'
<1> SUFFICES ASSUME IInv, ManualPayout PROVE IInv'
  OBVIOUS
<1>1. TypeOK'
  BY DEF ManualPayout, IInv, TypeOK, world, Errors
<1>2. Books'
  BY DEF ManualPayout, world, IInv, Books, isManualPayout, OnlyTheCurrentIsOut,
       StoppedIsStopped, ExpiredHasLapsed, HandPaidIsManual, DisbursedIsPaid,
       NeverForgotten, Out, Stopped
<1>3. Thread'
  BY DEF ManualPayout, world, IInv, Thread, isManualPayout, Out, Stopped, OldIsLapsed,
       PaysTheCurrent, LookedBeforePaying, RunIsQueued, VerdictHolds, Busy
<1> QED
  BY <1>1, <1>2, <1>3 DEF IInv

\* The operator reports what he has paid.
LEMMA MarkDisbursedInv == IInv /\ MarkDisbursed => IInv'
  BY DEF MarkDisbursed, world, IInv, TypeOK, Books, Thread, OnlyTheCurrentIsOut,
       StoppedIsStopped, ExpiredHasLapsed, HandPaidIsManual, DisbursedIsPaid,
       NeverForgotten, Out, Stopped, OldIsLapsed, PaysTheCurrent, LookedBeforePaying,
       RunIsQueued, VerdictHolds, Busy

\* A payment in flight succeeds or fails.
LEMMA ResolvesInv == ASSUME NEW i \in Invoice, IInv, PaymentResolves(i) PROVE IInv'
<1>1. PICK s \in {"succeeded", "failed"} : payment' = [payment EXCEPT ![i] = s]
  BY DEF PaymentResolves
<1>2. payment[i] = "in-flight" /\ UNCHANGED <<order, queued, exec, lapsed, operatorPaid>>
  BY DEF PaymentResolves
<1>3. TypeOK'
  BY <1>1, <1>2 DEF IInv, TypeOK, order, PayStatus
<1>4. \A j \in Invoice : /\ Out(j)' => Out(j)
                         /\ payment[j] = "succeeded" => payment'[j] = "succeeded"
  BY <1>1, <1>2 DEF IInv, TypeOK, Out
<1>5. Books'
  BY <1>2, <1>3, <1>4 DEF IInv, TypeOK, order, Books, Stopped, OnlyTheCurrentIsOut,
       StoppedIsStopped, ExpiredHasLapsed, HandPaidIsManual, DisbursedIsPaid, NeverForgotten
<1>6. exec # Idle => exec.inv \in Invoice
  BY ThreadFields DEF IInv
<1>7. Thread'
  BY <1>2, <1>4, <1>6, IdleOp DEF IInv, order, Thread, isManualPayout, Stopped,
       OldIsLapsed, PaysTheCurrent, LookedBeforePaying, RunIsQueued, VerdictHolds, Busy
<1> QED
  BY <1>3, <1>5, <1>7 DEF IInv

\* An invoice comes to its expiry.
LEMMA LapseInv == ASSUME NEW i \in Invoice, IInv, Lapse(i) PROVE IInv'
<1>1. /\ lapsed' = [lapsed EXCEPT ![i] = TRUE]
      /\ UNCHANGED <<order, queued, exec, payment, operatorPaid>>
  BY DEF Lapse
<1>2. TypeOK'
  BY <1>1 DEF IInv, TypeOK, order
<1>3. \A j \in Invoice : lapsed[j] => lapsed'[j]
  BY <1>1 DEF IInv, TypeOK
<1>4. exec # Idle => exec.inv \in Invoice
  BY ThreadFields DEF IInv
<1>5. Books'
  BY <1>1, <1>3 DEF IInv, TypeOK, order, Books, Stopped, Out, OnlyTheCurrentIsOut,
       StoppedIsStopped, ExpiredHasLapsed, HandPaidIsManual, DisbursedIsPaid, NeverForgotten
<1>6. Thread'
  BY <1>1, <1>3, <1>4, IdleOp DEF IInv, order, Thread, isManualPayout, Stopped, Out,
       OldIsLapsed, PaysTheCurrent, LookedBeforePaying, RunIsQueued, VerdictHolds, Busy
<1> QED
  BY <1>2, <1>5, <1>6 DEF IInv

\* The operator pays by hand.
LEMMA OperatorPaysInv == IInv /\ OperatorPays => IInv'
  BY DEF OperatorPays, order, IInv, TypeOK, Books, Thread, OnlyTheCurrentIsOut,
       StoppedIsStopped, ExpiredHasLapsed, HandPaidIsManual, DisbursedIsPaid,
       NeverForgotten, Out, Stopped, OldIsLapsed, PaysTheCurrent, LookedBeforePaying,
       RunIsQueued, VerdictHolds, Busy, isManualPayout

\* Nothing happens.
LEMMA StutterInv == IInv /\ UNCHANGED vars => IInv'
  BY DEF vars, IInv, TypeOK, Books, Thread, OnlyTheCurrentIsOut, StoppedIsStopped,
       ExpiredHasLapsed, HandPaidIsManual, DisbursedIsPaid, NeverForgotten, Out, Stopped,
       OldIsLapsed, PaysTheCurrent, LookedBeforePaying, RunIsQueued, VerdictHolds, Busy,
       isManualPayout

\* Every step keeps the invariant.
LEMMA NextInv == IInv /\ [Next]_vars => IInv'
<1> SUFFICES ASSUME IInv, [Next]_vars PROVE IInv'
  OBVIOUS
<1>1. CASE Executor
  BY <1>1, StartInv, TrackInv, DecideInv, PayInvoiceInv, PayReturnsInv,
       RecordInv DEF Executor
<1>2. CASE CallThrows
  BY <1>2, RetryInv DEF CallThrows
<1>3. CASE Crash
  BY <1>3, GiveUpInv DEF Crash
<1>4. CASE Commands
  BY <1>4, RetryPayoutInv, ManualPayoutInv, MarkDisbursedInv DEF Commands
<1>5. CASE OperatorPays
  BY <1>5, OperatorPaysInv
<1>6. CASE \E i \in Invoice : ReplaceInvoice(i) \/ PaymentResolves(i) \/ Lapse(i)
  BY <1>6, ReplaceInv, ResolvesInv, LapseInv
<1>7. CASE UNCHANGED vars
  BY <1>7, StutterInv
<1> QED
  BY <1>1, <1>2, <1>3, <1>4, <1>5, <1>6, <1>7 DEF Next

\* Over every interleaving of executor, sponsor, operator and crash the invariant holds.
THEOREM InductiveInvariant == Spec => []IInv
  BY InitInv, NextInv, PTL DEF Spec

\* The invariant says that the sponsor is paid once.
LEMMA InvMeansPaidOnce == IInv => PaidOnce
  BY DEF IInv, TypeOK, Books, PaidOnce, OnlyTheCurrentIsOut, StoppedIsStopped,
       HandPaidIsManual, Stopped
\* And that "manual" can be relied on.
LEMMA InvMeansStopped == IInv => ManualMeansStopped
  BY DEF IInv, Books, ManualMeansStopped, OnlyTheCurrentIsOut, StoppedIsStopped, Stopped
\* And that disbursed is true.
LEMMA InvMeansPaid == IInv => DisbursedMeansPaid
  BY DEF IInv, TypeOK, Books, DisbursedMeansPaid, DisbursedIsPaid
\* And that an unpaid sponsor is not forgotten.
LEMMA InvMeansNever == IInv => NeverForgotten
  BY DEF IInv, Books

\* The columns and the executor's memory keep their types (ln_orders, createPayoutExecutor).
THEOREM TypeCorrect == Spec => []TypeOK
  BY InductiveInvariant, PTL DEF IInv

\* The sponsor is never paid twice, by LND or by LND and the operator, over crashes, lost
\* answers, retries and replaced invoices (createPayoutExecutor, sponsorInvoice, manualPayout).
THEOREM SponsorPaidOnce == Spec => []PaidOnce
  BY InductiveInvariant, InvMeansPaidOnce, PTL

\* "manual" is written only when nothing is out, and nothing gets out afterwards (onDone).
THEOREM ManualIsSafe == Spec => []ManualMeansStopped
  BY InductiveInvariant, InvMeansStopped, PTL

\* disbursed is never written without the money having arrived (onDone, markDisbursed).
THEOREM DisbursedIsTrue == Spec => []DisbursedMeansPaid
  BY InductiveInvariant, InvMeansPaid, PTL

\* The effect ends only when the sponsor is paid or a person has been asked (onDone).
THEOREM SponsorIsRemembered == Spec => []NeverForgotten
  BY InductiveInvariant, InvMeansNever, PTL

\* A step from the invariant that undoes a stop has found the sponsor paid.
LEMMA StopStep == IInv /\ [Next]_vars =>
    [isManualPayout(payoutError) =>
       \/ isManualPayout(payoutError')
       \/ disbursed' /\ payment[sponsorInvoice] = "succeeded"]_vars
<1> SUFFICES ASSUME IInv, [Next]_vars, isManualPayout(payoutError)
             PROVE  \/ isManualPayout(payoutError')
                    \/ disbursed' /\ payment[sponsorInvoice] = "succeeded"
  OBVIOUS
<1>1. CASE Executor /\ ~ Record
  BY <1>1 DEF Executor, Start, Track, Decide, PayInvoice, PayReturns, Finish, Recheck,
       Retry, StopsForOperator, FindsExpired, GoesAhead, order
<1>2. CASE Record
  <2>1. exec # Idle /\ exec.inv \in Invoice
    BY <1>2, ThreadFields, IdleOp DEF Record, IInv
  <2>2. CASE RecordPaid
    BY <1>2, <2>1, <2>2 DEF Record, RecordPaid, IInv, Thread, VerdictHolds, Books,
         OnlyTheCurrentIsOut, Out
  <2>3. CASE ~ RecordPaid
    BY <1>2, <2>3 DEF Record, RecordPaid, RecordSkip, RecordOutdated, RecordManual,
         RecordExpiredButStopped, RecordExpired, order, isManualPayout
  <2> QED
    BY <2>2, <2>3
<1>3. CASE CallThrows \/ Crash \/ Commands \/ OperatorPays
  BY <1>3 DEF CallThrows, Crash, Commands, OperatorPays, Retry, RetryPayout, ManualPayout,
       MarkDisbursed, order, isManualPayout
<1>4. CASE \E i \in Invoice : ReplaceInvoice(i) \/ PaymentResolves(i) \/ Lapse(i)
  BY <1>4 DEF ReplaceInvoice, PaymentResolves, Lapse, order, isManualPayout
<1>5. CASE UNCHANGED vars
  BY <1>5 DEF vars, isManualPayout
<1> QED
  BY <1>1, <1>2, <1>3, <1>4, <1>5 DEF Next, Executor

\* No retry, expiry or replacement undoes the operator's stop (onRetry, onDone).
THEOREM StopNeverUndone == Spec => StopIsNotLost
  BY InductiveInvariant, StopStep, PTL DEF Spec, StopIsNotLost

-----------------------------------------------------------------------------
(* LnCards.  An app and the daemon have in common only what can no longer be *)
(* undone: CardIInv says of what was seen and what was sent how far the order *)
(* has come since.                                                            *)

CardStates == Card!OrderState \cup {"none", "draft", "dropped"}
Reached == {"escrowed", "invoiced", "remitted"} \cup Card!Paying
AfterEscrow == {"escrowed", "invoiced", "remitted"} \cup Card!Terminal
Invoiced == {"invoiced", "remitted"} \cup Card!Paying
Worth == {"good", "bad", "expired"}
Cards == [st : CardStates, sponsor : Sponsors \cup {NoOne}, deposit : {"none", "due", "held"}, disbursed : BOOLEAN]
Notices == [kind : {"rejected", "warning", "expired"}, n : Nat]
Asked == [action : {"order-request", "account-info", "payment-confirm", "cancel-request"}, by : {Customer}, arg : {0, 1}]
         \cup [action : {"claim", "remit-request", "sponsor-invoice"}, by : Sponsors, arg : Nat]

\* The daemon's records, and what lies between it and the apps.
Records ==
  /\ trade \in Cards /\ (trade.sponsor = NoOne) = (trade.deposit = "none")
  /\ closing \in Card!LnCloseReason \cup {""} /\ payout \in {"none", "due", "expired", "done"}
  /\ committed \in BOOLEAN /\ claims \in Nat /\ requests \subseteq Asked /\ notices \in Seq(Notices)
AtApps ==
  /\ raw \in BOOLEAN /\ account \in BOOLEAN /\ shown \in [Card!Parties -> Cards] /\ received \in BOOLEAN
  /\ heard \subseteq 1 .. Len(notices) /\ claimError \in {"", "rejected", "warning", "expired"}
  /\ made \in Seq(Worth) /\ Len(made) <= MaxInvoices /\ invoice \in 0 .. Len(made)
Typed == Records /\ AtApps

\* What the daemon's records say of one another.
Course ==
  /\ trade.st \in {"none", "draft", "dropped", "requested"} => trade.sponsor = NoOne
  /\ trade.st \in {"claimed", "verified"} \cup Reached => trade.sponsor # NoOne
  /\ closing # "" => trade.st \in Card!OrderState \ Card!Terminal
  /\ closing \in {"paid", "sponsor_wins"} => trade.st \in {"invoiced", "remitted"}
  /\ trade.st \in Invoiced => invoice # 0
  /\ trade.st \notin Invoiced \cup Card!Terminal => invoice = 0
  /\ committed => account

\* What was sent and what was seen is of the order as it is.
Views ==
  \A p \in Card!Parties :
    /\ shown[p].st \in Card!OrderState => trade.st \in Card!OrderState
    /\ shown[p].st \in Invoiced => invoice # 0
    /\ shown[p].st \in Reached => trade.st \in AfterEscrow /\ trade.sponsor = shown[p].sponsor
Papers ==
  /\ account => invoice # 0
  /\ raw /\ trade.st = "none" => Card!Request("order-request", Customer, 0) \in requests
  /\ made # <<>> => trade.st \in AfterEscrow
  /\ \A r \in requests :
       /\ r.action = "claim" => trade.st \in Card!OrderState
       /\ r.action = "account-info" => account
       /\ r.action = "sponsor-invoice" =>
            /\ trade.st \in AfterEscrow /\ trade.sponsor = r.by /\ r.arg \in 1 .. Len(made)
            /\ r.arg < MaxInvoices => r.arg # invoice
Bounded ==
  /\ claims <= MaxClaims
  /\ \A r \in requests : r.action = "claim" => MaxClaims > 0
  /\ trade.st \in {"none", "draft", "dropped"} => claims = 0
  /\ trade.st = "requested" => claims = 0 \/ claims < MaxClaims
CardIInv == Typed /\ Course /\ Views /\ Papers /\ Bounded

\* Where acknowledgements come before answers: why an invoice is not there.
NoneAsked == \A r \in requests : r.action # "sponsor-invoice"
Told == sending = 0 /\ heard = DOMAIN notices /\ NoneAsked
Reason ==
  /\ notices # <<>> \/ ~NoneAsked
  /\ sending # 0 => heard # DOMAIN notices \/ ~NoneAsked
  /\ Told => claimError # ""
Explained == trade.st = "escrowed" /\ closing = "" /\ made # <<>> => Reason

\* The payout.
Payable ==
  /\ payout # "none" => trade.st \in Card!Paying
  /\ trade.disbursed => payout = "done"
  /\ Len(made) = MaxInvoices => made[MaxInvoices] = "good"
  /\ payout = "expired" => invoice # MaxInvoices
HeardInOrder == \A i \in heard : 1 .. i \subseteq heard
Form ==
  /\ notices # <<>> /\ notices[Len(notices)].kind # "warning"
  /\ sending # 0 => heard # DOMAIN notices \/ ~NoneAsked
  /\ Told => claimError \in {"rejected", "expired"}
Reopened == payout = "expired" => Form

-----------------------------------------------------------------------------
LEMMA Tables ==
  /\ Card!Terminal = {"paid", "cancelled", "sponsor_wins", "customer_wins", "admin_closed", "expired"}
  /\ \A st \in Card!OrderState : Card!canTransition(st, "claimed") => st = "requested"
  /\ \A reason \in Card!LnCloseReason : Card!CLOSE_RULES[reason].terminal = Card!TerminalOf(reason) /\ Card!TerminalOf(reason) \in Card!Terminal
  /\ \A reason \in Card!LnCloseReason : Card!TerminalOf(reason) \in Card!Paying => reason \in {"paid", "sponsor_wins"}
  /\ \A st, has, was : Card!expiryReasonFor(st, has, was) \in (Card!LnCloseReason \ {"paid", "sponsor_wins"}) \cup {"none"}
<1>1. Card!Terminal = {"paid", "cancelled", "sponsor_wins", "customer_wins", "admin_closed", "expired"}
  BY DEF Card!Terminal, Card!TRANSITIONS, Card!OrderState
<1>2. \A st \in Card!OrderState : Card!canTransition(st, "claimed") => st = "requested"
  BY DEF Card!canTransition, Card!TRANSITIONS, Card!OrderState
<1>3. \A reason \in Card!LnCloseReason : Card!CLOSE_RULES[reason].terminal = Card!TerminalOf(reason) /\ Card!TerminalOf(reason) \in Card!Terminal
  BY <1>1 DEF Card!CLOSE_RULES, Card!TerminalOf, Card!LnCloseReason
<1>4. \A reason \in Card!LnCloseReason : Card!TerminalOf(reason) \in Card!Paying => reason \in {"paid", "sponsor_wins"}
  BY DEF Card!TerminalOf, Card!LnCloseReason, Card!Paying
<1>5. \A st, has, was : Card!expiryReasonFor(st, has, was) \in (Card!LnCloseReason \ {"paid", "sponsor_wins"}) \cup {"none"}
  BY DEF Card!expiryReasonFor, Card!LnCloseReason
<1> QED
  BY <1>1, <1>2, <1>3, <1>4, <1>5

LEMMA Lengths ==
  ASSUME Card!LnCardsAssumption, CardIInv
  PROVE  /\ made \in Seq(Worth) /\ Len(made) \in Nat /\ Len(made) <= MaxInvoices /\ MaxInvoices \in Nat \ {0}
         /\ invoice \in 0 .. Len(made) /\ notices \in Seq(Notices) /\ Len(notices) \in Nat /\ DOMAIN notices = 1 .. Len(notices)
<1>1. made \in Seq(Worth) /\ notices \in Seq(Notices)
  BY DEF CardIInv, Typed, Records, AtApps
<1>2. Len(made) \in Nat /\ Len(notices) \in Nat /\ DOMAIN notices = 1 .. Len(notices)
  BY ONLY <1>1
<1>3. Len(made) <= MaxInvoices /\ MaxInvoices \in Nat \ {0} /\ invoice \in 0 .. Len(made)
  BY DEF CardIInv, Typed, AtApps, Card!LnCardsAssumption
<1> QED
  BY <1>1, <1>2, <1>3

LEMMA Counts == ASSUME Card!LnCardsAssumption PROVE MaxClaims \in Nat /\ MaxInvoices \in Nat \ {0} /\ 0 <= MaxInvoices
BY DEF Card!LnCardsAssumption

LEMMA Starts == ASSUME Card!LnCardsAssumption PROVE Card!Init => CardIInv
<1> SUFFICES ASSUME Card!Init PROVE CardIInv
  OBVIOUS
<1> USE DEF Card!Init
<1>1. trade \in Cards /\ trade.st = "none" /\ trade.sponsor = NoOne /\ trade.deposit = "none"
  BY DEF Card!Unborn, Cards, CardStates
<1>2. Records
  <2>1. notices = <<>>
    OBVIOUS
  <2>2. notices \in Seq(Notices)
    BY ONLY <2>1
  <2> QED
    BY <1>1, <2>2 DEF Records
<1>3. AtApps
  <2>0. made = <<>> /\ notices = <<>>
    OBVIOUS
  <2>1. made \in Seq(Worth) /\ Len(made) = 0 /\ Len(notices) = 0
    BY ONLY <2>0
  <2>2. shown \in [Card!Parties -> Cards]
    BY <1>1
  <2>3. MaxInvoices \in Nat /\ 0 <= MaxInvoices
    BY ONLY Counts, Card!LnCardsAssumption
  <2>4. invoice = 0 /\ heard = {} /\ raw \in BOOLEAN /\ account \in BOOLEAN /\ received \in BOOLEAN /\ claimError = ""
    OBVIOUS
  <2>5. invoice \in 0 .. Len(made) /\ Len(made) <= MaxInvoices
    <3>1. Len(made) = 0 /\ invoice = 0
      BY <2>1, <2>4
    <3> QED
      BY ONLY <2>3, <3>1
  <2> QED
    BY <2>1, <2>2, <2>4, <2>5 DEF AtApps
<1>4. Course
  BY <1>1, Tables DEF Course, Reached, Invoiced, Card!Paying
<1>5. Views
  <2>1. \A p \in Card!Parties : shown[p].st = "none"
    BY <1>1
  <2> QED
    BY <2>1 DEF Views, Reached, Invoiced, Card!Paying, Card!OrderState
<1>6. Papers
  BY DEF Papers
<1>7. Bounded
  <2>1. MaxClaims \in Nat
    BY DEF Card!LnCardsAssumption
  <2>2. claims = 0 /\ requests = {}
    OBVIOUS
  <2>3. claims <= MaxClaims
    BY ONLY <2>1, <2>2
  <2> QED
    BY <1>1, <2>2, <2>3 DEF Bounded
<1> QED
  BY <1>2, <1>3, <1>4, <1>5, <1>6, <1>7 DEF CardIInv, Typed

-----------------------------------------------------------------------------
(* What an app does. *)

\* A request is put on the relays; an invoice may have been made with it.
LEMMA SendingKeeps ==
  ASSUME Card!LnCardsAssumption, CardIInv, NEW r \in Asked, requests' = requests \cup {r}, UNCHANGED <<Card!daemon, shown>>,
         AtApps', account => account', account' => invoice # 0,
         raw' /\ trade.st = "none" => raw \/ r = Card!Request("order-request", Customer, 0),
         made' # <<>> => made # <<>> \/ trade.st \in AfterEscrow, Len(made) <= Len(made'),
         r.action = "claim" => trade.st \in Card!OrderState /\ MaxClaims > 0,
         r.action = "account-info" => account',
         r.action = "sponsor-invoice" =>
           /\ trade.st \in AfterEscrow /\ trade.sponsor = r.by /\ r.arg \in 1 .. Len(made')
           /\ r.arg < MaxInvoices => r.arg # invoice
  PROVE  CardIInv'
<1> USE DEF CardIInv, Typed, Card!daemon
<1>1. Records'
  BY DEF Records
<1>2. Course' /\ Views'
  BY DEF Course, Views
<1>3. Len(made) \in Nat /\ Len(made') \in Nat
  <2>1. made \in Seq(Worth) /\ made' \in Seq(Worth)
    BY DEF AtApps
  <2> QED
    BY ONLY <2>1
<1>4. Papers'
  <2>1. \A q \in requests : q.action = "sponsor-invoice" => q.arg \in 1 .. Len(made')
    BY <1>3 DEF Papers
  <2> QED
    BY <2>1 DEF Papers
<1>5. Bounded'
  BY DEF Bounded
<1> QED
  BY <1>1, <1>2, <1>4, <1>5

\* What else an app keeps.
LEMMA KeepingKeeps ==
  ASSUME Card!LnCardsAssumption, CardIInv, AtApps', UNCHANGED <<Card!daemon, requests, shown, raw, account>>, Len(made') = Len(made)
  PROVE  CardIInv'
<1> USE DEF CardIInv, Typed, Card!daemon
<1>1. Records' /\ Course' /\ Views' /\ Bounded'
  BY DEF Records, Course, Views, Bounded
<1>2. made' # <<>> => made # <<>>
  <2>1. made \in Seq(Worth) /\ made' \in Seq(Worth)
    BY DEF AtApps
  <2> QED
    BY <2>1
<1>3. Papers'
  BY <1>2 DEF Papers
<1> QED
  BY <1>1, <1>3

CustomersCards == Card!publish \/ Card!sendAccount \/ Card!confirmPaid \/ Card!cancel \/ Card!Pay(Customer)
SponsorsCards(p) == Card!Pay(p) \/ Card!publishClaim(p) \/ Card!remit(p) \/ \E worth \in {"good", "bad"} : Card!handleSubmit(p, worth)
AppsHear == Card!onSubmitted \/ Card!InvoiceExpires \/ Card!handleAccountInfo \/ Card!setClaimError \/ Card!Reload \/ \E p \in Card!Parties : Card!Hear(p)

LEMMA CustomersKeep ==
  ASSUME Card!LnCardsAssumption, CardIInv, CustomersCards
  PROVE  CardIInv'
<1> USE DEF CardIInv, Typed
<1>1. Customer \in Card!Parties /\ shown[Customer] \in Cards
  BY DEF Card!Parties, AtApps
<1>2. CASE Card!publish
  <2> DEFINE r == Card!Request("order-request", Customer, 0)
  <2>1. /\ requests' = requests \cup {r} /\ UNCHANGED <<Card!daemon, paid, account, shown, Card!sponsor>> /\ raw' = TRUE
    BY <1>2 DEF Card!publish, Card!send
  <2>2. r \in Asked /\ r.action = "order-request"
    BY DEF Card!Request, Asked
  <2>3. AtApps'
    BY <2>1 DEF AtApps, Card!daemon, Card!sponsor
  <2>4. (account' => invoice # 0) /\ made' = made /\ account' = account
    BY <2>1 DEF Papers, Card!sponsor
  <2>5. Len(made) \in Nat
    BY Lengths
  <2> HIDE DEF CardIInv, Typed
  <2> QED
    BY <2>1, <2>2, <2>3, <2>4, <2>5, SendingKeeps
<1>3. CASE Card!sendAccount
  <2> DEFINE r == Card!Request("account-info", Customer, 0)
  <2>1. /\ requests' = requests \cup {r} /\ UNCHANGED <<Card!daemon, paid, raw, shown, Card!sponsor>> /\ account' = TRUE
        /\ "send-account" \in Card!offers(Customer)
    BY <1>3 DEF Card!sendAccount, Card!send
  <2>2. r \in Asked /\ r.action = "account-info"
    BY DEF Card!Request, Asked
  <2>3. AtApps'
    BY <2>1 DEF AtApps, Card!daemon, Card!sponsor
  <2>4. shown[Customer].st \in {"invoiced", "remitted"}
    BY <2>1 DEF Card!offers, Card!customerActions, Card!draftView, Card!canSendAccountInfo
  <2>5. invoice # 0 /\ made' = made
    BY <1>1, <2>1, <2>4 DEF Views, Invoiced, Card!sponsor
  <2>6. Len(made) \in Nat
    BY Lengths
  <2> HIDE DEF CardIInv, Typed
  <2> QED
    BY <2>1, <2>2, <2>3, <2>5, <2>6, SendingKeeps
<1>4. CASE Card!confirmPaid \/ Card!cancel
  <2>1. PICK r \in {Card!Request("payment-confirm", Customer, 0), Card!Request("cancel-request", Customer, 0), Card!Request("cancel-request", Customer, 1)} :
          requests' = requests \cup {r}
    BY <1>4 DEF Card!confirmPaid, Card!cancel, Card!send
  <2>2. UNCHANGED <<Card!daemon, paid, Card!customer, shown, Card!sponsor>>
    BY <1>4 DEF Card!confirmPaid, Card!cancel
  <2>3. r \in Asked /\ r.action \in {"payment-confirm", "cancel-request"}
    BY DEF Card!Request, Asked
  <2>4. AtApps'
    BY <2>2 DEF AtApps, Card!daemon, Card!customer, Card!sponsor
  <2>5. (account' => invoice # 0) /\ made' = made /\ raw' = raw /\ account' = account /\ Len(made) \in Nat
    BY <2>2, Lengths DEF Papers, Card!customer, Card!sponsor
  <2> HIDE DEF CardIInv, Typed
  <2> QED
    BY <2>1, <2>2, <2>3, <2>4, <2>5, SendingKeeps
<1>5. CASE Card!Pay(Customer)
  <2>1. UNCHANGED <<Card!daemon, requests, Card!customer, shown, Card!sponsor>>
    BY <1>5 DEF Card!Pay
  <2>2. AtApps' /\ made' = made /\ raw' = raw /\ account' = account
    BY <2>1 DEF AtApps, Card!daemon, Card!customer, Card!sponsor
  <2> HIDE DEF CardIInv, Typed
  <2> QED
    BY <2>1, <2>2, KeepingKeeps
<1> QED
  BY <1>2, <1>3, <1>4, <1>5 DEF CustomersCards

LEMMA FormIsOfTheSponsor ==
  ASSUME Card!LnCardsAssumption, CardIInv, NEW p \in Sponsors, "register-invoice" \in Card!offers(p)
  PROVE  trade.st \in AfterEscrow /\ trade.sponsor = p
<1>1. p \in Card!Parties /\ p # Customer /\ shown[p] \in Cards
  BY DEF Card!Parties, Card!LnCardsAssumption, CardIInv, Typed, AtApps
<1>2. shown[p].sponsor = p /\ shown[p].st \in Reached
  BY <1>1 DEF Card!offers, Card!sponsorActions, Card!resubmit, Reached, Card!Paying
<1> QED
  BY <1>1, <1>2 DEF CardIInv, Views

LEMMA SponsorsKeep ==
  ASSUME Card!LnCardsAssumption, CardIInv, NEW p \in Sponsors, SponsorsCards(p)
  PROVE  CardIInv'
<1> USE DEF CardIInv, Typed
<1>1. p \in Card!Parties /\ p # Customer /\ shown[p] \in Cards
  BY DEF Card!Parties, AtApps, Card!LnCardsAssumption
<1>2. CASE Card!Pay(p)
  <2>1. UNCHANGED <<Card!daemon, requests, Card!customer, shown, Card!sponsor>>
    BY <1>2 DEF Card!Pay
  <2>2. AtApps' /\ made' = made /\ raw' = raw /\ account' = account
    BY <2>1 DEF AtApps, Card!daemon, Card!customer, Card!sponsor
  <2> HIDE DEF CardIInv, Typed
  <2> QED
    BY <2>1, <2>2, KeepingKeeps
<1>3. CASE Card!publishClaim(p)
  <2> DEFINE r == Card!Request("claim", p, claims)
  <2>1. requests' = requests \cup {r} /\ UNCHANGED <<Card!daemon, paid, Card!customer, shown, Card!sponsor>> /\ "claim" \in Card!offers(p) /\ claims < MaxClaims
    BY <1>3 DEF Card!publishClaim, Card!send
  <2>2. r \in Asked /\ r.action = "claim"
    BY DEF Card!Request, Asked, Records
  <2>3. AtApps'
    BY <2>1 DEF AtApps, Card!daemon, Card!customer, Card!sponsor
  <2>4. shown[p].st = "requested"
    BY <1>1, <2>1 DEF Card!offers, Card!sponsorActions
  <2>5. trade.st \in Card!OrderState
    BY <1>1, <2>4 DEF Views, Card!OrderState
  <2>6. (account' => invoice # 0) /\ made' = made /\ raw' = raw /\ account' = account /\ Len(made) \in Nat
    BY <2>1, Lengths DEF Papers, Card!customer, Card!sponsor
  <2>7. MaxClaims > 0
    <3>1. claims \in Nat /\ MaxClaims \in Nat /\ claims < MaxClaims
      BY <2>1 DEF Records, Card!LnCardsAssumption
    <3> QED
      BY ONLY <3>1
  <2> HIDE DEF CardIInv, Typed
  <2> QED
    BY <2>1, <2>2, <2>3, <2>5, <2>6, <2>7, SendingKeeps
<1>4. CASE Card!remit(p)
  <2> DEFINE r == Card!Request("remit-request", p, 0)
  <2>1. requests' = requests \cup {r} /\ UNCHANGED <<Card!daemon, paid, Card!customer, shown, Card!sponsor>>
    BY <1>4 DEF Card!remit, Card!send
  <2>2. r \in Asked /\ r.action = "remit-request"
    BY DEF Card!Request, Asked
  <2>3. AtApps'
    BY <2>1 DEF AtApps, Card!daemon, Card!customer, Card!sponsor
  <2>4. (account' => invoice # 0) /\ made' = made /\ raw' = raw /\ account' = account /\ Len(made) \in Nat
    BY <2>1, Lengths DEF Papers, Card!customer, Card!sponsor
  <2> HIDE DEF CardIInv, Typed
  <2> QED
    BY <2>1, <2>2, <2>3, <2>4, SendingKeeps
<1>5. ASSUME NEW worth \in {"good", "bad"}, Card!handleSubmit(p, worth)
      PROVE  CardIInv'
  <2> DEFINE r == Card!Request("sponsor-invoice", p, Len(made'))
  <2>1. /\ requests' = requests \cup {r} /\ UNCHANGED <<Card!daemon, paid, Card!customer, shown, received, heard, claimError, reloads>>
        /\ made' = IF Len(made) < MaxInvoices THEN Append(made, worth) ELSE made
    BY <1>5 DEF Card!handleSubmit, Card!send
  <2>2. trade.st \in AfterEscrow /\ trade.sponsor = p
    BY <1>5, FormIsOfTheSponsor DEF Card!handleSubmit
  <2>3. made \in Seq(Worth) /\ Len(made) \in Nat /\ Len(made) <= MaxInvoices /\ MaxInvoices \in Nat \ {0} /\ invoice \in 0 .. Len(made)
    BY Lengths
  <2>4. made' \in Seq(Worth) /\ Len(made') = IF Len(made) < MaxInvoices THEN Len(made) + 1 ELSE Len(made)
    BY <2>1, <2>3 DEF Worth
  <2>5. /\ Len(made') \in Nat \ {0} /\ Len(made') <= MaxInvoices /\ Len(made) <= Len(made')
        /\ Len(made') < MaxInvoices => Len(made') # invoice
    BY <2>3, <2>4
  <2>6. r \in Asked /\ r.action = "sponsor-invoice" /\ r.by = p /\ r.arg = Len(made')
    BY <2>5 DEF Card!Request, Asked
  <2>7. AtApps'
    <3>1. invoice' = invoice /\ invoice \in 0 .. Len(made')
      <4>1. invoice' = invoice
        BY <2>1 DEF Card!daemon
      <4> QED
        BY <2>3, <2>5, <4>1
    <3>2. /\ raw' \in BOOLEAN /\ account' \in BOOLEAN /\ shown' \in [Card!Parties -> Cards] /\ received' \in BOOLEAN
          /\ heard' \subseteq 1 .. Len(notices') /\ claimError' \in {"", "rejected", "warning", "expired"}
      BY <2>1 DEF AtApps, Card!daemon, Card!customer
    <3> QED
      BY <2>4, <2>5, <3>1, <3>2 DEF AtApps
  <2>8. (account' => invoice # 0) /\ raw' = raw /\ account' = account
    BY <2>1 DEF Papers, Card!customer
  <2>9. r.arg \in 1 .. Len(made') /\ (r.arg < MaxInvoices => r.arg # invoice)
    BY <2>5, <2>6
  <2> HIDE DEF CardIInv, Typed, r
  <2>10. UNCHANGED <<Card!daemon, shown>>
    BY <2>1
  <2>11. requests' = requests \cup {r}
    BY <2>1
  <2> QED
    BY <2>2, <2>5, <2>6, <2>7, <2>8, <2>9, <2>10, <2>11, SendingKeeps
<1> QED
  BY <1>2, <1>3, <1>4, <1>5 DEF SponsorsCards

LEMMA HearingKeeps ==
  ASSUME Card!LnCardsAssumption, CardIInv, AppsHear
  PROVE  CardIInv'
<1> USE DEF CardIInv, Typed
<1>1. CASE Card!onSubmitted \/ Card!handleAccountInfo \/ Card!Reload
  <2>1. UNCHANGED <<Card!daemon, requests, shown, raw, account, made>> /\ AtApps'
    BY <1>1 DEF Card!onSubmitted, Card!handleAccountInfo, Card!Reload, AtApps, Card!daemon, Card!customer
  <2> HIDE DEF CardIInv, Typed
  <2> QED
    BY <2>1, KeepingKeeps
<1>2. CASE Card!setClaimError
  <2>1. PICK i \in (DOMAIN notices) \ heard : heard' = heard \cup {i} /\ claimError' = notices[i].kind
    BY <1>2 DEF Card!setClaimError
  <2>2. UNCHANGED <<Card!daemon, requests, shown, raw, account, made, received>>
    BY <1>2 DEF Card!setClaimError, Card!customer
  <2>3. notices \in Seq(Notices) /\ i \in 1 .. Len(notices) /\ notices[i] \in Notices
    <3>1. notices \in Seq(Notices) /\ i \in DOMAIN notices
      BY <2>1 DEF Records
    <3> QED
      BY ONLY <3>1
  <2>4. notices[i].kind \in {"rejected", "warning", "expired"}
    BY <2>3 DEF Notices
  <2>5. AtApps'
    BY <2>1, <2>2, <2>3, <2>4 DEF AtApps, Card!daemon
  <2> HIDE DEF CardIInv, Typed
  <2> QED
    BY <2>2, <2>5, KeepingKeeps
<1>3. CASE Card!InvoiceExpires
  <2>1. PICK n \in DOMAIN made : made' = [made EXCEPT ![n] = "expired"]
    BY <1>3 DEF Card!InvoiceExpires
  <2>2. UNCHANGED <<Card!daemon, requests, shown, raw, account, received, heard, claimError>>
    BY <1>3 DEF Card!InvoiceExpires, Card!customer
  <2>3. made \in Seq(Worth)
    BY DEF AtApps
  <2>4. made' \in Seq(Worth) /\ Len(made') = Len(made)
    BY <2>1, <2>3 DEF Worth
  <2>5. AtApps'
    BY <2>2, <2>4 DEF AtApps, Card!daemon
  <2> HIDE DEF CardIInv, Typed
  <2> QED
    BY <2>2, <2>4, <2>5, KeepingKeeps
<1>4. ASSUME NEW p \in Card!Parties, Card!Hear(p)
      PROVE  CardIInv'
  <2>1. UNCHANGED <<Card!daemon, paid, requests, Card!customer, Card!sponsor>> /\ shown' = [shown EXCEPT ![p] = trade] /\ trade.st # "none"
    BY <1>4 DEF Card!Hear
  <2>2. AtApps'
    BY <2>1 DEF AtApps, Records, Card!daemon, Card!customer, Card!sponsor
  <2>3. Records' /\ Course' /\ Papers' /\ Bounded'
    BY <2>1 DEF Records, Course, Papers, Bounded, Card!daemon, Card!customer, Card!sponsor
  <2>4. trade' = trade /\ invoice' = invoice /\ \A q \in Card!Parties : shown'[q] = IF q = p THEN trade ELSE shown[q]
    BY <2>1 DEF AtApps, Card!daemon
  <2>5. trade.st \in Reached => trade.st \in AfterEscrow
    BY Tables DEF Reached, AfterEscrow, Card!Paying
  <2>6. trade.st \in Invoiced => invoice # 0
    BY DEF Course
  <2>7. Views'
    BY <2>4, <2>5, <2>6 DEF Views
  <2> QED
    BY <2>2, <2>3, <2>7
<1> QED
  BY <1>1, <1>2, <1>3, <1>4 DEF AppsHear

-----------------------------------------------------------------------------
(* What the daemon does. *)

LEMMA MovingKeeps ==
  ASSUME Card!LnCardsAssumption, CardIInv, Records', Course', Bounded', UNCHANGED <<Card!customer, shown, Card!sponsor>>,
         requests' \subseteq requests, invoice' \in 0 .. Len(made), Len(notices) <= Len(notices'),
         trade.st \in Card!OrderState => trade'.st \in Card!OrderState,
         trade.st \in AfterEscrow => trade'.st \in AfterEscrow /\ trade'.sponsor = trade.sponsor,
         invoice # 0 => invoice' # 0,
         trade'.st = "none" => trade.st = "none" /\ (Card!Request("order-request", Customer, 0) \in requests => Card!Request("order-request", Customer, 0) \in requests'),
         invoice' # invoice => \A r \in requests' : r.action = "sponsor-invoice" => (r.arg < MaxInvoices => r.arg # invoice')
  PROVE  CardIInv'
<1> USE DEF CardIInv, Typed
<1>1. /\ made' = made /\ raw' = raw /\ account' = account /\ received' = received /\ heard' = heard /\ claimError' = claimError /\ shown' = shown
  BY DEF Card!customer, Card!sponsor
<1>2. AtApps'
  <2>1. 1 .. Len(notices) \subseteq 1 .. Len(notices')
    <3>1. notices' \in Seq(Notices) /\ notices \in Seq(Notices)
      BY DEF Records
    <3>2. Len(notices) \in Nat /\ Len(notices') \in Nat
      BY ONLY <3>1
    <3> QED
      BY <3>2
  <2> QED
    BY <1>1, <2>1 DEF AtApps
<1>3. Views'
  BY <1>1 DEF Views
<1>4. Papers'
  BY <1>1 DEF Papers
<1> QED
  BY <1>2, <1>3, <1>4

LEMMA Unmoved ==
  ASSUME Card!LnCardsAssumption, CardIInv, UNCHANGED <<invoice, notices>>
  PROVE  invoice' \in 0 .. Len(made) /\ notices' \in Seq(Notices) /\ Len(notices) <= Len(notices')
<1>1. invoice' = invoice /\ notices' = notices
  OBVIOUS
<1>2. Len(notices) \in Nat /\ notices \in Seq(Notices) /\ invoice \in 0 .. Len(made)
  BY Lengths
<1>3. Len(notices') = Len(notices)
  BY <1>1
<1>4. Len(notices) <= Len(notices')
  BY <1>2, <1>3
<1> QED
  BY <1>1, <1>2, <1>4

\* The state alone changes.
LEMMA Turns ==
  ASSUME trade \in Cards, NEW s \in CardStates, trade' = [trade EXCEPT !.st = s]
  PROVE  trade' \in Cards /\ trade'.st = s /\ trade'.sponsor = trade.sponsor /\ trade'.deposit = trade.deposit /\ trade'.disbursed = trade.disbursed
BY DEF Cards

LEMMA TurningKeeps ==
  ASSUME Card!LnCardsAssumption, CardIInv, NEW s \in CardStates, trade' = [trade EXCEPT !.st = s],
         UNCHANGED <<invoice, committed, claims, notices, Card!customer, shown, Card!sponsor>>,
         requests' \subseteq requests,
         payout' \in {"none", "due", "expired", "done"}, closing' \in Card!LnCloseReason \cup {""},
         trade.st \in AfterEscrow => s \in AfterEscrow,
         trade.st \in Card!OrderState => s \in Card!OrderState, s # "none", s # "claimed",
         s = "requested" => trade.sponsor = NoOne /\ claims = 0,
         s \in {"draft", "dropped"} => trade.sponsor = NoOne /\ claims = 0,
         s \in {"verified"} \cup Reached => trade.sponsor # NoOne,
         closing' # "" => s \in Card!OrderState \ Card!Terminal,
         closing' \in {"paid", "sponsor_wins"} => s \in {"invoiced", "remitted"},
         s \in Invoiced => invoice # 0, s \notin Invoiced \cup Card!Terminal => invoice = 0
  PROVE  CardIInv'
<1>1. trade \in Cards
  BY DEF CardIInv, Typed, Records
<1>2. trade' \in Cards /\ trade'.st = s /\ trade'.sponsor = trade.sponsor /\ trade'.deposit = trade.deposit
  BY <1>1, Turns
<1>3. Records'
  BY <1>2 DEF CardIInv, Typed, Records
<1>4. Course'
  BY <1>2 DEF CardIInv, Course, Card!customer
<1>5. Bounded'
  BY <1>2 DEF CardIInv, Bounded
<1>6. invoice' \in 0 .. Len(made) /\ Len(notices) <= Len(notices')
  BY Unmoved
<1> QED
  BY <1>2, <1>3, <1>4, <1>5, <1>6, MovingKeeps

\* The order stays where it is.
LEMMA StayingKeeps ==
  ASSUME Card!LnCardsAssumption, CardIInv, trade' \in Cards, trade'.st = trade.st, trade'.sponsor = trade.sponsor, (trade'.sponsor = NoOne) = (trade'.deposit = "none"),
         UNCHANGED <<invoice, claims, Card!customer, shown, Card!sponsor>>,
         requests' \subseteq requests,
         trade.st = "none" /\ Card!Request("order-request", Customer, 0) \in requests => Card!Request("order-request", Customer, 0) \in requests',
         payout' \in {"none", "due", "expired", "done"}, closing' \in Card!LnCloseReason \cup {""},
         notices' \in Seq(Notices), Len(notices) <= Len(notices'), committed' \in BOOLEAN, committed' => account,
         closing' # "" => trade.st \in Card!OrderState \ Card!Terminal,
         closing' \in {"paid", "sponsor_wins"} => trade.st \in {"invoiced", "remitted"}
  PROVE  CardIInv'
<1>1. Records'
  BY DEF CardIInv, Typed, Records
<1>2. Course'
  BY DEF CardIInv, Course, Card!customer
<1>3. Bounded'
  BY DEF CardIInv, Bounded
<1>4. invoice' \in 0 .. Len(made)
  BY Lengths
<1> QED
  BY <1>1, <1>2, <1>3, <1>4, MovingKeeps

DaemonsOwn ==
  \/ Card!customerDepositAccepted \/ Card!draftDropped \/ Card!sponsorDepositAccepted \/ Card!revertClaim \/ Card!approve \/ Card!escrowAccepted
  \/ Card!Close \/ Card!finishClose \/ Card!Payout \/ Card!Probe

LEMMA OwnKeeps ==
  ASSUME Card!LnCardsAssumption, CardIInv, DaemonsOwn
  PROVE  CardIInv'
<1> USE Tables DEF Reached, Invoiced, AfterEscrow, Card!Paying
<1>1. /\ trade \in Cards /\ (trade.sponsor = NoOne) = (trade.deposit = "none") /\ closing \in Card!LnCloseReason \cup {""}
      /\ payout \in {"none", "due", "expired", "done"} /\ committed \in BOOLEAN /\ claims \in Nat
  BY DEF CardIInv, Typed, Records
<1>2. UNCHANGED <<requests, Card!customer, shown, Card!sponsor>>
  BY DEF DaemonsOwn, Card!customerDepositAccepted, Card!draftDropped, Card!sponsorDepositAccepted, Card!revertClaim, Card!approve, Card!escrowAccepted,
         Card!Close, Card!finishClose, Card!Payout, Card!Probe, Card!elsewhere
<1>3. CASE Card!customerDepositAccepted
  <2>1. trade.st = "draft" /\ trade' = [trade EXCEPT !.st = "requested"] /\ UNCHANGED <<closing, invoice, payout, committed, claims, notices>>
    BY <1>3 DEF Card!customerDepositAccepted
  <2>2. trade.sponsor = NoOne /\ claims = 0 /\ closing = "" /\ invoice = 0
    BY <2>1 DEF CardIInv, Course, Bounded, Card!OrderState
  <2> QED
    BY <1>1, <1>2, <2>1, <2>2, TurningKeeps DEF CardStates, Card!OrderState
<1>4. CASE Card!draftDropped
  <2>1. trade.st = "draft" /\ trade' = [trade EXCEPT !.st = "dropped"] /\ UNCHANGED <<closing, invoice, payout, committed, claims, notices>>
    BY <1>4 DEF Card!draftDropped
  <2>2. trade.sponsor = NoOne /\ claims = 0 /\ closing = "" /\ invoice = 0
    BY <2>1 DEF CardIInv, Course, Bounded, Card!OrderState
  <2> QED
    BY <1>1, <1>2, <2>1, <2>2, TurningKeeps DEF CardStates, Card!OrderState
<1>5. CASE Card!sponsorDepositAccepted
  <2>1. trade.st = "claimed" /\ trade' = [trade EXCEPT !.deposit = "held"] /\ UNCHANGED <<closing, invoice, payout, committed, claims, notices>>
    BY <1>5 DEF Card!sponsorDepositAccepted
  <2>2. trade' \in Cards /\ trade'.st = trade.st /\ trade'.sponsor = trade.sponsor /\ trade'.deposit = "held"
    BY <1>1, <2>1 DEF Cards
  <2>3. trade.sponsor # NoOne /\ closing = ""
    BY <1>5, <2>1 DEF CardIInv, Course, Card!sponsorDepositAccepted
  <2>4. committed => account
    BY DEF CardIInv, Course
  <2> QED
    BY <1>1, <1>2, <2>1, <2>2, <2>3, <2>4, Unmoved, StayingKeeps
<1>6. CASE Card!revertClaim
  <2>1. /\ trade.st = "claimed" /\ trade' = [trade EXCEPT !.st = "requested", !.sponsor = NoOne, !.deposit = "none"]
        /\ UNCHANGED <<closing, invoice, payout, committed, claims, notices>> /\ closing = "" /\ claims < MaxClaims
    BY <1>6 DEF Card!revertClaim
  <2>2. trade' \in Cards /\ trade'.st = "requested" /\ trade'.sponsor = NoOne /\ trade'.deposit = "none"
    BY <1>1, <2>1 DEF Cards, CardStates, Card!OrderState
  <2>3. Records'
    BY <1>2, <2>1, <2>2 DEF CardIInv, Typed, Records
  <2>4. Course'
    BY <1>2, <2>1, <2>2 DEF CardIInv, Course, Card!customer
  <2>5. Bounded'
    BY <1>2, <2>1, <2>2 DEF CardIInv, Bounded
  <2>6. invoice' \in 0 .. Len(made) /\ Len(notices) <= Len(notices')
    BY <2>1, Unmoved
  <2> QED
    BY <1>2, <2>1, <2>2, <2>3, <2>4, <2>5, <2>6, MovingKeeps DEF Card!OrderState
<1>7. CASE Card!approve
  <2>1. trade.st = "claimed" /\ trade' = [trade EXCEPT !.st = "verified"] /\ closing = "" /\ UNCHANGED <<closing, invoice, payout, committed, claims, notices>>
    BY <1>7 DEF Card!approve
  <2>2. trade.sponsor # NoOne /\ invoice = 0
    BY <2>1 DEF CardIInv, Course
  <2> QED
    BY <1>1, <1>2, <2>1, <2>2, TurningKeeps DEF CardStates, Card!OrderState
<1>8. CASE Card!escrowAccepted
  <2>1. trade.st = "verified" /\ trade' = [trade EXCEPT !.st = "escrowed"] /\ closing = "" /\ UNCHANGED <<closing, invoice, payout, committed, claims, notices>>
    BY <1>8 DEF Card!escrowAccepted
  <2>2. trade.sponsor # NoOne /\ invoice = 0
    BY <2>1 DEF CardIInv, Course
  <2> QED
    BY <1>1, <1>2, <2>1, <2>2, TurningKeeps DEF CardStates, Card!OrderState
<1>9. CASE Card!Close
  <2>1. /\ trade.st \in Card!OrderState \ Card!Terminal /\ UNCHANGED <<trade, invoice, payout, committed, claims, notices>>
        /\ closing' \in
             ({Card!expiryReasonFor(trade.st, trade.sponsor # NoOne, committed)} \ {"none"})
             \cup (IF trade.st \in {"escrowed", "invoiced"} THEN {"admin_closed"} ELSE {})
             \cup (IF trade.st = "remitted" THEN {"sponsor_wins", "customer_wins"} ELSE {})
    BY <1>9 DEF Card!Close
  <2>2. Card!expiryReasonFor(trade.st, trade.sponsor # NoOne, committed) \in (Card!LnCloseReason \ {"paid", "sponsor_wins"}) \cup {"none"}
    BY Tables
  <2>3. closing' \in Card!LnCloseReason /\ (closing' \in {"paid", "sponsor_wins"} => trade.st = "remitted")
    BY <2>1, <2>2 DEF Card!LnCloseReason
  <2>4. committed => account
    BY DEF CardIInv, Course
  <2> QED
    BY <1>1, <1>2, <2>1, <2>3, <2>4, Unmoved, StayingKeeps
<1>10. CASE Card!finishClose
  <2> DEFINE s == Card!CLOSE_RULES[closing].terminal
  <2>1. closing # "" /\ closing' = "" /\ trade' = [trade EXCEPT !.st = s] /\ UNCHANGED <<invoice, committed, claims, notices>>
    BY <1>10 DEF Card!finishClose
  <2>2. s \in Card!Terminal /\ (s \in Card!Paying => closing \in {"paid", "sponsor_wins"})
    BY <1>1, <2>1
  <2>3. payout' \in {"none", "due", "expired", "done"}
    BY <1>1, <1>10 DEF Card!finishClose
  <2>4. trade.st \in Card!OrderState \ Card!Terminal /\ (s \in Card!Paying => trade.st \in {"invoiced", "remitted"})
    BY <2>1, <2>2 DEF CardIInv, Course
  <2>5. s \in Card!Paying => trade.sponsor # NoOne /\ invoice # 0
    BY <2>4 DEF CardIInv, Course
  <2> HIDE DEF s
  <2>6. s \in CardStates /\ s \in Card!OrderState
    BY <2>2 DEF CardStates, Card!OrderState
  <2> QED
    BY <1>2, <2>1, <2>2, <2>3, <2>4, <2>5, <2>6, TurningKeeps
<1>11. CASE Card!Payout
  <2>1. UNCHANGED <<closing, invoice, committed, claims>> /\ payout' \in {"done", "expired"}
    BY <1>11 DEF Card!Payout
  <2>2. /\ trade' \in Cards /\ trade'.st = trade.st /\ trade'.sponsor = trade.sponsor /\ trade'.deposit = trade.deposit
    <3>1. trade' = [trade EXCEPT !.disbursed = TRUE] \/ trade' = trade
      BY <1>11 DEF Card!Payout
    <3> QED
      BY <1>1, <3>1 DEF Cards
  <2>3. notices' = notices \/ notices' = Append(notices, [kind |-> "expired", n |-> invoice])
    BY <1>11 DEF Card!Payout, Card!Notify
  <2>4. notices' \in Seq(Notices) /\ Len(notices) <= Len(notices')
    <3>1. [kind |-> "expired", n |-> invoice] \in Notices
      BY Lengths DEF Notices
    <3>2. notices \in Seq(Notices) /\ Len(notices) \in Nat
      BY Lengths
    <3> QED
      BY ONLY <2>3, <3>1, <3>2
  <2>5. committed => account
    BY DEF CardIInv, Course
  <2>6. (closing # "" => trade.st \in Card!OrderState \ Card!Terminal) /\ (closing \in {"paid", "sponsor_wins"} => trade.st \in {"invoiced", "remitted"})
    BY DEF CardIInv, Course
  <2> QED
    BY <1>1, <1>2, <2>1, <2>2, <2>4, <2>5, <2>6, StayingKeeps
<1>12. CASE Card!Probe
  <2>1. UNCHANGED <<trade, closing, invoice, payout, committed, claims>> /\ notices' = Append(notices, [kind |-> "warning", n |-> invoice])
    BY <1>12 DEF Card!Probe, Card!Notify
  <2>2. notices' \in Seq(Notices) /\ Len(notices) <= Len(notices')
    <3>1. [kind |-> "warning", n |-> invoice] \in Notices
      BY Lengths DEF Notices
    <3>2. notices \in Seq(Notices) /\ Len(notices) \in Nat
      BY Lengths
    <3> QED
      BY ONLY <2>1, <3>1, <3>2
  <2>3. committed => account
    BY DEF CardIInv, Course
  <2>4. (closing # "" => trade.st \in Card!OrderState \ Card!Terminal) /\ (closing \in {"paid", "sponsor_wins"} => trade.st \in {"invoiced", "remitted"})
    BY DEF CardIInv, Course
  <2> QED
    BY <1>1, <1>2, <2>1, <2>2, <2>3, <2>4, StayingKeeps
<1> QED
  BY <1>3, <1>4, <1>5, <1>6, <1>7, <1>8, <1>9, <1>10, <1>11, <1>12 DEF DaemonsOwn

\* What is taken, with what it does.
InvoiceTaken(r) ==
  /\ r.action = "sponsor-invoice" /\ trade.sponsor = r.by /\ invoice # r.arg /\ Card!sponsorInvoice(r.arg)
  /\ trade.st \in {"escrowed", "invoiced", "remitted"} \/ (trade.st \in Card!Paying /\ ~trade.disbursed /\ payout = "expired")
Taken(r) ==
  \/ r.action = "order-request" /\ trade.st = "none" /\ Card!orderRequest
  \/ r.action = "claim" /\ Card!canTransition(trade.st, "claimed") /\ Card!claim(r.by)
  \/ r.action = "cancel-request" /\ trade.st \in {"requested", "claimed", "verified"} /\ Card!cancelRequest
  \/ r.action = "payment-confirm" /\ trade.st \in {"invoiced", "remitted"} /\ Card!paymentConfirm
  \/ r.action = "account-info" /\ trade.st \in {"invoiced", "remitted"} /\ ~committed /\ Card!accountInfo
  \/ r.action = "remit-request" /\ trade.sponsor = r.by /\ trade.st = "invoiced" /\ Card!remitRequest
  \/ InvoiceTaken(r)

LEMMA HandledIsTaken ==
  ASSUME CardIInv, Card!Handle
  PROVE  \E r \in requests :
           /\ requests' = requests \ {r} /\ UNCHANGED <<paid, Card!customer, shown, Card!sponsor>>
           /\ \/ ~Card!takes(r) /\ UNCHANGED Card!daemon
              \/ closing = "" /\ Taken(r)
<1>1. PICK r \in requests :
        /\ requests' = requests \ {r}
        /\ IF ~Card!takes(r) THEN UNCHANGED Card!daemon
           ELSE CASE r.action = "order-request" -> Card!orderRequest
                  [] r.action = "claim" -> Card!claim(r.by)
                  [] r.action = "cancel-request" -> Card!cancelRequest
                  [] r.action = "payment-confirm" -> Card!paymentConfirm
                  [] r.action = "account-info" -> Card!accountInfo
                  [] r.action = "remit-request" -> Card!remitRequest
                  [] r.action = "sponsor-invoice" -> Card!sponsorInvoice(r.arg)
        /\ UNCHANGED <<paid, Card!customer, shown, Card!sponsor>>
  BY DEF Card!Handle
<1>2. r.action \in {"order-request", "account-info", "payment-confirm", "cancel-request", "claim", "remit-request", "sponsor-invoice"}
  BY DEF CardIInv, Typed, Records, Asked
<1>3. ASSUME Card!takes(r) PROVE closing = "" /\ Taken(r)
  <2>1. CASE r.action = "order-request"
    BY <1>1, <1>3, <2>1 DEF Card!takes, Taken
  <2>2. CASE r.action = "claim"
    BY <1>1, <1>3, <2>2 DEF Card!takes, Taken
  <2>3. CASE r.action = "cancel-request"
    BY <1>1, <1>3, <2>3 DEF Card!takes, Taken
  <2>4. CASE r.action = "payment-confirm"
    BY <1>1, <1>3, <2>4 DEF Card!takes, Taken
  <2>5. CASE r.action = "account-info"
    BY <1>1, <1>3, <2>5 DEF Card!takes, Taken
  <2>6. CASE r.action = "remit-request"
    BY <1>1, <1>3, <2>6 DEF Card!takes, Taken
  <2>7. CASE r.action = "sponsor-invoice"
    BY <1>1, <1>3, <2>7 DEF Card!takes, Taken, InvoiceTaken
  <2> QED
    BY <1>2, <2>1, <2>2, <2>3, <2>4, <2>5, <2>6, <2>7
<1> QED
  BY <1>1, <1>3

LEMMA HandlingKeeps ==
  ASSUME Card!LnCardsAssumption, CardIInv, Card!Handle
  PROVE  CardIInv'
<1> USE Tables DEF Reached, Invoiced, AfterEscrow, Card!Paying
<1>1. /\ trade \in Cards /\ (trade.sponsor = NoOne) = (trade.deposit = "none") /\ closing \in Card!LnCloseReason \cup {""}
      /\ payout \in {"none", "due", "expired", "done"} /\ committed \in BOOLEAN /\ claims \in Nat /\ requests \subseteq Asked
  BY DEF CardIInv, Typed, Records
<1>2. PICK r \in requests :
        /\ requests' = requests \ {r} /\ UNCHANGED <<paid, Card!customer, shown, Card!sponsor>>
        /\ \/ ~Card!takes(r) /\ UNCHANGED Card!daemon
           \/ closing = "" /\ Taken(r)
  BY HandledIsTaken
<1>3. /\ committed => account
      /\ closing # "" => trade.st \in Card!OrderState \ Card!Terminal
      /\ closing \in {"paid", "sponsor_wins"} => trade.st \in {"invoiced", "remitted"}
      /\ account' = account
  BY <1>2 DEF CardIInv, Course, Card!customer
<1>4. requests' \subseteq requests /\ UNCHANGED <<Card!customer, shown, Card!sponsor>>
  BY <1>2
<1>5. r.action # "order-request" /\ Card!Request("order-request", Customer, 0) \in requests => Card!Request("order-request", Customer, 0) \in requests'
  <2>1. Card!Request("order-request", Customer, 0).action = "order-request"
    BY DEF Card!Request
  <2> QED
    BY <1>2, <2>1
<1>6. CASE ~Card!takes(r) /\ UNCHANGED Card!daemon
  <2>1. trade.st # "none" \/ r.action # "order-request"
    <3>1. trade.st = "none" => closing = ""
      BY <1>3 DEF Card!OrderState
    <3> QED
      BY <1>6, <3>1 DEF Card!takes
  <2>2. UNCHANGED <<trade, closing, invoice, payout, committed, claims, notices>>
    BY <1>6 DEF Card!daemon
  <2> QED
    BY <1>1, <1>3, <1>4, <1>5, <2>1, <2>2, Unmoved, StayingKeeps
<1>7. CASE closing = "" /\ r.action = "order-request" /\ trade.st = "none" /\ Card!orderRequest
  <2>1. trade' = [trade EXCEPT !.st = "draft"] /\ UNCHANGED <<closing, invoice, payout, committed, claims, notices>>
    BY <1>7 DEF Card!orderRequest
  <2>2. trade.sponsor = NoOne /\ claims = 0 /\ invoice = 0
    BY <1>7 DEF CardIInv, Course, Bounded, Card!OrderState
  <2> QED
    BY <1>1, <1>4, <1>7, <2>1, <2>2, TurningKeeps DEF CardStates, Card!OrderState
<1>8. CASE closing = "" /\ r.action = "claim" /\ Card!canTransition(trade.st, "claimed") /\ Card!claim(r.by)
  <2>1. /\ trade' = [trade EXCEPT !.st = "claimed", !.sponsor = r.by, !.deposit = "due"] /\ claims' = claims + 1
        /\ UNCHANGED <<closing, invoice, payout, committed, notices>>
    BY <1>8 DEF Card!claim
  <2>2. trade.st = "requested" /\ MaxClaims > 0
    BY <1>2, <1>8, Tables DEF CardIInv, Papers, Bounded
  <2>3. r.by \in Sponsors /\ r.by # NoOne
    BY <1>1, <1>2, <1>8 DEF Asked, Card!LnCardsAssumption
  <2>4. trade' \in Cards /\ trade'.st = "claimed" /\ trade'.sponsor = r.by /\ trade'.deposit = "due"
    BY <1>1, <2>1, <2>3 DEF Cards, CardStates, Card!OrderState
  <2>5. claims' \in Nat /\ claims' <= MaxClaims
    <3>1. (claims = 0 \/ claims < MaxClaims) /\ claims <= MaxClaims
      BY <2>2 DEF CardIInv, Bounded
    <3>2. claims \in Nat /\ MaxClaims \in Nat /\ MaxClaims > 0 /\ claims' = claims + 1
      BY <1>1, <2>1, <2>2, Counts
    <3> QED
      BY ONLY <3>1, <3>2
  <2>6. Records'
    BY <1>1, <1>4, <2>1, <2>3, <2>4, <2>5 DEF CardIInv, Typed, Records
  <2>7. Course'
    <3>1. invoice' = 0 /\ closing' = "" /\ (committed' => account')
      BY <1>3, <1>8, <2>1, <2>2 DEF CardIInv, Course
    <3> QED
      BY <2>3, <2>4, <3>1 DEF Course
  <2>8. Bounded'
    BY <1>4, <2>2, <2>4, <2>5 DEF CardIInv, Bounded
  <2> QED
    BY <1>4, <2>1, <2>2, <2>4, <2>6, <2>7, <2>8, Unmoved, MovingKeeps DEF Card!OrderState
<1>9. CASE closing = "" /\ r.action = "cancel-request" /\ trade.st \in {"requested", "claimed", "verified"} /\ Card!cancelRequest
  <2>1. UNCHANGED <<trade, invoice, payout, committed, claims, notices>> /\ closing' \in {"cancel:customer", "cancel:customer-after-claim"}
    BY <1>9 DEF Card!cancelRequest
  <2> QED
    BY <1>1, <1>3, <1>4, <1>9, <2>1, Unmoved, StayingKeeps DEF Card!OrderState, Card!LnCloseReason
<1>10. CASE closing = "" /\ r.action = "payment-confirm" /\ trade.st \in {"invoiced", "remitted"} /\ Card!paymentConfirm
  <2>1. UNCHANGED <<trade, invoice, payout, committed, claims, notices>> /\ closing' = "paid"
    BY <1>10 DEF Card!paymentConfirm
  <2> QED
    BY <1>1, <1>3, <1>4, <1>10, <2>1, Unmoved, StayingKeeps DEF Card!OrderState, Card!LnCloseReason
<1>11. CASE closing = "" /\ r.action = "account-info" /\ trade.st \in {"invoiced", "remitted"} /\ ~committed /\ Card!accountInfo
  <2>1. UNCHANGED <<trade, closing, invoice, payout, claims, notices>> /\ committed' = TRUE
    BY <1>11 DEF Card!accountInfo
  <2>2. account
    BY <1>2, <1>11 DEF CardIInv, Papers
  <2> QED
    BY <1>1, <1>3, <1>4, <1>11, <2>1, <2>2, Unmoved, StayingKeeps
<1>12. CASE closing = "" /\ r.action = "remit-request" /\ trade.sponsor = r.by /\ trade.st = "invoiced" /\ Card!remitRequest
  <2>1. trade' = [trade EXCEPT !.st = "remitted"] /\ UNCHANGED <<closing, invoice, payout, committed, claims, notices>>
    BY <1>12 DEF Card!remitRequest
  <2>2. trade.sponsor # NoOne /\ invoice # 0
    BY <1>12 DEF CardIInv, Course
  <2> QED
    BY <1>1, <1>4, <1>12, <2>1, <2>2, TurningKeeps DEF CardStates, Card!OrderState
<1>13. CASE closing = "" /\ InvoiceTaken(r)
  <2> USE DEF InvoiceTaken
  <2> DEFINE n == r.arg
  <2>1. n \in 1 .. Len(made) /\ n \in Nat \ {0} /\ (n < MaxInvoices => n # invoice)
    <3>1. n \in 1 .. Len(made) /\ (n < MaxInvoices => n # invoice)
      BY <1>2, <1>13 DEF CardIInv, Papers
    <3> QED
      BY <3>1, Lengths
  <2>2. UNCHANGED <<closing, committed, claims>>
    BY <1>13 DEF Card!sponsorInvoice
  <2>3. CASE made[n] # "good"
    <3>1. notices' = Append(notices, [kind |-> "rejected", n |-> n]) /\ UNCHANGED <<trade, invoice, payout>>
      BY <1>13, <2>3 DEF Card!sponsorInvoice, Card!Notify
    <3>2. notices' \in Seq(Notices) /\ Len(notices) <= Len(notices')
      <4>1. [kind |-> "rejected", n |-> n] \in Notices
        BY <2>1 DEF Notices
      <4>2. notices \in Seq(Notices) /\ Len(notices) \in Nat
        BY Lengths
      <4> HIDE DEF n
      <4> QED
        BY ONLY <3>1, <4>1, <4>2
    <3> QED
      BY <1>1, <1>3, <1>4, <1>13, <2>2, <3>1, <3>2, StayingKeeps
  <2>4. CASE made[n] = "good"
    <3>1. /\ invoice' = n /\ payout' = (IF trade.st \in Card!Paying THEN "due" ELSE payout) /\ notices' = notices
          /\ trade' = IF trade.st = "escrowed" THEN [trade EXCEPT !.st = "invoiced"] ELSE trade
      BY <1>13, <2>4 DEF Card!sponsorInvoice
    <3>2. /\ trade' \in Cards /\ trade'.st = (IF trade.st = "escrowed" THEN "invoiced" ELSE trade.st)
          /\ trade'.sponsor = trade.sponsor /\ trade'.deposit = trade.deposit
      BY <1>1, <3>1 DEF Cards, CardStates, Card!OrderState
    <3>3. Records'
      BY <1>1, <1>4, <2>2, <3>1, <3>2 DEF CardIInv, Typed, Records
    <3>4. invoice' # 0
      BY <2>1, <3>1
    <3>5. Course'
      BY <1>3, <1>13, <2>2, <3>2, <3>4 DEF CardIInv, Course, Card!customer
    <3>6. Bounded'
      BY <1>4, <1>13, <2>2, <3>2 DEF CardIInv, Bounded
    <3>7. invoice' \in 0 .. Len(made) /\ Len(notices) <= Len(notices')
      <4>1. Len(notices) \in Nat /\ Len(made) \in Nat
        BY Lengths
      <4>2. Len(notices') = Len(notices)
        BY <3>1
      <4> QED
        BY <2>1, <3>1, <4>1, <4>2
    <3>8. \A q \in requests' : q.action = "sponsor-invoice" => (q.arg < MaxInvoices => q.arg # invoice')
      <4> SUFFICES ASSUME NEW q \in requests', q.action = "sponsor-invoice", q.arg = n PROVE FALSE
        BY <3>1
      <4>1. q \in requests /\ q # r /\ q.by = trade.sponsor
        BY <1>2 DEF CardIInv, Papers
      <4>2. q \in Asked /\ r \in Asked
        BY <1>1, <1>2, <4>1
      <4>3. q = r
        <5>1. q.action = r.action /\ q.by = r.by /\ q.arg = r.arg
          BY <1>13, <4>1
        <5>2. q = [action |-> q.action, by |-> q.by, arg |-> q.arg] /\ r = [action |-> r.action, by |-> r.by, arg |-> r.arg]
          BY <4>2 DEF Asked
        <5> QED
          BY <5>1, <5>2
      <4> QED
        BY <4>1, <4>3
    <3>9. /\ trade.st \in Card!OrderState /\ trade'.st \in Card!OrderState /\ trade'.st # "none"
          /\ trade.st \in AfterEscrow => trade'.st \in AfterEscrow /\ trade'.sponsor = trade.sponsor
      BY <1>13, <3>2 DEF Card!OrderState
    <3> HIDE DEF n
    <3> QED
      BY <1>4, <3>3, <3>4, <3>5, <3>6, <3>7, <3>8, <3>9, MovingKeeps
  <2> QED
    BY <2>3, <2>4
<1> QED
  BY <1>2, <1>6, <1>7, <1>8, <1>9, <1>10, <1>11, <1>12, <1>13 DEF Taken

LEMMA StepsOfNext == [Card!Next]_(Card!vars) => \/ Card!Handle \/ DaemonsOwn \/ CustomersCards \/ AppsHear \/ UNCHANGED Card!vars \/ \E p \in Sponsors : SponsorsCards(p)
BY DEF Card!Next, Card!CustomerPresses, Card!SponsorPresses, Card!DaemonMoves, DaemonsOwn, CustomersCards, SponsorsCards, AppsHear

LEMMA GoesOn ==
  ASSUME Card!LnCardsAssumption, CardIInv, [Card!Next]_(Card!vars)
  PROVE  CardIInv'
<1>1. CASE UNCHANGED Card!vars
  <2>1. /\ UNCHANGED <<trade, closing, invoice, payout, committed, claims, requests, notices>>
        /\ UNCHANGED <<raw, account, shown, received, heard, claimError, made>>
    BY <1>1 DEF Card!vars, Card!daemon, Card!customer, Card!sponsor
  <2>2. Records' /\ AtApps'
    <3>1. Records'
      BY <2>1 DEF CardIInv, Typed, Records
    <3>2. AtApps'
      BY <2>1 DEF CardIInv, Typed, AtApps
    <3> QED
      BY <3>1, <3>2
  <2>4. Course'
    BY <2>1 DEF CardIInv, Course
  <2>3. (Views /\ Papers /\ Bounded)'
    BY <2>1 DEF CardIInv, Views, Papers, Bounded
  <2> QED
    BY <2>2, <2>3, <2>4 DEF CardIInv, Typed
<1> QED
  BY <1>1, StepsOfNext, HandlingKeeps, OwnKeeps, CustomersKeep, HearingKeeps, SponsorsKeep

LEMMA Kept == ASSUME Card!LnCardsAssumption PROVE Card!Spec => []CardIInv
<1>1. Card!Init => CardIInv
  BY Starts
<1>2. CardIInv /\ [Card!Next]_(Card!vars) => CardIInv'
  BY GoesOn
<1> QED
  BY <1>1, <1>2, PTL DEF Card!Spec

-----------------------------------------------------------------------------
(* What follows without a condition. *)

\* The variables hold what the daemon and the apps store.
THEOREM CardsAreTyped == ASSUME Card!LnCardsAssumption PROVE Card!Spec => []Card!TypeOK
<1>1. CardIInv => Card!TypeOK
  <2> SUFFICES ASSUME CardIInv PROVE Card!TypeOK
    OBVIOUS
  <2>1. trade.st \in CardStates
    BY DEF CardIInv, Typed, Records, Cards
  <2>2. claims \in 0 .. MaxClaims
    <3>1. claims \in Nat /\ MaxClaims \in Nat /\ claims <= MaxClaims
      BY Counts DEF CardIInv, Typed, Records, Bounded
    <3> QED
      BY ONLY <3>1
  <2>3. invoice \in 0 .. Len(made) /\ heard \subseteq DOMAIN notices
    BY Lengths DEF CardIInv, Typed, AtApps
  <2> QED
    BY <2>1, <2>2, <2>3 DEF Card!TypeOK, CardIInv, Typed, Records, AtApps, CardStates
<1> QED
  BY <1>1, Kept, PTL

\* I-009 (canSendAccountInfo): the account is nowhere on the relays before the daemon has taken the
\* payout invoice, however late each app is.
THEOREM AccountComesLater == ASSUME Card!LnCardsAssumption PROVE Card!Spec => []Card!AccountAfterInvoice
<1>1. CardIInv => Card!AccountAfterInvoice
  BY DEF CardIInv, Papers, Card!AccountAfterInvoice
<1> QED
  BY <1>1, Kept, PTL

LEMMA AtRest ==
  ASSUME Card!LnCardsAssumption, CardIInv, Card!Settled
  PROVE  /\ requests = {} /\ closing = "" /\ received = account /\ trade \in Cards /\ \A p \in Card!Parties : shown[p] = trade
         /\ trade.sponsor # NoOne => trade.sponsor \in Sponsors /\ trade.sponsor # Customer
         /\ Customer \in Card!Parties /\ Sponsors \subseteq Card!Parties /\ Customer \notin Sponsors
BY DEF Card!Settled, CardIInv, Typed, Records, Cards, Card!Parties, Card!LnCardsAssumption

\* card-view.ts against handlers.ts: what a card offers when nothing is under way, the daemon takes.
THEOREM NoButtonIsForNothing == ASSUME Card!LnCardsAssumption PROVE Card!Spec => []Card!OfferIsAccepted
<1>1. CardIInv => Card!OfferIsAccepted
  <2> SUFFICES ASSUME CardIInv, Card!Settled, trade.st \notin Card!Paying, NEW p \in Card!Parties, NEW a \in Card!offers(p) \ {"pay"},
                      NEW q, q = Card!RequestOf(p, a)
               PROVE  Card!takes(q)
    BY DEF Card!OfferIsAccepted
  <2>1. shown[p] = trade /\ closing = ""
    BY AtRest
  <2>2. CASE p = Customer
    <3>1. CASE trade.st \in Card!OrderState
      <4>1. a \in Card!customerActions(trade)
        BY <2>1, <2>2, <3>1 DEF Card!offers
      <4>2. CASE a = "send-account" /\ trade.st \in {"invoiced", "remitted"} /\ ~account
        <5>1. ~committed
          BY <4>2 DEF CardIInv, Course
        <5>2. q.action = "account-info"
          BY <4>2 DEF Card!RequestOf, Card!Request
        <5> QED
          BY <2>1, <4>2, <5>1, <5>2 DEF Card!takes
      <4>3. CASE a = "confirm-paid" /\ trade.st \in {"invoiced", "remitted"}
        <5>1. q.action = "payment-confirm"
          BY <4>3 DEF Card!RequestOf, Card!Request
        <5> QED
          BY <2>1, <4>3, <5>1 DEF Card!takes
      <4> QED
        BY <4>1, <4>2, <4>3 DEF Card!customerActions, Card!canSendAccountInfo
    <3>2. CASE trade.st \notin Card!OrderState
      <4>1. a = "publish" /\ trade.st = "none"
        BY <2>1, <2>2, <3>2 DEF Card!offers, Card!draftView
      <4>2. q.action = "order-request"
        BY <4>1 DEF Card!RequestOf, Card!Request
      <4> QED
        BY <2>1, <4>1, <4>2 DEF Card!takes
    <3> QED
      BY <3>1, <3>2
  <2>3. CASE p # Customer /\ trade.sponsor = p
    <3>1. a \in Card!sponsorActions(trade)
      BY <2>1, <2>3 DEF Card!offers
    <3>2. CASE a = "register-invoice" /\ (trade.st = "escrowed" \/ Card!resubmit(trade))
      <4>1. trade.st \in {"escrowed", "invoiced", "remitted"}
        BY <3>2 DEF Card!resubmit
      <4>2. q.action = "sponsor-invoice" /\ q.by = p /\ q.arg = Len(made) + 1
        BY <3>2 DEF Card!RequestOf, Card!Request
      <4>3. invoice # Len(made) + 1
        BY Lengths
      <4> QED
        BY <2>1, <2>3, <4>1, <4>2, <4>3 DEF Card!takes
    <3>3. CASE a = "remit" /\ trade.st = "invoiced"
      <4>1. q.action = "remit-request" /\ q.by = p
        BY <3>3 DEF Card!RequestOf, Card!Request
      <4> QED
        BY <2>1, <2>3, <3>3, <4>1 DEF Card!takes
    <3> QED
      BY <3>1, <3>2, <3>3 DEF Card!sponsorActions
  <2>4. CASE p # Customer /\ trade.sponsor # p
    <3>1. a = "claim" /\ trade.st = "requested"
      BY <2>1, <2>4 DEF Card!offers
    <3>2. q.action = "claim"
      BY <3>1 DEF Card!RequestOf, Card!Request
    <3>3. Card!canTransition("requested", "claimed")
      BY DEF Card!canTransition, Card!TRANSITIONS, Card!OrderState
    <3> QED
      BY <2>1, <3>1, <3>2, <3>3 DEF Card!takes
  <2> QED
    BY <2>2, <2>3, <2>4
<1> QED
  BY <1>1, Kept, PTL

\* order-progress.ts against card-view.ts: whose turn it is has something to press, and no two parties wait
\* for each other.
THEOREM TurnsAreReal == ASSUME Card!LnCardsAssumption PROVE Card!Spec => []Card!TurnIsReal
<1>1. CardIInv => Card!TurnIsReal
  <2> SUFFICES ASSUME CardIInv, Card!Settled PROVE Card!TurnIsReal
    BY DEF Card!TurnIsReal
  <2>1. /\ closing = "" /\ received = account /\ \A p \in Card!Parties : shown[p] = trade
    BY AtRest
  <2>2. trade.st = "requested" => trade.sponsor = NoOne
    BY DEF CardIInv, Course
  <2>3. \A sent \in BOOLEAN : Card!summarizeProgress(trade, sent) = "customer" =>
          trade.st = "verified" \/ (trade.st = "invoiced" /\ ~sent) \/ trade.st = "remitted"
    BY DEF Card!summarizeProgress, Card!stepActor, Card!ladderState, Card!PROGRESS_STEPS
  <2>4. \A sent \in BOOLEAN : Card!summarizeProgress(trade, sent) = "sponsor" =>
          \/ trade.st \in {"requested", "escrowed"} \/ (trade.st = "claimed" /\ trade.deposit = "due")
          \/ (trade.st = "invoiced" /\ sent)
    BY DEF Card!summarizeProgress, Card!stepActor, Card!ladderState, Card!PROGRESS_STEPS
  <2>5. account \in BOOLEAN /\ received \in BOOLEAN
    BY DEF CardIInv, Typed, AtApps
  <2>6. ASSUME NEW p \in Card!Parties, Card!isMyTurn(p) PROVE Card!offers(p) # {}
    <3>1. shown[p] = trade
      BY <2>1
    <3>2. CASE p = Customer
      <4>1. trade.st = "verified" \/ (trade.st = "invoiced" /\ ~account) \/ trade.st = "remitted"
        BY <2>3, <2>5, <2>6, <3>1, <3>2 DEF Card!isMyTurn
      <4> QED
        BY <3>1, <3>2, <4>1 DEF Card!offers, Card!customerActions, Card!canSendAccountInfo, Card!OrderState
    <3>3. CASE p # Customer
      <4>1. /\ trade.sponsor = p
            /\ \/ trade.st \in {"requested", "escrowed"} \/ (trade.st = "claimed" /\ trade.deposit = "due")
               \/ (trade.st = "invoiced" /\ received)
        BY <2>4, <2>5, <2>6, <3>1, <3>3 DEF Card!isMyTurn
      <4>2. trade.st # "requested"
        <5>1. p # NoOne
          BY DEF Card!Parties, Card!LnCardsAssumption
        <5> QED
          BY <2>2, <4>1, <5>1
      <4> QED
        BY <3>1, <3>3, <4>1, <4>2 DEF Card!offers, Card!sponsorActions
    <3> QED
      BY <3>2, <3>3
  <2>7. ASSUME trade.sponsor # NoOne, Card!isMyTurn(Customer), Card!isMyTurn(trade.sponsor) PROVE FALSE
    <3>0. trade.sponsor \in Card!Parties /\ Customer \in Card!Parties /\ trade.sponsor # Customer
      BY <2>7, AtRest
    <3>1. shown[Customer] = trade /\ shown[trade.sponsor] = trade /\ trade.sponsor # Customer
      BY <2>1, <3>0
    <3>2. trade.st = "verified" \/ (trade.st = "invoiced" /\ ~account) \/ trade.st = "remitted"
      BY <2>3, <2>5, <2>7, <3>1 DEF Card!isMyTurn
    <3>3. trade.st \in {"requested", "escrowed", "claimed"} \/ (trade.st = "invoiced" /\ received)
      BY <2>4, <2>5, <2>7, <3>1 DEF Card!isMyTurn
    <3> QED
      BY <2>1, <3>2, <3>3
  <2> QED
    BY <2>6, <2>7 DEF Card!TurnIsReal
<1> QED
  BY <1>1, Kept, PTL

\* card-view.ts, the order book: a trade never comes to rest with nobody able to move, where there is
\* anybody who could claim it.
THEOREM TradesGoOn == ASSUME Card!LnCardsAssumption, Sponsors # {} PROVE Card!Spec => []Card!SomebodyCanMove
<1>1. CardIInv => Card!SomebodyCanMove
  <2> SUFFICES ASSUME CardIInv, Card!Settled, trade.st \notin Card!Ended, ~(trade.st = "claimed" /\ trade.deposit = "held")
               PROVE  \E p \in Card!Parties : Card!offers(p) # {}
    BY DEF Card!SomebodyCanMove
  <2>1. requests = {} /\ trade \in Cards /\ (\A p \in Card!Parties : shown[p] = trade) /\ Customer \in Card!Parties /\ Sponsors \subseteq Card!Parties
    BY AtRest
  <2>2. trade.st \in {"none", "draft", "requested", "claimed", "verified", "escrowed", "invoiced", "remitted"}
    BY <2>1, Tables DEF Cards, CardStates, Card!OrderState, Card!Ended
  <2>3. CASE trade.st = "none"
    <3>1. ~raw
      BY <2>1, <2>3 DEF CardIInv, Papers
    <3> QED
      BY <2>1, <2>3, <3>1 DEF Card!offers, Card!draftView, Card!OrderState
  <2>4. CASE trade.st = "draft"
    BY <2>1, <2>4 DEF Card!offers, Card!draftView, Card!OrderState
  <2>5. CASE trade.st = "requested"
    <3>1. PICK p \in Sponsors : TRUE
      OBVIOUS
    <3>2. p # Customer /\ p # trade.sponsor
      BY <2>5 DEF CardIInv, Course, Card!LnCardsAssumption
    <3> QED
      BY <2>1, <2>5, <3>1, <3>2 DEF Card!offers
  <2>6. CASE trade.st \in {"claimed", "escrowed"}
    <3>1. trade.sponsor # NoOne
      BY <2>6 DEF CardIInv, Course, Reached
    <3>2. trade.sponsor \in Sponsors /\ trade.sponsor # Customer /\ trade.deposit # "none"
      BY <2>1, <3>1 DEF Cards, Card!LnCardsAssumption, CardIInv, Typed, Records
    <3>3. trade.st = "claimed" => trade.deposit = "due"
      BY <2>1, <3>2 DEF Cards
    <3>4. Card!sponsorActions(trade) # {}
      BY <2>6, <3>3 DEF Card!sponsorActions
    <3> QED
      BY <2>1, <3>2, <3>4 DEF Card!offers
  <2>7. CASE trade.st = "verified"
    BY <2>1, <2>7 DEF Card!offers, Card!customerActions, Card!OrderState
  <2>8. CASE trade.st \in {"invoiced", "remitted"}
    <3>1. Card!customerActions(trade) # {}
      BY <2>8 DEF Card!customerActions, Card!canSendAccountInfo
    <3> QED
      BY <2>1, <2>8, <3>1 DEF Card!offers, Card!OrderState
  <2> QED
    BY <2>2, <2>3, <2>4, <2>5, <2>6, <2>7, <2>8
<1> QED
  BY <1>1, Kept, PTL

-----------------------------------------------------------------------------
(* The steps, by what they do to the payout, its notices and the form. *)

Quiet ==
  /\ payout' = payout /\ notices' = notices /\ invoice' = invoice /\ trade'.disbursed = trade.disbursed
  /\ trade.st \in Card!Paying => trade'.st = trade.st
  /\ trade'.st \in Card!Paying => trade.st \in Card!Paying
  /\ trade'.st = "escrowed" => trade.st \in {"escrowed", "verified"}
  /\ closing' = "" => closing = ""
Apart == UNCHANGED <<heard, claimError, sending, made>>

LEMMA OwnShape ==
  ASSUME CardIInv, DaemonsOwn
  PROVE  Apart /\ requests' = requests /\ (Quiet \/ Card!finishClose \/ Card!Payout \/ Card!Probe)
<1> USE DEF Card!Paying
<1>1. Apart /\ requests' = requests
  BY DEF DaemonsOwn, Card!customerDepositAccepted, Card!draftDropped, Card!sponsorDepositAccepted, Card!revertClaim, Card!approve, Card!escrowAccepted,
         Card!Close, Card!finishClose, Card!Payout, Card!Probe, Card!elsewhere, Card!sponsor, Apart
<1>2. trade \in Cards
  BY DEF CardIInv, Typed, Records
<1>3. CASE Card!customerDepositAccepted \/ Card!draftDropped \/ Card!approve \/ Card!escrowAccepted
  <2>1. PICK s \in {"requested", "dropped", "verified", "escrowed"} : trade' = [trade EXCEPT !.st = s]
    BY <1>3 DEF Card!customerDepositAccepted, Card!draftDropped, Card!approve, Card!escrowAccepted
  <2>2. trade'.st = s /\ trade'.disbursed = trade.disbursed
    BY <1>2, <2>1 DEF Cards
  <2>3. /\ UNCHANGED <<closing, invoice, payout, committed, claims, notices>> /\ trade.st \in {"draft", "claimed", "verified"}
        /\ s = "escrowed" => trade.st = "verified"
    BY <1>2, <1>3, <2>2 DEF Card!customerDepositAccepted, Card!draftDropped, Card!approve, Card!escrowAccepted, Cards
  <2> QED
    BY <1>1, <2>2, <2>3 DEF Quiet
<1>4. CASE Card!sponsorDepositAccepted \/ Card!revertClaim
  <2>1. trade'.disbursed = trade.disbursed /\ trade'.st \in {"claimed", "requested"} /\ trade.st = "claimed"
    BY <1>2, <1>4 DEF Card!sponsorDepositAccepted, Card!revertClaim, Cards
  <2>2. UNCHANGED <<closing, invoice, payout, committed, claims, notices>>
    BY <1>4 DEF Card!sponsorDepositAccepted, Card!revertClaim
  <2> QED
    BY <1>1, <2>1, <2>2 DEF Quiet
<1>5. CASE Card!Close
  <2>1. UNCHANGED <<trade, invoice, payout, committed, claims, notices>> /\ closing = ""
    BY <1>5 DEF Card!Close
  <2> QED
    BY <1>1, <2>1 DEF Quiet
<1> QED
  BY <1>1, <1>3, <1>4, <1>5 DEF DaemonsOwn

LEMMA HandleShape ==
  ASSUME CardIInv, Card!Handle
  PROVE  /\ Apart
         /\ \E r \in requests :
              /\ requests' = requests \ {r}
              /\ \/ closing = "" /\ InvoiceTaken(r)
                 \/ Quiet /\ (r.action = "sponsor-invoice" => ~Card!takes(r) /\ UNCHANGED Card!daemon)
<1> USE DEF Card!Paying
<1>1. PICK r \in requests :
        /\ requests' = requests \ {r} /\ UNCHANGED <<paid, Card!customer, shown, Card!sponsor>>
        /\ \/ ~Card!takes(r) /\ UNCHANGED Card!daemon
           \/ closing = "" /\ Taken(r)
  BY HandledIsTaken
<1>2. Apart
  BY <1>1 DEF Apart, Card!sponsor
<1>3. trade \in Cards
  BY DEF CardIInv, Typed, Records
<1>4. CASE ~Card!takes(r) /\ UNCHANGED Card!daemon
  BY <1>1, <1>2, <1>4 DEF Quiet, Card!daemon
<1>5. CASE closing = "" /\ r.action = "order-request" /\ trade.st = "none" /\ Card!orderRequest
  <2>1. trade'.st = "draft" /\ trade'.disbursed = trade.disbursed /\ UNCHANGED <<closing, invoice, payout, notices>>
    BY <1>3, <1>5 DEF Card!orderRequest, Cards
  <2> QED
    BY <1>1, <1>2, <1>5, <2>1 DEF Quiet
<1>6. CASE closing = "" /\ r.action = "claim" /\ Card!canTransition(trade.st, "claimed") /\ Card!claim(r.by)
  <2>1. trade'.st = "claimed" /\ trade'.disbursed = trade.disbursed /\ UNCHANGED <<closing, invoice, payout, notices>>
    BY <1>3, <1>6 DEF Card!claim, Cards
  <2>2. trade.st = "requested"
    BY <1>1, <1>6, Tables DEF CardIInv, Papers
  <2> QED
    BY <1>1, <1>2, <1>6, <2>1, <2>2 DEF Quiet
<1>7. CASE closing = "" /\ \/ r.action = "cancel-request" /\ Card!cancelRequest
                           \/ r.action = "payment-confirm" /\ Card!paymentConfirm
                           \/ r.action = "account-info" /\ Card!accountInfo
  <2>1. UNCHANGED <<trade, invoice, payout, notices>>
    BY <1>7 DEF Card!cancelRequest, Card!paymentConfirm, Card!accountInfo
  <2> QED
    BY <1>1, <1>2, <1>7, <2>1 DEF Quiet
<1>8. CASE closing = "" /\ r.action = "remit-request" /\ trade.st = "invoiced" /\ Card!remitRequest
  <2>1. trade'.st = "remitted" /\ trade'.disbursed = trade.disbursed /\ UNCHANGED <<closing, invoice, payout, notices>>
    BY <1>3, <1>8 DEF Card!remitRequest, Cards
  <2> QED
    BY <1>1, <1>2, <1>8, <2>1 DEF Quiet
<1>9. CASE closing = "" /\ InvoiceTaken(r)
  BY <1>1, <1>2, <1>9
<1> QED
  BY <1>1, <1>4, <1>5, <1>6, <1>7, <1>8, <1>9 DEF Taken

\* An app leaves the form as it is, submits, or hears.
Same == UNCHANGED <<heard, claimError, sending>> /\ Len(made') = Len(made) /\ \A n \in 1 .. Len(made) : made'[n] = made[n] \/ n < MaxInvoices
Submits ==
  /\ ~NoneAsked' /\ sending' # 0 /\ UNCHANGED <<heard, claimError>>
  /\ made' = made \/ \E worth \in {"good", "bad"} :
       made' = Append(made, worth) /\ Len(made) < MaxInvoices /\ (worth = "good" \/ Len(made) + 1 < MaxInvoices)
Clears == Card!onSubmitted /\ made' = made /\ heard' = heard
Forgets == Card!Reload /\ made' = made

LEMMA AppShape ==
  ASSUME Card!LnCardsAssumption, CardIInv, CustomersCards \/ AppsHear \/ UNCHANGED Card!vars \/ \E p \in Sponsors : SponsorsCards(p)
  PROVE  UNCHANGED Card!daemon /\ requests \subseteq requests' /\ (Same \/ Submits \/ Clears \/ Card!setClaimError \/ Forgets)
<1>1. CASE \/ CustomersCards \/ UNCHANGED Card!vars \/ Card!handleAccountInfo \/ \E p \in Card!Parties : Card!Hear(p)
           \/ \E p \in Sponsors : Card!Pay(p) \/ Card!publishClaim(p) \/ Card!remit(p)
  <2>1. UNCHANGED Card!daemon /\ UNCHANGED <<heard, claimError, sending, made>>
    BY <1>1 DEF CustomersCards, Card!publish, Card!sendAccount, Card!confirmPaid, Card!cancel, Card!Pay, Card!publishClaim, Card!remit, Card!Hear, Card!handleAccountInfo, Card!vars, Card!sponsor
  <2>2. requests \subseteq requests'
    BY <1>1 DEF CustomersCards, Card!publish, Card!sendAccount, Card!confirmPaid, Card!cancel, Card!Pay, Card!publishClaim, Card!remit, Card!Hear, Card!handleAccountInfo, Card!vars, Card!send
  <2> QED
    BY <2>1, <2>2 DEF Same
<1>2. CASE Card!InvoiceExpires
  <2>1. PICK n \in DOMAIN made : n < MaxInvoices /\ made' = [made EXCEPT ![n] = "expired"]
    BY <1>2 DEF Card!InvoiceExpires
  <2>2. UNCHANGED Card!daemon /\ UNCHANGED <<requests, heard, claimError, sending>>
    BY <1>2 DEF Card!InvoiceExpires
  <2>3. made \in Seq(Worth)
    BY Lengths
  <2>4. Len(made') = Len(made) /\ \A m \in 1 .. Len(made) : made'[m] = made[m] \/ m = n
    BY <2>1, <2>3 DEF Worth
  <2> QED
    BY <2>1, <2>2, <2>4 DEF Same
<1>3. CASE Card!onSubmitted \/ Card!setClaimError \/ Card!Reload
  BY <1>3 DEF Card!onSubmitted, Card!setClaimError, Card!Reload, Clears, Forgets
<1>4. ASSUME NEW p \in Sponsors, NEW worth \in {"good", "bad"}, Card!handleSubmit(p, worth)
      PROVE  UNCHANGED Card!daemon /\ requests \subseteq requests' /\ Submits
  <2> DEFINE r == Card!Request("sponsor-invoice", p, Len(made'))
  <2>1. /\ requests' = requests \cup {r} /\ UNCHANGED Card!daemon /\ UNCHANGED <<heard, claimError>> /\ sending' = Len(made')
        /\ made' = IF Len(made) < MaxInvoices THEN Append(made, worth) ELSE made
        /\ worth = "good" \/ Len(made) + 1 < MaxInvoices
    BY <1>4 DEF Card!handleSubmit, Card!send
  <2>2. r \in requests' /\ r.action = "sponsor-invoice"
    BY <2>1 DEF Card!Request
  <2>3. Len(made') # 0
    <3>1. made \in Seq(Worth) /\ Len(made) \in Nat /\ MaxInvoices \in Nat \ {0} /\ worth \in Worth
      BY Lengths DEF Worth
    <3>2. Len(made) < MaxInvoices => Len(made') = Len(made) + 1
      BY <2>1, <3>1
    <3>3. ~(Len(made) < MaxInvoices) => Len(made') = Len(made)
      BY <2>1
    <3> QED
      BY <3>1, <3>2, <3>3
  <2>4. made' = made \/ (made' = Append(made, worth) /\ Len(made) < MaxInvoices)
    BY <2>1
  <2>5. ~NoneAsked'
    BY <2>2 DEF NoneAsked
  <2> QED
    BY <2>1, <2>3, <2>4, <2>5 DEF Submits
<1> QED
  BY <1>1, <1>2, <1>3, <1>4 DEF AppsHear, SponsorsCards

\* A notice more is one that was not heard.
LEMMA NoticeIsNews ==
  ASSUME Card!LnCardsAssumption, CardIInv, NEW notice \in Notices, notices' = Append(notices, notice), heard' = heard
  PROVE  /\ notices' # <<>> /\ heard' # DOMAIN notices' /\ Len(notices') = Len(notices) + 1
         /\ notices'[Len(notices')] = notice
<1>1. notices \in Seq(Notices) /\ Len(notices) \in Nat
  BY Lengths
<1>2. heard \subseteq 1 .. Len(notices)
  BY DEF CardIInv, Typed, AtApps
<1>3. Len(notices') = Len(notices) + 1 /\ DOMAIN notices' = 1 .. (Len(notices) + 1) /\ notices'[Len(notices) + 1] = notice
  BY <1>1
<1>4. Len(notices) + 1 \in DOMAIN notices' /\ Len(notices) + 1 \notin heard
  BY <1>1, <1>2, <1>3
<1> QED
  BY <1>3, <1>4

LEMMA ExplainedGoesOn ==
  ASSUME Card!LnCardsAssumption, Patient, CardIInv, Explained, [Card!Next]_(Card!vars)
  PROVE  Explained'
<1> SUFFICES ASSUME trade'.st = "escrowed", closing' = "", made' # <<>>
             PROVE  Reason'
  BY DEF Explained
<1>1. /\ made \in Seq(Worth) /\ notices \in Seq(Notices) /\ Len(notices) \in Nat /\ DOMAIN notices = 1 .. Len(notices)
      /\ trade \in Cards /\ Len(made) \in Nat /\ invoice \in Nat
  <2>1. invoice \in 0 .. Len(made) /\ Len(made) \in Nat
    BY Lengths
  <2>2. invoice \in Nat
    BY ONLY <2>1
  <2>3. trade \in Cards
    BY DEF CardIInv, Typed, Records
  <2> QED
    BY <2>2, <2>3, Lengths
<1>2. ASSUME CustomersCards \/ AppsHear \/ UNCHANGED Card!vars \/ \E p \in Sponsors : SponsorsCards(p)
      PROVE  Reason'
  <2>1. UNCHANGED Card!daemon /\ requests \subseteq requests' /\ (Same \/ Submits \/ Clears \/ Card!setClaimError \/ Forgets)
    BY <1>2, AppShape
  <2>2. trade' = trade /\ closing' = closing /\ notices' = notices
    BY <2>1 DEF Card!daemon
  <2>3. NoneAsked' => NoneAsked
    BY <2>1 DEF NoneAsked
  <2>4. CASE Same
    <3>1. made # <<>>
      <4>1. Len(made') = Len(made) /\ CardIInv'
        BY <2>4, GoesOn DEF Same
      <4>2. made' \in Seq(Worth)
        BY <4>1 DEF CardIInv, Typed, AtApps
      <4>3. made = <<>> => Len(made) = 0
        BY ONLY TRUE
      <4>4. Len(made') # 0
        BY ONLY <4>2, made' # <<>>
      <4> QED
        BY <4>1, <4>3, <4>4
    <3> QED
      BY <2>2, <2>3, <2>4, <3>1 DEF Same, Reason, Explained, Told
  <2>5. CASE Submits
    BY <2>5 DEF Submits, Reason, Told
  <2>6. CASE Clears
    <3>1. sending # 0 /\ sending' = 0 /\ made' = made /\ heard' = heard
      BY <2>6 DEF Clears, Card!onSubmitted
    <3>2. Reason
      BY <2>2, <3>1 DEF Explained
    <3> QED
      BY <2>2, <2>3, <3>1, <3>2 DEF Reason, Told
  <2>7. CASE Card!setClaimError
    <3>1. PICK i \in (DOMAIN notices) \ heard : (Patient => sending = 0) /\ claimError' = notices[i].kind
      BY <2>7 DEF Card!setClaimError
    <3>2. sending' = sending /\ made' = made
      BY <2>7 DEF Card!setClaimError
    <3>3. notices[i] \in Notices /\ notices # <<>>
      <4>1. notices \in Seq(Notices) /\ i \in DOMAIN notices
        BY <1>1, <3>1
      <4> QED
        BY ONLY <4>1
    <3>4. claimError' # "" /\ notices' # <<>>
      <4>1. claimError' \in {"rejected", "warning", "expired"}
        BY <3>1, <3>3 DEF Notices
      <4> QED
        BY <2>2, <3>3, <4>1
    <3> QED
      BY <3>1, <3>2, <3>4 DEF Reason, Told
  <2>8. CASE Forgets
    <3>1. sending' = 0 /\ heard' = {} /\ made' = made
      BY <2>8 DEF Forgets, Card!Reload
    <3>2. Reason
      BY <2>2, <3>1 DEF Explained
    <3>3. DOMAIN notices' = {} => notices = <<>>
      <4>1. DOMAIN notices' = DOMAIN notices
        BY <2>2
      <4>2. DOMAIN notices = {} => notices = <<>>
        BY ONLY <1>1
      <4> QED
        BY <4>1, <4>2
    <3> QED
      BY <2>2, <2>3, <3>1, <3>2, <3>3 DEF Reason, Told
  <2> QED
    BY <2>1, <2>4, <2>5, <2>6, <2>7, <2>8
<1>3. ASSUME DaemonsOwn
      PROVE  Reason'
  <2>1. Apart /\ requests' = requests /\ (Quiet \/ Card!finishClose \/ Card!Payout \/ Card!Probe)
    BY <1>3, OwnShape
  <2>2. trade.st \in AfterEscrow /\ trade.st # "verified"
    BY <2>1, Tables DEF Apart, CardIInv, Papers, AfterEscrow
  <2>3. NoneAsked' = NoneAsked
    BY <2>1 DEF NoneAsked
  <2>4. CASE Quiet
    <3>1. trade.st = "escrowed" /\ closing = "" /\ notices' = notices
      BY <2>2, <2>4 DEF Quiet
    <3> QED
      BY <2>1, <2>3, <3>1 DEF Apart, Explained, Reason, Told
  <2>5. CASE Card!finishClose
    <3>1. trade' = [trade EXCEPT !.st = Card!CLOSE_RULES[closing].terminal] /\ closing # ""
      BY <2>5 DEF Card!finishClose
    <3>2. closing \in Card!LnCloseReason
      BY <3>1 DEF CardIInv, Typed, Records
    <3>3. trade'.st \in Card!Terminal
      BY <1>1, <3>1, <3>2, Tables DEF Cards
    <3> QED
      BY <3>3, Tables
  <2>6. CASE Card!Payout
    <3>1. trade'.st = trade.st /\ closing' = closing
      BY <1>1, <2>6 DEF Card!Payout, Cards
    <3>2. CASE notices' = notices
      BY <2>1, <2>3, <3>1, <3>2 DEF Apart, Explained, Reason, Told
    <3>3. CASE Card!Notify("expired", invoice)
      <4>1. [kind |-> "expired", n |-> invoice] \in Notices
        BY <1>1 DEF Notices
      <4>2. notices' # <<>> /\ heard' # DOMAIN notices'
        BY <2>1, <3>3, <4>1, NoticeIsNews DEF Card!Notify, Apart
      <4> QED
        BY <4>2 DEF Reason, Told
    <3> QED
      BY <2>6, <3>2, <3>3 DEF Card!Payout
  <2>7. CASE Card!Probe
    BY <2>7 DEF Card!Probe
  <2> QED
    BY <2>1, <2>4, <2>5, <2>6, <2>7
<1>4. ASSUME Card!Handle
      PROVE  Reason'
  <2>1. Apart
    BY <1>4, HandleShape
  <2>2. PICK r \in requests :
          /\ requests' = requests \ {r}
          /\ \/ closing = "" /\ InvoiceTaken(r)
             \/ Quiet /\ (r.action = "sponsor-invoice" => ~Card!takes(r) /\ UNCHANGED Card!daemon)
    BY <1>4, HandleShape
  <2>3. trade.st \in AfterEscrow /\ trade.st # "verified"
    BY <2>1, Tables DEF Apart, CardIInv, Papers, AfterEscrow
  <2>4. CASE InvoiceTaken(r)
    <3>1. trade.st \in {"escrowed", "invoiced", "remitted"} \cup Card!Paying /\ Card!sponsorInvoice(r.arg) /\ r.action = "sponsor-invoice"
      BY <2>4 DEF InvoiceTaken
    <3>2. made[r.arg] # "good"
      <4> SUFFICES ASSUME made[r.arg] = "good" PROVE FALSE
        OBVIOUS
      <4>1. trade' = IF trade.st = "escrowed" THEN [trade EXCEPT !.st = "invoiced"] ELSE trade
        BY <3>1 DEF Card!sponsorInvoice
      <4> QED
        BY <1>1, <4>1 DEF Cards
    <3>3. notices' = Append(notices, [kind |-> "rejected", n |-> r.arg])
      BY <3>1, <3>2 DEF Card!sponsorInvoice, Card!Notify
    <3>4. [kind |-> "rejected", n |-> r.arg] \in Notices
      <4>1. r.arg \in 1 .. Len(made)
        BY <2>2, <3>1 DEF CardIInv, Papers
      <4>2. r.arg \in Nat
        BY ONLY <1>1, <4>1
      <4> QED
        BY <4>2 DEF Notices
    <3>5. notices' # <<>> /\ heard' # DOMAIN notices'
      BY <2>1, <3>3, <3>4, NoticeIsNews DEF Apart
    <3> QED
      BY <3>5 DEF Reason, Told
  <2>5. CASE Quiet /\ (r.action = "sponsor-invoice" => ~Card!takes(r) /\ UNCHANGED Card!daemon)
    <3>1. trade.st = "escrowed" /\ closing = "" /\ notices' = notices
      BY <2>3, <2>5 DEF Quiet
    <3>2. r.action # "sponsor-invoice"
      <4> SUFFICES ASSUME r.action = "sponsor-invoice" PROVE Card!takes(r)
        BY <2>5
      <4>1. trade.sponsor = r.by /\ r.arg \in 1 .. Len(made)
        BY <2>2 DEF CardIInv, Papers
      <4>2. invoice = 0
        BY <3>1, Tables DEF CardIInv, Course, Invoiced, Card!Paying
      <4>3. invoice # r.arg
        <5>1. r.arg # 0
          BY ONLY <1>1, <4>1
        <5> QED
          BY <4>2, <5>1
      <4> QED
        BY <3>1, <4>1, <4>3 DEF Card!takes
    <3>3. NoneAsked' => NoneAsked
      BY <2>2, <3>2 DEF NoneAsked
    <3>4. NoneAsked => NoneAsked'
      BY <2>2 DEF NoneAsked
    <3>5. Reason
      BY <2>1, <3>1 DEF Explained, Apart
    <3> QED
      BY <2>1, <2>2, <3>1, <3>2, <3>3, <3>4, <3>5 DEF Apart, Reason, Told, NoneAsked
  <2> QED
    BY <2>2, <2>4, <2>5
<1> QED
  BY <1>2, <1>3, <1>4, StepsOfNext

\* claim-error-store.ts, where a relay's acknowledgement comes before the daemon's answer: while no invoice is
\* registered, an invoice that was made and is no longer under way has the reason it was not taken on the screen.
THEOREM RejectionsAreShown == ASSUME Card!LnCardsAssumption, Patient PROVE Card!Spec => []Card!RejectionIsShown
<1>1. Card!Init => Explained
  BY DEF Card!Init, Card!Unborn, Explained
<1>2. CardIInv /\ Explained /\ [Card!Next]_(Card!vars) => Explained'
  BY ExplainedGoesOn
<1>3. CardIInv /\ Explained => Card!RejectionIsShown
  <2> SUFFICES ASSUME Explained, Card!Settled, trade.st = "escrowed", made # <<>> PROVE claimError # ""
    BY DEF Card!RejectionIsShown
  <2> QED
    BY DEF Explained, Card!Settled, Reason, Told, NoneAsked
<1> QED
  BY <1>1, <1>2, <1>3, Kept, PTL DEF Card!Spec

-----------------------------------------------------------------------------
(* The payout, and its form. *)

LEMMA PayableStarts == ASSUME Card!LnCardsAssumption, Card!Init PROVE Payable
<1>1. MaxInvoices \in Nat \ {0}
  BY Counts
<1>2. payout = "none" /\ trade.disbursed = FALSE /\ made = <<>>
  BY DEF Card!Init, Card!Unborn
<1>3. Len(made) # MaxInvoices
  BY <1>1, <1>2
<1> QED
  BY <1>2, <1>3 DEF Payable

\* The last invoice is good: none is made after it, and it does not expire.
LEMMA LastIsGood ==
  ASSUME Card!LnCardsAssumption, CardIInv, Payable, Same \/ Submits \/ made' = made
  PROVE  Len(made') = MaxInvoices => made'[MaxInvoices] = "good"
<1>1. made \in Seq(Worth) /\ Len(made) \in Nat /\ MaxInvoices \in Nat \ {0}
  BY Lengths
<1>2. Len(made) = MaxInvoices => made[MaxInvoices] = "good"
  BY DEF Payable
<1>3. CASE Same
  <2>1. Len(made') = Len(made) /\ \A n \in 1 .. Len(made) : made'[n] = made[n] \/ n < MaxInvoices
    BY <1>3 DEF Same
  <2>2. ASSUME Len(made') = MaxInvoices PROVE made'[MaxInvoices] = "good"
    <3>1. MaxInvoices \in 1 .. Len(made) /\ ~(MaxInvoices < MaxInvoices)
      BY <1>1, <2>1, <2>2
    <3> QED
      BY <1>2, <2>1, <2>2, <3>1
  <2> QED
    BY <2>2
<1>4. ASSUME NEW worth \in {"good", "bad"}, made' = Append(made, worth), worth = "good" \/ Len(made) + 1 < MaxInvoices
      PROVE  Len(made') = MaxInvoices => made'[MaxInvoices] = "good"
  <2>1. Len(made') = Len(made) + 1 /\ made'[Len(made) + 1] = worth
    BY <1>1, <1>4 DEF Worth
  <2>2. Len(made) + 1 = MaxInvoices => ~(Len(made) + 1 < MaxInvoices)
    BY <1>1
  <2> QED
    BY <1>4, <2>1, <2>2
<1>5. made' = made => (Len(made') = MaxInvoices => made'[MaxInvoices] = "good")
  BY <1>2
<1> QED
  BY <1>3, <1>4, <1>5 DEF Submits

LEMMA PayableGoesOn ==
  ASSUME Card!LnCardsAssumption, CardIInv, Payable, [Card!Next]_(Card!vars)
  PROVE  Payable'
<1>1. trade \in Cards /\ closing \in Card!LnCloseReason \cup {""}
  BY DEF CardIInv, Typed, Records
<1>2. /\ payout # "none" => trade.st \in Card!Paying
      /\ trade.disbursed => payout = "done"
      /\ payout = "expired" => invoice # MaxInvoices
  BY DEF Payable
<1>3. closing # "" => trade.st \notin Card!Paying
  BY Tables DEF CardIInv, Course, Card!Paying
<1>4. CASE CustomersCards \/ AppsHear \/ UNCHANGED Card!vars \/ \E p \in Sponsors : SponsorsCards(p)
  <2>1. UNCHANGED Card!daemon /\ (Same \/ Submits \/ Clears \/ Card!setClaimError \/ Forgets)
    BY <1>4, AppShape
  <2>2. Len(made') = MaxInvoices => made'[MaxInvoices] = "good"
    BY <2>1, LastIsGood DEF Clears, Forgets, Card!setClaimError
  <2> QED
    BY <1>2, <2>1, <2>2 DEF Card!daemon, Payable
<1>5. ASSUME Apart PROVE Len(made') = MaxInvoices => made'[MaxInvoices] = "good"
  BY <1>5, LastIsGood DEF Apart
<1>6. CASE Apart /\ Quiet
  BY <1>2, <1>5, <1>6 DEF Quiet, Payable
<1>7. CASE DaemonsOwn
  <2>1. Apart /\ (Quiet \/ Card!finishClose \/ Card!Payout \/ Card!Probe)
    BY <1>7, OwnShape
  <2>2. CASE Card!finishClose
    <3>1. /\ closing # "" /\ trade' = [trade EXCEPT !.st = Card!CLOSE_RULES[closing].terminal]
          /\ payout' = (IF trade'.st \in Card!Paying THEN "due" ELSE payout) /\ invoice' = invoice
      BY <2>2 DEF Card!finishClose
    <3>2. payout = "none" /\ ~trade.disbursed
      BY <1>2, <1>3, <3>1
    <3>3. trade'.disbursed = trade.disbursed
      BY <1>1, <3>1 DEF Cards
    <3> QED
      BY <1>5, <2>1, <3>1, <3>2, <3>3 DEF Payable
  <2>3. CASE Card!Payout
    <3>1. payout = "due" /\ trade.st \in Card!Paying /\ ~trade.disbursed /\ invoice' = invoice
      BY <1>2, <2>3 DEF Card!Payout
    <3>2. CASE made[invoice] = "good"
      <4>1. payout' = "done" /\ trade'.st = trade.st
        BY <1>1, <2>3, <3>2 DEF Card!Payout, Cards
      <4> QED
        BY <1>5, <2>1, <3>1, <4>1 DEF Payable
    <3>3. CASE made[invoice] # "good"
      <4>1. payout' = "expired" /\ trade' = trade
        BY <2>3, <3>3 DEF Card!Payout
      <4>2. invoice # MaxInvoices
        <5> SUFFICES ASSUME invoice = MaxInvoices PROVE Len(made) = MaxInvoices
          BY <3>3 DEF Payable
        <5> QED
          BY Lengths
      <4> QED
        BY <1>5, <2>1, <3>1, <4>1, <4>2 DEF Payable
    <3> QED
      BY <3>2, <3>3
  <2>4. CASE Card!Probe
    <3>1. trade' = trade /\ payout' = payout /\ invoice' = invoice
      BY <2>4 DEF Card!Probe
    <3> QED
      BY <1>2, <1>5, <2>1, <3>1 DEF Payable
  <2> QED
    BY <1>6, <2>1, <2>2, <2>3, <2>4
<1>8. CASE Card!Handle
  <2>1. Apart /\ (Quiet \/ \E r \in requests : InvoiceTaken(r))
    BY <1>8, HandleShape
  <2>2. ASSUME NEW r \in requests, InvoiceTaken(r) PROVE Payable'
    <3>1. Card!sponsorInvoice(r.arg) /\ (trade.st \in Card!Paying => ~trade.disbursed)
      BY <2>2 DEF InvoiceTaken, Card!Paying
    <3>2. CASE made[r.arg] # "good"
      <4>1. UNCHANGED <<trade, invoice, payout>>
        BY <3>1, <3>2 DEF Card!sponsorInvoice
      <4> QED
        BY <1>2, <1>5, <2>1, <4>1 DEF Payable
    <3>3. CASE made[r.arg] = "good"
      <4>1. /\ payout' = IF trade.st \in Card!Paying THEN "due" ELSE payout
            /\ trade' = IF trade.st = "escrowed" THEN [trade EXCEPT !.st = "invoiced"] ELSE trade
        BY <3>1, <3>3 DEF Card!sponsorInvoice
      <4>2. trade'.disbursed = trade.disbursed /\ (trade.st \in Card!Paying => trade'.st = trade.st)
        BY <1>1, <4>1 DEF Cards, Card!Paying
      <4> QED
        BY <1>2, <1>5, <2>1, <3>1, <4>1, <4>2 DEF Payable
    <3> QED
      BY <3>2, <3>3
  <2> QED
    BY <1>6, <2>1, <2>2
<1> QED
  BY <1>4, <1>7, <1>8, StepsOfNext

LEMMA HeardGoesOn ==
  ASSUME Card!LnCardsAssumption, InOrder, CardIInv, HeardInOrder, [Card!Next]_(Card!vars)
  PROVE  HeardInOrder'
<1>1. CASE heard' = heard
  BY <1>1 DEF HeardInOrder
<1>2. CASE Card!setClaimError
  <2>1. PICK i \in (DOMAIN notices) \ heard : 1 .. (i - 1) \subseteq heard /\ heard' = heard \cup {i}
    BY <1>2 DEF Card!setClaimError
  <2>2. DOMAIN notices = 1 .. Len(notices) /\ Len(notices) \in Nat
    BY Lengths
  <2>3. i \in Nat
    BY <2>1, <2>2
  <2>4. 1 .. i \subseteq heard'
    <3>1. \A j \in 1 .. i : j = i \/ j \in 1 .. (i - 1)
      BY ONLY <2>3
    <3> QED
      BY <2>1, <3>1
  <2> QED
    BY <2>1, <2>4 DEF HeardInOrder
<1>3. CASE Forgets
  BY <1>3 DEF Forgets, Card!Reload, HeardInOrder
<1>4. heard' = heard \/ Card!setClaimError \/ Forgets
  BY StepsOfNext, AppShape, OwnShape, HandleShape DEF Apart, Same, Submits, Clears
<1> QED
  BY <1>1, <1>2, <1>3, <1>4

LEMMA ReopenedGoesOn ==
  ASSUME Card!LnCardsAssumption, Patient, CardIInv, Payable, HeardInOrder, Reopened, [Card!Next]_(Card!vars)
  PROVE  Reopened'
<1> SUFFICES ASSUME payout' = "expired"
             PROVE  Form'
  BY DEF Reopened
<1>1. trade \in Cards /\ closing \in Card!LnCloseReason \cup {""} /\ notices \in Seq(Notices)
  BY Lengths DEF CardIInv, Typed, Records
<1>2. payout = "expired" => Form /\ trade.st \in Card!Paying /\ ~trade.disbursed /\ invoice # MaxInvoices
  BY DEF Reopened, Payable
<1>3. trade.st \in Card!Paying => closing = ""
  BY Tables DEF CardIInv, Course, Card!Paying
<1>4. ASSUME Apart, requests' \subseteq requests, NEW notice \in Notices, notice.kind # "warning", notices' = Append(notices, notice)
      PROVE  Form'
  BY <1>4, NoticeIsNews DEF Apart, Form, Told
<1>5. CASE CustomersCards \/ AppsHear \/ UNCHANGED Card!vars \/ \E p \in Sponsors : SponsorsCards(p)
  <2>1. UNCHANGED Card!daemon /\ requests \subseteq requests' /\ (Same \/ Submits \/ Clears \/ Card!setClaimError \/ Forgets)
    BY <1>5, AppShape
  <2>2. notices' = notices /\ Form
    BY <1>2, <2>1 DEF Card!daemon
  <2>3. NoneAsked' => NoneAsked
    BY <2>1 DEF NoneAsked
  <2>4. CASE Same
    BY <2>2, <2>3, <2>4 DEF Same, Form, Told
  <2>5. CASE Submits
    BY <2>2, <2>5 DEF Submits, Form, Told
  <2>6. CASE Clears
    BY <2>2, <2>3, <2>6 DEF Clears, Card!onSubmitted, Form, Told
  <2>7. CASE Card!setClaimError
    <3>1. PICK i \in (DOMAIN notices) \ heard : sending = 0 /\ heard' = heard \cup {i} /\ claimError' = notices[i].kind
      BY <2>7 DEF Card!setClaimError
    <3>2. sending' = sending
      BY <2>7 DEF Card!setClaimError
    <3>3. DOMAIN notices = 1 .. Len(notices) /\ Len(notices) \in Nat
      BY Lengths
    <3>4. ASSUME heard' = DOMAIN notices' PROVE i = Len(notices)
      <4>1. Len(notices) \in heard' /\ i \in 1 .. Len(notices)
        BY <2>2, <3>1, <3>3, <3>4
      <4>2. Len(notices) \in heard => i \in heard
        BY <4>1 DEF HeardInOrder
      <4> QED
        BY <3>1, <4>1, <4>2
    <3>5. notices[Len(notices)] \in Notices
      <4>1. notices # <<>> /\ notices \in Seq(Notices)
        BY <1>1, <2>2 DEF Form
      <4>2. Len(notices) \in Nat /\ Len(notices) # 0 /\ DOMAIN notices = 1 .. Len(notices)
        BY ONLY <4>1
      <4>3. Len(notices) \in DOMAIN notices
        BY ONLY <4>2
      <4> QED
        BY ONLY <4>1, <4>3
    <3>6. notices[Len(notices)].kind \in {"rejected", "expired"}
      BY <2>2, <3>5 DEF Notices, Form
    <3> QED
      BY <2>2, <3>1, <3>2, <3>4, <3>6 DEF Form, Told
  <2>8. CASE Forgets
    <3>1. heard' = {} /\ sending' = 0
      BY <2>8 DEF Forgets, Card!Reload
    <3>2. DOMAIN notices # {}
      <4>1. notices # <<>> /\ notices \in Seq(Notices)
        BY <1>1, <2>2 DEF Form
      <4>2. Len(notices) \in Nat /\ Len(notices) # 0 /\ DOMAIN notices = 1 .. Len(notices)
        BY ONLY <4>1
      <4>3. Len(notices) \in DOMAIN notices
        BY ONLY <4>2
      <4> QED
        BY ONLY <4>1, <4>3
    <3> QED
      BY <2>2, <3>1, <3>2 DEF Form, Told
  <2> QED
    BY <2>1, <2>4, <2>5, <2>6, <2>7, <2>8
<1>6. CASE DaemonsOwn
  <2>1. Apart /\ requests' = requests /\ (Quiet \/ Card!finishClose \/ Card!Payout \/ Card!Probe)
    BY <1>6, OwnShape
  <2>2. CASE Quiet
    <3>1. Form /\ notices' = notices
      BY <1>2, <2>2 DEF Quiet
    <3> QED
      BY <2>1, <3>1 DEF Apart, Form, Told, NoneAsked
  <2>3. CASE Card!finishClose
    BY <1>2, <1>3, <2>3 DEF Card!finishClose
  <2>4. CASE Card!Payout
    <3>1. notices' = Append(notices, [kind |-> "expired", n |-> invoice])
      BY <2>4 DEF Card!Payout, Card!Notify
    <3>2. invoice \in Nat
      <4>1. invoice \in 0 .. Len(made) /\ Len(made) \in Nat
        BY Lengths
      <4> QED
        BY ONLY <4>1
    <3>3. [kind |-> "expired", n |-> invoice] \in Notices /\ [kind |-> "expired", n |-> invoice].kind # "warning"
      BY <3>2 DEF Notices
    <3> QED
      BY <1>4, <2>1, <3>1, <3>3
  <2>5. CASE Card!Probe
    BY <1>2, <2>5 DEF Card!Probe, Card!Paying
  <2> QED
    BY <2>1, <2>2, <2>3, <2>4, <2>5
<1>7. CASE Card!Handle
  <2>1. Apart
    BY <1>7, HandleShape
  <2>2. PICK r \in requests :
          /\ requests' = requests \ {r}
          /\ \/ closing = "" /\ InvoiceTaken(r)
             \/ Quiet /\ (r.action = "sponsor-invoice" => ~Card!takes(r) /\ UNCHANGED Card!daemon)
    BY <1>7, HandleShape
  <2>3. r.action = "sponsor-invoice" => r.arg \in 1 .. Len(made) /\ trade.sponsor = r.by /\ (r.arg < MaxInvoices => r.arg # invoice)
    BY <2>2 DEF CardIInv, Papers
  <2>4. r.arg \in 1 .. Len(made) => r.arg \in Nat /\ r.arg <= MaxInvoices
    <3>1. Len(made) \in Nat /\ MaxInvoices \in Nat /\ Len(made) <= MaxInvoices
      BY Lengths
    <3> QED
      BY ONLY <3>1
  <2>5. CASE InvoiceTaken(r)
    <3>1. r.action = "sponsor-invoice" /\ Card!sponsorInvoice(r.arg)
      BY <2>5 DEF InvoiceTaken
    <3>2. made[r.arg] # "good"
      BY <1>2, <3>1 DEF Card!sponsorInvoice
    <3>3. notices' = Append(notices, [kind |-> "rejected", n |-> r.arg])
      BY <3>1, <3>2 DEF Card!sponsorInvoice, Card!Notify
    <3>4. [kind |-> "rejected", n |-> r.arg] \in Notices /\ [kind |-> "rejected", n |-> r.arg].kind # "warning"
      BY <2>3, <2>4, <3>1 DEF Notices
    <3> QED
      BY <1>4, <2>1, <2>2, <3>3, <3>4
  <2>6. CASE Quiet /\ (r.action = "sponsor-invoice" => ~Card!takes(r) /\ UNCHANGED Card!daemon)
    <3>1. Form /\ notices' = notices /\ payout = "expired"
      BY <1>2, <2>6 DEF Quiet
    <3>2. r.action # "sponsor-invoice"
      <4> SUFFICES ASSUME r.action = "sponsor-invoice" PROVE Card!takes(r)
        BY <2>6
      <4>1. invoice # r.arg
        <5>1. r.arg < MaxInvoices \/ r.arg = MaxInvoices
          <6>1. r.arg \in Nat /\ r.arg <= MaxInvoices /\ MaxInvoices \in Nat
            BY <2>3, <2>4, Counts
          <6> QED
            BY ONLY <6>1
        <5> QED
          BY <1>2, <2>3, <3>1, <5>1
      <4> QED
        BY <1>2, <1>3, <2>3, <3>1, <4>1 DEF Card!takes
    <3>3. NoneAsked' => NoneAsked
      BY <2>2, <3>2 DEF NoneAsked
    <3>4. NoneAsked => NoneAsked'
      BY <2>2 DEF NoneAsked
    <3> QED
      BY <2>1, <3>1, <3>3, <3>4 DEF Apart, Form, Told
  <2> QED
    BY <2>2, <2>5, <2>6
<1> QED
  BY <1>5, <1>6, <1>7, StepsOfNext

\* messages.ts (sendInvoiceRejected), where notices come in the order they were made and a relay's
\* acknowledgement comes before the daemon's answer: a payout that stopped because its invoice expired
\* has its form open.
THEOREM FormIsOpenAgain == ASSUME Card!LnCardsAssumption, Patient, InOrder PROVE Card!Spec => []Card!ReregistrationIsOpen
<1>1. Card!Init => Payable /\ HeardInOrder /\ Reopened
  BY PayableStarts DEF Card!Init, HeardInOrder, Reopened
<1>2. CardIInv /\ Payable /\ HeardInOrder /\ Reopened /\ [Card!Next]_(Card!vars) => (Payable /\ HeardInOrder /\ Reopened)'
  BY PayableGoesOn, HeardGoesOn, ReopenedGoesOn
<1>3. CardIInv /\ Payable /\ Reopened => Card!ReregistrationIsOpen
  <2> SUFFICES ASSUME CardIInv, Payable, Reopened, Card!Settled, trade.st \in Card!Paying, payout = "expired"
               PROVE  "register-invoice" \in Card!offers(trade.sponsor)
    BY DEF Card!ReregistrationIsOpen
  <2>1. Told /\ claimError \in {"rejected", "expired"}
    BY DEF Card!Settled, Told, NoneAsked, Reopened, Form
  <2>2. trade.sponsor # NoOne /\ ~trade.disbursed
    BY DEF CardIInv, Course, Reached, Payable
  <2>3. trade.sponsor \in Card!Parties /\ trade.sponsor # Customer /\ shown[trade.sponsor] = trade
    BY <2>2, AtRest
  <2>4. Card!resubmit(trade)
    BY <2>1, <2>2 DEF Card!resubmit
  <2> QED
    BY <2>3, <2>4 DEF Card!offers, Card!sponsorActions
<1> QED
  BY <1>1, <1>2, <1>3, Kept, PTL DEF Card!Spec
=============================================================================
