------------------------------- MODULE LnPayout -------------------------------
(***************************************************************************)
(* Paying the sponsor of one closed Lightning trade (state paid or         *)
(* sponsor_wins, DM-003 satisfied): the ln.payout effect of                *)
(* daemon/src/ln/effects.ts, the sponsor's replacement of an expired       *)
(* invoice (handlers.ts), and the operator's retry-payout, manual-payout   *)
(* and mark-disbursed commands (commands.ts).  The executor is a sequence  *)
(* of awaits; requests and commands may come between any two of them,      *)
(* which is more than the tick of runtime.ts lets happen: the executor's   *)
(* own comments promise not to lean on that order.                         *)
(*                                                                         *)
(* LND pays a payment hash at most once and refuses an invoice that is     *)
(* past its expiry; each Invoice here is one payment hash.                 *)
(***************************************************************************)

CONSTANT Invoice     \* the invoices the sponsor may hand in

VARIABLES
  sponsorInvoice,  \* ln_orders.sponsor_invoice
  disbursed,       \* ln_orders.disbursed
  payoutError,     \* ln_orders.payout_error
  queued,          \* is an ln.payout effect pending?
  exec,            \* how far the running executor has come
  payment,         \* what trackPayment would answer, per payment hash
  lapsed,          \* is the invoice expired, or less than 30 s from it?
  operatorPaid     \* history: the operator paid the sponsor by hand

vars == <<sponsorInvoice, disbursed, payoutError, queued, exec, payment, lapsed, operatorPaid>>
order == <<sponsorInvoice, disbursed, payoutError>>
world == <<payment, lapsed, operatorPaid>>

Errors == {"none", "failed", "invoice-expired", "manual-requested", "manual"}
PayStatus == {"none", "in-flight", "succeeded", "failed"}
isManualPayout(error) == error \in {"manual-requested", "manual"}

\* Money that left us for this payment, or still may.
Out(i) == payment[i] \in {"in-flight", "succeeded"}

Idle == [op |-> "idle"]
Running == [op : {"start", "tracked", "ready", "sent"}, inv : Invoice]
           \cup [op : {"record"}, inv : Invoice, outcome : {"paid", "expired", "manual", "skip"}]

TypeOK == /\ sponsorInvoice \in Invoice
          /\ disbursed \in BOOLEAN
          /\ payoutError \in Errors
          /\ queued \in BOOLEAN
          /\ exec \in {Idle} \cup Running
          /\ payment \in [Invoice -> PayStatus]
          /\ lapsed \in [Invoice -> BOOLEAN]
          /\ operatorPaid \in BOOLEAN

\* finishClose has just written paid or sponsor_wins and called requestPayout.
Init == /\ sponsorInvoice \in Invoice
        /\ disbursed = FALSE
        /\ payoutError = "none"
        /\ queued = TRUE
        /\ exec = Idle
        /\ payment = [i \in Invoice |-> "none"]
        /\ lapsed \in [Invoice -> BOOLEAN]
        /\ operatorPaid = FALSE

-------------------------------------------------------------------------------
(* The executor, await by await                                             *)

\* Retry: the effect stays pending; a manual mark is never overwritten.
\* (Fault: it is.)
Retry_overwrites(error) ==
  /\ exec' = Idle /\ payoutError' = error
  /\ UNCHANGED <<sponsorInvoice, disbursed, queued>>
Retry(error) ==
  /\ exec' = Idle
  /\ payoutError' = IF isManualPayout(payoutError) THEN payoutError ELSE error
  /\ UNCHANGED <<sponsorInvoice, disbursed, queued>>

\* A payment in flight is looked at again later and leaves no error.
\* (Fault: it is left to itself.)
Recheck_done == exec' = Idle /\ queued' = FALSE /\ UNCHANGED order
Recheck == exec' = Idle /\ UNCHANGED <<order, queued>>

Finish(i, outcome) == /\ exec' = [op |-> "record", inv |-> i, outcome |-> outcome]
                      /\ UNCHANGED <<order, queued>>

Start == /\ exec = Idle /\ queued
         /\ IF disbursed THEN Finish(sponsorInvoice, "skip")
            ELSE /\ exec' = [op |-> "start", inv |-> sponsorInvoice]
                 /\ UNCHANGED <<order, queued>>
         /\ UNCHANGED world

Track == /\ exec.op = "start"
         /\ \/ /\ payment[exec.inv] = "succeeded"
               /\ Finish(exec.inv, "paid")
            \/ /\ payment[exec.inv] = "in-flight"
               /\ Recheck
            \/ /\ payment[exec.inv] \in {"none", "failed"}
               /\ exec' = [op |-> "tracked", inv |-> exec.inv]
               /\ UNCHANGED <<order, queued>>
         /\ UNCHANGED world

\* The order is read again: a stop asked for while we waited counts.  Then the expiry.
StopsForOperator == /\ isManualPayout(payoutError)
                    /\ Finish(exec.inv, "manual")

FindsExpired == /\ ~ isManualPayout(payoutError) /\ lapsed[exec.inv]
                /\ Finish(exec.inv, "expired")

GoesAhead == /\ ~ isManualPayout(payoutError) /\ ~ lapsed[exec.inv]
             /\ exec' = [op |-> "ready", inv |-> exec.inv]
             /\ UNCHANGED <<order, queued>>

Decide == /\ exec.op = "tracked"
          /\ StopsForOperator \/ FindsExpired \/ GoesAhead
          /\ UNCHANGED world

\* payInvoice: LND takes the payment on, if the invoice has not expired meanwhile.
PayInvoice == /\ exec.op = "ready" /\ ~ lapsed[exec.inv]
              /\ payment' = [payment EXCEPT ![exec.inv] = "in-flight"]
              /\ exec' = [op |-> "sent", inv |-> exec.inv]
              /\ UNCHANGED <<order, queued, lapsed, operatorPaid>>

PayReturns == /\ exec.op = "sent"
              /\ \/ payment[exec.inv] = "succeeded" /\ Finish(exec.inv, "paid")
                 \/ payment[exec.inv] = "in-flight" /\ Recheck
                 \/ payment[exec.inv] = "failed" /\ Retry("failed")
              /\ UNCHANGED world

\* Any of the node calls throws, whether or not the node did what it was asked.
CallThrows == /\ exec.op \in {"start", "ready", "sent"}
              /\ Retry("failed")
              /\ UNCHANGED world

\* The process dies: the thread is gone, the effect is still pending.
Crash == /\ exec # Idle
         /\ exec' = Idle
         /\ UNCHANGED <<order, queued, world>>

-------------------------------------------------------------------------------
(* onDone: the effect is finished and its consequence written, together     *)

RecordPaid == /\ exec.outcome = "paid"
              /\ disbursed' = TRUE /\ payoutError' = "none"
              /\ queued' = FALSE
              /\ UNCHANGED sponsorInvoice

RecordSkip == /\ exec.outcome = "skip"
              /\ queued' = FALSE
              /\ UNCHANGED order

\* The verdict is about the invoice that was tracked: if it was replaced, start over.
Outdated == exec.outcome \in {"expired", "manual"} /\ exec.inv # sponsorInvoice

\* (Fault: it is just dropped.)
RecordOutdated_dropped == Outdated /\ queued' = FALSE /\ UNCHANGED order
RecordOutdated == /\ Outdated
                  /\ queued' = TRUE
                  /\ UNCHANGED order

RecordManual == /\ exec.outcome = "manual" /\ ~ Outdated
                /\ payoutError' = "manual" /\ queued' = FALSE
                /\ UNCHANGED <<sponsorInvoice, disbursed>>

\* A stop asked for in the meantime is confirmed by another round, not written over.
RecordExpiredButStopped == /\ exec.outcome = "expired" /\ ~ Outdated
                           /\ isManualPayout(payoutError)
                           /\ queued' = TRUE
                           /\ UNCHANGED order

\* (Fault: the dead invoice is erased.)
RecordExpired_erased == /\ exec.outcome = "expired" /\ ~ Outdated
                        /\ ~ isManualPayout(payoutError)
                        /\ payoutError' = "invoice-expired" /\ queued' = FALSE
                        /\ sponsorInvoice' = "none" /\ UNCHANGED disbursed
RecordExpired == /\ exec.outcome = "expired" /\ ~ Outdated
                 /\ ~ isManualPayout(payoutError)
                 /\ payoutError' = "invoice-expired" /\ queued' = FALSE
                 /\ UNCHANGED <<sponsorInvoice, disbursed>>

Record == /\ exec.op = "record"
          /\ \/ RecordPaid \/ RecordSkip \/ RecordOutdated
             \/ RecordManual \/ RecordExpiredButStopped \/ RecordExpired
          /\ exec' = Idle
          /\ UNCHANGED world

-------------------------------------------------------------------------------
(* Requests and commands                                                    *)

\* The sponsor's new invoice, taken only once the old one is known to be dead.
\* (Fault: after any failed attempt.)
ReplaceInvoice_anyError(i) == /\ ~ disbursed
                              /\ payoutError \in {"failed", "invoice-expired"}
                              /\ i # sponsorInvoice /\ ~ lapsed[i]
                              /\ sponsorInvoice' = i /\ payoutError' = "none"
                              /\ queued' = TRUE
                              /\ UNCHANGED <<disbursed, exec, world>>
ReplaceInvoice(i) == /\ ~ disbursed
                     /\ payoutError = "invoice-expired"
                     /\ i # sponsorInvoice /\ ~ lapsed[i]
                     /\ sponsorInvoice' = i /\ payoutError' = "none"
                     /\ queued' = TRUE
                     /\ UNCHANGED <<disbursed, exec, world>>

RetryPayout == /\ ~ disbursed
               /\ queued' = TRUE
               /\ UNCHANGED <<order, exec, world>>

\* The mark asks; only the executor, having looked at LND, confirms.  (Fault: it confirms.)
ManualPayout_atOnce == /\ ~ disbursed /\ ~ isManualPayout(payoutError)
                       /\ payoutError' = "manual"
                       /\ queued' = TRUE
                       /\ UNCHANGED <<sponsorInvoice, disbursed, exec, world>>
ManualPayout == /\ ~ disbursed /\ ~ isManualPayout(payoutError)
                /\ payoutError' = "manual-requested"
                /\ queued' = TRUE
                /\ UNCHANGED <<sponsorInvoice, disbursed, exec, world>>

MarkDisbursed == /\ ~ disbursed /\ payoutError = "manual"
                 /\ operatorPaid     \* the operator reports what he did
                 /\ disbursed' = TRUE
                 /\ UNCHANGED <<sponsorInvoice, payoutError, queued, exec, world>>

-------------------------------------------------------------------------------
(* The world                                                                *)

\* The sponsor may sit on an HTLC for as long as he likes, past the invoice's expiry too.
PaymentResolves(i) == /\ payment[i] = "in-flight"
                      /\ \E s \in {"succeeded", "failed"} :
                           payment' = [payment EXCEPT ![i] = s]
                      /\ UNCHANGED <<order, queued, exec, lapsed, operatorPaid>>

Lapse(i) == /\ ~ lapsed[i]
            /\ lapsed' = [lapsed EXCEPT ![i] = TRUE]
            /\ UNCHANGED <<order, queued, exec, payment, operatorPaid>>

\* The operator waits for "manual" before he pays, as the screen tells him to.
OperatorPays == /\ payoutError = "manual" /\ ~ disbursed /\ ~ operatorPaid
                /\ operatorPaid' = TRUE
                /\ UNCHANGED <<order, queued, exec, payment, lapsed>>

Executor == Start \/ Track \/ Decide \/ PayInvoice \/ PayReturns \/ Record
Commands == RetryPayout \/ ManualPayout \/ MarkDisbursed

Next == \/ Executor \/ CallThrows \/ Crash \/ Commands \/ OperatorPays
        \/ \E i \in Invoice : ReplaceInvoice(i) \/ PaymentResolves(i) \/ Lapse(i)

Spec == Init /\ [][Next]_vars

\* The queue retries for ever; a payment is not in flight for ever (its HTLCs time out).
FairSpec == /\ Spec
            /\ SF_vars(Start) /\ SF_vars(Track) /\ SF_vars(Decide)
            /\ SF_vars(PayReturns) /\ SF_vars(Record)
            /\ WF_vars(CallThrows)
            /\ \A i \in Invoice : WF_vars(PaymentResolves(i))

-------------------------------------------------------------------------------
(* Properties                                                               *)

\* The sponsor is never paid twice: of all his invoices at most one has money out, and
\* none once the operator paid by hand, over crashes, lost answers and replacements.
PaidOnce == /\ \A i, j \in Invoice : Out(i) /\ Out(j) => i = j
            /\ operatorPaid => \A i \in Invoice : ~ Out(i)

\* "manual" is a promise to the operator: nothing is out and nothing will go out.
ManualMeansStopped == payoutError = "manual" => \A i \in Invoice : ~ Out(i)

\* The order says disbursed only when the sponsor has his money, one way or the other.
DisbursedMeansPaid == disbursed =>
  operatorPaid \/ \E i \in Invoice : payment[i] = "succeeded"

\* An unpaid sponsor is never forgotten: the effect is pending, or a person was asked.
NeverForgotten == ~ disbursed /\ ~ queued => payoutError \in {"invoice-expired", "manual"}

\* An operator's stop is only ever confirmed or overtaken by the payment itself, never
\* undone by a retry, an expiry found meanwhile, or a replaced invoice.
StopIsNotLost ==
  [][isManualPayout(payoutError) =>
       \/ isManualPayout(payoutError')
       \/ disbursed' /\ payment[sponsorInvoice] = "succeeded"]_vars

\* Money that is out is in the end on the books, whatever crashes on the way; and a requested
\* stop ends: the payment got through, or the operator is told to take over.
PayoutEnds ==
  /\ (\E i \in Invoice : payment[i] = "succeeded") ~> disbursed
  /\ payoutError = "manual-requested" ~> (payoutError = "manual" \/ disbursed)
===============================================================================
