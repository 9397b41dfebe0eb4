----------------------------- MODULE HoldInvoice -----------------------------
(***************************************************************************)
(* Hold invoices (daemon/src/hold/index.ts) run by the effect queue        *)
(* (daemon/src/effects.ts).  An invoice is a row of the daemon's database  *)
(* and, separately, an invoice of the LND node; hold.create and            *)
(* hold.dispose are queued with the row's transaction and run later, one   *)
(* at a time, as lookup - act - record.  Between those three steps the     *)
(* payer pays, the node's own timers fire, a call fails or the process     *)
(* dies; the effect is then still pending and runs again from the start.   *)
(***************************************************************************)

CONSTANT Hold        \* the invoices, one per payment hash

VARIABLES
  row,       \* ln_invoices.status, "none" before plan
  bolt11,    \* is ln_invoices.bolt11 filled in?  Only then can it be paid
  creating,  \* is a hold.create effect pending?
  disposing, \* the action of the pending hold.dispose effect, or "none"
  node,      \* the node's copy of the invoice
  exec,      \* what the daemon's one thread is in the middle of
  settleAsked,  \* history: was a settle ever queued?
  alarm      \* history: was the "settle we did not do" alert raised?

vars == <<row, bolt11, creating, disposing, node, exec, settleAsked, alarm>>

RowStatus  == {"creating", "open", "accepted", "settled", "cancelled"}
NodeState  == {"open", "accepted", "settled", "cancelled"}
Actions    == {"settle", "cancel"}
Final      == {"settled", "cancelled"}

\* exec: idle; looked up by a create, a dispose or the poll; or about to record.
Idle == [op |-> "idle"]
Looked == [op : {"create", "dispose", "poll"}, h : Hold, saw : NodeState \cup {"absent"}]
Done == [op : {"createDone"}, h : Hold, result : {"bolt11", "tooLate", "cleaned"}]
        \cup [op : {"disposeDone"}, h : Hold, result : Final]

TypeOK == /\ row \in [Hold -> RowStatus \cup {"none"}]
          /\ bolt11 \in [Hold -> BOOLEAN]
          /\ creating \in [Hold -> BOOLEAN]
          /\ disposing \in [Hold -> Actions \cup {"none"}]
          /\ node \in [Hold -> NodeState \cup {"absent"}]
          /\ exec \in {Idle} \cup Looked \cup Done
          /\ settleAsked \in [Hold -> BOOLEAN]
          /\ alarm \in [Hold -> BOOLEAN]

Init == /\ row = [h \in Hold |-> "none"]
        /\ bolt11 = [h \in Hold |-> FALSE]
        /\ creating = [h \in Hold |-> FALSE]
        /\ disposing = [h \in Hold |-> "none"]
        /\ node = [h \in Hold |-> "absent"]
        /\ exec = Idle
        /\ settleAsked = [h \in Hold |-> FALSE]
        /\ alarm = [h \in Hold |-> FALSE]

-------------------------------------------------------------------------------
(* What a handler, a hook or the clock asks for, inside its transaction.    *)

Plan(h) == /\ exec = Idle
           /\ row[h] = "none"
           /\ row' = [row EXCEPT ![h] = "creating"]
           /\ creating' = [creating EXCEPT ![h] = TRUE]
           /\ UNCHANGED <<bolt11, disposing, node, exec, settleAsked, alarm>>

\* The dedup key admits one pending disposal: a later, different one is dropped.
Dispose(h, a) == /\ exec = Idle
                 /\ row[h] # "none"
                 /\ disposing[h] = "none"
                 /\ disposing' = [disposing EXCEPT ![h] = a]
                 /\ settleAsked' = [settleAsked EXCEPT ![h] = @ \/ a = "settle"]
                 /\ UNCHANGED <<row, bolt11, creating, node, exec, alarm>>

-------------------------------------------------------------------------------
(* hold.create                                                              *)

CreateLookup(h) == /\ exec = Idle /\ creating[h]
                   /\ exec' = [op |-> "create", h |-> h, saw |-> node[h]]
                   /\ UNCHANGED <<row, bolt11, creating, disposing, node, settleAsked, alarm>>

\* What cancelInvoice leaves at the node; a settled invoice refuses it.
Cancelled(state) == IF state = "settled" THEN "settled" ELSE "cancelled"

\* Is the row still waiting for its invoice?
StillPlanned(h) == row[h] = "creating"

\* The row was cancelled before the node made it: sweep what a lost try left there.
CreateCleanup(h) == /\ ~ StillPlanned(h)
                    /\ node' = IF exec.saw \in {"open", "accepted"}
                               THEN [node EXCEPT ![h] = Cancelled(@)] ELSE node
                    /\ exec' = [op |-> "createDone", h |-> h, result |-> "cleaned"]

\* (Fault: no look first, and LND refuses the same hash again and again.)
CreateAdopt_never(h) == FALSE
CreateAdopt(h) == /\ StillPlanned(h) /\ exec.saw # "absent"
                  /\ exec' = [op |-> "createDone", h |-> h, result |-> "bolt11"]
                  /\ UNCHANGED node

\* Less than a minute of pay_by is left (the node was down for too long).
CreateTooLate(h) == /\ StillPlanned(h) /\ exec.saw = "absent"
                    /\ exec' = [op |-> "createDone", h |-> h, result |-> "tooLate"]
                    /\ UNCHANGED node

CreateAdd(h) == /\ StillPlanned(h) /\ exec.saw = "absent"
                /\ node' = [node EXCEPT ![h] = "open"]
                /\ exec' = [op |-> "createDone", h |-> h, result |-> "bolt11"]

CreateAct(h) == /\ exec.op = "create" /\ exec.h = h
                /\ CreateCleanup(h) \/ CreateAdopt(h) \/ CreateTooLate(h) \/ CreateAdd(h)
                /\ UNCHANGED <<row, bolt11, creating, disposing, settleAsked, alarm>>

\* onDone, in one transaction with the effect's own end.
CreateRecord(h) ==
  /\ exec.op = "createDone" /\ exec.h = h
  /\ creating' = [creating EXCEPT ![h] = FALSE]
  /\ exec' = Idle
  /\ \/ /\ ~ StillPlanned(h)
        /\ UNCHANGED <<row, bolt11>>
     \/ /\ StillPlanned(h) /\ exec.result = "tooLate"
        /\ row' = [row EXCEPT ![h] = "cancelled"]
        /\ UNCHANGED bolt11
     \/ /\ StillPlanned(h) /\ exec.result = "bolt11"
        /\ row' = [row EXCEPT ![h] = "open"]
        /\ bolt11' = [bolt11 EXCEPT ![h] = TRUE]
  /\ UNCHANGED <<disposing, node, settleAsked, alarm>>

-------------------------------------------------------------------------------
(* hold.dispose                                                             *)

DisposeLookup(h) == /\ exec = Idle /\ disposing[h] # "none"
                    /\ exec' = [op |-> "dispose", h |-> h, saw |-> node[h]]
                    /\ UNCHANGED <<row, bolt11, creating, disposing, node, settleAsked, alarm>>

\* settleOrCancel: nothing to do, for an invoice that is absent or already final.
\* (Fault: what was seen is reported as it is.)
DisposeNothing_asSeen(h) == /\ exec.saw \in Final \cup {"absent"}
                            /\ exec' = [op |-> "disposeDone", h |-> h, result |-> exec.saw]
                            /\ UNCHANGED node
DisposeNothing(h) ==
  /\ exec.saw \in Final \cup {"absent"}
  /\ exec' = [op |-> "disposeDone", h |-> h,
              result |-> IF exec.saw = "settled" THEN "settled" ELSE "cancelled"]
  /\ UNCHANGED node

DisposeSettle(h) == /\ disposing[h] = "settle" /\ exec.saw = "accepted"
                    /\ node[h] = "accepted"
                    /\ node' = [node EXCEPT ![h] = "settled"]
                    /\ exec' = [op |-> "disposeDone", h |-> h, result |-> "settled"]

\* (Fault: an unpaid invoice is only written off, not cancelled at the node.)
DisposeCancel_onPaper(h) ==
  /\ exec.saw \in {"open", "accepted"}
  /\ ~ (disposing[h] = "settle" /\ exec.saw = "accepted")
  /\ node[h] # "settled"
  /\ node' = IF exec.saw = "open" THEN node ELSE [node EXCEPT ![h] = Cancelled(@)]
  /\ exec' = [op |-> "disposeDone", h |-> h, result |-> "cancelled"]
DisposeCancel(h) == /\ exec.saw \in {"open", "accepted"}
                    /\ ~ (disposing[h] = "settle" /\ exec.saw = "accepted")
                    /\ node[h] # "settled"
                    /\ node' = [node EXCEPT ![h] = Cancelled(@)]
                    /\ exec' = [op |-> "disposeDone", h |-> h, result |-> "cancelled"]

\* The HTLC went away between lookup and settle: LND refuses, the effect runs again.
\* (Fault: the refusal is taken for success.)
SettleRefused_swallowed(h) == /\ disposing[h] = "settle" /\ exec.saw = "accepted"
                              /\ node[h] # "accepted"
                              /\ exec' = [op |-> "disposeDone", h |-> h, result |-> "settled"]
                              /\ UNCHANGED node
SettleRefused(h) == /\ disposing[h] = "settle" /\ exec.saw = "accepted"
                    /\ node[h] # "accepted"
                    /\ exec' = Idle
                    /\ UNCHANGED node

DisposeAct(h) == /\ exec.op = "dispose" /\ exec.h = h
                 /\ \/ DisposeNothing(h) \/ DisposeSettle(h)
                    \/ DisposeCancel(h) \/ SettleRefused(h)
                 /\ UNCHANGED <<row, bolt11, creating, disposing, settleAsked, alarm>>

\* recordDisposal is silent when the row already says so.
DisposeRecord(h) == /\ exec.op = "disposeDone" /\ exec.h = h
                    /\ disposing' = [disposing EXCEPT ![h] = "none"]
                    /\ row' = [row EXCEPT ![h] = exec.result]
                    /\ exec' = Idle
                    /\ UNCHANGED <<bolt11, creating, node, settleAsked, alarm>>

-------------------------------------------------------------------------------
(* The poll of every tick                                                   *)

PollLookup(h) == /\ exec = Idle /\ row[h] \in {"open", "accepted"}
                 /\ exec' = [op |-> "poll", h |-> h, saw |-> node[h]]
                 /\ UNCHANGED <<row, bolt11, creating, disposing, node, settleAsked, alarm>>

\* A pending disposal writes its own result: the poll then leaves the row alone.
\* (Fault: it does not.)
PollDefers_never(h) == FALSE
PollDefers(h) == disposing[h] # "none"

Observe(h) ==
  /\ exec.op = "poll" /\ exec.h = h
  /\ exec' = Idle
  /\ \/ /\ PollDefers(h) \/ exec.saw = "open" \/ (exec.saw = "accepted" /\ row[h] = "accepted")
        /\ UNCHANGED <<row, alarm>>
     \/ /\ ~ PollDefers(h) /\ exec.saw = "accepted" /\ row[h] = "open"
        /\ row' = [row EXCEPT ![h] = "accepted"]
        /\ UNCHANGED alarm
     \/ /\ ~ PollDefers(h) /\ exec.saw = "settled"
        /\ row' = [row EXCEPT ![h] = "settled"]
        /\ alarm' = [alarm EXCEPT ![h] = TRUE]
     \/ /\ ~ PollDefers(h) /\ exec.saw = "cancelled"
        /\ row' = [row EXCEPT ![h] = "cancelled"]
        /\ UNCHANGED alarm
  /\ UNCHANGED <<bolt11, creating, disposing, node, settleAsked>>

-------------------------------------------------------------------------------
(* What the daemon does not decide                                          *)

\* A call throws, with or without having worked at the node, or the process dies.
\* Either way the thread's memory is gone and the effect is pending as before.
Interrupt == /\ exec # Idle
             /\ exec' = Idle
             /\ UNCHANGED <<row, bolt11, creating, disposing, node, settleAsked, alarm>>

\* Only an invoice whose bolt11 was published can be paid.
PayerPays(h) == /\ node[h] = "open" /\ bolt11[h]
                /\ node' = [node EXCEPT ![h] = "accepted"]
                /\ UNCHANGED <<row, bolt11, creating, disposing, exec, settleAsked, alarm>>

\* The node cancels an unpaid invoice past its expiry, and a held HTLC close to its own.
NodeGivesUp(h) == /\ node[h] \in {"open", "accepted"}
                  /\ node' = [node EXCEPT ![h] = "cancelled"]
                  /\ UNCHANGED <<row, bolt11, creating, disposing, exec, settleAsked, alarm>>

Daemon(h) == \/ Plan(h) \/ \E a \in Actions : Dispose(h, a)
             \/ CreateLookup(h) \/ CreateAct(h) \/ CreateRecord(h)
             \/ DisposeLookup(h) \/ DisposeAct(h) \/ DisposeRecord(h)
             \/ PollLookup(h) \/ Observe(h)

Next == \/ \E h \in Hold : Daemon(h) \/ PayerPays(h) \/ NodeGivesUp(h)
        \/ Interrupt

Spec == Init /\ [][Next]_vars

\* The queue retries for ever with a bounded delay, and neither the node nor the
\* process is down for good: a step that can be tried again and again succeeds.
Retried == \A h \in Hold :
             /\ SF_vars(CreateLookup(h)) /\ SF_vars(CreateAct(h)) /\ SF_vars(CreateRecord(h))
             /\ SF_vars(DisposeLookup(h)) /\ SF_vars(DisposeAct(h)) /\ SF_vars(DisposeRecord(h))
             /\ WF_vars(Observe(h))

FairSpec == Spec /\ Retried

-------------------------------------------------------------------------------
(* Properties                                                               *)

\* A final row tells the truth about the money: "settled" only if the node settled, and a
\* row that says "cancelled" has nobody's money caught behind it, now or later.  A crash
\* between the node call and the record, or a payment between lookup and act, would break it.
RecordTruthful == \A h \in Hold :
  /\ row[h] = "settled" => node[h] = "settled"
  /\ row[h] = "cancelled" => node[h] \notin {"accepted", "settled"}

\* The node never keeps money the daemon did not decide to keep: a settle at the node was
\* asked for through dispose (settleOrCancel's want), never a side effect of a retry.
SettledOnlyWhenAsked == \A h \in Hold : node[h] = "settled" => settleAsked[h]

\* Once both effects of a cancelled invoice are through, the node has no live copy of it,
\* also where an addHoldInvoice whose answer was lost had made one (createExecutor's lookups).
NoOrphanAtNode == \A h \in Hold :
  row[h] = "cancelled" /\ ~ creating[h] /\ disposing[h] = "none"
    => node[h] \notin {"open", "accepted"}

\* observe() never takes the daemon's own settle for one it did not do: the anomaly alert
\* stays silent as long as the preimage never left the daemon.
NoFalseAlarm == \A h \in Hold : ~ alarm[h]

\* A row that reached settled or cancelled never leaves it, whichever of the retries, the
\* poll and a second disposal comes last.
FinalIsFinal == [][\A h \in Hold : row[h] \in Final => row'[h] = row[h]]_vars

\* hold.create and hold.dispose end, and with a disposal the row is final: an intent
\* that was queued is carried out, however often calls fail and the process restarts.
OrdersEnd == \A h \in Hold : /\ disposing[h] # "none" ~> row[h] \in Final
                             /\ creating[h] ~> ~ creating[h]

\* The refinement: the money's fate is the node's state, the book is the row.
Promise == INSTANCE HoldPromise WITH
  fate <- [h \in Hold |-> IF node[h] = "accepted" THEN "held"
                          ELSE IF node[h] = "settled" THEN "kept"
                          ELSE IF node[h] = "cancelled" THEN "returned" ELSE "unpaid"],
  book <- [h \in Hold |-> IF row[h] = "settled" THEN "kept"
                          ELSE IF row[h] = "cancelled" THEN "returned" ELSE "open"],
  asked <- settleAsked

\* The effects, the retries and the crashes of this module keep the promise of HoldPromise.
KeepsPromise == Promise!Spec
===============================================================================
