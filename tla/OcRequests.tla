------------------------------ MODULE OcRequests ------------------------------
(*****************************************************************************)
(* The requests of customer and sponsor (onchain/handlers.ts) and the        *)
(* operator's commands (commands.ts), each one transaction.                  *)
(*                                                                           *)
(* A request that a deadline can refuse is judged by the time it was made    *)
(* (requestAt).  One made too late changes nothing, so mail holds those made *)
(* in time: they count whenever they are handled.                            *)
(*****************************************************************************)
EXTENDS OcFlow

Handling == UNCHANGED <<chain, lapsed, warm, crashes>>
Judging == UNCHANGED <<bonds, verdict>>

\* A person's next bond is asked for when the last one is settled (one per person is kept).
ocOrderRequest == /\ Handling
                  /\ order.state = "none" /\ bonds["customer"] \in {"none", "returned"}
                  /\ bonds' = [bonds EXCEPT !["customer"] = "asked"]
                  /\ UNCHANGED <<order, meta, outgoing, due, mail, copies, alerts, verdict>>

ocDesignatedOrderRequest(s) ==
  /\ Handling /\ Judging
  /\ order.state = "none" /\ bonds["customer"] \in {"none", "returning", "returned"}
  /\ Listed(s)
  /\ UNCHANGED <<meta, outgoing, mail, copies, alerts>>

ocClaim(s) == /\ Handling
              /\ order.state = "listed" /\ ~ due
              /\ order.designated \in {"none", s}
              /\ IF order.designated = s
                 THEN bondOc(s) /\ UNCHANGED bonds
                 ELSE /\ bonds[s] \in {"none", "returned"}
                      /\ bonds' = [bonds EXCEPT ![s] = "asked"] /\ UNCHANGED <<order, due>>
              /\ UNCHANGED <<meta, outgoing, mail, copies, alerts, verdict>>

-------------------------------------------------------------------------------
(* In time or not at all: what people send, and how it is handled.          *)

Sends(what) == /\ ~ due /\ what \notin mail
               /\ mail' = mail \cup {what}
               /\ UNCHANGED <<order, meta, bonds, lapsed, chain, outgoing, due, warm, copies,
                              crashes, alerts, verdict>>

SponsorSigns == order.state = "funded" /\ Sends(order.pinned)
CustomerSendsAccount == order.state = "presigned" /\ ~ order.accountSent /\ Sends("account")
SponsorRemits == order.state = "presigned" /\ order.accountSent /\ Sends("remit")
SponsorObjects == order.state = "presigned" /\ order.accountSent /\ Sends("objection")

Takes(what) == /\ Handling /\ Judging
               /\ what \in mail /\ mail' = mail \ {what}
               /\ UNCHANGED <<outgoing, alerts>>

\* The signature is checked against the release the daemon builds for the pinned funding.
\* (Fault: against the one it was made for.)
Matches_itself(u) == TRUE
Matches(u) == u = order.pinned

ocPresig(u) ==
  /\ Takes(u)
  /\ IF order.state = "funded" /\ order.kind = "none" /\ Matches(u)
     THEN /\ MovesTo([order EXCEPT !.state = "presigned"])
          /\ meta' = [meta EXCEPT !.presig = u]
          /\ copies' = copies \cup {u}
     ELSE UNCHANGED <<order, meta, due, copies>>

ocAccountInfo ==
  /\ Takes("account")
  /\ IF order.state = "presigned" /\ ~ order.accountSent /\ order.kind = "none"
     THEN order' = [order EXCEPT !.accountSent = TRUE] /\ due' = FALSE
     ELSE UNCHANGED <<order, due>>
  /\ UNCHANGED <<meta, copies>>

ocRemit ==
  /\ Takes("remit")
  /\ IF order.state = "presigned" /\ order.kind = "none" /\ order.accountSent
     THEN MovesTo([order EXCEPT !.state = "remitted", !.remitted = TRUE])
     ELSE UNCHANGED <<order, due>>
  /\ UNCHANGED <<meta, copies>>

\* An objection to the account is not a state; a dispute of a remittance is.
ocObjection ==
  /\ Takes("objection")
  /\ IF order.state = "presigned" /\ order.accountSent /\ order.kind = "none"
     THEN Stays([order EXCEPT !.accountDisputed = TRUE])
     ELSE UNCHANGED <<order, due>>
  /\ UNCHANGED <<meta, copies>>

ocDispute == /\ Handling /\ Judging
             /\ order.state = "remitted"
             /\ MovesTo([order EXCEPT !.state = "disputed"])
             /\ UNCHANGED <<meta, outgoing, mail, copies, alerts>>

-------------------------------------------------------------------------------
(* Cancelling, signing, rescuing.                                           *)

ocCancel ==
  /\ Handling
  /\ \/ /\ order.state = "none" /\ bonds["customer"] \in {"asked", "paid"}
        /\ bonds' = [bonds EXCEPT !["customer"] = "returning"]
        /\ UNCHANGED <<order, due, verdict>>
     \/ /\ order.state = "listed"
        /\ MovesTo([order EXCEPT !.state = "cancelled"])
        /\ bonds' = Dropped(Judged(order, "cancel:customer"))
        /\ verdict' = Verdict("cancel:customer")
  /\ UNCHANGED <<meta, outgoing, mail, copies, alerts>>

\* A signature for what may be signed now.  A release needs the sponsor's too, from the
\* presignature that is kept.
ocCosign(tx) ==
  /\ Handling
  /\ canActOnSignRequest(order.state, tx, order.kind)
  /\ tx = "release" => meta.presig = order.pinned
  /\ enterSettling(IF tx = "release" THEN "release" ELSE order.kind)
  /\ UNCHANGED <<mail, copies, alerts>>

ocRescueCosign(u) ==
  /\ Handling /\ Judging
  /\ meta.rescues[u] = "requested" /\ ~ isPinnedOfLiveTrade(u)
  /\ meta' = [meta EXCEPT !.rescues[u] = "signed"]
  /\ outgoing' = outgoing \cup {[coin |-> u, tx |-> "rescue"]}
  /\ UNCHANGED <<order, due, mail, copies, alerts>>

-------------------------------------------------------------------------------
(* The operator.                                                            *)

oc_rule == /\ Handling
           /\ order.state = "disputed" /\ order.kind = "none"
           /\ \E kind \in {"sponsor_win", "customer_win"} :
                Stays([order EXCEPT !.kind = kind]) /\ applyOutcome(order, kind)
           /\ UNCHANGED <<meta, outgoing, mail, copies, alerts>>

resolveAccountDispute ==
  /\ Handling
  /\ order.kind = "refund:account-disputed"
  /\ order.state \in {"refunding", "settling", "refunded"}
  /\ \E kind \in {"refund:customer-late", "refund:sponsor-timeout"} :
       Stays([order EXCEPT !.kind = kind]) /\ applyOutcome(order, kind)
  /\ UNCHANGED <<meta, outgoing, mail, copies, alerts>>

\* Asking again forgets what was signed before.
requestRescue(u) ==
  /\ Handling /\ Judging
  /\ u \in meta.strays /\ ~ isPinnedOfLiveTrade(u)
  /\ \/ coins[u].value = "wrong" \/ order.state \in OcTerminal
     \/ "rescue-live" \in Mishaps
  /\ meta' = [meta EXCEPT !.rescues[u] = "requested"]
  /\ UNCHANGED <<order, outgoing, due, mail, copies, alerts>>
===============================================================================
