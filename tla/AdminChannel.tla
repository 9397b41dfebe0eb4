---------------------------- MODULE AdminChannel ----------------------------
(* Commands of the operators: pressed on a screen that may be behind and on a *)
(* device whose clock may be off (admin/src/daemon/client.ts), carried by     *)
(* relays whose acknowledgement may get lost, judged once by the daemon       *)
(* (admin/commands.ts, orders/directory.ts), answered through the effect      *)
(* queue, and shown as done, unknown or not sent.                             *)
EXTENDS Integers, FiniteSets

CONSTANTS
    Commands,       \* presses of a button
    Devices,
    MaxVersion,     \* bound: changes of the order, those by commands included
    MaxTime,        \* bound: the clock
    MaxOffset,      \* how far a device's clock may be off
    ADMIN_COMMAND_TTL,
    FUTURE_SKEW

AdminChannelAssumption ==
    /\ {MaxVersion, MaxTime, MaxOffset, ADMIN_COMMAND_TTL, FUTURE_SKEW} \subseteq Nat
    /\ IsFiniteSet(Commands) /\ Cardinality(Commands) < MaxVersion /\ MaxOffset <= MaxTime

VARIABLES
    now,
    offset,         \* how far each device's clock is off
    version,        \* of the order
    screen,         \* the version of the detail each device shows
    status,         \* CommandView.status, "unpressed" before
    command,        \* what the signed event says
    posted,         \* commands some relay holds
    posting,        \* commands whose publication is awaited
    waiting,        \* commands whose promise waits for a result
    judged,         \* what the daemon did: "no", "done", "refused", "ignored"
    answer,         \* the result event: "none", "queued", "out", "dead"
    answeredAt,
    heard           \* commands whose result the device has received

app == <<status, command, posting, waiting, heard>>
daemon == <<version, judged, answer, answeredAt>>
vars == <<now, offset, screen, posted, app, daemon>>

Kinds == {"rule", "again"}   \* a ruling; a command that leaves the order as it is
Unpressed == [device |-> "", kind |-> "", saw |-> 0, created_at |-> 0, at |-> 0]

Init ==
    /\ now = MaxOffset /\ offset \in [Devices -> -MaxOffset..MaxOffset]
    /\ version = 1 /\ screen = [d \in Devices |-> 1]
    /\ status = [c \in Commands |-> "unpressed"] /\ command = [c \in Commands |-> Unpressed]
    /\ posted = {} /\ posting = {} /\ waiting = {} /\ heard = {}
    /\ judged = [c \in Commands |-> "no"]
    /\ answer = [c \in Commands |-> "none"] /\ answeredAt = [c \in Commands |-> 0]

\* The trade goes on without the operators.
Move ==
    /\ version + Cardinality(Commands) < MaxVersion
    /\ version' = version + 1
    /\ UNCHANGED <<now, offset, screen, posted, app, judged, answer, answeredAt>>

\* A detail that is newer than the one on the screen arrives (onLnDetailEvent).
onLnDetailEvent(d) ==
    /\ \E v \in (screen[d] + 1)..version : screen' = [screen EXCEPT ![d] = v]
    /\ UNCHANGED <<now, offset, posted, app, daemon>>

\* A button under a detail: the command carries the detail's version.
sendCommand(c, d, kind) ==
    /\ status[c] = "unpressed"
    /\ status' = [status EXCEPT ![c] = "sending"]
    /\ command' = [command EXCEPT ![c] = [device |-> d, kind |-> kind, saw |-> screen[d],
                                          created_at |-> now + offset[d], at |-> now]]
    /\ posting' = posting \cup {c}
    /\ UNCHANGED <<now, offset, screen, posted, waiting, heard, daemon>>

\* A relay stores the event, perhaps after the device has given up on it.
Post(c) ==
    /\ status[c] # "unpressed" /\ c \notin posted
    /\ posted' = posted \cup {c}
    /\ UNCHANGED <<now, offset, screen, app, daemon>>

\* Every relay has answered or was given up on: one of them acknowledged, or none.
Sent(c) ==
    /\ c \in posting \cap posted
    /\ posting' = posting \ {c}
    /\ status' = [status EXCEPT ![c] = "pending"]
    /\ waiting' = waiting \cup {c}
    /\ UNCHANGED <<now, offset, screen, posted, command, heard, daemon>>
SendFailed(c) ==
    /\ c \in posting
    /\ posting' = posting \ {c}
    /\ status' = [status EXCEPT ![c] = "failed-to-send"]
    /\ UNCHANGED <<now, offset, screen, posted, command, waiting, heard, daemon>>

\* RESULT_TIMEOUT_MS without a result.
Timeout(c) ==
    /\ c \in waiting
    /\ status' = [status EXCEPT ![c] = "timeout"]
    /\ waiting' = waiting \ {c}
    /\ UNCHANGED <<now, offset, screen, posted, posting, command, heard, daemon>>

\* The checks of the admin handler, before the command is looked at.
InTime(c) ==
    /\ command[c].created_at >= now - ADMIN_COMMAND_TTL
    /\ command[c].created_at <= now + FUTURE_SKEW

\* Mutant: only a version the daemon does not have yet is refused.
checkTarget_older(saw) == saw <= version
checkTarget(saw) == saw = version

\* A command that is executed: a ruling changes the order and so its version.
execute(c) == version' = IF command[c].kind = "rule" THEN version + 1 ELSE version

reply(c, outcome) ==
    /\ answer' = [answer EXCEPT ![c] = "queued"]
    /\ answeredAt' = [answeredAt EXCEPT ![c] = now]

\* The dispatcher hands the command over, once.
handle(c) ==
    /\ c \in posted /\ judged[c] = "no"
    /\ IF ~InTime(c)
       THEN judged' = [judged EXCEPT ![c] = "ignored"] /\ UNCHANGED <<version, answer, answeredAt>>
       ELSE IF checkTarget(command[c].saw)
       THEN judged' = [judged EXCEPT ![c] = "done"] /\ execute(c) /\ reply(c, "done")
       ELSE judged' = [judged EXCEPT ![c] = "refused"] /\ reply(c, "refused") /\ UNCHANGED version
    /\ UNCHANGED <<now, offset, screen, posted, app>>

\* The publication of the result, given up once it has expired.
Publish(c) ==
    /\ answer[c] = "queued"
    /\ answer' = [answer EXCEPT ![c] = IF now >= answeredAt[c] + ADMIN_COMMAND_TTL THEN "dead" ELSE "out"]
    /\ answeredAt' = [answeredAt EXCEPT ![c] = 0]
    /\ UNCHANGED <<now, offset, screen, posted, app, version, judged>>

\* The feed hands the result over, once more whenever it is opened anew.
receiveResult(c) ==
    /\ answer[c] = "out" /\ status[c] # "unpressed"
    /\ status' = [status EXCEPT ![c] = "done"]
    /\ heard' = heard \cup {c}
    /\ waiting' = waiting \ {c}
    /\ UNCHANGED <<now, offset, screen, posted, posting, command, daemon>>

Elapse ==
    /\ now < MaxTime
    /\ now' = now + 1
    /\ UNCHANGED <<offset, screen, posted, app, daemon>>

Next ==
    \/ Move \/ Elapse
    \/ \E d \in Devices : onLnDetailEvent(d)
    \/ \E c \in Commands, d \in Devices, k \in Kinds : sendCommand(c, d, k)
    \/ \E c \in Commands : Post(c) \/ Sent(c) \/ SendFailed(c) \/ Timeout(c)
                           \/ handle(c) \/ Publish(c) \/ receiveResult(c)

Spec == Init /\ [][Next]_vars
\* The daemon's ticks and its queue go on, the client gives a send up in the end
\* and its timer fires, the feed is opened again and again.
FairSpec == Spec /\ \A c \in Commands :
    /\ WF_vars(handle(c)) /\ WF_vars(Publish(c)) /\ WF_vars(receiveResult(c))
    /\ WF_vars(Sent(c) \/ SendFailed(c)) /\ WF_vars(Timeout(c))

-----------------------------------------------------------------------------

Pressed == {c \in Commands : status[c] # "unpressed"}
Done == {c \in Commands : judged[c] = "done"}

TypeOK ==
    /\ now \in 0..MaxTime /\ version \in 1..MaxVersion
    /\ \A d \in Devices : screen[d] \in 1..version /\ offset[d] \in -MaxOffset..MaxOffset
    /\ posted \cup posting \subseteq Pressed /\ waiting \subseteq {c \in posted : status[c] = "pending"}
    /\ heard \subseteq {c \in Pressed : answer[c] = "out"}
    /\ \A c \in Commands :
        /\ status[c] \in {"unpressed", "sending", "pending", "failed-to-send", "timeout", "done"}
        /\ judged[c] \in {"no", "done", "refused", "ignored"}
        /\ judged[c] # "no" => c \in posted
        /\ answer[c] \in {"none", "queued", "out", "dead"}
        /\ (answer[c] # "none") = (judged[c] \in {"done", "refused"})

\* From two screens, or twice from one after an answer that did not come, two
\* rulings on the same version of an order are not both executed (checkTarget).
OneRulingPerVersion ==
    \A b, c \in Done : b # c /\ command[b].kind = "rule" /\ command[c].kind = "rule" =>
        command[b].saw # command[c].saw

\* What was pressed long ago is not executed any more, however far the device's
\* clock is off: who waits that long may press again (commands.ts, 2).
NeverExecutedLate ==
    \A c \in Done' \ Done : now <= command[c].at + MaxOffset + ADMIN_COMMAND_TTL

\* Whatever was executed or refused is shown in the end, unless the result expired
\* on its way, and no button waits for ever.
Judged(c) == judged[c] \in {"done", "refused"}
Told(c) == c \in heard \/ answer[c] = "dead"
EveryVerdictIsHeard == \A c \in Commands : Judged(c) ~> Told(c)
Sending(c) == status[c] = "sending"
Free(c) == status[c] \notin {"sending", "pending"}
NoButtonHangs == \A c \in Commands : Sending(c) ~> Free(c)

\* client.ts: a command whose execution is not known is not written down as failed.
FailedMeansNotDone == \A c \in Commands : status[c] = "failed-to-send" => judged[c] # "done"

\* client.ts: a result that has come is shown as it is.
HeardIsShown == \A c \in heard : status[c] = "done"

\* commands.ts: refusals are sent back as well.
EveryRefusalIsAnswered == \A c \in Commands : judged[c] # "no" => answer[c] # "none"
=============================================================================
