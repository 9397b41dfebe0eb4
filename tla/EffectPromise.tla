--------------------------- MODULE EffectPromise ---------------------------
(* What the effect queue promises the code that enqueues: an effect is asked *)
(* for once, is carried out only while it is owed, and is recorded as done   *)
(* only after the outside world did it; the transition that presumes its     *)
(* success is written in the step that records it, and only there.           *)
EXTENDS Naturals

CONSTANT Ids       \* the effects that may ever be asked for

VARIABLES
    owed,          \* asked for and not recorded yet
    acted,         \* the outside world has carried it out at least once
    done,          \* recorded as done
    dead,          \* given up
    follow         \* how often the transition that presumes success was made

promiseVars == <<owed, acted, done, dead, follow>>

Init ==
    /\ owed = {} /\ acted = {} /\ done = {} /\ dead = {}
    /\ follow = [i \in Ids |-> 0]

\* One or more intents are committed together with the change that needs them.
Ask ==
    /\ \E new \in SUBSET (Ids \ (owed \cup done \cup dead)) : owed' = owed \cup new
    /\ UNCHANGED <<acted, done, dead, follow>>

Act(i) ==
    /\ i \in owed
    /\ acted' = acted \cup {i}
    /\ UNCHANGED <<owed, done, dead, follow>>

\* Recording may ask for further effects in the same step.
Record(i) ==
    /\ i \in owed \cap acted
    /\ done' = done \cup {i}
    /\ follow' = [follow EXCEPT ![i] = @ + 1]
    /\ \E new \in SUBSET (Ids \ (owed \cup done \cup dead)) :
           owed' = (owed \ {i}) \cup new
    /\ UNCHANGED <<acted, dead>>

GiveUp(i) ==
    /\ i \in owed
    /\ owed' = owed \ {i}
    /\ dead' = dead \cup {i}
    /\ UNCHANGED <<acted, done, follow>>

Next == Ask \/ \E i \in Ids : Act(i) \/ Record(i) \/ GiveUp(i)

Spec == Init /\ [][Next]_promiseVars
=============================================================================
