------------------------------ MODULE PriceFeed ------------------------------
(* The price of a bitcoin: three exchanges' sockets, their reconnections, and the two     *)
(* prices read from them, the one that is shown and the one that money is settled by      *)
(* (shared/src/price.ts; the daemon fixes an order's price by freshPrice, main.ts 78).    *)
(* Time passes in ticks; the market moves by at most one step in a tick, and an exchange  *)
(* that is not faulty quotes the market.                                                  *)
EXTENDS Integers, FiniteSets

CONSTANTS
    Exchanges,   \* EXCHANGES
    Faulty,      \* exchanges that quote anything at all
    Prices,      \* the prices there are, an interval
    MaxAge,      \* maxAgeMs, in ticks: what is older does not count as fresh
    MinSources   \* minSources

PriceAssumption ==
    /\ Faulty \subseteq Exchanges /\ Prices \subseteq Nat \ {0}
    /\ MaxAge \in Nat /\ MinSources \in Nat \ {0} /\ IsFiniteSet(Exchanges)

\* Of the exchanges one at most is wrong about the market.
OneMayBeWrong == Cardinality(Faulty) <= 1

None == 0
Old == MaxAge + 1   \* any age that is not fresh

VARIABLES
    market,    \* what a bitcoin costs
    running,   \* running
    socket,    \* sockets[index]: "none", "connecting", "open", or "mute" (open, but dead)
    price,     \* states[index].price
    age,       \* the time since states[index].updatedAt
    timer,     \* reconnectTimers[index]
    ping,      \* pingTimers[index]
    stale,     \* a socket that was replaced has its close event yet to come
    live       \* connections that nobody has closed
vars == <<market, running, socket, price, age, timer, ping, stale, live>>

Init ==
    /\ market \in Prices /\ running = FALSE
    /\ socket = [e \in Exchanges |-> "none"]
    /\ price = [e \in Exchanges |-> None] /\ age = [e \in Exchanges |-> Old]
    /\ timer = [e \in Exchanges |-> FALSE] /\ ping = [e \in Exchanges |-> FALSE]
    /\ stale = [e \in Exchanges |-> FALSE] /\ live = [e \in Exchanges |-> 0]

(* ------------------------------ the two prices ------------------------------ *)
\* Twice the median, so that the mean of the middle two needs no fraction.
Nth(quotes, from, n) ==
    CHOOSE p \in {quotes[e] : e \in from} :
        /\ Cardinality({e \in from : quotes[e] < p}) < n
        /\ Cardinality({e \in from : quotes[e] <= p}) >= n

median2(quotes, from) ==
    LET n == Cardinality(from) IN
    Nth(quotes, from, (n + 1) \div 2) + Nth(quotes, from, n \div 2 + 1)

FreshOnes == {e \in Exchanges : price[e] # None /\ age[e] <= MaxAge}
freshPrice2 == IF Cardinality(FreshOnes) < MinSources THEN None ELSE median2(price, FreshOnes)

(* -------------------------------- the sockets -------------------------------- *)
\* The connection that is kept for e is closed; its close event finds another in its place.
Dropped(e) ==
    /\ live' = [live EXCEPT ![e] = IF socket[e] = "none" THEN @ ELSE @ - 1]
    /\ stale' = [stale EXCEPT ![e] = @ \/ socket[e] # "none"]
    /\ ping' = [ping EXCEPT ![e] = FALSE]

\* A new socket, or an exception on the way to one.
connectExchange(e) ==
    \/ /\ live' = [live EXCEPT ![e] = (IF socket[e] = "none" THEN @ ELSE @ - 1) + 1]
       /\ stale' = [stale EXCEPT ![e] = @ \/ socket[e] # "none"]
       /\ ping' = [ping EXCEPT ![e] = FALSE]
       /\ socket' = [socket EXCEPT ![e] = "connecting"]
       /\ timer' = [timer EXCEPT ![e] = FALSE]
    \/ /\ Dropped(e)
       /\ socket' = [socket EXCEPT ![e] = "none"] /\ timer' = [timer EXCEPT ![e] = TRUE]

TimerFires(e) ==
    /\ timer[e] /\ running /\ connectExchange(e)
    /\ UNCHANGED <<market, running, price, age>>

start ==
    /\ ~ running /\ running' = TRUE
    /\ socket' = [e \in Exchanges |-> "connecting"]
    /\ live' = [e \in Exchanges |-> live[e] + 1]
    /\ UNCHANGED <<market, price, age, timer, ping, stale>>

Cleared == price' = [e \in Exchanges |-> None] /\ age' = [e \in Exchanges |-> Old]

stop ==
    /\ running /\ running' = FALSE
    /\ live' = [e \in Exchanges |-> IF socket[e] = "none" THEN live[e] ELSE live[e] - 1]
    /\ stale' = [e \in Exchanges |-> stale[e] \/ socket[e] # "none"]
    /\ socket' = [e \in Exchanges |-> "none"]
    /\ timer' = [e \in Exchanges |-> FALSE] /\ ping' = [e \in Exchanges |-> FALSE]
    /\ Cleared
    /\ UNCHANGED market

Opened(e) ==
    /\ socket[e] = "connecting"
    /\ socket' = [socket EXCEPT ![e] = "open"] /\ ping' = [ping EXCEPT ![e] = TRUE]
    /\ UNCHANGED <<market, running, price, age, timer, stale, live>>

Quote(e, p) ==
    /\ socket[e] = "open"
    /\ p = market \/ e \in Faulty
    /\ price' = [price EXCEPT ![e] = p] /\ age' = [age EXCEPT ![e] = 0]
    /\ UNCHANGED <<market, running, socket, timer, ping, stale, live>>

\* The line is dead and neither side has said so.
GoesMute(e) ==
    /\ socket[e] = "open" /\ socket' = [socket EXCEPT ![e] = "mute"]
    /\ UNCHANGED <<market, running, price, age, timer, ping, stale, live>>

\* The socket in use closes, after an error or not; a dead line is found out by what is
\* sent on it. The price stays.
Closes(e) ==
    /\ socket[e] \in {"connecting", "open"} \/ (socket[e] = "mute" /\ ping[e])
    /\ socket' = [socket EXCEPT ![e] = "none"] /\ live' = [live EXCEPT ![e] = @ - 1]
    /\ ping' = [ping EXCEPT ![e] = FALSE]
    /\ timer' = [timer EXCEPT ![e] = TRUE]
    /\ UNCHANGED <<market, running, price, age, stale>>

\* sockets[index] is another socket by now, or none: nothing happens.
IgnoresStale(e) == UNCHANGED <<socket, ping, timer>>

StaleCloses(e) ==
    /\ stale[e] /\ stale' = [stale EXCEPT ![e] = FALSE]
    /\ IgnoresStale(e)
    /\ UNCHANGED <<market, running, price, age, live>>

Tick ==
    /\ age' = [e \in Exchanges |-> IF age[e] < Old THEN age[e] + 1 ELSE Old]
    /\ market' \in Prices /\ market' - market \in -1 .. 1
    /\ UNCHANGED <<running, socket, price, timer, ping, stale, live>>

Next ==
    \/ start \/ stop \/ Tick
    \/ \E e \in Exchanges :
         \/ TimerFires(e) \/ Opened(e) \/ GoesMute(e) \/ Closes(e) \/ StaleCloses(e)
         \/ \E p \in Prices : Quote(e, p)

Spec == Init /\ [][Next]_vars

\* The clock goes on, timers fire, a dead line that is written to is found dead, a
\* connection that can be had comes about again and again, and an open one brings quotes.
Fairness ==
    /\ WF_vars(Tick)
    /\ \A e \in Exchanges :
         /\ SF_vars(TimerFires(e) /\ socket'[e] = "connecting") /\ SF_vars(Opened(e))
         /\ WF_vars(socket[e] = "mute" /\ Closes(e))
         /\ SF_vars(\E p \in Prices : Quote(e, p))
LiveSpec == Spec /\ Fairness

(* -------------------------------- properties -------------------------------- *)
TypeOK ==
    /\ market \in Prices /\ running \in BOOLEAN
    /\ socket \in [Exchanges -> {"none", "connecting", "open", "mute"}]
    /\ price \in [Exchanges -> Prices \cup {None}] /\ age \in [Exchanges -> 0 .. Old]
    /\ {timer, ping, stale} \subseteq [Exchanges -> BOOLEAN]
    /\ live \in [Exchanges -> Nat]

\* The price that money is settled by is not further from the market than the market can
\* have moved while a quote counts as fresh; with three sources one that is wrong does not
\* change that (price.ts 300-311).
MoneyPriceIsNear ==
    freshPrice2 # None /\ (Cardinality(FreshOnes) > 2 \/ FreshOnes \cap Faulty = {})
    => freshPrice2 - 2 * market \in -(2 * MaxAge) .. 2 * MaxAge

\* While the feed runs every exchange has a socket or a timer that will make one.
NobodyAbandoned == running => \A e \in Exchanges : socket[e] # "none" \/ timer[e]

\* Reconnecting leaves no second connection behind, and stopping none at all.
OneConnection == \A e \in Exchanges : live[e] = IF socket[e] = "none" THEN 0 ELSE 1

\* A feed that was stopped has no price, no timer and no ping left.
StoppedIsQuiet ==
    ~ running => \A e \in Exchanges : price[e] = None /\ ~ timer[e] /\ ~ ping[e]

\* A feed that goes on running has a price for money time and again, though lines die.
PriceThere == ~ running \/ freshPrice2 # None
PriceComesBack == []<>PriceThere
=============================================================================
