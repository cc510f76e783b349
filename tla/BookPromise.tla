---------------------------- MODULE BookPromise -----------------------------
(***************************************************************************)
(* What an account statement of the program may show, whichever threads    *)
(* open and close: a trade is opened once and settled once, one trade of a *)
(* symbol lives at a time, and each leg enters the capital in one step     *)
(* with the result of its trade, once.  An account sync that is overtaken  *)
(* by legs may write a capital without them, or with them twice: it is off *)
(* by one unit for each leg booked beside a sync, and by no more.          *)
(***************************************************************************)
EXTENDS Integers

CONSTANTS Trades, Symbols, Legs, Nobody,
          Total(_)     \* the sum of the values of a function

VARIABLES
    life,      \* "new", "live", "settled" or "over" (taken back, forgotten)
    holds,     \* the symbol of a live trade
    earned,    \* what the trade has earned in this session
    capital,   \* the capital, less the starting capital
    syncing,   \* an account sync is under way
    missed     \* legs booked beside one

vars == <<life, holds, earned, capital, syncing, missed>>

Init ==
    /\ life = [t \in Trades |-> "new"]
    /\ holds = [t \in Trades |-> Nobody]
    /\ earned = [t \in Trades |-> 0]
    /\ capital = 0 /\ syncing = FALSE /\ missed = 0

Opens(t, s) ==
    /\ life[t] = "new" /\ \A u \in Trades : holds[u] # s
    /\ life' = [life EXCEPT ![t] = "live"]
    /\ holds' = [holds EXCEPT ![t] = s]
    /\ UNCHANGED <<earned, capital, syncing, missed>>

Receives(t, leg) ==
    /\ life[t] = "live"
    /\ earned' = [earned EXCEPT ![t] = @ + leg]
    /\ capital' = capital + leg
    /\ missed' = IF syncing THEN missed + 1 ELSE missed
    /\ UNCHANGED syncing

Earns(t, leg) == Receives(t, leg) /\ UNCHANGED <<life, holds>>

Settles(t, leg) ==
    /\ Receives(t, leg)
    /\ life' = [life EXCEPT ![t] = "settled"]
    /\ holds' = [holds EXCEPT ![t] = Nobody]

\* Only a trade that has earned nothing yet is taken back.
TakenBack(t) ==
    /\ life[t] = "live" /\ earned[t] = 0
    /\ life' = [life EXCEPT ![t] = "over"]
    /\ holds' = [holds EXCEPT ![t] = Nobody]
    /\ UNCHANGED <<earned, capital, syncing, missed>>

BeginsSync ==
    /\ syncing' = TRUE
    /\ UNCHANGED <<life, holds, earned, capital, missed>>

EndsSync ==
    /\ syncing /\ syncing' \in BOOLEAN
    /\ \E off \in (-missed)..missed : capital' = Total(earned) + off
    /\ UNCHANGED <<life, holds, earned, missed>>

\* A PAPER session begins with its starting capital and an empty book.
Forgets ==
    /\ life' = [t \in Trades |-> IF life[t] = "new" THEN "new" ELSE "over"]
    /\ holds' = [t \in Trades |-> Nobody]
    /\ earned' = [t \in Trades |-> 0]
    /\ capital' = 0 /\ syncing' = FALSE /\ missed' = 0

Next ==
    \/ \E t \in Trades, s \in Symbols : Opens(t, s)
    \/ \E t \in Trades, leg \in Legs : Earns(t, leg) \/ Settles(t, leg)
    \/ \E t \in Trades : TakenBack(t)
    \/ BeginsSync \/ EndsSync \/ Forgets

Spec == Init /\ [][Next]_vars

=============================================================================
