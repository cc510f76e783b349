---------------------------- MODULE RiskManager ----------------------------
(***************************************************************************)
(* The halt state of risk_manager.py and the methods that change it, as    *)
(* pure operators on one record.                                           *)
(*                                                                         *)
(* Money is counted in units: a leg earns or loses one unit, DailyLimit is *)
(* the loss of a day, in units, at which trading halts.  `profit` is       *)
(* current_capital and `paper` is paper_capital, both less the starting    *)
(* capital.  The filters that look at the signal (size, regime, strength,  *)
(* projected loss) may refuse at will and are left to the caller.          *)
(*                                                                         *)
(* Each method is one step here: what another thread may do between the    *)
(* writes of the halt and of its reason is the subject of HaltFlags.       *)
(***************************************************************************)
EXTENDS Integers

CONSTANTS DailyLimit, MaxPositions

ASSUME RiskAssumption == DailyLimit \in Nat \ {0} /\ MaxPositions \in Nat \ {0}

\* The reasons the PAPER program writes; a test reads them by substring.
Daily    == "Daily loss limit"
Drawdown == "Max drawdown"
Killed   == "KILL_SWITCH"
NoReason == "none"

\* BotRuntime._is_hard_halt; no reason at all does not count as a hard one.
IsHardHalt(reason) == reason \in {Daily, Drawdown, Killed}

FreshRisk(day) ==
    [halted |-> FALSE, reason |-> NoReason, paused |-> FALSE,
     reduceOnly |-> FALSE, count |-> 0, profit |-> 0, paper |-> 0, daily |-> 0,
     day |-> day]

Halt(r, reason) == [r EXCEPT !.halted = TRUE, !.reason = reason]

Unhalt(r) == [r EXCEPT !.halted = FALSE, !.reason = NoReason]

KillHalt(r) == [Halt(r, Killed) EXCEPT !.paused = TRUE]

\* A new day forgets the day's loss and lifts a halt whose reason says Daily.
CheckNewDay(r, today) ==
    IF r.day = today THEN r
    ELSE [(IF r.reason = Daily THEN Unhalt(r) ELSE r)
             EXCEPT !.day = today, !.daily = 0]

\* Mutant: paper_capital is left behind.
UpdateCapitalAlone(r, leg, today) ==
    LET n == CheckNewDay(r, today)
        b == [n EXCEPT !.profit = @ + leg, !.daily = @ + leg]
    IN  IF -b.daily >= DailyLimit THEN Halt(b, Daily) ELSE b

\* One realised leg.  The daily halt overwrites any reason already there.
UpdateCapital(r, leg, today) ==
    LET n == CheckNewDay(r, today)
        b == [n EXCEPT !.profit = @ + leg, !.paper = n.profit + leg,
                       !.daily = @ + leg]
    IN  IF -b.daily >= DailyLimit THEN Halt(b, Daily) ELSE b

\* apply_demo_capital, with the paper_capital it has read.
ApplyDemoCapital(r, cap) == [r EXCEPT !.profit = cap]

SyncOpenCount(r, n) == [r EXCEPT !.count = n]

RegisterOpen(r) == [r EXCEPT !.count = @ + 1]

\* Mutant: the counter is decremented without the floor.
RegisterCloseBelowZero(r) == [r EXCEPT !.count = @ - 1]

RegisterClose(r) == [r EXCEPT !.count = IF @ = 0 THEN 0 ELSE @ - 1]

\* The part of can_open_position that reads the halt state and the slots.
CanOpen(r) == ~r.reduceOnly /\ ~r.paused /\ ~r.halted /\ r.count < MaxPositions

=============================================================================
