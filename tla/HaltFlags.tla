------------------------------ MODULE HaltFlags ------------------------------
(***************************************************************************)
(* The halt of the program, write by write.  `halted` and `reason` are two *)
(* attributes of the RiskManager that the bot, the operator's commands and *)
(* every reader of the status write one after the other, without a lock:   *)
(* a raise sets the halt and then its reason, a clear reads the reason,    *)
(* lifts the halt and then forgets the reason.  The other modules take     *)
(* each method as one step; here another thread may come between any two   *)
(* writes, and midnight or the end of the process too.                     *)
(*                                                                         *)
(* PAPER and LIVE share all of this; only recovery's orphan halt belongs   *)
(* to LIVE.  What a leg earns and how deep the drawdown is are a choice.   *)
(* resume clears only a reason that is not hard: the program writes none.  *)
(***************************************************************************)
EXTENDS Naturals

CONSTANTS
    Commanders,   \* threads that carry out commands or read the status
    Bot,          \* the thread of bot_loop, which carries out commands as well
    MaxDays,      \* bound: midnights
    MaxBoots      \* bound: restarts of the process

ASSUME HaltAssumption == MaxDays \in Nat /\ MaxBoots \in Nat

VARIABLES
    halted, reason,  \* is_halted, halt_reason
    day,             \* current_day
    killFlag,        \* the kill flag, on disk
    today, boots,
    pc,              \* where a thread is in a method of the RiskManager
    date,            \* the date a thread's _check_new_day has read
    booking,         \* the thread that books a leg: it holds trader.lock
    killers,         \* threads inside kill_switch
    since,           \* history: current_day when the reason was written
    crossed          \* history: a raise and a clear were under way at a time

vars == <<halted, reason, day, killFlag, today, boots, pc, date, booking,
          killers, since, crossed>>

Threads == Commanders \cup {Bot}
Days    == 0..MaxDays

NoReason == "none"
Daily    == "Daily loss limit"
Drawdown == "Max drawdown"
Killed   == "KILL_SWITCH"
Orphan   == "RECOVERY_ORPHAN_EXCHANGE"

\* Mutant: the words of recovery's halt are not on the list.
IsHardButOrphan(why) == why \in {Daily, Drawdown, Killed}

\* _is_hard_halt; no reason at all does not count as a hard one.
IsHardHalt(why) == why \in {Daily, Drawdown, Killed, Orphan}

\* The halt is written and its reason is still to come.
RaiseOf == [daily |-> Daily, drawdown |-> Drawdown, kill |-> Killed]
Raises  == {"daily", "drawdown", "kill"}

\* A new day that was noticed and not yet dealt with, a halt that is about to
\* be lifted, a reason about to be forgotten.
Clears  == {"rolling", "lifting", "lifted", "asked", "clearing", "cleared"}

Overlap(places) ==
    (\E c \in Threads : places[c] \in Raises) /\ (\E c \in Threads : places[c] \in Clears)

\* Thread c goes on at `place`.
Goto(c, place) ==
    /\ pc' = [pc EXCEPT ![c] = place]
    /\ crossed' = (crossed \/ Overlap(pc'))

process == <<killFlag, today, boots>>
halt    == <<halted, reason, since>>

Init ==
    /\ halted = FALSE /\ reason = NoReason /\ since = 0
    /\ day = 0 /\ today = 0 /\ boots = 0 /\ killFlag = FALSE
    /\ pc = [c \in Threads |-> "idle"]
    /\ date = [c \in Threads |-> 0]
    /\ booking = {} /\ killers = {} /\ crossed = FALSE

-----------------------------------------------------------------------------
(***************************************************************************)
(* Raising a halt.                                                         *)
(***************************************************************************)
RaiseHalt(c, place) ==
    /\ halted' = TRUE
    /\ Goto(c, place)
    /\ UNCHANGED <<reason, since, day, date, booking, process>>

\* check_drawdown, which the bot calls when it has managed its positions.
CheckDrawdown ==
    /\ pc[Bot] = "idle" /\ Bot \notin killers
    /\ RaiseHalt(Bot, "drawdown")
    /\ UNCHANGED killers

\* update_capital after its new-day check: the day's loss is at the limit or not.
BookLeg(c) ==
    /\ pc[c] = "book"
    /\ \/ RaiseHalt(c, "daily")
       \/ /\ Goto(c, "idle") /\ booking' = booking \ {c}
          /\ UNCHANGED <<halt, day, date, process>>
    /\ UNCHANGED killers

KillSwitch(c) ==
    /\ pc[c] = "idle" /\ c \notin killers
    /\ RaiseHalt(c, "kill")
    /\ killers' = killers \cup {c}

\* The second write overwrites any reason already there.
WriteReason(c) ==
    /\ pc[c] \in Raises
    /\ reason' = RaiseOf[pc[c]]
    /\ since' = day
    /\ Goto(c, "idle") /\ booking' = booking \ {c}
    /\ UNCHANGED <<halted, day, date, killers, process>>

\* kill_switch has closed the book, leg by leg, and sets its flag last.
KillFlag(c) ==
    /\ pc[c] = "idle" /\ c \in killers
    /\ killFlag' = TRUE
    /\ killers' = killers \ {c}
    /\ UNCHANGED <<halt, day, today, boots, pc, date, booking, crossed>>

-----------------------------------------------------------------------------
(***************************************************************************)
(* _check_new_day: called for every leg that is booked, by                 *)
(* can_open_position and by get_status.                                    *)
(***************************************************************************)
\* The date is read, and compared with current_day.  A killer only books legs.
CheckNewDay(c, forLeg) ==
    /\ pc[c] = "idle"
    /\ IF forLeg THEN booking = {} ELSE day # today /\ c \notin killers
    /\ booking' = IF forLeg THEN {c} ELSE booking
    /\ IF day # today
       THEN Goto(c, "rolling") /\ date' = [date EXCEPT ![c] = today]
       ELSE Goto(c, "book") /\ UNCHANGED date
    /\ UNCHANGED <<halt, day, killers, process>>

\* Where a thread goes on when the day has been dealt with.
Checked(c) == IF c \in booking THEN "book" ELSE "idle"

\* The day is written and the reason read; only a daily halt is to be lifted.
RollDay(c) ==
    /\ pc[c] = "rolling"
    /\ day' = date[c]
    /\ date' = [date EXCEPT ![c] = 0]
    /\ Goto(c, IF reason = Daily THEN "lifting" ELSE Checked(c))
    /\ UNCHANGED <<halt, booking, killers, process>>

Lift(c, from, to) ==
    /\ pc[c] = from
    /\ halted' = FALSE
    /\ Goto(c, to)
    /\ UNCHANGED <<reason, since, day, date, booking, killers, process>>

\* Mutant: the reason stays behind.
KeepReason(c) ==
    /\ pc[c] = "lifted"
    /\ Goto(c, Checked(c))
    /\ UNCHANGED <<halt, day, date, booking, killers, process>>

ForgetDaily(c) ==
    /\ pc[c] = "lifted"
    /\ reason' = NoReason
    /\ Goto(c, Checked(c))
    /\ UNCHANGED <<halted, since, day, date, booking, killers, process>>

-----------------------------------------------------------------------------
(***************************************************************************)
(* start_trading.                                                          *)
(***************************************************************************)
\* The reason is read; a hard one ends the matter.
StartTrading(c) ==
    /\ pc[c] = "idle" /\ c \notin killers /\ ~IsHardHalt(reason)
    /\ Goto(c, "asked")
    /\ UNCHANGED <<halt, day, date, booking, killers, process>>

\* Then the halt is read, and lifted if there is one.
StartFinds(c) ==
    /\ pc[c] = "asked"
    /\ Goto(c, IF halted THEN "clearing" ELSE "idle")
    /\ UNCHANGED <<halt, day, date, booking, killers, process>>

StartForgets(c) ==
    /\ pc[c] = "cleared"
    /\ reason' = NoReason
    /\ Goto(c, "idle")
    /\ UNCHANGED <<halted, since, day, date, booking, killers, process>>

-----------------------------------------------------------------------------
DayRolls ==
    /\ today < MaxDays
    /\ today' = today + 1
    /\ UNCHANGED <<halt, day, killFlag, boots, pc, date, booking, killers, crossed>>

\* The process dies and starts again.  Recovery runs before the threads do:
\* the kill flag halts, and a position only the exchange shows halts after it.
Restart ==
    /\ boots < MaxBoots /\ boots' = boots + 1
    /\ \E orphan \in BOOLEAN :
          /\ halted' = (killFlag \/ orphan)
          /\ reason' = IF orphan THEN Orphan ELSE IF killFlag THEN Killed ELSE NoReason
    /\ since' = today /\ day' = today
    /\ pc' = [c \in Threads |-> "idle"]
    /\ date' = [c \in Threads |-> 0]
    /\ booking' = {} /\ killers' = {} /\ crossed' = FALSE
    /\ UNCHANGED <<killFlag, today>>

Step(c) ==
    \/ BookLeg(c) \/ KillSwitch(c) \/ WriteReason(c) \/ KillFlag(c)
    \/ \E forLeg \in BOOLEAN : CheckNewDay(c, forLeg)
    \/ RollDay(c) \/ Lift(c, "lifting", "lifted") \/ ForgetDaily(c)
    \/ StartTrading(c) \/ StartFinds(c)
    \/ Lift(c, "clearing", "cleared") \/ StartForgets(c)

Next == CheckDrawdown \/ (\E c \in Threads : Step(c)) \/ DayRolls \/ Restart

Spec == Init /\ [][Next]_vars

-----------------------------------------------------------------------------
(***************************************************************************)
(* Properties.                                                             *)
(***************************************************************************)
Settled == \A c \in Threads : pc[c] \notin Raises \cup Clears

\* When no thread is between two writes the halt has a reason and the reason a
\* halt, unless a raise and a clear have met in this session: a halt without a
\* reason is one the next Start lifts, and a reason without a halt stops nobody.
HaltExplained == Settled /\ ~crossed => (halted <=> reason # NoReason)

\* A halt is lifted by nobody but midnight, and only one with the daily reason
\* that an earlier day was given: by no Start, whatever the order of a kill, a
\* loss and a drawdown, unless one of them meets a clear half done.
HaltIsKept ==
    [][halted /\ ~halted' =>
          \/ reason = Daily /\ since # day
          \/ crossed
          \/ boots' # boots]_vars

(***************************************************************************)
(* What the sources say and the code does not keep.                        *)
(***************************************************************************)
\* risk_manager.py: a halt is reported with its reason, at any time that no
\* thread is between two writes.
HaltHasReason == Settled /\ halted => reason # NoReason

\* runtime.py: kill_switch halts at once, and a hard halt is never cleared: once
\* the kill flag is set the program is halted, even when nothing has met.
KillHaltStays == killFlag /\ ~crossed => halted

=============================================================================
