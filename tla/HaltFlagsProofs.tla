--------------------------- MODULE HaltFlagsProofs ---------------------------
(***************************************************************************)
(* The halt and its reason, for any number of threads, midnights and       *)
(* restarts: while no raise has met a clear they explain each other, and   *)
(* only midnight lifts a halt.  The invariant says what each thread that   *)
(* is between two writes may rely on.                                      *)
(***************************************************************************)
EXTENDS HaltFlags, TLAPS

USE HaltAssumption

Reasons == {NoReason, Daily, Drawdown, Killed, Orphan}

HaltBooleans == halted \in BOOLEAN /\ killFlag \in BOOLEAN /\ crossed \in BOOLEAN

\* The variables have their types; current_day is never ahead of the calendar.
HaltTypes ==
    /\ HaltBooleans
    /\ reason \in Reasons
    /\ today \in 0..MaxDays /\ day \in 0..today /\ since \in 0..today
    /\ boots \in 0..MaxBoots
    /\ pc \in [Threads -> {"idle", "book"} \cup Raises \cup Clears]
    /\ date \in [Threads -> 0..today]
    /\ booking \subseteq Threads /\ killers \subseteq Threads

Raising  == \E c \in Threads : pc[c] \in Raises
Clearing == \E c \in Threads : pc[c] \in Clears
Lifted   == \E c \in Threads : pc[c] = "lifted"
Daytime  == \A c \in Threads : pc[c] \notin {"lifting", "lifted"}

\* A halt that is being written stands, and nobody is about to lift it.
Raised == Raising => halted /\ ~Clearing

\* A reason is given to every halt, and forgotten after it.
Explained ==
    /\ ~Raising /\ halted => reason # NoReason
    /\ reason # NoReason /\ ~halted => Lifted

\* What a thread that is about to clear something knows.
Knows(c) ==
    /\ pc[c] \in {"lifting", "lifted"} => /\ reason \in {Daily, NoReason}
                                          /\ reason = Daily => since < day
    /\ pc[c] = "lifted" => ~halted
    /\ pc[c] = "asked" => reason = NoReason /\ ~halted
    /\ pc[c] \notin {"clearing", "cleared"}
    /\ pc[c] = "rolling" /\ reason = Daily => since < date[c]

\* A daily halt was given on current_day, until a new day is noticed.
OfToday == reason = Daily /\ Daytime => since = day

HaltInv ==
    /\ HaltTypes
    /\ crossed \/ (/\ Raised /\ Explained /\ OfToday
                   /\ \A c \in Threads : Knows(c))

\* What the three flags are given.
LEMMA BooleansInductive ==
    /\ Init => HaltBooleans
    /\ HaltBooleans /\ [Next]_vars => HaltBooleans'
  <1>1. Init => HaltBooleans
    BY Zenon DEF Init, HaltBooleans
  <1>2. ASSUME HaltBooleans, [Next]_vars
        PROVE  HaltBooleans'
    <2> USE DEF HaltBooleans, halt, process, Goto
    <2>1. CASE CheckDrawdown
      BY <1>2, <2>1, Zenon DEF CheckDrawdown, RaiseHalt
    <2>2. ASSUME NEW c \in Threads, Step(c)
          PROVE  HaltBooleans'
      <3>1. CASE BookLeg(c) \/ KillSwitch(c)
        BY <1>2, <3>1, Zenon DEF BookLeg, KillSwitch, RaiseHalt
      <3>2. CASE WriteReason(c) \/ KillFlag(c)
        BY <1>2, <3>2, Zenon DEF WriteReason, KillFlag
      <3>3. CASE \E forLeg \in BOOLEAN : CheckNewDay(c, forLeg)
        BY <1>2, <3>3, Zenon DEF CheckNewDay
      <3>4. CASE RollDay(c) \/ ForgetDaily(c)
        BY <1>2, <3>4, Zenon DEF RollDay, ForgetDaily
      <3>5. CASE Lift(c, "lifting", "lifted") \/ Lift(c, "clearing", "cleared")
        BY <1>2, <3>5, Zenon DEF Lift
      <3>6. CASE StartTrading(c) \/ StartFinds(c) \/ StartForgets(c)
        BY <1>2, <3>6, Zenon DEF StartTrading, StartFinds, StartForgets
      <3>. QED  BY <2>2, <3>1, <3>2, <3>3, <3>4, <3>5, <3>6 DEF Step
    <2>3. CASE DayRolls
      BY <1>2, <2>3, Zenon DEF DayRolls
    <2>4. CASE Restart
      BY <1>2, <2>4, Zenon DEF Restart
    <2>5. CASE UNCHANGED vars
      BY <1>2, <2>5, Zenon DEF vars
    <2>. QED  BY <1>2, <2>1, <2>2, <2>3, <2>4, <2>5 DEF Next
  <1>. QED  BY <1>1, <1>2

\* The types hold at the start, and every step keeps them.
LEMMA HaltTypesInductive ==
    /\ Init => HaltTypes
    /\ HaltTypes /\ [Next]_vars => HaltTypes'
  <1>1. Init => HaltTypes
    BY BooleansInductive DEF Init, HaltTypes, Reasons
  <1>2. ASSUME HaltTypes, [Next]_vars
        PROVE  HaltTypes'
    <2> USE DEF HaltTypes, halt, process, Goto, Reasons
    <2>0. HaltBooleans'
      BY <1>2, BooleansInductive DEF HaltTypes
    <2>1. CASE CheckDrawdown
      BY <1>2, <2>0, <2>1 DEF CheckDrawdown, RaiseHalt, Threads, Raises, Clears
    <2>2. ASSUME NEW c \in Threads, Step(c)
          PROVE  HaltTypes'
      <3>1. CASE BookLeg(c) \/ KillSwitch(c)
        BY <1>2, <2>0, <3>1 DEF BookLeg, KillSwitch, RaiseHalt, Raises, Clears
      <3>2. CASE WriteReason(c)
        BY <1>2, <2>0, <3>2 DEF WriteReason, Raises, RaiseOf
      <3>3. CASE KillFlag(c)
        BY <1>2, <2>0, <3>3 DEF KillFlag
      <3>4. CASE \E forLeg \in BOOLEAN : CheckNewDay(c, forLeg)
        BY <1>2, <2>0, <2>2, <3>4 DEF CheckNewDay, Clears
      <3>5. CASE RollDay(c) \/ ForgetDaily(c)
        BY <1>2, <2>0, <3>5 DEF RollDay, ForgetDaily, Checked, Clears
      <3>6. CASE Lift(c, "lifting", "lifted") \/ Lift(c, "clearing", "cleared")
        BY <1>2, <2>0, <3>6 DEF Lift, Clears
      <3>7. CASE StartTrading(c) \/ StartFinds(c) \/ StartForgets(c)
        BY <1>2, <2>0, <3>7 DEF StartTrading, StartFinds, StartForgets, Clears
      <3>. QED  BY <2>2, <3>1, <3>2, <3>3, <3>4, <3>5, <3>6, <3>7 DEF Step
    <2>3. CASE DayRolls
      BY <1>2, <2>0, <2>3 DEF DayRolls
    <2>4. CASE Restart
      BY <1>2, <2>0, <2>4 DEF Restart
    <2>5. CASE UNCHANGED vars
      BY <1>2, <2>0, <2>5 DEF vars
    <2>. QED  BY <1>2, <2>0, <2>1, <2>2, <2>3, <2>4, <2>5 DEF Next
  <1>. QED  BY <1>1, <1>2

-----------------------------------------------------------------------------
(***************************************************************************)
(* What holds while nothing has met.                                       *)
(***************************************************************************)
Uncrossed == Raised /\ Explained /\ OfToday /\ \A c \in Threads : Knows(c)

\* A thread that goes on changes its own place only, and meets nobody.
LEMMA Moves ==
    ASSUME HaltTypes, NEW c \in Threads, NEW place, Goto(c, place), ~crossed'
    PROVE  /\ ~crossed /\ pc'[c] = place
           /\ \A d \in Threads : d # c => pc'[d] = pc[d]
           /\ ~(Raising' /\ Clearing')
  <1>1. ~crossed /\ ~Overlap(pc')
    BY Zenon DEF Goto
  <1>2. ~(Raising' /\ Clearing')
    BY <1>1 DEF Overlap, Raising, Clearing
  <1>. QED  BY <1>1, <1>2 DEF Goto, HaltTypes

LEMMA RaiseStep ==
    ASSUME HaltTypes, Uncrossed, ~crossed',
           NEW c \in Threads, NEW place \in Raises, RaiseHalt(c, place), pc[c] \in {"idle", "book"}
    PROVE  Uncrossed'
  <1>1. Goto(c, place) /\ halted' = TRUE /\ UNCHANGED <<reason, since, day, date>>
    BY DEF RaiseHalt
  <1>2. /\ pc'[c] = place /\ ~(Raising' /\ Clearing')
        /\ \A d \in Threads : d # c => pc'[d] = pc[d]
    BY <1>1, Moves
  <1>3. Raising' /\ ~Clearing'
    BY <1>2 DEF Raising
  <1>4. Raised' /\ Explained'
    BY <1>1, <1>3 DEF Raised, Explained
  <1>5. OfToday'
    BY <1>1, <1>2 DEF Uncrossed, OfToday, Daytime, Raises
  <1>6. \A d \in Threads : Knows(d)'
    BY <1>3 DEF Knows, Clearing, Clears
  <1>. QED  BY <1>4, <1>5, <1>6 DEF Uncrossed

LEMMA ReasonStep ==
    ASSUME HaltTypes, Uncrossed, ~crossed', NEW c \in Threads, WriteReason(c)
    PROVE  Uncrossed'
  <1>1. /\ Goto(c, "idle") /\ halted' = halted /\ since' = day /\ day' = day
        /\ pc[c] \in Raises /\ reason' \in {Daily, Drawdown, Killed}
    BY DEF WriteReason, Raises, RaiseOf
  <1>2. /\ pc'[c] = "idle"
        /\ \A d \in Threads : d # c => pc'[d] = pc[d]
    BY <1>1, Moves
  <1>3. halted /\ ~Clearing
    BY <1>1 DEF Uncrossed, Raised, Raising
  <1>4. ~Clearing'
    BY <1>2, <1>3 DEF Clearing, Clears
  <1>5. Raised' /\ Explained'
    BY <1>1, <1>3, <1>4 DEF Raised, Explained, NoReason, Daily, Drawdown, Killed
  <1>6. OfToday'
    BY <1>1 DEF OfToday
  <1>7. \A d \in Threads : Knows(d)'
    BY <1>4 DEF Knows, Clearing, Clears
  <1>. QED  BY <1>5, <1>6, <1>7 DEF Uncrossed

\* A thread that neither raises nor clears.
LEMMA QuietStep ==
    ASSUME HaltTypes, Uncrossed,
           UNCHANGED <<halted, reason, since, day>>,
           \A d \in Threads :
               \/ pc'[d] = pc[d] /\ date'[d] = date[d]
               \/ pc[d] \in {"idle", "book"} /\ pc'[d] \in {"idle", "book"}
    PROVE  Uncrossed'
  <1>1. Raising' = Raising /\ Clearing' = Clearing /\ Lifted' = Lifted /\ Daytime' = Daytime
    BY DEF Raising, Clearing, Lifted, Daytime, Raises, Clears
  <1>2. Raised' /\ Explained' /\ OfToday'
    BY <1>1 DEF Uncrossed, Raised, Explained, OfToday
  <1>3. \A d \in Threads : Knows(d)'
    BY DEF Uncrossed, Knows
  <1>. QED  BY <1>2, <1>3 DEF Uncrossed

\* A thread notices a new day: a daily halt was given on an earlier one.
LEMMA NoticeStep ==
    ASSUME HaltTypes, Uncrossed, ~crossed', NEW c \in Threads,
           NEW forLeg \in BOOLEAN, CheckNewDay(c, forLeg)
    PROVE  Uncrossed'
  <1>1. /\ UNCHANGED <<halted, reason, since, day>> /\ pc[c] = "idle"
        /\ (day = today) => Goto(c, "book") /\ date' = date
        /\ (day # today) => Goto(c, "rolling") /\ date' = [date EXCEPT ![c] = today]
    BY DEF CheckNewDay, halt
  <1>2. CASE day = today
    <2>1. /\ pc'[c] = "book"
          /\ \A d \in Threads : d # c => pc'[d] = pc[d]
      BY <1>1, <1>2, Moves
    <2>. QED  BY <1>1, <1>2, <2>1, QuietStep
  <1>3. CASE day # today
    <2>1. /\ pc'[c] = "rolling" /\ ~(Raising' /\ Clearing')
          /\ \A d \in Threads : d # c => pc'[d] = pc[d]
      BY <1>1, <1>3, Moves
    <2>2. /\ date'[c] = today /\ \A d \in Threads : d # c => date'[d] = date[d]
      BY <1>1, <1>3 DEF HaltTypes
    <2>3. /\ Clearing' /\ ~Raising' /\ Raising' = Raising
          /\ Lifted' = Lifted /\ Daytime' = Daytime
      BY <1>1, <2>1 DEF Raising, Clearing, Lifted, Daytime, Raises, Clears
    <2>4. Raised' /\ Explained' /\ OfToday'
      BY <1>1, <2>3 DEF Uncrossed, Raised, Explained, OfToday
    <2>5. reason = Daily => since < today
      <3>1. CASE Daytime
        BY <1>3, <3>1 DEF Uncrossed, OfToday, HaltTypes
      <3>2. CASE ~Daytime
        BY <3>2 DEF Uncrossed, Daytime, Knows, HaltTypes
      <3>. QED  BY <3>1, <3>2
    <2>6. Knows(c)'
      BY <1>1, <2>1, <2>2, <2>5 DEF Knows
    <2>7. \A d \in Threads : d # c => Knows(d)'
      BY <1>1, <2>1, <2>2 DEF Uncrossed, Knows
    <2>. QED  BY <2>4, <2>6, <2>7 DEF Uncrossed
  <1>. QED  BY <1>2, <1>3

LEMMA RollStep ==
    ASSUME HaltTypes, Uncrossed, ~crossed', NEW c \in Threads, RollDay(c)
    PROVE  Uncrossed'
  <1> DEFINE to == IF reason = Daily THEN "lifting" ELSE Checked(c)
  <1>1. /\ pc[c] = "rolling" /\ day' = date[c] /\ UNCHANGED <<halted, reason, since>>
        /\ Goto(c, to) /\ date' = [date EXCEPT ![c] = 0]
    BY DEF RollDay, halt
  <1>2. to = "lifting" <=> reason = Daily
    BY DEF Checked
  <1>3. to \in {"lifting", "idle", "book"}
    BY DEF Checked
  <1> HIDE DEF to
  <1>4. /\ pc'[c] = to
        /\ \A d \in Threads : d # c => pc'[d] = pc[d] /\ date'[d] = date[d]
    BY <1>1, Moves DEF HaltTypes
  <1>5. ~Raising
    BY <1>1 DEF Uncrossed, Raised, Clearing, Clears
  <1>6. ~Raising' /\ Lifted' = Lifted
    BY <1>1, <1>3, <1>4, <1>5 DEF Raising, Raises, Lifted
  <1>7. Raised' /\ Explained'
    BY <1>1, <1>5, <1>6 DEF Uncrossed, Raised, Explained
  <1>8. OfToday'
    BY <1>1, <1>2, <1>4 DEF OfToday, Daytime
  <1>9. reason = Daily => since < date[c]
    BY <1>1 DEF Uncrossed, Knows
  <1>10. ASSUME NEW d \in Threads PROVE Knows(d)'
    <2>1. CASE d = c
      BY <1>1, <1>2, <1>3, <1>4, <1>9, <2>1 DEF Knows
    <2>2. CASE d # c
      BY <1>1, <1>4, <1>9, <2>2 DEF Uncrossed, Knows
    <2>. QED  BY <2>1, <2>2
  <1>. QED  BY <1>7, <1>8, <1>10 DEF Uncrossed

LEMMA LiftStep ==
    ASSUME HaltTypes, Uncrossed, ~crossed', NEW c \in Threads, Lift(c, "lifting", "lifted")
    PROVE  Uncrossed'
  <1>1. /\ pc[c] = "lifting" /\ halted' = FALSE /\ Goto(c, "lifted")
        /\ UNCHANGED <<reason, since, day, date>>
    BY DEF Lift
  <1>2. /\ pc'[c] = "lifted"
        /\ \A d \in Threads : d # c => pc'[d] = pc[d]
    BY <1>1, Moves
  <1>3. ~Raising
    BY <1>1 DEF Uncrossed, Raised, Clearing, Clears
  <1>4. ~Raising' /\ Lifted' /\ ~Daytime'
    BY <1>2, <1>3 DEF Raising, Raises, Lifted, Daytime
  <1>5. Raised' /\ Explained' /\ OfToday'
    BY <1>1, <1>4 DEF Raised, Explained, OfToday
  <1>6. \A d \in Threads : Knows(d)'
    BY <1>1, <1>2 DEF Uncrossed, Knows
  <1>. QED  BY <1>5, <1>6 DEF Uncrossed

LEMMA ForgetStep ==
    ASSUME HaltTypes, Uncrossed, ~crossed', NEW c \in Threads, ForgetDaily(c)
    PROVE  Uncrossed'
  <1>1. /\ pc[c] = "lifted" /\ reason' = NoReason /\ Goto(c, Checked(c))
        /\ UNCHANGED <<halted, since, day, date>> /\ Checked(c) \in {"idle", "book"}
    BY DEF ForgetDaily, Checked
  <1>2. /\ pc'[c] \in {"idle", "book"}
        /\ \A d \in Threads : d # c => pc'[d] = pc[d]
    BY <1>1, Moves
  <1>3. ~Raising /\ ~halted
    BY <1>1 DEF Uncrossed, Raised, Clearing, Clears, Knows
  <1>4. ~Raising'
    BY <1>2, <1>3 DEF Raising, Raises
  <1>5. Raised' /\ Explained' /\ OfToday'
    BY <1>1, <1>3, <1>4 DEF Raised, Explained, OfToday, NoReason, Daily
  <1>6. \A d \in Threads : Knows(d)'
    BY <1>1, <1>2, <1>3 DEF Uncrossed, Knows, NoReason, Daily
  <1>. QED  BY <1>5, <1>6 DEF Uncrossed

\* A Start that meets no raise has nothing to clear.
LEMMA StartStep ==
    ASSUME HaltTypes, Uncrossed, ~crossed', NEW c \in Threads,
           \/ StartTrading(c) \/ StartFinds(c) \/ StartForgets(c)
           \/ Lift(c, "clearing", "cleared")
    PROVE  Uncrossed'
  <1>1. ~StartForgets(c) /\ ~Lift(c, "clearing", "cleared")
    BY DEF Uncrossed, Knows, StartForgets, Lift
  <1>2. CASE StartTrading(c)
    <2>1. /\ pc[c] = "idle" /\ Goto(c, "asked") /\ reason = NoReason
          /\ UNCHANGED <<halted, reason, since, day, date>>
      BY <1>2 DEF StartTrading, IsHardHalt, HaltTypes, Reasons, halt
    <2>2. /\ pc'[c] = "asked" /\ ~(Raising' /\ Clearing')
          /\ \A d \in Threads : d # c => pc'[d] = pc[d]
      BY <2>1, Moves
    <2>3. /\ ~Raising' /\ Raising' = Raising /\ Lifted' = Lifted /\ Daytime' = Daytime
      BY <2>1, <2>2 DEF Raising, Raises, Clearing, Clears, Lifted, Daytime
    <2>4. ~halted
      BY <2>1, <2>3 DEF Uncrossed, Explained
    <2>5. Raised' /\ Explained' /\ OfToday'
      BY <2>1, <2>3 DEF Uncrossed, Raised, Explained, OfToday
    <2>6. \A d \in Threads : Knows(d)'
      BY <2>1, <2>2, <2>4 DEF Uncrossed, Knows
    <2>. QED  BY <2>5, <2>6 DEF Uncrossed
  <1>3. CASE StartFinds(c)
    <2>1. pc[c] = "asked" /\ ~halted
      BY <1>3 DEF StartFinds, Uncrossed, Knows
    <2>2. Goto(c, "idle") /\ UNCHANGED <<halted, reason, since, day, date>>
      BY <1>3, <2>1 DEF StartFinds, halt
    <2>3. /\ pc'[c] = "idle"
          /\ \A d \in Threads : d # c => pc'[d] = pc[d]
      BY <2>2, Moves
    <2>4. ~Raising
      BY <2>1 DEF Uncrossed, Raised, Clearing, Clears
    <2>5. ~Raising' /\ Lifted' = Lifted /\ Daytime' = Daytime
      BY <2>1, <2>3, <2>4 DEF Raising, Raises, Lifted, Daytime
    <2>6. Raised' /\ Explained' /\ OfToday'
      BY <2>2, <2>4, <2>5 DEF Uncrossed, Raised, Explained, OfToday
    <2>7. \A d \in Threads : Knows(d)'
      BY <2>2, <2>3 DEF Uncrossed, Knows
    <2>. QED  BY <2>6, <2>7 DEF Uncrossed
  <1>. QED  BY <1>1, <1>2, <1>3

LEMMA RestartStep ==
    ASSUME HaltTypes, Restart
    PROVE  Uncrossed'
  <1>1. /\ pc' = [c \in Threads |-> "idle"] /\ since' = day'
        /\ (halted' <=> reason' # NoReason)
    <2>1. PICK orphan \in BOOLEAN :
              /\ halted' = (killFlag \/ orphan)
              /\ reason' = IF orphan THEN Orphan ELSE IF killFlag THEN Killed ELSE NoReason
      BY DEF Restart
    <2>2. halted' <=> (killFlag \/ orphan)
      BY <2>1, Zenon
    <2>3. (killFlag \/ orphan) <=> reason' # NoReason
      BY <2>1 DEF Orphan, Killed, NoReason
    <2>4. halted' <=> reason' # NoReason
      BY <2>2, <2>3, Zenon
    <2>. QED  BY <2>4 DEF Restart
  <1>2. ~Raising' /\ ~Clearing'
    BY <1>1 DEF Raising, Clearing, Raises, Clears
  <1>3. Raised' /\ Explained' /\ OfToday'
    BY <1>1, <1>2 DEF Raised, Explained, OfToday
  <1>4. \A d \in Threads : Knows(d)'
    BY <1>1 DEF Knows
  <1>. QED  BY <1>3, <1>4 DEF Uncrossed

LEMMA UncrossedStep ==
    ASSUME HaltTypes, crossed \/ Uncrossed, [Next]_vars, ~crossed'
    PROVE  Uncrossed'
  <1> USE DEF halt, process
  <1>1. CASE Restart
    BY <1>1, RestartStep
  <1>2. CASE DayRolls \/ UNCHANGED vars
    <2>1. /\ UNCHANGED <<halted, reason, since, day, pc, date, crossed>>
      BY <1>2 DEF DayRolls, vars
    <2>. QED  BY <2>1, QuietStep
  <1>3. CASE CheckDrawdown
    <2>1. RaiseHalt(Bot, "drawdown") /\ pc[Bot] = "idle" /\ Bot \in Threads
      BY <1>3 DEF CheckDrawdown, Threads
    <2>2. Goto(Bot, "drawdown")
      BY <2>1 DEF RaiseHalt
    <2>3. Uncrossed
      BY <2>1, <2>2, Moves
    <2>4. "drawdown" \in Raises
      BY DEF Raises
    <2>. QED  BY <2>1, <2>3, <2>4, RaiseStep
  <1>4. ASSUME NEW c \in Threads, Step(c)
        PROVE  Uncrossed'
    <2>1. Uncrossed
      <3>1. (\E place : Goto(c, place)) \/ crossed' = crossed
        BY <1>4 DEF Step, BookLeg, RaiseHalt, KillSwitch, WriteReason, KillFlag, CheckNewDay,
           RollDay, Lift, ForgetDaily, StartTrading, StartFinds, StartForgets
      <3>. QED  BY <3>1, Moves
    <2>2. CASE BookLeg(c)
      <3>1. CASE RaiseHalt(c, "daily")
        <4>1. "daily" \in Raises /\ pc[c] \in {"idle", "book"}
          BY <2>2 DEF Raises, BookLeg
        <4>. QED  BY <2>1, <3>1, <4>1, RaiseStep
      <3>2. CASE ~RaiseHalt(c, "daily")
        <4>1. /\ Goto(c, "idle") /\ pc[c] = "book"
              /\ UNCHANGED <<halted, reason, since, day, date>>
          BY <2>2, <3>2 DEF BookLeg
        <4>2. pc'[c] = "idle" /\ \A d \in Threads : d # c => pc'[d] = pc[d]
          BY <4>1, Moves
        <4>. QED  BY <2>1, <4>1, <4>2, QuietStep
      <3>. QED  BY <3>1, <3>2
    <2>3. CASE KillSwitch(c)
      <3>1. "kill" \in Raises /\ pc[c] \in {"idle", "book"} /\ RaiseHalt(c, "kill")
        BY <2>3 DEF Raises, KillSwitch
      <3>. QED  BY <2>1, <3>1, RaiseStep
    <2>4. CASE KillFlag(c)
      <3>1. UNCHANGED <<halted, reason, since, day, pc, date>>
        BY <2>4 DEF KillFlag
      <3>. QED  BY <2>1, <3>1, QuietStep
    <2>. QED
      BY <1>4, <2>1, <2>2, <2>3, <2>4, ReasonStep, NoticeStep, RollStep, LiftStep, ForgetStep,
         StartStep DEF Step
  <1>. QED  BY <1>1, <1>2, <1>3, <1>4 DEF Next

LEMMA HaltInvariance == Spec => []HaltInv
  <1>1. Init => HaltInv
    <2> SUFFICES ASSUME Init PROVE HaltInv
      OBVIOUS
    <2>1. HaltTypes
      BY HaltTypesInductive
    <2>2. ~Raising /\ ~Clearing
      BY DEF Init, Raising, Clearing, Raises, Clears
    <2>3. Raised /\ Explained /\ OfToday
      BY <2>2 DEF Init, Raised, Explained, OfToday
    <2>4. \A c \in Threads : Knows(c)
      BY DEF Init, Knows
    <2>. QED  BY <2>1, <2>3, <2>4 DEF HaltInv
  <1>2. HaltInv /\ [Next]_vars => HaltInv'
    <2> SUFFICES ASSUME HaltInv, [Next]_vars PROVE HaltInv'
      OBVIOUS
    <2>1. HaltTypes /\ HaltTypes'
      BY HaltTypesInductive DEF HaltInv
    <2>2. crossed \/ Uncrossed
      BY DEF HaltInv, Uncrossed
    <2>3. crossed' \/ Uncrossed'
      BY <2>1, <2>2, UncrossedStep
    <2>. QED  BY <2>1, <2>3 DEF HaltInv, Uncrossed
  <1>. QED  BY <1>1, <1>2, PTL DEF Spec

-----------------------------------------------------------------------------
(***************************************************************************)
(* The theorems.                                                           *)
(***************************************************************************)
\* risk_manager.py and runtime.py write the halt and its reason one after the
\* other: as long as no raise has met a clear, a halt at rest has a reason and
\* a reason at rest a halt, with any number of threads.
THEOREM HaltsAreExplained == Spec => []HaltExplained
  <1>1. HaltInv => HaltExplained
    <2> SUFFICES ASSUME HaltInv, Settled, ~crossed PROVE halted <=> reason # NoReason
      BY DEF HaltExplained
    <2>1. ~Raising /\ ~Lifted
      BY DEF Settled, Raising, Lifted, Clears
    <2>. QED  BY <2>1 DEF HaltInv, Explained
  <1>. QED  BY <1>1, HaltInvariance, PTL

\* No Start lifts a halt of a kill, a drawdown or an orphan, and midnight only
\* a daily one of an earlier day: whatever else the threads of risk_manager.py
\* and runtime.py do, unless a raise has met a clear.
THEOREM HaltsAreKept == Spec => HaltIsKept
  <1>1. ASSUME HaltInv, [Next]_vars, halted, ~halted'
        PROVE  \/ reason = Daily /\ since # day
               \/ crossed
               \/ boots' # boots
    <2> USE DEF halt
    <2>1. CASE Restart
      BY <2>1 DEF Restart, HaltInv, HaltTypes
    <2>2. CASE DayRolls \/ UNCHANGED vars \/ CheckDrawdown
      BY <1>1, <2>2 DEF DayRolls, vars, CheckDrawdown, RaiseHalt
    <2>3. ASSUME NEW c \in Threads, Step(c), ~crossed
          PROVE  reason = Daily /\ since # day
      <3>1. Lift(c, "lifting", "lifted") \/ Lift(c, "clearing", "cleared")
        BY <1>1, <2>3 DEF Step, BookLeg, RaiseHalt, KillSwitch, WriteReason, KillFlag, CheckNewDay,
           RollDay, ForgetDaily, StartTrading, StartFinds, StartForgets
      <3>2. pc[c] = "lifting" /\ Knows(c)
        BY <2>3, <3>1, <1>1 DEF Lift, HaltInv, Knows
      <3>3. ~Raising
        BY <1>1, <2>3, <3>2 DEF HaltInv, Raised, Clearing, Clears
      <3>4. reason # NoReason
        BY <1>1, <2>3, <3>3 DEF HaltInv, Explained
      <3>. QED  BY <1>1, <3>2, <3>4 DEF Knows, HaltInv, HaltTypes
    <2>. QED  BY <1>1, <2>1, <2>2, <2>3 DEF Next
  <1>2. HaltInv /\ [Next]_vars =>
            [halted /\ ~halted' => \/ reason = Daily /\ since # day
                                   \/ crossed
                                   \/ boots' # boots]_vars
    BY <1>1
  <1>. QED  BY <1>2, HaltInvariance, PTL DEF Spec, HaltIsKept

=============================================================================
