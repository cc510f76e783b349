-------------------------- MODULE PaperEngineProofs ---------------------------
(***************************************************************************)
(* Theorems of PaperEngine: for any commanders and symbols, any number of  *)
(* trades, stages, midnights and restarts.                                 *)
(*                                                                         *)
(* Two facts carry them.  trader.lock: a thread inside a locked section    *)
(* holds it, so that no entry is appended while a position is half closed  *)
(* (Locked, HalfClosed).  One bot: an entry that reserved its symbol finds *)
(* it free when it appends, so that no two live positions share a symbol   *)
(* and the disarm of one takes nothing from another (OneASymbol).          *)
(***************************************************************************)
EXTENDS PaperEngine, FiniteSetTheorems, TLAPS

Places == {"idle", "wait", "outer", "checking", "closing", "booking", "started", "flag",
           "syncing", "drawdown", "daily", "scan", "entries", "looked", "reserved",
           "approved", "appended", "registered"}
Inside == {"checking", "closing", "booking"}
Entering == {"looked", "reserved", "approved", "appended", "registered"}
Uncounted == {"looked", "reserved", "approved", "appended"}

Reasons == {NoReason, Daily, Drawdown, Killed}
Position == [st: States, sym: Symbols \cup {Nobody}, part: Int, stage: 0..Stages,
             res: Int, late: BOOLEAN]
RiskState(n) == [halted: BOOLEAN, paused: BOOLEAN, reduceOnly: BOOLEAN, reason: Reasons,
                 count: 0..n, profit: Int, paper: Int, daily: Int, day: 0..MaxDays]

\* The count is resynchronised when an attempt begins, so register_open finds
\* it at the number of the trades at most.
Slots == IF pc[Bot] \in Uncounted THEN MaxTrades ELSE MaxTrades + 1

\* TypeOK, variable by variable; pc with its places.
ThreadTypes ==
    /\ pc \in [Threads -> Places] /\ DOMAIN task = Threads
    /\ target \in [Threads -> Symbols \cup {Nobody}]
    /\ seen \in [Threads -> Reasons]
BookTypes ==
    /\ pos \in [Trades -> Position]
    /\ lock \in Threads \cup {Nobody} /\ work \subseteq Trades
    /\ armed \in [Symbols -> 0..MaxTrades]
OtherTypes ==
    /\ engine \in BOOLEAN /\ trading \in BOOLEAN /\ killed \in BOOLEAN
    /\ today \in 0..MaxDays /\ boots \in 0..MaxBoots
    /\ cap \in [Threads -> Int] /\ missed \in Nat /\ tick \in {"monitor", "fast", "full"}
    /\ cands \subseteq Symbols /\ rows \subseteq Symbols
Typed == ThreadTypes /\ BookTypes /\ OtherTypes /\ risk \in RiskState(Slots)

\* Trades are born in the order of their numbers, and an entry under way has
\* a number left.
InOrder ==
    /\ Newest \in 0..MaxTrades /\ Born = 1..Newest
    /\ pc[Bot] \in {"looked", "reserved", "approved"} => Newest < MaxTrades

\* Who is inside a locked section holds the lock, and closes what is open.
Locked == \A c \in Threads : pc[c] \in Inside => lock = c /\ work \subseteq Open

\* A position half closed is the one the holder of the lock is booking.
HalfClosed ==
    /\ \A t \in Trades : pos[t].st = "booking" => lock \in Threads /\ pc[lock] = "booking"
    /\ \A t, u \in Trades : pos[t].st = "booking" /\ pos[u].st = "booking" => t = u

Live == {"open", "booking"}

\* One live position per symbol, and none of the symbol that was reserved.
OneASymbol ==
    /\ \A t \in Trades : pos[t].st \in Live => pos[t].sym \in Symbols
    /\ \A t, u \in Trades :
          pos[t].st \in Live /\ pos[u].st \in Live /\ pos[t].sym = pos[u].sym => t = u
    /\ pc[Bot] \in Entering => target[Bot] \in Symbols
    /\ pc[Bot] \in {"reserved", "approved"} => \A t \in Open : pos[t].sym # target[Bot]

\* What the bot has appended and not yet attached is the newest trade.
Appended ==
    pc[Bot] \in {"appended", "registered"} =>
        /\ Newest >= 1
        /\ pos[Newest].st \in Live => pos[Newest].sym = target[Bot]

\* Only the entry past the check of the kill flag can be late, and only once.
LateOnce ==
    /\ \A t, u \in Trades : pos[t].late /\ pos[u].late => t = u
    /\ ~killed \/ pc[Bot] \in {"looked", "reserved", "approved"} =>
          \A t \in Trades : ~pos[t].late

LockInv == Locked /\ HalfClosed
EntryInv == InOrder /\ OneASymbol /\ Appended /\ ProtectedWhileOpen /\ LateOnce
EngineInv == Typed /\ LockInv /\ EntryInv

-----------------------------------------------------------------------------
(***************************************************************************)
(* Constants, counting, and the risk record.                               *)
(***************************************************************************)
LEMMA Bounds ==
    /\ MaxTrades \in Nat /\ Stages \in Nat /\ MaxDays \in Nat /\ MaxBoots \in Nat
    /\ Bot \in Threads /\ Nobody \notin Threads /\ Nobody \notin Symbols
    /\ Bot \notin Commanders
  BY EngineAssumption DEF EngineAssumption, Threads

\* Names that have to differ.
LEMMA Distinct ==
    /\ NoReason \in Reasons /\ Daily \in Reasons /\ Drawdown \in Reasons /\ Killed \in Reasons
  BY DEF Reasons

LEMMA Counting ==
    /\ NumOpen \in 0..MaxTrades
    /\ \A n \in 0..MaxTrades : Born = 1..n => Newest = n
  <1>1. IsFiniteSet(Trades) /\ Cardinality(Trades) = MaxTrades
    BY Bounds, FS_Interval DEF Trades
  <1>2. NumOpen \in 0..MaxTrades
    <2>1. Open \in SUBSET Trades
      BY DEF Open
    <2>2. IsFiniteSet(Open) /\ Cardinality(Open) <= Cardinality(Trades)
      BY <1>1, <2>1, FS_Subset
    <2>3. Cardinality(Open) \in Nat
      BY <2>2, FS_CardinalityType
    <2>. QED  BY <1>1, <2>2, <2>3, Bounds DEF NumOpen
  <1>3. \A n \in 0..MaxTrades : Born = 1..n => Newest = n
    BY Bounds, FS_Interval DEF Newest
  <1>. QED  BY <1>2, <1>3

LEMMA RiskTypes ==
    ASSUME NEW n \in Nat, NEW r \in RiskState(n), NEW day \in 0..MaxDays, NEW x \in Int
    PROVE  /\ r \in RiskState(n + 1) /\ RegisterOpen(r) \in RiskState(n + 1)
           /\ \A reason \in Reasons : Halt(r, reason) \in RiskState(n)
           /\ Unhalt(r) \in RiskState(n) /\ KillHalt(r) \in RiskState(n)
           /\ CheckNewDay(r, day) \in RiskState(n)
           /\ UpdateCapital(r, x, day) \in RiskState(n)
           /\ ApplyDemoCapital(r, x) \in RiskState(n)
           /\ RegisterClose(r) \in RiskState(n)
           /\ \A m \in Nat : \A k \in 0..m : SyncOpenCount(r, k) \in RiskState(m)
           /\ \A b \in BOOLEAN : /\ [r EXCEPT !.paused = b] \in RiskState(n)
                                 /\ [r EXCEPT !.reduceOnly = b] \in RiskState(n)
  <1>1. /\ r \in RiskState(n + 1) /\ RegisterOpen(r) \in RiskState(n + 1)
        /\ RegisterClose(r) \in RiskState(n)
        /\ \A m \in Nat : \A k \in 0..m : SyncOpenCount(r, k) \in RiskState(m)
    BY DEF RiskState, RegisterOpen, RegisterClose, SyncOpenCount
  <1>2. \A q \in RiskState(n), reason \in Reasons :
           Halt(q, reason) \in RiskState(n) /\ Unhalt(q) \in RiskState(n)
    BY Distinct DEF RiskState, Halt, Unhalt
  <1>3. KillHalt(r) \in RiskState(n)
    BY <1>2, Distinct DEF RiskState, KillHalt
  <1>4. CheckNewDay(r, day) \in RiskState(n)
    <2>1. ASSUME NEW q \in RiskState(n)
          PROVE  [q EXCEPT !.day = day, !.daily = 0] \in RiskState(n)
      <3>1. [q EXCEPT !.day = day] \in RiskState(n)
        BY DEF RiskState
      <3>2. \A p \in RiskState(n) : [p EXCEPT !.daily = 0] \in RiskState(n)
        BY DEF RiskState
      <3>. QED  BY <3>1, <3>2
    <2>2. Unhalt(r) \in RiskState(n)
      BY <1>2, Distinct
    <2>3. CASE r.reason = Daily
      BY <2>1, <2>2, <2>3 DEF CheckNewDay
    <2>4. CASE r.reason # Daily
      BY <2>1, <2>4 DEF CheckNewDay
    <2>. QED  BY <2>3, <2>4
  <1>5. UpdateCapital(r, x, day) \in RiskState(n)
    <2>1. PICK q \in RiskState(n) : q = CheckNewDay(r, day)
      BY <1>4
    <2>2. PICK b \in RiskState(n) :
             b = [q EXCEPT !.profit = @ + x, !.paper = q.profit + x, !.daily = @ + x]
      <3>1. q.profit \in Int /\ q.daily \in Int
        BY DEF RiskState
      <3>2. q.profit + x \in Int /\ q.daily + x \in Int
        BY <3>1
      <3>3. [q EXCEPT !.profit = @ + x, !.paper = q.profit + x, !.daily = @ + x] \in RiskState(n)
        BY <3>2 DEF RiskState
      <3>. QED  BY <3>3
    <2>3. UpdateCapital(r, x, day) = IF -b.daily >= DailyLimit THEN Halt(b, Daily) ELSE b
      BY <2>1, <2>2 DEF UpdateCapital
    <2>. QED  BY <2>3, <1>2, Distinct
  <1>6. /\ ApplyDemoCapital(r, x) \in RiskState(n)
        /\ \A b \in BOOLEAN : /\ [r EXCEPT !.paused = b] \in RiskState(n)
                              /\ [r EXCEPT !.reduceOnly = b] \in RiskState(n)
    BY DEF RiskState, ApplyDemoCapital
  <1>7. /\ \A reason \in Reasons : Halt(r, reason) \in RiskState(n)
        /\ Unhalt(r) \in RiskState(n)
    BY <1>2, Distinct
  <1>. QED  BY <1>1, <1>3, <1>4, <1>5, <1>6, <1>7

LEMMA FreshTypes ==
    ASSUME NEW day \in 0..MaxDays
    PROVE  FreshRisk(day) \in RiskState(MaxTrades + 1)
  BY Bounds, Distinct DEF FreshRisk, RiskState

LEMMA UnbornTypes == Unborn \in Position
  BY Bounds DEF Unborn, Position, States
-----------------------------------------------------------------------------
(***************************************************************************)
(* Types.                                                                  *)
(***************************************************************************)
\* What may become of the risk record in any state.
LEMMA RiskHere ==
    ASSUME Typed
    PROVE  /\ RegisterOpen(risk) \in RiskState(Slots + 1)
           /\ \A reason \in Reasons : Halt(risk, reason) \in RiskState(Slots)
           /\ Unhalt(risk) \in RiskState(Slots) /\ KillHalt(risk) \in RiskState(Slots)
           /\ CheckNewDay(risk, today) \in RiskState(Slots)
           /\ \A leg \in Int : /\ UpdateCapital(risk, leg, today) \in RiskState(Slots)
                               /\ UpdateCapital(RegisterClose(risk), leg, today) \in RiskState(Slots)
                               /\ ApplyDemoCapital(risk, leg) \in RiskState(Slots)
           /\ SyncOpenCount(risk, NumOpen) \in RiskState(MaxTrades)
           /\ SyncOpenCount(risk, NumOpen) \in RiskState(Slots)
           /\ SyncOpenCount(Unhalt(risk), NumOpen) \in RiskState(Slots)
           /\ \A b \in BOOLEAN : /\ [risk EXCEPT !.paused = b] \in RiskState(Slots)
                                 /\ [Unhalt(risk) EXCEPT !.paused = b] \in RiskState(Slots)
                                 /\ [risk EXCEPT !.reduceOnly = b] \in RiskState(Slots)
  <1>1. Slots \in {MaxTrades, MaxTrades + 1} /\ Slots \in Nat /\ NumOpen \in 0..MaxTrades
    BY Bounds, Counting DEF Slots
  <1>2. risk \in RiskState(Slots) /\ today \in 0..MaxDays
    BY DEF Typed, OtherTypes
  <1>3. NumOpen \in 0..Slots /\ MaxTrades \in Nat
    BY <1>1, Bounds
  <1>4. Unhalt(risk) \in RiskState(Slots) /\ RegisterClose(risk) \in RiskState(Slots)
    BY <1>1, <1>2, 0 \in Int, RiskTypes
  <1>. QED  BY <1>1, <1>2, <1>3, <1>4, 0 \in Int, RiskTypes

\* A step keeps its bound on the count unless an attempt begins.
LEMMA SlotsKept ==
    ASSUME ThreadTypes, NEW c \in Threads, NEW place, pc' = [pc EXCEPT ![c] = place],
           c = Bot /\ place \in Uncounted => pc[Bot] \in Uncounted,
           NEW r \in RiskState(Slots)
    PROVE  r \in RiskState(Slots')
  <1>1. pc'[Bot] = IF c = Bot THEN place ELSE pc[Bot]
    BY Bounds DEF ThreadTypes
  <1>2. pc'[Bot] \in Uncounted => pc[Bot] \in Uncounted
    BY <1>1
  <1>3. r \in RiskState(MaxTrades) => r \in RiskState(MaxTrades + 1)
    BY Bounds, 0 \in Int, 0 \in 0..MaxDays, RiskTypes
  <1>. QED  BY <1>2, <1>3 DEF Slots

LEMMA ThreadMoves ==
    ASSUME ThreadTypes, NEW c \in Threads, NEW place \in Places, Goto(c, place)
    PROVE  pc' \in [Threads -> Places]
  BY DEF ThreadTypes, Goto

LEMMA ClosingTypes ==
    ASSUME Typed, NEW c \in Threads, NEW t,
           \/ TakeBook(c) \/ DecideExits(c) \/ ReleaseBook(c)
           \/ t \in Trades /\ (PartialClose(c, t) \/ CloseOne(c, t) \/ BookClose(c, t))
    PROVE  Typed'
  <1> USE DEF flags, thread, entry, outside
  <1>1. ThreadTypes'
    <2>1. \A place \in Places : Goto(c, place) => pc' \in [Threads -> Places]
      BY ThreadMoves DEF Typed
    <2>2. AfterBook(c) \in Places
      BY DEF AfterBook, Places
    <2>3. pc' \in [Threads -> Places]
      BY <2>1, <2>2 DEF Typed, ThreadTypes, TakeBook, PartialClose, DecideExits, CloseOne,
         BookClose, BookAmount, ReleaseBook, Places
    <2>4. DOMAIN task' = Threads /\ UNCHANGED seen
      BY DEF Typed, ThreadTypes, TakeBook, PartialClose, DecideExits, CloseOne,
         BookClose, BookAmount, ReleaseBook
    <2>5. target' \in [Threads -> Symbols \cup {Nobody}]
      BY DEF Typed, ThreadTypes, TakeBook, PartialClose, DecideExits, CloseOne,
         BookClose, BookAmount, ReleaseBook
    <2>. QED  BY <2>3, <2>4, <2>5 DEF Typed, ThreadTypes
  <1>2. OtherTypes'
    <2>1. missed' \in Nat
      BY DEF Typed, OtherTypes, TakeBook, PartialClose, DecideExits, CloseOne,
         BookClose, BookAmount, ReleaseBook, Miss
    <2>. QED  BY <2>1 DEF Typed, OtherTypes, TakeBook, PartialClose, DecideExits, CloseOne,
         BookClose, BookAmount, ReleaseBook
  <1>3. risk' \in RiskState(Slots')
    <2>1. risk' \in RiskState(Slots)
      BY RiskHere DEF Typed, BookTypes, Position, Legs, TakeBook, PartialClose, DecideExits,
         CloseOne, BookClose, BookAmount, ReleaseBook
    <2>2. PICK place : /\ pc' = [pc EXCEPT ![c] = place]
                       /\ place \in Uncounted => pc[c] \in Uncounted
      BY DEF Typed, ThreadTypes, Uncounted, TakeBook, PartialClose, DecideExits, CloseOne,
         BookClose, BookAmount, ReleaseBook, Goto, AfterBook
    <2>. QED  BY <2>1, <2>2, SlotsKept DEF Typed
  <1>4. BookTypes'
    <2>1. CASE TakeBook(c)
      <3>1. work' \subseteq Trades
        BY <2>1 DEF TakeBook, ToClose, Open
      <3>. QED  BY <2>1, <3>1 DEF Typed, BookTypes, TakeBook
    <2>2. CASE t \in Trades /\ PartialClose(c, t)
      <3>1. PICK leg \in Legs : pos' = [pos EXCEPT ![t].part = @ + leg, ![t].stage = @ + 1]
        BY <2>2 DEF PartialClose
      <3>2. pos[t] \in Position /\ pos[t].stage < Stages /\ leg \in Int /\ Stages \in Nat
        BY <2>2, Bounds DEF Typed, BookTypes, PartialClose, Legs
      <3>3. pos[t].part + leg \in Int /\ pos[t].stage + 1 \in 0..Stages
        BY <3>2 DEF Position
      <3>4. [pos[t] EXCEPT !.part = @ + leg, !.stage = @ + 1] \in Position
        BY <3>2, <3>3 DEF Position
      <3>5. pos' \in [Trades -> Position]
        BY <3>1, <3>4 DEF Typed, BookTypes
      <3>. QED  BY <2>2, <3>5 DEF Typed, BookTypes, PartialClose
    <2>3. CASE DecideExits(c)
      BY <2>3 DEF Typed, BookTypes, DecideExits, Open
    <2>4. CASE t \in Trades /\ CloseOne(c, t)
      <3>1. PICK leg \in Legs : pos' = [pos EXCEPT ![t].st = "booking", ![t].res = leg]
        BY <2>4 DEF CloseOne, Legs
      <3>2. [pos[t] EXCEPT !.st = "booking", !.res = leg] \in Position
        <4>1. pos[t] \in Position /\ leg \in Int
          BY <2>4 DEF Typed, BookTypes, Legs
        <4>. QED  BY <4>1 DEF Position, States
      <3>3. pos' \in [Trades -> Position]
        BY <3>1, <3>2 DEF Typed, BookTypes
      <3>. QED  BY <2>4, <3>3 DEF Typed, BookTypes, CloseOne
    <2>5. CASE t \in Trades /\ BookClose(c, t)
      <3>1. pos[t] \in Position /\ pos[t].res + pos[t].part \in Int
        BY <2>5 DEF Typed, BookTypes, Position
      <3>2. [Unborn EXCEPT !.st = "closed", !.late = pos[t].late,
                           !.res = pos[t].res + pos[t].part] \in Position
        BY <3>1, UnbornTypes DEF Position, States
      <3>3. pos' \in [Trades -> Position]
        BY <2>5, <3>2 DEF Typed, BookTypes, BookClose, BookAmount
      <3>4. armed' \in [Symbols -> 0..MaxTrades]
        <4>1. armed' = [armed EXCEPT ![pos[t].sym] = 0] /\ armed \in [Symbols -> 0..MaxTrades]
          BY <2>5 DEF Typed, BookTypes, BookClose, BookAmount
        <4>2. 0 \in 0..MaxTrades
          BY Bounds
        <4>. QED  BY <4>1, <4>2
      <3>. QED  BY <2>5, <3>3, <3>4 DEF Typed, BookTypes, BookClose, BookAmount
    <2>6. CASE ReleaseBook(c)
      BY <2>6 DEF Typed, BookTypes, ReleaseBook
    <2>. QED  BY <2>1, <2>2, <2>3, <2>4, <2>5, <2>6
  <1>. QED  BY <1>1, <1>2, <1>3, <1>4 DEF Typed

LEMMA CommandTypes ==
    ASSUME Typed, NEW c \in Threads, \/ Command(c) \/ StartClears(c) \/ CloseAllLocks(c)
           \/ KillFlag(c) \/ SyncAccount(c)
    PROVE  Typed'
  <1> USE DEF flags, thread, entry, outside, book
  <1> DEFINE Acts == \/ StartAnalysis(c) \/ StartTrading(c) \/ StopTrading(c) \/ StopEngine(c)
                     \/ Pause(c) \/ Resume(c) \/ CloseAll(c) \/ KillSwitch(c)
                     \/ \E on \in BOOLEAN : SetReduceOnly(c, on)
                     \/ \E s \in Symbols : CloseSymbol(c, s)
                     \/ StartClears(c) \/ CloseAllLocks(c) \/ KillFlag(c)
                     \/ RefreshScreen(c) \/ SyncAccount(c)
  <1>0. Acts
    BY DEF Command
  <1>1. ThreadTypes'
    <2>1. \A place \in Places : Goto(c, place) => pc' \in [Threads -> Places]
      BY ThreadMoves DEF Typed
    <2>2. pc' \in [Threads -> Places] /\ DOMAIN task' = Threads
      BY <1>0, <2>1 DEF Typed, ThreadTypes, StartAnalysis, StartTrading, StopTrading, StopEngine,
         Pause, Resume, CloseAll, KillSwitch, SetReduceOnly, CloseSymbol, RefreshScreen, BeginSync, StartClears,
         CloseAllLocks, KillFlag, SyncAccount, WantBook, Places
    <2>3. target' \in [Threads -> Symbols \cup {Nobody}]
      BY <1>0 DEF Typed, ThreadTypes, StartAnalysis, StartTrading, StopTrading, StopEngine,
         Pause, Resume, CloseAll, KillSwitch, SetReduceOnly, CloseSymbol, RefreshScreen, BeginSync, StartClears,
         CloseAllLocks, KillFlag, SyncAccount
    <2>4. seen' \in [Threads -> Reasons]
      <3>1. risk.reason \in Reasons /\ NoReason \in Reasons
        BY Distinct DEF Typed, RiskState
      <3>. QED  BY <1>0, <3>1 DEF Typed, ThreadTypes, StartAnalysis, StartTrading, StopTrading,
         StopEngine, Pause, Resume, CloseAll, KillSwitch, SetReduceOnly, CloseSymbol, RefreshScreen, BeginSync, StartClears,
         CloseAllLocks, KillFlag, SyncAccount
    <2>. QED  BY <2>2, <2>3, <2>4 DEF ThreadTypes
  <1>2. BookTypes'
    BY <1>0 DEF Typed, BookTypes, StartAnalysis, StartTrading, StopTrading, StopEngine,
       Pause, Resume, CloseAll, KillSwitch, SetReduceOnly, CloseSymbol, RefreshScreen, BeginSync, StartClears,
       CloseAllLocks, KillFlag, SyncAccount
  <1>3. OtherTypes'
    <2>1. risk.paper \in Int /\ cap \in [Threads -> Int]
      BY DEF Typed, RiskState, OtherTypes
    <2>2. cap' \in [Threads -> Int]
      BY <1>0, <2>1 DEF StartAnalysis, StartTrading, StopTrading, StopEngine,
         Pause, Resume, CloseAll, KillSwitch, SetReduceOnly, CloseSymbol, RefreshScreen, BeginSync,
         StartClears, CloseAllLocks, KillFlag, SyncAccount
    <2>. QED  BY <1>0, <2>2 DEF Typed, OtherTypes, StartAnalysis, StartTrading, StopTrading,
         StopEngine, Pause, Resume, CloseAll, KillSwitch, SetReduceOnly, CloseSymbol, RefreshScreen,
         BeginSync, StartClears, CloseAllLocks, KillFlag, SyncAccount
  <1>4. risk' \in RiskState(Slots')
    <2>1. risk' \in RiskState(Slots)
      <3>1. CASE StartAnalysis(c)
        <4>1. (risk.paused \/ ~trading) \in BOOLEAN
          OBVIOUS
        <4>. QED  BY <3>1, <4>1, RiskHere DEF StartAnalysis
      <3>2. CASE StartClears(c) \/ Resume(c)
        BY <3>2, RiskHere DEF StartClears, Resume
      <3>3. CASE SyncAccount(c)
        <4>1. cap[c] \in Int
          BY DEF Typed, OtherTypes
        <4>. QED  BY <3>3, <4>1, RiskHere DEF SyncAccount
      <3>4. CASE ~StartAnalysis(c) /\ ~StartClears(c) /\ ~Resume(c) /\ ~SyncAccount(c)
        BY <1>0, <3>4, RiskHere DEF Typed, StartTrading, StopTrading, StopEngine, Pause, CloseAll,
           KillSwitch, SetReduceOnly, CloseSymbol, RefreshScreen, BeginSync, CloseAllLocks, KillFlag
      <3>. QED  BY <3>1, <3>2, <3>3, <3>4
    <2>2. PICK place : /\ pc' = [pc EXCEPT ![c] = place]
                       /\ place \in Uncounted => pc[c] \in Uncounted
      <3>1. \/ pc' = pc
            \/ \E place \in {"started", "wait", "outer", "idle", "syncing"} : pc' = [pc EXCEPT ![c] = place]
        BY <1>0 DEF StartAnalysis, StartTrading, StopTrading, StopEngine,
           Pause, Resume, CloseAll, KillSwitch, SetReduceOnly, CloseSymbol, RefreshScreen, BeginSync, StartClears,
           CloseAllLocks, KillFlag, SyncAccount, WantBook, Goto
      <3>2. CASE pc' = pc
        BY <3>2, pc' = [pc EXCEPT ![c] = pc[c]] DEF Typed, ThreadTypes
      <3>. QED  BY <3>1, <3>2 DEF Uncounted
    <2>. QED  BY <2>1, <2>2, SlotsKept DEF Typed
  <1>. QED  BY <1>1, <1>2, <1>3, <1>4 DEF Typed

LEMMA BotTypes ==
    ASSUME Typed,
           \/ \E kind \in {"monitor", "fast", "full"} : TickStarts(kind)
           \/ DrawdownCheck \/ DailyCheck \/ Scan \/ EndEntries
    PROVE  Typed'
  <1> USE DEF flags, thread, entry, outside, book
  <1>0. Bot \in Threads
    BY Bounds
  <1>1. risk.paper \in Int /\ cap \in [Threads -> Int]
    BY DEF Typed, RiskState, OtherTypes
  <1>2. PICK place \in Places \ Uncounted : pc' = [pc EXCEPT ![Bot] = place]
    BY DEF TickStarts, BeginSync, DrawdownCheck, DailyCheck, Scan, EndEntries, AfterDaily,
       WantBook, Goto, Places, Uncounted
  <1>3. ThreadTypes'
    <2>1. pc' \in [Threads -> Places]
      BY <1>0, <1>2, ThreadMoves DEF Typed, Goto
    <2>2. DOMAIN task' = Threads /\ UNCHANGED <<target, seen>>
      BY DEF Typed, ThreadTypes, TickStarts, BeginSync, DrawdownCheck, DailyCheck, Scan,
         EndEntries, WantBook
    <2>. QED  BY <2>1, <2>2 DEF Typed, ThreadTypes
  <1>4. BookTypes'
    BY DEF Typed, BookTypes, TickStarts, BeginSync, DrawdownCheck, DailyCheck, Scan, EndEntries
  <1>5. OtherTypes'
    <2>1. cap' \in [Threads -> Int]
      BY <1>1 DEF TickStarts, BeginSync, DrawdownCheck, DailyCheck, Scan, EndEntries
    <2>. QED  BY <2>1 DEF Typed, OtherTypes, TickStarts, BeginSync, DrawdownCheck, DailyCheck, Scan,
         EndEntries
  <1>6. risk' \in RiskState(Slots')
    <2>1. risk' \in RiskState(Slots)
      BY <1>1, RiskHere, Distinct DEF Typed, TickStarts, BeginSync, DrawdownCheck, DailyCheck,
         Scan, EndEntries
    <2>. QED  BY <1>0, <1>2, <2>1, SlotsKept DEF Typed
  <1>. QED  BY <1>3, <1>4, <1>5, <1>6 DEF Typed

LEMMA EntryTypes ==
    ASSUME Typed, InOrder, OneASymbol, NEW s,
           \/ s \in Symbols /\ (Look(s) \/ PassOver(s))
           \/ Reserve \/ RiskGate \/ OpenRaises
           \/ Append \/ Void \/ Register \/ Attach
    PROVE  Typed'
  <1> USE DEF flags, thread, entry, outside, book
  <1>0. Bot \in Threads /\ MaxTrades \in Nat
    BY Bounds
  <1>1. PICK place \in Places : pc' = [pc EXCEPT ![Bot] = place]
    <2>1. \/ pc' = pc
          \/ \E place \in Places : pc' = [pc EXCEPT ![Bot] = place]
      BY DEF Look, LookAnyway, PassOver, Reserve, RiskGate, OpenRaises, Append, AppendUnlocked,
         Void, Register, Attach, Goto, Places
    <2>2. pc[Bot] \in Places /\ pc = [pc EXCEPT ![Bot] = pc[Bot]]
      BY <1>0 DEF Typed, ThreadTypes
    <2>. QED  BY <2>1, <2>2
  <1>2. ThreadTypes'
    <2>1. pc' \in [Threads -> Places]
      BY <1>0, <1>1, ThreadMoves DEF Typed, Goto
    <2>2. UNCHANGED <<task, seen>>
      BY DEF Look, LookAnyway, PassOver, Reserve, RiskGate, OpenRaises, Append, AppendUnlocked,
         Void, Register, Attach
    <2>3. target' \in [Threads -> Symbols \cup {Nobody}]
      <3>1. CASE s \in Symbols /\ Look(s)
        BY <3>1 DEF Typed, ThreadTypes, Look, LookAnyway
      <3>2. CASE ~(s \in Symbols /\ Look(s))
        BY <3>2 DEF Typed, ThreadTypes, PassOver, Reserve, RiskGate, OpenRaises, Append,
           AppendUnlocked, Void, Register, Attach
      <3>. QED  BY <3>1, <3>2
    <2>. QED  BY <2>1, <2>2, <2>3 DEF Typed, ThreadTypes
  <1>3. BookTypes'
    <2>1. CASE Append
      <3>1. [Unborn EXCEPT !.st = "open", !.sym = target[Bot], !.late = killed] \in Position
        BY <1>0, UnbornTypes DEF Typed, ThreadTypes, OtherTypes, Position, States
      <3>2. pos' \in [Trades -> Position]
        BY <2>1, <3>1 DEF Typed, BookTypes, Append, AppendUnlocked
      <3>. QED  BY <2>1, <3>2 DEF Typed, BookTypes, Append, AppendUnlocked
    <2>2. CASE Void
      <3>1. Newest \in Open => [Unborn EXCEPT !.st = "void", !.late = pos[Newest].late] \in Position
        BY UnbornTypes DEF Typed, BookTypes, Open, Position, States
      <3>2. pos' \in [Trades -> Position]
        BY <2>2, <3>1 DEF Typed, BookTypes, Void
      <3>. QED  BY <2>2, <3>2 DEF Typed, BookTypes, Void
    <2>3. CASE Attach
      <3>1. armed \in [Symbols -> 0..MaxTrades] /\ Newest \in 0..MaxTrades
        BY DEF Typed, BookTypes, InOrder
      <3>2. armed' \in [Symbols -> 0..MaxTrades]
        BY <2>3, <3>1 DEF Attach
      <3>. QED  BY <2>3, <3>2 DEF Typed, BookTypes, Attach
    <2>4. CASE ~Append /\ ~Void /\ ~Attach
      BY <2>4 DEF Typed, BookTypes, Look, LookAnyway, PassOver, Reserve, RiskGate, OpenRaises, Register
    <2>. QED  BY <2>1, <2>2, <2>3, <2>4
  <1>4. OtherTypes'
    <2>1. pc[Bot] = "looked" => target[Bot] \in Symbols
      BY DEF OneASymbol, Entering
    <2>2. cands' \subseteq Symbols
      BY DEF Typed, OtherTypes, Look, LookAnyway, PassOver, Reserve, RiskGate, OpenRaises, Append,
         AppendUnlocked, Void, Register, Attach
    <2>3. rows' \subseteq Symbols
      BY <2>1 DEF Typed, OtherTypes, Look, LookAnyway, PassOver, Reserve, RiskGate, OpenRaises, Append,
         AppendUnlocked, Void, Register, Attach
    <2>. QED  BY <2>2, <2>3 DEF Typed, OtherTypes, Look, LookAnyway, PassOver, Reserve, RiskGate,
         OpenRaises, Append, AppendUnlocked, Void, Register, Attach
  <1>5. risk' \in RiskState(Slots')
    <2>1. CASE Look(s)
      <3>1. pc'[Bot] = "looked"
        BY <1>0, <2>1 DEF Typed, ThreadTypes, Look, LookAnyway, Goto
      <3>2. Slots' = MaxTrades
        BY <3>1 DEF Slots, Uncounted
      <3>. QED  BY <2>1, <3>2, RiskHere DEF Look, LookAnyway
    <2>2. CASE Register
      <3>1. pc[Bot] = "appended" /\ pc'[Bot] = "registered"
        BY <1>0, <2>2 DEF Typed, ThreadTypes, Register, Goto
      <3>2. Slots = MaxTrades /\ Slots' = MaxTrades + 1
        BY <3>1 DEF Slots, Uncounted
      <3>. QED  BY <2>2, <3>2, RiskHere DEF Register
    <2>3. CASE ~Look(s) /\ ~Register
      <3>1. risk' \in RiskState(Slots)
        BY <2>3, RiskHere DEF Typed, PassOver, Reserve, RiskGate, OpenRaises, Append,
           AppendUnlocked, Void, Attach
      <3>2. place \in Uncounted => pc[Bot] \in Uncounted
        <4>1. pc'[Bot] = place
          BY <1>0, <1>1 DEF Typed, ThreadTypes
        <4>2. pc' \in [Threads -> Places]
          BY <1>2 DEF ThreadTypes
        <4>. QED  BY <1>0, <2>3, <4>1 DEF Typed, ThreadTypes, Uncounted, PassOver, Reserve, RiskGate,
             OpenRaises, Append, AppendUnlocked, Void, Attach, Goto
      <3>. QED  BY <1>0, <1>1, <3>1, <3>2, SlotsKept DEF Typed
    <2>. QED  BY <2>1, <2>2, <2>3
  <1>. QED  BY <1>2, <1>3, <1>4, <1>5 DEF Typed

LEMMA OutsideTypes ==
    ASSUME Typed, DayRolls \/ GetStatus \/ Restart \/ \E s \in Symbols : RowExpires(s)
    PROVE  Typed'
  <1> USE DEF flags, thread, entry, outside, book
  <1>0. Bot \in Threads /\ MaxTrades \in Nat /\ MaxDays \in Nat /\ MaxBoots \in Nat
    BY Bounds
  <1>1. CASE DayRolls
    <2>1. today' \in 0..MaxDays
      BY <1>0, <1>1 DEF Typed, OtherTypes, DayRolls
    <2>. QED  BY <1>1, <2>1 DEF Typed, ThreadTypes, BookTypes, OtherTypes, Slots, DayRolls
  <1>2. CASE GetStatus
    <2>1. risk' \in RiskState(Slots)
      BY <1>2, RiskHere DEF GetStatus
    <2>. QED  BY <1>2, <2>1 DEF Typed, ThreadTypes, BookTypes, OtherTypes, Slots, GetStatus
  <1>3. CASE \E s \in Symbols : RowExpires(s)
    BY <1>3 DEF Typed, ThreadTypes, BookTypes, OtherTypes, Slots, RowExpires
  <1>4. CASE Restart
    <2>1. ThreadTypes'
      BY <1>4, Distinct DEF ThreadTypes, Restart, Places
    <2>2. BookTypes'
      <3>1. \A t \in Trades : [Unborn EXCEPT !.st = "gone", !.late = pos[t].late] \in Position
        BY UnbornTypes DEF Typed, BookTypes, Position, States
      <3>2. pos' \in [Trades -> Position]
        BY <1>4, <3>1, UnbornTypes DEF Restart
      <3>. QED  BY <1>4, <3>2 DEF Typed, BookTypes, Restart
    <2>3. OtherTypes'
      <3>1. boots' \in 0..MaxBoots
        <4>1. boots' = boots + 1 /\ boots < MaxBoots /\ boots \in 0..MaxBoots
          BY <1>4 DEF Typed, OtherTypes, Restart
        <4>. QED  BY <1>0, <4>1
      <3>2. /\ engine' = FALSE /\ trading' = FALSE /\ cap' = [c \in Threads |-> 0] /\ tick' = "monitor"
            /\ cands' = {} /\ rows' = {} /\ missed' = 0 /\ UNCHANGED <<killed, today>>
        BY <1>4 DEF Restart
      <3>3. engine' \in BOOLEAN /\ trading' \in BOOLEAN /\ killed' \in BOOLEAN
        BY <3>2, Zenon DEF Typed, OtherTypes
      <3>4. today' \in 0..MaxDays /\ missed' \in Nat /\ cap' \in [Threads -> Int] /\ tick' \in {"monitor", "fast", "full"}
        BY <3>2 DEF Typed, OtherTypes
      <3>5. cands' \subseteq Symbols /\ rows' \subseteq Symbols
        BY <3>2
      <3>. QED  BY <3>1, <3>3, <3>4, <3>5 DEF OtherTypes
    <2>4. risk' \in RiskState(Slots')
      <3>1. pc'[Bot] = "idle"
        BY <1>0, <1>4 DEF Restart
      <3>2. Slots' = MaxTrades + 1
        BY <3>1 DEF Slots, Uncounted
      <3>3. FreshRisk(today) \in RiskState(MaxTrades + 1)
        BY FreshTypes DEF Typed, OtherTypes
      <3>4. KillHalt(FreshRisk(today)) \in RiskState(MaxTrades + 1)
        BY <1>0, <3>3, 0 \in Int, 0 \in 0..MaxDays, RiskTypes
      <3>. QED  BY <1>4, <3>2, <3>3, <3>4 DEF Restart
    <2>. QED  BY <2>1, <2>2, <2>3, <2>4 DEF Typed
  <1>. QED  BY <1>1, <1>2, <1>3, <1>4

LEMMA InitTypes == Init => Typed
  <1> SUFFICES ASSUME Init PROVE Typed
    OBVIOUS
  <1>1. Bot \in Threads /\ MaxTrades \in Nat /\ MaxDays \in Nat /\ MaxBoots \in Nat
    BY Bounds
  <1>2. ThreadTypes
    BY Distinct DEF Init, ThreadTypes, Places
  <1>3. BookTypes
    BY <1>1, UnbornTypes DEF Init, BookTypes
  <1>4. OtherTypes
    <2>1. 0 \in 0..MaxDays /\ 0 \in 0..MaxBoots
      BY <1>1
    <2>2. /\ engine = FALSE /\ trading = FALSE /\ killed = FALSE /\ today = 0 /\ boots = 0
          /\ cap = [c \in Threads |-> 0] /\ missed = 0 /\ tick = "monitor" /\ cands = {} /\ rows = {}
      BY DEF Init
    <2>3. engine \in BOOLEAN /\ trading \in BOOLEAN /\ killed \in BOOLEAN
      BY <2>2, Zenon
    <2>4. cap \in [Threads -> Int] /\ missed \in Nat /\ tick \in {"monitor", "fast", "full"}
      BY <2>2
    <2>5. cands \subseteq Symbols /\ rows \subseteq Symbols
      BY <2>2
    <2>. QED  BY <2>1, <2>2, <2>3, <2>4, <2>5 DEF OtherTypes
  <1>5. risk \in RiskState(Slots)
    <2>1. pc[Bot] = "idle"
      BY <1>1 DEF Init
    <2>2. Slots = MaxTrades + 1
      BY <2>1 DEF Slots, Uncounted
    <2>. QED  BY <1>1, <2>2, FreshTypes DEF Init
  <1>. QED  BY <1>2, <1>3, <1>4, <1>5 DEF Typed

LEMMA TypesKept == Typed /\ InOrder /\ OneASymbol /\ [Next]_vars => Typed'
  <1> SUFFICES ASSUME Typed, InOrder, OneASymbol, [Next]_vars PROVE Typed'
    OBVIOUS
  <1>1. CASE UNCHANGED vars
    BY <1>1 DEF vars, Typed, ThreadTypes, BookTypes, OtherTypes, Slots
  <1>2. ASSUME NEW c \in Threads, TakeBook(c) \/ CloseAllLocks(c) \/ Proceeds(c) PROVE Typed'
    BY <1>2, ClosingTypes, CommandTypes DEF Proceeds
  <1>3. ASSUME NEW c \in Threads, Command(c) PROVE Typed'
    BY <1>3, CommandTypes
  <1>4. CASE ControlFile
    BY <1>4, CommandTypes, Bounds DEF ControlFile, Command
  <1>5. CASE BotProceeds \/ \E kind \in {"monitor", "fast", "full"} : TickStarts(kind)
    BY <1>5, BotTypes, EntryTypes DEF BotProceeds
  <1>6. CASE DayRolls \/ GetStatus \/ Restart \/ \E s \in Symbols : RowExpires(s)
    BY <1>6, OutsideTypes
  <1>7. \A c \in Commanders : c \in Threads
    BY DEF Threads
  <1>. QED  BY <1>1, <1>2, <1>3, <1>4, <1>5, <1>6, <1>7 DEF Next

-----------------------------------------------------------------------------
(***************************************************************************)
(* The lock.                                                               *)
(***************************************************************************)
\* A free lock: nobody is inside a locked section, nothing is half closed.
LEMMA LockFree ==
    ASSUME ThreadTypes, LockInv, NEW c \in Threads, LockFreeFor(c), pc[c] \notin Inside
    PROVE  /\ \A d \in Threads : pc[d] \notin Inside
           /\ \A t \in Trades : pos[t].st # "booking"
  BY Bounds DEF LockInv, Locked, HalfClosed, LockFreeFor, Inside

\* What happens outside the locked sections leaves them alone.
LEMMA LockAside ==
    ASSUME ThreadTypes, LockInv, NEW c \in Threads, NEW place, Goto(c, place),
           pc[c] \notin Inside, place \notin Inside, UNCHANGED <<pos, lock, work>>
    PROVE  LockInv'
  <1>1. \A d \in Threads : pc'[d] = IF d = c THEN place ELSE pc[d]
    BY DEF ThreadTypes, Goto
  <1>2. Locked'
    BY <1>1 DEF LockInv, Locked, Open
  <1>3. HalfClosed'
    <2>1. \A t \in Trades : pos[t].st = "booking" => lock \in Threads /\ pc[lock] = "booking"
      BY DEF LockInv, HalfClosed
    <2>2. \A d \in Threads : pc[d] = "booking" => pc'[d] = "booking"
      BY <1>1 DEF Inside
    <2>. QED  BY <2>1, <2>2 DEF LockInv, HalfClosed
  <1>. QED  BY <1>2, <1>3 DEF LockInv

\* A step of the bot outside the locked sections, with the lock free for it.
LEMMA LockUntouched ==
    ASSUME ThreadTypes, LockInv, NEW place, Goto(Bot, place), LockFreeFor(Bot),
           pc[Bot] \notin Inside, place \notin Inside,
           \A t \in Trades : pos'[t].st = "booking" => pos[t].st = "booking"
    PROVE  LockInv'
  <1>1. \A d \in Threads : pc'[d] = IF d = Bot THEN place ELSE pc[d]
    BY Bounds DEF ThreadTypes, Goto
  <1>2. /\ \A d \in Threads : pc[d] \notin Inside
        /\ \A t \in Trades : pos[t].st # "booking"
    BY LockFree, Bounds
  <1>. QED  BY <1>1, <1>2 DEF LockInv, Locked, HalfClosed

LEMMA LockTaken ==
    ASSUME ThreadTypes, LockInv, NEW c \in Threads, TakeBook(c) \/ CloseAllLocks(c)
    PROVE  LockInv'
  <1>1. LockFreeFor(c) /\ pc[c] \notin Inside /\ lock' = c /\ UNCHANGED pos
    BY DEF TakeBook, CloseAllLocks, Inside, flags, thread, entry, outside
  <1>2. /\ \A d \in Threads : pc[d] \notin Inside
        /\ \A t \in Trades : pos[t].st # "booking"
    BY <1>1, LockFree
  <1>3. \A d \in Threads : d # c => pc'[d] = pc[d]
    BY DEF ThreadTypes, TakeBook, CloseAllLocks, WantBook, Goto
  <1>4. pc'[c] \in Inside => work' \subseteq Open'
    <2>1. CASE TakeBook(c)
      BY <1>1, <2>1 DEF TakeBook, ToClose, Open
    <2>2. CASE CloseAllLocks(c)
      BY <2>2 DEF ThreadTypes, CloseAllLocks, WantBook, Goto, Inside
    <2>. QED  BY <2>1, <2>2
  <1>. QED  BY <1>1, <1>2, <1>3, <1>4 DEF LockInv, Locked, HalfClosed

\* What a partial and a closing step do to the positions.
LEMMA PartialPositions ==
    ASSUME BookTypes, NEW c, NEW t \in Trades, PartialClose(c, t)
    PROVE  \A u \in Trades : /\ pos'[u].st = pos[u].st /\ pos'[u].sym = pos[u].sym
                             /\ pos'[u].late = pos[u].late
  <1>1. PICK leg \in Legs : pos' = [pos EXCEPT ![t].part = @ + leg, ![t].stage = @ + 1]
    BY DEF PartialClose
  <1>2. pos[t] \in Position
    BY DEF BookTypes
  <1>3. /\ pos'[t] = [pos[t] EXCEPT !.part = @ + leg, !.stage = @ + 1]
        /\ \A u \in Trades : u # t => pos'[u] = pos[u]
    BY <1>1 DEF BookTypes
  <1>. QED  BY <1>2, <1>3 DEF Position

LEMMA ClosePositions ==
    ASSUME BookTypes, NEW c, NEW t \in Trades, CloseOne(c, t)
    PROVE  /\ pos'[t].st = "booking" /\ pos'[t].sym = pos[t].sym /\ pos'[t].late = pos[t].late
           /\ \A u \in Trades : u # t => pos'[u] = pos[u]
  <1>1. PICK leg : pos' = [pos EXCEPT ![t].st = "booking", ![t].res = leg]
    BY DEF CloseOne
  <1>2. pos[t] \in Position
    BY DEF BookTypes
  <1>3. /\ pos'[t] = [pos[t] EXCEPT !.st = "booking", !.res = leg]
        /\ \A u \in Trades : u # t => pos'[u] = pos[u]
    BY <1>1 DEF BookTypes
  <1>. QED  BY <1>2, <1>3 DEF Position

\* Inside a locked section.
LEMMA LockHeld ==
    ASSUME ThreadTypes, BookTypes, LockInv, NEW c \in Threads, NEW t,
           \/ DecideExits(c) \/ ReleaseBook(c)
           \/ t \in Trades /\ (PartialClose(c, t) \/ CloseOne(c, t) \/ BookClose(c, t))
    PROVE  LockInv'
  <1> USE DEF flags, thread, entry, outside
  <1>1. pc[c] \in Inside /\ lock = c /\ work \subseteq Open
    BY DEF LockInv, Locked, Inside, DecideExits, ReleaseBook, PartialClose, CloseOne, BookClose,
       BookAmount
  <1>2. \A d \in Threads : d # c => pc[d] \notin Inside
    BY <1>1 DEF LockInv, Locked
  <1>3. \A d \in Threads : d # c => pc'[d] = pc[d]
    BY DEF ThreadTypes, DecideExits, ReleaseBook, PartialClose, CloseOne, BookClose, BookAmount, Goto
  <1>4. \A u \in Trades : pos[u].st = "booking" => pc[c] = "booking"
    BY <1>1 DEF LockInv, HalfClosed
  <1>5. CASE DecideExits(c)
    <2>1. lock' = lock /\ pos' = pos /\ work' \subseteq Open /\ pc[c] # "booking"
      BY <1>5 DEF DecideExits
    <2>2. Locked'
      BY <1>1, <1>2, <1>3, <2>1 DEF Locked, Open
    <2>. QED  BY <1>4, <2>1, <2>2 DEF LockInv, HalfClosed
  <1>6. CASE ReleaseBook(c)
    <2>1. pos' = pos /\ pc[c] # "booking"
      BY <1>6 DEF ReleaseBook
    <2>2. AfterBook(c) \notin Inside
      BY DEF AfterBook, Inside
    <2>3. pc'[c] \notin Inside
      BY <1>6, <2>2 DEF ThreadTypes, ReleaseBook, Goto
    <2>. QED  BY <1>2, <1>3, <1>4, <2>1, <2>3 DEF LockInv, Locked, HalfClosed
  <1>7. CASE t \in Trades /\ PartialClose(c, t)
    <2>1. /\ lock' = lock /\ pc' = pc /\ work' = work \cup {t} /\ t \in Open /\ pc[c] # "booking"
          /\ \A u \in Trades : pos'[u].st = pos[u].st
      BY <1>7, PartialPositions DEF PartialClose
    <2>2. Locked'
      BY <1>1, <1>2, <2>1 DEF Locked, Open
    <2>. QED  BY <1>4, <2>1, <2>2 DEF LockInv, HalfClosed
  <1>8. CASE t \in Trades /\ CloseOne(c, t)
    <2>1. /\ lock' = lock /\ work' = work \ {t} /\ pc[c] = "closing" /\ pc'[c] = "booking"
          /\ pos'[t].st = "booking" /\ \A u \in Trades : u # t => pos'[u] = pos[u]
      BY <1>8, ClosePositions DEF ThreadTypes, CloseOne, Goto
    <2>2. Locked'
      BY <1>1, <1>2, <1>3, <2>1 DEF Locked, Open
    <2>3. \A u \in Trades : pos'[u].st = "booking" => u = t
      BY <1>4, <2>1
    <2>. QED  BY <1>1, <2>1, <2>2, <2>3 DEF LockInv, HalfClosed
  <1>9. CASE t \in Trades /\ BookClose(c, t)
    <2>1. /\ lock' = lock /\ work' = work /\ pos[t].st = "booking" /\ pc'[c] = "closing"
          /\ pos'[t].st = "closed" /\ \A u \in Trades : u # t => pos'[u] = pos[u]
      BY <1>9 DEF ThreadTypes, BookTypes, BookClose, BookAmount, Goto, Unborn
    <2>2. Open \subseteq Open'
      BY <2>1 DEF Open
    <2>3. Locked'
      BY <1>1, <1>2, <1>3, <2>1, <2>2 DEF Locked
    <2>4. \A u \in Trades : pos'[u].st # "booking"
      BY <1>9, <2>1 DEF LockInv, HalfClosed
    <2>. QED  BY <2>3, <2>4 DEF LockInv, HalfClosed
  <1>. QED  BY <1>5, <1>6, <1>7, <1>8, <1>9

-----------------------------------------------------------------------------
(***************************************************************************)
(* The entry under way.                                                    *)
(***************************************************************************)
\* Who changes no place, symbol or lateness of a position but to close it
\* half, does not touch the entry under way.
LEMMA EntryAside ==
    ASSUME EntryInv, UNCHANGED armed, killed => killed',
           \/ pc'[Bot] = pc[Bot] /\ target'[Bot] = target[Bot]
           \/ pc[Bot] \notin Entering /\ pc'[Bot] \notin Entering,
           \A t \in Trades : /\ pos'[t].sym = pos[t].sym /\ pos'[t].late = pos[t].late
                             /\ \/ pos'[t].st = pos[t].st
                                \/ pos[t].st = "open" /\ pos'[t].st = "booking"
    PROVE  EntryInv'
  <1>1. Born' = Born /\ Newest' = Newest
    <2>1. Born' = Born
      BY DEF Born
    <2>. QED  BY <2>1 DEF Newest
  <1>2. Open' \subseteq Open
    BY DEF Open
  <1>3. \A t \in Trades : pos'[t].st \in Live <=> pos[t].st \in Live
    BY DEF Live
  <1>4. InOrder'
    BY <1>1 DEF EntryInv, InOrder, Entering
  <1>5. OneASymbol'
    BY <1>2, <1>3 DEF EntryInv, OneASymbol, Entering, Open
  <1>6. Appended'
    <2>1. pc'[Bot] \in {"appended", "registered"} => Newest \in Trades
      BY Bounds DEF EntryInv, Appended, InOrder, Entering, Trades
    <2>. QED  BY <1>1, <1>3, <2>1 DEF EntryInv, Appended, Entering
  <1>7. ProtectedWhileOpen'
    <2>1. \A t \in Open' : t \in Trades /\ t \in Open /\ pos'[t].sym = pos[t].sym
      BY <1>2 DEF Open
    <2>2. \A t \in Open : BeingOpened(t) => BeingOpened(t)'
      BY <1>1 DEF BeingOpened, Entering
    <2>. QED  BY <2>1, <2>2 DEF EntryInv, ProtectedWhileOpen
  <1>8. LateOnce'
    BY DEF EntryInv, LateOnce, Entering
  <1>. QED  BY <1>4, <1>5, <1>6, <1>7, <1>8 DEF EntryInv

\* A close that books takes the attachment of its symbol, and of no other
\* position: the symbol has no other live one.
LEMMA EntryBooked ==
    ASSUME Typed, EntryInv, LockInv, NEW c \in Threads, NEW t \in Trades, BookClose(c, t)
    PROVE  EntryInv'
  <1> USE DEF flags, thread, entry, outside
  <1>1. /\ pc[c] = "booking" /\ pos[t].st = "booking" /\ pos[t].sym \in Symbols
        /\ pos'[t].st = "closed" /\ pos'[t].late = pos[t].late
        /\ \A u \in Trades : u # t => pos'[u] = pos[u]
        /\ UNCHANGED <<killed, target>>
        /\ armed' = [armed EXCEPT ![pos[t].sym] = 0] /\ armed \in [Symbols -> 0..MaxTrades]
    <2>0. pos' = [pos EXCEPT ![t] = [Unborn EXCEPT !.st = "closed", !.late = pos[t].late,
                                         !.res = pos[t].res + pos[t].part]]
      BY DEF BookClose, BookAmount
    <2>1. /\ pc[c] = "booking" /\ pos[t].st = "booking" /\ UNCHANGED <<killed, target>>
          /\ armed' = [armed EXCEPT ![pos[t].sym] = 0]
      BY DEF BookClose, BookAmount
    <2>2. pos[t].sym \in Symbols
      BY <2>1 DEF EntryInv, OneASymbol, Live
    <2>3. /\ pos'[t] = [Unborn EXCEPT !.st = "closed", !.late = pos[t].late,
                                      !.res = pos[t].res + pos[t].part]
          /\ \A u \in Trades : u # t => pos'[u] = pos[u]
      BY <2>0 DEF Typed, BookTypes
    <2>4. pos'[t].st = "closed" /\ pos'[t].late = pos[t].late
      BY <2>3 DEF Unborn
    <2>5. armed \in [Symbols -> 0..MaxTrades]
      BY DEF Typed, BookTypes
    <2>. QED  BY <2>1, <2>2, <2>3, <2>4, <2>5
  <1>2. \/ pc'[Bot] = pc[Bot]
        \/ pc[Bot] \notin Entering /\ pc'[Bot] \notin Entering
    BY <1>1, Bounds DEF Typed, ThreadTypes, BookClose, BookAmount, Goto, Entering
  <1>3. Born' = Born /\ Newest' = Newest
    <2>1. Born' = Born
      BY <1>1 DEF Born
    <2>. QED  BY <2>1 DEF Newest
  <1>4. \A u \in Trades : pos'[u].st \in Live => u # t /\ pos[u].st \in Live /\ pos'[u] = pos[u]
    BY <1>1 DEF Live
  <1>5. Open' = Open
    BY <1>1 DEF Open
  <1>6. InOrder'
    BY <1>2, <1>3 DEF EntryInv, InOrder, Entering
  <1>7. OneASymbol'
    BY <1>1, <1>2, <1>4, <1>5 DEF EntryInv, OneASymbol, Entering, Open
  <1>8. Appended'
    <2>1. pc'[Bot] \in {"appended", "registered"} => Newest \in Trades
      BY <1>2, Bounds DEF EntryInv, Appended, InOrder, Entering, Trades
    <2>. QED  BY <1>1, <1>2, <1>3, <1>4, <2>1 DEF EntryInv, Appended, Entering
  <1>9. ProtectedWhileOpen'
    <2>1. ASSUME NEW u \in Open' PROVE armed'[pos'[u].sym] # 0 \/ BeingOpened(u)'
      <3>1. u \in Trades /\ u \in Open /\ u # t /\ pos'[u] = pos[u]
        BY <1>1, <2>1 DEF Open
      <3>2. pos[u].sym \in Symbols /\ pos[u].sym # pos[t].sym
        BY <1>1, <3>1 DEF EntryInv, OneASymbol, Live, Open
      <3>3. armed'[pos'[u].sym] = armed[pos[u].sym]
        BY <1>1, <3>1, <3>2
      <3>4. armed[pos[u].sym] # 0 \/ BeingOpened(u)
        BY <3>1 DEF EntryInv, ProtectedWhileOpen
      <3>. QED  BY <1>2, <1>3, <3>3, <3>4 DEF BeingOpened, Entering
    <2>. QED  BY <2>1 DEF ProtectedWhileOpen
  <1>10. LateOnce'
    <2>1. \A u \in Trades : pos'[u].late = pos[u].late
      BY <1>1
    <2>. QED  BY <1>1, <1>2, <2>1 DEF EntryInv, LateOnce, Entering
  <1>. QED  BY <1>6, <1>7, <1>8, <1>9, <1>10 DEF EntryInv

\* Up to the append the book is only read.
LEMMA EntryChecked ==
    ASSUME Typed, EntryInv, NEW s,
           \/ s \in Symbols /\ Look(s)
           \/ Reserve \/ RiskGate \/ OpenRaises
    PROVE  EntryInv'
  <1> USE DEF flags, thread, entry, outside, book
  <1>1. UNCHANGED <<pos, armed, killed>>
    BY DEF Look, LookAnyway, Reserve, RiskGate, OpenRaises
  <1>2. Born' = Born /\ Newest' = Newest /\ Open' = Open
    <2>1. Born' = Born /\ Open' = Open
      BY <1>1 DEF Born, Open
    <2>. QED  BY <2>1 DEF Newest
  <1>3. /\ pc[Bot] \in {"entries", "looked", "reserved", "approved"}
        /\ pc'[Bot] \in {"entries", "idle", "looked", "reserved", "approved"}
        /\ pc[Bot] = "entries" =>
              /\ s \in Symbols /\ target'[Bot] = s /\ ~killed /\ Newest < MaxTrades
              /\ pc'[Bot] = "looked"
        /\ pc[Bot] # "entries" => target'[Bot] = target[Bot]
        /\ pc'[Bot] \in {"reserved", "approved"} /\ pc[Bot] \notin {"reserved", "approved"} =>
              \A t \in Open : pos[t].sym # target[Bot]
    BY Bounds DEF Typed, ThreadTypes, Look, LookAnyway, Reserve, RiskGate, OpenRaises, Goto
  <1>4. InOrder'
    BY <1>2, <1>3 DEF EntryInv, InOrder
  <1>5. OneASymbol'
    BY <1>1, <1>2, <1>3 DEF EntryInv, OneASymbol, Entering
  <1>6. Appended'
    BY <1>3 DEF Appended
  <1>7. ProtectedWhileOpen'
    BY <1>1, <1>2, <1>3 DEF EntryInv, ProtectedWhileOpen, BeingOpened
  <1>8. LateOnce'
    BY <1>1, <1>3 DEF EntryInv, LateOnce
  <1>. QED  BY <1>4, <1>5, <1>6, <1>7, <1>8 DEF EntryInv

\* The new trade has the next number and a symbol of its own: what was open
\* when the symbol was reserved has another, and nothing is half closed.
LEMMA EntryAppended ==
    ASSUME Typed, LockInv, EntryInv, Append
    PROVE  EntryInv'
  <1> USE DEF flags, thread, entry, outside, book
  <1> DEFINE n == Newest + 1
  <1>1. /\ pc[Bot] = "approved" /\ pc'[Bot] = "appended" /\ target' = target
        /\ target[Bot] \in Symbols /\ UNCHANGED <<armed, killed>>
    BY Bounds DEF Typed, ThreadTypes, EntryInv, OneASymbol, Entering, Append, AppendUnlocked, Goto
  <1>2. n \in Trades /\ n \notin Born /\ Newest \in 0..MaxTrades
    BY <1>1, Bounds DEF EntryInv, InOrder, Trades
  <1>3. /\ pos'[n].st = "open" /\ pos'[n].sym = target[Bot] /\ pos'[n].late = killed
        /\ \A t \in Trades : t # n => pos'[t] = pos[t]
    <2>1. pos' = [pos EXCEPT ![n] = [Unborn EXCEPT !.st = "open", !.sym = target[Bot], !.late = killed]]
      BY DEF Append, AppendUnlocked
    <2>. QED  BY <1>2, <2>1 DEF Typed, BookTypes, Unborn
  <1>4. \A t \in Trades : pos[t].st # "booking"
    BY <1>1, LockFree, Bounds DEF Typed, Append, Inside
  <1>5. pos[n].st = "unborn"
    BY <1>2 DEF Born
  <1>6. Born' = 1..n /\ Newest' = n
    <2>1. Born' = Born \cup {n}
      BY <1>2, <1>3 DEF Born
    <2>2. Born' = 1..n
      BY <1>2, <2>1 DEF EntryInv, InOrder
    <2>3. n \in 0..MaxTrades /\ n \in Int
      BY <1>2 DEF Trades
    <2>4. Cardinality(1..n) = n
      BY <1>2, <2>3, FS_Interval
    <2>. QED  BY <2>2, <2>4 DEF Newest
  <1>7. Open' = Open \cup {n}
    BY <1>2, <1>3, <1>5 DEF Open
  <1> HIDE DEF n
  <1>8. InOrder'
    BY <1>1, <1>2, <1>6, Bounds DEF InOrder, Trades
  <1>9. OneASymbol'
    <2>1. \A t \in Open : pos[t].sym # target[Bot]
      BY <1>1 DEF EntryInv, OneASymbol
    <2>2. \A t \in Trades : t # n /\ pos'[t].st \in Live => t \in Open /\ pos'[t] = pos[t]
      BY <1>3, <1>4 DEF Live, Open
    <2>3. \A t \in Trades : t # n /\ pos'[t].st \in Live => pos'[t].sym # pos'[n].sym
      BY <1>3, <2>1, <2>2
    <2>4. \A t, u \in Trades : /\ t # n /\ u # n /\ pos'[t].st \in Live /\ pos'[u].st \in Live
                               /\ pos'[t].sym = pos'[u].sym
                               => t = u
      BY <1>3 DEF EntryInv, OneASymbol
    <2>5. \A t \in Trades : pos'[t].st \in Live => pos'[t].sym \in Symbols
      BY <1>1, <1>3 DEF EntryInv, OneASymbol
    <2>. QED  BY <1>1, <2>3, <2>4, <2>5 DEF OneASymbol
  <1>10. Appended'
    BY <1>1, <1>2, <1>3, <1>6 DEF Appended, Trades
  <1>11. ProtectedWhileOpen'
    <2>1. ASSUME NEW t \in Open' PROVE armed'[pos'[t].sym] # 0 \/ BeingOpened(t)'
      <3>1. CASE t = n
        BY <1>1, <1>6, <3>1 DEF BeingOpened
      <3>2. CASE t # n
        BY <1>1, <1>3, <1>7, <3>2 DEF EntryInv, ProtectedWhileOpen, BeingOpened, Open
      <3>. QED  BY <3>1, <3>2
    <2>. QED  BY <2>1 DEF ProtectedWhileOpen
  <1>12. LateOnce'
    <2>1. \A t \in Trades : ~pos[t].late
      BY <1>1 DEF EntryInv, LateOnce
    <2>2. \A t \in Trades : pos'[t].late => t = n /\ killed
      BY <1>3, <2>1
    <2>. QED  BY <1>1, <2>2 DEF LateOnce
  <1>. QED  BY <1>8, <1>9, <1>10, <1>11, <1>12 DEF EntryInv

LEMMA EntryVoided ==
    ASSUME Typed, EntryInv, Void
    PROVE  EntryInv'
  <1> USE DEF flags, thread, entry, outside
  <1>1. /\ pc[Bot] = "appended" /\ pc'[Bot] = "entries" /\ target' = target
        /\ UNCHANGED <<armed, killed>>
    BY Bounds DEF Typed, ThreadTypes, Void, Goto
  <1>2. \A t \in Trades : /\ pos'[t].late = pos[t].late
                          /\ pos'[t].st = "unborn" <=> pos[t].st = "unborn"
                          /\ pos'[t].st \in Live => pos'[t] = pos[t]
                          /\ t = Newest => pos'[t].st # "open"
    <2>1. CASE Newest \in Open
      <3>1. /\ pos'[Newest].st = "void" /\ pos'[Newest].late = pos[Newest].late
            /\ \A t \in Trades : t # Newest => pos'[t] = pos[t]
        <4>1. Newest \in Trades
          BY <2>1 DEF Open
        <4>2. pos' = [pos EXCEPT ![Newest] = [Unborn EXCEPT !.st = "void", !.late = pos[Newest].late]]
          BY <2>1 DEF Void
        <4>3. /\ pos'[Newest] = [Unborn EXCEPT !.st = "void", !.late = pos[Newest].late]
              /\ \A t \in Trades : t # Newest => pos'[t] = pos[t]
          BY <4>1, <4>2 DEF Typed, BookTypes
        <4>. QED  BY <4>3 DEF Unborn
      <3>. QED  BY <2>1, <3>1 DEF Open, Live
    <2>2. CASE Newest \notin Open
      BY <2>2 DEF Void, Open
    <2>. QED  BY <2>1, <2>2
  <1>3. Born' = Born /\ Newest' = Newest
    <2>1. Born' = Born
      BY <1>2 DEF Born
    <2>. QED  BY <2>1 DEF Newest
  <1>4. Open' \subseteq Open \ {Newest}
    BY <1>2 DEF Open, Live
  <1>5. InOrder'
    BY <1>1, <1>3 DEF EntryInv, InOrder
  <1>6. OneASymbol'
    BY <1>1, <1>2 DEF EntryInv, OneASymbol, Entering
  <1>7. Appended'
    BY <1>1 DEF Appended
  <1>8. ProtectedWhileOpen'
    <2>1. ASSUME NEW t \in Open' PROVE armed'[pos'[t].sym] # 0
      <3>1. t \in Open /\ t # Newest /\ pos'[t] = pos[t]
        BY <1>2, <1>4, <2>1 DEF Open, Live
      <3>. QED  BY <1>1, <3>1 DEF EntryInv, ProtectedWhileOpen, BeingOpened
    <2>. QED  BY <2>1 DEF ProtectedWhileOpen
  <1>9. LateOnce'
    BY <1>1, <1>2 DEF EntryInv, LateOnce
  <1>. QED  BY <1>5, <1>6, <1>7, <1>8, <1>9 DEF EntryInv

\* register_open counts, attach_protection attaches the symbol of the newest.
LEMMA EntryAttached ==
    ASSUME Typed, EntryInv, Register \/ Attach
    PROVE  EntryInv'
  <1> USE DEF flags, thread, entry, outside, book
  <1>1. /\ UNCHANGED <<pos, killed, target>>
        /\ \/ pc[Bot] = "appended" /\ pc'[Bot] = "registered" /\ armed' = armed
           \/ /\ pc[Bot] = "registered" /\ pc'[Bot] = "entries"
              /\ armed' = [armed EXCEPT ![target[Bot]] = IF @ = 0 THEN Newest ELSE @]
    BY Bounds DEF Typed, ThreadTypes, Register, Attach, Goto
  <1>2. Born' = Born /\ Newest' = Newest /\ Open' = Open
    <2>1. Born' = Born /\ Open' = Open
      BY <1>1 DEF Born, Open
    <2>. QED  BY <2>1 DEF Newest
  <1>3. InOrder' /\ LateOnce'
    BY <1>1, <1>2 DEF EntryInv, InOrder, LateOnce
  <1>4. OneASymbol' /\ Appended'
    BY <1>1, <1>2 DEF EntryInv, OneASymbol, Appended, Entering
  <1>5. ProtectedWhileOpen'
    <2>1. /\ Newest \in Nat /\ Newest >= 1 /\ target[Bot] \in Symbols
          /\ Newest \in Open => pos[Newest].sym = target[Bot]
      BY <1>1, Bounds DEF EntryInv, Appended, InOrder, OneASymbol, Entering, Open, Live
    <2>2. ASSUME NEW t \in Open PROVE armed'[pos[t].sym] # 0 \/ BeingOpened(t)'
      <3>1. pos[t].sym \in Symbols
        BY DEF EntryInv, OneASymbol, Open, Live
      <3>2. CASE pc'[Bot] = "registered" /\ armed' = armed
        BY <1>1, <1>2, <3>2 DEF EntryInv, ProtectedWhileOpen, BeingOpened
      <3>3. CASE armed' = [armed EXCEPT ![target[Bot]] = IF @ = 0 THEN Newest ELSE @]
        <4>1. armed[pos[t].sym] # 0 \/ t = Newest
          BY DEF EntryInv, ProtectedWhileOpen, BeingOpened
        <4>2. /\ armed'[target[Bot]] = IF armed[target[Bot]] = 0 THEN Newest ELSE armed[target[Bot]]
              /\ \A x \in Symbols : x # target[Bot] => armed'[x] = armed[x]
          BY <2>1, <3>3 DEF Typed, BookTypes
        <4>. QED  BY <2>1, <3>1, <4>1, <4>2
      <3>. QED  BY <1>1, <3>2, <3>3
    <2>. QED  BY <1>1, <1>2, <2>2 DEF ProtectedWhileOpen
  <1>. QED  BY <1>3, <1>4, <1>5 DEF EntryInv

\* A restart forgets the book, but not how many trades it had.
LEMMA Restarted ==
    ASSUME Typed, EntryInv, Restart
    PROVE  EntryInv' /\ LockInv'
  <1>1. /\ \A c \in Threads : pc'[c] = "idle"
        /\ UNCHANGED killed
        /\ \A t \in Trades : pos'[t] = IF t \in Born THEN [Unborn EXCEPT !.st = "gone", !.late = pos[t].late]
                                       ELSE Unborn
    BY DEF Restart
  <1>2. pc'[Bot] = "idle"
    BY <1>1, Bounds
  <1>3. \A t \in Trades : /\ pos'[t].st \in {"unborn", "gone"}
                          /\ pos'[t].st = "unborn" <=> t \notin Born
                          /\ pos'[t].late => pos[t].late
    <2>1. ASSUME NEW t \in Trades, t \in Born
          PROVE  pos'[t].st = "gone" /\ pos'[t].late = pos[t].late
      <3>1. pos'[t] = [Unborn EXCEPT !.st = "gone", !.late = pos[t].late]
        BY <1>1, <2>1
      <3>. QED  BY <3>1 DEF Unborn
    <2>2. ASSUME NEW t \in Trades, t \notin Born
          PROVE  pos'[t].st = "unborn" /\ ~pos'[t].late
      <3>1. pos'[t] = Unborn
        BY <1>1, <2>2
      <3>. QED  BY <3>1 DEF Unborn
    <2>. QED  BY <2>1, <2>2
  <1>4. Born' = Born /\ Newest' = Newest
    <2>1. Born' = Born
      BY <1>3 DEF Born
    <2>. QED  BY <2>1 DEF Newest
  <1>5. InOrder' /\ LateOnce'
    BY <1>1, <1>2, <1>3, <1>4 DEF EntryInv, InOrder, LateOnce
  <1>6. OneASymbol' /\ Appended' /\ ProtectedWhileOpen'
    BY <1>2, <1>3 DEF OneASymbol, Appended, ProtectedWhileOpen, Open, Live, Entering
  <1>7. LockInv'
    BY <1>1, <1>3 DEF LockInv, Locked, HalfClosed, Inside
  <1>. QED  BY <1>5, <1>6, <1>7 DEF EntryInv

-----------------------------------------------------------------------------
(***************************************************************************)
(* The invariant.                                                          *)
(***************************************************************************)
LEMMA InitInv == Init => EngineInv
  <1> SUFFICES ASSUME Init PROVE EngineInv
    OBVIOUS
  <1>1. \A t \in Trades : pos[t].st = "unborn" /\ pos[t].late = FALSE
    BY DEF Init, Unborn
  <1>2. \A c \in Threads : pc[c] = "idle"
    BY DEF Init
  <1>3. InOrder
    <2>1. Born = {}
      BY <1>1 DEF Born
    <2>2. 1..0 = {} /\ 0 \in 0..MaxTrades
      BY Bounds
    <2>3. Newest = 0
      BY <2>1, <2>2, Counting
    <2>. QED  BY <1>2, <2>1, <2>2, <2>3, Bounds DEF InOrder
  <1>4. OneASymbol /\ Appended /\ ProtectedWhileOpen
    BY <1>1, <1>2, Bounds DEF OneASymbol, Appended, ProtectedWhileOpen, Open, Live, Entering
  <1>5. LateOnce
    BY <1>1 DEF LateOnce
  <1>6. LockInv
    BY <1>1, <1>2 DEF LockInv, Locked, HalfClosed, Inside
  <1>. QED  BY <1>3, <1>4, <1>5, <1>6, InitTypes DEF EngineInv, EntryInv

\* What a command thread does outside the locked sections.
LEMMA CommandStep ==
    ASSUME EngineInv, NEW c \in Threads,
           Command(c) \/ StartClears(c) \/ KillFlag(c) \/ SyncAccount(c)
    PROVE  LockInv' /\ EntryInv'
  <1> USE DEF flags, thread, entry, outside, book
  <1>1. ThreadTypes /\ LockInv /\ EntryInv
    BY DEF EngineInv, Typed
  <1>2. /\ UNCHANGED <<pos, lock, work, armed>> /\ (killed => killed')
        /\ pc[c] \in {"idle", "started", "flag", "syncing"}
        /\ c # Bot => target'[Bot] = target[Bot]
    BY <1>1, Bounds DEF ThreadTypes, Command, Given, StartAnalysis, StartTrading, StopTrading, StopEngine,
       Pause, Resume, CloseAll, KillSwitch, SetReduceOnly, CloseSymbol, RefreshScreen, BeginSync, StartClears, KillFlag, SyncAccount
  <1>3. PICK place \in {"idle", "started", "wait", "outer", "syncing"} : Goto(c, place)
    <2>1. \/ pc' = pc /\ pc[c] = "idle"
          \/ \E place \in {"idle", "started", "wait", "outer", "syncing"} : Goto(c, place)
      BY DEF Command, Given, StartAnalysis, StartTrading, StopTrading, StopEngine, Pause,
         Resume, CloseAll, KillSwitch, SetReduceOnly, CloseSymbol, RefreshScreen, BeginSync, StartClears, KillFlag, SyncAccount, WantBook
    <2>2. pc = [pc EXCEPT ![c] = pc[c]]
      BY <1>1 DEF ThreadTypes
    <2>. QED  BY <2>1, <2>2 DEF Goto
  <1>4. LockInv'
    BY <1>1, <1>2, <1>3, LockAside DEF Inside
  <1>5. \/ pc'[Bot] = pc[Bot] /\ target'[Bot] = target[Bot]
        \/ pc[Bot] \notin Entering /\ pc'[Bot] \notin Entering
    <2>1. c # Bot => pc'[Bot] = pc[Bot]
      BY <1>1, <1>3, Bounds DEF ThreadTypes, Goto
    <2>2. c = Bot => pc'[Bot] = place
      BY <1>1, <1>3, Bounds DEF ThreadTypes, Goto
    <2>. QED  BY <1>2, <1>3, <2>1, <2>2 DEF Entering
  <1>6. EntryInv'
    BY <1>1, <1>2, <1>5, EntryAside
  <1>. QED  BY <1>4, <1>6

\* The bot's pass up to the entries, and a signal passed over.
LEMMA TickStep ==
    ASSUME EngineInv,
           \/ \E kind \in {"monitor", "fast", "full"} : TickStarts(kind)
           \/ DrawdownCheck \/ DailyCheck \/ Scan \/ EndEntries
           \/ \E s \in Symbols : PassOver(s)
    PROVE  LockInv' /\ EntryInv'
  <1> USE DEF flags, thread, entry, outside, book
  <1>1. ThreadTypes /\ LockInv /\ EntryInv /\ Bot \in Threads
    BY Bounds DEF EngineInv, Typed
  <1>2. /\ UNCHANGED <<pos, lock, work, armed, killed, target>>
        /\ pc[Bot] \notin Inside \cup Entering
    BY DEF TickStarts, BeginSync, DrawdownCheck, DailyCheck, Scan, EndEntries, PassOver,
       Inside, Entering
  <1>3. PICK place : Goto(Bot, place) /\ place \notin Inside \cup Entering
    <2>1. \/ pc' = pc
          \/ \E place \in {"idle", "syncing", "wait", "daily", "scan", "entries"} : Goto(Bot, place)
      BY DEF TickStarts, BeginSync, DrawdownCheck, DailyCheck, AfterDaily, Scan, EndEntries,
         PassOver, WantBook
    <2>2. pc = [pc EXCEPT ![Bot] = pc[Bot]]
      BY <1>1 DEF ThreadTypes
    <2>. QED  BY <1>2, <2>1, <2>2 DEF Goto, Inside, Entering
  <1>4. LockInv'
    BY <1>1, <1>2, <1>3, LockAside
  <1>5. pc'[Bot] \notin Entering
    BY <1>1, <1>3 DEF ThreadTypes, Goto
  <1>6. EntryInv'
    BY <1>1, <1>2, <1>5, EntryAside
  <1>. QED  BY <1>4, <1>6

\* A thread at the lock, or inside a locked section.
LEMMA BookStep ==
    ASSUME EngineInv, NEW c \in Threads, NEW t,
           \/ TakeBook(c) \/ CloseAllLocks(c) \/ DecideExits(c) \/ ReleaseBook(c)
           \/ t \in Trades /\ (PartialClose(c, t) \/ CloseOne(c, t))
    PROVE  EntryInv'
  <1> USE DEF flags, thread, entry, outside
  <1>1. ThreadTypes /\ BookTypes /\ LockInv /\ EntryInv
    BY DEF EngineInv, Typed
  <1>2. UNCHANGED <<armed, killed>>
    BY DEF TakeBook, CloseAllLocks, DecideExits, ReleaseBook, PartialClose, CloseOne
  <1>3. \/ pc'[Bot] = pc[Bot] /\ target'[Bot] = target[Bot]
        \/ pc[Bot] \notin Entering /\ pc'[Bot] \notin Entering
    <2>1. CASE c = Bot
      <3>1. pc[Bot] \in {"wait", "outer", "checking", "closing", "booking"}
        BY <2>1 DEF TakeBook, CloseAllLocks, DecideExits, ReleaseBook, PartialClose, CloseOne
      <3>2. \/ pc' = pc
            \/ \E place \in {"wait", "checking", "closing", "booking", AfterBook(c)} : Goto(c, place)
        BY DEF TakeBook, CloseAllLocks, DecideExits, ReleaseBook, PartialClose, CloseOne, WantBook
      <3>3. AfterBook(c) \notin Entering
        BY DEF AfterBook, Entering
      <3>4. pc'[Bot] \notin Entering
        BY <1>1, <2>1, <3>1, <3>2, <3>3, Bounds DEF ThreadTypes, Goto, Entering
      <3>. QED  BY <3>1, <3>4 DEF Entering
    <2>2. CASE c # Bot
      BY <1>1, <2>2, Bounds DEF ThreadTypes, TakeBook, CloseAllLocks, DecideExits, ReleaseBook,
         PartialClose, CloseOne, WantBook, Goto
    <2>. QED  BY <2>1, <2>2
  <1>4. \A u \in Trades : /\ pos'[u].sym = pos[u].sym /\ pos'[u].late = pos[u].late
                          /\ \/ pos'[u].st = pos[u].st
                             \/ pos[u].st = "open" /\ pos'[u].st = "booking"
    <2>1. CASE t \in Trades /\ PartialClose(c, t)
      BY <1>1, <2>1, PartialPositions
    <2>2. CASE t \in Trades /\ CloseOne(c, t)
      <3>1. pos[t].st = "open"
        BY <1>1, <2>2 DEF LockInv, Locked, Inside, CloseOne, Open
      <3>. QED  BY <1>1, <2>2, <3>1, ClosePositions
    <2>3. CASE TakeBook(c) \/ CloseAllLocks(c) \/ DecideExits(c) \/ ReleaseBook(c)
      BY <2>3 DEF TakeBook, CloseAllLocks, DecideExits, ReleaseBook
    <2>. QED  BY <2>1, <2>2, <2>3
  <1>. QED  BY <1>1, <1>2, <1>3, <1>4, EntryAside

\* The bot from the check of the kill flag to the attachment.
LEMMA OpeningStep ==
    ASSUME EngineInv, NEW s \in Symbols,
           \/ Look(s) \/ Reserve \/ RiskGate \/ OpenRaises
           \/ Append \/ Void \/ Register \/ Attach
    PROVE  LockInv' /\ EntryInv'
  <1> USE DEF flags, thread, entry, outside, book
  <1>1. Typed /\ ThreadTypes /\ LockInv /\ EntryInv /\ Bot \in Threads
    BY Bounds DEF EngineInv, Typed
  <1>2. pc[Bot] \notin Inside
    BY DEF Look, LookAnyway, Reserve, RiskGate, OpenRaises, Append, AppendUnlocked, Void, Register,
       Attach, Inside
  <1>3. PICK place \in {"looked", "reserved", "approved", "appended", "registered", "entries", "idle"} :
           Goto(Bot, place)
    BY DEF Look, LookAnyway, Reserve, RiskGate, OpenRaises, Append, AppendUnlocked, Void, Register, Attach
  <1>4. place \notin Inside
    BY DEF Inside
  <1>5. CASE Append \/ Void
    <2>1. LockFreeFor(Bot)
      BY <1>5 DEF Append, Void
    <2>2. \A t \in Trades : pos'[t].st = "booking" => pos[t].st = "booking"
      <3>1. CASE Append
        <4>1. pos' = [pos EXCEPT ![Newest + 1] =
                        [Unborn EXCEPT !.st = "open", !.sym = target[Bot], !.late = killed]]
          BY <3>1 DEF Append, AppendUnlocked
        <4>2. [Unborn EXCEPT !.st = "open", !.sym = target[Bot], !.late = killed].st = "open"
          BY DEF Unborn
        <4>. QED  BY <1>1, <4>1, <4>2 DEF Typed, BookTypes
      <3>2. CASE Void /\ Newest \in Open
        <4>1. pos' = [pos EXCEPT ![Newest] = [Unborn EXCEPT !.st = "void", !.late = pos[Newest].late]]
          BY <3>2 DEF Void
        <4>2. [Unborn EXCEPT !.st = "void", !.late = pos[Newest].late].st = "void"
          BY DEF Unborn
        <4>. QED  BY <1>1, <4>1, <4>2 DEF Typed, BookTypes
      <3>3. CASE Void /\ Newest \notin Open
        BY <3>3 DEF Void
      <3>. QED  BY <1>5, <3>1, <3>2, <3>3
    <2>3. LockInv'
      BY <1>1, <1>2, <1>3, <1>4, <2>1, <2>2, LockUntouched
    <2>. QED  BY <1>1, <1>5, <2>3, EntryAppended, EntryVoided
  <1>6. CASE ~Append /\ ~Void
    <2>1. UNCHANGED <<pos, lock, work>>
      BY <1>6 DEF Look, LookAnyway, Reserve, RiskGate, OpenRaises, Register, Attach
    <2>2. LockInv'
      BY <1>1, <1>2, <1>3, <1>4, <2>1, LockAside
    <2>. QED  BY <1>1, <1>6, <2>2, EntryChecked, EntryAttached
  <1>. QED  BY <1>5, <1>6

\* Days and reservations pass by themselves.
LEMMA OutsideStep ==
    ASSUME EngineInv,
           \/ DayRolls \/ GetStatus \/ \E s \in Symbols : RowExpires(s)
           \/ UNCHANGED vars
    PROVE  LockInv' /\ EntryInv'
  <1>1. UNCHANGED <<pos, lock, work, armed, killed, pc, target>>
    BY DEF DayRolls, GetStatus, RowExpires, vars, flags, thread, entry, outside, book
  <1>2. LockInv'
    BY <1>1 DEF EngineInv, LockInv, Locked, HalfClosed, Open
  <1>3. EntryInv'
    BY <1>1, EntryAside DEF EngineInv
  <1>. QED  BY <1>2, <1>3

LEMMA BookKept == EngineInv /\ [Next]_vars => LockInv' /\ EntryInv'
  <1> SUFFICES ASSUME EngineInv, [Next]_vars PROVE LockInv' /\ EntryInv'
    OBVIOUS
  <1>2. ThreadTypes /\ BookTypes /\ Typed /\ LockInv /\ EntryInv
    BY DEF EngineInv, Typed
  <1>3. ASSUME NEW c \in Threads, TakeBook(c) \/ CloseAllLocks(c) \/ Proceeds(c)
        PROVE  LockInv' /\ EntryInv'
    <2>1. CASE TakeBook(c) \/ CloseAllLocks(c)
      BY <1>2, <2>1, LockTaken, BookStep
    <2>2. CASE DecideExits(c) \/ ReleaseBook(c)
      BY <1>2, <2>2, LockHeld, BookStep
    <2>3. ASSUME NEW t \in Trades, PartialClose(c, t) \/ CloseOne(c, t)
          PROVE  LockInv' /\ EntryInv'
      BY <1>2, <2>3, LockHeld, BookStep
    <2>4. ASSUME NEW t \in Trades, BookClose(c, t)
          PROVE  LockInv' /\ EntryInv'
      BY <1>2, <2>4, LockHeld, EntryBooked
    <2>5. CASE StartClears(c) \/ KillFlag(c) \/ SyncAccount(c)
      BY <2>5, CommandStep
    <2>. QED  BY <1>3, <2>1, <2>2, <2>3, <2>4, <2>5 DEF Proceeds
  <1>4. ASSUME NEW c \in Threads, Command(c) PROVE LockInv' /\ EntryInv'
    BY <1>4, CommandStep
  <1>5. CASE ControlFile
    BY <1>5, CommandStep, Bounds DEF ControlFile, Command
  <1>6. CASE BotProceeds \/ \E kind \in {"monitor", "fast", "full"} : TickStarts(kind)
    <2>1. CASE \/ \E kind \in {"monitor", "fast", "full"} : TickStarts(kind)
               \/ DrawdownCheck \/ DailyCheck \/ Scan \/ EndEntries
               \/ \E s \in Symbols : PassOver(s)
      BY <2>1, TickStep
    <2>2. CASE \E s \in Symbols : Look(s)
      BY <2>2, OpeningStep
    <2>3. CASE \/ Reserve \/ RiskGate \/ OpenRaises \/ Append \/ Void \/ Register \/ Attach
      <3>1. target[Bot] \in Symbols
        BY <1>2, <2>3 DEF EntryInv, OneASymbol, Entering, Reserve, RiskGate, OpenRaises, Append,
           AppendUnlocked, Void, Register, Attach
      <3>. QED  BY <2>3, <3>1, OpeningStep
    <2>. QED  BY <1>6, <2>1, <2>2, <2>3 DEF BotProceeds
  <1>7. CASE DayRolls \/ GetStatus \/ (\E s \in Symbols : RowExpires(s)) \/ UNCHANGED vars
    BY <1>7, OutsideStep
  <1>8. CASE Restart
    BY <1>2, <1>8, Restarted
  <1>9. \A c \in Commanders : c \in Threads
    BY DEF Threads
  <1>. QED  BY <1>3, <1>4, <1>5, <1>6, <1>7, <1>8, <1>9 DEF Next

LEMMA NextInv == EngineInv /\ [Next]_vars => EngineInv'
  BY BookKept, TypesKept DEF EngineInv, EntryInv

LEMMA Invariance == Spec => []EngineInv
  BY InitInv, NextInv, PTL DEF Spec

-----------------------------------------------------------------------------
(***************************************************************************)
(* Theorems.                                                               *)
(***************************************************************************)
\* Engine flags, risk state, book, lock and threads keep their types; the
\* counter of open positions stays between zero and one more than the trades,
\* in whatever order threads count and resynchronise it.
THEOREM EngineTypes == Spec => []TypeOK
  <1>1. EngineInv => TypeOK
    <2> SUFFICES ASSUME EngineInv PROVE TypeOK
      OBVIOUS
    <2>1. ThreadTypes /\ BookTypes /\ OtherTypes /\ risk \in RiskState(Slots)
      BY DEF EngineInv, Typed
    <2>2. risk \in RiskState(MaxTrades + 1)
      BY <2>1, Bounds, 0 \in Int, 0 \in 0..MaxDays, RiskTypes DEF Slots
    <2>. QED  BY <2>1, <2>2 DEF TypeOK, ThreadTypes, BookTypes, OtherTypes, RiskState, Reasons, Position
  <1>. QED  BY <1>1, Invariance, PTL

\* A position that open_position has finished opening has an attachment,
\* however closes, their late disarm, opens and restarts interleave.
THEOREM OpenIsProtected == Spec => []ProtectedWhileOpen
  BY Invariance, PTL DEF EngineInv, EntryInv

\* Once the kill flag is set at most one position is ever opened again, in
\* any number of sessions.
THEOREM KillStops == Spec => []KillStopsEntries
  <1>1. EngineInv => KillStopsEntries
    <2> SUFFICES ASSUME EngineInv PROVE KillStopsEntries
      OBVIOUS
    <2> DEFINE late == {t \in Trades : pos[t].late}
    <2>1. \A t, u \in late : t = u
      BY DEF EngineInv, EntryInv, LateOnce
    <2>2. CASE late = {}
      BY <2>2, FS_EmptySet DEF KillStopsEntries
    <2>3. CASE \E t : t \in late
      <3>1. PICK t : late = {t}
        BY <2>1, <2>3
      <3>2. Cardinality(late) = 1
        BY <3>1, FS_Singleton
      <3>. QED  BY <3>2 DEF KillStopsEntries
    <2>. QED  BY <2>2, <2>3
  <1>. QED  BY <1>1, Invariance, PTL

\* No two live positions share a symbol: the check of the reservation holds
\* until the append.
THEOREM OnePositionASymbol == Spec => []OneASymbol
  BY Invariance, PTL DEF EngineInv, EntryInv
-----------------------------------------------------------------------------
(***************************************************************************)
(* Which steps touch the positions, the lock and the gate of an entry.     *)
(***************************************************************************)
LEMMA PositionsStay ==
    ASSUME EngineInv, [Next]_vars
    PROVE  \/ UNCHANGED pos
           \/ \E c \in Threads, t \in Trades :
                 PartialClose(c, t) \/ CloseOne(c, t) \/ BookClose(c, t)
           \/ Append \/ Void \/ Restart
  <1> USE DEF flags, thread, entry, outside, book
  <1>1. CASE \E c \in Threads : TakeBook(c) \/ CloseAllLocks(c) \/ Proceeds(c)
    BY <1>1 DEF Proceeds, TakeBook, CloseAllLocks, DecideExits, ReleaseBook, StartClears, KillFlag, SyncAccount
  <1>2. CASE (\E c \in Commanders : Command(c)) \/ ControlFile
    BY <1>2 DEF ControlFile, Command, StartAnalysis, StartTrading, StopTrading, StopEngine, Pause,
       Resume, CloseAll, KillSwitch, SetReduceOnly, CloseSymbol, RefreshScreen, BeginSync
  <1>3. CASE BotProceeds \/ \E kind \in {"monitor", "fast", "full"} : TickStarts(kind)
    BY <1>3 DEF BotProceeds, TickStarts, BeginSync, DrawdownCheck, DailyCheck, Scan, Look,
       LookAnyway, PassOver, EndEntries, Reserve, RiskGate, OpenRaises, Register, Attach
  <1>4. CASE (\E s \in Symbols : RowExpires(s)) \/ DayRolls \/ GetStatus \/ UNCHANGED vars
    BY <1>4 DEF RowExpires, DayRolls, GetStatus, vars
  <1>. QED  BY <1>1, <1>2, <1>3, <1>4 DEF Next

\* Nothing but the append adds to the open positions.
LEMMA OpenShrinks ==
    ASSUME EngineInv, [Next]_vars, ~Append
    PROVE  Open' \subseteq Open
  <1>1. BookTypes
    BY DEF EngineInv, Typed
  <1>2. SUFFICES ASSUME NEW t \in Trades, pos'[t].st = "open" PROVE pos[t].st = "open"
    BY DEF Open
  <1>3. CASE \E c \in Threads, u \in Trades :
                PartialClose(c, u) \/ CloseOne(c, u) \/ BookClose(c, u)
    <2>1. PICK c \in Threads, u \in Trades : PartialClose(c, u) \/ CloseOne(c, u) \/ BookClose(c, u)
      BY <1>3
    <2>2. CASE PartialClose(c, u)
      BY <1>1, <1>2, <2>2, PartialPositions
    <2>3. CASE CloseOne(c, u)
      BY <1>1, <1>2, <2>3, ClosePositions
    <2>4. CASE BookClose(c, u)
      <3>1. pos'[u].st = "closed" /\ (t # u => pos'[t] = pos[t])
        BY <1>1, <2>4 DEF BookTypes, BookClose, BookAmount, Unborn
      <3>. QED  BY <1>2, <3>1
    <2>. QED  BY <2>1, <2>2, <2>3, <2>4
  <1>4. CASE Void
    <2>1. [Unborn EXCEPT !.st = "void", !.late = pos[Newest].late].st = "void"
      BY DEF Unborn
    <2>2. \/ pos' = pos
          \/ pos' = [pos EXCEPT ![Newest] = [Unborn EXCEPT !.st = "void", !.late = pos[Newest].late]]
      BY <1>4 DEF Void
    <2>. QED  BY <1>1, <1>2, <2>1, <2>2 DEF BookTypes
  <1>5. CASE Restart
    <2>1. \A u \in Trades : \/ pos'[u] = [Unborn EXCEPT !.st = "gone", !.late = pos[u].late]
                            \/ pos'[u] = Unborn
      BY <1>5 DEF Restart
    <2>2. [Unborn EXCEPT !.st = "gone", !.late = pos[t].late].st = "gone" /\ Unborn.st = "unborn"
      BY DEF Unborn
    <2>. QED  BY <1>2, <2>1, <2>2
  <1>. QED  BY <1>2, <1>3, <1>4, <1>5, PositionsStay

\* Past the reservation the bot has come from it.
LEMMA GateBehind ==
    ASSUME EngineInv, [Next]_vars, pc'[Bot] \in {"reserved", "approved"}
    PROVE  pc[Bot] \in {"reserved", "approved"} \/ Reserve
  <1> USE DEF flags, thread, entry, outside, book
  <1>1. pc \in [Threads -> Places] /\ Bot \in Threads
    BY Bounds DEF EngineInv, Typed, ThreadTypes
  <1>2. CASE \E c \in Threads : TakeBook(c) \/ CloseAllLocks(c) \/ Proceeds(c)
    <2>1. PICK c \in Threads : TakeBook(c) \/ CloseAllLocks(c) \/ Proceeds(c)
      BY <1>2
    <2>2. AfterBook(c) \notin {"reserved", "approved"}
      BY DEF AfterBook
    <2>3. \/ pc' = pc
          \/ \E place \in {"wait", "checking", "closing", "booking", "idle", AfterBook(c)} : Goto(c, place)
      BY <2>1 DEF Proceeds, TakeBook, CloseAllLocks, PartialClose, CloseOne, BookClose, BookAmount,
         DecideExits, ReleaseBook, StartClears, KillFlag, SyncAccount, WantBook
    <2>. QED  BY <1>1, <2>2, <2>3 DEF Goto
  <1>3. CASE (\E c \in Commanders : Command(c)) \/ ControlFile
    <2>1. \/ pc' = pc
          \/ \E c \in Threads, place \in {"started", "wait", "outer", "syncing"} : Goto(c, place)
      BY <1>3 DEF Threads, ControlFile, Command, StartAnalysis, StartTrading, StopTrading, StopEngine,
         Pause, Resume, CloseAll, KillSwitch, SetReduceOnly, CloseSymbol, RefreshScreen, BeginSync, WantBook
    <2>. QED  BY <1>1, <2>1 DEF Goto
  <1>4. CASE BotProceeds \/ \E kind \in {"monitor", "fast", "full"} : TickStarts(kind)
    <2>1. CASE Reserve \/ RiskGate
      BY <2>1 DEF RiskGate
    <2>2. CASE ~Reserve /\ ~RiskGate
      <3>1. \/ pc' = pc
            \/ \E place \in Places \ {"reserved", "approved"} : Goto(Bot, place)
        BY <1>4, <2>2 DEF BotProceeds, TickStarts, BeginSync, DrawdownCheck, DailyCheck, AfterDaily,
           Scan, Look, LookAnyway, PassOver, EndEntries, OpenRaises, Append, AppendUnlocked, Void,
           Register, Attach, WantBook, Places
      <3>. QED  BY <1>1, <3>1 DEF Goto
    <2>. QED  BY <2>1, <2>2
  <1>5. CASE (\E s \in Symbols : RowExpires(s)) \/ DayRolls \/ GetStatus \/ Restart \/ UNCHANGED vars
    BY <1>1, <1>5 DEF RowExpires, DayRolls, GetStatus, Restart, vars
  <1>. QED  BY <1>2, <1>3, <1>4, <1>5 DEF Next

-----------------------------------------------------------------------------
(***************************************************************************)
(* The slots.                                                              *)
(***************************************************************************)
\* The reservation keeps a slot free up to the append, though the counter of
\* the risk manager may be stale by then.
SlotsKeptFree ==
    /\ NumOpen <= MaxPositions
    /\ pc[Bot] \in {"reserved", "approved"} => NumOpen < MaxPositions

LEMMA OpenIsFinite == IsFiniteSet(Trades) /\ IsFiniteSet(Open) /\ NumOpen \in Nat
  <1>1. IsFiniteSet(Trades)
    BY Bounds, FS_Interval DEF Trades
  <1>2. IsFiniteSet(Open)
    BY <1>1, FS_Subset DEF Open
  <1>. QED  BY <1>1, <1>2, FS_CardinalityType DEF NumOpen

LEMMA FewerOpen ==
    ASSUME Open' \subseteq Open
    PROVE  NumOpen' <= NumOpen /\ NumOpen' \in Nat
  <1>1. IsFiniteSet(Open) /\ IsFiniteSet(Open')
    BY OpenIsFinite, FS_Subset
  <1>. QED  BY <1>1, FS_Subset, FS_CardinalityType DEF NumOpen

LEMMA SlotsNext ==
    ASSUME EngineInv, SlotsKeptFree, IsFiniteSet(Symbols), [Next]_vars
    PROVE  SlotsKeptFree'
  <1>1. MaxPositions \in Nat /\ NumOpen \in Nat
    BY RiskAssumption, OpenIsFinite DEF RiskAssumption
  <1>2. CASE Append
    <2>1. pc[Bot] = "approved" /\ pc'[Bot] = "appended"
      BY <1>2, Bounds DEF Append, AppendUnlocked, Goto, EngineInv, Typed, ThreadTypes
    <2>2. Open' \subseteq Open \cup {Newest + 1}
      <3>1. \A t \in Trades : t # Newest + 1 => pos'[t] = pos[t]
        BY <1>2 DEF Append, AppendUnlocked, EngineInv, Typed, BookTypes
      <3>. QED  BY <3>1 DEF Open
    <2>3. /\ IsFiniteSet(Open \cup {Newest + 1})
          /\ Cardinality(Open \cup {Newest + 1}) <= NumOpen + 1
      <3>1. IsFiniteSet(Open)
        BY OpenIsFinite
      <3>2. /\ IsFiniteSet(Open \cup {Newest + 1})
            /\ Cardinality(Open \cup {Newest + 1}) \in {Cardinality(Open), Cardinality(Open) + 1}
        BY <3>1, FS_AddElement, Zenon
      <3>. QED  BY <1>1, <3>2 DEF NumOpen
    <2>4. NumOpen' <= NumOpen + 1
      <3>1. IsFiniteSet(Open') /\ Cardinality(Open') <= Cardinality(Open \cup {Newest + 1})
        BY <2>2, <2>3, FS_Subset
      <3>2. Cardinality(Open') \in Nat /\ Cardinality(Open \cup {Newest + 1}) \in Nat
        BY <2>3, <3>1, FS_CardinalityType
      <3>. QED  BY <1>1, <2>3, <3>1, <3>2 DEF NumOpen
    <2>5. NumOpen' \in Nat
      <3>1. IsFiniteSet(Open')
        BY <2>2, <2>3, FS_Subset
      <3>. QED  BY <3>1, FS_CardinalityType DEF NumOpen
    <2>. QED  BY <1>1, <2>1, <2>4, <2>5 DEF SlotsKeptFree
  <1>3. CASE ~Append
    <2>1. NumOpen' <= NumOpen /\ NumOpen' \in Nat
      BY <1>3, OpenShrinks, FewerOpen
    <2>2. ASSUME Reserve, pc'[Bot] \in {"reserved", "approved"} PROVE NumOpen < MaxPositions
      <3>1. NumOpen + Cardinality(rows) < MaxPositions
        BY <2>2, Bounds DEF Reserve, Goto, EngineInv, Typed, ThreadTypes
      <3>2. Cardinality(rows) \in Nat
        BY FS_Subset, FS_CardinalityType DEF EngineInv, Typed, OtherTypes
      <3>. QED  BY <1>1, <3>1, <3>2
    <2>. QED  BY <1>1, <2>1, <2>2, GateBehind DEF SlotsKeptFree
  <1>. QED  BY <1>2, <1>3

\* No more positions are open than the risk manager allows, though
\* its own counter is wrong between a command's close and the next
\* resynchronisation and a reservation may expire under the entry that made it:
\* the book and the reservations are counted together, and only the bot opens.
THEOREM PositionsWithinLimit == Spec => [](NumOpen <= MaxPositions)
  <1>1. Init => SlotsKeptFree
    <2> SUFFICES ASSUME Init PROVE SlotsKeptFree
      OBVIOUS
    <2>1. Open = {} /\ pc[Bot] = "idle"
      BY Bounds DEF Init, Open, Unborn
    <2>2. NumOpen = 0
      BY <2>1, FS_EmptySet DEF NumOpen
    <2>. QED  BY <2>1, <2>2, RiskAssumption DEF RiskAssumption, SlotsKeptFree
  <1>2. EngineInv /\ SlotsKeptFree /\ [Next]_vars => SlotsKeptFree'
    BY SlotsNext, EngineAssumption DEF EngineAssumption
  <1>3. SlotsKeptFree => NumOpen <= MaxPositions
    BY DEF SlotsKeptFree
  <1>. QED  BY <1>1, <1>2, <1>3, Invariance, PTL DEF Spec
-----------------------------------------------------------------------------
(***************************************************************************)
(* The holder of the lock gets done.                                       *)
(***************************************************************************)
\* Who holds the lock is inside, or about to take it a second time; who books
\* has a half-closed position to book.
HolderInv ==
    /\ \A c \in Threads : lock = c => pc[c] \in Inside \cup {"wait"}
    /\ \A c \in Threads : pc[c] = "booking" => \E t \in Trades : pos[t].st = "booking"

\* A bound on the steps thread c still takes before it gives up the lock.
StepsLeft(c) ==
    CASE pc[c] = "wait"     -> 3 * MaxTrades + 4
      [] pc[c] = "checking" -> 3 * MaxTrades + 3 - Cardinality(work)
      [] pc[c] = "closing"  -> 2 * Cardinality(work) + 1
      [] pc[c] = "booking"  -> 2 * Cardinality(work) + 2
      [] OTHER              -> 0

\* The guards of its next step, none of which another thread can falsify.
CanGoOn(c) ==
    \/ pc[c] = "wait" /\ LockFreeFor(c)
    \/ pc[c] \in {"checking", "closing"}
    \/ pc[c] = "booking" /\ \E t \in Trades : pos[t].st = "booking"

HolderAdvances ==
    [][\A c \in Threads : lock = c =>
          /\ lock' \in {c, Nobody} /\ StepsLeft(c)' <= StepsLeft(c)
          /\ TakeBook(c) \/ Proceeds(c) => StepsLeft(c)' < StepsLeft(c)]_vars

LEMMA WorkCounts ==
    ASSUME NEW w \in SUBSET Trades
    PROVE  IsFiniteSet(w) /\ Cardinality(w) \in 0..MaxTrades
  <1>1. IsFiniteSet(Trades) /\ Cardinality(Trades) = MaxTrades
    BY Bounds, FS_Interval DEF Trades
  <1>2. IsFiniteSet(w) /\ Cardinality(w) <= Cardinality(Trades)
    BY <1>1, FS_Subset
  <1>. QED  BY <1>1, <1>2, Bounds, FS_CardinalityType

\* What StepsLeft is at each place.
LEMMA StepsAre ==
    ASSUME NEW c
    PROVE  /\ pc[c] = "wait" => StepsLeft(c) = 3 * MaxTrades + 4
           /\ pc[c] = "checking" => StepsLeft(c) = 3 * MaxTrades + 3 - Cardinality(work)
           /\ pc[c] = "closing" => StepsLeft(c) = 2 * Cardinality(work) + 1
           /\ pc[c] = "booking" => StepsLeft(c) = 2 * Cardinality(work) + 2
           /\ pc[c] \notin Inside \cup {"wait"} => StepsLeft(c) = 0
  BY DEF StepsLeft, Inside

\* A thread goes on inside the locked section.
LEMMA HolderStep ==
    ASSUME EngineInv, EngineInv', HolderInv, NEW c \in Threads, lock = c, TakeBook(c) \/ Proceeds(c)
    PROVE  lock' \in {c, Nobody} /\ StepsLeft(c)' < StepsLeft(c)
  <1> DEFINE n == Cardinality(work)
             m == Cardinality(work')
  <1>1. /\ IsFiniteSet(work) /\ n \in 0..MaxTrades /\ m \in 0..MaxTrades /\ MaxTrades \in Nat
    <2>1. work \in SUBSET Trades /\ work' \in SUBSET Trades
      BY DEF EngineInv, Typed, BookTypes
    <2>. QED  BY <2>1, WorkCounts, Bounds
  <1>2. /\ pc[c] \in Inside \cup {"wait"} /\ pc \in [Threads -> Places]
        /\ work \subseteq Trades
    BY DEF HolderInv, EngineInv, Typed, ThreadTypes, BookTypes
  <1>3. /\ pc'[c] = "checking" => StepsLeft(c)' = 3 * MaxTrades + 3 - m
        /\ pc'[c] = "closing" => StepsLeft(c)' = 2 * m + 1
        /\ pc'[c] = "booking" => StepsLeft(c)' = 2 * m + 2
        /\ pc'[c] \notin Inside \cup {"wait"} => StepsLeft(c)' = 0
    BY DEF StepsLeft, Inside
  <1>4. CASE TakeBook(c)
    <2>1. pc[c] = "wait" /\ lock' = c /\ pc'[c] \in {"checking", "closing"}
      BY <1>2, <1>4 DEF TakeBook, Goto
    <2>2. StepsLeft(c) = 3 * MaxTrades + 4
      BY <2>1, StepsAre
    <2> HIDE DEF n, m
    <2>. QED  BY <1>1, <1>3, <2>1, <2>2
  <1>5. ASSUME NEW t \in Trades, PartialClose(c, t) PROVE lock' = c /\ StepsLeft(c)' < StepsLeft(c)
    <2>1. /\ pc[c] = "checking" /\ pc'[c] = "checking" /\ lock' = lock
          /\ work' = work \cup {t} /\ t \notin work
      BY <1>5 DEF PartialClose
    <2>2. m = n + 1
      BY <1>1, <2>1, FS_AddElement
    <2>3. StepsLeft(c) = 3 * MaxTrades + 3 - n
      BY <2>1, StepsAre
    <2> HIDE DEF n, m
    <2>. QED  BY <1>1, <1>3, <2>1, <2>2, <2>3
  <1>6. CASE DecideExits(c)
    <2>1. /\ pc[c] = "checking" /\ pc'[c] = "closing" /\ lock' = lock
          /\ work' \subseteq Trades \ work
      BY <1>2, <1>6 DEF DecideExits, Goto, Open
    <2>2. m <= MaxTrades - n
      <3>1. IsFiniteSet(Trades) /\ Cardinality(Trades) = MaxTrades
        BY Bounds, FS_Interval DEF Trades
      <3>2. Cardinality(Trades \ work) = MaxTrades - n
        <4>1. Cardinality(Trades \ work) = Cardinality(Trades) - Cardinality(Trades \cap work)
          BY <3>1, FS_Difference
        <4>2. Trades \cap work = work
          BY <1>2
        <4>. QED  BY <3>1, <4>1, <4>2
      <3>3. IsFiniteSet(Trades \ work)
        BY <3>1, FS_Difference
      <3>4. Cardinality(work') <= Cardinality(Trades \ work)
        BY <2>1, <3>3, FS_Subset
      <3>. QED  BY <3>2, <3>4
    <2>3. StepsLeft(c) = 3 * MaxTrades + 3 - n
      BY <2>1, StepsAre
    <2> HIDE DEF n, m
    <2>. QED  BY <1>1, <1>3, <2>1, <2>2, <2>3
  <1>7. ASSUME NEW t \in Trades, CloseOne(c, t) PROVE lock' = c /\ StepsLeft(c)' < StepsLeft(c)
    <2>1. /\ pc[c] = "closing" /\ pc'[c] = "booking" /\ lock' = lock
          /\ work' = work \ {t} /\ t \in work
      BY <1>2, <1>7 DEF CloseOne, Goto
    <2>2. m = n - 1
      BY <1>1, <2>1, FS_RemoveElement
    <2>3. StepsLeft(c) = 2 * n + 1
      BY <2>1, StepsAre
    <2> HIDE DEF n, m
    <2>. QED  BY <1>1, <1>3, <2>1, <2>2, <2>3
  <1>8. ASSUME NEW t \in Trades, BookClose(c, t) PROVE lock' = c /\ StepsLeft(c)' < StepsLeft(c)
    <2>1. pc[c] = "booking" /\ pc'[c] = "closing" /\ lock' = lock /\ work' = work
      BY <1>2, <1>8 DEF BookClose, BookAmount, Goto
    <2>2. StepsLeft(c) = 2 * n + 2 /\ m = n
      BY <2>1, StepsAre
    <2> HIDE DEF n, m
    <2>. QED  BY <1>1, <1>3, <2>1, <2>2
  <1>9. CASE ReleaseBook(c)
    <2>1. AfterBook(c) \notin Inside \cup {"wait"}
      BY DEF AfterBook, Inside
    <2>2. pc[c] = "closing" /\ lock' = Nobody /\ pc'[c] \notin Inside \cup {"wait"}
      BY <1>2, <1>9, <2>1 DEF ReleaseBook, Goto
    <2>3. StepsLeft(c) = 2 * n + 1
      BY <2>2, StepsAre
    <2> HIDE DEF n, m
    <2>. QED  BY <1>1, <1>3, <2>2, <2>3
  <1>10. ~StartClears(c) /\ ~KillFlag(c) /\ ~SyncAccount(c)
    BY <1>2 DEF StartClears, KillFlag, SyncAccount, Inside
  <1>. QED  BY <1>4, <1>5, <1>6, <1>7, <1>8, <1>9, <1>10 DEF Proceeds

\* The others leave the holder where it is.
LEMMA HolderAside ==
    ASSUME EngineInv, HolderInv, NEW c \in Threads, lock = c, [Next]_vars,
           ~(TakeBook(c) \/ Proceeds(c))
    PROVE  Restart \/ (lock' = c /\ pc'[c] = pc[c] /\ work' = work)
  <1> USE DEF flags, thread, entry, outside, book
  <1>1. /\ pc \in [Threads -> Places] /\ Nobody \notin Threads /\ Bot \in Threads
        /\ pc[c] \in Inside \cup {"wait"}
        /\ \A d \in Threads : d # c => pc[d] \notin Inside /\ ~LockFreeFor(d)
    BY Bounds DEF EngineInv, Typed, ThreadTypes, HolderInv, LockInv, Locked, LockFreeFor
  <1>2. ASSUME NEW d \in Threads, TakeBook(d) \/ CloseAllLocks(d) \/ Proceeds(d)
        PROVE  lock' = c /\ pc'[c] = pc[c] /\ work' = work
    <2>1. CASE d = c
      BY <1>1, <1>2, <2>1 DEF CloseAllLocks, Inside
    <2>2. CASE d # c
      <3>1. StartClears(d) \/ KillFlag(d) \/ SyncAccount(d)
        BY <1>1, <1>2, <2>2 DEF Proceeds, TakeBook, CloseAllLocks, PartialClose, CloseOne, BookClose,
           BookAmount, DecideExits, ReleaseBook, Inside
      <3>2. UNCHANGED <<lock, work>> /\ \E place : Goto(d, place)
        BY <3>1 DEF StartClears, KillFlag, SyncAccount, WantBook
      <3>. QED  BY <1>1, <2>2, <3>2 DEF Goto
    <2>. QED  BY <2>1, <2>2
  <1>3. ASSUME NEW d \in Threads, Command(d) PROVE lock' = c /\ pc'[c] = pc[c] /\ work' = work
    <2>1. pc[d] = "idle" /\ lock' = lock /\ work' = work
      BY <1>3 DEF Command, Given, StartAnalysis, StartTrading, StopTrading, StopEngine, Pause, Resume,
         CloseAll, KillSwitch, SetReduceOnly, CloseSymbol, RefreshScreen, BeginSync
    <2>2. d # c
      BY <1>1, <2>1 DEF Inside
    <2>3. pc' = pc \/ \E place : Goto(d, place)
      BY <1>3 DEF Command, StartAnalysis, StartTrading, StopTrading, StopEngine, Pause, Resume,
         CloseAll, KillSwitch, SetReduceOnly, CloseSymbol, RefreshScreen, BeginSync, WantBook
    <2>. QED  BY <1>1, <2>1, <2>2, <2>3 DEF Goto
  <1>4. CASE BotProceeds \/ \E kind \in {"monitor", "fast", "full"} : TickStarts(kind)
    <2>1. lock' = lock /\ work' = work /\ pc[Bot] \notin Inside \cup {"wait"}
      BY <1>4 DEF BotProceeds, TickStarts, BeginSync, DrawdownCheck, DailyCheck, Scan, Look,
         LookAnyway, PassOver, EndEntries, Reserve, RiskGate, OpenRaises, Append, AppendUnlocked,
         Void, Register, Attach, Inside
    <2>2. pc' = pc \/ \E place : Goto(Bot, place)
      BY <1>4 DEF BotProceeds, TickStarts, BeginSync, DrawdownCheck, DailyCheck, Scan, Look,
         LookAnyway, PassOver, EndEntries, Reserve, RiskGate, OpenRaises, Append, AppendUnlocked,
         Void, Register, Attach, WantBook
    <2>. QED  BY <1>1, <2>1, <2>2 DEF Goto
  <1>5. CASE (\E s \in Symbols : RowExpires(s)) \/ DayRolls \/ GetStatus \/ UNCHANGED vars
    BY <1>5 DEF RowExpires, DayRolls, GetStatus, vars
  <1>6. CASE ControlFile
    <2>1. Command(Bot)
      BY <1>6 DEF ControlFile, Command
    <2>. QED  BY <1>1, <1>3, <2>1
  <1>7. \A d \in Commanders : d \in Threads
    BY DEF Threads
  <1>. QED  BY <1>2, <1>3, <1>4, <1>5, <1>6, <1>7 DEF Next

\* Who takes the lock has a place among those of a holder.
LEMMA HolderKept ==
    ASSUME EngineInv, EngineInv', HolderInv, [Next]_vars
    PROVE  \A c \in Threads : lock' = c => pc'[c] \in Inside \cup {"wait"}
  <1> USE DEF flags, thread, entry, outside, book
  <1>1. pc \in [Threads -> Places] /\ Nobody \notin Threads
    BY Bounds DEF EngineInv, Typed, ThreadTypes
  <1>2. ASSUME NEW c \in Threads, lock' = c, lock # c PROVE TakeBook(c) \/ CloseAllLocks(c)
    <2>1. CASE \E d \in Threads : TakeBook(d) \/ CloseAllLocks(d) \/ Proceeds(d)
      <3>1. PICK d \in Threads : TakeBook(d) \/ CloseAllLocks(d) \/ Proceeds(d)
        BY <2>1
      <3>2. CASE SyncAccount(d)
        BY <1>2, <3>2 DEF SyncAccount
      <3>3. CASE ~SyncAccount(d)
        BY <1>1, <1>2, <3>1, <3>3 DEF Proceeds, TakeBook, CloseAllLocks, PartialClose, CloseOne,
           BookClose, BookAmount, DecideExits, ReleaseBook, StartClears, KillFlag
      <3>. QED  BY <3>2, <3>3
    <2>2. CASE (\E d \in Commanders : Command(d)) \/ ControlFile
      BY <1>2, <2>2 DEF ControlFile, Command, StartAnalysis, StartTrading, StopTrading, StopEngine,
         Pause, Resume, CloseAll, KillSwitch, SetReduceOnly, CloseSymbol, RefreshScreen, BeginSync
    <2>3. CASE BotProceeds \/ \E kind \in {"monitor", "fast", "full"} : TickStarts(kind)
      BY <1>2, <2>3 DEF BotProceeds, TickStarts, BeginSync, DrawdownCheck, DailyCheck, Scan, Look,
         LookAnyway, PassOver, EndEntries, Reserve, RiskGate, OpenRaises, Append, AppendUnlocked,
         Void, Register, Attach
    <2>4. CASE (\E s \in Symbols : RowExpires(s)) \/ DayRolls \/ GetStatus \/ Restart \/ UNCHANGED vars
      BY <1>1, <1>2, <2>4 DEF RowExpires, DayRolls, GetStatus, Restart, vars
    <2>. QED  BY <2>1, <2>2, <2>3, <2>4 DEF Next
  <1>3. ASSUME NEW c \in Threads, TakeBook(c) \/ CloseAllLocks(c)
        PROVE  pc'[c] \in Inside \cup {"wait"}
    BY <1>1, <1>3 DEF TakeBook, CloseAllLocks, WantBook, Goto, Inside
  <1>4. ASSUME NEW c \in Threads, lock' = c, lock = c PROVE pc'[c] \in Inside \cup {"wait"}
    <2>1. CASE TakeBook(c)
      BY <1>3, <2>1
    <2>2. CASE Proceeds(c)
      BY <1>1, <1>4, <2>2 DEF HolderInv, Proceeds, PartialClose, CloseOne, BookClose, BookAmount,
         DecideExits, ReleaseBook, StartClears, KillFlag, SyncAccount, Goto, Inside
    <2>3. CASE ~(TakeBook(c) \/ Proceeds(c))
      <3>1. ~Restart
        BY <1>1, <1>4 DEF Restart
      <3>. QED  BY <1>4, <2>3, <3>1, HolderAside DEF HolderInv
    <2>. QED  BY <2>1, <2>2, <2>3
  <1>. QED  BY <1>2, <1>3, <1>4

\* A half-closed position stays half closed until it is booked.
LEMMA BookingKept ==
    ASSUME EngineInv, EngineInv', HolderInv, [Next]_vars
    PROVE  \A c \in Threads : pc'[c] = "booking" => \E t \in Trades : pos'[t].st = "booking"
  <1> USE DEF flags, thread, entry, outside, book
  <1>1. /\ pc \in [Threads -> Places] /\ Bot \in Threads /\ BookTypes
        /\ \A c \in Threads : pc[c] = "booking" => lock = c
        /\ \A c \in Threads : pc'[c] = "booking" => lock' = c
    BY Bounds DEF EngineInv, Typed, ThreadTypes, LockInv, Locked, Inside
  <1>2. ASSUME NEW c \in Threads, pc'[c] = "booking", pc[c] # "booking"
        PROVE  \E t \in Trades : CloseOne(c, t)
    <2>1. CASE \E d \in Threads : TakeBook(d) \/ CloseAllLocks(d) \/ Proceeds(d)
      <3>1. PICK d \in Threads : TakeBook(d) \/ CloseAllLocks(d) \/ Proceeds(d)
        BY <2>1
      <3>2. CASE \E t \in Trades : CloseOne(d, t)
        BY <1>1, <1>2, <3>2 DEF CloseOne, Goto
      <3>3. AfterBook(d) # "booking"
        BY DEF AfterBook
      <3>4. CASE ~ \E t \in Trades : CloseOne(d, t)
        <4>1. pc' = pc \/ \E place \in {"wait", "checking", "closing", "idle", AfterBook(d)} : Goto(d, place)
          BY <3>1, <3>4 DEF Proceeds, TakeBook, CloseAllLocks, PartialClose, BookClose, BookAmount,
             DecideExits, ReleaseBook, StartClears, KillFlag, SyncAccount, WantBook
        <4>. QED  BY <1>1, <1>2, <3>3, <4>1 DEF Goto
      <3>. QED  BY <3>2, <3>4
    <2>2. CASE (\E d \in Commanders : Command(d)) \/ ControlFile
      <3>1. \/ pc' = pc
            \/ \E d \in Threads, place \in {"started", "wait", "outer", "syncing"} : Goto(d, place)
        BY <2>2 DEF Threads, ControlFile, Command, StartAnalysis, StartTrading, StopTrading, StopEngine,
           Pause, Resume, CloseAll, KillSwitch, SetReduceOnly, CloseSymbol, RefreshScreen, BeginSync, WantBook
      <3>. QED  BY <1>1, <1>2, <3>1 DEF Goto
    <2>3. CASE BotProceeds \/ \E kind \in {"monitor", "fast", "full"} : TickStarts(kind)
      <3>1. pc' = pc \/ \E place \in Places \ {"booking"} : Goto(Bot, place)
        BY <2>3 DEF BotProceeds, TickStarts, BeginSync, DrawdownCheck, DailyCheck, AfterDaily, Scan,
           Look, LookAnyway, PassOver, EndEntries, Reserve, RiskGate, OpenRaises, Append,
           AppendUnlocked, Void, Register, Attach, WantBook, Places
      <3>. QED  BY <1>1, <1>2, <3>1 DEF Goto
    <2>4. CASE (\E s \in Symbols : RowExpires(s)) \/ DayRolls \/ GetStatus \/ Restart \/ UNCHANGED vars
      BY <1>1, <1>2, <2>4 DEF RowExpires, DayRolls, GetStatus, Restart, vars
    <2>. QED  BY <2>1, <2>2, <2>3, <2>4 DEF Next
  <1>3. ASSUME NEW c \in Threads, NEW t \in Trades, CloseOne(c, t)
        PROVE  pos'[t].st = "booking"
    BY <1>1, <1>3, ClosePositions
  <1>4. ASSUME NEW c \in Threads, pc[c] = "booking", pc'[c] = "booking" PROVE UNCHANGED pos
    <2>1. ~Restart
      BY <1>4, <1>1 DEF Restart
    <2>2. ~Append /\ ~Void
      <3>1. pc[Bot] = "booking" \/ ~LockFreeFor(Bot)
        BY <1>1, <1>4, Bounds DEF LockFreeFor
      <3>. QED  BY <3>1 DEF Append, AppendUnlocked, Void
    <2>3. ASSUME NEW d \in Threads, NEW t \in Trades
          PROVE  ~(PartialClose(d, t) \/ CloseOne(d, t) \/ BookClose(d, t))
      <3>1. SUFFICES ASSUME PartialClose(d, t) \/ CloseOne(d, t) \/ BookClose(d, t) PROVE FALSE
        OBVIOUS
      <3>2. pc[d] \in Inside
        BY <3>1 DEF PartialClose, CloseOne, BookClose, BookAmount, Inside
      <3>3. d = c
        BY <1>1, <1>4, <3>2 DEF EngineInv, LockInv, Locked
      <3>4. BookClose(c, t)
        BY <1>4, <3>1, <3>3 DEF PartialClose, CloseOne
      <3>. QED  BY <1>1, <1>4, <3>4 DEF BookClose, BookAmount, Goto
    <2>. QED  BY <2>1, <2>2, <2>3, PositionsStay
  <1>. QED  BY <1>2, <1>3, <1>4 DEF HolderInv

LEMMA HolderInvariance == Spec => [](EngineInv /\ HolderInv)
  <1>1. Init => HolderInv
    BY Bounds DEF Init, HolderInv
  <1>2. EngineInv /\ HolderInv /\ [Next]_vars => EngineInv' /\ HolderInv'
    <2> SUFFICES ASSUME EngineInv, HolderInv, [Next]_vars PROVE EngineInv' /\ HolderInv'
      OBVIOUS
    <2>1. EngineInv'
      BY NextInv
    <2>. QED  BY <2>1, HolderKept, BookingKept DEF HolderInv
  <1>. QED  BY <1>1, <1>2, InitInv, PTL DEF Spec

\* Nobody waits for a thread that waits: who holds trader.lock always finds
\* the guard of its next step true, the second take of close_all included.
THEOREM HolderGoesOn == Spec => [](\A c \in Threads : lock = c => CanGoOn(c))
  <1>1. HolderInv => \A c \in Threads : lock = c => CanGoOn(c)
    BY DEF HolderInv, CanGoOn, LockFreeFor, Inside
  <1>. QED  BY <1>1, HolderInvariance, PTL

\* And it gets done: each of its steps brings it nearer to giving the lock up,
\* after 3 * MaxTrades + 4 of them at the latest; no other thread takes the lock
\* from it or adds to its work.  With the fairness of its thread this is why
\* every command returns.
THEOREM HolderGetsDone == Spec => HolderAdvances
  <1>1. ASSUME EngineInv, EngineInv', HolderInv, [Next]_vars, NEW c \in Threads, lock = c
        PROVE  /\ lock' \in {c, Nobody} /\ StepsLeft(c)' <= StepsLeft(c)
               /\ TakeBook(c) \/ Proceeds(c) => StepsLeft(c)' < StepsLeft(c)
    <2>1. StepsLeft(c) \in Nat /\ StepsLeft(c)' \in Nat
      <3>1. /\ Cardinality(work) \in 0..MaxTrades /\ Cardinality(work') \in 0..MaxTrades
            /\ MaxTrades \in Nat
        BY <1>1, WorkCounts, Bounds DEF EngineInv, Typed, BookTypes
      <3>. QED  BY <3>1 DEF StepsLeft
    <2>2. CASE TakeBook(c) \/ Proceeds(c)
      <3>1. lock' \in {c, Nobody} /\ StepsLeft(c)' < StepsLeft(c)
        BY <1>1, <2>2, HolderStep
      <3>. QED  BY <2>1, <3>1
    <2>3. CASE ~(TakeBook(c) \/ Proceeds(c)) /\ ~Restart
      <3>1. lock' = c /\ pc'[c] = pc[c] /\ work' = work
        BY <1>1, <2>3, HolderAside
      <3>2. StepsLeft(c)' = StepsLeft(c)
        BY <3>1 DEF StepsLeft
      <3>. QED  BY <2>1, <2>3, <3>1, <3>2
    <2>4. CASE Restart
      <3>1. lock' = Nobody /\ pc'[c] = "idle"
        BY <2>4 DEF Restart
      <3>2. StepsLeft(c)' = 0
        BY <3>1 DEF StepsLeft
      <3>. QED  BY <1>1, <2>1, <2>2, <3>1, <3>2
    <2>. QED  BY <2>2, <2>3, <2>4
  <1>2. EngineInv /\ EngineInv' /\ HolderInv /\ [Next]_vars =>
           [\A c \in Threads : lock = c =>
              /\ lock' \in {c, Nobody} /\ StepsLeft(c)' <= StepsLeft(c)
              /\ TakeBook(c) \/ Proceeds(c) => StepsLeft(c)' < StepsLeft(c)]_vars
    BY <1>1
  <1>. QED  BY <1>2, HolderInvariance, PTL DEF Spec, HolderAdvances
-----------------------------------------------------------------------------
(***************************************************************************)
(* The attachment is the position's own while only the bot closes.         *)
(***************************************************************************)
\* The commands that close positions from a thread of their own, or from the
\* bot's while it is between ticks.
HandCloses == {"stop_engine", "close_all", "close_symbol", "kill_switch"}

OwnAttachments ==
    /\ \A c \in Threads : c # Bot => pc[c] \in {"idle", "started", "syncing"}
    /\ \A s \in Symbols : armed[s] # 0 =>
          armed[s] \in Trades /\ pos[armed[s]].st \in Live /\ pos[armed[s]].sym = s
    /\ pc[Bot] \in {"appended", "registered"} => Newest \in Open /\ armed[target[Bot]] = 0

\* Who else writes the attachments.
LEMMA ArmedStays ==
    ASSUME [Next]_vars
    PROVE  \/ UNCHANGED armed
           \/ \E c \in Threads, t \in Trades : BookClose(c, t)
           \/ Attach
  <1> USE DEF flags, thread, entry, outside, book
  <1>1. CASE \E c \in Threads : TakeBook(c) \/ CloseAllLocks(c) \/ Proceeds(c)
    BY <1>1 DEF Proceeds, TakeBook, CloseAllLocks, PartialClose, CloseOne, DecideExits, ReleaseBook,
       StartClears, KillFlag, SyncAccount
  <1>2. CASE (\E c \in Commanders : Command(c)) \/ ControlFile
    BY <1>2 DEF ControlFile, Command, StartAnalysis, StartTrading, StopTrading, StopEngine, Pause,
       Resume, CloseAll, KillSwitch, SetReduceOnly, CloseSymbol, RefreshScreen, BeginSync
  <1>3. CASE BotProceeds \/ \E kind \in {"monitor", "fast", "full"} : TickStarts(kind)
    BY <1>3 DEF BotProceeds, TickStarts, BeginSync, DrawdownCheck, DailyCheck, Scan, Look,
       LookAnyway, PassOver, EndEntries, Reserve, RiskGate, OpenRaises, Append, AppendUnlocked,
       Void, Register
  <1>4. CASE (\E s \in Symbols : RowExpires(s)) \/ DayRolls \/ GetStatus \/ Restart \/ UNCHANGED vars
    BY <1>4 DEF RowExpires, DayRolls, GetStatus, Restart, vars
  <1>. QED  BY <1>1, <1>2, <1>3, <1>4 DEF Next

\* The commanders stay outside, and the bot goes from its append to its
\* attachment without a step in between that closes anything.
LEMMA PlacesAlone ==
    ASSUME EngineInv, OwnAttachments, Commands \cap HandCloses = {}, MaxBoots = 0, [Next]_vars
    PROVE  /\ \A c \in Threads : c # Bot => pc'[c] \in {"idle", "started", "syncing"}
           /\ pc'[Bot] \in {"appended", "registered"} =>
                 /\ target'[Bot] = target[Bot]
                 /\ Append \/ Register \/ pc[Bot] = pc'[Bot]
           /\ ~Restart
  <1> USE DEF flags, thread, entry, outside, book
  <1>1. /\ pc \in [Threads -> Places] /\ Bot \in Threads /\ Commanders \subseteq Threads
        /\ Bot \notin Commanders /\ target \in [Threads -> Symbols \cup {Nobody}]
        /\ \A c \in Threads : c # Bot => pc[c] \in {"idle", "started", "syncing"}
    BY Bounds DEF EngineInv, Typed, ThreadTypes, OwnAttachments, Threads
  <1>2. ~Restart
    BY DEF Restart, EngineInv, Typed, OtherTypes
  <1>3. ASSUME NEW c \in Threads, TakeBook(c) \/ CloseAllLocks(c) \/ Proceeds(c)
        PROVE  \/ c # Bot /\ Goto(c, "idle") /\ UNCHANGED target
               \/ c = Bot /\ pc[Bot] \notin {"appended", "registered"}
                          /\ \/ pc' = pc
                             \/ \E place \in Places \ {"appended", "registered"} : Goto(Bot, place)
    <2>1. AfterBook(c) \in Places \ {"appended", "registered"}
      BY DEF AfterBook, Places
    <2>2. pc[c] \notin {"idle", "appended", "registered"}
      BY <1>3 DEF Proceeds, TakeBook, CloseAllLocks, PartialClose, CloseOne, BookClose, BookAmount,
         DecideExits, ReleaseBook, StartClears, KillFlag, SyncAccount
    <2>3. CASE c = Bot
      <3>1. pc' = pc \/ \E place \in {"wait", "checking", "closing", "booking", "idle", AfterBook(c)} : Goto(c, place)
        BY <1>3 DEF Proceeds, TakeBook, CloseAllLocks, PartialClose, CloseOne, BookClose, BookAmount,
           DecideExits, ReleaseBook, StartClears, KillFlag, SyncAccount, WantBook
      <3>2. {"wait", "checking", "closing", "booking", "idle", AfterBook(c)} \subseteq Places \ {"appended", "registered"}
        BY <2>1 DEF Places
      <3>. QED  BY <2>2, <2>3, <3>1, <3>2
    <2>4. CASE c # Bot
      <3>1. pc[c] \in {"started", "syncing"}
        BY <1>1, <2>2, <2>4
      <3>2. StartClears(c) \/ SyncAccount(c)
        BY <1>3, <3>1 DEF Proceeds, TakeBook, CloseAllLocks, PartialClose, CloseOne, BookClose,
           BookAmount, DecideExits, ReleaseBook, KillFlag
      <3>. QED  BY <2>4, <3>2 DEF StartClears, SyncAccount
    <2>. QED  BY <2>3, <2>4
  <1>4. ASSUME NEW c \in Commanders, Command(c)
        PROVE  (pc' = pc \/ Goto(c, "started") \/ Goto(c, "syncing")) /\ UNCHANGED target
    <2>1. \A command \in HandCloses : ~Given(c, command)
      BY DEF Given
    <2>2. ~StopEngine(c) /\ ~CloseAll(c) /\ ~KillSwitch(c) /\ \A s \in Symbols : ~CloseSymbol(c, s)
      BY <2>1 DEF HandCloses, StopEngine, CloseAll, KillSwitch, CloseSymbol
    <2>. QED  BY <1>4, <2>2 DEF Command, StartAnalysis, StartTrading, StopTrading, Pause, Resume,
         SetReduceOnly, RefreshScreen, BeginSync
  <1>5. CASE ControlFile
    <2>1. ~Given(Bot, "close_all")
      BY DEF Given, HandCloses
    <2>2. pc' = pc /\ target' = target
      BY <1>5, <2>1 DEF ControlFile, Pause, Resume, CloseAll
    <2>. QED  BY <1>1, <1>2, <2>2
  <1>6. CASE BotProceeds \/ \E kind \in {"monitor", "fast", "full"} : TickStarts(kind)
    <2>1. /\ pc' = pc \/ \E place \in Places : Goto(Bot, place)
          /\ target' = target \/ Goto(Bot, "looked")
          /\ ~(Append \/ Register) => pc' = pc \/ \E place \in Places \ {"appended", "registered"} : Goto(Bot, place)
      BY <1>6 DEF BotProceeds, TickStarts, BeginSync, DrawdownCheck, DailyCheck, AfterDaily, Scan,
         Look, LookAnyway, PassOver, EndEntries, Reserve, RiskGate, OpenRaises, Append,
         AppendUnlocked, Void, Register, Attach, WantBook, Places
    <2>. QED  BY <1>1, <1>2, <2>1 DEF Goto
  <1>7. CASE (\E s \in Symbols : RowExpires(s)) \/ DayRolls \/ GetStatus \/ UNCHANGED vars
    <2>1. pc' = pc /\ target' = target
      BY <1>7 DEF RowExpires, DayRolls, GetStatus, vars
    <2>. QED  BY <1>1, <1>2, <2>1
  <1>8. CASE \E c \in Threads : TakeBook(c) \/ CloseAllLocks(c) \/ Proceeds(c)
    BY <1>1, <1>2, <1>3, <1>8 DEF Goto
  <1>9. CASE \E c \in Commanders : Command(c)
    BY <1>1, <1>2, <1>4, <1>9 DEF Goto
  <1>. QED  BY <1>2, <1>5, <1>6, <1>7, <1>8, <1>9 DEF Next

\* A live position stays live, in its symbol, until it is booked or voided.
LEMMA LiveStays ==
    ASSUME EngineInv, [Next]_vars, ~Restart, ~Void,
           NEW t \in Trades, pos[t].st \in Live, \A c \in Threads : ~BookClose(c, t)
    PROVE  pos'[t].st \in Live /\ pos'[t].sym = pos[t].sym
  <1>1. BookTypes
    BY DEF EngineInv, Typed
  <1>2. ASSUME NEW c \in Threads, NEW u \in Trades, PartialClose(c, u) \/ CloseOne(c, u)
        PROVE  pos'[t].st \in Live /\ pos'[t].sym = pos[t].sym
    BY <1>1, <1>2, PartialPositions, ClosePositions DEF Live
  <1>3. ASSUME NEW c \in Threads, NEW u \in Trades, BookClose(c, u)
        PROVE  pos'[t] = pos[t]
    <2>1. u # t
      BY <1>3
    <2>. QED  BY <1>1, <1>3, <2>1 DEF BookClose, BookAmount, BookTypes
  <1>4. CASE Append
    <2>1. t # Newest + 1
      <3>1. t \in Born
        BY DEF Born, Live
      <3>. QED  BY <3>1, Bounds DEF EngineInv, EntryInv, InOrder, Trades
    <2>. QED  BY <1>1, <1>4, <2>1 DEF Append, AppendUnlocked, BookTypes
  <1>. QED  BY <1>2, <1>3, <1>4, PositionsStay

LEMMA OwnKept ==
    ASSUME EngineInv, EngineInv', OwnAttachments, Commands \cap HandCloses = {}, MaxBoots = 0,
           [Next]_vars
    PROVE  OwnAttachments'
  <1> USE DEF flags, thread, entry, outside
  <1>1. /\ pos \in [Trades -> Position] /\ armed \in [Symbols -> 0..MaxTrades]
        /\ pc \in [Threads -> Places] /\ Bot \in Threads /\ MaxTrades \in Nat
        /\ Trades = 1..MaxTrades
        /\ \A t, u \in Trades :
              pos[t].st \in Live /\ pos[u].st \in Live /\ pos[t].sym = pos[u].sym => t = u
        /\ \A t \in Trades : pos[t].st \in Live => pos[t].sym \in Symbols
        /\ pc[Bot] \in {"appended", "registered"} =>
              target[Bot] \in Symbols /\ Newest \in Trades /\ pos[Newest].sym = target[Bot]
    <2>1. /\ pos \in [Trades -> Position] /\ armed \in [Symbols -> 0..MaxTrades]
          /\ pc \in [Threads -> Places] /\ Bot \in Threads /\ MaxTrades \in Nat
      BY Bounds DEF EngineInv, Typed, ThreadTypes, BookTypes
    <2>2. pc[Bot] \in {"appended", "registered"} =>
              target[Bot] \in Symbols /\ Newest \in Trades /\ pos[Newest].sym = target[Bot]
      BY DEF EngineInv, EntryInv, OneASymbol, Appended, Entering, OwnAttachments, Open, Live
    <2>. QED  BY <2>1, <2>2 DEF EngineInv, EntryInv, OneASymbol, Trades
  <1>2. /\ \A c \in Threads : c # Bot => pc'[c] \in {"idle", "started", "syncing"}
        /\ pc'[Bot] \in {"appended", "registered"} =>
              target'[Bot] = target[Bot] /\ (Append \/ Register \/ pc[Bot] = pc'[Bot])
        /\ ~Restart
    BY PlacesAlone
  <1>3. ASSUME NEW c \in Threads, NEW t \in Trades, BookClose(c, t) PROVE OwnAttachments'
    <2>1. /\ c = Bot /\ pc[Bot] = "booking" /\ pc'[Bot] = "closing" /\ pos[t].st \in Live
          /\ armed' = [armed EXCEPT ![pos[t].sym] = 0]
          /\ \A u \in Trades : u # t => pos'[u] = pos[u]
      BY <1>1, <1>3 DEF BookClose, BookAmount, OwnAttachments, Goto, Live
    <2>2. ASSUME NEW s \in Symbols, armed'[s] # 0
          PROVE  armed'[s] \in Trades /\ pos'[armed'[s]].st \in Live /\ pos'[armed'[s]].sym = s
      <3>1. s # pos[t].sym /\ armed'[s] = armed[s]
        BY <1>1, <2>1, <2>2
      <3>2. armed[s] \in Trades /\ pos[armed[s]].st \in Live /\ pos[armed[s]].sym = s
        BY <2>2, <3>1 DEF OwnAttachments
      <3>. QED  BY <2>1, <3>1, <3>2
    <2>. QED  BY <1>2, <2>1, <2>2 DEF OwnAttachments
  <1>4. CASE Void
    <2>1. /\ pc[Bot] = "appended" /\ pc'[Bot] = "entries" /\ armed' = armed /\ Newest \in Trades
          /\ armed[target[Bot]] = 0 /\ pos[Newest].sym = target[Bot]
          /\ \A u \in Trades : u # Newest => pos'[u] = pos[u]
      BY <1>1, <1>4 DEF Void, Goto, OwnAttachments
    <2>2. \A s \in Symbols : armed[s] # 0 => armed[s] # Newest
      BY <2>1 DEF OwnAttachments
    <2>. QED  BY <1>2, <2>1, <2>2 DEF OwnAttachments
  <1>5. ASSUME ~Void, \A c \in Threads, t \in Trades : ~BookClose(c, t)
        PROVE  \A t \in Trades : pos[t].st \in Live => pos'[t].st \in Live /\ pos'[t].sym = pos[t].sym
    BY <1>2, <1>5, LiveStays
  <1>6. CASE Attach
    <2>1. /\ pc[Bot] = "registered" /\ pc'[Bot] = "entries" /\ pos' = pos
          /\ armed' = [armed EXCEPT ![target[Bot]] = Newest]
          /\ Newest \in Open
      BY <1>1, <1>6 DEF Attach, Goto, OwnAttachments, book
    <2>. QED  BY <1>1, <1>2, <2>1 DEF OwnAttachments, Open, Live
  <1>7. CASE Append
    <2>1. /\ pc[Bot] = "approved" /\ armed' = armed /\ target' = target /\ LockFreeFor(Bot)
          /\ ~Void /\ \A c \in Threads, t \in Trades : ~BookClose(c, t)
      BY <1>1, <1>7 DEF Append, AppendUnlocked, Void, BookClose, BookAmount, OwnAttachments
    <2>2. \A s \in Symbols : armed'[s] # 0 =>
             armed'[s] \in Trades /\ pos'[armed'[s]].st \in Live /\ pos'[armed'[s]].sym = s
      BY <1>5, <2>1 DEF OwnAttachments
    <2>3. armed[target[Bot]] = 0
      <3>1. target[Bot] \in Symbols /\ \A t \in Open : pos[t].sym # target[Bot]
        BY <2>1 DEF EngineInv, EntryInv, OneASymbol, Entering
      <3>2. \A t \in Trades : pos[t].st # "booking"
        BY <1>1, <2>1, LockFree DEF EngineInv, Typed, Inside
      <3>. QED  BY <3>1, <3>2 DEF OwnAttachments, Live, Open
    <2>4. Newest' \in Open'
      <3>1. Newest + 1 \in Trades /\ pos'[Newest + 1].st = "open"
        <4>1. Newest \in 0..MaxTrades /\ Newest < MaxTrades
          BY <2>1 DEF EngineInv, EntryInv, InOrder
        <4>2. Newest + 1 \in Trades
          BY <1>1, <4>1
        <4>3. pos'[Newest + 1] = [Unborn EXCEPT !.st = "open", !.sym = target[Bot], !.late = killed]
          BY <1>1, <1>7, <4>2 DEF Append, AppendUnlocked
        <4>. QED  BY <4>2, <4>3 DEF Unborn
      <3>2. Newest' = Newest + 1
        <4>1. Born = 1..Newest /\ Newest \in Nat
          BY DEF EngineInv, EntryInv, InOrder
        <4>2. \A t \in Trades : t # Newest + 1 => pos'[t] = pos[t]
          BY <1>1, <1>7 DEF Append, AppendUnlocked
        <4>3. Born' = 1..(Newest + 1)
          BY <1>1, <3>1, <4>1, <4>2 DEF Born
        <4>4. Newest' \in 0..MaxTrades /\ Born' = 1..Newest'
          BY DEF EngineInv, EntryInv, InOrder
        <4>5. Newest + 1 \in Nat /\ Newest' \in Nat
          BY <1>1, <4>1, <4>4
        <4>. QED  BY <4>3, <4>4, <4>5
      <3>. QED  BY <3>1, <3>2 DEF Open
    <2>. QED  BY <1>2, <2>1, <2>2, <2>3, <2>4 DEF OwnAttachments
  <1>8. CASE ~Void /\ ~Attach /\ ~Append /\ \A c \in Threads, t \in Trades : ~BookClose(c, t)
    <2>1. armed' = armed
      BY <1>8, ArmedStays
    <2>2. \A s \in Symbols : armed'[s] # 0 =>
             armed'[s] \in Trades /\ pos'[armed'[s]].st \in Live /\ pos'[armed'[s]].sym = s
      BY <1>5, <1>8, <2>1 DEF OwnAttachments
    <2>3. ASSUME pc'[Bot] \in {"appended", "registered"}
          PROVE  Newest' \in Open' /\ armed'[target'[Bot]] = 0
      <3>1. pc[Bot] \in {"appended", "registered"} /\ target'[Bot] = target[Bot]
        BY <1>2, <1>8, <2>3 DEF Register
      <3>2. UNCHANGED pos
        <4>1. \A c \in Threads, t \in Trades : ~PartialClose(c, t) /\ ~CloseOne(c, t)
          BY <3>1 DEF OwnAttachments, PartialClose, CloseOne
        <4>. QED  BY <1>2, <1>8, <4>1, PositionsStay
      <3>3. Born' = Born /\ Open' = Open
        BY <3>2 DEF Born, Open
      <3>. QED  BY <2>1, <3>1, <3>3 DEF OwnAttachments, Newest
    <2>. QED  BY <1>2, <2>2, <2>3 DEF OwnAttachments
  <1>. QED  BY <1>3, <1>4, <1>6, <1>7, <1>8

\* While nobody but the bot closes, and the process does not restart, an
\* attachment is the open position's own: a close by hand between the append
\* and attach_protection, or a restart that forgets the book but not the
\* attachments, is what leaves one behind for the next position of the symbol.
THEOREM AttachmentStaysOwn ==
    ASSUME Commands \cap HandCloses = {}, MaxBoots = 0
    PROVE  Spec => []AttachmentIsOwn
  <1>1. Init => OwnAttachments
    BY Bounds DEF Init, OwnAttachments
  <1>2. EngineInv /\ OwnAttachments /\ [Next]_vars => EngineInv' /\ OwnAttachments'
    BY NextInv, OwnKept
  <1>3. EngineInv /\ OwnAttachments => AttachmentIsOwn
    <2> SUFFICES ASSUME EngineInv, OwnAttachments, NEW t \in Open
                 PROVE  armed[pos[t].sym] = t \/ BeingOpened(t)
      BY DEF AttachmentIsOwn
    <2>1. t \in Trades /\ pos[t].st \in Live /\ pos[t].sym \in Symbols
      BY DEF Open, Live, EngineInv, EntryInv, OneASymbol
    <2>2. armed[pos[t].sym] # 0 \/ BeingOpened(t)
      BY DEF EngineInv, EntryInv, ProtectedWhileOpen
    <2>. QED  BY <2>1, <2>2 DEF OwnAttachments, EngineInv, EntryInv, OneASymbol
  <1>. QED  BY <1>1, <1>2, <1>3, InitInv, PTL DEF Spec
=============================================================================
